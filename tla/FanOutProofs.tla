---------------------------- MODULE FanOutProofs -----------------------------
(***************************************************************************)
(* Proofs about the fan-out of events between processes and about the web  *)
(* chat's channel, for any number of processes, events, viewers, sockets,  *)
(* messages and uploads.  FanOutInv: beside what is promised of an event,  *)
(* what its item's tries, its row and the passes over it say of it.        *)
(* ChannelInv: beside presence and what is seen, what sockets, stamps and  *)
(* refreshes have to do with each other. That attachments stay and frames  *)
(* only go forward follows from the second.                                *)
(***************************************************************************)
EXTENDS MCFanOut, Integers, FiniteSetTheorems, SequenceTheorems, WellFoundedInduction, TLAPS

-----------------------------------------------------------------------------
(* The channel of the web chat.                                             *)

\* A set of numbers below a bound has a greatest.
LEMMA Greatest ==
  ASSUME NEW n \in Nat, NEW S \in SUBSET (0 .. n), S # {}
  PROVE  \E s \in S : \A t \in S : s >= t
<1>. DEFINE T == {n - s : s \in S}
<1>1. T \subseteq Nat /\ T # {}
  <2>1. \A s \in S : n - s \in Nat
    OBVIOUS
  <2>. QED  BY <2>1
<1>2. \E x \in T : \A y \in T : ~(<<y, x>> \in OpToRel(<, Nat))
  BY <1>1, NatLessThanWellFounded, WFMin
<1>3. PICK x \in T : \A y \in T : ~(y < x)
  BY <1>1, <1>2 DEF OpToRel
<1>4. PICK s \in S : x = n - s
  BY <1>3
<1>5. ASSUME NEW t \in S PROVE s >= t
  <2>1. n - t \in T
    OBVIOUS
  <2>2. ~(n - t < n - s)
    BY <1>3, <1>4, <2>1
  <2>3. s \in 0 .. n /\ t \in 0 .. n
    OBVIOUS
  <2>. QED  BY <2>2, <2>3
<1>. QED  BY <1>5

-----------------------------------------------------------------------------
(* The web chat's channel: what its rows hold.                               *)

\* The variables of the channel, by name.
MadeAt == {"new", "stamped", "stored", "relayed", "shown", "done", "dropped"}
MakeRows == [at : MadeAt, stamp : 0 .. Cardinality(Msgs), names : SUBSET Uploads]
Refreshers == [at : RefreshAt, got : LatestSet]
Refreshing == \E m \in Msgs : refresher[m].at /= "off"

\* The bounds are numbers, and the sets are finite.
LEMMA ChannelNumbers ==
  /\ MaxDrops \in Nat /\ Sockets \subseteq Nat /\ IsFiniteSet(Msgs) /\ Cardinality(Msgs) \in Nat
  /\ NoOne \notin Viewers /\ "none" \notin Msgs
BY ChannelAssumption, FS_CardinalityType

\* ChannelTypeOK in terms of them.
LEMMA ChannelRows ==
  ChannelTypeOK =>
    /\ sock \in [Sockets -> Viewers \cup {NoOne}] /\ closed \in SUBSET Sockets
    /\ told \in [Sockets -> [Viewers -> {"nothing", "here", "gone"}]]
    /\ make \in [Msgs -> MakeRows] /\ clock \in 0 .. Cardinality(Msgs)
    /\ linked \in [Uploads -> Msgs \cup {"none"}]
    /\ shown \in SUBSET Msgs /\ relayed \in SUBSET Msgs /\ onLine \in SUBSET Msgs
    /\ latest \in LatestSet /\ frame \in LatestSet
    /\ refresher \in [Msgs -> Refreshers] /\ pending = Refreshing
    /\ drops \in 0 .. MaxDrops
BY Zenon DEF ChannelTypeOK, MakeRows, MadeAt, Refreshers, Refreshing

\* And back, in the next state.
LEMMA ChannelTypedNext ==
    /\ sock' \in [Sockets -> Viewers \cup {NoOne}] /\ closed' \in SUBSET Sockets
    /\ told' \in [Sockets -> [Viewers -> {"nothing", "here", "gone"}]]
    /\ make' \in [Msgs -> MakeRows] /\ clock' \in 0 .. Cardinality(Msgs)
    /\ linked' \in [Uploads -> Msgs \cup {"none"}]
    /\ shown' \in SUBSET Msgs /\ relayed' \in SUBSET Msgs /\ onLine' \in SUBSET Msgs
    /\ latest' \in LatestSet /\ frame' \in LatestSet
    /\ refresher' \in [Msgs -> Refreshers] /\ pending' = Refreshing'
    /\ drops' \in 0 .. MaxDrops
    => ChannelTypeOK'
BY Zenon DEF ChannelTypeOK, MakeRows, MadeAt, Refreshers, Refreshing

\* The fields of a request.
LEMMA MakeFacts ==
  ASSUME NEW x \in MakeRows
  PROVE  x.at \in MadeAt /\ x.stamp \in Nat /\ x.stamp <= Cardinality(Msgs)
         /\ x.names \in SUBSET Uploads
BY ChannelNumbers DEF MakeRows

\* A request that goes on keeps its stamp and what it names.
LEMMA MadeGoes ==
  ASSUME NEW x \in MakeRows, NEW p \in MadeAt, NEW y, y = [x EXCEPT !.at = p]
  PROVE  y \in MakeRows /\ y.at = p /\ y.stamp = x.stamp /\ y.names = x.names
BY DEF MakeRows

\* The fields of a refresh task.
LEMMA RefreshFacts ==
  ASSUME NEW x \in Refreshers
  PROVE  x.at \in RefreshAt /\ x.got \in LatestSet
BY DEF Refreshers

\* What a refresh reads when nothing is stored.
LEMMA LatestFacts == /\ NoMsg \in LatestSet /\ NoMsg.at = 0
                     /\ \A x \in LatestSet : x.at \in Nat
BY ChannelNumbers DEF LatestSet, NoMsg

\* What it reads otherwise.
LEMMA LatestIs ==
  ASSUME NEW s \in 0 .. Cardinality(Msgs), NEW x, x = [at |-> s]
  PROVE  x \in LatestSet /\ x.at = s
BY DEF LatestSet

-----------------------------------------------------------------------------
(* The newest message.                                                      *)

\* The greatest stamp of a set of messages.
LEMMA GreatestStamp ==
  ASSUME NEW S, S # {}, NEW f, NEW n \in Nat, \A m \in S : f[m].stamp \in 0 .. n
  PROVE  LET x == CHOOSE s \in {f[m].stamp : m \in S} : \A m \in S : s >= f[m].stamp
         IN  /\ \E m \in S : x = f[m].stamp
             /\ \A m \in S : x >= f[m].stamp
<1>. DEFINE T == {f[m].stamp : m \in S}
<1>1. T \in SUBSET (0 .. n) /\ T # {}
  OBVIOUS
<1>2. \E s \in T : \A t \in T : s >= t
  BY <1>1, Greatest
<1>3. \E s \in T : \A m \in S : s >= f[m].stamp
  BY <1>2
<1>. QED  BY <1>3, Zenon

\* What is stored, and the newest of it, given the requests.
StoredOf(made) == {m \in Msgs : made[m].at \notin {"new", "stamped"}
                                /\ ~(made[m].at = "dropped" /\ made[m].stamp = 0)}
IsNewest(x, made) ==
  /\ x \in LatestSet
  /\ \A m \in StoredOf(made) : made[m].stamp <= x.at
  /\ x.at = 0 \/ \E m \in StoredOf(made) : x.at = made[m].stamp

\* What a refresh derives is the newest message.
LEMMA NewestOf ==
  ASSUME NEW made \in [Msgs -> MakeRows], NEW x,
         x = IF StoredOf(made) = {} THEN NoMsg
             ELSE [at |-> CHOOSE s \in {made[m].stamp : m \in StoredOf(made)} :
                            \A m \in StoredOf(made) : s >= made[m].stamp]
  PROVE  IsNewest(x, made)
<1>1. CASE StoredOf(made) = {}
  BY <1>1, LatestFacts DEF IsNewest
<1>2. CASE StoredOf(made) # {}
  <2>1. PICK n : n = Cardinality(Msgs)
    OBVIOUS
  <2>2. n \in Nat
    BY <2>1, ChannelNumbers
  <2>3. \A m \in StoredOf(made) : made[m].stamp \in 0 .. n
    <3>. TAKE m \in StoredOf(made)
    <3>1. made[m] \in MakeRows
      BY DEF StoredOf
    <3>. QED  BY <2>1, <2>2, <3>1, MakeFacts
  <2>4. PICK s : s = CHOOSE z \in {made[m].stamp : m \in StoredOf(made)} :
                       \A m \in StoredOf(made) : z >= made[m].stamp
    OBVIOUS
  <2>5. (\E m \in StoredOf(made) : s = made[m].stamp)
             /\ \A m \in StoredOf(made) : s >= made[m].stamp
    BY <1>2, <2>2, <2>3, <2>4, GreatestStamp
  <2>6. x = [at |-> s]
    BY <1>2, <2>4
  <2>7. s \in 0 .. n
    BY <2>3, <2>5
  <2>8. x \in LatestSet /\ x.at = s
    <3>1. s \in 0 .. Cardinality(Msgs)
      BY <2>1, <2>7
    <3>. QED  BY <2>6, <3>1, LatestIs
  <2>9. \A m \in StoredOf(made) : made[m].stamp <= s
    BY <2>2, <2>3, <2>5, <2>7
  <2>. QED  BY <2>5, <2>8, <2>9 DEF IsNewest
<1>. QED  BY <1>1, <1>2

\* So it is in this state.
LEMMA NewestFacts == ASSUME make \in [Msgs -> MakeRows] PROVE IsNewest(Newest, make)
<1>1. StoredMsgs = StoredOf(make)
  BY DEF StoredMsgs, StoredOf
<1>. QED  BY <1>1, NewestOf DEF Newest

\* And in the next.
LEMMA NewestNext == ASSUME make' \in [Msgs -> MakeRows] PROVE IsNewest(Newest', make')
<1>1. StoredMsgs' = StoredOf(make')
  BY DEF StoredMsgs, StoredOf
<1>. QED  BY <1>1, NewestOf DEF Newest

\* What is stored stays stored, under its stamp: the newest message is never an older one.
LEMMA NewestGrows ==
  ASSUME make \in [Msgs -> MakeRows], make' \in [Msgs -> MakeRows],
         \A m \in StoredOf(make) : m \in StoredOf(make') /\ make'[m].stamp = make[m].stamp
  PROVE  Newest.at <= Newest'.at /\ Newest.at \in Nat /\ Newest'.at \in Nat
<1>1. IsNewest(Newest, make) /\ IsNewest(Newest', make')
  BY NewestFacts, NewestNext
<1>2. Newest.at \in Nat /\ Newest'.at \in Nat
  BY <1>1, LatestFacts DEF IsNewest
<1>3. CASE Newest.at = 0
  BY <1>2, <1>3
<1>4. CASE \E m \in StoredOf(make) : Newest.at = make[m].stamp
  BY <1>1, <1>2, <1>4 DEF IsNewest
<1>. QED  BY <1>1, <1>2, <1>3, <1>4 DEF IsNewest
-----------------------------------------------------------------------------
(* What a step that leaves some variables alone keeps.                       *)

\* Presence stands while the sockets do.
LEMMA SocketsKept ==
  ASSUME UNCHANGED socketVars
  PROVE  /\ PresenceIsTrue => PresenceIsTrue'
         /\ SocketsFit => SocketsFit'
BY DEF socketVars, PresenceIsTrue, SocketsFit, Open

\* Stamps stand while the requests do.
LEMMA StampsKept ==
  ASSUME UNCHANGED <<make, clock>>
  PROVE  StampsFit => StampsFit'
BY DEF StampsFit

\* So do what is stored and the newest of it.
LEMMA NewestKept == ASSUME UNCHANGED make PROVE Newest' = Newest /\ StoredMsgs' = StoredMsgs
BY DEF Newest, StoredMsgs

\* Refreshes stand while their tasks do.
LEMMA RefreshesKept ==
  ASSUME UNCHANGED <<refresher, frame>>, Newest' = Newest
  PROVE  RefreshesFit => RefreshesFit'
BY DEF RefreshesFit

\* And so does whether one is running.
LEMMA RefreshingKept ==
  ASSUME UNCHANGED refresher
  PROVE  Refreshing' = Refreshing
BY DEF Refreshing

-----------------------------------------------------------------------------
(* The registry of sockets.                                                  *)

\* A socket is open when it has a viewer.
LEMMA SocketFacts ==
  /\ sock \in [Sockets -> Viewers \cup {NoOne}]
  => /\ Open \in SUBSET Sockets
     /\ \A c \in Open : sock[c] \in Viewers
     /\ \A c \in Sockets : c \in Open <=> sock[c] # NoOne
BY DEF Open

\* A viewer who connects is announced to the others, once however many sockets it has.
LEMMA ConnectShows ==
  ASSUME NEW c \in Sockets, NEW u \in Viewers, ChannelTypeOK, PresenceIsTrue, SocketsFit,
         ChannelConnect(c, u)
  PROVE  /\ sock' \in [Sockets -> Viewers \cup {NoOne}]
         /\ told' \in [Sockets -> [Viewers -> {"nothing", "here", "gone"}]]
         /\ PresenceIsTrue' /\ SocketsFit'
<1>1. /\ sock \in [Sockets -> Viewers \cup {NoOne}]
      /\ told \in [Sockets -> [Viewers -> {"nothing", "here", "gone"}]]
  BY Zenon, ChannelRows
<1>2. /\ c \notin Open /\ c \notin closed
      /\ told' = [o \in Sockets |-> IF o \in Open THEN [told[o] EXCEPT ![u] = "here"]
           ELSE told[o]]
      /\ sock' = [sock EXCEPT ![c] = u] /\ closed' = closed
  BY Zenon DEF ChannelConnect
<1>3. u # NoOne
  BY ChannelNumbers
<1>4. sock' \in [Sockets -> Viewers \cup {NoOne}]
  BY <1>1, <1>2
<1>5. ASSUME NEW o \in Sockets
      PROVE  /\ told[o] \in [Viewers -> {"nothing", "here", "gone"}]
             /\ told'[o] = IF o \in Open THEN [told[o] EXCEPT ![u] = "here"] ELSE told[o]
             /\ told'[o] \in [Viewers -> {"nothing", "here", "gone"}]
  BY <1>1, <1>2
<1>6. told' \in [Sockets -> [Viewers -> {"nothing", "here", "gone"}]]
  BY <1>2, <1>5
<1>7. sock'[c] = u /\ \A o \in Sockets : o # c => sock'[o] = sock[o]
  BY <1>1, <1>2
<1>8. /\ \A o \in Sockets : o \in Open <=> sock[o] # NoOne
      /\ \A o \in Sockets : o \in Open' <=> sock'[o] # NoOne
  BY DEF Open
<1>9. \A o \in Sockets : o \in Open' <=> (o \in Open \/ o = c)
  BY <1>3, <1>7, <1>8
<1>10. PresenceIsTrue'
  <2>. SUFFICES ASSUME NEW o \in Open', NEW p \in Viewers, told'[o][p] # "nothing"
                PROVE  told'[o][p] = "here" <=> \E q \in Open' : sock'[q] = p
    BY DEF PresenceIsTrue
  <2>1. o \in Sockets
    BY DEF Open
  <2>2. o \in Open
    <3>1. CASE o = c
      <4>1. told[c] = [v \in Viewers |-> "nothing"]
        BY <1>2 DEF SocketsFit
      <4>2. told'[c] = told[c]
        BY <1>2, <1>5
      <4>. QED  BY <3>1, <4>1, <4>2
    <3>. QED  BY <1>9, <2>1, <3>1
  <2>3. CASE p = u
    <3>1. told'[o][p] = "here"
      BY <1>5, <2>1, <2>2, <2>3
    <3>2. c \in Open' /\ sock'[c] = p
      BY <1>7, <1>9, <2>3
    <3>. QED  BY <3>1, <3>2
  <2>4. CASE p # u
    <3>1. told'[o][p] = told[o][p]
      BY <1>5, <2>1, <2>2, <2>4
    <3>2. (\E q \in Open' : sock'[q] = p) <=> \E q \in Open : sock[q] = p
      <4>1. Open \subseteq Sockets /\ Open' \subseteq Sockets
        BY DEF Open
      <4>. QED  BY <1>2, <1>7, <1>9, <2>4, <4>1
    <3>. QED  BY <2>2, <3>1, <3>2 DEF PresenceIsTrue
  <2>. QED  BY <2>3, <2>4
<1>11. SocketsFit'
  <2>1. Open' \cap closed' = {}
    <3>1. Open \cap closed = {} /\ Open \subseteq Sockets /\ Open' \subseteq Sockets
      BY DEF SocketsFit, Open
    <3>. QED  BY <1>2, <1>9, <3>1
  <2>2. \A o \in Sockets \ Open' : told'[o] = [v \in Viewers |-> "nothing"]
    <3>. TAKE o \in Sockets \ Open'
    <3>1. o \notin Open
      BY <1>9
    <3>. QED  BY <1>5, <3>1 DEF SocketsFit
  <2>. QED  BY <2>1, <2>2 DEF SocketsFit
<1>. QED  BY <1>4, <1>6, <1>10, <1>11

\* And is gone for them when its last socket closes.
LEMMA DisconnectShows ==
  ASSUME NEW c \in Sockets, ChannelTypeOK, PresenceIsTrue, SocketsFit, ChannelDisconnect(c)
  PROVE  /\ sock' \in [Sockets -> Viewers \cup {NoOne}] /\ closed' \in SUBSET Sockets
         /\ told' \in [Sockets -> [Viewers -> {"nothing", "here", "gone"}]]
         /\ PresenceIsTrue' /\ SocketsFit'
<1>1. /\ sock \in [Sockets -> Viewers \cup {NoOne}] /\ closed \in SUBSET Sockets
      /\ told \in [Sockets -> [Viewers -> {"nothing", "here", "gone"}]]
  BY Zenon, ChannelRows
<1>2. /\ sock[c] # NoOne
      /\ told' = [o \in Sockets |->
                    IF o = c THEN [u \in Viewers |-> "nothing"]
                    ELSE IF o \in AnnounceTo(c) THEN [told[o] EXCEPT ![sock[c]] = "gone"]
                    ELSE told[o]]
      /\ sock' = [sock EXCEPT ![c] = NoOne] /\ closed' = closed \cup {c}
  BY Zenon DEF ChannelDisconnect
<1>3. sock[c] \in Viewers /\ c \in Open
  BY <1>1, <1>2 DEF Open
<1>4. sock' \in [Sockets -> Viewers \cup {NoOne}] /\ closed' \in SUBSET Sockets
  BY <1>1, <1>2
<1>5. ASSUME NEW o \in Sockets
      PROVE  /\ told[o] \in [Viewers -> {"nothing", "here", "gone"}]
             /\ told'[o] = IF o = c THEN [u \in Viewers |-> "nothing"]
                           ELSE IF o \in AnnounceTo(c) THEN [told[o] EXCEPT ![sock[c]] = "gone"]
                           ELSE told[o]
             /\ told'[o] \in [Viewers -> {"nothing", "here", "gone"}]
  BY <1>1, <1>2
<1>6. told' \in [Sockets -> [Viewers -> {"nothing", "here", "gone"}]]
  BY <1>2, <1>5
<1>7. sock'[c] = NoOne /\ \A o \in Sockets : o # c => sock'[o] = sock[o]
  BY <1>1, <1>2
<1>8. /\ \A o \in Sockets : o \in Open <=> sock[o] # NoOne
      /\ \A o \in Sockets : o \in Open' <=> sock'[o] # NoOne
      /\ Open \subseteq Sockets /\ Open' \subseteq Sockets
  BY DEF Open
<1>9. \A o \in Sockets : o \in Open' <=> (o \in Open /\ o # c)
  BY <1>7, <1>8
<1>10. PresenceIsTrue'
  <2>. SUFFICES ASSUME NEW o \in Open', NEW p \in Viewers, told'[o][p] # "nothing"
                PROVE  told'[o][p] = "here" <=> \E q \in Open' : sock'[q] = p
    BY DEF PresenceIsTrue
  <2>1. o \in Sockets /\ o \in Open /\ o # c
    BY <1>8, <1>9
  <2>2. CASE \E q \in Open \ {c} : sock[q] = sock[c]
    <3>1. AnnounceTo(c) = {}
      BY <2>2 DEF AnnounceTo
    <3>2. told'[o] = told[o]
      BY <1>5, <2>1, <3>1
    <3>3. (\E q \in Open' : sock'[q] = p) <=> \E q \in Open : sock[q] = p
      BY <1>7, <1>8, <1>9, <2>2
    <3>. QED  BY <2>1, <3>2, <3>3 DEF PresenceIsTrue
  <2>3. CASE ~\E q \in Open \ {c} : sock[q] = sock[c]
    <3>1. o \in AnnounceTo(c)
      BY <2>1, <2>3 DEF AnnounceTo
    <3>2. told'[o] = [told[o] EXCEPT ![sock[c]] = "gone"]
      BY <1>5, <2>1, <3>1
    <3>3. CASE p = sock[c]
      <4>1. told'[o][p] = "gone"
        BY <1>5, <2>1, <3>2, <3>3
      <4>2. ~\E q \in Open' : sock'[q] = p
        BY <1>7, <1>8, <1>9, <2>3, <3>3
      <4>. QED  BY <4>1, <4>2
    <3>4. CASE p # sock[c]
      <4>1. told'[o][p] = told[o][p]
        BY <1>5, <2>1, <3>2, <3>4
      <4>2. (\E q \in Open' : sock'[q] = p) <=> \E q \in Open : sock[q] = p
        BY <1>7, <1>8, <1>9, <3>4
      <4>. QED  BY <2>1, <4>1, <4>2 DEF PresenceIsTrue
    <3>. QED  BY <3>3, <3>4
  <2>. QED  BY <2>2, <2>3
<1>11. SocketsFit'
  <2>1. Open' \cap closed' = {}
    <3>1. Open \cap closed = {}
      BY DEF SocketsFit
    <3>. QED  BY <1>2, <1>8, <1>9, <3>1
  <2>2. \A o \in Sockets \ Open' : told'[o] = [v \in Viewers |-> "nothing"]
    <3>. TAKE o \in Sockets \ Open'
    <3>1. CASE o = c
      BY <1>5, <3>1
    <3>2. CASE o # c
      <4>1. o \notin Open
        BY <1>9, <3>2
      <4>2. o \notin AnnounceTo(c)
        BY <4>1 DEF AnnounceTo
      <4>. QED  BY <1>5, <3>2, <4>1, <4>2 DEF SocketsFit
    <3>. QED  BY <3>1, <3>2
  <2>. QED  BY <2>1, <2>2 DEF SocketsFit
<1>. QED  BY <1>4, <1>6, <1>10, <1>11
-----------------------------------------------------------------------------
(* The rows of the requests.                                                 *)

\* The messages that took a stamp.
Started(made) == {k \in Msgs : made[k].at # "new"}

\* There are finitely many.
LEMMA StartedFinite ==
  ASSUME NEW made
  PROVE  /\ Started(made) \subseteq Msgs /\ IsFiniteSet(Started(made))
         /\ Cardinality(Started(made)) \in Nat
<1>1. Started(made) \subseteq Msgs
  BY DEF Started
<1>2. IsFiniteSet(Started(made))
  BY <1>1, ChannelNumbers, FS_Subset
<1>. QED  BY <1>1, <1>2, FS_CardinalityType

\* StampsFit in terms of them.
LEMMA StampsAre ==
  StampsFit <=> /\ clock = Cardinality(Started(make))
                /\ \A k \in Msgs : /\ make[k].stamp <= clock
                                   /\ make[k].at \notin {"new", "dropped"} => make[k].stamp > 0
BY Zenon DEF StampsFit, Started

\* The same in the next state.
LEMMA StampsAreNext ==
  /\ clock' = Cardinality(Started(make'))
  /\ \A k \in Msgs : /\ make'[k].stamp <= clock'
                     /\ make'[k].at \notin {"new", "dropped"} => make'[k].stamp > 0
  => StampsFit'
BY Zenon DEF StampsFit, Started

\* What is stored, given the requests.
LEMMA StoredAre == StoredMsgs = StoredOf(make) /\ StoredMsgs' = StoredOf(make')
BY DEF StoredMsgs, StoredOf

\* One request moves, the others do not.
LEMMA MadeRow ==
  ASSUME make \in [Msgs -> MakeRows], NEW m \in Msgs, NEW y \in MakeRows,
         make' = [make EXCEPT ![m] = y]
  PROVE  /\ make' \in [Msgs -> MakeRows] /\ make'[m] = y
         /\ \A k \in Msgs : k # m => make'[k] = make[k]
OBVIOUS

\* A message that is stored stays stored, under its stamp.
LEMMA MadeStored ==
  ASSUME make \in [Msgs -> MakeRows], NEW m \in Msgs, NEW y \in MakeRows,
         make' = [make EXCEPT ![m] = y],
         m \in StoredMsgs => y.at \notin {"new", "stamped", "dropped"} \/ (y.at = "dropped"
              /\ y.stamp # 0),
         m \in StoredMsgs => y.stamp = make[m].stamp
  PROVE  /\ StoredMsgs \subseteq StoredMsgs'
         /\ Newest.at <= Newest'.at /\ Newest.at \in Nat /\ Newest'.at \in Nat
<1>1. make' \in [Msgs -> MakeRows] /\ make'[m] = y /\ \A k \in Msgs : k # m => make'[k] = make[k]
  BY MadeRow
<1>2. \A k \in StoredOf(make) : k \in StoredOf(make') /\ make'[k].stamp = make[k].stamp
  <2>. TAKE k \in StoredOf(make)
  <2>1. k \in Msgs
    BY DEF StoredOf
  <2>2. CASE k = m
    BY <1>1, <2>2, StoredAre DEF StoredOf
  <2>3. CASE k # m
    BY <1>1, <2>1, <2>3 DEF StoredOf
  <2>. QED  BY <2>2, <2>3
<1>. QED  BY <1>1, <1>2, NewestGrows, StoredAre

\* A request that goes on, and one that is dropped, took its stamp before.
LEMMA MadeStamps ==
  ASSUME make \in [Msgs -> MakeRows], clock \in Nat, clock' = clock, StampsFit,
         NEW m \in Msgs, NEW y \in MakeRows, make' = [make EXCEPT ![m] = y],
         make[m].at \notin {"new", "dropped"}, y.at # "new",
         y.stamp = make[m].stamp \/ (y.at = "dropped" /\ y.stamp = 0)
  PROVE  StampsFit'
<1>1. make'[m] = y /\ \A k \in Msgs : k # m => make'[k] = make[k]
  BY MadeRow
<1>2. Started(make') = Started(make)
  BY <1>1 DEF Started
<1>3. /\ clock = Cardinality(Started(make))
      /\ \A k \in Msgs : /\ make[k].stamp <= clock
                         /\ make[k].at \notin {"new", "dropped"} => make[k].stamp > 0
  BY StampsAre
<1>4. ASSUME NEW k \in Msgs
      PROVE  /\ make'[k].stamp <= clock'
             /\ make'[k].at \notin {"new", "dropped"} => make'[k].stamp > 0
  <2>1. CASE k = m
    BY <1>1, <1>3, <2>1
  <2>2. CASE k # m
    BY <1>1, <1>3, <2>2
  <2>. QED  BY <2>1, <2>2
<1>. QED  BY <1>2, <1>3, <1>4, StampsAreNext

-----------------------------------------------------------------------------
(* The refresh tasks.                                                        *)

\* Refreshes stand while the newest message is no older.
LEMMA RefreshesGrow ==
  ASSUME UNCHANGED <<refresher, frame>>, refresher \in [Msgs -> Refreshers], frame \in LatestSet,
         Newest.at <= Newest'.at, Newest.at \in Nat, Newest'.at \in Nat, RefreshesFit
  PROVE  RefreshesFit'
<1>1. frame.at \in Nat /\ \A k \in Msgs : refresher[k].got.at \in Nat
  <2>1. \A k \in Msgs : refresher[k].got \in LatestSet
    BY RefreshFacts
  <2>. QED  BY <2>1, LatestFacts
<1>. QED  BY <1>1 DEF RefreshesFit

\* At most one task is running: the step is its own.
LEMMA RefreshMoves ==
  ASSUME refresher \in [Msgs -> Refreshers], NEW m \in Msgs, NEW y \in Refreshers,
         refresher' = [refresher EXCEPT ![m] = y],
         \A k \in Msgs : k # m => refresher[k].at = "off",
         frame'.at <= Newest'.at,
         y.at \in {"store", "tell"} => frame'.at <= y.got.at /\ y.got.at <= Newest'.at
  PROVE  /\ refresher' \in [Msgs -> Refreshers] /\ RefreshesFit'
         /\ Refreshing' = (y.at # "off")
<1>1. refresher' \in [Msgs -> Refreshers] /\ refresher'[m] = y
      /\ \A k \in Msgs : k # m => refresher'[k].at = "off"
  OBVIOUS
<1>2. RefreshesFit'
  BY <1>1 DEF RefreshesFit
<1>3. Refreshing' = (y.at # "off")
  BY <1>1 DEF Refreshing
<1>. QED  BY <1>1, <1>2, <1>3

\* At most one refresh is running.
LEMMA OnlyOneRefreshes ==
  ASSUME NEW m \in Msgs, RefreshesFit, refresher[m].at # "off"
  PROVE  \A k \in Msgs : k # m => refresher[k].at = "off"
BY DEF RefreshesFit
-----------------------------------------------------------------------------
(* The steps, one by one.                                                    *)

\* The parts of the invariant.
LEMMA ChannelParts ==
  ChannelInv => /\ ChannelTypeOK /\ PresenceIsTrue /\ OnlyStoredIsSeen
                /\ SocketsFit /\ StampsFit /\ RefreshesFit
BY Zenon DEF ChannelInv

\* And back, in the next state.
LEMMA ChannelPartsNext ==
  ASSUME ChannelTypeOK', PresenceIsTrue', OnlyStoredIsSeen', SocketsFit', StampsFit',
         RefreshesFit'
  PROVE  ChannelInv'
BY Zenon DEF ChannelInv

\* What was seen is stored while what is stored stays so.
LEMMA SeenStays ==
  ASSUME OnlyStoredIsSeen, StoredMsgs \subseteq StoredMsgs',
         \A k : k \in shown' \cup relayed' \cup onLine' =>
                  k \in shown \cup relayed \cup onLine \/ k \in StoredMsgs'
  PROVE  OnlyStoredIsSeen'
BY DEF OnlyStoredIsSeen

\* A request is past the transaction when its message is stored.
LEMMA IsStored ==
  ASSUME NEW m \in Msgs
  PROVE  /\ make[m].at \in {"stored", "relayed", "shown", "done"} => m \in StoredMsgs
         /\ make[m].at \in {"new", "stamped"} => m \notin StoredMsgs
BY DEF StoredMsgs

\* The same in the next state.
LEMMA IsStoredNext ==
  ASSUME NEW m \in Msgs, make'[m].at \in {"stored", "relayed", "shown", "done"}
  PROVE  m \in StoredMsgs'
BY DEF StoredMsgs

\* A socket opens.
LEMMA ConnectKeeps ==
  ASSUME NEW c \in Sockets, NEW u \in Viewers, ChannelInv, ChannelConnect(c, u)
  PROVE  ChannelInv'
<1>1. ChannelTypeOK /\ PresenceIsTrue /\ OnlyStoredIsSeen /\ SocketsFit /\ StampsFit
      /\ RefreshesFit
  BY Zenon, ChannelParts
<1>2. /\ sock' \in [Sockets -> Viewers \cup {NoOne}]
      /\ told' \in [Sockets -> [Viewers -> {"nothing", "here", "gone"}]]
      /\ PresenceIsTrue' /\ SocketsFit'
  BY Zenon, <1>1, ConnectShows
<1>3. UNCHANGED <<closed, make, clock, linked, shown, relayed, onLine, latest, pending, refresher,
                  frame, drops>>
  BY Zenon DEF ChannelConnect, refreshVars
<1>4. Newest' = Newest /\ StoredMsgs' = StoredMsgs /\ Refreshing' = Refreshing
  BY <1>3, NewestKept, RefreshingKept
<1>5. ChannelTypeOK'
  BY Zenon, <1>1, <1>2, <1>3, <1>4, ChannelRows, ChannelTypedNext
<1>6. OnlyStoredIsSeen'
  BY <1>1, <1>3, <1>4 DEF OnlyStoredIsSeen
<1>7. StampsFit' /\ RefreshesFit'
  BY <1>1, <1>3, <1>4, StampsKept, RefreshesKept
<1>. QED  BY Zenon, <1>2, <1>5, <1>6, <1>7, ChannelPartsNext

\* A socket closes.
LEMMA DisconnectKeeps ==
  ASSUME NEW c \in Sockets, ChannelInv, ChannelDisconnect(c)
  PROVE  ChannelInv'
<1>1. ChannelTypeOK /\ PresenceIsTrue /\ OnlyStoredIsSeen /\ SocketsFit /\ StampsFit
      /\ RefreshesFit
  BY Zenon, ChannelParts
<1>2. /\ sock' \in [Sockets -> Viewers \cup {NoOne}] /\ closed' \in SUBSET Sockets
      /\ told' \in [Sockets -> [Viewers -> {"nothing", "here", "gone"}]]
      /\ PresenceIsTrue' /\ SocketsFit'
  BY Zenon, <1>1, DisconnectShows
<1>3. UNCHANGED <<make, clock, linked, shown, relayed, onLine, latest, pending, refresher, frame,
                  drops>>
  BY Zenon DEF ChannelDisconnect, refreshVars
<1>4. Newest' = Newest /\ StoredMsgs' = StoredMsgs /\ Refreshing' = Refreshing
  BY <1>3, NewestKept, RefreshingKept
<1>5. ChannelTypeOK'
  BY Zenon, <1>1, <1>2, <1>3, <1>4, ChannelRows, ChannelTypedNext
<1>6. OnlyStoredIsSeen'
  BY <1>1, <1>3, <1>4 DEF OnlyStoredIsSeen
<1>7. StampsFit' /\ RefreshesFit'
  BY <1>1, <1>3, <1>4, StampsKept, RefreshesKept
<1>. QED  BY Zenon, <1>2, <1>5, <1>6, <1>7, ChannelPartsNext

\* A message takes its stamp.
LEMMA StampKeeps ==
  ASSUME NEW m \in Msgs, NEW as \in SUBSET Uploads, ChannelInv, Stamp(m, as)
  PROVE  ChannelInv'
<1>1. ChannelTypeOK /\ PresenceIsTrue /\ OnlyStoredIsSeen /\ SocketsFit /\ StampsFit
      /\ RefreshesFit
  BY Zenon, ChannelParts
<1>2. /\ make \in [Msgs -> MakeRows] /\ clock \in 0 .. Cardinality(Msgs)
      /\ refresher \in [Msgs -> Refreshers] /\ frame \in LatestSet
  BY Zenon, <1>1, ChannelRows
<1>3. /\ make[m].at = "new" /\ clock' = clock + 1
      /\ make' = [make EXCEPT ![m] = [at |-> "stamped", stamp |-> clock + 1, names |-> as]]
      /\ UNCHANGED <<sock, closed, told, linked, shown, relayed, onLine, latest, pending,
           refresher,
                     frame, drops>>
  BY Zenon DEF Stamp, MsgAt, socketVars, refreshVars
<1>4. PICK y : y = [at |-> "stamped", stamp |-> clock + 1, names |-> as]
  OBVIOUS
<1>5. PICK n : n = Cardinality(Msgs)
  OBVIOUS
<1>6. n \in Nat /\ clock \in Nat
  BY <1>2, <1>5, ChannelNumbers
<1>7. /\ IsFiniteSet(Started(make)) /\ clock = Cardinality(Started(make))
      /\ \A k \in Msgs : /\ make[k].stamp <= clock
                         /\ make[k].at \notin {"new", "dropped"} => make[k].stamp > 0
  BY <1>1, StampsAre, StartedFinite
<1>8. m \notin Started(make) /\ Started(make) \cup {m} \subseteq Msgs
  BY <1>3, StartedFinite DEF Started
<1>9. Cardinality(Started(make) \cup {m}) = clock + 1
  BY <1>7, <1>8, FS_AddElement
<1>10. clock + 1 <= n
  BY <1>5, <1>8, <1>9, ChannelNumbers, FS_Subset
<1>11. y \in MakeRows /\ y.at = "stamped" /\ y.stamp = clock + 1
  <2>1. clock + 1 \in 0 .. Cardinality(Msgs)
    BY <1>5, <1>6, <1>10
  <2>. QED  BY <1>4, <2>1 DEF MakeRows, MadeAt
<1>12. /\ make' \in [Msgs -> MakeRows] /\ make'[m] = y
       /\ \A k \in Msgs : k # m => make'[k] = make[k]
  BY <1>2, <1>3, <1>4, <1>11, MadeRow
<1>13. /\ StoredMsgs \subseteq StoredMsgs'
       /\ Newest.at <= Newest'.at /\ Newest.at \in Nat /\ Newest'.at \in Nat
  <2>1. m \notin StoredMsgs
    BY <1>3, IsStored
  <2>. QED  BY <1>2, <1>3, <1>4, <1>11, <2>1, MadeStored
<1>14. StampsFit'
  <2>1. Started(make') = Started(make) \cup {m}
    BY <1>11, <1>12 DEF Started
  <2>2. ASSUME NEW k \in Msgs
        PROVE  /\ make'[k].stamp <= clock'
               /\ make'[k].at \notin {"new", "dropped"} => make'[k].stamp > 0
    <3>1. CASE k = m
      BY <1>3, <1>6, <1>11, <1>12, <3>1
    <3>2. CASE k # m
      <4>1. make'[k] = make[k] /\ make[k].stamp \in Nat
        BY <1>2, <1>12, <3>2, MakeFacts
      <4>. QED  BY <1>3, <1>6, <1>7, <4>1
    <3>. QED  BY <3>1, <3>2
  <2>3. clock' = Cardinality(Started(make'))
    BY <1>3, <1>9, <2>1
  <2>. QED  BY <2>2, <2>3, StampsAreNext
<1>15. PresenceIsTrue' /\ SocketsFit'
  BY <1>1, <1>3, SocketsKept DEF socketVars
<1>16. RefreshesFit'
  BY <1>1, <1>2, <1>3, <1>13, RefreshesGrow
<1>17. ChannelTypeOK'
  <2>1. clock' \in 0 .. Cardinality(Msgs)
    BY <1>3, <1>5, <1>6, <1>10
  <2>2. Refreshing' = Refreshing
    BY <1>3, RefreshingKept
  <2>. QED  BY Zenon, <1>1, <1>3, <1>12, <2>1, <2>2, ChannelRows, ChannelTypedNext
<1>18. OnlyStoredIsSeen'
  BY <1>1, <1>3, <1>13, SeenStays
<1>. QED  BY Zenon, <1>14, <1>15, <1>16, <1>17, <1>18, ChannelPartsNext

\* A request that goes on: nothing else of the channel moves with it.
LEMMA RequestGoes ==
  ASSUME ChannelInv, NEW m \in Msgs, NEW y \in MakeRows, make' = [make EXCEPT ![m] = y],
         clock' = clock, UNCHANGED socketVars,
         make[m].at \in {"stamped", "stored", "relayed", "shown"},
         \/ y.at \in {"stored", "relayed", "shown", "done"} /\ y.stamp = make[m].stamp
         \/ y.at = "dropped" /\ y.stamp = IF make[m].at = "stamped" THEN 0 ELSE make[m].stamp
  PROVE  /\ make' \in [Msgs -> MakeRows] /\ make'[m] = y
         /\ PresenceIsTrue' /\ SocketsFit' /\ StampsFit'
         /\ StoredMsgs \subseteq StoredMsgs'
         /\ Newest.at <= Newest'.at /\ Newest.at \in Nat /\ Newest'.at \in Nat
<1>1. ChannelTypeOK /\ PresenceIsTrue /\ SocketsFit /\ StampsFit
  BY Zenon, ChannelParts
<1>2. make \in [Msgs -> MakeRows] /\ clock \in 0 .. Cardinality(Msgs)
  BY Zenon, <1>1, ChannelRows
<1>3. clock \in Nat
  BY <1>2, ChannelNumbers
<1>4. make[m].stamp > 0 /\ make[m].stamp \in Nat
  BY <1>1, <1>2, StampsAre, MakeFacts
<1>5. /\ StoredMsgs \subseteq StoredMsgs'
      /\ Newest.at <= Newest'.at /\ Newest.at \in Nat /\ Newest'.at \in Nat
  <2>1. make[m].at = "stamped" => m \notin StoredMsgs
    BY IsStored
  <2>2. /\ m \in StoredMsgs => y.at \notin {"new", "stamped", "dropped"}
             \/ (y.at = "dropped" /\ y.stamp # 0)
        /\ m \in StoredMsgs => y.stamp = make[m].stamp
    BY <1>4, <2>1
  <2>. QED  BY <1>2, <2>2, MadeStored
<1>6. StampsFit'
  BY <1>1, <1>2, <1>3, MadeStamps
<1>7. PresenceIsTrue' /\ SocketsFit'
  BY <1>1, SocketsKept
<1>. QED  BY <1>2, <1>5, <1>6, <1>7, MadeRow

\* Its transaction commits, and links the attachments that are free.
LEMMA CommitKeeps ==
  ASSUME NEW m \in Msgs, ChannelInv, CommitMessage(m)
  PROVE  ChannelInv'
<1>1. ChannelTypeOK /\ OnlyStoredIsSeen /\ RefreshesFit
  BY Zenon, ChannelParts
<1>2. /\ make \in [Msgs -> MakeRows] /\ linked \in [Uploads -> Msgs \cup {"none"}]
      /\ refresher \in [Msgs -> Refreshers] /\ frame \in LatestSet
  BY Zenon, <1>1, ChannelRows
<1>3. /\ make[m].at = "stamped" /\ make' = [make EXCEPT ![m].at = "stored"]
      /\ linked' = LinkFree(m)
      /\ UNCHANGED socketVars
      /\ UNCHANGED <<sock, closed, told, clock, shown, relayed, onLine, latest, pending,
           refresher,
                     frame, drops>>
  BY Zenon DEF CommitMessage, MsgAt, socketVars, refreshVars
<1>4. PICK y : y = [make[m] EXCEPT !.at = "stored"]
  OBVIOUS
<1>5. y \in MakeRows /\ y.at = "stored" /\ y.stamp = make[m].stamp
  BY <1>2, <1>4, MadeGoes DEF MadeAt
<1>6. make' = [make EXCEPT ![m] = y]
  BY <1>2, <1>3, <1>4
<1>7. /\ make' \in [Msgs -> MakeRows] /\ PresenceIsTrue' /\ SocketsFit' /\ StampsFit'
      /\ StoredMsgs \subseteq StoredMsgs'
      /\ Newest.at <= Newest'.at /\ Newest.at \in Nat /\ Newest'.at \in Nat
  BY <1>3, <1>5, <1>6, RequestGoes
<1>8. RefreshesFit'
  BY <1>1, <1>2, <1>3, <1>7, RefreshesGrow
<1>9. ChannelTypeOK'
  <2>1. linked' \in [Uploads -> Msgs \cup {"none"}]
    BY <1>2, <1>3 DEF LinkFree
  <2>2. Refreshing' = Refreshing
    BY <1>3, RefreshingKept
  <2>. QED  BY Zenon, <1>1, <1>3, <1>7, <2>1, <2>2, ChannelRows, ChannelTypedNext
<1>10. OnlyStoredIsSeen'
  BY <1>1, <1>3, <1>7, SeenStays
<1>. QED  BY Zenon, <1>7, <1>8, <1>9, <1>10, ChannelPartsNext

\* The relay to the platform is started.
LEMMA SpawnKeeps ==
  ASSUME NEW m \in Msgs, ChannelInv, SpawnRelay(m)
  PROVE  ChannelInv'
<1>1. ChannelTypeOK /\ OnlyStoredIsSeen /\ RefreshesFit
  BY Zenon, ChannelParts
<1>2. /\ make \in [Msgs -> MakeRows] /\ relayed \in SUBSET Msgs
      /\ refresher \in [Msgs -> Refreshers] /\ frame \in LatestSet
  BY Zenon, <1>1, ChannelRows
<1>3. /\ make[m].at = "stored" /\ make' = [make EXCEPT ![m].at = "relayed"]
      /\ relayed' = relayed \cup {m} /\ UNCHANGED socketVars
      /\ UNCHANGED <<sock, closed, told, clock, linked, shown, onLine, latest, pending, refresher,
                     frame, drops>>
  BY Zenon DEF SpawnRelay, MsgAt, socketVars, refreshVars
<1>4. PICK y : y = [make[m] EXCEPT !.at = "relayed"]
  OBVIOUS
<1>5. y \in MakeRows /\ y.at = "relayed" /\ y.stamp = make[m].stamp
  BY <1>2, <1>4, MadeGoes DEF MadeAt
<1>6. make' = [make EXCEPT ![m] = y]
  BY <1>2, <1>3, <1>4
<1>7. /\ make' \in [Msgs -> MakeRows] /\ make'[m] = y
      /\ PresenceIsTrue' /\ SocketsFit' /\ StampsFit' /\ StoredMsgs \subseteq StoredMsgs'
      /\ Newest.at <= Newest'.at /\ Newest.at \in Nat /\ Newest'.at \in Nat
  BY <1>3, <1>5, <1>6, RequestGoes
<1>8. RefreshesFit'
  BY <1>1, <1>2, <1>3, <1>7, RefreshesGrow
<1>9. ChannelTypeOK'
  <2>1. relayed' \in SUBSET Msgs
    BY <1>2, <1>3
  <2>2. Refreshing' = Refreshing
    BY <1>3, RefreshingKept
  <2>. QED  BY Zenon, <1>1, <1>3, <1>7, <2>1, <2>2, ChannelRows, ChannelTypedNext
<1>10. OnlyStoredIsSeen'
  <2>1. m \in StoredMsgs'
    BY <1>5, <1>7, IsStoredNext
  <2>. QED  BY <1>1, <1>3, <1>7, <2>1, SeenStays
<1>. QED  BY Zenon, <1>7, <1>8, <1>9, <1>10, ChannelPartsNext

\* It pushes.
LEMMA PushKeeps ==
  ASSUME NEW m \in Msgs, ChannelInv, PushToLine(m)
  PROVE  ChannelInv'
<1>1. ChannelTypeOK /\ PresenceIsTrue /\ OnlyStoredIsSeen /\ SocketsFit /\ StampsFit
      /\ RefreshesFit
  BY Zenon, ChannelParts
<1>2. onLine \in SUBSET Msgs /\ relayed \in SUBSET Msgs
  BY Zenon, <1>1, ChannelRows
<1>3. /\ m \in relayed /\ relayed' = relayed \ {m}
      /\ onLine' = onLine \cup {m} \/ onLine' = onLine
      /\ UNCHANGED socketVars
      /\ UNCHANGED <<sock, closed, told, make, clock, linked, shown, latest, pending, refresher,
                     frame, drops>>
  BY Zenon DEF PushToLine, socketVars, refreshVars
<1>4. Newest' = Newest /\ StoredMsgs' = StoredMsgs /\ Refreshing' = Refreshing
  BY <1>3, NewestKept, RefreshingKept
<1>5. ChannelTypeOK'
  <2>1. relayed' \in SUBSET Msgs /\ onLine' \in SUBSET Msgs
    BY <1>2, <1>3
  <2>. QED  BY Zenon, <1>1, <1>3, <1>4, <2>1, ChannelRows, ChannelTypedNext
<1>6. OnlyStoredIsSeen'
  BY <1>1, <1>3, <1>4 DEF OnlyStoredIsSeen
<1>7. PresenceIsTrue' /\ SocketsFit' /\ StampsFit' /\ RefreshesFit'
  BY <1>1, <1>3, <1>4, SocketsKept, StampsKept, RefreshesKept
<1>. QED  BY Zenon, <1>5, <1>6, <1>7, ChannelPartsNext

\* The message is shown to the viewers.
LEMMA FanOutKeeps ==
  ASSUME NEW m \in Msgs, ChannelInv, FanOutMessage(m)
  PROVE  ChannelInv'
<1>1. ChannelTypeOK /\ OnlyStoredIsSeen /\ RefreshesFit
  BY Zenon, ChannelParts
<1>2. /\ make \in [Msgs -> MakeRows] /\ shown \in SUBSET Msgs
      /\ refresher \in [Msgs -> Refreshers] /\ frame \in LatestSet
  BY Zenon, <1>1, ChannelRows
<1>3. /\ make[m].at = "relayed" /\ make' = [make EXCEPT ![m].at = "shown"]
      /\ shown' = shown \cup {m} /\ UNCHANGED socketVars
      /\ UNCHANGED <<sock, closed, told, clock, linked, relayed, onLine, latest, pending,
           refresher,
                     frame, drops>>
  BY Zenon DEF FanOutMessage, MsgAt, socketVars, refreshVars
<1>4. PICK y : y = [make[m] EXCEPT !.at = "shown"]
  OBVIOUS
<1>5. y \in MakeRows /\ y.at = "shown" /\ y.stamp = make[m].stamp
  BY <1>2, <1>4, MadeGoes DEF MadeAt
<1>6. make' = [make EXCEPT ![m] = y]
  BY <1>2, <1>3, <1>4
<1>7. /\ make' \in [Msgs -> MakeRows] /\ make'[m] = y
      /\ PresenceIsTrue' /\ SocketsFit' /\ StampsFit' /\ StoredMsgs \subseteq StoredMsgs'
      /\ Newest.at <= Newest'.at /\ Newest.at \in Nat /\ Newest'.at \in Nat
  BY <1>3, <1>5, <1>6, RequestGoes
<1>8. RefreshesFit'
  BY <1>1, <1>2, <1>3, <1>7, RefreshesGrow
<1>9. ChannelTypeOK'
  <2>1. shown' \in SUBSET Msgs
    BY <1>2, <1>3
  <2>2. Refreshing' = Refreshing
    BY <1>3, RefreshingKept
  <2>. QED  BY Zenon, <1>1, <1>3, <1>7, <2>1, <2>2, ChannelRows, ChannelTypedNext
<1>10. OnlyStoredIsSeen'
  <2>1. m \in StoredMsgs'
    BY <1>5, <1>7, IsStoredNext
  <2>. QED  BY <1>1, <1>3, <1>7, <2>1, SeenStays
<1>. QED  BY Zenon, <1>7, <1>8, <1>9, <1>10, ChannelPartsNext

\* A request that is dropped gives its stamp up unless it was stored.
LEMMA DropsRow ==
  ASSUME NEW x \in MakeRows, NEW y,
         y = [x EXCEPT !.at = "dropped", !.stamp = IF x.at = "stamped" THEN 0 ELSE @]
  PROVE  y \in MakeRows /\ y.at = "dropped" /\ y.stamp = IF x.at = "stamped" THEN 0 ELSE x.stamp
<1>1. 0 \in 0 .. Cardinality(Msgs) /\ "dropped" \in MadeAt
  BY ChannelNumbers DEF MadeAt
<1>2. CASE x.at = "stamped"
  BY <1>1, <1>2 DEF MakeRows
<1>3. CASE x.at # "stamped"
  BY <1>1, <1>3 DEF MakeRows
<1>. QED  BY <1>2, <1>3

\* A request is dropped.
LEMMA DropKeeps ==
  ASSUME NEW m \in Msgs, ChannelInv, DropRequest(m)
  PROVE  ChannelInv'
<1>1. ChannelTypeOK /\ OnlyStoredIsSeen /\ RefreshesFit
  BY Zenon, ChannelParts
<1>2. /\ make \in [Msgs -> MakeRows] /\ drops \in 0 .. MaxDrops
      /\ refresher \in [Msgs -> Refreshers] /\ frame \in LatestSet
  BY Zenon, <1>1, ChannelRows
<1>3. /\ drops < MaxDrops /\ drops' = drops + 1 /\ make[m].at \in {"stamped", "stored", "relayed"}
      /\ make' = [make EXCEPT ![m].at = "dropped",
                              ![m].stamp = IF make[m].at = "stamped" THEN 0 ELSE @]
      /\ UNCHANGED socketVars
      /\ UNCHANGED <<sock, closed, told, clock, linked, shown, relayed, onLine, latest, pending,
                     refresher, frame>>
  BY Zenon DEF DropRequest, MsgAt, socketVars, refreshVars
<1>4. PICK x : x = make[m]
  OBVIOUS
<1>5. PICK y : y = [x EXCEPT !.at = "dropped", !.stamp = IF x.at = "stamped" THEN 0 ELSE @]
  OBVIOUS
<1>6. /\ y \in MakeRows /\ y.at = "dropped"
      /\ y.stamp = IF make[m].at = "stamped" THEN 0 ELSE make[m].stamp
  <2>1. x \in MakeRows
    BY <1>2, <1>4
  <2>2. y \in MakeRows /\ y.at = "dropped" /\ y.stamp = IF x.at = "stamped" THEN 0 ELSE x.stamp
    BY Zenon, <1>5, <2>1, DropsRow
  <2>. QED  BY <1>4, <2>2
<1>7. make' = [make EXCEPT ![m] = y]
  BY <1>2, <1>3, <1>4, <1>5
<1>8. /\ make' \in [Msgs -> MakeRows]
      /\ PresenceIsTrue' /\ SocketsFit' /\ StampsFit' /\ StoredMsgs \subseteq StoredMsgs'
      /\ Newest.at <= Newest'.at /\ Newest.at \in Nat /\ Newest'.at \in Nat
  BY <1>3, <1>6, <1>7, RequestGoes
<1>9. RefreshesFit'
  BY <1>1, <1>2, <1>3, <1>8, RefreshesGrow
<1>10. ChannelTypeOK'
  <2>1. drops' \in 0 .. MaxDrops
    BY <1>2, <1>3, ChannelNumbers
  <2>2. Refreshing' = Refreshing
    BY <1>3, RefreshingKept
  <2>. QED  BY Zenon, <1>1, <1>3, <1>8, <2>1, <2>2, ChannelRows, ChannelTypedNext
<1>11. OnlyStoredIsSeen'
  BY <1>1, <1>3, <1>8, SeenStays
<1>. QED  BY Zenon, <1>8, <1>9, <1>10, <1>11, ChannelPartsNext

-----------------------------------------------------------------------------
(* The refresh.                                                              *)

\* A frame is no newer than what is stored.
LEMMA FramesAre ==
  ASSUME ChannelTypeOK, RefreshesFit
  PROVE  /\ frame.at \in Nat /\ Newest.at \in Nat /\ Newest \in LatestSet /\ frame.at <= Newest.at
         /\ \A k \in Msgs : /\ refresher[k].got \in LatestSet /\ refresher[k].got.at \in Nat
                            /\ refresher[k].at \in {"store", "tell"} =>
                                 frame.at <= refresher[k].got.at
                                 /\ refresher[k].got.at <= Newest.at
<1>1. make \in [Msgs -> MakeRows] /\ refresher \in [Msgs -> Refreshers] /\ frame \in LatestSet
  BY Zenon, ChannelRows
<1>2. Newest \in LatestSet
  BY <1>1, NewestFacts DEF IsNewest
<1>3. \A k \in Msgs : refresher[k].got \in LatestSet
  BY <1>1, RefreshFacts
<1>. QED  BY <1>1, <1>2, <1>3, LatestFacts DEF RefreshesFit

\* A refresh is started, or coalesced into the one that runs.
LEMMA ScheduleKeeps ==
  ASSUME NEW m \in Msgs, ChannelInv, ScheduleRefresh(m)
  PROVE  ChannelInv'
<1>1. ChannelTypeOK /\ OnlyStoredIsSeen /\ RefreshesFit
  BY Zenon, ChannelParts
<1>2. /\ make \in [Msgs -> MakeRows] /\ pending = Refreshing /\ latest \in LatestSet
      /\ refresher \in [Msgs -> Refreshers] /\ frame \in LatestSet
  BY Zenon, <1>1, ChannelRows
<1>3. /\ make[m].at = "shown" /\ make' = [make EXCEPT ![m].at = "done"] /\ BeginRefresh(m)
      /\ UNCHANGED socketVars
      /\ UNCHANGED <<sock, closed, told, clock, linked, shown, relayed, onLine, frame, drops>>
  BY Zenon DEF ScheduleRefresh, MsgAt, socketVars
<1>4. PICK y : y = [make[m] EXCEPT !.at = "done"]
  OBVIOUS
<1>5. y \in MakeRows /\ y.at = "done" /\ y.stamp = make[m].stamp
  BY <1>2, <1>4, MadeGoes DEF MadeAt
<1>6. make' = [make EXCEPT ![m] = y]
  BY <1>2, <1>3, <1>4
<1>7. /\ make' \in [Msgs -> MakeRows]
      /\ PresenceIsTrue' /\ SocketsFit' /\ StampsFit' /\ StoredMsgs \subseteq StoredMsgs'
      /\ Newest.at <= Newest'.at /\ Newest.at \in Nat /\ Newest'.at \in Nat
  BY <1>3, <1>5, <1>6, RequestGoes
<1>8. /\ refresher' \in [Msgs -> Refreshers] /\ RefreshesFit' /\ pending' = Refreshing'
      /\ latest' \in LatestSet
  <2>1. CASE /\ ~pending /\ pending' = TRUE
             /\ refresher' = [refresher EXCEPT ![m] = [at |-> "derive", got |-> NoMsg]]
             /\ latest' = NoMsg
    <3>1. PICK z : z = [at |-> "derive", got |-> NoMsg]
      OBVIOUS
    <3>2. z \in Refreshers /\ z.at = "derive"
      BY <3>1, LatestFacts DEF Refreshers, RefreshAt
    <3>3. \A k \in Msgs : k # m => refresher[k].at = "off"
      BY <1>2, <2>1 DEF Refreshing
    <3>4. frame'.at <= Newest'.at
      BY <1>1, <1>3, <1>7, FramesAre
    <3>5. /\ refresher' \in [Msgs -> Refreshers] /\ RefreshesFit'
          /\ Refreshing' = (z.at # "off")
      BY <1>2, <2>1, <3>1, <3>2, <3>3, <3>4, RefreshMoves
    <3>. QED  BY <2>1, <3>2, <3>5, LatestFacts
  <2>2. CASE UNCHANGED <<pending, refresher, latest>>
    <3>1. RefreshesFit'
      BY <1>1, <1>2, <1>3, <1>7, <2>2, RefreshesGrow
    <3>2. Refreshing' = Refreshing
      BY <2>2, RefreshingKept
    <3>. QED  BY <1>2, <2>2, <3>1, <3>2
  <2>. QED  BY Zenon, <1>3, <2>1, <2>2 DEF BeginRefresh
<1>9. ChannelTypeOK'
  BY Zenon, <1>1, <1>3, <1>7, <1>8, ChannelRows, ChannelTypedNext
<1>10. OnlyStoredIsSeen'
  BY <1>1, <1>3, <1>7, SeenStays
<1>. QED  BY Zenon, <1>7, <1>8, <1>9, <1>10, ChannelPartsNext

\* A step of a refresh task that is running.
LEMMA RefreshGoes ==
  ASSUME NEW m \in Msgs, ChannelInv, refresher[m].at # "off", NEW y \in Refreshers,
         refresher' = [refresher EXCEPT ![m] = y], pending' = (y.at # "off"),
         frame' \in LatestSet, latest' \in LatestSet, frame'.at <= Newest.at,
         y.at \in {"store", "tell"} => frame'.at <= y.got.at /\ y.got.at <= Newest.at,
         UNCHANGED socketVars, UNCHANGED <<make, clock, linked, shown, relayed, onLine, drops>>
  PROVE  ChannelInv'
<1>1. ChannelTypeOK /\ PresenceIsTrue /\ OnlyStoredIsSeen /\ SocketsFit /\ StampsFit
      /\ RefreshesFit
  BY Zenon, ChannelParts
<1>2. refresher \in [Msgs -> Refreshers]
  BY Zenon, <1>1, ChannelRows
<1>3. Newest' = Newest /\ StoredMsgs' = StoredMsgs
  BY NewestKept
<1>4. \A k \in Msgs : k # m => refresher[k].at = "off"
  BY <1>1, OnlyOneRefreshes
<1>5. /\ refresher' \in [Msgs -> Refreshers] /\ RefreshesFit'
      /\ Refreshing' = (y.at # "off")
  BY <1>2, <1>3, <1>4, RefreshMoves
<1>6. ChannelTypeOK'
  <2>1. sock' = sock /\ closed' = closed /\ told' = told
    BY Zenon DEF socketVars
  <2>. QED  BY Zenon, <1>1, <1>5, <2>1, ChannelRows, ChannelTypedNext
<1>7. OnlyStoredIsSeen'
  BY <1>1, <1>3 DEF OnlyStoredIsSeen
<1>8. PresenceIsTrue' /\ SocketsFit' /\ StampsFit'
  BY <1>1, SocketsKept, StampsKept
<1>. QED  BY Zenon, <1>5, <1>6, <1>7, <1>8, ChannelPartsNext

\* It reads the newest message.
LEMMA DeriveKeeps ==
  ASSUME NEW m \in Msgs, ChannelInv, Derive(m)
  PROVE  ChannelInv'
<1>1. ChannelTypeOK /\ RefreshesFit
  BY Zenon, ChannelParts
<1>2. /\ refresher \in [Msgs -> Refreshers] /\ pending = Refreshing
      /\ frame \in LatestSet /\ latest \in LatestSet
  BY Zenon, <1>1, ChannelRows
<1>3. /\ refresher[m].at = "derive"
      /\ \/ /\ refresher' = [refresher EXCEPT ![m] = [at |-> "store", got |-> Newest]]
            /\ pending' = pending
         \/ refresher' = [refresher EXCEPT ![m].at = "off"] /\ pending' = FALSE
      /\ UNCHANGED socketVars /\ UNCHANGED <<make, clock, linked, shown, relayed, onLine, drops>>
      /\ latest' = latest /\ frame' = frame
  BY Zenon DEF Derive
<1>4. frame.at \in Nat /\ Newest.at \in Nat /\ Newest \in LatestSet /\ frame.at <= Newest.at
  BY <1>1, FramesAre
<1>5. CASE refresher' = [refresher EXCEPT ![m] = [at |-> "store", got |-> Newest]]
           /\ pending' = pending
  <2>1. PICK y : y = [at |-> "store", got |-> Newest]
    OBVIOUS
  <2>2. y \in Refreshers /\ y.at = "store" /\ y.got = Newest
    BY <1>4, <2>1 DEF Refreshers, RefreshAt
  <2>3. pending' = (y.at # "off")
    BY <1>2, <1>3, <1>5, <2>2 DEF Refreshing
  <2>4. refresher' = [refresher EXCEPT ![m] = y] /\ refresher[m].at # "off"
    BY <1>3, <1>5, <2>1
  <2>5. /\ frame' \in LatestSet /\ latest' \in LatestSet /\ frame'.at <= Newest.at
        /\ frame'.at <= y.got.at /\ y.got.at <= Newest.at
    BY <1>2, <1>3, <1>4, <2>2
  <2>. QED  BY <1>3, <2>2, <2>3, <2>4, <2>5, RefreshGoes
<1>6. CASE refresher' = [refresher EXCEPT ![m].at = "off"] /\ pending' = FALSE
  <2>1. PICK y : y = [refresher[m] EXCEPT !.at = "off"]
    OBVIOUS
  <2>2. y \in Refreshers /\ y.at = "off"
    BY <1>2, <2>1 DEF Refreshers, RefreshAt
  <2>3. refresher' = [refresher EXCEPT ![m] = y]
    BY <1>2, <1>6, <2>1
  <2>. QED  BY <1>2, <1>3, <1>4, <1>6, <2>2, <2>3, RefreshGoes
<1>. QED  BY <1>3, <1>5, <1>6

\* It replaces the snapshot.
LEMMA StoreKeeps ==
  ASSUME NEW m \in Msgs, ChannelInv, StoreSnapshot(m)
  PROVE  ChannelInv'
<1>1. ChannelTypeOK /\ RefreshesFit
  BY Zenon, ChannelParts
<1>2. refresher \in [Msgs -> Refreshers] /\ pending = Refreshing /\ frame \in LatestSet
  BY Zenon, <1>1, ChannelRows
<1>3. /\ refresher[m].at = "store" /\ latest' = refresher[m].got
      /\ refresher' = [refresher EXCEPT ![m].at = "tell"]
      /\ UNCHANGED socketVars /\ UNCHANGED <<make, clock, linked, shown, relayed, onLine, drops>>
      /\ pending' = pending /\ frame' = frame
  BY Zenon DEF StoreSnapshot
<1>4. /\ frame.at <= Newest.at /\ refresher[m].got \in LatestSet
      /\ frame.at <= refresher[m].got.at /\ refresher[m].got.at <= Newest.at
  BY <1>1, <1>3, FramesAre
<1>5. PICK y : y = [refresher[m] EXCEPT !.at = "tell"]
  OBVIOUS
<1>6. y \in Refreshers /\ y.at = "tell" /\ y.got = refresher[m].got
  BY <1>2, <1>5 DEF Refreshers, RefreshAt
<1>7. refresher' = [refresher EXCEPT ![m] = y]
  BY <1>2, <1>3, <1>5
<1>8. pending' = (y.at # "off")
  BY <1>2, <1>3, <1>6 DEF Refreshing
<1>. QED  BY <1>2, <1>3, <1>4, <1>6, <1>7, <1>8, RefreshGoes

\* A frame carries what its task read, which is no older than the frame before it.
LEMMA TellKeeps ==
  ASSUME NEW m \in Msgs, ChannelInv, TellLatest(m)
  PROVE  ChannelInv' /\ frame'.at >= frame.at
<1>1. ChannelTypeOK /\ RefreshesFit
  BY Zenon, ChannelParts
<1>2. refresher \in [Msgs -> Refreshers] /\ latest \in LatestSet
  BY Zenon, <1>1, ChannelRows
<1>3. /\ refresher[m].at = "tell" /\ frame' = refresher[m].got
      /\ refresher' = [refresher EXCEPT ![m].at = "off"] /\ pending' = FALSE
      /\ UNCHANGED socketVars /\ UNCHANGED <<make, clock, linked, shown, relayed, onLine, drops>>
      /\ latest' = latest
  BY Zenon DEF TellLatest
<1>4. /\ frame.at \in Nat /\ refresher[m].got \in LatestSet /\ refresher[m].got.at \in Nat
      /\ frame.at <= refresher[m].got.at /\ refresher[m].got.at <= Newest.at
  BY <1>1, <1>3, FramesAre
<1>5. PICK y : y = [refresher[m] EXCEPT !.at = "off"]
  OBVIOUS
<1>6. y \in Refreshers /\ y.at = "off"
  BY <1>2, <1>5 DEF Refreshers, RefreshAt
<1>7. refresher' = [refresher EXCEPT ![m] = y]
  BY <1>2, <1>3, <1>5
<1>8. ChannelInv'
  BY <1>2, <1>3, <1>4, <1>6, <1>7, RefreshGoes
<1>. QED  BY <1>3, <1>4, <1>8

-----------------------------------------------------------------------------
(* The channel.                                                              *)

\* Nobody is connected and nothing is written.
LEMMA ChannelStart == ChannelInit => ChannelInv
<1>. SUFFICES ASSUME ChannelInit PROVE ChannelInv
  OBVIOUS
<1>1. /\ sock = [c \in Sockets |-> NoOne] /\ closed = {}
      /\ told = [c \in Sockets |-> [u \in Viewers |-> "nothing"]]
      /\ make = [m \in Msgs |-> [at |-> "new", stamp |-> 0, names |-> {}]] /\ clock = 0
      /\ linked = [a \in Uploads |-> "none"] /\ shown = {} /\ relayed = {} /\ onLine = {}
      /\ latest = NoMsg /\ pending = FALSE /\ frame = NoMsg
      /\ refresher = [m \in Msgs |-> [at |-> "off", got |-> NoMsg]] /\ drops = 0
  BY Zenon DEF ChannelInit
<1>2. Open = {}
  BY <1>1 DEF Open
<1>3. StoredMsgs = {} /\ Started(make) = {}
  BY <1>1 DEF StoredMsgs, Started
<1>4. Newest = NoMsg /\ NoMsg \in LatestSet /\ NoMsg.at = 0
  BY <1>3, LatestFacts DEF Newest
<1>5. ChannelTypeOK
  <2>1. 0 \in 0 .. Cardinality(Msgs) /\ 0 \in 0 .. MaxDrops
    BY ChannelNumbers
  <2>2. make \in [Msgs -> MakeRows]
    BY <1>1, <2>1 DEF MakeRows, MadeAt
  <2>3. refresher \in [Msgs -> Refreshers] /\ pending = Refreshing
    BY <1>1, <1>4 DEF Refreshers, RefreshAt, Refreshing
  <2>4. /\ sock \in [Sockets -> Viewers \cup {NoOne}] /\ closed \subseteq Sockets
        /\ told \in [Sockets -> [Viewers -> {"nothing", "here", "gone"}]]
        /\ linked \in [Uploads -> Msgs \cup {"none"}]
        /\ shown \subseteq Msgs /\ relayed \subseteq Msgs /\ onLine \subseteq Msgs
    BY <1>1
  <2>5. clock \in 0 .. Cardinality(Msgs) /\ drops \in 0 .. MaxDrops /\ latest \in LatestSet
        /\ frame \in LatestSet
    BY <1>1, <1>4, <2>1
  <2>. QED  BY Zenon, <2>2, <2>3, <2>4, <2>5
            DEF ChannelTypeOK, MakeRows, MadeAt, Refreshers, Refreshing
<1>6. PresenceIsTrue /\ OnlyStoredIsSeen
  BY <1>1, <1>2 DEF PresenceIsTrue, OnlyStoredIsSeen
<1>7. SocketsFit
  BY <1>1, <1>2 DEF SocketsFit
<1>8. StampsFit
  BY <1>1, <1>3, FS_EmptySet, StampsAre
<1>9. RefreshesFit
  BY <1>1, <1>4 DEF RefreshesFit
<1>. QED  BY Zenon, <1>5, <1>6, <1>7, <1>8, <1>9 DEF ChannelInv

\* Nothing happens.
LEMMA ChannelIdles ==
  ASSUME ChannelInv, UNCHANGED channelVars
  PROVE  ChannelInv'
<1>1. ChannelTypeOK /\ PresenceIsTrue /\ OnlyStoredIsSeen /\ SocketsFit /\ StampsFit
      /\ RefreshesFit
  BY Zenon, ChannelParts
<1>2. UNCHANGED <<sock, closed, told, make, clock, linked, shown, relayed, onLine, latest,
           pending,
                  refresher, frame, drops>>
  BY Zenon DEF channelVars
<1>3. Newest' = Newest /\ StoredMsgs' = StoredMsgs /\ Refreshing' = Refreshing
  BY <1>2, NewestKept, RefreshingKept
<1>4. ChannelTypeOK'
  BY Zenon, <1>1, <1>2, <1>3, ChannelRows, ChannelTypedNext
<1>5. OnlyStoredIsSeen'
  BY <1>1, <1>2, <1>3 DEF OnlyStoredIsSeen
<1>6. PresenceIsTrue' /\ SocketsFit' /\ StampsFit' /\ RefreshesFit'
  BY <1>1, <1>2, <1>3, SocketsKept, StampsKept, RefreshesKept DEF socketVars
<1>. QED  BY Zenon, <1>4, <1>5, <1>6, ChannelPartsNext

\* Every step of the channel keeps the invariant.
LEMMA ChannelKeeps ==
  ASSUME ChannelInv, ChannelNext
  PROVE  ChannelInv'
BY Zenon, ConnectKeeps, DisconnectKeeps, StampKeeps, CommitKeeps, SpawnKeeps, PushKeeps,
   FanOutKeeps,
   DropKeeps, ScheduleKeeps, DeriveKeeps, StoreKeeps, TellKeeps DEF ChannelNext

\* So does every step that is none of its own.
LEMMA ChannelStays ==
  ASSUME ChannelInv, [ChannelNext]_channelVars
  PROVE  ChannelInv'
BY Zenon, ChannelKeeps, ChannelIdles

\* Only the transaction of a message links attachments, and only free ones.
LEMMA AttachmentHolds ==
  ASSUME ChannelInv, [ChannelNext]_channelVars, NEW a \in Uploads, linked[a] # "none"
  PROVE  linked'[a] = linked[a]
<1>1. linked' = linked \/ \E m \in Msgs : linked' = LinkFree(m)
  BY Zenon DEF ChannelNext, ChannelConnect, ChannelDisconnect, Stamp, CommitMessage, SpawnRelay,
     PushToLine, FanOutMessage, DropRequest, ScheduleRefresh, Derive, StoreSnapshot, TellLatest,
     channelVars
<1>. QED  BY <1>1 DEF LinkFree

\* No frame is older than the one before it.
LEMMA FrameGoes ==
  ASSUME ChannelInv, [ChannelNext]_channelVars
  PROVE  frame'.at >= frame.at
<1>1. frame.at \in Nat
  BY Zenon, ChannelParts, FramesAre
<1>2. frame' = frame \/ \E m \in Msgs : TellLatest(m)
  BY Zenon DEF ChannelNext, ChannelConnect, ChannelDisconnect, Stamp, CommitMessage, SpawnRelay,
     PushToLine, FanOutMessage, DropRequest, ScheduleRefresh, Derive, StoreSnapshot, channelVars,
     refreshVars
<1>3. CASE frame' = frame
  BY <1>1, <1>3
<1>4. CASE \E m \in Msgs : TellLatest(m)
  BY <1>4, TellKeeps
<1>. QED  BY <1>2, <1>3, <1>4

\* Viewers are told of exactly who is there, nothing is seen that was not stored, and no two
\* refreshes run at once, however sockets, requests and refreshes interleave (ChannelInv).
THEOREM ChannelIsTrue == ChannelSpec => []ChannelInv
<1>1. ChannelInv /\ [ChannelNext]_channelVars => ChannelInv'
  BY ChannelStays
<1>. QED  BY <1>1, ChannelStart, PTL DEF ChannelSpec

\* A linked attachment stays with its message, whatever other messages name it.
THEOREM AttachmentsStay == ChannelSpec => AttachmentStays
<1>1. ChannelInv /\ [ChannelNext]_channelVars
        => [\A a \in Uploads : linked[a] /= "none" => linked'[a] = linked[a]]_channelVars
  BY Zenon, AttachmentHolds
<1>. QED  BY <1>1, ChannelIsTrue, PTL DEF ChannelSpec, AttachmentStays

\* Viewers are never told of an older latest message after a newer one (begin_refresh).
THEOREM FramesOnlyGoForward == ChannelSpec => FramesGoForward
<1>1. ChannelInv /\ [ChannelNext]_channelVars => [frame'.at >= frame.at]_channelVars
  BY Zenon, FrameGoes
<1>. QED  BY <1>1, ChannelIsTrue, PTL DEF ChannelSpec, FramesGoForward


-----------------------------------------------------------------------------
(* Lines of items.                                                           *)

\* The events of a set of items.
Evs(S) == {t.ev : t \in S}

\* An item that joins a line.
LEMMA AppendedItem ==
  ASSUME NEW T, NEW s \in Seq(T), NEW t \in T
  PROVE  /\ Append(s, t) \in Seq(T) /\ ToSet(Append(s, t)) = ToSet(s) \cup {t}
         /\ Len(Append(s, t)) = Len(s) + 1
         /\ OncePerEvent(s) /\ t.ev \notin Evs(ToSet(s)) => OncePerEvent(Append(s, t))
<1>. DEFINE r == Append(s, t)
<1>1. /\ r \in Seq(T) /\ Len(r) = Len(s) + 1 /\ Len(s) \in Nat
      /\ \A i \in 1 .. Len(s) : r[i] = s[i]
      /\ r[Len(s) + 1] = t
  OBVIOUS
<1>2. DOMAIN r = 1 .. (Len(s) + 1) /\ DOMAIN s = 1 .. Len(s)
  BY <1>1
<1>. HIDE DEF r
<1>3. ToSet(r) = ToSet(s) \cup {t}
  BY <1>1, <1>2 DEF ToSet
<1>4. ASSUME OncePerEvent(s), t.ev \notin Evs(ToSet(s)) PROVE OncePerEvent(r)
  <2>1. \A i \in 1 .. Len(s) : s[i].ev # t.ev
    BY <1>2, <1>4 DEF ToSet, Evs
  <2>2. ASSUME NEW i \in 1 .. (Len(s) + 1), NEW k \in 1 .. (Len(s) + 1), r[i].ev = r[k].ev
        PROVE  i = k
    <3>1. CASE i \in 1 .. Len(s) /\ k \in 1 .. Len(s)
      BY <1>1, <1>2, <1>4, <2>2, <3>1 DEF OncePerEvent
    <3>2. CASE i = Len(s) + 1 /\ k \in 1 .. Len(s)
      BY <1>1, <2>1, <2>2, <3>2
    <3>3. CASE k = Len(s) + 1 /\ i \in 1 .. Len(s)
      BY <1>1, <2>1, <2>2, <3>3
    <3>. QED  BY <1>1, <3>1, <3>2, <3>3
  <2>. QED  BY <1>2, <2>2 DEF OncePerEvent
<1>. QED  BY <1>1, <1>3, <1>4 DEF r

\* The first of a line, and the rest without it.
LEMMA FirstItem ==
  ASSUME NEW T, NEW s \in Seq(T), s # <<>>
  PROVE  /\ Head(s) \in T /\ Tail(s) \in Seq(T) /\ ToSet(s) = {Head(s)} \cup ToSet(Tail(s))
         /\ OncePerEvent(s) => OncePerEvent(Tail(s)) /\ Head(s).ev \notin Evs(ToSet(Tail(s)))
<1>. DEFINE b == Tail(s)
<1>1. PICK m : m = Len(s)
  OBVIOUS
<1>2. m \in Nat /\ m > 0 /\ DOMAIN s = 1 .. m /\ \A i \in 1 .. m : s[i] \in T
  BY <1>1
<1>3. Head(s) = s[1] /\ 1 \in 1 .. m
  BY <1>1, <1>2
<1>4. b \in Seq(T) /\ Len(b) = m - 1 /\ \A i \in 1 .. (m - 1) : b[i] = s[i + 1]
  BY <1>1, <1>2
<1>. HIDE DEF b
<1>5. DOMAIN b = 1 .. (m - 1) /\ \A i \in 1 .. (m - 1) : i + 1 \in 1 .. m /\ i + 1 # 1
  BY <1>2, <1>4
<1>6. \A i \in 1 .. m : i = 1 \/ (i - 1 \in 1 .. (m - 1) /\ (i - 1) + 1 = i)
  BY <1>2
<1>7. ToSet(s) = {s[1]} \cup ToSet(b)
  <2>1. ASSUME NEW x \in ToSet(s) PROVE x = s[1] \/ x \in ToSet(b)
    <3>1. PICK i \in 1 .. m : x = s[i]
      BY <1>2 DEF ToSet
    <3>2. CASE i - 1 \in 1 .. (m - 1) /\ (i - 1) + 1 = i
      <4>1. b[i - 1] = x
        BY <1>4, <3>1, <3>2
      <4>. QED  BY <1>5, <3>2, <4>1 DEF ToSet
    <3>. QED  BY <1>6, <3>1, <3>2
  <2>2. ASSUME NEW x \in ToSet(b) PROVE x \in ToSet(s)
    BY <1>2, <1>4, <1>5, <2>2 DEF ToSet
  <2>3. s[1] \in ToSet(s)
    BY <1>2, <1>3 DEF ToSet
  <2>. QED  BY <2>1, <2>2, <2>3
<1>8. ASSUME OncePerEvent(s) PROVE OncePerEvent(b) /\ s[1].ev \notin Evs(ToSet(b))
  <2>1. \A i, k \in 1 .. m : s[i].ev = s[k].ev => i = k
    BY <1>2, <1>8 DEF OncePerEvent
  <2>2. OncePerEvent(b)
    <3>. SUFFICES ASSUME NEW i \in 1 .. (m - 1), NEW k \in 1 .. (m - 1), b[i].ev = b[k].ev
                  PROVE  i = k
      BY <1>5 DEF OncePerEvent
    <3>1. i + 1 = k + 1
      BY <1>4, <1>5, <2>1
    <3>. QED  BY <1>2, <3>1
  <2>3. \A i \in 1 .. (m - 1) : s[1].ev # b[i].ev
    BY <1>3, <1>4, <1>5, <2>1
  <2>. QED  BY <1>5, <2>2, <2>3 DEF ToSet, Evs
<1>. QED  BY <1>2, <1>3, <1>4, <1>7, <1>8 DEF b


\* What is left of a line when its first n are gone.
Gone(s, n) == {s[i].ev : i \in 1 .. n}
Left(s, n) == SubSeq(s, n + 1, Len(s))
\* What is left still has the last item, and no copies.
LEMMA CutItems ==
  ASSUME NEW T, NEW s \in Seq(T), NEW n \in Nat, n < Len(s), OncePerEvent(s)
  PROVE  /\ Left(s, n) \in Seq(T) /\ OncePerEvent(Left(s, n)) /\ s[Len(s)] \in ToSet(Left(s, n))
         /\ \A u \in ToSet(Left(s, n)) : u \in ToSet(s)
         /\ \A k : k \in Evs(ToSet(s)) <=> k \in Gone(s, n) \/ k \in Evs(ToSet(Left(s, n)))
         /\ \A k \in Gone(s, n) : k \notin Evs(ToSet(Left(s, n)))
<1>1. PICK b : b = Left(s, n)
  OBVIOUS
<1>2. PICK gone : gone = Gone(s, n)
  OBVIOUS
<1>3. PICK m : m = Len(s)
  OBVIOUS
<1>4. m \in Nat /\ n \in 0 .. m /\ DOMAIN s = 1 .. m /\ \A i \in 1 .. m : s[i] \in T
  BY <1>3
<1>5. /\ b \in Seq(T) /\ Len(b) = m - n /\ \A i \in 1 .. (m - n) : b[i] = s[n + i]
  <2>1. \A i \in (n + 1) .. m : s[i] \in T
    BY <1>4
  <2>2. b = [i \in 1 .. (m - n) |-> s[n + i]]
    BY <1>3, <1>4, <1>1 DEF Left
  <2>3. m - n \in Nat /\ \A i \in 1 .. (m - n) : n + i \in (n + 1) .. m
    BY <1>4
  <2>4. b \in [1 .. (m - n) -> T]
    BY <2>1, <2>2, <2>3
  <2>5. \A x \in [1 .. (m - n) -> T] : x \in Seq(T) /\ Len(x) = m - n
    BY <2>3
  <2>. QED  BY <2>2, <2>3, <2>4, <2>5
<1>6. \A k : k \in gone <=> \E i \in 1 .. n : s[i].ev = k
  BY <1>2 DEF Gone
<1>7. DOMAIN b = 1 .. (m - n)
  BY <1>4, <1>5
<1>8. \A i \in 1 .. m : i \in 1 .. n \/ (i - n \in 1 .. (m - n) /\ n + (i - n) = i)
  BY <1>4
<1>9. \A i \in 1 .. (m - n) : n + i \in 1 .. m /\ n + i \notin 1 .. n
  BY <1>4
<1>10. \A i \in 1 .. n : i \in 1 .. m
  BY <1>4
<1>11. ToSet(b) \subseteq ToSet(s)
  <2>. SUFFICES ASSUME NEW x \in ToSet(b) PROVE x \in ToSet(s)
    OBVIOUS
  <2>1. PICK i \in 1 .. (m - n) : x = b[i]
    BY <1>7 DEF ToSet
  <2>2. n + i \in 1 .. m /\ s[n + i] = x
    BY <1>5, <1>9, <2>1
  <2>. QED  BY <1>4, <2>2 DEF ToSet
<1>12. Evs(ToSet(s)) = gone \cup Evs(ToSet(b))
  <2>1. ASSUME NEW x \in Evs(ToSet(s)) PROVE x \in gone \cup Evs(ToSet(b))
    <3>1. PICK i \in 1 .. m : x = s[i].ev
      BY <1>4 DEF ToSet, Evs
    <3>2. CASE i \in 1 .. n
      BY <1>6, <3>1, <3>2
    <3>3. CASE i - n \in 1 .. (m - n) /\ n + (i - n) = i
      <4>1. b[i - n] = s[i] /\ b[i - n] \in ToSet(b)
        BY <1>5, <1>7, <3>3 DEF ToSet
      <4>. QED  BY <3>1, <4>1 DEF Evs
    <3>. QED  BY <1>8, <3>2, <3>3
  <2>2. ASSUME NEW x \in gone PROVE x \in Evs(ToSet(s))
    <3>1. PICK i \in 1 .. n : x = s[i].ev
      BY <1>6, <2>2
    <3>2. s[i] \in ToSet(s)
      BY <1>4, <1>10 DEF ToSet
    <3>. QED  BY <3>1, <3>2 DEF Evs
  <2>3. Evs(ToSet(b)) \subseteq Evs(ToSet(s))
    BY <1>11 DEF Evs
  <2>. QED  BY <2>1, <2>2, <2>3
<1>13. OncePerEvent(b) /\ gone \cap Evs(ToSet(b)) = {}
  <2>1. \A i, k \in 1 .. m : s[i].ev = s[k].ev => i = k
    BY <1>4 DEF OncePerEvent
  <2>2. OncePerEvent(b)
    <3>. SUFFICES ASSUME NEW i \in 1 .. (m - n), NEW k \in 1 .. (m - n), b[i].ev = b[k].ev
                  PROVE  i = k
      BY <1>7 DEF OncePerEvent
    <3>1. PICK u : u = n + i
      OBVIOUS
    <3>2. PICK v : v = n + k
      OBVIOUS
    <3>3. u \in 1 .. m /\ v \in 1 .. m /\ s[u] = b[i] /\ s[v] = b[k]
      BY <1>5, <1>9, <3>1, <3>2
    <3>4. u = v
      BY <2>1, <3>3
    <3>. QED  BY <1>4, <3>1, <3>2, <3>4
  <2>3. ASSUME NEW x \in gone, x \in Evs(ToSet(b)) PROVE FALSE
    <3>1. PICK i \in 1 .. n : x = s[i].ev
      BY <1>6, <2>3
    <3>2. PICK k \in 1 .. (m - n) : x = b[k].ev
      BY <1>7, <2>3 DEF ToSet, Evs
    <3>3. i = n + k
      BY <1>5, <1>9, <1>10, <2>1, <3>1, <3>2
    <3>. QED  BY <1>9, <3>3
  <2>. QED  BY <2>2, <2>3
<1>14. s[Len(s)] \in ToSet(b)
  <2>1. m - n \in 1 .. (m - n) /\ n + (m - n) = m
    BY <1>3, <1>4
  <2>2. b[m - n] = s[m]
    BY <1>5, <2>1
  <2>. QED  BY <1>3, <1>7, <2>1, <2>2 DEF ToSet
<1>15. /\ \A u \in ToSet(b) : u \in ToSet(s)
       /\ \A k : k \in Evs(ToSet(s)) <=> k \in gone \/ k \in Evs(ToSet(b))
       /\ \A k \in gone : k \notin Evs(ToSet(b))
  BY <1>11, <1>12, <1>13
<1>. QED  BY Zenon, <1>1, <1>2, <1>5, <1>13, <1>14, <1>15

\* One line after another.
LEMMA JoinedItems ==
  ASSUME NEW T, NEW a \in Seq(T), NEW b \in Seq(T)
  PROVE  /\ a \o b \in Seq(T) /\ ToSet(a \o b) = ToSet(a) \cup ToSet(b)
         /\ OncePerEvent(a \o b) <=>
              OncePerEvent(a) /\ OncePerEvent(b) /\ Evs(ToSet(a)) \cap Evs(ToSet(b)) = {}
<1>. DEFINE c == a \o b
<1>1. PICK m : m = Len(a)
  OBVIOUS
<1>2. PICK n : n = Len(b)
  OBVIOUS
<1>3. /\ m \in Nat /\ n \in Nat /\ DOMAIN a = 1 .. m /\ DOMAIN b = 1 .. n
      /\ c \in Seq(T) /\ DOMAIN c = 1 .. (m + n)
      /\ \A i \in 1 .. m : c[i] = a[i]
      /\ \A i \in 1 .. n : c[m + i] = b[i]
  BY <1>1, <1>2
<1>. HIDE DEF c
<1>4. \A i \in 1 .. (m + n) : i \in 1 .. m \/ (i - m \in 1 .. n /\ m + (i - m) = i)
  BY <1>3
<1>5. /\ \A i \in 1 .. m : i \in 1 .. (m + n)
      /\ \A i \in 1 .. n : m + i \in 1 .. (m + n) /\ m + i \notin 1 .. m
      /\ \A i, k \in 1 .. n : m + i = m + k => i = k
  BY <1>3
<1>6. ToSet(c) = ToSet(a) \cup ToSet(b)
  <2>1. ASSUME NEW x \in ToSet(c) PROVE x \in ToSet(a) \cup ToSet(b)
    <3>1. PICK i \in 1 .. (m + n) : x = c[i]
      BY <1>3 DEF ToSet
    <3>2. CASE i \in 1 .. m
      BY <1>3, <3>1, <3>2 DEF ToSet
    <3>3. CASE i - m \in 1 .. n /\ m + (i - m) = i
      <4>1. x = b[i - m]
        BY <1>3, <3>1, <3>3
      <4>. QED  BY <1>3, <3>3, <4>1 DEF ToSet
    <3>. QED  BY <1>4, <3>2, <3>3
  <2>2. ASSUME NEW x \in ToSet(a) PROVE x \in ToSet(c)
    <3>1. PICK i \in 1 .. m : x = a[i]
      BY <1>3, <2>2 DEF ToSet
    <3>2. i \in 1 .. (m + n) /\ x = c[i]
      BY <1>3, <1>5, <3>1
    <3>. QED  BY <1>3, <3>2 DEF ToSet
  <2>3. ASSUME NEW x \in ToSet(b) PROVE x \in ToSet(c)
    <3>1. PICK i \in 1 .. n : x = b[i]
      BY <1>3, <2>3 DEF ToSet
    <3>2. m + i \in 1 .. (m + n) /\ x = c[m + i]
      BY <1>3, <1>5, <3>1
    <3>. QED  BY <1>3, <3>2 DEF ToSet
  <2>. QED  BY <2>1, <2>2, <2>3
<1>7. ASSUME OncePerEvent(c)
      PROVE  OncePerEvent(a) /\ OncePerEvent(b) /\ Evs(ToSet(a)) \cap Evs(ToSet(b)) = {}
  <2>1. \A i, k \in 1 .. (m + n) : c[i].ev = c[k].ev => i = k
    BY <1>3, <1>7 DEF OncePerEvent
  <2>2. OncePerEvent(a)
    BY <1>3, <1>5, <2>1 DEF OncePerEvent
  <2>3. OncePerEvent(b)
    <3>. SUFFICES ASSUME NEW i \in 1 .. n, NEW k \in 1 .. n, b[i].ev = b[k].ev PROVE i = k
      BY <1>3 DEF OncePerEvent
    <3>1. m + i = m + k
      BY <1>3, <1>5, <2>1
    <3>. QED  BY <1>5, <3>1
  <2>4. ASSUME NEW x \in Evs(ToSet(a)), x \in Evs(ToSet(b)) PROVE FALSE
    <3>1. PICK i \in 1 .. m : x = a[i].ev
      BY <1>3 DEF ToSet, Evs
    <3>2. PICK k \in 1 .. n : x = b[k].ev
      BY <1>3, <2>4 DEF ToSet, Evs
    <3>3. PICK j : j = m + k
      OBVIOUS
    <3>4. i \in 1 .. (m + n) /\ j \in 1 .. (m + n) /\ c[i] = a[i] /\ c[j] = b[k]
      BY <1>3, <1>5, <3>3
    <3>5. i = j
      BY <2>1, <3>1, <3>2, <3>4
    <3>. QED  BY <1>5, <3>3, <3>5
  <2>. QED  BY <2>2, <2>3, <2>4
<1>8. ASSUME OncePerEvent(a), OncePerEvent(b), Evs(ToSet(a)) \cap Evs(ToSet(b)) = {}
      PROVE  OncePerEvent(c)
  <2>1. /\ \A i, k \in 1 .. m : a[i].ev = a[k].ev => i = k
        /\ \A i, k \in 1 .. n : b[i].ev = b[k].ev => i = k
    BY <1>3, <1>8 DEF OncePerEvent
  <2>2. \A i \in 1 .. m, k \in 1 .. n : a[i].ev # b[k].ev
    <3>1. /\ \A i \in 1 .. m : a[i].ev \in Evs(ToSet(a))
          /\ \A k \in 1 .. n : b[k].ev \in Evs(ToSet(b))
      BY <1>3 DEF ToSet, Evs
    <3>. QED  BY <1>8, <3>1
  <2>3. ASSUME NEW i \in 1 .. (m + n), NEW k \in 1 .. (m + n), c[i].ev = c[k].ev PROVE i = k
    <3>1. \/ i \in 1 .. m /\ c[i] = a[i]
          \/ i - m \in 1 .. n /\ c[i] = b[i - m] /\ i = m + (i - m)
      BY <1>3, <1>4
    <3>2. \/ k \in 1 .. m /\ c[k] = a[k]
          \/ k - m \in 1 .. n /\ c[k] = b[k - m] /\ k = m + (k - m)
      BY <1>3, <1>4
    <3>3. CASE i \in 1 .. m /\ c[i] = a[i] /\ k \in 1 .. m /\ c[k] = a[k]
      BY <2>1, <2>3, <3>3
    <3>4. CASE i \in 1 .. m /\ c[i] = a[i] /\ k - m \in 1 .. n /\ c[k] = b[k - m]
      BY <2>2, <2>3, <3>4
    <3>5. CASE i - m \in 1 .. n /\ c[i] = b[i - m] /\ k \in 1 .. m /\ c[k] = a[k]
      BY <2>2, <2>3, <3>5
    <3>6. CASE /\ i - m \in 1 .. n /\ c[i] = b[i - m] /\ i = m + (i - m)
               /\ k - m \in 1 .. n /\ c[k] = b[k - m] /\ k = m + (k - m)
      <4>1. i - m = k - m
        BY <2>1, <2>3, <3>6
      <4>. QED  BY <3>6, <4>1
    <3>. QED  BY <3>1, <3>2, <3>3, <3>4, <3>5, <3>6
  <2>. QED  BY <1>3, <2>3 DEF OncePerEvent
<1>. QED  BY <1>3, <1>6, <1>7, <1>8 DEF c

\* An event is in a line once, or not at all.
LEMMA CopiesFacts ==
  ASSUME NEW T, NEW s \in Seq(T), NEW e
  PROVE  /\ Copies(e, s) \in Nat
         /\ Copies(e, s) = 0 <=> e \notin Evs(ToSet(s))
         /\ OncePerEvent(s) => Copies(e, s) \in {0, 1}
         /\ Copies(e, s) \in {0, 1} => \A i, k \in DOMAIN s : s[i].ev = e /\ s[k].ev = e => i = k
<1>. DEFINE P == {i \in DOMAIN s : s[i].ev = e}
<1>1. Copies(e, s) = Cardinality(P)
  BY DEF Copies
<1>2. IsFiniteSet(P) /\ Cardinality(P) \in Nat
  <2>1. PICK m \in Nat : m = Len(s)
    OBVIOUS
  <2>2. IsFiniteSet(1 .. m)
    BY FS_Interval
  <2>3. P \subseteq 1 .. m
    BY <2>1
  <2>. QED  BY <2>2, <2>3, FS_Subset, FS_CardinalityType
<1>3. P = {} <=> e \notin Evs(ToSet(s))
  BY DEF ToSet, Evs
<1>4. Cardinality(P) = 0 <=> P = {}
  BY <1>2, FS_EmptySet
<1>5. ASSUME OncePerEvent(s) PROVE Copies(e, s) \in {0, 1}
  <2>1. CASE P = {}
    BY <1>1, <1>4, <2>1
  <2>2. CASE P # {}
    <3>1. PICK i \in P : TRUE
      BY <2>2
    <3>2. P = {i}
      BY <1>5, <3>1 DEF OncePerEvent
    <3>. QED  BY <1>1, <3>2, FS_Singleton
  <2>. QED  BY <2>1, <2>2
<1>6. ASSUME Copies(e, s) \in {0, 1}, NEW i \in DOMAIN s, NEW k \in DOMAIN s, s[i].ev = e,
             s[k].ev = e
      PROVE  i = k
  <2>1. i \in P /\ k \in P
    BY <1>6
  <2>2. Cardinality(P) = 1
    BY <1>1, <1>4, <1>6, <2>1
  <2>3. \E x : P = {x}
    BY <1>2, <2>2, FS_Singleton
  <2>. QED  BY <2>1, <2>3
<1>. QED  BY <1>1, <1>2, <1>3, <1>4, <1>5, <1>6

\* A line without copies: what it holds, once each.
LEMMA CopiesEach ==
  ASSUME NEW T, NEW s \in Seq(T), \A t \in T : t.ev \in Events, NEW S \in SUBSET Events
  PROVE  (\A e \in Events : Copies(e, s) = IF e \in S THEN 1 ELSE 0)
         <=> OncePerEvent(s) /\ Evs(ToSet(s)) = S
<1>1. \A i \in DOMAIN s : s[i].ev \in Events
  OBVIOUS
<1>2. Evs(ToSet(s)) \subseteq Events
  BY <1>1 DEF ToSet, Evs
<1>3. ASSUME \A e \in Events : Copies(e, s) = IF e \in S THEN 1 ELSE 0
      PROVE  OncePerEvent(s) /\ Evs(ToSet(s)) = S
  <2>1. \A e \in Events : Copies(e, s) \in {0, 1}
    BY <1>3
  <2>2. OncePerEvent(s)
    <3>. SUFFICES ASSUME NEW i \in DOMAIN s, NEW k \in DOMAIN s, s[i].ev = s[k].ev PROVE i = k
      BY DEF OncePerEvent
    <3>. QED  BY <1>1, <2>1, CopiesFacts
  <2>3. \A e \in Events : e \in Evs(ToSet(s)) <=> e \in S
    <3>. TAKE e \in Events
    <3>1. Copies(e, s) = 0 <=> e \notin Evs(ToSet(s))
      BY CopiesFacts
    <3>. QED  BY <1>3, <3>1
  <2>. QED  BY <1>2, <2>2, <2>3
<1>4. ASSUME OncePerEvent(s), Evs(ToSet(s)) = S, NEW e \in Events
      PROVE  Copies(e, s) = IF e \in S THEN 1 ELSE 0
  <2>1. Copies(e, s) \in {0, 1} /\ (Copies(e, s) = 0 <=> e \notin Evs(ToSet(s)))
    BY <1>4, CopiesFacts
  <2>. QED  BY <1>4, <2>1
<1>. QED  BY <1>3, <1>4
-----------------------------------------------------------------------------
(* The variables of the relay, by name.                                      *)

\* What the variables range over.
RaisedRows == [host : Hosts, life : 1 .. MaxFaults + 1, prio : Priorities, direct : BOOLEAN]
Lives == Hosts \X (1 .. MaxFaults + 1)
FanRows == [ev : Events, src : Lives]
Drains == [by : {"nobody", "loop", "flush", "gone"}, batch : Seq(ItemSet), again : Seq(ItemSet)]
Fates == {"none", "queued", "delivered", "failed", "evicted", "lost"}

\* The bounds are numbers, and nothing is no event.
LEMMA FanNumbers ==
  /\ Poison \subseteq Events /\ Raisers \subseteq Hosts /\ NormalCap \in Nat /\ NormalCap > 0
  /\ MaxRetries \in Nat /\ RelayBatch \in Nat /\ RelayBatch > 0 /\ MaxFaults \in Nat
  /\ MaxFlushes \in Nat
  /\ "nowhere" \notin Hosts /\ Nothing \notin Events
BY FanOutAssumption DEF NotRaised

\* FanOutTypeOK in terms of them.
LEMMA FanVars ==
  FanOutTypeOK =>
    /\ raised \in [Events -> {NotRaised} \cup RaisedRows]
    /\ queue \in [Hosts -> [Queues -> Seq(ItemSet)]] /\ drain \in [Hosts -> [Queues -> Drains]]
    /\ fate \in [Events -> Fates] /\ unsent \in SUBSET (Hosts \X Events)
    /\ rows \in Seq(FanRows) /\ acks \in SUBSET (Events \X Lives)
    /\ toRelay \in [Hosts -> Seq(FanRows)] /\ served \in [Hosts -> Events \cup {Nothing}]
    /\ life \in [Hosts -> 1 .. MaxFaults + 1] /\ shownAt \in [Hosts \X Events -> Nat]
    /\ faults \in 0 .. MaxFaults /\ flushes \in 0 .. MaxFlushes
<1>. HAVE FanOutTypeOK
<1>1. /\ raised \in [Events -> {NotRaised} \cup RaisedRows]
      /\ queue \in [Hosts -> [Queues -> Seq(ItemSet)]] /\ drain \in [Hosts -> [Queues -> Drains]]
      /\ fate \in [Events -> Fates]
  BY Zenon DEF FanOutTypeOK, RaisedRows, Drains, Fates
<1>2. /\ rows \in Seq(FanRows) /\ toRelay \in [Hosts -> Seq(FanRows)]
      /\ served \in [Hosts -> Events \cup {Nothing}] /\ life \in [Hosts -> 1 .. MaxFaults + 1]
      /\ shownAt \in [Hosts \X Events -> Nat] /\ faults \in 0 .. MaxFaults
      /\ flushes \in 0 .. MaxFlushes
  BY Zenon DEF FanOutTypeOK, FanRows, Lives
<1>3. unsent \in SUBSET (Hosts \X Events) /\ acks \in SUBSET (Events \X Lives)
  BY DEF FanOutTypeOK, Lives
<1>. QED  BY Zenon, <1>1, <1>2, <1>3

\* And back, in the next state.
LEMMA FanTypedNext ==
    /\ raised' \in [Events -> {NotRaised} \cup RaisedRows]
    /\ queue' \in [Hosts -> [Queues -> Seq(ItemSet)]] /\ drain' \in [Hosts -> [Queues -> Drains]]
    /\ fate' \in [Events -> Fates] /\ unsent' \in SUBSET (Hosts \X Events)
    /\ rows' \in Seq(FanRows) /\ acks' \in SUBSET (Events \X Lives)
    /\ toRelay' \in [Hosts -> Seq(FanRows)] /\ served' \in [Hosts -> Events \cup {Nothing}]
    /\ life' \in [Hosts -> 1 .. MaxFaults + 1] /\ shownAt' \in [Hosts \X Events -> Nat]
    /\ faults' \in 0 .. MaxFaults /\ flushes' \in 0 .. MaxFlushes
    => FanOutTypeOK'
BY Zenon DEF FanOutTypeOK, RaisedRows, Drains, Fates, FanRows, Lives

\* The fields of a raised event.
LEMMA RaisedFacts ==
  ASSUME NEW x \in RaisedRows
  PROVE  /\ x # NotRaised /\ x.host \in Hosts /\ x.life \in Nat /\ x.life >= 1
         /\ x.life <= MaxFaults + 1
         /\ x.prio \in Priorities /\ x.direct \in BOOLEAN /\ QueueOf(x.prio) \in Queues
BY FanNumbers DEF RaisedRows, NotRaised, Priorities, Queues, QueueOf

\* The fields of an item.
LEMMA ItemFacts ==
  ASSUME NEW t \in ItemSet
  PROVE  t.ev \in Events /\ t.tries \in Nat /\ t.tries <= MaxRetries
BY FanNumbers DEF ItemSet

\* The fields of a row.
LEMMA FanRowFacts ==
  ASSUME NEW r \in FanRows
  PROVE  r.ev \in Events /\ r.src \in Lives
BY DEF FanRows

\* What a processor has in hand.
LEMMA DrainFacts ==
  ASSUME NEW d \in Drains
  PROVE  d.batch \in Seq(ItemSet) /\ d.again \in Seq(ItemSet)
BY DEF Drains

\* Nobody has anything in hand.
LEMMA IdleFacts == Idle \in Drains /\ Idle.batch = <<>> /\ Idle.again = <<>>
BY DEF Idle, Drains

\* The instance of a process.
LEMMA LifeFacts ==
  ASSUME life \in [Hosts -> 1 .. MaxFaults + 1], NEW h \in Hosts
  PROVE  life[h] \in Nat /\ life[h] >= 1 /\ Instance(h) \in Lives /\ Instance(h) = <<h, life[h]>>
BY FanNumbers DEF Instance, Lives

-----------------------------------------------------------------------------
(* Where the queued events are.                                              *)

\* The events that ought to be in a queue, or in its processor's hands.
QueuedAt(h, q) == {e \in Events : fate[e] = "queued" /\ raised[e].host = h
     /\ QueueOf(raised[e].prio) = q}
\* Three lines hold a set of events, each once.
InThree(x, y, z, S) ==
  /\ OncePerEvent(x) /\ OncePerEvent(y) /\ OncePerEvent(z)
  /\ Evs(ToSet(x)) \cap Evs(ToSet(y)) = {} /\ Evs(ToSet(x)) \cap Evs(ToSet(z)) = {}
  /\ Evs(ToSet(y)) \cap Evs(ToSet(z)) = {}
  /\ Evs(ToSet(x)) \cup Evs(ToSet(y)) \cup Evs(ToSet(z)) = S
\* EventIsHeldOnce, without counting.
InPlace == \A h \in Hosts, q \in Queues :
             InThree(queue[h][q], drain[h][q].batch, drain[h][q].again, QueuedAt(h, q))

\* Counting comes to the same.
LEMMA ThreeLines ==
  ASSUME NEW x \in Seq(ItemSet), NEW y \in Seq(ItemSet), NEW z \in Seq(ItemSet),
         NEW S \in SUBSET Events
  PROVE  (\A e \in Events : Copies(e, x \o y \o z) = IF e \in S THEN 1 ELSE 0)
           <=> InThree(x, y, z, S)
<1>1. /\ x \o y \in Seq(ItemSet) /\ ToSet(x \o y) = ToSet(x) \cup ToSet(y)
      /\ OncePerEvent(x \o y) <=> OncePerEvent(x) /\ OncePerEvent(y)
           /\ Evs(ToSet(x)) \cap Evs(ToSet(y)) = {}
  BY JoinedItems
<1>2. PICK w : w = x \o y
  OBVIOUS
<1>3. w \in Seq(ItemSet)
  BY <1>1, <1>2
<1>4. /\ w \o z \in Seq(ItemSet) /\ ToSet(w \o z) = ToSet(w) \cup ToSet(z)
      /\ OncePerEvent(w \o z) <=> OncePerEvent(w) /\ OncePerEvent(z)
           /\ Evs(ToSet(w)) \cap Evs(ToSet(z)) = {}
  BY <1>3, JoinedItems
<1>5. \A t \in ItemSet : t.ev \in Events
  BY ItemFacts
<1>6. (\A e \in Events : Copies(e, w \o z) = IF e \in S THEN 1 ELSE 0)
        <=> OncePerEvent(w \o z) /\ Evs(ToSet(w \o z)) = S
  <2>1. PICK v : v = w \o z
    OBVIOUS
  <2>2. v \in Seq(ItemSet)
    BY <1>4, <2>1
  <2>3. (\A e \in Events : Copies(e, v) = IF e \in S THEN 1 ELSE 0)
          <=> OncePerEvent(v) /\ Evs(ToSet(v)) = S
    BY <1>5, <2>2, CopiesEach
  <2>. QED  BY <2>1, <2>3
<1>7. /\ Evs(ToSet(w)) = Evs(ToSet(x)) \cup Evs(ToSet(y))
      /\ Evs(ToSet(w \o z)) = Evs(ToSet(w)) \cup Evs(ToSet(z))
  BY <1>1, <1>2, <1>4 DEF Evs
<1>. QED  BY <1>1, <1>2, <1>4, <1>6, <1>7 DEF InThree

\* So the two say the same.
LEMMA PlacesAre == FanOutTypeOK => (EventIsHeldOnce <=> InPlace)
<1>. HAVE FanOutTypeOK
<1>1. queue \in [Hosts -> [Queues -> Seq(ItemSet)]] /\ drain \in [Hosts -> [Queues -> Drains]]
  BY Zenon, FanVars
<1>2. ASSUME NEW h \in Hosts, NEW q \in Queues
      PROVE  (\A e \in Events : CopiesAt(e, h, q) = IF /\ fate[e] = "queued" /\ raised[e].host = h
                                                       /\ QueueOf(raised[e].prio) = q THEN 1 ELSE 0)
             <=> InThree(queue[h][q], drain[h][q].batch, drain[h][q].again, QueuedAt(h, q))
  <2>1. queue[h][q] \in Seq(ItemSet) /\ drain[h][q].batch \in Seq(ItemSet)
        /\ drain[h][q].again \in Seq(ItemSet)
    BY <1>1, DrainFacts
  <2>2. QueuedAt(h, q) \in SUBSET Events
    BY DEF QueuedAt
  <2>3. (\A e \in Events : CopiesAt(e, h, q) = IF e \in QueuedAt(h, q) THEN 1 ELSE 0)
        <=> InThree(queue[h][q], drain[h][q].batch, drain[h][q].again, QueuedAt(h, q))
    BY <2>1, <2>2, ThreeLines DEF CopiesAt
  <2>. QED  BY <2>3 DEF QueuedAt
<1>. QED  BY <1>2 DEF EventIsHeldOnce, InPlace

\* The invariant, with that in the place of the counts.
FanRest == FanOutTypeOK /\ InPlace /\ ServedPerAttempt /\ OwnEventOnce /\ OncePerInstance
           /\ EventsFit /\ TriesFit /\ RowsFit /\ RelayFits

\* It is the invariant.
LEMMA FanWhole == FanRest <=> FanOutInv
BY Zenon, PlacesAre DEF FanRest, FanOutInv

\* Its parts.
LEMMA FanParts ==
  FanRest => /\ FanOutTypeOK /\ InPlace /\ ServedPerAttempt /\ OwnEventOnce /\ OncePerInstance
             /\ EventsFit /\ TriesFit /\ RowsFit /\ RelayFits
BY Zenon DEF FanRest

\* And back, in the next state.
LEMMA FanPartsNext ==
  ASSUME FanOutTypeOK', InPlace', ServedPerAttempt', OwnEventOnce', OncePerInstance',
         EventsFit', TriesFit',
         RowsFit', RelayFits'
  PROVE  FanRest'
BY Zenon DEF FanRest

\* A queued event, and an item in hand.
LEMMA QueuedFacts ==
  ASSUME FanOutTypeOK, EventsFit, NEW e \in Events, fate[e] = "queued"
  PROVE  /\ raised[e] \in RaisedRows /\ raised[e] # NotRaised /\ ~raised[e].direct
         /\ raised[e].host \in Hosts /\ Origin(e) = Instance(raised[e].host)
<1>1. raised[e] # NotRaised
  BY DEF EventsFit
<1>2. raised[e] \in RaisedRows
  BY <1>1, Zenon, FanVars
<1>. QED  BY <1>1, <1>2, RaisedFacts DEF EventsFit, Origin, Instance

\* An item in a queue, or in hand, is of an event that is queued there.
LEMMA HeldIsQueued ==
  ASSUME FanOutTypeOK, InPlace, NEW h \in Hosts, NEW q \in Queues, NEW t \in HeldAt(h, q)
  PROVE  /\ t \in ItemSet /\ t.ev \in Events /\ fate[t.ev] = "queued" /\ raised[t.ev].host = h
         /\ QueueOf(raised[t.ev].prio) = q
<1>1. queue \in [Hosts -> [Queues -> Seq(ItemSet)]] /\ drain \in [Hosts -> [Queues -> Drains]]
  BY Zenon, FanVars
<1>2. queue[h][q] \in Seq(ItemSet) /\ drain[h][q].batch \in Seq(ItemSet)
      /\ drain[h][q].again \in Seq(ItemSet)
  BY <1>1, DrainFacts
<1>3. \A s \in Seq(ItemSet) : ToSet(s) \subseteq ItemSet
  BY DEF ToSet
<1>4. t \in ItemSet
  BY <1>2, <1>3 DEF HeldAt
<1>5. t.ev \in QueuedAt(h, q)
  BY DEF InPlace, InThree, HeldAt, Evs
<1>. QED  BY <1>4, <1>5 DEF QueuedAt
-----------------------------------------------------------------------------
(* What a step that leaves some variables alone keeps.                       *)

\* InPlace in the next state.
LEMMA InPlaceNext ==
  ASSUME \A h \in Hosts, q \in Queues :
           InThree(queue'[h][q], drain'[h][q].batch, drain'[h][q].again, QueuedAt(h, q)')
  PROVE  InPlace'
BY Zenon DEF InPlace, InThree, OncePerEvent, Evs, ToSet

\* Places stand while queues, processors and fates do.
LEMMA PlacesStand ==
  ASSUME UNCHANGED <<queue, drain, fate, raised>>
  PROVE  InPlace => InPlace'
<1>1. \A h \in Hosts, q \in Queues : QueuedAt(h, q)' = QueuedAt(h, q)
  BY DEF QueuedAt
<1>. QED  BY <1>1, InPlaceNext DEF InPlace

\* What was served stands while nothing is shown.
LEMMA ServedStands ==
  ASSUME UNCHANGED <<raised, life, shownAt>>
  PROVE  /\ ServedPerAttempt => ServedPerAttempt'
         /\ OwnEventOnce => OwnEventOnce'
BY DEF ServedPerAttempt, OwnEventOnce

\* So does that it was shown once.
LEMMA OnceStands ==
  ASSUME UNCHANGED <<shownAt, acks>>, faults' = 0 => faults = 0
  PROVE  OncePerInstance => OncePerInstance'
BY DEF OncePerInstance

\* Events stand while they only lose what waits for them.
LEMMA EventsStand ==
  ASSUME UNCHANGED <<raised, shownAt, life>>, unsent' \subseteq unsent,
         \A e \in Events : fate'[e] = fate[e] \/ (fate[e] = "queued" /\ fate'[e] # "queued")
  PROVE  EventsFit => EventsFit'
BY DEF EventsFit, Instance, Origin

\* Tries stand while no item is added.
LEMMA TriesStand ==
  ASSUME UNCHANGED <<raised, shownAt>>, faults' = 0 => faults = 0,
         \A h \in Hosts, q \in Queues : HeldAt(h, q)' \subseteq HeldAt(h, q)
  PROVE  TriesFit => TriesFit'
BY DEF TriesFit

\* Rows stand while nothing is raised or relayed.
LEMMA RowsStand ==
  ASSUME UNCHANGED <<raised, life, rows, toRelay, served, acks>>, unsent' \subseteq unsent,
         life \in [Hosts -> 1 .. MaxFaults + 1],
         faults \in Nat, faults' \in Nat, faults <= faults'
  PROVE  RowsFit => RowsFit'
<1>. HAVE RowsFit
<1>1. \A h \in Hosts : life'[h] <= faults' + 1
  BY FanNumbers DEF RowsFit
<1>. QED  BY <1>1 DEF RowsFit, IsRow, Origin, Instance, OncePerEvent

\* So does what was relayed without a fault.
LEMMA RelayStands ==
  ASSUME UNCHANGED <<raised, life, rows, toRelay, served, acks, shownAt>>,
         faults' = 0 => faults = 0
  PROVE  RelayFits => RelayFits'
<1>1. \A h \in Hosts : OncePerEvent(toRelay[h])' = OncePerEvent(toRelay[h])
           /\ Instance(h)' = Instance(h)
  BY DEF OncePerEvent, Instance
<1>2. \A e : RowKept(e)' = RowKept(e)
  BY DEF RowKept
<1>. QED  BY <1>1, <1>2 DEF RelayFits

\* What RelayFits says of one process, with RowKept spelt out.
LEMMA RelayFitsNow ==
  ASSUME RelayFits, faults = 0, NEW h \in Hosts
  PROVE  /\ OncePerEvent(toRelay[h])
         /\ \A i \in DOMAIN toRelay[h] :
               /\ \E j \in DOMAIN rows : rows[j].ev = toRelay[h][i].ev
               /\ toRelay[h][i].ev # served[h] /\ <<toRelay[h][i].ev, Instance(h)>> \notin acks
         /\ served[h] # Nothing => \E j \in DOMAIN rows : rows[j].ev = served[h]
         /\ \A e \in Events : raised[e] # NotRaised /\ raised[e].host # h =>
               shownAt[<<h, e>>] = IF /\ served[h] = e \/ <<e, Instance(h)>> \in acks
                                      /\ e \notin Poison THEN 1 ELSE 0
BY Zenon DEF RelayFits, RowKept

\* The same in the next state.
LEMMA RelayFitsNext ==
  ASSUME faults' = 0 => \A h \in Hosts :
           /\ OncePerEvent(toRelay'[h])
           /\ \A i \in DOMAIN toRelay'[h] :
                 /\ \E j \in DOMAIN rows' : rows'[j].ev = toRelay'[h][i].ev
                 /\ toRelay'[h][i].ev # served'[h]
                 /\ <<toRelay'[h][i].ev, Instance(h)'>> \notin acks'
           /\ served'[h] # Nothing => \E j \in DOMAIN rows' : rows'[j].ev = served'[h]
           /\ \A e \in Events : raised'[e] # NotRaised /\ raised'[e].host # h =>
                 shownAt'[<<h, e>>] = IF /\ served'[h] = e \/ <<e, Instance(h)'>> \in acks'
                                         /\ e \notin Poison THEN 1 ELSE 0
  PROVE  RelayFits'
BY Zenon DEF RelayFits, RowKept, OncePerEvent

\* The same when only the events of its own process were shown.
LEMMA RelayStandsAway ==
  ASSUME UNCHANGED <<raised, life, rows, toRelay, served, acks>>, faults \in Nat, faults' \in Nat,
         faults <= faults',
         \A h \in Hosts, e \in Events : raised[e].host # h
              => shownAt'[<<h, e>>] = shownAt[<<h, e>>]
  PROVE  RelayFits => RelayFits'
<1>. SUFFICES ASSUME RelayFits, faults' = 0, NEW h \in Hosts
              PROVE  /\ OncePerEvent(toRelay'[h])
                     /\ \A i \in DOMAIN toRelay'[h] :
                          /\ \E j \in DOMAIN rows' : rows'[j].ev = toRelay'[h][i].ev
                          /\ toRelay'[h][i].ev # served'[h]
                          /\ <<toRelay'[h][i].ev, Instance(h)'>> \notin acks'
                     /\ served'[h] # Nothing => \E j \in DOMAIN rows' : rows'[j].ev = served'[h]
                     /\ \A e \in Events : raised'[e] # NotRaised /\ raised'[e].host # h =>
                          shownAt'[<<h, e>>] = IF /\ served'[h] = e
                                                       \/ <<e, Instance(h)'>> \in acks'
                                                  /\ e \notin Poison THEN 1 ELSE 0
  BY RelayFitsNext
<1>1. Instance(h)' = Instance(h)
  BY DEF Instance
<1>2. faults = 0
  OBVIOUS
<1>3. /\ OncePerEvent(toRelay[h])
      /\ \A i \in DOMAIN toRelay[h] :
            /\ \E j \in DOMAIN rows : rows[j].ev = toRelay[h][i].ev
            /\ toRelay[h][i].ev # served[h] /\ <<toRelay[h][i].ev, Instance(h)>> \notin acks
      /\ served[h] # Nothing => \E j \in DOMAIN rows : rows[j].ev = served[h]
      /\ \A e \in Events : raised[e] # NotRaised /\ raised[e].host # h =>
            shownAt[<<h, e>>] = IF /\ served[h] = e \/ <<e, Instance(h)>> \in acks
                                   /\ e \notin Poison THEN 1 ELSE 0
  BY <1>2, RelayFitsNow
<1>4. ASSUME NEW e \in Events, raised'[e] # NotRaised, raised'[e].host # h
      PROVE  shownAt'[<<h, e>>] = IF /\ served'[h] = e \/ <<e, Instance(h)'>> \in acks'
                                     /\ e \notin Poison THEN 1 ELSE 0
  BY <1>1, <1>3, <1>4
<1>. QED  BY <1>1, <1>3, <1>4

\* What a queue holds in the next state.
LEMMA HeldNext ==
  ASSUME NEW h, NEW q
  PROVE  HeldAt(h, q)' = ToSet(queue'[h][q]) \cup ToSet(drain'[h][q].batch) \cup ToSet(drain'[h][q].again)
BY Zenon DEF HeldAt, ToSet

\* It holds the same while nothing moves.
LEMMA HeldStands ==
  ASSUME UNCHANGED <<queue, drain>>
  PROVE  \A h \in Hosts, q \in Queues : HeldAt(h, q)' = HeldAt(h, q)
BY DEF HeldAt, ToSet

-----------------------------------------------------------------------------
(* The queues' hands.                                                        *)

\* A step of one queue that moves its items: none is added, and the places stay right.
LEMMA QueueMoves ==
  ASSUME FanRest, NEW h \in Hosts, NEW q \in Queues,
         NEW x \in Seq(ItemSet), NEW d \in Drains,
         queue' = [queue EXCEPT ![h][q] = x], drain' = [drain EXCEPT ![h][q] = d],
         fate' \in [Events -> Fates],
         \A e \in Events : fate'[e] = fate[e] \/ (e \in QueuedAt(h, q) /\ fate'[e] # "queued"),
         ToSet(x) \cup ToSet(d.batch) \cup ToSet(d.again) \subseteq HeldAt(h, q),
         InThree(x, d.batch, d.again, QueuedAt(h, q)'),
         UNCHANGED <<raised, unsent, rows, acks, toRelay, served, life, shownAt, faults>>,
         flushes' \in 0 .. MaxFlushes
  PROVE  FanRest'
<1>1. /\ FanOutTypeOK /\ InPlace /\ ServedPerAttempt /\ OwnEventOnce /\ OncePerInstance
      /\ EventsFit /\ TriesFit /\ RowsFit /\ RelayFits
  BY Zenon, FanParts
<1>2. /\ queue \in [Hosts -> [Queues -> Seq(ItemSet)]] /\ drain \in [Hosts -> [Queues -> Drains]]
      /\ life \in [Hosts -> 1 .. MaxFaults + 1] /\ faults \in 0 .. MaxFaults
  BY Zenon, <1>1, FanVars
<1>3. /\ queue' \in [Hosts -> [Queues -> Seq(ItemSet)]]
      /\ drain' \in [Hosts -> [Queues -> Drains]]
      /\ queue'[h][q] = x /\ drain'[h][q] = d
      /\ \A g \in Hosts, r \in Queues : g # h \/ r # q => queue'[g][r] = queue[g][r]
           /\ drain'[g][r] = drain[g][r]
  BY <1>2
<1>4. FanOutTypeOK'
  BY Zenon, <1>1, <1>3, FanVars, FanTypedNext
<1>5. ASSUME NEW g \in Hosts, NEW r \in Queues, g # h \/ r # q
      PROVE  QueuedAt(g, r)' = QueuedAt(g, r) /\ HeldAt(g, r)' = HeldAt(g, r)
  <2>1. \A e \in QueuedAt(h, q) : e \notin QueuedAt(g, r)
    BY <1>5 DEF QueuedAt
  <2>2. QueuedAt(g, r)' = QueuedAt(g, r)
    <3>1. ASSUME NEW e \in Events
          PROVE  (fate'[e] = "queued" /\ raised[e].host = g /\ QueueOf(raised[e].prio) = r)
                 <=> (fate[e] = "queued" /\ raised[e].host = g /\ QueueOf(raised[e].prio) = r)
      BY <2>1 DEF QueuedAt
    <3>. QED  BY <3>1 DEF QueuedAt
  <2>3. HeldAt(g, r)' = HeldAt(g, r)
    <3>1. queue'[g][r] = queue[g][r] /\ drain'[g][r] = drain[g][r]
      BY <1>3, <1>5
    <3>. QED  BY <3>1 DEF HeldAt, ToSet
  <2>. QED  BY <2>2, <2>3
<1>6. InPlace'
  <2>. SUFFICES ASSUME NEW g \in Hosts, NEW r \in Queues
                PROVE  InThree(queue'[g][r], drain'[g][r].batch, drain'[g][r].again, QueuedAt(g, r)')
    BY Zenon, InPlaceNext
  <2>1. CASE g = h /\ r = q
    BY <1>3, <2>1
  <2>2. CASE g # h \/ r # q
    <3>1. InThree(queue[g][r], drain[g][r].batch, drain[g][r].again, QueuedAt(g, r))
      BY <1>1 DEF InPlace
    <3>2. queue'[g][r] = queue[g][r] /\ drain'[g][r] = drain[g][r]
          /\ QueuedAt(g, r)' = QueuedAt(g, r)
      BY <1>3, <1>5, <2>2
    <3>. QED  BY <3>1, <3>2
  <2>. QED  BY <2>1, <2>2
<1>7. TriesFit'
  <2>1. \A g \in Hosts, r \in Queues : HeldAt(g, r)' \subseteq HeldAt(g, r)
    <3>. SUFFICES ASSUME NEW g \in Hosts, NEW r \in Queues
                  PROVE  HeldAt(g, r)' \subseteq HeldAt(g, r)
      OBVIOUS
    <3>1. CASE g = h /\ r = q
      <4>1. HeldAt(g, r)' = ToSet(x) \cup ToSet(d.batch) \cup ToSet(d.again)
        BY <1>3, <3>1 DEF HeldAt, ToSet
      <4>. QED  BY <3>1, <4>1
    <3>2. CASE g # h \/ r # q
      BY <1>5, <3>2
    <3>. QED  BY <3>1, <3>2
  <2>. QED  BY <1>1, <2>1, TriesStand
<1>8. EventsFit'
  <2>1. \A e \in Events : fate'[e] = fate[e] \/ (fate[e] = "queued" /\ fate'[e] # "queued")
    BY DEF QueuedAt
  <2>. QED  BY <1>1, <2>1, EventsStand
<1>9. ServedPerAttempt' /\ OwnEventOnce' /\ OncePerInstance' /\ RelayFits'
  BY <1>1, ServedStands, OnceStands, RelayStands
<1>10. RowsFit'
  BY <1>1, <1>2, FanNumbers, RowsStand
<1>. QED  BY Zenon, <1>4, <1>6, <1>7, <1>8, <1>9, <1>10, FanPartsNext

\* What InPlace says of one queue.
LEMMA PlaceFacts ==
  ASSUME FanRest, NEW h \in Hosts, NEW q \in Queues
  PROVE  /\ queue[h][q] \in Seq(ItemSet) /\ drain[h][q] \in Drains
         /\ drain[h][q].batch \in Seq(ItemSet) /\ drain[h][q].again \in Seq(ItemSet)
         /\ InThree(queue[h][q], drain[h][q].batch, drain[h][q].again, QueuedAt(h, q))
<1>1. FanOutTypeOK /\ InPlace
  BY Zenon, FanParts
<1>2. queue \in [Hosts -> [Queues -> Seq(ItemSet)]] /\ drain \in [Hosts -> [Queues -> Drains]]
  BY Zenon, <1>1, FanVars
<1>. QED  BY <1>1, <1>2, DrainFacts DEF InPlace

\* The empty line.
LEMMA EmptyLine == <<>> \in Seq(ItemSet) /\ ToSet(<<>>) = {} /\ Evs({}) = {} /\ OncePerEvent(<<>>)
BY DEF ToSet, Evs, OncePerEvent

\* The same events ought to be there while fates stand.
LEMMA QueuedStays ==
  ASSUME UNCHANGED <<fate, raised>>, NEW h, NEW q
  PROVE  QueuedAt(h, q)' = QueuedAt(h, q)
BY DEF QueuedAt

\* A queue nobody has in hand is taken.
LEMMA TakeKeeps ==
  ASSUME FanRest, NEW h \in Hosts, NEW q \in Queues, NEW by \in {"loop", "flush"},
         TakeBatch(h, q, by), flushes' \in 0 .. MaxFlushes,
         UNCHANGED <<raised, fate, unsent, rows, acks, toRelay, served, life, shownAt, faults>>
  PROVE  FanRest'
<1>1. /\ queue[h][q] \in Seq(ItemSet)
      /\ InThree(queue[h][q], drain[h][q].batch, drain[h][q].again, QueuedAt(h, q))
  BY PlaceFacts
<1>2. PICK d : d = [by |-> by, batch |-> queue[h][q], again |-> <<>>]
  OBVIOUS
<1>3. d \in Drains /\ d.batch = queue[h][q] /\ d.again = <<>>
  BY <1>1, <1>2, EmptyLine DEF Drains
<1>4. drain[h][q] = Idle /\ drain' = [drain EXCEPT ![h][q] = d]
      /\ queue' = [queue EXCEPT ![h][q] = <<>>]
  BY <1>2 DEF TakeBatch
<1>5. drain[h][q].batch = <<>> /\ drain[h][q].again = <<>>
  BY <1>4, IdleFacts
<1>6. InThree(<<>>, d.batch, d.again, QueuedAt(h, q)')
  <2>1. QueuedAt(h, q)' = QueuedAt(h, q)
    BY QueuedStays
  <2>. QED  BY <1>1, <1>3, <1>5, <2>1, EmptyLine DEF InThree
<1>7. ToSet(<<>>) \cup ToSet(d.batch) \cup ToSet(d.again) \subseteq HeldAt(h, q)
  BY <1>3, EmptyLine DEF HeldAt
<1>8. fate' \in [Events -> Fates]
  BY Zenon, FanParts, FanVars
<1>9. \A e \in Events : fate'[e] = fate[e] \/ (e \in QueuedAt(h, q) /\ fate'[e] # "queued")
  OBVIOUS
<1>10. <<>> \in Seq(ItemSet)
  BY EmptyLine
<1>. QED  BY Zenon, <1>3, <1>4, <1>6, <1>7, <1>8, <1>9, <1>10, QueueMoves

\* What failed goes back behind what came meanwhile.
LEMMA FinishKeeps ==
  ASSUME FanRest, NEW h \in Hosts, NEW q \in Queues, FinishDrain(h, q)
  PROVE  FanRest'
<1>1. /\ queue[h][q] \in Seq(ItemSet) /\ drain[h][q].again \in Seq(ItemSet)
      /\ InThree(queue[h][q], drain[h][q].batch, drain[h][q].again, QueuedAt(h, q))
  BY PlaceFacts
<1>2. /\ drain[h][q].batch = <<>>
      /\ queue' = [queue EXCEPT ![h][q] = @ \o drain[h][q].again]
      /\ drain' = [drain EXCEPT ![h][q] = Idle]
      /\ UNCHANGED <<raised, fate, unsent, rows, acks, toRelay, served, life, shownAt, faults,
           flushes>>
  BY Zenon DEF FinishDrain, relayVars
<1>3. PICK x : x = queue[h][q] \o drain[h][q].again
  OBVIOUS
<1>4. /\ x \in Seq(ItemSet) /\ ToSet(x) = ToSet(queue[h][q]) \cup ToSet(drain[h][q].again)
      /\ OncePerEvent(x)
  BY <1>1, <1>3, JoinedItems DEF InThree
<1>5. queue' = [queue EXCEPT ![h][q] = x]
  BY <1>2, <1>3
<1>6. InThree(x, Idle.batch, Idle.again, QueuedAt(h, q)')
  <2>1. QueuedAt(h, q)' = QueuedAt(h, q)
    BY <1>2, QueuedStays
  <2>2. Evs(ToSet(x)) = Evs(ToSet(queue[h][q])) \cup Evs(ToSet(drain[h][q].again))
    BY <1>4 DEF Evs
  <2>. QED  BY <1>1, <1>2, <1>4, <2>1, <2>2, IdleFacts, EmptyLine DEF InThree
<1>7. ToSet(x) \cup ToSet(Idle.batch) \cup ToSet(Idle.again) \subseteq HeldAt(h, q)
  BY <1>4, IdleFacts, EmptyLine DEF HeldAt
<1>8. fate' \in [Events -> Fates] /\ flushes' \in 0 .. MaxFlushes
  BY Zenon, <1>2, FanParts, FanVars
<1>9. \A e \in Events : fate'[e] = fate[e] \/ (e \in QueuedAt(h, q) /\ fate'[e] # "queued")
  BY <1>2
<1>10. UNCHANGED <<raised, unsent, rows, acks, toRelay, served, life, shownAt, faults>>
  BY Zenon, <1>2
<1>. QED  BY Zenon, <1>2, <1>4, <1>5, <1>6, <1>7, <1>8, <1>9, <1>10, IdleFacts, QueueMoves

\* A flush whose client hangs up loses what it had in hand.
LEMMA CancelKeeps ==
  ASSUME FanRest, NEW h \in Hosts, NEW q \in Queues, CancelFlush(h, q)
  PROVE  FanRest'
<1>1. /\ queue[h][q] \in Seq(ItemSet) /\ drain[h][q].batch \in Seq(ItemSet)
      /\ drain[h][q].again \in Seq(ItemSet)
      /\ InThree(queue[h][q], drain[h][q].batch, drain[h][q].again, QueuedAt(h, q))
  BY PlaceFacts
<1>2. PICK held : held = drain[h][q].batch \o drain[h][q].again
  OBVIOUS
<1>3. PICK d : d = [by |-> "gone", batch |-> <<>>, again |-> <<>>]
  OBVIOUS
<1>4. /\ drain' = [drain EXCEPT ![h][q] = d]
      /\ fate' = [e \in Events |-> IF \E i \in DOMAIN held : held[i].ev = e THEN "lost"
           ELSE fate[e]]
      /\ queue' = queue
      /\ UNCHANGED <<raised, unsent, rows, acks, toRelay, served, life, shownAt, faults, flushes>>
  BY <1>2, <1>3 DEF CancelFlush, relayVars
<1>5. d \in Drains /\ d.batch = <<>> /\ d.again = <<>>
  BY <1>3, EmptyLine DEF Drains
<1>6. ToSet(held) = ToSet(drain[h][q].batch) \cup ToSet(drain[h][q].again)
  BY <1>1, <1>2, JoinedItems
<1>7. Evs(ToSet(held)) = Evs(ToSet(drain[h][q].batch)) \cup Evs(ToSet(drain[h][q].again))
  BY <1>6 DEF Evs
<1>8. \A e \in Events : fate'[e] = IF e \in Evs(ToSet(held)) THEN "lost" ELSE fate[e]
  BY <1>4 DEF Evs, ToSet
<1>9. QueuedAt(h, q)' = QueuedAt(h, q) \ Evs(ToSet(held))
  BY <1>4, <1>8 DEF QueuedAt
<1>10. InThree(queue[h][q], d.batch, d.again, QueuedAt(h, q)')
  BY <1>1, <1>5, <1>7, <1>9, EmptyLine DEF InThree
<1>11. queue' = [queue EXCEPT ![h][q] = queue[h][q]]
  <2>1. queue \in [Hosts -> [Queues -> Seq(ItemSet)]]
    BY Zenon, FanParts, FanVars
  <2>. QED  BY <1>4, <2>1
<1>12. ToSet(queue[h][q]) \cup ToSet(d.batch) \cup ToSet(d.again) \subseteq HeldAt(h, q)
  BY <1>5, EmptyLine DEF HeldAt
<1>13. fate' \in [Events -> Fates] /\ flushes' \in 0 .. MaxFlushes
  <2>1. fate \in [Events -> Fates] /\ flushes \in 0 .. MaxFlushes
    BY Zenon, FanParts, FanVars
  <2>. QED  BY <1>4, <2>1 DEF Fates
<1>14. \A e \in Events : fate'[e] = fate[e] \/ (e \in QueuedAt(h, q) /\ fate'[e] # "queued")
  BY <1>1, <1>7, <1>8 DEF InThree
<1>15. UNCHANGED <<raised, unsent, rows, acks, toRelay, served, life, shownAt, faults>>
  BY Zenon, <1>4
<1>. QED  BY Zenon, <1>1, <1>4, <1>5, <1>10, <1>11, <1>12, <1>13, <1>14, <1>15, QueueMoves
-----------------------------------------------------------------------------
(* An attempt at an event, in the process that raised it.                    *)

\* An event is shown at a process once more, or is not.
LEMMA ShowFacts ==
  ASSUME shownAt \in [Hosts \X Events -> Nat], NEW h \in Hosts, NEW e \in Events,
         Show(h, e) \/ shownAt' = shownAt
  PROVE  /\ shownAt' \in [Hosts \X Events -> Nat]
         /\ shownAt[<<h, e>>] \in Nat /\ shownAt'[<<h, e>>] <= shownAt[<<h, e>>] + 1
         /\ \A g \in Hosts, x \in Events : g # h \/ x # e
              => shownAt'[<<g, x>>] = shownAt[<<g, x>>]
<1>1. <<h, e>> \in Hosts \X Events
  OBVIOUS
<1>2. shownAt[<<h, e>>] \in Nat
  BY <1>1
<1>3. \A g \in Hosts, x \in Events : <<g, x>> \in Hosts \X Events /\ (g # h \/ x # e
           => <<g, x>> # <<h, e>>)
  OBVIOUS
<1>4. CASE Show(h, e)
  <2>1. shownAt' = [shownAt EXCEPT ![<<h, e>>] = shownAt[<<h, e>>] + 1]
    BY <1>4 DEF Show
  <2>. QED  BY <1>1, <1>2, <1>3, <2>1
<1>5. CASE shownAt' = shownAt
  BY <1>2, <1>5
<1>. QED  BY <1>4, <1>5

\* Without a fault every process is in its first life.
LEMMA FirstLives ==
  ASSUME FanRest, faults = 0, NEW h \in Hosts
  PROVE  life[h] = 1 /\ Instance(h) = <<h, 1>>
<1>1. FanOutTypeOK /\ RowsFit
  BY Zenon, FanParts
<1>2. life \in [Hosts -> 1 .. MaxFaults + 1]
  BY Zenon, <1>1, FanVars
<1>. QED  BY <1>1, <1>2, LifeFacts DEF RowsFit

\* An attempt shows its event at most once more than its tries so far.
LEMMA AttemptCounts ==
  ASSUME FanRest, NEW h \in Hosts, NEW e \in Events, fate[e] = "queued", raised[e].host = h,
         NEW n \in Nat, n <= MaxRetries, shownAt[<<h, e>>] <= n,
         faults = 0 \/ raised[e].prio = "low" => n = 0,
         Show(h, e) \/ shownAt' = shownAt,
         fate'[e] \in {"queued", "delivered", "failed"}, \A x \in Events : x # e
              => fate'[x] = fate[x],
         faults' \in Nat, faults <= faults',
         UNCHANGED <<raised, unsent, rows, acks, toRelay, served, life>>
  PROVE  /\ ServedPerAttempt' /\ OwnEventOnce' /\ OncePerInstance' /\ EventsFit'
         /\ RowsFit' /\ RelayFits'
<1>1. /\ FanOutTypeOK /\ ServedPerAttempt /\ OwnEventOnce /\ OncePerInstance
      /\ EventsFit /\ RowsFit /\ RelayFits
  BY Zenon, FanParts
<1>2. /\ shownAt \in [Hosts \X Events -> Nat] /\ life \in [Hosts -> 1 .. MaxFaults + 1]
      /\ faults \in 0 .. MaxFaults /\ acks \in SUBSET (Events \X Lives)
      /\ raised \in [Events -> {NotRaised} \cup RaisedRows]
  BY Zenon, <1>1, FanVars
<1>3. /\ shownAt[<<h, e>>] \in Nat /\ shownAt'[<<h, e>>] <= shownAt[<<h, e>>] + 1
      /\ \A g \in Hosts, x \in Events : g # h \/ x # e => shownAt'[<<g, x>>] = shownAt[<<g, x>>]
      /\ shownAt' \in [Hosts \X Events -> Nat]
  BY <1>2, ShowFacts
<1>4. /\ raised[e] \in RaisedRows /\ raised[e] # NotRaised /\ ~raised[e].direct
      /\ Origin(e) = Instance(h)
  BY <1>1, QueuedFacts
<1>5. shownAt'[<<h, e>>] \in Nat /\ shownAt'[<<h, e>>] <= n + 1
  <2>1. <<h, e>> \in Hosts \X Events
    OBVIOUS
  <2>. QED  BY <1>3, <2>1
<1>6. ServedPerAttempt'
  <2>. SUFFICES ASSUME NEW x \in Events, raised'[x] # NotRaised,
                       life'[raised'[x].host] = raised'[x].life
                PROVE  shownAt'[<<raised'[x].host, x>>]
                          <= IF raised'[x].prio = "low" THEN 1 ELSE MaxRetries + 1
    BY DEF ServedPerAttempt
  <2>1. CASE x = e
    BY <1>4, <1>5, <2>1, FanNumbers
  <2>2. CASE x # e
    <3>1. raised[x].host \in Hosts
      BY <1>2, RaisedFacts
    <3>2. shownAt'[<<raised[x].host, x>>] = shownAt[<<raised[x].host, x>>]
      BY <1>3, <2>2, <3>1
    <3>. QED  BY <1>1, <3>2 DEF ServedPerAttempt
  <2>. QED  BY <2>1, <2>2
<1>7. OwnEventOnce'
  <2>. SUFFICES ASSUME NEW x \in Events, raised'[x] # NotRaised, raised'[x].direct,
                       life'[raised'[x].host] = raised'[x].life
                PROVE  shownAt'[<<raised'[x].host, x>>] = 1
    BY DEF OwnEventOnce
  <2>1. x # e
    BY <1>4
  <2>2. raised[x].host \in Hosts
    BY <1>2, RaisedFacts
  <2>3. shownAt'[<<raised[x].host, x>>] = shownAt[<<raised[x].host, x>>]
    BY <1>3, <2>1, <2>2
  <2>. QED  BY <1>1, <2>3 DEF OwnEventOnce
<1>8. OncePerInstance'
  <2>. SUFFICES ASSUME faults' = 0
                PROVE  /\ \A y \in Hosts \X Events : shownAt'[y] <= 1
                       /\ \A a \in acks : a[1] \notin Poison => shownAt'[<<a[2][1], a[1]>>] = 1
    BY DEF OncePerInstance
  <2>1. faults = 0 /\ n = 0
    BY <1>2
  <2>2. /\ \A y \in Hosts \X Events : shownAt[y] <= 1
        /\ \A a \in acks : a[1] \notin Poison => shownAt[<<a[2][1], a[1]>>] = 1
    BY <1>1, <2>1 DEF OncePerInstance
  <2>3. ASSUME NEW g \in Hosts, NEW x \in Events PROVE shownAt'[<<g, x>>] <= 1
    <3>1. shownAt[<<g, x>>] <= 1
      BY <2>2
    <3>. QED  BY <1>3, <1>5, <2>1, <3>1
  <2>4. ASSUME NEW a \in acks, a[1] \notin Poison PROVE shownAt'[<<a[2][1], a[1]>>] = 1
    <3>1. PICK x \in Events, g \in Hosts, l \in 1 .. MaxFaults + 1 : a = <<x, <<g, l>>>>
      BY <1>2 DEF Lives
    <3>2. raised[x] # NotRaised /\ Origin(x) # <<g, l>> /\ l <= life[g]
      BY <1>1, <3>1 DEF RowsFit
    <3>3. l = 1 /\ Instance(g) = <<g, 1>>
      BY <2>1, <3>1, <3>2, FanNumbers, FirstLives
    <3>4. x # e \/ g # h
      BY <1>4, <3>2, <3>3
    <3>5. shownAt[<<g, x>>] = 1
      BY <2>2, <2>4, <3>1
    <3>. QED  BY <1>3, <3>1, <3>4, <3>5
  <2>. QED  BY <2>3, <2>4
<1>9. EventsFit'
  <2>. SUFFICES ASSUME NEW x \in Events
                PROVE  /\ raised'[x] = NotRaised => fate'[x] = "none" /\ \A g \in Hosts :
                            shownAt'[<<g, x>>] = 0 /\ <<g, x>> \notin unsent'
                       /\ raised'[x] # NotRaised =>
                            /\ raised'[x].life <= life'[raised'[x].host]
                            /\ fate'[x] = "queued" => ~raised'[x].direct
                                 /\ raised'[x].life = life'[raised'[x].host]
                            /\ \A g \in Hosts : <<g, x>> \in unsent' => Instance(g)' = Origin(x)'
    BY Zenon DEF EventsFit
  <2>1. \A g \in Hosts : Instance(g)' = Instance(g)
    BY DEF Instance
  <2>2. Origin(x)' = Origin(x)
    BY DEF Origin
  <2>3. CASE x = e
    BY <1>1, <1>4, <2>1, <2>2, <2>3 DEF EventsFit
  <2>4. CASE x # e
    <3>1. /\ raised[x] = NotRaised => fate[x] = "none" /\ \A g \in Hosts :
               shownAt[<<g, x>>] = 0 /\ <<g, x>> \notin unsent
          /\ raised[x] # NotRaised =>
               /\ raised[x].life <= life[raised[x].host]
               /\ fate[x] = "queued" => ~raised[x].direct /\ raised[x].life = life[raised[x].host]
               /\ \A g \in Hosts : <<g, x>> \in unsent => Instance(g) = Origin(x)
      BY Zenon, <1>1 DEF EventsFit
    <3>2. fate'[x] = fate[x] /\ \A g \in Hosts : shownAt'[<<g, x>>] = shownAt[<<g, x>>]
      BY <1>3, <2>4
    <3>. QED  BY <2>1, <2>2, <3>1, <3>2
  <2>. QED  BY <2>3, <2>4
<1>10. RowsFit'
  BY <1>1, <1>2, FanNumbers, RowsStand
<1>11. RelayFits'
  <2>1. \A g \in Hosts, x \in Events : raised[x].host # g
             => shownAt'[<<g, x>>] = shownAt[<<g, x>>]
    BY <1>3
  <2>. QED  BY <1>1, <1>2, <2>1, RelayStandsAway
<1>. QED  BY Zenon, <1>6, <1>7, <1>8, <1>9, <1>10, <1>11

\* The lines when the first of a batch goes behind those to retry.
LEMMA HandRetries ==
  ASSUME NEW x, NEW y, NEW z, NEW w, NEW S, NEW k, InThree(x, y, z, S), OncePerEvent(w),
         Evs(ToSet(y)) = {k} \cup Evs(ToSet(w)), k \notin Evs(ToSet(w)),
         NEW a, OncePerEvent(a), Evs(ToSet(a)) = Evs(ToSet(z)) \cup {k}
  PROVE  InThree(x, w, a, S)
BY DEF InThree

\* Faults are counted.
LEMMA FaultsAreNat == ASSUME NEW f \in 0 .. MaxFaults PROVE f \in Nat
BY FanNumbers

\* An attempt at the head of a batch: it is done with, or goes behind those to retry.
Attempt(h, q, item, d) ==
  /\ drain[h][q].batch # <<>> /\ item = Head(drain[h][q].batch)
  /\ queue' = queue /\ drain' = [drain EXCEPT ![h][q] = d] /\ d.batch = Tail(drain[h][q].batch)
  /\ fate' \in [Events -> Fates] /\ \A x \in Events : x # item.ev => fate'[x] = fate[x]
  /\ \/ d.again = drain[h][q].again /\ fate'[item.ev] \in {"delivered", "failed"}
     \/ /\ fate'[item.ev] = "queued" /\ faults' # 0 /\ raised[item.ev].prio # "low"
        /\ \E z \in ItemSet : /\ z.ev = item.ev /\ z.tries = item.tries + 1
                              /\ d.again = Append(drain[h][q].again, z)
  /\ Show(h, item.ev) \/ shownAt' = shownAt
  /\ faults' \in 0 .. MaxFaults /\ faults <= faults'
  /\ UNCHANGED <<raised, unsent, rows, acks, toRelay, served, life, flushes>>

\* What an attempt leaves alone.
LEMMA AttemptFacts ==
  ASSUME NEW h \in Hosts, NEW q \in Queues, NEW item, NEW d \in Drains, Attempt(h, q, item, d)
  PROVE  /\ drain[h][q].batch # <<>> /\ item = Head(drain[h][q].batch)
         /\ queue' = queue /\ drain' = [drain EXCEPT ![h][q] = d]
         /\ d.batch = Tail(drain[h][q].batch)
         /\ fate' \in [Events -> Fates] /\ \A x \in Events : x # item.ev => fate'[x] = fate[x]
         /\ \/ d.again = drain[h][q].again /\ fate'[item.ev] \in {"delivered", "failed"}
            \/ /\ fate'[item.ev] = "queued" /\ faults' # 0 /\ raised[item.ev].prio # "low"
               /\ \E z \in ItemSet : /\ z.ev = item.ev /\ z.tries = item.tries + 1
                                     /\ d.again = Append(drain[h][q].again, z)
         /\ Show(h, item.ev) \/ shownAt' = shownAt
         /\ faults' \in 0 .. MaxFaults /\ faults <= faults'
         /\ UNCHANGED <<raised, unsent, rows, acks, toRelay, served, life, flushes>>
BY Zenon DEF Attempt

\* An attempt keeps the invariant.
LEMMA AttemptMoves ==
  ASSUME FanRest, NEW h \in Hosts, NEW q \in Queues, NEW item, NEW d \in Drains,
         Attempt(h, q, item, d)
  PROVE  FanRest'
<1>1. FanOutTypeOK /\ InPlace /\ TriesFit /\ EventsFit
  BY Zenon, FanParts
<1>2. /\ queue \in [Hosts -> [Queues -> Seq(ItemSet)]] /\ drain \in [Hosts -> [Queues -> Drains]]
      /\ shownAt \in [Hosts \X Events -> Nat] /\ faults \in 0 .. MaxFaults
      /\ fate \in [Events -> Fates]
  BY Zenon, <1>1, FanVars
<1>3. /\ queue[h][q] \in Seq(ItemSet) /\ drain[h][q].batch \in Seq(ItemSet)
      /\ drain[h][q].again \in Seq(ItemSet)
      /\ InThree(queue[h][q], drain[h][q].batch, drain[h][q].again, QueuedAt(h, q))
  BY PlaceFacts
<1>4. PICK y : y = drain[h][q].batch
  OBVIOUS
<1>5. PICK again : again = drain[h][q].again
  OBVIOUS
<1>6. PICK w : w = d.batch
  OBVIOUS
<1>7. PICK x0 : x0 = queue[h][q]
  OBVIOUS
<1>8. PICK S : S = QueuedAt(h, q)
  OBVIOUS
<1>9. PICK R : R = S \ {item.ev}
  OBVIOUS
<1>10. /\ item \in ItemSet /\ item \in ToSet(y) /\ item.ev \in S /\ w \in Seq(ItemSet)
       /\ InThree(x0, w, again, R)
       /\ \A u \in ToSet(x0) \cup ToSet(w) \cup ToSet(again) :
             u \in ToSet(x0) \cup ToSet(y) \cup ToSet(again) /\ u.ev # item.ev
       /\ \A r \in ItemSet : \A a : r.ev = item.ev /\ a = Append(again, r) =>
             InThree(x0, w, a, S) /\ \A u \in ToSet(a) : u \in ToSet(again) \/ u = r
  <2>1. x0 \in Seq(ItemSet) /\ y \in Seq(ItemSet) /\ again \in Seq(ItemSet)
        /\ InThree(x0, y, again, S)
    BY <1>3, <1>4, <1>5, <1>7, <1>8
  <2>2. y # <<>> /\ item = Head(y) /\ w = Tail(y)
    BY <1>4, <1>6, AttemptFacts
  <2>3. /\ item \in ItemSet /\ item \in ToSet(y) /\ item.ev \in S /\ w \in Seq(ItemSet)
        /\ ToSet(y) = {item} \cup ToSet(w) /\ Evs(ToSet(y)) = {item.ev} \cup Evs(ToSet(w))
        /\ OncePerEvent(w)
        /\ item.ev \notin Evs(ToSet(x0)) /\ item.ev \notin Evs(ToSet(w))
        /\ item.ev \notin Evs(ToSet(again))
    <3>1. OncePerEvent(y)
      BY <2>1 DEF InThree
    <3>2. /\ item \in ItemSet /\ w \in Seq(ItemSet) /\ ToSet(y) = {item} \cup ToSet(w)
          /\ OncePerEvent(w) /\ item.ev \notin Evs(ToSet(w))
      BY <2>1, <2>2, <3>1, FirstItem
    <3>3. Evs(ToSet(y)) = {item.ev} \cup Evs(ToSet(w))
      BY <3>2 DEF Evs
    <3>4. item.ev \in S /\ item.ev \notin Evs(ToSet(x0)) /\ item.ev \notin Evs(ToSet(again))
      BY <2>1, <3>3 DEF InThree
    <3>. QED  BY <3>2, <3>3, <3>4
  <2>4. ASSUME NEW u \in ToSet(x0) \cup ToSet(w) \cup ToSet(again)
        PROVE  u \in ToSet(x0) \cup ToSet(y) \cup ToSet(again) /\ u.ev # item.ev
    BY <2>3 DEF Evs
  <2>5. ASSUME NEW r \in ItemSet, NEW a, r.ev = item.ev, a = Append(again, r)
        PROVE  InThree(x0, w, a, S) /\ \A u \in ToSet(a) : u \in ToSet(again) \/ u = r
    <3>1. OncePerEvent(again)
      BY <2>1 DEF InThree
    <3>2. ToSet(a) = ToSet(again) \cup {r} /\ OncePerEvent(a)
      BY <2>1, <2>3, <2>5, <3>1, AppendedItem
    <3>3. Evs(ToSet(a)) = Evs(ToSet(again)) \cup {item.ev}
      BY <2>5, <3>2 DEF Evs
    <3>4. InThree(x0, w, a, S)
      BY Zenon, <2>1, <2>3, <3>2, <3>3, HandRetries
    <3>. QED  BY <3>2, <3>4
  <2>6. InThree(x0, w, again, R)
    BY <1>9, <2>1, <2>3 DEF InThree
  <2>. QED  BY <2>3, <2>4, <2>5, <2>6
<1>11. item \in HeldAt(h, q)
  BY <1>4, <1>10 DEF HeldAt
<1>12. /\ item.ev \in Events /\ fate[item.ev] = "queued" /\ raised[item.ev].host = h
       /\ QueueOf(raised[item.ev].prio) = q
  BY <1>10, <1>8 DEF QueuedAt
<1>13. item.tries \in Nat /\ item.tries <= MaxRetries
  BY <1>10, ItemFacts
<1>14. /\ shownAt[<<h, item.ev>>] <= item.tries
       /\ faults = 0 \/ raised[item.ev].prio = "low" => item.tries = 0
  BY <1>1, <1>11 DEF TriesFit
<1>15. /\ Show(h, item.ev) \/ shownAt' = shownAt
       /\ fate'[item.ev] \in {"queued", "delivered", "failed"}
            /\ \A x \in Events : x # item.ev => fate'[x] = fate[x]
       /\ faults' \in Nat /\ faults <= faults'
       /\ UNCHANGED <<raised, unsent, rows, acks, toRelay, served, life>>
  <2>1. /\ Show(h, item.ev) \/ shownAt' = shownAt
        /\ fate'[item.ev] \in {"queued", "delivered", "failed"}
        /\ faults' \in 0 .. MaxFaults
    BY AttemptFacts
  <2>2. /\ \A x \in Events : x # item.ev => fate'[x] = fate[x]
        /\ faults <= faults' /\ UNCHANGED <<raised, unsent, rows, acks, toRelay, served, life>>
    BY AttemptFacts
  <2>. QED  BY Zenon, <2>1, <2>2, FaultsAreNat
<1>16. /\ ServedPerAttempt' /\ OwnEventOnce' /\ OncePerInstance' /\ EventsFit' /\ RowsFit'
       /\ RelayFits'
  <2>1. PICK e \in Events : e = item.ev
    BY <1>12
  <2>2. PICK n \in Nat : n = item.tries
    BY <1>13
  <2>3. fate[e] = "queued" /\ raised[e].host = h
    BY <1>12, <2>1
  <2>4. n <= MaxRetries /\ shownAt[<<h, e>>] <= n /\ (faults = 0 \/ raised[e].prio = "low"
             => n = 0)
    BY <1>13, <1>14, <2>1, <2>2
  <2>5. /\ Show(h, e) \/ shownAt' = shownAt
        /\ fate'[e] \in {"queued", "delivered", "failed"} /\ \A x \in Events : x # e
             => fate'[x] = fate[x]
    BY <1>15, <2>1
  <2>. QED  BY Zenon, <1>15, <2>3, <2>4, <2>5, AttemptCounts
<1>17. /\ shownAt' \in [Hosts \X Events -> Nat]
       /\ shownAt[<<h, item.ev>>] \in Nat
       /\ shownAt'[<<h, item.ev>>] <= shownAt[<<h, item.ev>>] + 1
       /\ \A g \in Hosts, x \in Events : g # h \/ x # item.ev
            => shownAt'[<<g, x>>] = shownAt[<<g, x>>]
  <2>1. PICK e \in Events : e = item.ev
    BY <1>12
  <2>. QED  BY <1>2, <1>15, <2>1, ShowFacts
<1>18. shownAt'[<<h, item.ev>>] <= item.tries + 1
  <2>1. PICK a : a = shownAt'[<<h, item.ev>>]
    OBVIOUS
  <2>2. PICK b : b = shownAt[<<h, item.ev>>]
    OBVIOUS
  <2>3. PICK c : c = item.tries
    OBVIOUS
  <2>4. a \in Nat /\ b \in Nat /\ c \in Nat /\ a <= b + 1 /\ b <= c
    <3>1. <<h, item.ev>> \in Hosts \X Events
      BY <1>12
    <3>. QED  BY <1>13, <1>14, <1>17, <2>1, <2>2, <2>3, <3>1
  <2>5. a <= c + 1
    BY <2>4
  <2>. QED  BY <2>1, <2>3, <2>5
<1>19. /\ drain' \in [Hosts -> [Queues -> Drains]] /\ drain'[h][q] = d /\ queue' = queue
       /\ \A g \in Hosts, r \in Queues : g # h \/ r # q => drain'[g][r] = drain[g][r]
  <2>1. queue' = queue /\ drain' = [drain EXCEPT ![h][q] = d]
    BY Zenon DEF Attempt
  <2>. QED  BY <1>2, <2>1
<1>20. FanOutTypeOK'
  <2>1. fate' \in [Events -> Fates] /\ faults' \in 0 .. MaxFaults
    BY AttemptFacts
  <2>2. UNCHANGED <<raised, unsent, rows, acks, toRelay, served, life, flushes>>
    BY AttemptFacts
  <2>. QED  BY Zenon, <1>1, <1>17, <1>19, <2>1, <2>2, FanVars, FanTypedNext
<1>21. QueuedAt(h, q)' = IF fate'[item.ev] = "queued" THEN QueuedAt(h, q)
            ELSE QueuedAt(h, q) \ {item.ev}
  BY <1>12, <1>15 DEF QueuedAt
<1>22. /\ InThree(x0, w, d.again, QueuedAt(h, q)')
       /\ \/ d.again = again
          \/ /\ faults' # 0 /\ raised[item.ev].prio # "low"
             /\ \E z : /\ z.ev = item.ev /\ z.tries = item.tries + 1
                       /\ \A u \in ToSet(d.again) : u \in ToSet(again) \/ u = z
  <2>1. CASE d.again = drain[h][q].again /\ fate'[item.ev] \in {"delivered", "failed"}
    <3>1. QueuedAt(h, q)' = R
      BY <1>21, <1>8, <1>9, <2>1
    <3>. QED  BY <1>5, <1>10, <2>1, <3>1
  <2>2. CASE /\ fate'[item.ev] = "queued" /\ faults' # 0 /\ raised[item.ev].prio # "low"
             /\ \E z \in ItemSet : /\ z.ev = item.ev /\ z.tries = item.tries + 1
                                   /\ d.again = Append(drain[h][q].again, z)
    <3>1. QueuedAt(h, q)' = S
      BY <1>21, <1>8, <2>2
    <3>2. PICK z \in ItemSet : /\ z.ev = item.ev /\ z.tries = item.tries + 1
                               /\ d.again = Append(again, z)
      BY <1>5, <2>2
    <3>. QED  BY <1>10, <2>2, <3>1, <3>2
  <2>. QED  BY <2>1, <2>2, AttemptFacts
<1>23. ASSUME NEW g \in Hosts, NEW r \in Queues, g # h \/ r # q
       PROVE  /\ QueuedAt(g, r)' = QueuedAt(g, r) /\ HeldAt(g, r)' = HeldAt(g, r)
              /\ \A t \in HeldAt(g, r) : t.ev # item.ev
  <2>1. ASSUME NEW x \in Events
        PROVE  (fate'[x] = "queued" /\ raised'[x].host = g /\ QueueOf(raised'[x].prio) = r)
               <=> (fate[x] = "queued" /\ raised[x].host = g /\ QueueOf(raised[x].prio) = r)
    BY <1>12, <1>15, <1>23
  <2>2. QueuedAt(g, r)' = QueuedAt(g, r)
    BY <2>1 DEF QueuedAt
  <2>3. drain'[g][r] = drain[g][r]
    BY <1>19, <1>23
  <2>4. HeldAt(g, r)' = HeldAt(g, r)
    BY <1>19, <2>3, HeldNext DEF HeldAt
  <2>5. \A t \in HeldAt(g, r) : t.ev # item.ev
    <3>. TAKE t \in HeldAt(g, r)
    <3>1. raised[t.ev].host = g /\ QueueOf(raised[t.ev].prio) = r
      BY <1>1, HeldIsQueued
    <3>. QED  BY <1>12, <1>23, <3>1
  <2>. QED  BY <2>2, <2>4, <2>5
<1>24. InPlace'
  <2>. SUFFICES ASSUME NEW g \in Hosts, NEW r \in Queues
                PROVE  InThree(queue'[g][r], drain'[g][r].batch, drain'[g][r].again, QueuedAt(g, r)')
    BY Zenon, InPlaceNext
  <2>1. CASE g = h /\ r = q
    BY <1>6, <1>19, <1>22, <1>7, <2>1
  <2>2. CASE g # h \/ r # q
    <3>1. InThree(queue[g][r], drain[g][r].batch, drain[g][r].again, QueuedAt(g, r))
      BY <1>1 DEF InPlace
    <3>. QED  BY <1>19, <1>23, <2>2, <3>1
  <2>. QED  BY <2>1, <2>2
<1>25. ASSUME NEW g \in Hosts, NEW r \in Queues, NEW t \in HeldAt(g, r)'
       PROVE  /\ shownAt'[<<g, t.ev>>] <= t.tries
              /\ faults' = 0 \/ raised'[t.ev].prio = "low" => t.tries = 0
  <2>1. (faults' = 0 => faults = 0) /\ raised' = raised
    BY <1>2, <1>15, FanNumbers
  <2>2. ASSUME t \in HeldAt(g, r), t.ev # item.ev
        PROVE  /\ shownAt'[<<g, t.ev>>] <= t.tries
               /\ faults' = 0 \/ raised'[t.ev].prio = "low" => t.tries = 0
    <3>1. /\ shownAt[<<g, t.ev>>] <= t.tries
          /\ faults = 0 \/ raised[t.ev].prio = "low" => t.tries = 0
      BY <1>1, <2>2 DEF TriesFit
    <3>2. t.ev \in Events
      BY <1>1, <2>2, HeldIsQueued
    <3>. QED  BY <1>17, <2>1, <2>2, <3>1, <3>2
  <2>3. CASE g # h \/ r # q
    BY <1>23, <2>2, <2>3
  <2>4. CASE g = h /\ r = q
    <3>1. HeldAt(g, r)' = ToSet(x0) \cup ToSet(w) \cup ToSet(d.again)
      BY <1>6, <1>19, <1>7, <2>4, HeldNext
    <3>2. CASE t \in ToSet(x0) \cup ToSet(w) \cup ToSet(again)
      <4>1. t \in HeldAt(h, q) /\ t.ev # item.ev
        BY <1>4, <1>5, <1>10, <1>7, <3>2 DEF HeldAt
      <4>. QED  BY <2>2, <2>4, <4>1
    <3>3. CASE t.ev = item.ev /\ t.tries = item.tries + 1 /\ raised[item.ev].prio # "low"
               /\ faults' # 0
      BY <1>18, <2>1, <2>4, <3>3
    <3>. QED  BY <1>22, <3>1, <3>2, <3>3
  <2>. QED  BY <2>3, <2>4
<1>26. TriesFit'
  BY <1>25 DEF TriesFit
<1>. QED  BY Zenon, <1>16, <1>20, <1>24, <1>26, FanPartsNext

\* A batch without its first item.
LEMMA TailDrain ==
  ASSUME NEW d \in Drains, d.batch # <<>>, NEW y, y = [d EXCEPT !.batch = Tail(@)]
  PROVE  y \in Drains /\ y.batch = Tail(d.batch) /\ y.again = d.again
<1>1. Tail(d.batch) \in Seq(ItemSet)
  BY DEF Drains
<1>. QED  BY <1>1 DEF Drains

\* An event is delivered.
LEMMA DeliverKeeps ==
  ASSUME FanRest, NEW h \in Hosts, NEW q \in Queues, Deliver(h, q)
  PROVE  FanRest'
<1>1. drain \in [Hosts -> [Queues -> Drains]] /\ fate \in [Events -> Fates]
      /\ faults \in 0 .. MaxFaults
  BY Zenon, FanParts, FanVars
<1>2. PICK item : item = Head(drain[h][q].batch)
  OBVIOUS
<1>3. /\ drain[h][q].batch # <<>> /\ drain' = [drain EXCEPT ![h][q].batch = Tail(@)]
      /\ Show(h, item.ev) /\ fate' = [fate EXCEPT ![item.ev] = "delivered"] /\ queue' = queue
      /\ UNCHANGED <<raised, unsent, rows, acks, toRelay, served, life, faults, flushes>>
  BY <1>2 DEF Deliver, relayVars
<1>4. PICK c : c = drain[h][q]
  OBVIOUS
<1>5. PICK d : d = [c EXCEPT !.batch = Tail(@)]
  OBVIOUS
<1>6. d \in Drains /\ d.batch = Tail(drain[h][q].batch) /\ d.again = drain[h][q].again
  BY <1>1, <1>3, <1>4, <1>5, TailDrain
<1>7. drain' = [drain EXCEPT ![h][q] = d]
  BY <1>1, <1>3, <1>4, <1>5
<1>8. item.ev \in Events
  <2>1. drain[h][q].batch \in Seq(ItemSet)
    BY <1>1, DrainFacts
  <2>. QED  BY <1>2, <1>3, <2>1, FirstItem, ItemFacts
<1>9. /\ fate' \in [Events -> Fates] /\ fate'[item.ev] \in {"delivered", "failed"}
      /\ \A x \in Events : x # item.ev => fate'[x] = fate[x]
  BY <1>1, <1>3, <1>8 DEF Fates
<1>10. faults' \in 0 .. MaxFaults /\ faults <= faults'
  BY <1>1, <1>3, FanNumbers
<1>11. Attempt(h, q, item, d)
  BY Zenon, <1>2, <1>3, <1>6, <1>7, <1>9, <1>10 DEF Attempt
<1>. QED  BY Zenon, <1>6, <1>11, AttemptMoves

\* The same, with the item behind those to retry.
LEMMA FailedDrain ==
  ASSUME NEW d \in Drains, d.batch # <<>>, NEW z \in ItemSet, NEW y,
         y = [d EXCEPT !.batch = Tail(@), !.again = Append(@, z)]
  PROVE  y \in Drains /\ y.batch = Tail(d.batch) /\ y.again = Append(d.again, z)
<1>1. Tail(d.batch) \in Seq(ItemSet) /\ Append(d.again, z) \in Seq(ItemSet)
  BY DEF Drains
<1>. QED  BY <1>1 DEF Drains

\* A delivery fails, and is tried again or is not.
LEMMA DeliverFailsKeeps ==
  ASSUME FanRest, NEW h \in Hosts, NEW q \in Queues, DeliverFails(h, q)
  PROVE  FanRest'
<1>1. /\ drain \in [Hosts -> [Queues -> Drains]] /\ fate \in [Events -> Fates]
      /\ faults \in 0 .. MaxFaults
      /\ TriesFit /\ FanOutTypeOK /\ InPlace
  BY Zenon, FanParts, FanVars
<1>2. PICK item : item = Head(drain[h][q].batch)
  OBVIOUS
<1>3. /\ drain[h][q].batch # <<>> /\ queue' = queue
      /\ IF item.tries = 0 THEN Fault ELSE UNCHANGED faults
      /\ Show(h, item.ev) \/ shownAt' = shownAt
      /\ IF Retried(item)
         THEN /\ drain' = [drain EXCEPT ![h][q].batch = Tail(@),
                                        ![h][q].again = Append(@, [item EXCEPT !.tries = @ + 1])]
              /\ fate' = fate
         ELSE /\ drain' = [drain EXCEPT ![h][q].batch = Tail(@)]
              /\ fate' = [fate EXCEPT ![item.ev] = "failed"]
      /\ UNCHANGED <<raised, unsent, rows, acks, toRelay, served, life, flushes>>
  BY <1>2 DEF DeliverFails, relayVars
<1>4. drain[h][q].batch \in Seq(ItemSet)
  BY <1>1, DrainFacts
<1>5. item \in ItemSet /\ item \in HeldAt(h, q)
  BY <1>2, <1>3, <1>4, FirstItem DEF HeldAt
<1>6. item.ev \in Events /\ item.tries \in Nat /\ item.tries <= MaxRetries
      /\ fate[item.ev] = "queued"
  BY <1>1, <1>5, ItemFacts, HeldIsQueued
<1>7. faults' \in 0 .. MaxFaults /\ faults <= faults' /\ faults' # 0
  <2>1. faults = 0 => item.tries = 0
    BY <1>1, <1>5 DEF TriesFit
  <2>2. CASE item.tries = 0
    BY <1>1, <1>3, <2>2, FanNumbers DEF Fault
  <2>3. CASE item.tries # 0
    BY <1>1, <1>3, <2>1, <2>3, FanNumbers
  <2>. QED  BY <2>2, <2>3
<1>8. PICK c : c = drain[h][q]
  OBVIOUS
<1>9. c \in Drains /\ c.batch # <<>>
  BY <1>1, <1>3, <1>8
<1>10. CASE Retried(item)
  <2>1. PICK z : z = [item EXCEPT !.tries = @ + 1]
    OBVIOUS
  <2>2. /\ z \in ItemSet /\ z.ev = item.ev /\ z.tries = item.tries + 1
        /\ raised[item.ev].prio # "low"
    BY <1>5, <1>6, <1>10, <2>1, FanNumbers DEF Retried, ItemSet
  <2>3. PICK d : d = [c EXCEPT !.batch = Tail(@), !.again = Append(@, z)]
    OBVIOUS
  <2>4. d \in Drains /\ d.batch = Tail(c.batch) /\ d.again = Append(c.again, z)
    BY <1>9, <2>2, <2>3, FailedDrain
  <2>5. drain' = [drain EXCEPT ![h][q] = d]
    BY <1>1, <1>3, <1>8, <1>10, <2>1, <2>3, ZenonT(40)
  <2>6. fate' \in [Events -> Fates] /\ fate'[item.ev] = "queued"
             /\ \A x \in Events : x # item.ev => fate'[x] = fate[x]
    BY <1>1, <1>3, <1>6, <1>10
  <2>7. d.batch = Tail(drain[h][q].batch) /\ d.again = Append(drain[h][q].again, z)
    BY <1>8, <2>4
  <2>8. Attempt(h, q, item, d)
    BY Zenon, <1>2, <1>3, <1>7, <2>2, <2>5, <2>6, <2>7 DEF Attempt
  <2>. QED  BY Zenon, <2>4, <2>8, AttemptMoves
<1>11. CASE ~Retried(item)
  <2>1. PICK d : d = [c EXCEPT !.batch = Tail(@)]
    OBVIOUS
  <2>2. d \in Drains /\ d.batch = Tail(drain[h][q].batch) /\ d.again = drain[h][q].again
    BY <1>8, <1>9, <2>1, TailDrain
  <2>3. drain' = [drain EXCEPT ![h][q] = d]
    BY <1>1, <1>3, <1>8, <1>11, <2>1
  <2>4. /\ fate' \in [Events -> Fates] /\ fate'[item.ev] \in {"delivered", "failed"}
        /\ \A x \in Events : x # item.ev => fate'[x] = fate[x]
    BY <1>1, <1>3, <1>6, <1>11 DEF Fates
  <2>5. Attempt(h, q, item, d)
    BY Zenon, <1>2, <1>3, <1>7, <2>2, <2>3, <2>4 DEF Attempt
  <2>. QED  BY Zenon, <2>2, <2>5, AttemptMoves
<1>. QED  BY <1>10, <1>11
-----------------------------------------------------------------------------
(* Raising an event.                                                         *)

\* Nothing is made yet of an event nobody raised.
LEMMA NothingOfIt ==
  ASSUME FanRest, NEW e \in Events, raised[e] = NotRaised
  PROVE  /\ fate[e] = "none" /\ \A g \in Hosts : shownAt[<<g, e>>] = 0
              /\ <<g, e>> \notin unsent /\ served[g] # e
         /\ \A i \in DOMAIN rows : rows[i].ev # e
         /\ \A g \in Hosts : \A i \in DOMAIN toRelay[g] : toRelay[g][i].ev # e
         /\ \A a \in acks : a[1] # e
         /\ \A g \in Hosts, q \in Queues : \A t \in HeldAt(g, q) : t.ev # e
<1>1. FanOutTypeOK /\ InPlace /\ EventsFit /\ RowsFit
  BY Zenon, FanParts
<1>2. fate[e] = "none" /\ \A g \in Hosts : shownAt[<<g, e>>] = 0 /\ <<g, e>> \notin unsent
  BY <1>1 DEF EventsFit
<1>3. \A g \in Hosts : served[g] # e
  BY <1>1, FanNumbers DEF RowsFit
<1>4. /\ \A i \in DOMAIN rows : rows[i].ev # e
      /\ \A g \in Hosts : \A i \in DOMAIN toRelay[g] : toRelay[g][i].ev # e
      /\ \A a \in acks : a[1] # e
  BY <1>1 DEF RowsFit, IsRow
<1>5. \A g \in Hosts, q \in Queues : \A t \in HeldAt(g, q) : t.ev # e
  BY <1>1, <1>2, HeldIsQueued
<1>. QED  BY <1>2, <1>3, <1>4, <1>5

\* What the three ways to raise an event have in common.
Raise(h, e, r) ==
  /\ raised[e] = NotRaised /\ raised' = [raised EXCEPT ![e] = r]
  /\ r.host = h /\ r.life = life[h]
  /\ unsent' \subseteq unsent \cup {<<h, e>>}
  /\ (r.direct /\ Show(h, e)) \/ (~r.direct /\ shownAt' = shownAt)
  /\ fate'[e] = "queued" => ~r.direct
  /\ fate'[e] # "none"
  /\ \A x \in Events : x # e => fate'[x] = fate[x] \/ (fate[x] = "queued" /\ fate'[x] = "evicted")
  /\ faults' \in 0 .. MaxFaults /\ faults <= faults'
  /\ UNCHANGED <<rows, acks, toRelay, served, life, flushes>>

\* What raising an event changes.
LEMMA RaiseFacts ==
  ASSUME FanRest, NEW h \in Hosts, NEW e \in Events, NEW r \in RaisedRows, Raise(h, e, r)
  PROVE  /\ raised' \in [Events -> {NotRaised} \cup RaisedRows] /\ raised'[e] = r
         /\ \A x \in Events : x # e => raised'[x] = raised[x] /\ Origin(x)' = Origin(x)
         /\ Origin(e)' = Instance(h) /\ \A g \in Hosts : Instance(g)' = Instance(g)
         /\ shownAt' \in [Hosts \X Events -> Nat]
              /\ shownAt'[<<h, e>>] = IF r.direct THEN 1 ELSE 0
         /\ \A g \in Hosts, x \in Events : g # h \/ x # e
              => shownAt'[<<g, x>>] = shownAt[<<g, x>>]
<1>1. /\ raised \in [Events -> {NotRaised} \cup RaisedRows]
      /\ shownAt \in [Hosts \X Events -> Nat]
  BY Zenon, FanParts, FanVars
<1>2. /\ raised[e] = NotRaised /\ raised' = [raised EXCEPT ![e] = r] /\ life' = life
      /\ r.host = h /\ r.life = life[h] /\ r.direct \in BOOLEAN
      /\ (r.direct /\ Show(h, e)) \/ (~r.direct /\ shownAt' = shownAt)
  BY RaisedFacts DEF Raise
<1>3. shownAt[<<h, e>>] = 0
  BY <1>2, NothingOfIt
<1>4. /\ raised' \in [Events -> {NotRaised} \cup RaisedRows] /\ raised'[e] = r
      /\ \A x \in Events : x # e => raised'[x] = raised[x]
  BY <1>1, <1>2
<1>5. \A x \in Events : x # e => Origin(x)' = Origin(x)
  BY <1>4 DEF Origin
<1>6. Origin(e)' = Instance(h) /\ \A g \in Hosts : Instance(g)' = Instance(g)
  BY <1>2, <1>4 DEF Origin, Instance
<1>7. /\ shownAt' \in [Hosts \X Events -> Nat]
      /\ \A g \in Hosts, x \in Events : g # h \/ x # e => shownAt'[<<g, x>>] = shownAt[<<g, x>>]
  BY <1>1, <1>2, ShowFacts
<1>8. shownAt'[<<h, e>>] = IF r.direct THEN 1 ELSE 0
  <2>1. <<h, e>> \in Hosts \X Events
    OBVIOUS
  <2>2. CASE r.direct /\ Show(h, e)
    <3>1. shownAt' = [shownAt EXCEPT ![<<h, e>>] = shownAt[<<h, e>>] + 1]
      BY <2>2 DEF Show
    <3>. QED  BY <1>1, <1>3, <2>1, <2>2, <3>1
  <2>3. CASE ~r.direct /\ shownAt' = shownAt
    BY <1>3, <2>3
  <2>. QED  BY <1>2, <2>2, <2>3
<1>. QED  BY <1>4, <1>5, <1>6, <1>7, <1>8

\* It is shown where it was raised at most once so far.
LEMMA RaiseServes ==
  ASSUME FanRest, NEW h \in Hosts, NEW e \in Events, NEW r \in RaisedRows, Raise(h, e, r)
  PROVE  ServedPerAttempt' /\ OwnEventOnce' /\ OncePerInstance'
<1>1. FanOutTypeOK /\ ServedPerAttempt /\ OwnEventOnce /\ OncePerInstance
  BY Zenon, FanParts
<1>2. raised \in [Events -> {NotRaised} \cup RaisedRows] /\ faults \in 0 .. MaxFaults
      /\ acks \in SUBSET (Events \X Lives)
  BY Zenon, <1>1, FanVars
<1>3. /\ raised[e] = NotRaised /\ r.host = h /\ life' = life /\ acks' = acks
      /\ faults' \in 0 .. MaxFaults /\ faults <= faults'
  BY DEF Raise
<1>4. /\ raised'[e] = r /\ \A x \in Events : x # e => raised'[x] = raised[x]
      /\ shownAt'[<<h, e>>] = (IF r.direct THEN 1 ELSE 0)
      /\ \A g \in Hosts, x \in Events : g # h \/ x # e => shownAt'[<<g, x>>] = shownAt[<<g, x>>]
  BY RaiseFacts
<1>5. ServedPerAttempt'
  <2>. SUFFICES ASSUME NEW x \in Events, raised'[x] # NotRaised,
                       life'[raised'[x].host] = raised'[x].life
                PROVE  shownAt'[<<raised'[x].host, x>>]
                          <= IF raised'[x].prio = "low" THEN 1 ELSE MaxRetries + 1
    BY DEF ServedPerAttempt
  <2>1. CASE x = e
    BY <1>3, <1>4, <2>1, FanNumbers
  <2>2. CASE x # e
    <3>1. raised'[x] = raised[x]
      BY <1>4, <2>2
    <3>2. raised[x].host \in Hosts
      BY <1>2, <3>1, RaisedFacts
    <3>3. shownAt'[<<raised[x].host, x>>] = shownAt[<<raised[x].host, x>>]
      BY <1>4, <2>2, <3>2
    <3>. QED  BY <1>1, <1>3, <3>1, <3>3 DEF ServedPerAttempt
  <2>. QED  BY <2>1, <2>2
<1>6. OwnEventOnce'
  <2>. SUFFICES ASSUME NEW x \in Events, raised'[x] # NotRaised, raised'[x].direct,
                       life'[raised'[x].host] = raised'[x].life
                PROVE  shownAt'[<<raised'[x].host, x>>] = 1
    BY DEF OwnEventOnce
  <2>1. CASE x = e
    BY <1>3, <1>4, <2>1
  <2>2. CASE x # e
    <3>1. raised'[x] = raised[x]
      BY <1>4, <2>2
    <3>2. raised[x].host \in Hosts
      BY <1>2, <3>1, RaisedFacts
    <3>3. shownAt'[<<raised[x].host, x>>] = shownAt[<<raised[x].host, x>>]
      BY <1>4, <2>2, <3>2
    <3>. QED  BY <1>1, <1>3, <3>1, <3>3 DEF OwnEventOnce
  <2>. QED  BY <2>1, <2>2
<1>7. OncePerInstance'
  <2>. SUFFICES ASSUME faults' = 0
                PROVE  /\ \A y \in Hosts \X Events : shownAt'[y] <= 1
                       /\ \A a \in acks : a[1] \notin Poison => shownAt'[<<a[2][1], a[1]>>] = 1
    BY <1>3 DEF OncePerInstance
  <2>1. faults = 0
    BY <1>2, <1>3, FanNumbers
  <2>2. /\ \A y \in Hosts \X Events : shownAt[y] <= 1
        /\ \A a \in acks : a[1] \notin Poison => shownAt[<<a[2][1], a[1]>>] = 1
    BY <1>1, <2>1 DEF OncePerInstance
  <2>3. ASSUME NEW g \in Hosts, NEW x \in Events PROVE shownAt'[<<g, x>>] <= 1
    <3>1. shownAt[<<g, x>>] <= 1
      BY <2>2
    <3>2. CASE g = h /\ x = e
      BY <1>4, <3>2
    <3>. QED  BY <1>4, <3>1, <3>2
  <2>4. ASSUME NEW a \in acks, a[1] \notin Poison PROVE shownAt'[<<a[2][1], a[1]>>] = 1
    <3>1. a[1] \in Events /\ a[2][1] \in Hosts /\ a[1] # e
      BY <1>2, <1>3, NothingOfIt DEF Lives
    <3>2. shownAt[<<a[2][1], a[1]>>] = 1
      BY <2>2, <2>4
    <3>. QED  BY <1>4, <3>1, <3>2
  <2>. QED  BY <2>3, <2>4
<1>. QED  BY <1>5, <1>6, <1>7

\* EventsFit in the next state.
LEMMA EventsFitNext ==
  ASSUME \A x \in Events :
           /\ raised'[x] = NotRaised => fate'[x] = "none" /\ \A g \in Hosts :
                shownAt'[<<g, x>>] = 0 /\ <<g, x>> \notin unsent'
           /\ raised'[x] # NotRaised =>
                /\ raised'[x].life <= life'[raised'[x].host]
                /\ fate'[x] = "queued" => ~raised'[x].direct
                     /\ raised'[x].life = life'[raised'[x].host]
                /\ \A g \in Hosts : <<g, x>> \in unsent' => Instance(g)' = Origin(x)'
  PROVE  EventsFit'
BY Zenon DEF EventsFit, Instance, Origin

\* EventsFit of one event.
LEMMA EventFitsNow ==
  ASSUME EventsFit, NEW x \in Events
  PROVE  /\ raised[x] = NotRaised => fate[x] = "none" /\ \A g \in Hosts :
               shownAt[<<g, x>>] = 0 /\ <<g, x>> \notin unsent
         /\ raised[x] # NotRaised =>
               /\ raised[x].life <= life[raised[x].host]
               /\ fate[x] = "queued" => ~raised[x].direct /\ raised[x].life = life[raised[x].host]
               /\ \A g \in Hosts : <<g, x>> \in unsent => Instance(g) = Origin(x)
BY Zenon DEF EventsFit

\* It was raised in the life its process is in.
LEMMA RaiseEvents ==
  ASSUME FanRest, NEW h \in Hosts, NEW e \in Events, NEW r \in RaisedRows, Raise(h, e, r)
  PROVE  EventsFit'
<1>1. FanOutTypeOK /\ EventsFit
  BY Zenon, FanParts
<1>2. life \in [Hosts -> 1 .. MaxFaults + 1]
  BY Zenon, <1>1, FanVars
<1>3. /\ raised[e] = NotRaised /\ r.host = h /\ r.life = life[h] /\ life' = life
      /\ unsent' \subseteq unsent \cup {<<h, e>>}
      /\ fate'[e] = "queued" => ~r.direct
      /\ \A x \in Events : x # e => fate'[x] = fate[x] \/ (fate[x] = "queued"
           /\ fate'[x] = "evicted")
  BY DEF Raise
<1>4. /\ raised'[e] = r /\ \A x \in Events : x # e => raised'[x] = raised[x]
           /\ Origin(x)' = Origin(x)
      /\ Origin(e)' = Instance(h) /\ \A g \in Hosts : Instance(g)' = Instance(g)
      /\ \A g \in Hosts, x \in Events : g # h \/ x # e => shownAt'[<<g, x>>] = shownAt[<<g, x>>]
  BY RaiseFacts
<1>. SUFFICES ASSUME NEW x \in Events
              PROVE  /\ raised'[x] = NotRaised => fate'[x] = "none" /\ \A g \in Hosts :
                          shownAt'[<<g, x>>] = 0 /\ <<g, x>> \notin unsent'
                     /\ raised'[x] # NotRaised =>
                          /\ raised'[x].life <= life'[raised'[x].host]
                          /\ fate'[x] = "queued" => ~raised'[x].direct
                               /\ raised'[x].life = life'[raised'[x].host]
                          /\ \A g \in Hosts : <<g, x>> \in unsent' => Instance(g)' = Origin(x)'
  BY Zenon, EventsFitNext
<1>5. CASE x = e
  <2>1. r # NotRaised /\ life[h] \in Nat
    BY <1>2, LifeFacts, RaisedFacts
  <2>2. ASSUME NEW g \in Hosts, <<g, e>> \in unsent' PROVE g = h
    <3>1. <<g, e>> \notin unsent
      BY <1>3, NothingOfIt
    <3>2. <<g, e>> \in unsent \cup {<<h, e>>}
      BY Zenon, <1>3, <2>2
    <3>. QED  BY <3>1, <3>2
  <2>3. raised'[e] = r /\ raised'[e] # NotRaised /\ life'[raised'[e].host] = raised'[e].life
    BY <1>3, <1>4, <2>1
  <2>4. raised'[e].life <= life'[raised'[e].host]
    BY <1>3, <2>1, <2>3
  <2>5. \A g \in Hosts : <<g, e>> \in unsent' => Instance(g)' = Origin(e)'
    BY <1>4, <2>2
  <2>6. fate'[e] = "queued" => ~raised'[e].direct
    BY Zenon, <1>3, <2>3
  <2>. QED  BY Zenon, <1>5, <2>3, <2>4, <2>5, <2>6
<1>6. CASE x # e
  <2>1. raised'[x] = raised[x] /\ Origin(x)' = Origin(x)
             /\ \A g \in Hosts : shownAt'[<<g, x>>] = shownAt[<<g, x>>]
    BY <1>4, <1>6
  <2>2. ASSUME NEW g \in Hosts, <<g, x>> \in unsent' PROVE <<g, x>> \in unsent
    <3>1. <<g, x>> \in unsent \cup {<<h, e>>}
      BY Zenon, <1>3, <2>2
    <3>. QED  BY <1>6, <3>1
  <2>3. fate'[x] = fate[x] \/ (fate[x] = "queued" /\ fate'[x] = "evicted")
    BY <1>3, <1>6
  <2>4. \A g \in Hosts : Instance(g)' = Instance(g)
    BY <1>4
  <2>5. /\ raised[x] = NotRaised => fate[x] = "none" /\ \A g \in Hosts :
               shownAt[<<g, x>>] = 0 /\ <<g, x>> \notin unsent
        /\ raised[x] # NotRaised =>
               /\ raised[x].life <= life[raised[x].host]
               /\ fate[x] = "queued" => ~raised[x].direct /\ raised[x].life = life[raised[x].host]
               /\ \A g \in Hosts : <<g, x>> \in unsent => Instance(g) = Origin(x)
    BY Zenon, <1>1, EventFitsNow
  <2>. QED  BY <1>3, <2>1, <2>2, <2>3, <2>4, <2>5
<1>. QED  BY <1>5, <1>6

\* It has no row yet.
LEMMA RaiseRows ==
  ASSUME FanRest, NEW h \in Hosts, NEW e \in Events, NEW r \in RaisedRows, Raise(h, e, r)
  PROVE  RowsFit' /\ RelayFits'
<1>1. FanOutTypeOK /\ RowsFit /\ RelayFits
  BY Zenon, FanParts
<1>2. /\ faults \in 0 .. MaxFaults /\ acks \in SUBSET (Events \X Lives) /\ rows \in Seq(FanRows)
      /\ toRelay \in [Hosts -> Seq(FanRows)] /\ served \in [Hosts -> Events \cup {Nothing}]
      /\ life \in [Hosts -> 1 .. MaxFaults + 1]
  BY Zenon, <1>1, FanVars
<1>3. /\ raised[e] = NotRaised /\ r.host = h
      /\ unsent' \subseteq unsent \cup {<<h, e>>}
      /\ faults' \in 0 .. MaxFaults /\ faults <= faults'
      /\ rows' = rows /\ acks' = acks /\ toRelay' = toRelay /\ served' = served /\ life' = life
  BY DEF Raise
<1>4. /\ raised'[e] = r /\ \A x \in Events : x # e => raised'[x] = raised[x]
           /\ Origin(x)' = Origin(x)
      /\ Origin(e)' = Instance(h) /\ \A g \in Hosts : Instance(g)' = Instance(g)
      /\ \A g \in Hosts, x \in Events : g # h \/ x # e => shownAt'[<<g, x>>] = shownAt[<<g, x>>]
  BY RaiseFacts
<1>5. /\ \A g \in Hosts : shownAt[<<g, e>>] = 0 /\ served[g] # e
      /\ \A i \in DOMAIN rows : rows[i].ev # e
      /\ \A g \in Hosts : \A i \in DOMAIN toRelay[g] : toRelay[g][i].ev # e
      /\ \A a \in acks : a[1] # e
  BY <1>3, NothingOfIt
<1>6. RowsFit'
  <2>1. \A g \in Hosts : life'[g] <= faults' + 1
    BY <1>1, <1>2, <1>3, FanNumbers DEF RowsFit
  <2>2. ASSUME NEW i \in DOMAIN rows
        PROVE  IsRow(rows[i])' /\ \A g \in Hosts : <<g, rows[i].ev>> \notin unsent'
    <3>1. rows[i].ev \in Events /\ rows[i].ev # e
      BY <1>2, <1>5, FanRowFacts
    <3>2. IsRow(rows[i]) /\ \A g \in Hosts : <<g, rows[i].ev>> \notin unsent
      BY <1>1 DEF RowsFit
    <3>3. IsRow(rows[i])'
      BY <1>3, <1>4, <3>1, <3>2 DEF IsRow, Origin
    <3>. QED  BY <1>3, <3>1, <3>2, <3>3
  <2>3. ASSUME NEW g \in Hosts, NEW i \in DOMAIN toRelay[g]
        PROVE  IsRow(toRelay[g][i])' /\ toRelay[g][i].src # Instance(g)'
    <3>1. toRelay[g][i].ev \in Events /\ toRelay[g][i].ev # e
      BY <1>2, <1>5, FanRowFacts
    <3>2. IsRow(toRelay[g][i]) /\ toRelay[g][i].src # Instance(g)
      BY <1>1 DEF RowsFit
    <3>. QED  BY <1>3, <1>4, <3>1, <3>2 DEF IsRow, Origin
  <2>4. ASSUME NEW g \in Hosts, served[g] # Nothing
        PROVE  raised'[served[g]] # NotRaised /\ Origin(served[g])' # Instance(g)'
    <3>1. served[g] \in Events /\ served[g] # e
      BY <1>2, <1>5, <2>4
    <3>2. raised[served[g]] # NotRaised /\ Origin(served[g]) # Instance(g)
      BY <1>1, <2>4 DEF RowsFit
    <3>3. Origin(served[g])' = Origin(served[g])
      BY <1>3, <1>4, <3>1 DEF Origin
    <3>. QED  BY <1>4, <3>1, <3>2, <3>3
  <2>5. ASSUME NEW a \in acks
        PROVE  raised'[a[1]] # NotRaised /\ Origin(a[1])' # a[2] /\ a[2][2] <= life[a[2][1]]
    <3>1. a[1] \in Events /\ a[1] # e
      BY <1>2, <1>5
    <3>2. raised[a[1]] # NotRaised /\ Origin(a[1]) # a[2] /\ a[2][2] <= life[a[2][1]]
      BY <1>1 DEF RowsFit
    <3>. QED  BY <1>4, <3>1, <3>2
  <2>6. OncePerEvent(rows)
    BY <1>1 DEF RowsFit
  <2>. QED  BY <1>3, <2>1, <2>2, <2>3, <2>4, <2>5, <2>6 DEF RowsFit, OncePerEvent, Origin, IsRow
<1>7. RelayFits'
  <2>. SUFFICES ASSUME faults' = 0, NEW g \in Hosts
                PROVE  /\ OncePerEvent(toRelay'[g])
                       /\ \A i \in DOMAIN toRelay'[g] :
                             /\ \E j \in DOMAIN rows' : rows'[j].ev = toRelay'[g][i].ev
                             /\ toRelay'[g][i].ev # served'[g]
                             /\ <<toRelay'[g][i].ev, Instance(g)'>> \notin acks'
                       /\ served'[g] # Nothing => \E j \in DOMAIN rows' : rows'[j].ev = served'[g]
                       /\ \A x \in Events : raised'[x] # NotRaised /\ raised'[x].host # g =>
                             shownAt'[<<g, x>>] = IF /\ served'[g] = x
                                                          \/ <<x, Instance(g)'>> \in acks'
                                                     /\ x \notin Poison THEN 1 ELSE 0
    BY Zenon, RelayFitsNext
  <2>1. faults = 0
    BY <1>2, <1>3, FanNumbers
  <2>2. /\ OncePerEvent(toRelay[g])
        /\ \A i \in DOMAIN toRelay[g] :
              /\ \E j \in DOMAIN rows : rows[j].ev = toRelay[g][i].ev
              /\ toRelay[g][i].ev # served[g] /\ <<toRelay[g][i].ev, Instance(g)>> \notin acks
        /\ served[g] # Nothing => \E j \in DOMAIN rows : rows[j].ev = served[g]
        /\ \A x \in Events : raised[x] # NotRaised /\ raised[x].host # g =>
              shownAt[<<g, x>>] = IF /\ served[g] = x \/ <<x, Instance(g)>> \in acks
                                     /\ x \notin Poison THEN 1 ELSE 0
    BY Zenon, <1>1, <2>1, RelayFitsNow
  <2>3. ASSUME NEW x \in Events, raised'[x] # NotRaised, raised'[x].host # g
        PROVE  shownAt'[<<g, x>>] = IF /\ served[g] = x \/ <<x, Instance(g)>> \in acks
                                       /\ x \notin Poison THEN 1 ELSE 0
    <3>1. CASE x = e
      <4>1. g # h /\ served[g] # e /\ <<e, Instance(g)>> \notin acks
        BY <1>3, <1>4, <1>5, <2>3, <3>1
      <4>2. shownAt'[<<g, e>>] = 0
        BY <1>4, <1>5, <4>1
      <4>. QED  BY <3>1, <4>1, <4>2
    <3>2. CASE x # e
      BY <1>4, <2>2, <2>3, <3>2
    <3>. QED  BY <3>1, <3>2
  <2>4. Instance(g)' = Instance(g)
    BY <1>4
  <2>. QED  BY <1>3, <2>2, <2>3, <2>4
<1>. QED  BY <1>6, <1>7
\* So an event may be raised, wherever its item goes.
LEMMA RaiseRests ==
  ASSUME FanRest, NEW h \in Hosts, NEW e \in Events, NEW r \in RaisedRows, Raise(h, e, r),
         queue' \in [Hosts -> [Queues -> Seq(ItemSet)]], drain' = drain,
              fate' \in [Events -> Fates],
         InPlace', TriesFit'
  PROVE  FanRest'
<1>1. FanOutTypeOK
  BY Zenon, FanParts
<1>2. /\ drain \in [Hosts -> [Queues -> Drains]] /\ unsent \in SUBSET (Hosts \X Events)
      /\ rows \in Seq(FanRows) /\ acks \in SUBSET (Events \X Lives)
      /\ toRelay \in [Hosts -> Seq(FanRows)] /\ served \in [Hosts -> Events \cup {Nothing}]
      /\ life \in [Hosts -> 1 .. MaxFaults + 1] /\ flushes \in 0 .. MaxFlushes
  BY Zenon, <1>1, FanVars
<1>3. /\ unsent' \subseteq unsent \cup {<<h, e>>} /\ faults' \in 0 .. MaxFaults
      /\ rows' = rows /\ acks' = acks /\ toRelay' = toRelay /\ served' = served /\ life' = life
      /\ flushes' = flushes
  BY DEF Raise
<1>4. unsent' \in SUBSET (Hosts \X Events)
  BY <1>2, <1>3
<1>5. raised' \in [Events -> {NotRaised} \cup RaisedRows] /\ shownAt' \in [Hosts \X Events -> Nat]
  BY RaiseFacts
<1>6. FanOutTypeOK'
  BY Zenon, <1>2, <1>3, <1>4, <1>5, FanTypedNext
<1>7. ServedPerAttempt' /\ OwnEventOnce' /\ OncePerInstance' /\ EventsFit' /\ RowsFit'
      /\ RelayFits'
  BY Zenon, RaiseServes, RaiseEvents, RaiseRows
<1>. QED  BY Zenon, <1>6, <1>7, FanPartsNext

\* A direct event is in no queue.
LEMMA RaiseDirect ==
  ASSUME FanRest, NEW h \in Hosts, NEW e \in Events, NEW r \in RaisedRows, Raise(h, e, r),
         UNCHANGED <<queue, drain>>, NEW v \in {"delivered", "failed"},
              fate' = [fate EXCEPT ![e] = v]
  PROVE  FanRest'
<1>1. FanOutTypeOK /\ InPlace /\ TriesFit
  BY Zenon, FanParts
<1>2. /\ queue \in [Hosts -> [Queues -> Seq(ItemSet)]] /\ fate \in [Events -> Fates]
      /\ faults \in 0 .. MaxFaults
  BY Zenon, <1>1, FanVars
<1>3. raised[e] = NotRaised /\ faults' \in 0 .. MaxFaults /\ faults <= faults'
  BY DEF Raise
<1>4. /\ raised'[e] = r /\ \A x \in Events : x # e => raised'[x] = raised[x]
      /\ \A g \in Hosts, x \in Events : g # h \/ x # e => shownAt'[<<g, x>>] = shownAt[<<g, x>>]
  BY RaiseFacts
<1>5. fate[e] = "none" /\ \A g \in Hosts, q \in Queues : \A t \in HeldAt(g, q) : t.ev # e
  BY <1>3, NothingOfIt
<1>6. fate' \in [Events -> Fates] /\ fate'[e] # "queued" /\ \A x \in Events : x # e
           => fate'[x] = fate[x]
  BY <1>2 DEF Fates
<1>7. ASSUME NEW g \in Hosts, NEW q \in Queues PROVE QueuedAt(g, q)' = QueuedAt(g, q)
  <2>1. ASSUME NEW x \in Events
        PROVE  (fate'[x] = "queued" /\ raised'[x].host = g /\ QueueOf(raised'[x].prio) = q)
               <=> (fate[x] = "queued" /\ raised[x].host = g /\ QueueOf(raised[x].prio) = q)
    <3>1. CASE x = e
      BY <1>5, <1>6, <3>1
    <3>2. CASE x # e
      BY <1>4, <1>6, <3>2
    <3>. QED  BY <3>1, <3>2
  <2>. QED  BY <2>1 DEF QueuedAt
<1>8. InPlace'
  BY <1>1, <1>7, InPlaceNext DEF InPlace
<1>9. TriesFit'
  <2>. SUFFICES ASSUME NEW g \in Hosts, NEW q \in Queues, NEW t \in HeldAt(g, q)'
                PROVE  /\ shownAt'[<<g, t.ev>>] <= t.tries
                       /\ faults' = 0 \/ raised'[t.ev].prio = "low" => t.tries = 0
    BY DEF TriesFit
  <2>1. t \in HeldAt(g, q)
    BY HeldStands
  <2>2. t.ev \in Events /\ t.ev # e
    BY <1>1, <1>5, <2>1, HeldIsQueued
  <2>3. /\ shownAt[<<g, t.ev>>] <= t.tries
        /\ faults = 0 \/ raised[t.ev].prio = "low" => t.tries = 0
    BY <1>1, <2>1 DEF TriesFit
  <2>4. faults' = 0 => faults = 0
    BY <1>2, <1>3, FanNumbers
  <2>. QED  BY <1>4, <2>2, <2>3, <2>4
<1>10. queue' \in [Hosts -> [Queues -> Seq(ItemSet)]] /\ drain' = drain
  BY <1>2
<1>. QED  BY Zenon, <1>6, <1>8, <1>9, <1>10, RaiseRests

\* An event is delivered in place.
LEMMA BroadcastKeeps ==
  ASSUME FanRest, NEW h \in Hosts, NEW e \in Events, Broadcast(h, e)
  PROVE  FanRest'
<1>1. PICK r : r = [host |-> h, life |-> life[h], prio |-> "high", direct |-> TRUE]
  OBVIOUS
<1>2. /\ raised[e] = NotRaised /\ raised' = [raised EXCEPT ![e] = r]
      /\ unsent' = unsent \cup {<<h, e>>}
      /\ Show(h, e) /\ fate' = [fate EXCEPT ![e] = "delivered"]
      /\ UNCHANGED <<queue, drain, rows, acks, toRelay, served, life, faults, flushes>>
  BY <1>1 DEF Broadcast, Raised, relayVars
<1>3. r \in RaisedRows /\ r.host = h /\ r.life = life[h] /\ r.direct = TRUE
  <2>1. life \in [Hosts -> 1 .. MaxFaults + 1]
    BY Zenon, FanParts, FanVars
  <2>2. r \in RaisedRows /\ r.host = h /\ r.life = life[h]
    BY <1>1, <2>1 DEF RaisedRows, Priorities
  <2>3. r.direct = TRUE
    BY <1>1
  <2>. QED  BY <2>2, <2>3
<1>4. fate \in [Events -> Fates] /\ faults \in 0 .. MaxFaults
  BY Zenon, FanParts, FanVars
<1>5. /\ unsent' \subseteq unsent \cup {<<h, e>>} /\ faults' \in 0 .. MaxFaults
      /\ faults <= faults'
      /\ fate'[e] = "delivered" /\ \A x \in Events : x # e => fate'[x] = fate[x]
  BY <1>2, <1>4, FanNumbers
<1>6. fate'[e] # "queued" /\ fate'[e] # "none"
  BY <1>5
<1>7. Raise(h, e, r)
  BY Zenon, <1>2, <1>3, <1>5, <1>6 DEF Raise
<1>. QED  BY <1>2, <1>3, <1>7, RaiseDirect

\* Its delivery fails part-way.
LEMMA BroadcastFailsKeeps ==
  ASSUME FanRest, NEW h \in Hosts, NEW e \in Events, BroadcastFails(h, e)
  PROVE  FanRest'
<1>1. PICK r : r = [host |-> h, life |-> life[h], prio |-> "high", direct |-> TRUE]
  OBVIOUS
<1>2. /\ raised[e] = NotRaised /\ raised' = [raised EXCEPT ![e] = r] /\ unsent' = unsent
      /\ Show(h, e) /\ fate' = [fate EXCEPT ![e] = "failed"] /\ Fault
      /\ UNCHANGED <<queue, drain, rows, acks, toRelay, served, life, flushes>>
  BY <1>1 DEF BroadcastFails, relayVars
<1>3. r \in RaisedRows /\ r.host = h /\ r.life = life[h] /\ r.direct = TRUE
  <2>1. life \in [Hosts -> 1 .. MaxFaults + 1]
    BY Zenon, FanParts, FanVars
  <2>2. r \in RaisedRows /\ r.host = h /\ r.life = life[h]
    BY <1>1, <2>1 DEF RaisedRows, Priorities
  <2>3. r.direct = TRUE
    BY <1>1
  <2>. QED  BY <2>2, <2>3
<1>4. fate \in [Events -> Fates] /\ faults \in 0 .. MaxFaults
  BY Zenon, FanParts, FanVars
<1>5. /\ unsent' \subseteq unsent \cup {<<h, e>>} /\ faults' \in 0 .. MaxFaults
      /\ faults <= faults'
      /\ fate'[e] = "failed" /\ \A x \in Events : x # e => fate'[x] = fate[x]
  BY <1>2, <1>4, FanNumbers DEF Fault
<1>6. fate'[e] # "queued" /\ fate'[e] # "none"
  BY <1>5
<1>7. Raise(h, e, r)
  BY Zenon, <1>2, <1>3, <1>5, <1>6 DEF Raise
<1>. QED  BY <1>2, <1>3, <1>7, RaiseDirect

\* Its row is inserted, or is not.
LEMMA PublishKeeps ==
  ASSUME FanRest, NEW h \in Hosts, NEW e \in Events, Publish(h, e)
  PROVE  FanRest'
<1>1. /\ FanOutTypeOK /\ InPlace /\ ServedPerAttempt /\ OwnEventOnce /\ OncePerInstance
      /\ EventsFit /\ TriesFit /\ RowsFit /\ RelayFits
  BY Zenon, FanParts
<1>2. /\ unsent \in SUBSET (Hosts \X Events) /\ rows \in Seq(FanRows) /\ faults \in 0 .. MaxFaults
      /\ life \in [Hosts -> 1 .. MaxFaults + 1]
  BY Zenon, <1>1, FanVars
<1>3. /\ <<h, e>> \in unsent /\ unsent' = unsent \ {<<h, e>>}
      /\ \/ rows' = Append(rows, [ev |-> e, src |-> Instance(h)]) /\ faults' = faults
         \/ Fault /\ rows' = rows
      /\ UNCHANGED <<raised, queue, drain, fate, acks, toRelay, served, life, shownAt, flushes>>
  BY Zenon DEF Publish
<1>4. raised[e] # NotRaised /\ Instance(h) = Origin(e)
           /\ \A g \in Hosts : <<g, e>> \in unsent => Instance(g) = Origin(e)
  BY <1>1, <1>3, EventFitsNow
<1>5. faults' \in 0 .. MaxFaults /\ faults <= faults' /\ unsent' \subseteq unsent
      /\ unsent' \in SUBSET (Hosts \X Events) /\ (faults' = 0 => faults = 0)
  BY <1>2, <1>3, FanNumbers DEF Fault
<1>6. ServedPerAttempt' /\ OwnEventOnce' /\ OncePerInstance' /\ InPlace'
  BY <1>1, <1>3, <1>5, ServedStands, OnceStands, PlacesStand
<1>7. EventsFit'
  BY <1>1, <1>3, <1>5, EventsStand
<1>8. TriesFit'
  <2>1. \A g \in Hosts, q \in Queues : HeldAt(g, q)' \subseteq HeldAt(g, q)
    BY <1>3, HeldStands
  <2>. QED  BY <1>1, <1>3, <1>5, <2>1, TriesStand
<1>9. CASE Fault /\ rows' = rows
  <2>1. RowsFit' /\ RelayFits'
    BY <1>1, <1>2, <1>3, <1>5, <1>9, FanNumbers, RowsStand, RelayStands
  <2>2. FanOutTypeOK'
    BY Zenon, <1>1, <1>3, <1>5, <1>9, FanVars, FanTypedNext
  <2>. QED  BY Zenon, <1>6, <1>7, <1>8, <2>1, <2>2, FanPartsNext
<1>10. CASE rows' = Append(rows, [ev |-> e, src |-> Instance(h)]) /\ faults' = faults
  <2>1. PICK r : r = [ev |-> e, src |-> Instance(h)]
    OBVIOUS
  <2>2. r \in FanRows /\ r.ev = e /\ r.src = Instance(h)
    BY <1>2, <2>1, LifeFacts DEF FanRows
  <2>3. rows' = Append(rows, r)
    BY <1>10, <2>1
  <2>4. PICK m \in Nat : m = Len(rows)
    BY <1>2
  <2>5. /\ rows' \in Seq(FanRows) /\ DOMAIN rows = 1 .. m /\ DOMAIN rows' = 1 .. (m + 1)
        /\ \A i \in 1 .. m : rows'[i] = rows[i]
        /\ rows'[m + 1] = r
    BY <1>2, <2>2, <2>3, <2>4
  <2>6. \A i \in 1 .. m : i \in 1 .. (m + 1)
    BY <2>4
  <2>7. \A i \in 1 .. (m + 1) : i \in 1 .. m \/ i = m + 1
    BY <2>4
  <2>8. \A i \in 1 .. m : rows[i].ev # e /\ IsRow(rows[i])
             /\ \A g \in Hosts : <<g, rows[i].ev>> \notin unsent
    BY <1>1, <1>3, <2>5 DEF RowsFit
  <2>9. OncePerEvent(rows')
    <3>1. \A i, k \in 1 .. m : rows[i].ev = rows[k].ev => i = k
      BY <1>1, <2>5 DEF RowsFit, OncePerEvent
    <3>2. ASSUME NEW i \in 1 .. (m + 1), NEW k \in 1 .. (m + 1), rows'[i].ev = rows'[k].ev
          PROVE  i = k
      <4>1. CASE i \in 1 .. m /\ k \in 1 .. m
        BY <2>5, <3>1, <3>2, <4>1
      <4>2. CASE i \in 1 .. m /\ k = m + 1
        BY <2>2, <2>5, <2>8, <3>2, <4>2
      <4>3. CASE i = m + 1 /\ k \in 1 .. m
        BY <2>2, <2>5, <2>8, <3>2, <4>3
      <4>. QED  BY <2>7, <4>1, <4>2, <4>3
    <3>. QED  BY <2>5, <3>2 DEF OncePerEvent
  <2>10. \A g \in Hosts : Instance(g)' = Instance(g)
    BY <1>3 DEF Instance
  <2>11. \A x : Origin(x)' = Origin(x)
    BY <1>3 DEF Origin
  <2>12. ASSUME NEW i \in 1 .. (m + 1)
         PROVE  /\ raised[rows'[i].ev] # NotRaised /\ rows'[i].src = Origin(rows'[i].ev)
                /\ \A g \in Hosts : <<g, rows'[i].ev>> \notin unsent'
    <3>1. CASE i \in 1 .. m
      BY <1>5, <2>5, <2>8, <3>1 DEF IsRow
    <3>2. CASE i = m + 1
      <4>1. ASSUME NEW g \in Hosts, <<g, e>> \in unsent PROVE g = h
        BY <1>4, <4>1 DEF Instance
      <4>. QED  BY <1>3, <1>4, <2>2, <2>5, <3>2, <4>1
    <3>. QED  BY <2>7, <3>1, <3>2
  <2>13. RowsFit'
    <3>1. \A i \in DOMAIN rows' : /\ raised'[rows'[i].ev] # NotRaised
                                       /\ rows'[i].src = <<raised'[rows'[i].ev].host, raised'[rows'[i].ev].life>>
                                  /\ \A g \in Hosts : <<g, rows'[i].ev>> \notin unsent'
      BY <1>3, <2>5, <2>12 DEF Origin
    <3>2. \A i \in DOMAIN rows' : IsRow(rows[i])'
               /\ \A g \in Hosts : <<g, rows'[i].ev>> \notin unsent'
      BY <3>1 DEF IsRow, Origin
    <3>. QED  BY <1>1, <1>3, <1>10, <2>9, <3>2 DEF RowsFit, OncePerEvent, IsRow, Origin, Instance
  <2>14. RelayFits'
    <3>. SUFFICES ASSUME faults' = 0, NEW g \in Hosts
                  PROVE  /\ OncePerEvent(toRelay'[g])
                         /\ \A i \in DOMAIN toRelay'[g] :
                               /\ \E j \in DOMAIN rows' : rows'[j].ev = toRelay'[g][i].ev
                               /\ toRelay'[g][i].ev # served'[g]
                               /\ <<toRelay'[g][i].ev, Instance(g)'>> \notin acks'
                         /\ served'[g] # Nothing
                              => \E j \in DOMAIN rows' : rows'[j].ev = served'[g]
                         /\ \A x \in Events : raised'[x] # NotRaised /\ raised'[x].host # g =>
                               shownAt'[<<g, x>>] = IF /\ served'[g] = x
                                                            \/ <<x, Instance(g)'>> \in acks'
                                                       /\ x \notin Poison THEN 1 ELSE 0
      BY Zenon, RelayFitsNext
    <3>1. faults = 0
      BY <1>5
    <3>2. /\ OncePerEvent(toRelay[g])
          /\ \A i \in DOMAIN toRelay[g] :
                /\ \E j \in DOMAIN rows : rows[j].ev = toRelay[g][i].ev
                /\ toRelay[g][i].ev # served[g] /\ <<toRelay[g][i].ev, Instance(g)>> \notin acks
          /\ served[g] # Nothing => \E j \in DOMAIN rows : rows[j].ev = served[g]
          /\ \A x \in Events : raised[x] # NotRaised /\ raised[x].host # g =>
                shownAt[<<g, x>>] = IF /\ served[g] = x \/ <<x, Instance(g)>> \in acks
                                       /\ x \notin Poison THEN 1 ELSE 0
      BY Zenon, <1>1, <3>1, RelayFitsNow
    <3>3. ASSUME NEW x, \E j \in DOMAIN rows : rows[j].ev = x
          PROVE  \E j \in DOMAIN rows' : rows'[j].ev = x
      BY <2>5, <2>6, <3>3
    <3>4. Instance(g)' = Instance(g)
      BY <2>10
    <3>. QED  BY <1>3, <3>2, <3>3, <3>4
  <2>15. FanOutTypeOK'
    BY Zenon, <1>1, <1>3, <1>5, <2>5, FanVars, FanTypedNext
  <2>. QED  BY Zenon, <1>6, <1>7, <1>8, <2>13, <2>14, <2>15, FanPartsNext
<1>. QED  BY Zenon, <1>3, <1>9, <1>10
\* A queue past its cap loses its front, and never the item just added.
LEMMA OverflowFacts ==
  ASSUME NEW s \in Seq(ItemSet), Len(s) > 0, NEW q, NEW n,
         n = IF q = "normal" THEN Overflow(s) ELSE 0
  PROVE  n \in Nat /\ n <= Len(s) /\ n < Len(s)
BY FanNumbers DEF Overflow

\* The events of a line that gains one and loses some.
Gaining(S, k, gone) == (S \cup {k}) \ gone

\* A line that gains an item and loses its front: y and z are the lines beside it.
Gains(a, y, z, S, t, n, x, gone, R) ==
  /\ a \in Seq(ItemSet) /\ S \in SUBSET Events /\ t \in ItemSet /\ t.ev \notin S
  /\ InThree(a, y, z, S)
  /\ n \in Nat /\ n < Len(a) + 1
  /\ x = Left(Append(a, t), n) /\ gone = Gone(Append(a, t), n) /\ R = Gaining(S, t.ev, gone)

\* Its lines stay in place.
LEMMA EnqueueLines ==
  ASSUME NEW a, NEW y, NEW z, NEW S, NEW t, NEW n, NEW x, NEW gone, NEW R,
         Gains(a, y, z, S, t, n, x, gone, R)
  PROVE  /\ x \in Seq(ItemSet) /\ \A u \in ToSet(x) : u \in ToSet(a) \/ u = t
         /\ InThree(x, y, z, R) /\ t.ev \notin gone /\ \A k \in gone : k \in S
<1>1. PICK e : e = t.ev
  OBVIOUS
<1>2. PICK s : s = Append(a, t)
  OBVIOUS
<1>3. /\ a \in Seq(ItemSet) /\ S \in SUBSET Events /\ t \in ItemSet /\ e \notin S
      /\ InThree(a, y, z, S)
      /\ n \in Nat /\ n < Len(a) + 1 /\ s = Append(a, t)
      /\ x = Left(s, n) /\ gone = Gone(s, n) /\ R = Gaining(S, t.ev, gone)
  BY Zenon, <1>1, <1>2 DEF Gains
<1>4. OncePerEvent(a) /\ e \notin Evs(ToSet(a)) /\ e \notin Evs(ToSet(y))
      /\ e \notin Evs(ToSet(z))
  BY <1>1, <1>3 DEF InThree
<1>5. /\ s \in Seq(ItemSet) /\ ToSet(s) = ToSet(a) \cup {t} /\ Len(s) = Len(a) + 1
      /\ OncePerEvent(s)
  BY <1>1, <1>4, <1>3, AppendedItem
<1>6. s[Len(s)] = t
  BY <1>5, <1>3
<1>7. /\ x \in Seq(ItemSet) /\ \A u \in ToSet(x) : u \in ToSet(s)
      /\ \A k : k \in Evs(ToSet(s)) <=> k \in gone \/ k \in Evs(ToSet(x))
      /\ OncePerEvent(x) /\ \A k \in gone : k \notin Evs(ToSet(x))
      /\ s[Len(s)] \in ToSet(x)
  <2>1. n < Len(s)
    BY <1>5, <1>3
  <2>. QED  BY <1>5, <1>3, <2>1, CutItems
<1>8. e \in Evs(ToSet(x))
  BY <1>1, <1>6, <1>7 DEF Evs
<1>9. Evs(ToSet(s)) = Evs(ToSet(a)) \cup {e}
  BY <1>1, <1>5 DEF Evs
<1>10. /\ e \notin gone /\ \A k \in gone : k \in Evs(ToSet(a))
      /\ \A k \in Evs(ToSet(x)) : k \in Evs(ToSet(a)) \/ k = e
  BY <1>7, <1>8, <1>9
<1>11. Evs(ToSet(a)) \subseteq S
  BY <1>3 DEF InThree
<1>12. InThree(x, y, z, R)
  <2>1. /\ OncePerEvent(y) /\ OncePerEvent(z) /\ Evs(ToSet(a)) \cap Evs(ToSet(y)) = {}
        /\ Evs(ToSet(a)) \cap Evs(ToSet(z)) = {} /\ Evs(ToSet(y)) \cap Evs(ToSet(z)) = {}
        /\ Evs(ToSet(a)) \cup Evs(ToSet(y)) \cup Evs(ToSet(z)) = S
    BY <1>3 DEF InThree
  <2>2. Evs(ToSet(x)) \cap Evs(ToSet(y)) = {} /\ Evs(ToSet(x)) \cap Evs(ToSet(z)) = {}
    BY <1>4, <1>10, <2>1
  <2>3. \A k : k \in R <=> k \in Evs(ToSet(x)) \/ k \in Evs(ToSet(y)) \/ k \in Evs(ToSet(z))
    BY <1>1, <1>3, <1>4, <1>7, <1>8, <1>9, <1>10, <2>1 DEF Gaining
  <2>4. Evs(ToSet(x)) \cup Evs(ToSet(y)) \cup Evs(ToSet(z)) = R
    BY <2>3
  <2>. QED  BY <1>7, <2>1, <2>2, <2>4 DEF InThree
<1>. QED  BY <1>1, <1>5, <1>7, <1>10, <1>11, <1>12

\* An event is queued, and the front of a full queue is evicted.
LEMMA EnqueueKeeps ==
  ASSUME FanRest, NEW h \in Hosts, NEW e \in Events, NEW p \in Priorities, Enqueue(h, e, p)
  PROVE  FanRest'
<1>1. FanOutTypeOK /\ InPlace /\ TriesFit
  BY Zenon, FanParts
<1>2. /\ queue \in [Hosts -> [Queues -> Seq(ItemSet)]] /\ drain \in [Hosts -> [Queues -> Drains]]
      /\ fate \in [Events -> Fates] /\ faults \in 0 .. MaxFaults
      /\ life \in [Hosts -> 1 .. MaxFaults + 1]
  BY Zenon, <1>1, FanVars
<1>3. PICK q \in Queues : q = QueueOf(p)
  BY DEF QueueOf, Queues
<1>4. PICK a \in Seq(ItemSet) : a = queue[h][q]
  BY <1>2
<1>5. PICK t : t = [ev |-> e, tries |-> 0]
  OBVIOUS
<1>6. t \in ItemSet /\ t.ev = e /\ t.tries = 0
  BY <1>5, FanNumbers DEF ItemSet
<1>7. PICK s : s = Append(a, t)
  OBVIOUS
<1>8. s \in Seq(ItemSet) /\ Len(s) = Len(a) + 1 /\ Len(s) > 0 /\ Len(a) \in Nat
  BY <1>6, <1>7
<1>9. PICK n : n = IF q = "normal" THEN Overflow(s) ELSE 0
  OBVIOUS
<1>10. n \in Nat /\ n < Len(a) + 1
  BY <1>8, <1>9, OverflowFacts
<1>11. PICK x : x = Left(s, n)
  OBVIOUS
<1>12. PICK gone : gone = Gone(s, n)
  OBVIOUS
<1>13. PICK r : r = [host |-> h, life |-> life[h], prio |-> p, direct |-> FALSE]
  OBVIOUS
<1>14. r \in RaisedRows /\ r.host = h /\ r.life = life[h] /\ r.prio = p /\ ~r.direct
  <2>1. r \in RaisedRows /\ r.host = h /\ r.life = life[h] /\ r.prio = p
    BY <1>2, <1>13 DEF RaisedRows
  <2>2. ~r.direct
    BY <1>13
  <2>. QED  BY <2>1, <2>2
<1>15. /\ raised[e] = NotRaised /\ raised' = [raised EXCEPT ![e] = r]
       /\ unsent' = unsent \cup {<<h, e>>}
       /\ queue' = [queue EXCEPT ![h][q] = x]
       /\ fate' = [k \in Events |-> IF k = e \/ \E i \in 1 .. n : s[i].ev = k
                                    THEN IF \E i \in 1 .. n : s[i].ev = k THEN "evicted" ELSE "queued"
                                    ELSE fate[k]]
       /\ UNCHANGED <<drain, rows, acks, toRelay, served, life, shownAt, faults, flushes>>
  BY <1>3, <1>4, <1>5, <1>7, <1>9, <1>11, <1>13 DEF Enqueue, Raised, relayVars, Left
<1>16. \A k \in Events : fate'[k] = IF k \in gone THEN "evicted"
            ELSE IF k = e THEN "queued" ELSE fate[k]
  BY <1>12, <1>15 DEF Gone
<1>17. /\ fate[e] = "none" /\ \A g \in Hosts : shownAt[<<g, e>>] = 0
       /\ \A g \in Hosts, w \in Queues : \A u \in HeldAt(g, w) : u.ev # e
  BY <1>15, NothingOfIt
<1>18. PICK S \in SUBSET Events : S = QueuedAt(h, q)
  BY DEF QueuedAt
<1>19. PICK R : R = Gaining(S, t.ev, gone)
  OBVIOUS
<1>20. /\ x \in Seq(ItemSet) /\ \A u \in ToSet(x) : u \in ToSet(a) \/ u = t
       /\ InThree(x, drain[h][q].batch, drain[h][q].again, R) /\ e \notin gone
            /\ \A k \in gone : k \in S
  <2>1. PICK y : y = drain[h][q].batch
    OBVIOUS
  <2>2. PICK z : z = drain[h][q].again
    OBVIOUS
  <2>3. InThree(a, y, z, S)
    BY <1>1, <1>4, <1>18, <2>1, <2>2 DEF InPlace
  <2>4. t.ev \notin S
    BY <1>6, <1>17, <1>18 DEF QueuedAt
  <2>5. /\ x \in Seq(ItemSet) /\ \A u \in ToSet(x) : u \in ToSet(a) \/ u = t
        /\ InThree(x, y, z, R) /\ t.ev \notin gone /\ \A k \in gone : k \in S
    <3>1. Gains(a, y, z, S, t, n, x, gone, R)
      BY Zenon, <1>6, <1>7, <1>10, <1>11, <1>12, <1>19, <2>3, <2>4 DEF Gains
    <3>. QED  BY Zenon, <3>1, EnqueueLines
  <2>. QED  BY <1>6, <2>1, <2>2, <2>5
<1>21. \A k \in gone : fate[k] = "queued" /\ raised[k].host = h /\ QueueOf(raised[k].prio) = q
  BY <1>18, <1>20 DEF QueuedAt
<1>22. /\ fate' \in [Events -> Fates] /\ fate'[e] = "queued"
       /\ \A k \in Events : k # e => fate'[k] = fate[k] \/ (fate[k] = "queued"
            /\ fate'[k] = "evicted")
  BY <1>2, <1>15, <1>16, <1>20, <1>21 DEF Fates
<1>23. Raise(h, e, r)
  <2>1. faults' \in 0 .. MaxFaults /\ faults <= faults'
    BY <1>2, <1>15, FanNumbers
  <2>2. fate'[e] # "none" /\ unsent' \subseteq unsent \cup {<<h, e>>}
    BY <1>15, <1>22
  <2>. QED  BY Zenon, <1>14, <1>15, <1>22, <2>1, <2>2 DEF Raise
<1>24. raised'[e] = r /\ \A k \in Events : k # e => raised'[k] = raised[k]
  <2>1. raised \in [Events -> {NotRaised} \cup RaisedRows]
    BY Zenon, <1>1, FanVars
  <2>. QED  BY <1>15, <2>1
<1>25. ASSUME NEW g \in Hosts, NEW w \in Queues, g # h \/ w # q
       PROVE  QueuedAt(g, w)' = QueuedAt(g, w)
  <2>1. ASSUME NEW k \in Events
        PROVE  (fate'[k] = "queued" /\ raised'[k].host = g /\ QueueOf(raised'[k].prio) = w)
               <=> (fate[k] = "queued" /\ raised[k].host = g /\ QueueOf(raised[k].prio) = w)
    <3>1. CASE k = e
      BY <1>3, <1>14, <1>17, <1>24, <1>25, <3>1
    <3>2. CASE k # e
      BY <1>16, <1>21, <1>24, <1>25, <3>2
    <3>. QED  BY <3>1, <3>2
  <2>. QED  BY <2>1 DEF QueuedAt
<1>26. QueuedAt(h, q)' = R
  <2>1. ASSUME NEW k \in Events
        PROVE  (fate'[k] = "queued" /\ raised'[k].host = h
               /\ QueueOf(raised'[k].prio) = q) <=> k \in R
    <3>1. CASE k = e
      BY <1>3, <1>6, <1>14, <1>19, <1>20, <1>22, <1>24, <3>1 DEF Gaining
    <3>2. CASE k # e
      BY <1>6, <1>16, <1>18, <1>19, <1>24, <3>2 DEF QueuedAt, Gaining
    <3>. QED  BY <3>1, <3>2
  <2>2. R \subseteq Events
    BY <1>6, <1>19 DEF Gaining
  <2>. QED  BY <2>1, <2>2 DEF QueuedAt
<1>27. /\ queue' \in [Hosts -> [Queues -> Seq(ItemSet)]] /\ queue'[h][q] = x /\ drain' = drain
       /\ \A g \in Hosts, w \in Queues : g # h \/ w # q => queue'[g][w] = queue[g][w]
  BY <1>2, <1>15, <1>20
<1>28. InPlace'
  <2>. SUFFICES ASSUME NEW g \in Hosts, NEW w \in Queues
                PROVE  InThree(queue'[g][w], drain'[g][w].batch, drain'[g][w].again, QueuedAt(g, w)')
    BY Zenon, InPlaceNext
  <2>1. CASE g = h /\ w = q
    BY <1>20, <1>26, <1>27, <2>1
  <2>2. CASE g # h \/ w # q
    <3>1. InThree(queue[g][w], drain[g][w].batch, drain[g][w].again, QueuedAt(g, w))
      BY <1>1 DEF InPlace
    <3>. QED  BY <1>25, <1>27, <2>2, <3>1
  <2>. QED  BY <2>1, <2>2
<1>29. TriesFit'
  <2>. SUFFICES ASSUME NEW g \in Hosts, NEW w \in Queues, NEW u \in HeldAt(g, w)'
                PROVE  /\ shownAt'[<<g, u.ev>>] <= u.tries
                       /\ faults' = 0 \/ raised'[u.ev].prio = "low" => u.tries = 0
    BY DEF TriesFit
  <2>1. HeldAt(g, w)' = ToSet(queue'[g][w]) \cup ToSet(drain'[g][w].batch) \cup ToSet(drain'[g][w].again)
    BY HeldNext
  <2>2. u \in HeldAt(g, w) \/ (u = t /\ g = h)
    <3>1. CASE g = h /\ w = q
      BY <1>4, <1>20, <1>27, <2>1, <3>1 DEF HeldAt
    <3>2. CASE g # h \/ w # q
      BY <1>27, <2>1, <3>2 DEF HeldAt
    <3>. QED  BY <3>1, <3>2
  <2>3. CASE u \in HeldAt(g, w)
    <3>1. u.ev \in Events /\ u.ev # e
      BY <1>1, <1>17, <2>3, HeldIsQueued
    <3>2. /\ shownAt[<<g, u.ev>>] <= u.tries
          /\ faults = 0 \/ raised[u.ev].prio = "low" => u.tries = 0
      BY <1>1, <2>3 DEF TriesFit
    <3>. QED  BY <1>15, <1>24, <3>1, <3>2
  <2>4. CASE u = t /\ g = h
    BY <1>6, <1>15, <1>17, <2>4
  <2>. QED  BY <2>2, <2>3, <2>4
<1>. QED  BY Zenon, <1>14, <1>22, <1>23, <1>27, <1>28, <1>29, RaiseRests
-----------------------------------------------------------------------------
(* The relay.                                                                *)

\* What the steps of the relay have in common: the process that raised an event is left alone.
RelayStep ==
  /\ UNCHANGED <<raised, queue, drain, fate, unsent, life, flushes>>
  /\ rows' \in Seq(FanRows) /\ acks' \in SUBSET (Events \X Lives)
  /\ toRelay' \in [Hosts -> Seq(FanRows)] /\ served' \in [Hosts -> Events \cup {Nothing}]
  /\ shownAt' \in [Hosts \X Events -> Nat]
  /\ \A g \in Hosts, x \in Events :
        raised[x] = NotRaised \/ Origin(x) = Instance(g) => shownAt'[<<g, x>>] = shownAt[<<g, x>>]
  /\ faults' \in 0 .. MaxFaults /\ faults <= faults'

\* What a step of the relay has to keep is what it says of rows.
LEMMA RelayRests ==
  ASSUME FanRest, RelayStep, OncePerInstance', RowsFit', RelayFits'
  PROVE  FanRest'
<1>1. /\ FanOutTypeOK /\ InPlace /\ ServedPerAttempt /\ OwnEventOnce /\ EventsFit /\ TriesFit
  BY Zenon, FanParts
<1>2. /\ raised \in [Events -> {NotRaised} \cup RaisedRows] /\ faults \in 0 .. MaxFaults
      /\ queue \in [Hosts -> [Queues -> Seq(ItemSet)]] /\ drain \in [Hosts -> [Queues -> Drains]]
      /\ fate \in [Events -> Fates] /\ unsent \in SUBSET (Hosts \X Events)
      /\ life \in [Hosts -> 1 .. MaxFaults + 1] /\ flushes \in 0 .. MaxFlushes
  BY Zenon, <1>1, FanVars
<1>3. /\ raised' = raised /\ queue' = queue /\ drain' = drain /\ fate' = fate
      /\ unsent' = unsent /\ life' = life
      /\ flushes' = flushes /\ faults' \in 0 .. MaxFaults /\ faults <= faults'
      /\ \A g \in Hosts, x \in Events :
            raised[x] = NotRaised \/ Origin(x) = Instance(g)
                 => shownAt'[<<g, x>>] = shownAt[<<g, x>>]
  BY DEF RelayStep
<1>4. FanOutTypeOK'
  <2>1. /\ rows' \in Seq(FanRows) /\ acks' \in SUBSET (Events \X Lives)
        /\ toRelay' \in [Hosts -> Seq(FanRows)] /\ served' \in [Hosts -> Events \cup {Nothing}]
        /\ shownAt' \in [Hosts \X Events -> Nat]
    BY Zenon DEF RelayStep
  <2>. QED  BY Zenon, <1>2, <1>3, <2>1, FanTypedNext
<1>5. InPlace'
  BY <1>1, <1>3, PlacesStand
<1>6. ASSUME NEW x \in Events, raised[x] # NotRaised, life[raised[x].host] = raised[x].life
      PROVE  shownAt'[<<raised[x].host, x>>] = shownAt[<<raised[x].host, x>>]
  <2>1. raised[x].host \in Hosts
    BY <1>2, <1>6, RaisedFacts
  <2>2. Origin(x) = Instance(raised[x].host)
    BY <1>6 DEF Origin, Instance
  <2>. QED  BY <1>3, <2>1, <2>2
<1>7. ServedPerAttempt' /\ OwnEventOnce'
  BY <1>1, <1>3, <1>6 DEF ServedPerAttempt, OwnEventOnce
<1>8. EventsFit'
  <2>. SUFFICES ASSUME NEW x \in Events
                PROVE  /\ raised'[x] = NotRaised => fate'[x] = "none" /\ \A g \in Hosts :
                            shownAt'[<<g, x>>] = 0 /\ <<g, x>> \notin unsent'
                       /\ raised'[x] # NotRaised =>
                            /\ raised'[x].life <= life'[raised'[x].host]
                            /\ fate'[x] = "queued" => ~raised'[x].direct
                                 /\ raised'[x].life = life'[raised'[x].host]
                            /\ \A g \in Hosts : <<g, x>> \in unsent' => Instance(g)' = Origin(x)'
    BY Zenon, EventsFitNext
  <2>1. /\ raised[x] = NotRaised => fate[x] = "none" /\ \A g \in Hosts :
               shownAt[<<g, x>>] = 0 /\ <<g, x>> \notin unsent
        /\ raised[x] # NotRaised =>
               /\ raised[x].life <= life[raised[x].host]
               /\ fate[x] = "queued" => ~raised[x].direct /\ raised[x].life = life[raised[x].host]
               /\ \A g \in Hosts : <<g, x>> \in unsent => Instance(g) = Origin(x)
    BY Zenon, <1>1, EventFitsNow
  <2>2. Origin(x)' = Origin(x) /\ \A g \in Hosts : Instance(g)' = Instance(g)
    BY <1>3 DEF Origin, Instance
  <2>3. raised[x] = NotRaised => \A g \in Hosts : shownAt'[<<g, x>>] = shownAt[<<g, x>>]
    BY <1>3
  <2>. QED  BY <1>3, <2>1, <2>2, <2>3
<1>9. TriesFit'
  <2>. SUFFICES ASSUME NEW g \in Hosts, NEW q \in Queues, NEW t \in HeldAt(g, q)'
                PROVE  /\ shownAt'[<<g, t.ev>>] <= t.tries
                       /\ faults' = 0 \/ raised'[t.ev].prio = "low" => t.tries = 0
    BY DEF TriesFit
  <2>1. t \in HeldAt(g, q)
    BY <1>3, HeldStands
  <2>2. t.ev \in Events /\ fate[t.ev] = "queued" /\ raised[t.ev].host = g
    BY <1>1, <2>1, HeldIsQueued
  <2>3. Origin(t.ev) = Instance(g)
    BY <1>1, <2>2, QueuedFacts
  <2>4. shownAt'[<<g, t.ev>>] = shownAt[<<g, t.ev>>]
    BY <1>3, <2>2, <2>3
  <2>5. /\ shownAt[<<g, t.ev>>] <= t.tries
        /\ faults = 0 \/ raised[t.ev].prio = "low" => t.tries = 0
    BY <1>1, <2>1 DEF TriesFit
  <2>6. faults' = 0 => faults = 0
    BY <1>2, <1>3, FanNumbers
  <2>. QED  BY <1>3, <2>4, <2>5, <2>6
<1>. QED  BY Zenon, <1>4, <1>5, <1>7, <1>8, <1>9, FanPartsNext

\* RowsFit, said of one row, one pass and one acknowledgement at a time.
LEMMA RowsFitNext ==
  ASSUME \A h \in Hosts : life'[h] <= faults' + 1,
         \A i \in DOMAIN rows' : /\ raised'[rows'[i].ev] # NotRaised
                                 /\ rows'[i].src = <<raised'[rows'[i].ev].host, raised'[rows'[i].ev].life>>
                                 /\ \A h \in Hosts : <<h, rows'[i].ev>> \notin unsent',
         OncePerEvent(rows'),
         \A h \in Hosts : \A i \in DOMAIN toRelay'[h] :
            LET r == toRelay'[h][i] IN
            /\ raised'[r.ev] # NotRaised /\ r.src = <<raised'[r.ev].host, raised'[r.ev].life>>
            /\ r.src # <<h, life'[h]>>,
         \A h \in Hosts : served'[h] # Nothing =>
            raised'[served'[h]] # NotRaised
                 /\ <<raised'[served'[h]].host, raised'[served'[h]].life>> # <<h, life'[h]>>,
         \A a \in acks' : /\ raised'[a[1]] # NotRaised
                               /\ <<raised'[a[1]].host, raised'[a[1]].life>> # a[2]
                          /\ a[2][2] <= life'[a[2][1]]
  PROVE  RowsFit'
BY Zenon DEF RowsFit, IsRow, Origin, Instance, OncePerEvent

\* The same, taken apart.
LEMMA RowsFitNow ==
  ASSUME RowsFit
  PROVE  /\ \A h \in Hosts : life[h] <= faults + 1
         /\ \A i \in DOMAIN rows : /\ raised[rows[i].ev] # NotRaised
                                   /\ rows[i].src = <<raised[rows[i].ev].host, raised[rows[i].ev].life>>
                                   /\ \A h \in Hosts : <<h, rows[i].ev>> \notin unsent
         /\ OncePerEvent(rows)
         /\ \A h \in Hosts : \A i \in DOMAIN toRelay[h] :
               LET r == toRelay[h][i] IN
               /\ raised[r.ev] # NotRaised /\ r.src = <<raised[r.ev].host, raised[r.ev].life>>
               /\ r.src # <<h, life[h]>>
         /\ \A h \in Hosts : served[h] # Nothing =>
               raised[served[h]] # NotRaised
               /\ <<raised[served[h]].host, raised[served[h]].life>> # <<h, life[h]>>
         /\ \A a \in acks : /\ raised[a[1]] # NotRaised
                                 /\ <<raised[a[1]].host, raised[a[1]].life>> # a[2]
                            /\ a[2][2] <= life[a[2][1]]
BY Zenon DEF RowsFit, IsRow, Origin, Instance

\* Without a fault, an event of another instance is an event of another host.
LEMMA FromElsewhere ==
  ASSUME FanRest, faults = 0, NEW h \in Hosts, NEW e \in Events, raised[e] # NotRaised,
         Origin(e) # Instance(h)
  PROVE  raised[e].host # h
<1>1. FanOutTypeOK /\ EventsFit
  BY Zenon, FanParts
<1>2. raised[e] \in RaisedRows /\ life[h] = 1 /\ Instance(h) = <<h, 1>>
  BY Zenon, <1>1, FanVars, FirstLives
<1>3. raised[e].life \in Nat /\ raised[e].life >= 1
  BY <1>2, RaisedFacts
<1>4. raised[e].life <= life[raised[e].host]
  BY <1>1 DEF EventsFit
<1>5. raised[e].host = h => raised[e].life = 1
  BY <1>2, <1>3, <1>4
<1>. QED  BY <1>2, <1>5 DEF Origin

\* A pass takes the oldest rows of the others.
LEMMA BeginPassKeeps ==
  ASSUME FanRest, NEW h \in Hosts, BeginPass(h)
  PROVE  FanRest'
<1>1. FanOutTypeOK /\ OncePerInstance /\ RowsFit /\ RelayFits
  BY Zenon, FanParts
<1>2. /\ rows \in Seq(FanRows) /\ acks \in SUBSET (Events \X Lives)
      /\ toRelay \in [Hosts -> Seq(FanRows)]
      /\ served \in [Hosts -> Events \cup {Nothing}] /\ shownAt \in [Hosts \X Events -> Nat]
      /\ faults \in 0 .. MaxFaults /\ life \in [Hosts -> 1 .. MaxFaults + 1]
  BY Zenon, <1>1, FanVars
<1>3. /\ served[h] = Nothing
      /\ UNCHANGED <<raised, queue, drain, fate, unsent, rows, acks, served, life, shownAt,
           faults, flushes>>
  BY DEF BeginPass
<1>4. PICK n \in 1 .. RelayBatch : \E p \in [1 .. n -> Pending(h)] :
        Oldest(p, n, h) /\ toRelay' = [toRelay EXCEPT ![h] = [i \in 1 .. n |-> rows[p[i]]]]
  BY Zenon DEF BeginPass
<1>5. PICK p \in [1 .. n -> Pending(h)] :
        Oldest(p, n, h) /\ toRelay' = [toRelay EXCEPT ![h] = [i \in 1 .. n |-> rows[p[i]]]]
  BY <1>4
<1>6. PICK w : w = [i \in 1 .. n |-> rows[p[i]]]
  OBVIOUS
<1>7. \A i \in 1 .. n : /\ p[i] \in DOMAIN rows /\ w[i] = rows[p[i]] /\ w[i].src # Instance(h)
                        /\ <<w[i].ev, Instance(h)>> \notin acks
  BY <1>5, <1>6 DEF Pending
<1>8. n \in Nat /\ DOMAIN w = 1 .. n
  BY <1>6, FanNumbers
<1>9. /\ \A k \in DOMAIN rows : rows[k] \in FanRows /\ k \in Nat
      /\ \A i \in 1 .. n : w[i] \in FanRows
  <2>1. \A k \in DOMAIN rows : rows[k] \in FanRows /\ k \in Nat
    BY <1>2
  <2>. QED  BY Zenon, <1>7, <2>1
<1>10. w \in Seq(FanRows)
  <2>1. w \in [1 .. n -> FanRows]
    BY <1>6, <1>7, <1>9
  <2>2. \A f \in [1 .. n -> FanRows] : f \in Seq(FanRows)
    BY <1>8
  <2>. QED  BY <2>1, <2>2
<1>11. OncePerEvent(w)
  <2>1. \A i, k \in DOMAIN rows : rows[i].ev = rows[k].ev => i = k
    BY Zenon, <1>1, RowsFitNow DEF OncePerEvent
  <2>2. \A i, k \in 1 .. n : i < k => p[i] < p[k]
    BY <1>5 DEF Oldest
  <2>3. ASSUME NEW i \in 1 .. n, NEW k \in 1 .. n, w[i].ev = w[k].ev PROVE i = k
    <3>1. p[i] = p[k]
      <4>1. /\ p[i] \in DOMAIN rows /\ w[i] = rows[p[i]]
            /\ p[k] \in DOMAIN rows /\ w[k] = rows[p[k]]
        BY Zenon, <1>7
      <4>2. rows[p[i]].ev = rows[p[k]].ev
        BY Zenon, <2>3, <4>1
      <4>. QED  BY Zenon, <2>1, <4>1, <4>2
    <3>2. p[i] \in Nat
      BY Zenon, <1>7, <1>9
    <3>3. ~(i < k) /\ ~(k < i)
      BY <2>2, <3>1, <3>2
    <3>. QED  BY <1>8, <3>3
  <2>. QED  BY <1>8, <2>3 DEF OncePerEvent
<1>12. /\ toRelay' \in [Hosts -> Seq(FanRows)] /\ toRelay'[h] = w
       /\ \A g \in Hosts : g # h => toRelay'[g] = toRelay[g]
  BY <1>2, <1>5, <1>6, <1>10
<1>13. RelayStep
  BY <1>2, <1>3, <1>12, FanNumbers DEF RelayStep
<1>14. OncePerInstance'
  BY <1>1, <1>3, OnceStands
<1>15. /\ \A g \in Hosts : life[g] <= faults + 1
       /\ \A i \in DOMAIN rows : /\ raised[rows[i].ev] # NotRaised
                                 /\ rows[i].src = <<raised[rows[i].ev].host, raised[rows[i].ev].life>>
                                 /\ \A g \in Hosts : <<g, rows[i].ev>> \notin unsent
       /\ OncePerEvent(rows)
       /\ \A g \in Hosts : \A i \in DOMAIN toRelay[g] :
             LET r == toRelay[g][i] IN
             /\ raised[r.ev] # NotRaised /\ r.src = <<raised[r.ev].host, raised[r.ev].life>>
             /\ r.src # <<g, life[g]>>
       /\ \A g \in Hosts : served[g] # Nothing =>
             raised[served[g]] # NotRaised
             /\ <<raised[served[g]].host, raised[served[g]].life>> # <<g, life[g]>>
       /\ \A a \in acks : /\ raised[a[1]] # NotRaised
                               /\ <<raised[a[1]].host, raised[a[1]].life>> # a[2]
                          /\ a[2][2] <= life[a[2][1]]
  BY Zenon, <1>1, RowsFitNow
<1>16. RowsFit'
  <2>1. ASSUME NEW g \in Hosts, NEW i \in DOMAIN toRelay'[g], NEW r, r = toRelay'[g][i]
        PROVE  /\ raised[r.ev] # NotRaised /\ r.src = <<raised[r.ev].host, raised[r.ev].life>>
               /\ r.src # <<g, life[g]>>
    <3>1. CASE g = h
      <4>1. r = rows[p[i]] /\ p[i] \in DOMAIN rows /\ r.src # Instance(h)
        BY <1>7, <1>8, <1>12, <2>1, <3>1
      <4>. QED  BY <1>15, <3>1, <4>1 DEF Instance
    <3>2. CASE g # h
      BY <1>12, <1>15, <2>1, <3>2
    <3>. QED  BY <3>1, <3>2
  <2>2. \A g \in Hosts : \A i \in DOMAIN toRelay'[g] :
             LET r == toRelay'[g][i] IN
             /\ raised'[r.ev] # NotRaised /\ r.src = <<raised'[r.ev].host, raised'[r.ev].life>>
             /\ r.src # <<g, life'[g]>>
    BY <1>3, <2>1
  <2>3. /\ raised' = raised /\ life' = life /\ faults' = faults /\ rows' = rows
        /\ unsent' = unsent
        /\ served' = served /\ acks' = acks
    BY <1>3
  <2>. QED  BY Zenon, <1>15, <2>2, <2>3, RowsFitNext
<1>17. RelayFits'
  <2>. SUFFICES ASSUME faults' = 0, NEW g \in Hosts
                PROVE  /\ OncePerEvent(toRelay'[g])
                       /\ \A i \in DOMAIN toRelay'[g] :
                             /\ \E j \in DOMAIN rows' : rows'[j].ev = toRelay'[g][i].ev
                             /\ toRelay'[g][i].ev # served'[g]
                             /\ <<toRelay'[g][i].ev, Instance(g)'>> \notin acks'
                       /\ served'[g] # Nothing => \E j \in DOMAIN rows' : rows'[j].ev = served'[g]
                       /\ \A x \in Events : raised'[x] # NotRaised /\ raised'[x].host # g =>
                             shownAt'[<<g, x>>] = IF /\ served'[g] = x
                                                          \/ <<x, Instance(g)'>> \in acks'
                                                     /\ x \notin Poison THEN 1 ELSE 0
    BY Zenon, RelayFitsNext
  <2>1. faults = 0
    BY <1>3
  <2>2. /\ OncePerEvent(toRelay[g])
        /\ \A i \in DOMAIN toRelay[g] :
              /\ \E j \in DOMAIN rows : rows[j].ev = toRelay[g][i].ev
              /\ toRelay[g][i].ev # served[g] /\ <<toRelay[g][i].ev, Instance(g)>> \notin acks
        /\ served[g] # Nothing => \E j \in DOMAIN rows : rows[j].ev = served[g]
        /\ \A x \in Events : raised[x] # NotRaised /\ raised[x].host # g =>
              shownAt[<<g, x>>] = IF /\ served[g] = x \/ <<x, Instance(g)>> \in acks
                                     /\ x \notin Poison THEN 1 ELSE 0
    BY Zenon, <1>1, <2>1, RelayFitsNow
  <2>3. OncePerEvent(toRelay'[g]) /\
        \A i \in DOMAIN toRelay'[g] :
           /\ \E j \in DOMAIN rows : rows[j].ev = toRelay'[g][i].ev
           /\ toRelay'[g][i].ev # served[g] /\ <<toRelay'[g][i].ev, Instance(g)>> \notin acks
    <3>1. CASE g = h
      <4>1. \A i \in 1 .. n : w[i].ev # Nothing
        BY <1>9, FanRowFacts, FanNumbers
      <4>. QED  BY <1>3, <1>7, <1>8, <1>11, <1>12, <3>1, <4>1
    <3>2. CASE g # h
      BY <1>12, <2>2, <3>2
    <3>. QED  BY <3>1, <3>2
  <2>4. Instance(g)' = Instance(g)
    BY <1>3 DEF Instance
  <2>. QED  BY <1>3, <2>2, <2>3, <2>4
<1>. QED  BY Zenon, <1>13, <1>14, <1>16, <1>17, RelayRests
\* What an acknowledgement means without a fault: its instance is the first of its host.
LEMMA AckFacts ==
  ASSUME FanRest, faults = 0, NEW a \in acks
  PROVE  /\ a[1] \in Events /\ a[2][1] \in Hosts /\ a = <<a[1], Instance(a[2][1])>>
         /\ raised[a[1]] # NotRaised /\ raised[a[1]].host # a[2][1]
<1>1. FanOutTypeOK /\ RowsFit
  BY Zenon, FanParts
<1>2. acks \in SUBSET (Events \X Lives)
  BY Zenon, <1>1, FanVars
<1>3. PICK x \in Events, g \in Hosts, l \in 1 .. MaxFaults + 1 : a = <<x, <<g, l>>>>
  BY <1>2 DEF Lives
<1>4. raised[x] # NotRaised /\ Origin(x) # <<g, l>> /\ l <= life[g]
  BY <1>1, <1>3 DEF RowsFit
<1>5. life[g] = 1 /\ Instance(g) = <<g, 1>>
  BY FirstLives
<1>6. l = 1
  BY <1>4, <1>5, FanNumbers
<1>7. raised[x].host # g
  BY <1>4, <1>5, <1>6, FromElsewhere
<1>. QED  BY <1>3, <1>4, <1>5, <1>6, <1>7

\* The next row of a pass is delivered, or is not.
LEMMA RelayKeeps ==
  ASSUME FanRest, NEW h \in Hosts, Relay(h)
  PROVE  FanRest'
<1>1. FanOutTypeOK /\ OncePerInstance /\ RowsFit /\ RelayFits
  BY Zenon, FanParts
<1>2. /\ rows \in Seq(FanRows) /\ acks \in SUBSET (Events \X Lives)
      /\ toRelay \in [Hosts -> Seq(FanRows)]
      /\ served \in [Hosts -> Events \cup {Nothing}] /\ shownAt \in [Hosts \X Events -> Nat]
      /\ faults \in 0 .. MaxFaults /\ life \in [Hosts -> 1 .. MaxFaults + 1]
  BY Zenon, <1>1, FanVars
<1>3. PICK b : b = toRelay[h]
  OBVIOUS
<1>4. PICK w : w = Tail(b)
  OBVIOUS
<1>5. PICK r : r = Head(b)
  OBVIOUS
<1>6. PICK e : e = r.ev
  OBVIOUS
<1>7. /\ b # <<>> /\ served[h] = Nothing
      /\ toRelay' = [toRelay EXCEPT ![h] = w]
      /\ served' = [served EXCEPT ![h] = e]
      /\ \/ e \notin Poison /\ Show(h, e) /\ faults' = faults
         \/ e \in Poison /\ shownAt' = shownAt /\ faults' = faults
         \/ Fault /\ shownAt' = shownAt
      /\ UNCHANGED <<raised, queue, drain, fate, unsent, rows, acks, life, flushes>>
  BY <1>3, <1>4, <1>5, <1>6 DEF Relay
<1>8. /\ b \in Seq(FanRows) /\ r \in FanRows /\ w \in Seq(FanRows) /\ ToSet(b) = {r} \cup ToSet(w)
      /\ OncePerEvent(b) => OncePerEvent(w) /\ e \notin Evs(ToSet(w))
  <2>1. b \in Seq(FanRows)
    BY <1>2, <1>3
  <2>. QED  BY <1>4, <1>5, <1>6, <1>7, <2>1, FirstItem
<1>9. e \in Events
  BY <1>6, <1>8, FanRowFacts
<1>10. /\ toRelay' \in [Hosts -> Seq(FanRows)] /\ toRelay'[h] = w
       /\ served' \in [Hosts -> Events \cup {Nothing}] /\ served'[h] = e
       /\ \A g \in Hosts : g # h => toRelay'[g] = toRelay[g] /\ served'[g] = served[g]
  BY <1>2, <1>7, <1>8, <1>9
<1>11. /\ \A u \in ToSet(b) : /\ raised[u.ev] # NotRaised
                                   /\ u.src = <<raised[u.ev].host, raised[u.ev].life>>
                              /\ u.src # <<h, life[h]>>
       /\ r \in ToSet(b) /\ \A u \in ToSet(w) : u \in ToSet(b)
  <2>1. \A i \in DOMAIN b : /\ raised[b[i].ev] # NotRaised
                            /\ b[i].src = <<raised[b[i].ev].host, raised[b[i].ev].life>>
                            /\ b[i].src # <<h, life[h]>>
    BY Zenon, <1>1, <1>3, RowsFitNow
  <2>2. \A u \in ToSet(b) : \E i \in DOMAIN b : u = b[i]
    BY DEF ToSet
  <2>3. r \in ToSet(b) /\ \A u \in ToSet(w) : u \in ToSet(b)
    BY <1>8
  <2>. QED  BY <2>1, <2>2, <2>3
<1>12. raised[e] # NotRaised /\ Origin(e) # Instance(h)
  BY <1>6, <1>11 DEF Origin, Instance
<1>13. /\ shownAt' \in [Hosts \X Events -> Nat]
       /\ \A g \in Hosts, x \in Events : g # h \/ x # e => shownAt'[<<g, x>>] = shownAt[<<g, x>>]
       /\ faults' \in 0 .. MaxFaults /\ faults <= faults'
  <2>1. Show(h, e) \/ shownAt' = shownAt
    BY <1>7
  <2>2. /\ shownAt' \in [Hosts \X Events -> Nat]
        /\ \A g \in Hosts, x \in Events : g # h \/ x # e => shownAt'[<<g, x>>] = shownAt[<<g, x>>]
    BY <1>2, <1>9, <2>1, ShowFacts
  <2>3. faults' \in 0 .. MaxFaults /\ faults <= faults'
    BY <1>2, <1>7, FanNumbers DEF Fault
  <2>. QED  BY <2>2, <2>3
<1>14. RelayStep
  <2>1. \A g \in Hosts, x \in Events :
          raised[x] = NotRaised \/ Origin(x) = Instance(g)
               => shownAt'[<<g, x>>] = shownAt[<<g, x>>]
    BY <1>12, <1>13
  <2>2. UNCHANGED <<raised, queue, drain, fate, unsent, life, flushes>>
    BY <1>7
  <2>3. rows' \in Seq(FanRows) /\ acks' \in SUBSET (Events \X Lives)
    BY <1>2, <1>7
  <2>. QED  BY Zenon, <1>10, <1>13, <2>1, <2>2, <2>3 DEF RelayStep
<1>15. RowsFit'
  <2>1. ASSUME NEW g \in Hosts, NEW i \in DOMAIN toRelay'[g], NEW u, u = toRelay'[g][i]
        PROVE  /\ raised[u.ev] # NotRaised /\ u.src = <<raised[u.ev].host, raised[u.ev].life>>
               /\ u.src # <<g, life[g]>>
    <3>1. CASE g = h
      <4>1. u \in ToSet(w)
        BY <1>10, <2>1, <3>1 DEF ToSet
      <4>. QED  BY <1>11, <3>1, <4>1
    <3>2. CASE g # h
      <4>1. toRelay'[g] = toRelay[g]
        BY <1>10, <3>2
      <4>2. \A k \in DOMAIN toRelay[g] :
              /\ raised[toRelay[g][k].ev] # NotRaised
              /\ toRelay[g][k].src = <<raised[toRelay[g][k].ev].host, raised[toRelay[g][k].ev].life>>
              /\ toRelay[g][k].src # <<g, life[g]>>
        BY Zenon, <1>1, RowsFitNow
      <4>. QED  BY <2>1, <4>1, <4>2
    <3>. QED  BY <3>1, <3>2
  <2>2. /\ \A g \in Hosts : life[g] <= faults + 1
        /\ \A i \in DOMAIN rows : /\ raised[rows[i].ev] # NotRaised
                                  /\ rows[i].src = <<raised[rows[i].ev].host, raised[rows[i].ev].life>>
                                  /\ \A g \in Hosts : <<g, rows[i].ev>> \notin unsent
        /\ OncePerEvent(rows)
        /\ \A g \in Hosts : served[g] # Nothing =>
              raised[served[g]] # NotRaised
              /\ <<raised[served[g]].host, raised[served[g]].life>> # <<g, life[g]>>
        /\ \A a \in acks : /\ raised[a[1]] # NotRaised
                                /\ <<raised[a[1]].host, raised[a[1]].life>> # a[2]
                           /\ a[2][2] <= life[a[2][1]]
    BY Zenon, <1>1, RowsFitNow
  <2>3. /\ raised' = raised /\ life' = life /\ rows' = rows /\ unsent' = unsent /\ acks' = acks
    BY <1>7
  <2>4. \A g \in Hosts : life'[g] <= faults' + 1
    BY <1>2, <1>13, <2>2, <2>3, FanNumbers
  <2>5. \A g \in Hosts : \A i \in DOMAIN toRelay'[g] :
             LET u == toRelay'[g][i] IN
             /\ raised'[u.ev] # NotRaised /\ u.src = <<raised'[u.ev].host, raised'[u.ev].life>>
             /\ u.src # <<g, life'[g]>>
    BY <2>1, <2>3
  <2>6. ASSUME NEW g \in Hosts, served'[g] # Nothing
        PROVE  raised[served'[g]] # NotRaised
               /\ <<raised[served'[g]].host, raised[served'[g]].life>> # <<g, life[g]>>
    <3>1. CASE g = h
      BY <1>10, <1>12, <3>1 DEF Origin, Instance
    <3>2. CASE g # h
      BY <1>10, <2>2, <2>6, <3>2
    <3>. QED  BY <3>1, <3>2
  <2>7. \A g \in Hosts : served'[g] # Nothing =>
          raised'[served'[g]] # NotRaised
          /\ <<raised'[served'[g]].host, raised'[served'[g]].life>> # <<g, life'[g]>>
    BY <2>3, <2>6
  <2>8. OncePerEvent(rows')
    BY <2>2, <2>3
  <2>. QED  BY Zenon, <2>2, <2>3, <2>4, <2>5, <2>7, <2>8, RowsFitNext
<1>16. ASSUME faults' = 0
       PROVE  /\ faults = 0 /\ raised[e].host # h /\ <<e, Instance(h)>> \notin acks
              /\ shownAt[<<h, e>>] = 0 /\ shownAt'[<<h, e>>] = IF e \notin Poison THEN 1 ELSE 0
  <2>1. faults = 0
    BY <1>2, <1>13, <1>16, FanNumbers
  <2>2. raised[e].host # h
    BY <1>9, <1>12, <2>1, FromElsewhere
  <2>3. <<e, Instance(h)>> \notin acks
    <3>1. PICK i \in DOMAIN b : r = b[i]
      BY <1>11 DEF ToSet
    <3>2. <<b[i].ev, Instance(h)>> \notin acks
      BY Zenon, <1>1, <1>3, <2>1, <3>1, RelayFitsNow
    <3>. QED  BY <1>6, <3>1, <3>2
  <2>4. shownAt[<<h, e>>] = IF /\ served[h] = e \/ <<e, Instance(h)>> \in acks
                               /\ e \notin Poison THEN 1 ELSE 0
    BY Zenon, <1>1, <1>9, <1>12, <2>1, <2>2, RelayFitsNow
  <2>5. shownAt[<<h, e>>] = 0
    BY <1>7, <1>9, <2>3, <2>4, FanNumbers
  <2>6. ~Fault
    BY <1>2, <1>16, FanNumbers DEF Fault
  <2>7. shownAt'[<<h, e>>] = IF e \notin Poison THEN 1 ELSE 0
    <3>1. CASE e \notin Poison /\ Show(h, e)
      <4>1. shownAt' = [shownAt EXCEPT ![<<h, e>>] = shownAt[<<h, e>>] + 1]
        BY <3>1 DEF Show
      <4>2. <<h, e>> \in Hosts \X Events
        BY <1>9
      <4>. QED  BY <1>2, <2>5, <3>1, <4>1, <4>2
    <3>2. CASE e \in Poison /\ shownAt' = shownAt
      BY <2>5, <3>2
    <3>. QED  BY <1>7, <2>6, <3>1, <3>2
  <2>. QED  BY <2>1, <2>2, <2>3, <2>5, <2>7
<1>17. OncePerInstance'
  <2>. SUFFICES ASSUME faults' = 0
                PROVE  /\ \A y \in Hosts \X Events : shownAt'[y] <= 1
                       /\ \A a \in acks : a[1] \notin Poison => shownAt'[<<a[2][1], a[1]>>] = 1
    BY <1>7 DEF OncePerInstance
  <2>1. /\ \A y \in Hosts \X Events : shownAt[y] <= 1
        /\ \A a \in acks : a[1] \notin Poison => shownAt[<<a[2][1], a[1]>>] = 1
    BY <1>1, <1>16 DEF OncePerInstance
  <2>2. ASSUME NEW g \in Hosts, NEW x \in Events PROVE shownAt'[<<g, x>>] <= 1
    <3>1. shownAt[<<g, x>>] <= 1
      BY <2>1
    <3>2. CASE g = h /\ x = e
      BY <1>16, <3>2
    <3>. QED  BY <1>13, <3>1, <3>2
  <2>3. ASSUME NEW a \in acks, a[1] \notin Poison PROVE shownAt'[<<a[2][1], a[1]>>] = 1
    <3>1. /\ a[1] \in Events /\ a[2][1] \in Hosts /\ a = <<a[1], Instance(a[2][1])>>
      BY <1>16, AckFacts
    <3>2. a[1] # e \/ a[2][1] # h
      BY <1>16, <3>1
    <3>3. shownAt[<<a[2][1], a[1]>>] = 1
      BY <2>1, <2>3
    <3>. QED  BY <1>13, <3>1, <3>2, <3>3
  <2>. QED  BY <2>2, <2>3
<1>18. RelayFits'
  <2>. SUFFICES ASSUME faults' = 0, NEW g \in Hosts
                PROVE  /\ OncePerEvent(toRelay'[g])
                       /\ \A i \in DOMAIN toRelay'[g] :
                             /\ \E j \in DOMAIN rows' : rows'[j].ev = toRelay'[g][i].ev
                             /\ toRelay'[g][i].ev # served'[g]
                             /\ <<toRelay'[g][i].ev, Instance(g)'>> \notin acks'
                       /\ served'[g] # Nothing => \E j \in DOMAIN rows' : rows'[j].ev = served'[g]
                       /\ \A x \in Events : raised'[x] # NotRaised /\ raised'[x].host # g =>
                             shownAt'[<<g, x>>] = IF /\ served'[g] = x
                                                          \/ <<x, Instance(g)'>> \in acks'
                                                     /\ x \notin Poison THEN 1 ELSE 0
    BY Zenon, RelayFitsNext
  <2>1. /\ OncePerEvent(toRelay[g])
        /\ \A i \in DOMAIN toRelay[g] :
              /\ \E j \in DOMAIN rows : rows[j].ev = toRelay[g][i].ev
              /\ toRelay[g][i].ev # served[g] /\ <<toRelay[g][i].ev, Instance(g)>> \notin acks
        /\ served[g] # Nothing => \E j \in DOMAIN rows : rows[j].ev = served[g]
        /\ \A x \in Events : raised[x] # NotRaised /\ raised[x].host # g =>
              shownAt[<<g, x>>] = IF /\ served[g] = x \/ <<x, Instance(g)>> \in acks
                                     /\ x \notin Poison THEN 1 ELSE 0
    BY Zenon, <1>1, <1>16, RelayFitsNow
  <2>2. raised' = raised /\ rows' = rows /\ acks' = acks /\ Instance(g)' = Instance(g)
    BY <1>7 DEF Instance
  <2>3. CASE g # h
    <3>1. toRelay'[g] = toRelay[g] /\ served'[g] = served[g]
               /\ \A x \in Events : shownAt'[<<g, x>>] = shownAt[<<g, x>>]
      BY <1>10, <1>13, <2>3
    <3>. QED  BY <2>1, <2>2, <3>1
  <2>4. CASE g = h
    <3>1. \A u \in ToSet(b) : /\ \E j \in DOMAIN rows : rows[j].ev = u.ev
                              /\ <<u.ev, Instance(h)>> \notin acks
      BY <1>3, <2>1, <2>4 DEF ToSet
    <3>2. OncePerEvent(w) /\ \A u \in ToSet(w) : u.ev # e
      BY <1>3, <1>8, <2>1, <2>4 DEF Evs
    <3>3. \A i \in DOMAIN w : w[i] \in ToSet(w)
      BY DEF ToSet
    <3>4. \A i \in DOMAIN w : /\ \E j \in DOMAIN rows : rows[j].ev = w[i].ev
                              /\ w[i].ev # e /\ <<w[i].ev, Instance(h)>> \notin acks
      BY <1>11, <3>1, <3>2, <3>3
    <3>5. \E j \in DOMAIN rows : rows[j].ev = e
      BY <1>6, <1>11, <3>1
    <3>6. ASSUME NEW x \in Events, raised[x] # NotRaised, raised[x].host # h
          PROVE  shownAt'[<<h, x>>] = IF /\ e = x \/ <<x, Instance(h)>> \in acks
                                         /\ x \notin Poison THEN 1 ELSE 0
      <4>1. CASE x = e
        BY <1>16, <4>1
      <4>2. CASE x # e
        <5>1. shownAt'[<<h, x>>] = shownAt[<<h, x>>] /\ served[h] # x
          BY <1>7, <1>13, <4>2, FanNumbers
        <5>2. shownAt[<<h, x>>] = IF /\ served[h] = x \/ <<x, Instance(h)>> \in acks
                                     /\ x \notin Poison THEN 1 ELSE 0
          BY <2>1, <2>4, <3>6
        <5>. QED  BY <4>2, <5>1, <5>2
      <4>. QED  BY <4>1, <4>2
    <3>. QED  BY <1>10, <2>2, <2>4, <3>2, <3>4, <3>5, <3>6
  <2>. QED  BY <2>3, <2>4
<1>. QED  BY Zenon, <1>14, <1>15, <1>17, <1>18, RelayRests
\* It is acknowledged, or ends the pass.
LEMMA AckKeeps ==
  ASSUME FanRest, NEW h \in Hosts, Ack(h)
  PROVE  FanRest'
<1>1. FanOutTypeOK /\ OncePerInstance /\ RowsFit /\ RelayFits
  BY Zenon, FanParts
<1>2. /\ rows \in Seq(FanRows) /\ acks \in SUBSET (Events \X Lives)
      /\ toRelay \in [Hosts -> Seq(FanRows)]
      /\ served \in [Hosts -> Events \cup {Nothing}] /\ shownAt \in [Hosts \X Events -> Nat]
      /\ faults \in 0 .. MaxFaults /\ life \in [Hosts -> 1 .. MaxFaults + 1]
  BY Zenon, <1>1, FanVars
<1>3. PICK e : e = served[h]
  OBVIOUS
<1>4. PICK a0 : a0 = <<e, Instance(h)>>
  OBVIOUS
<1>5. /\ e # Nothing /\ served' = [served EXCEPT ![h] = Nothing]
      /\ \/ /\ RowKept(e) /\ acks' = acks \cup {a0}
            /\ toRelay' = toRelay /\ faults' = faults
         \/ /\ Fault \/ (~RowKept(e) /\ faults' = faults)
            /\ toRelay' = [toRelay EXCEPT ![h] = <<>>] /\ acks' = acks
      /\ UNCHANGED <<raised, queue, drain, fate, unsent, rows, life, shownAt, flushes>>
  BY <1>3, <1>4 DEF Ack
<1>6. e \in Events /\ raised[e] # NotRaised /\ Origin(e) # Instance(h)
  BY <1>1, <1>2, <1>3, <1>5 DEF RowsFit
<1>7. a0 \in Events \X Lives /\ a0[1] = e /\ a0[2] = Instance(h) /\ a0[2][1] = h
      /\ a0[2][2] = life[h]
  BY <1>2, <1>4, <1>6, LifeFacts
<1>8. /\ served' \in [Hosts -> Events \cup {Nothing}] /\ served'[h] = Nothing
      /\ \A g \in Hosts : g # h => served'[g] = served[g]
  BY <1>2, <1>5
<1>9. /\ toRelay' \in [Hosts -> Seq(FanRows)]
      /\ \A g \in Hosts : toRelay'[g] = toRelay[g] \/ (g = h /\ toRelay'[g] = <<>>)
      /\ acks' \in SUBSET (Events \X Lives) /\ \A a \in acks' : a \in acks \/ a = a0
      /\ faults' \in 0 .. MaxFaults /\ faults <= faults'
  <2>1. <<>> \in Seq(FanRows)
    OBVIOUS
  <2>2. faults' \in 0 .. MaxFaults /\ faults <= faults'
    BY <1>2, <1>5, FanNumbers DEF Fault
  <2>. QED  BY <1>2, <1>5, <1>7, <2>1, <2>2
<1>10. RelayStep
  <2>1. UNCHANGED <<raised, queue, drain, fate, unsent, life, flushes>>
        /\ shownAt' = shownAt /\ rows' = rows
    BY <1>5
  <2>2. \A g \in Hosts, x \in Events :
          raised[x] = NotRaised \/ Origin(x) = Instance(g)
               => shownAt'[<<g, x>>] = shownAt[<<g, x>>]
    BY <2>1
  <2>. QED  BY Zenon, <1>2, <1>8, <1>9, <2>1, <2>2 DEF RelayStep
<1>11. RowsFit'
  <2>1. /\ \A g \in Hosts : life[g] <= faults + 1
        /\ \A i \in DOMAIN rows : /\ raised[rows[i].ev] # NotRaised
                                  /\ rows[i].src = <<raised[rows[i].ev].host, raised[rows[i].ev].life>>
                                  /\ \A g \in Hosts : <<g, rows[i].ev>> \notin unsent
        /\ OncePerEvent(rows)
        /\ \A g \in Hosts : \A i \in DOMAIN toRelay[g] :
              LET r == toRelay[g][i] IN
              /\ raised[r.ev] # NotRaised /\ r.src = <<raised[r.ev].host, raised[r.ev].life>>
              /\ r.src # <<g, life[g]>>
        /\ \A g \in Hosts : served[g] # Nothing =>
              raised[served[g]] # NotRaised
              /\ <<raised[served[g]].host, raised[served[g]].life>> # <<g, life[g]>>
        /\ \A a \in acks : /\ raised[a[1]] # NotRaised
                                /\ <<raised[a[1]].host, raised[a[1]].life>> # a[2]
                           /\ a[2][2] <= life[a[2][1]]
    BY Zenon, <1>1, RowsFitNow
  <2>2. raised' = raised /\ life' = life /\ rows' = rows /\ unsent' = unsent
    BY <1>5
  <2>3. \A g \in Hosts : life'[g] <= faults' + 1
    BY <1>2, <1>9, <2>1, <2>2, FanNumbers
  <2>4. ASSUME NEW g \in Hosts, NEW i \in DOMAIN toRelay'[g]
        PROVE  LET r == toRelay'[g][i] IN
               /\ raised'[r.ev] # NotRaised /\ r.src = <<raised'[r.ev].host, raised'[r.ev].life>>
               /\ r.src # <<g, life'[g]>>
    <3>1. toRelay'[g] = toRelay[g]
      BY <1>9
    <3>. QED  BY <2>1, <2>2, <3>1
  <2>5. \A g \in Hosts : served'[g] # Nothing =>
          raised'[served'[g]] # NotRaised
          /\ <<raised'[served'[g]].host, raised'[served'[g]].life>> # <<g, life'[g]>>
    BY <1>8, <2>1, <2>2
  <2>6. ASSUME NEW a \in acks'
        PROVE  /\ raised'[a[1]] # NotRaised /\ <<raised'[a[1]].host, raised'[a[1]].life>> # a[2]
               /\ a[2][2] <= life'[a[2][1]]
    <3>1. CASE a \in acks
      BY <2>1, <2>2, <3>1
    <3>2. CASE a = a0
      <4>1. life[h] <= life[h]
        BY <1>2, LifeFacts
      <4>. QED  BY <1>6, <1>7, <2>2, <3>2, <4>1 DEF Origin, Instance
    <3>. QED  BY <1>9, <3>1, <3>2
  <2>7. OncePerEvent(rows')
    BY <2>1, <2>2
  <2>. QED  BY Zenon, <2>1, <2>2, <2>3, <2>4, <2>5, <2>6, <2>7, RowsFitNext
<1>12. ASSUME faults' = 0
       PROVE  /\ faults = 0 /\ raised[e].host # h /\ acks' = acks \cup {a0} /\ toRelay' = toRelay
              /\ shownAt[<<h, e>>] = IF e \notin Poison THEN 1 ELSE 0
  <2>1. faults = 0 /\ ~Fault
    BY <1>2, <1>9, <1>12, FanNumbers DEF Fault
  <2>2. raised[e].host # h
    BY <1>6, <2>1, FromElsewhere
  <2>3. \E j \in DOMAIN rows : rows[j].ev = e
    BY Zenon, <1>1, <1>3, <1>5, <2>1, RelayFitsNow
  <2>4. RowKept(e)
    BY <2>3 DEF RowKept
  <2>5. shownAt[<<h, e>>] = IF /\ served[h] = e \/ <<e, Instance(h)>> \in acks
                               /\ e \notin Poison THEN 1 ELSE 0
    BY Zenon, <1>1, <1>6, <2>1, <2>2, RelayFitsNow
  <2>. QED  BY <1>3, <1>5, <2>1, <2>2, <2>4, <2>5
<1>13. OncePerInstance'
  <2>. SUFFICES ASSUME faults' = 0
                PROVE  /\ \A y \in Hosts \X Events : shownAt'[y] <= 1
                       /\ \A a \in acks' : a[1] \notin Poison => shownAt'[<<a[2][1], a[1]>>] = 1
    BY DEF OncePerInstance
  <2>1. /\ \A y \in Hosts \X Events : shownAt[y] <= 1
        /\ \A a \in acks : a[1] \notin Poison => shownAt[<<a[2][1], a[1]>>] = 1
    BY <1>1, <1>12 DEF OncePerInstance
  <2>2. ASSUME NEW a \in acks', a[1] \notin Poison PROVE shownAt'[<<a[2][1], a[1]>>] = 1
    <3>1. CASE a \in acks
      BY <1>5, <2>1, <2>2, <3>1
    <3>2. CASE a = a0
      BY <1>5, <1>7, <1>12, <2>2, <3>2
    <3>. QED  BY <1>9, <3>1, <3>2
  <2>. QED  BY <1>5, <2>1, <2>2
<1>14. RelayFits'
  <2>. SUFFICES ASSUME faults' = 0, NEW g \in Hosts
                PROVE  /\ OncePerEvent(toRelay'[g])
                       /\ \A i \in DOMAIN toRelay'[g] :
                             /\ \E j \in DOMAIN rows' : rows'[j].ev = toRelay'[g][i].ev
                             /\ toRelay'[g][i].ev # served'[g]
                             /\ <<toRelay'[g][i].ev, Instance(g)'>> \notin acks'
                       /\ served'[g] # Nothing => \E j \in DOMAIN rows' : rows'[j].ev = served'[g]
                       /\ \A x \in Events : raised'[x] # NotRaised /\ raised'[x].host # g =>
                             shownAt'[<<g, x>>] = IF /\ served'[g] = x
                                                          \/ <<x, Instance(g)'>> \in acks'
                                                     /\ x \notin Poison THEN 1 ELSE 0
    BY Zenon, RelayFitsNext
  <2>1. /\ OncePerEvent(toRelay[g])
        /\ \A i \in DOMAIN toRelay[g] :
              /\ \E j \in DOMAIN rows : rows[j].ev = toRelay[g][i].ev
              /\ toRelay[g][i].ev # served[g] /\ <<toRelay[g][i].ev, Instance(g)>> \notin acks
        /\ served[g] # Nothing => \E j \in DOMAIN rows : rows[j].ev = served[g]
        /\ \A x \in Events : raised[x] # NotRaised /\ raised[x].host # g =>
              shownAt[<<g, x>>] = IF /\ served[g] = x \/ <<x, Instance(g)>> \in acks
                                     /\ x \notin Poison THEN 1 ELSE 0
    BY Zenon, <1>1, <1>12, RelayFitsNow
  <2>2. raised' = raised /\ rows' = rows /\ toRelay' = toRelay /\ shownAt' = shownAt
        /\ Instance(g)' = Instance(g)
    BY <1>5, <1>12 DEF Instance
  <2>3. \A x : <<x, Instance(g)>> \in acks' <=> <<x, Instance(g)>> \in acks \/ (g = h /\ x = e)
    <3>1. \A x : <<x, Instance(g)>> = a0 <=> g = h /\ x = e
      BY <1>4 DEF Instance
    <3>2. \A a : a \in acks' <=> a \in acks \/ a = a0
      BY <1>12
    <3>. QED  BY Zenon, <3>1, <3>2
  <2>4. CASE g # h
    BY <1>8, <2>1, <2>2, <2>3, <2>4
  <2>5. CASE g = h
    <3>1. \A i \in DOMAIN toRelay[h] : /\ toRelay[h][i].ev # Nothing /\ toRelay[h][i].ev # e
                                       /\ <<toRelay[h][i].ev, Instance(h)>> \notin acks'
      <4>1. \A i \in DOMAIN toRelay[h] : toRelay[h][i].ev # Nothing
        BY <1>2, FanRowFacts, FanNumbers
      <4>. QED  BY <1>3, <2>1, <2>3, <2>5, <4>1
    <3>2. ASSUME NEW x \in Events, raised[x] # NotRaised, raised[x].host # h
          PROVE  shownAt[<<h, x>>] = IF <<x, Instance(h)>> \in acks'
                 /\ x \notin Poison THEN 1 ELSE 0
      <4>1. shownAt[<<h, x>>] = IF /\ served[h] = x \/ <<x, Instance(h)>> \in acks
                                   /\ x \notin Poison THEN 1 ELSE 0
        BY <2>1, <2>5, <3>2
      <4>. QED  BY <1>3, <2>3, <2>5, <4>1
    <3>3. \A x \in Events : x # Nothing
      BY FanNumbers
    <3>. QED  BY <1>8, <2>1, <2>2, <2>5, <3>1, <3>2, <3>3
  <2>. QED  BY <2>4, <2>5
<1>. QED  BY Zenon, <1>10, <1>11, <1>13, <1>14, RelayRests

\* The oldest row goes, its acknowledgements with it.
LEMMA ExpireKeeps ==
  ASSUME FanRest, Expire
  PROVE  FanRest'
<1>1. FanOutTypeOK /\ RowsFit
  BY Zenon, FanParts
<1>2. /\ rows \in Seq(FanRows) /\ acks \in SUBSET (Events \X Lives)
      /\ toRelay \in [Hosts -> Seq(FanRows)]
      /\ served \in [Hosts -> Events \cup {Nothing}] /\ shownAt \in [Hosts \X Events -> Nat]
      /\ faults \in 0 .. MaxFaults /\ life \in [Hosts -> 1 .. MaxFaults + 1]
  BY Zenon, <1>1, FanVars
<1>3. PICK w : w = Tail(rows)
  OBVIOUS
<1>4. /\ rows # <<>> /\ Fault /\ rows' = w /\ acks' \subseteq acks
      /\ UNCHANGED <<raised, queue, drain, fate, unsent, toRelay, served, life, shownAt, flushes>>
  BY <1>3 DEF Expire
<1>5. /\ w \in Seq(FanRows) /\ ToSet(rows) = {Head(rows)} \cup ToSet(w)
      /\ OncePerEvent(rows) => OncePerEvent(w)
  BY <1>2, <1>3, <1>4, FirstItem
<1>6. faults' \in 0 .. MaxFaults /\ faults <= faults' /\ faults' # 0
  BY <1>2, <1>4, FanNumbers DEF Fault
<1>7. RelayStep
  <2>1. \A g \in Hosts, x \in Events :
          raised[x] = NotRaised \/ Origin(x) = Instance(g)
               => shownAt'[<<g, x>>] = shownAt[<<g, x>>]
    BY <1>4
  <2>2. UNCHANGED <<raised, queue, drain, fate, unsent, life, flushes>>
    BY <1>4
  <2>3. /\ rows' \in Seq(FanRows) /\ acks' \in SUBSET (Events \X Lives)
        /\ toRelay' \in [Hosts -> Seq(FanRows)]
        /\ served' \in [Hosts -> Events \cup {Nothing}] /\ shownAt' \in [Hosts \X Events -> Nat]
    BY <1>2, <1>4, <1>5
  <2>. QED  BY Zenon, <1>6, <2>1, <2>2, <2>3 DEF RelayStep
<1>8. OncePerInstance' /\ RelayFits'
  <2>1. OncePerInstance'
    BY <1>6 DEF OncePerInstance
  <2>. QED  BY <1>6, <2>1, RelayFitsNext
<1>9. RowsFit'
  <2>1. /\ \A g \in Hosts : life[g] <= faults + 1
        /\ \A i \in DOMAIN rows : /\ raised[rows[i].ev] # NotRaised
                                  /\ rows[i].src = <<raised[rows[i].ev].host, raised[rows[i].ev].life>>
                                  /\ \A g \in Hosts : <<g, rows[i].ev>> \notin unsent
        /\ OncePerEvent(rows)
        /\ \A g \in Hosts : \A i \in DOMAIN toRelay[g] :
              LET r == toRelay[g][i] IN
              /\ raised[r.ev] # NotRaised /\ r.src = <<raised[r.ev].host, raised[r.ev].life>>
              /\ r.src # <<g, life[g]>>
        /\ \A g \in Hosts : served[g] # Nothing =>
              raised[served[g]] # NotRaised
              /\ <<raised[served[g]].host, raised[served[g]].life>> # <<g, life[g]>>
        /\ \A a \in acks : /\ raised[a[1]] # NotRaised
                                /\ <<raised[a[1]].host, raised[a[1]].life>> # a[2]
                           /\ a[2][2] <= life[a[2][1]]
    BY Zenon, <1>1, RowsFitNow
  <2>2. /\ raised' = raised /\ life' = life /\ unsent' = unsent /\ toRelay' = toRelay
        /\ served' = served
        /\ rows' = w /\ \A a \in acks' : a \in acks
    BY <1>4
  <2>3. \A g \in Hosts : life'[g] <= faults' + 1
    BY <1>2, <1>6, <2>1, <2>2, FanNumbers
  <2>4. \A u \in ToSet(rows) : /\ raised[u.ev] # NotRaised
                                    /\ u.src = <<raised[u.ev].host, raised[u.ev].life>>
                               /\ \A g \in Hosts : <<g, u.ev>> \notin unsent
    BY <2>1 DEF ToSet
  <2>5. \A i \in DOMAIN w : w[i] \in ToSet(rows)
    <3>1. \A i \in DOMAIN w : w[i] \in ToSet(w)
      BY DEF ToSet
    <3>. QED  BY <1>5, <3>1
  <2>6. \A i \in DOMAIN w : /\ raised[w[i].ev] # NotRaised
                                 /\ w[i].src = <<raised[w[i].ev].host, raised[w[i].ev].life>>
                            /\ \A g \in Hosts : <<g, w[i].ev>> \notin unsent
    BY <2>4, <2>5
  <2>7. OncePerEvent(rows')
    BY <1>5, <2>1, <2>2
  <2>8. \A a \in acks' : /\ raised'[a[1]] # NotRaised
                              /\ <<raised'[a[1]].host, raised'[a[1]].life>> # a[2]
                         /\ a[2][2] <= life'[a[2][1]]
    BY <2>1, <2>2
  <2>. QED  BY Zenon, <2>1, <2>2, <2>3, <2>6, <2>7, <2>8, RowsFitNext
<1>. QED  BY Zenon, <1>7, <1>8, <1>9, RelayRests

\* A loop takes a queue.
LEMMA BeginDrainKeeps ==
  ASSUME FanRest, NEW h \in Hosts, NEW q \in Queues, BeginDrain(h, q)
  PROVE  FanRest'
<1>1. flushes \in 0 .. MaxFlushes
  BY Zenon, FanParts, FanVars
<1>2. /\ TakeBatch(h, q, "loop") /\ flushes' = flushes
      /\ UNCHANGED <<raised, fate, unsent, rows, acks, toRelay, served, life, shownAt, faults>>
  BY DEF BeginDrain, relayVars
<1>3. flushes' \in 0 .. MaxFlushes
  BY <1>1, <1>2
<1>4. "loop" \in {"loop", "flush"}
  OBVIOUS
<1>. QED  BY Zenon, <1>2, <1>3, <1>4, TakeKeeps

\* A flush takes a queue.
LEMMA BeginFlushKeeps ==
  ASSUME FanRest, NEW h \in Hosts, NEW q \in Queues, BeginFlush(h, q)
  PROVE  FanRest'
<1>1. flushes \in 0 .. MaxFlushes
  BY Zenon, FanParts, FanVars
<1>2. /\ TakeBatch(h, q, "flush") /\ flushes < MaxFlushes /\ flushes' = flushes + 1
      /\ UNCHANGED <<raised, fate, unsent, rows, acks, toRelay, served, life, shownAt, faults>>
  BY DEF BeginFlush, relayVars
<1>3. flushes' \in 0 .. MaxFlushes
  BY <1>1, <1>2, FanNumbers
<1>4. "flush" \in {"loop", "flush"}
  OBVIOUS
<1>. QED  BY Zenon, <1>2, <1>3, <1>4, TakeKeeps

\* A process restarts: what it held is lost, and its rows are another instance's.
LEMMA FanOutRestartKeeps ==
  ASSUME FanRest, NEW h \in Hosts, FanOutRestart(h)
  PROVE  FanRest'
<1>1. /\ FanOutTypeOK /\ InPlace /\ ServedPerAttempt /\ OwnEventOnce /\ OncePerInstance
      /\ EventsFit /\ TriesFit /\ RowsFit /\ RelayFits
  BY Zenon, FanParts
<1>2. /\ raised \in [Events -> {NotRaised} \cup RaisedRows]
      /\ queue \in [Hosts -> [Queues -> Seq(ItemSet)]] /\ drain \in [Hosts -> [Queues -> Drains]]
      /\ fate \in [Events -> Fates] /\ unsent \in SUBSET (Hosts \X Events)
      /\ rows \in Seq(FanRows) /\ acks \in SUBSET (Events \X Lives)
      /\ toRelay \in [Hosts -> Seq(FanRows)] /\ served \in [Hosts -> Events \cup {Nothing}]
      /\ life \in [Hosts -> 1 .. MaxFaults + 1] /\ shownAt \in [Hosts \X Events -> Nat]
      /\ faults \in 0 .. MaxFaults /\ flushes \in 0 .. MaxFlushes
  BY Zenon, <1>1, FanVars
<1>3. PICK empty : empty = [q \in Queues |-> <<>>]
  OBVIOUS
<1>4. PICK idle : idle = [q \in Queues |-> Idle]
  OBVIOUS
<1>5. /\ empty \in [Queues -> Seq(ItemSet)] /\ \A q \in Queues : empty[q] = <<>>
      /\ idle \in [Queues -> Drains] /\ \A q \in Queues : idle[q] = Idle
  BY <1>3, <1>4, EmptyLine, IdleFacts
<1>6. /\ life' = [life EXCEPT ![h] = @ + 1] /\ queue' = [queue EXCEPT ![h] = empty]
      /\ drain' = [drain EXCEPT ![h] = idle] /\ toRelay' = [toRelay EXCEPT ![h] = <<>>]
      /\ served' = [served EXCEPT ![h] = Nothing] /\ unsent' = {x \in unsent : x[1] # h}
      /\ fate' = [e \in Events |-> IF raised[e].host = h
           /\ fate[e] = "queued" THEN "lost" ELSE fate[e]]
      /\ Fault /\ UNCHANGED <<raised, rows, acks, shownAt, flushes>>
  BY <1>3, <1>4 DEF FanOutRestart
<1>7. faults' \in 0 .. MaxFaults /\ faults' = faults + 1 /\ faults' # 0
  BY <1>2, <1>6, FanNumbers DEF Fault
<1>8. \A g \in Hosts : life[g] \in Nat /\ life[g] >= 1 /\ life[g] <= faults + 1
  BY <1>1, <1>2, LifeFacts DEF RowsFit
<1>9. /\ life' \in [Hosts -> 1 .. MaxFaults + 1] /\ life'[h] = life[h] + 1
      /\ \A g \in Hosts : g # h => life'[g] = life[g]
  <2>1. life[h] + 1 \in 1 .. MaxFaults + 1
    BY <1>2, <1>7, <1>8, FanNumbers
  <2>. QED  BY <1>2, <1>6, <2>1
<1>10. ASSUME NEW g \in Hosts
       PROVE  life'[g] \in Nat /\ life[g] <= life'[g] /\ life'[g] <= faults' + 1
  <2>1. faults \in Nat /\ life[g] \in Nat /\ life[g] <= faults + 1
    BY <1>2, <1>8, FaultsAreNat
  <2>2. life'[g] = life[g] \/ life'[g] = life[g] + 1
    BY <1>9
  <2>. QED  BY <1>7, <2>1, <2>2
<1>11. FanOutTypeOK'
  <2>1. queue' \in [Hosts -> [Queues -> Seq(ItemSet)]] /\ drain' \in [Hosts -> [Queues -> Drains]]
    BY <1>2, <1>5, <1>6
  <2>2. fate' \in [Events -> Fates]
    BY <1>2, <1>6 DEF Fates
  <2>3. unsent' \in SUBSET (Hosts \X Events)
    BY <1>2, <1>6
  <2>4. <<>> \in Seq(FanRows)
    OBVIOUS
  <2>5. toRelay' \in [Hosts -> Seq(FanRows)] /\ served' \in [Hosts -> Events \cup {Nothing}]
    BY <1>2, <1>6, <2>4
  <2>6. raised' = raised /\ rows' = rows /\ acks' = acks /\ shownAt' = shownAt
        /\ flushes' = flushes
    BY <1>6
  <2>. QED  BY Zenon, <1>2, <1>7, <1>9, <2>1, <2>2, <2>3, <2>5, <2>6, FanTypedNext
<1>12. \A e \in Events : /\ fate'[e] = fate[e] \/ (fate[e] = "queued" /\ fate'[e] = "lost")
                         /\ fate'[e] = "queued" <=> fate[e] = "queued" /\ raised[e].host # h
  BY <1>2, <1>6
<1>13. ASSUME NEW g \in Hosts, NEW q \in Queues, g # h
       PROVE  /\ queue'[g][q] = queue[g][q] /\ drain'[g][q] = drain[g][q]
              /\ QueuedAt(g, q)' = QueuedAt(g, q) /\ HeldAt(g, q)' = HeldAt(g, q)
  <2>1. queue'[g][q] = queue[g][q] /\ drain'[g][q] = drain[g][q]
    BY <1>2, <1>6, <1>13
  <2>2. QueuedAt(g, q)' = QueuedAt(g, q)
    BY <1>6, <1>12, <1>13 DEF QueuedAt
  <2>3. HeldAt(g, q)' = HeldAt(g, q)
    BY <2>1, HeldNext DEF HeldAt
  <2>. QED  BY <2>1, <2>2, <2>3
<1>14. ASSUME NEW q \in Queues
       PROVE  /\ queue'[h][q] = <<>> /\ drain'[h][q].batch = <<>> /\ drain'[h][q].again = <<>>
              /\ QueuedAt(h, q)' = {} /\ HeldAt(h, q)' = {}
  <2>1. queue'[h][q] = <<>> /\ drain'[h][q] = Idle
    BY <1>2, <1>5, <1>6
  <2>2. QueuedAt(h, q)' = {}
    BY <1>6, <1>12 DEF QueuedAt
  <2>3. HeldAt(h, q)' = {}
    BY <2>1, HeldNext, EmptyLine, IdleFacts
  <2>. QED  BY <2>1, <2>2, <2>3, IdleFacts
<1>15. InPlace'
  <2>1. ASSUME NEW g \in Hosts, NEW q \in Queues
        PROVE  InThree(queue'[g][q], drain'[g][q].batch, drain'[g][q].again, QueuedAt(g, q)')
    <3>1. CASE g = h
      <4>1. InThree(<<>>, <<>>, <<>>, {})
        BY EmptyLine DEF InThree
      <4>. QED  BY <1>14, <3>1, <4>1
    <3>2. CASE g # h
      BY <1>1, <1>13, <3>2 DEF InPlace
    <3>. QED  BY <3>1, <3>2
  <2>. QED  BY Zenon, <2>1, InPlaceNext
\* An event of the host that restarts was raised in an earlier life of it.
<1>16. ASSUME NEW e \in Events, raised[e] # NotRaised
       PROVE  /\ raised[e].host \in Hosts /\ raised[e].life \in Nat
              /\ raised[e].life <= life[raised[e].host]
              /\ raised[e].life <= life'[raised[e].host]
              /\ raised[e].host = h => life'[h] # raised[e].life
  <2>1. raised[e] \in RaisedRows
    BY <1>2, <1>16
  <2>2. raised[e].host \in Hosts /\ raised[e].life \in Nat
    BY <2>1, RaisedFacts
  <2>3. raised[e].life <= life[raised[e].host]
    BY <1>1, <1>16, EventFitsNow
  <2>. QED  BY <1>8, <1>9, <1>10, <2>2, <2>3
<1>17. ServedPerAttempt' /\ OwnEventOnce'
  <2>1. ASSUME NEW e \in Events, raised[e] # NotRaised, life'[raised[e].host] = raised[e].life
        PROVE  life[raised[e].host] = raised[e].life
    BY <1>9, <1>16, <2>1
  <2>2. ServedPerAttempt'
    BY <1>1, <1>6, <2>1 DEF ServedPerAttempt
  <2>3. OwnEventOnce'
    BY <1>1, <1>6, <2>1 DEF OwnEventOnce
  <2>. QED  BY <2>2, <2>3
<1>18. OncePerInstance' /\ RelayFits'
  BY <1>7 DEF OncePerInstance, RelayFits
<1>19. EventsFit'
  <2>. SUFFICES ASSUME NEW x \in Events
                PROVE  /\ raised'[x] = NotRaised => fate'[x] = "none" /\ \A g \in Hosts :
                            shownAt'[<<g, x>>] = 0 /\ <<g, x>> \notin unsent'
                       /\ raised'[x] # NotRaised =>
                            /\ raised'[x].life <= life'[raised'[x].host]
                            /\ fate'[x] = "queued" => ~raised'[x].direct
                                 /\ raised'[x].life = life'[raised'[x].host]
                            /\ \A g \in Hosts : <<g, x>> \in unsent' => Instance(g)' = Origin(x)'
    BY Zenon, EventsFitNext
  <2>1. /\ raised[x] = NotRaised => fate[x] = "none" /\ \A g \in Hosts :
             shownAt[<<g, x>>] = 0 /\ <<g, x>> \notin unsent
        /\ raised[x] # NotRaised =>
             /\ raised[x].life <= life[raised[x].host]
             /\ fate[x] = "queued" => ~raised[x].direct /\ raised[x].life = life[raised[x].host]
             /\ \A g \in Hosts : <<g, x>> \in unsent => Instance(g) = Origin(x)
    BY Zenon, <1>1, EventFitsNow
  <2>2. \A g \in Hosts : <<g, x>> \in unsent' => <<g, x>> \in unsent /\ g # h
    BY <1>6
  <2>3. Origin(x)' = Origin(x) /\ \A g \in Hosts : g # h => Instance(g)' = Instance(g)
    BY <1>6, <1>9 DEF Origin, Instance
  <2>4. raised'[x] = raised[x] /\ \A g \in Hosts : shownAt'[<<g, x>>] = shownAt[<<g, x>>]
    BY <1>6
  <2>5. CASE raised[x] = NotRaised
    BY <1>12, <2>1, <2>2, <2>4, <2>5
  <2>6. CASE raised[x] # NotRaised
    <3>1. fate'[x] = "queued" => ~raised[x].direct /\ raised[x].life = life'[raised[x].host]
      <4>1. HAVE fate'[x] = "queued"
      <4>2. fate[x] = "queued" /\ raised[x].host # h
        BY <1>12, <4>1
      <4>3. life'[raised[x].host] = life[raised[x].host]
        BY <1>9, <1>16, <2>6, <4>2
      <4>. QED  BY Zenon, <2>1, <2>6, <4>2, <4>3
    <3>2. raised[x].life <= life'[raised[x].host]
      BY <1>16, <2>6
    <3>3. \A g \in Hosts : <<g, x>> \in unsent' => Instance(g)' = Origin(x)'
      BY <2>1, <2>2, <2>3, <2>6
    <3>. QED  BY Zenon, <2>4, <2>6, <3>1, <3>2, <3>3
  <2>. QED  BY <2>5, <2>6
<1>20. TriesFit'
  <2>1. \A g \in Hosts, q \in Queues : HeldAt(g, q)' \subseteq HeldAt(g, q)
    BY <1>13, <1>14
  <2>2. raised' = raised /\ shownAt' = shownAt /\ (faults' = 0 => faults = 0)
    BY <1>6, <1>7
  <2>. QED  BY Zenon, <1>1, <2>1, <2>2, TriesStand
<1>21. RowsFit'
  <2>1. /\ \A g \in Hosts : life[g] <= faults + 1
        /\ \A i \in DOMAIN rows : /\ raised[rows[i].ev] # NotRaised
                                  /\ rows[i].src = <<raised[rows[i].ev].host, raised[rows[i].ev].life>>
                                  /\ \A g \in Hosts : <<g, rows[i].ev>> \notin unsent
        /\ OncePerEvent(rows)
        /\ \A g \in Hosts : \A i \in DOMAIN toRelay[g] :
              LET r == toRelay[g][i] IN
              /\ raised[r.ev] # NotRaised /\ r.src = <<raised[r.ev].host, raised[r.ev].life>>
              /\ r.src # <<g, life[g]>>
        /\ \A g \in Hosts : served[g] # Nothing =>
              raised[served[g]] # NotRaised
              /\ <<raised[served[g]].host, raised[served[g]].life>> # <<g, life[g]>>
        /\ \A a \in acks : /\ raised[a[1]] # NotRaised
                                /\ <<raised[a[1]].host, raised[a[1]].life>> # a[2]
                           /\ a[2][2] <= life[a[2][1]]
    BY Zenon, <1>1, RowsFitNow
  <2>2. raised' = raised /\ rows' = rows /\ acks' = acks /\ \A z : z \in unsent' => z \in unsent
    BY <1>6
  <2>3. \A i \in DOMAIN rows' : /\ raised'[rows'[i].ev] # NotRaised
                                /\ rows'[i].src = <<raised'[rows'[i].ev].host, raised'[rows'[i].ev].life>>
                                /\ \A g \in Hosts : <<g, rows'[i].ev>> \notin unsent'
    BY <2>1, <2>2
  <2>4. ASSUME NEW g \in Hosts, NEW i \in DOMAIN toRelay'[g]
        PROVE  LET r == toRelay'[g][i] IN
               /\ raised'[r.ev] # NotRaised /\ r.src = <<raised'[r.ev].host, raised'[r.ev].life>>
               /\ r.src # <<g, life'[g]>>
    <3>1. g # h
      BY <1>2, <1>6, <2>4
    <3>2. toRelay'[g] = toRelay[g] /\ life'[g] = life[g]
      BY <1>2, <1>6, <1>9, <3>1
    <3>. QED  BY <2>1, <2>2, <2>4, <3>2
  <2>5. ASSUME NEW g \in Hosts, served'[g] # Nothing
        PROVE  raised'[served'[g]] # NotRaised
               /\ <<raised'[served'[g]].host, raised'[served'[g]].life>> # <<g, life'[g]>>
    <3>1. g # h
      BY <1>2, <1>6, <2>5
    <3>2. served'[g] = served[g] /\ life'[g] = life[g]
      BY <1>2, <1>6, <1>9, <3>1
    <3>. QED  BY <2>1, <2>2, <2>5, <3>2
  <2>6. ASSUME NEW a \in acks'
        PROVE  /\ raised'[a[1]] # NotRaised /\ <<raised'[a[1]].host, raised'[a[1]].life>> # a[2]
               /\ a[2][2] <= life'[a[2][1]]
    <3>1. a \in acks /\ a[2] \in Lives
      BY <1>2, <2>2
    <3>2. a[2][1] \in Hosts /\ a[2][2] \in Nat
      BY <3>1, FanNumbers DEF Lives
    <3>3. a[2][2] <= life'[a[2][1]]
      BY <1>8, <1>10, <2>1, <3>1, <3>2
    <3>. QED  BY <2>1, <2>2, <3>1, <3>3
  <2>7. OncePerEvent(rows')
    BY <2>1, <2>2
  <2>. QED  BY Zenon, <1>10, <2>3, <2>4, <2>5, <2>6, <2>7, RowsFitNext
<1>. QED  BY Zenon, <1>11, <1>15, <1>17, <1>18, <1>19, <1>20, <1>21, FanPartsNext

-----------------------------------------------------------------------------
(* The relay as a whole.                                                     *)

\* Nothing has been raised.
LEMMA FanOutStart == FanOutInit => FanOutInv
<1>. HAVE FanOutInit
<1>1. PICK empty : empty = [q \in Queues |-> <<>>]
  OBVIOUS
<1>2. PICK idle : idle = [q \in Queues |-> Idle]
  OBVIOUS
<1>3. /\ empty \in [Queues -> Seq(ItemSet)] /\ \A q \in Queues : empty[q] = <<>>
      /\ idle \in [Queues -> Drains] /\ \A q \in Queues : idle[q] = Idle
  BY <1>1, <1>2, EmptyLine, IdleFacts
<1>4. /\ raised = [e \in Events |-> NotRaised] /\ queue = [h \in Hosts |-> empty]
      /\ drain = [h \in Hosts |-> idle] /\ fate = [e \in Events |-> "none"]
      /\ unsent = {} /\ rows = <<>> /\ acks = {} /\ toRelay = [h \in Hosts |-> <<>>]
      /\ served = [h \in Hosts |-> Nothing] /\ life = [h \in Hosts |-> 1]
      /\ shownAt = [x \in Hosts \X Events |-> 0] /\ faults = 0 /\ flushes = 0
  BY <1>1, <1>2 DEF FanOutInit
<1>5. \A h \in Hosts, q \in Queues : queue[h][q] = <<>> /\ drain[h][q].batch = <<>>
           /\ drain[h][q].again = <<>>
  BY <1>3, <1>4, IdleFacts
<1>6. FanOutTypeOK
  <2>1. raised \in [Events -> {NotRaised} \cup RaisedRows] /\ fate \in [Events -> Fates]
    BY <1>4 DEF Fates
  <2>2. queue \in [Hosts -> [Queues -> Seq(ItemSet)]] /\ drain \in [Hosts -> [Queues -> Drains]]
    BY <1>3, <1>4
  <2>3. <<>> \in Seq(FanRows)
    OBVIOUS
  <2>4. toRelay \in [Hosts -> Seq(FanRows)] /\ served \in [Hosts -> Events \cup {Nothing}]
    BY <1>4, <2>3
  <2>5. life \in [Hosts -> 1 .. MaxFaults + 1] /\ shownAt \in [Hosts \X Events -> Nat]
    BY <1>4, FanNumbers
  <2>6. faults \in 0 .. MaxFaults /\ flushes \in 0 .. MaxFlushes
    BY <1>4, FanNumbers
  <2>7. /\ unsent \in SUBSET (Hosts \X Events) /\ rows \in Seq(FanRows)
        /\ acks \in SUBSET (Events \X Lives)
    BY <1>4, <2>3
  <2>. QED  BY Zenon, <2>1, <2>2, <2>4, <2>5, <2>6, <2>7
            DEF FanOutTypeOK, RaisedRows, Drains, Fates, FanRows, Lives
<1>7. InPlace
  <2>1. \A h \in Hosts, q \in Queues : QueuedAt(h, q) = {}
    BY <1>4 DEF QueuedAt
  <2>2. InThree(<<>>, <<>>, <<>>, {})
    BY EmptyLine DEF InThree
  <2>. QED  BY <1>5, <2>1, <2>2 DEF InPlace
<1>8. ServedPerAttempt /\ OwnEventOnce
  BY <1>4 DEF ServedPerAttempt, OwnEventOnce
<1>9. OncePerInstance
  BY <1>4 DEF OncePerInstance
<1>10. EventsFit
  BY <1>4 DEF EventsFit
<1>11. TriesFit
  <2>1. \A h \in Hosts, q \in Queues : HeldAt(h, q) = {}
    BY <1>5, EmptyLine DEF HeldAt
  <2>. QED  BY <2>1 DEF TriesFit
<1>12. RowsFit
  <2>1. DOMAIN rows = {} /\ OncePerEvent(rows)
    BY <1>4, EmptyLine
  <2>2. \A h \in Hosts : DOMAIN toRelay[h] = {} /\ served[h] = Nothing /\ life[h] <= faults + 1
    BY <1>4
  <2>. QED  BY <1>4, <2>1, <2>2 DEF RowsFit
<1>13. RelayFits
  <2>1. \A h \in Hosts : DOMAIN toRelay[h] = {} /\ served[h] = Nothing /\ OncePerEvent(toRelay[h])
    BY <1>4, EmptyLine
  <2>2. \A e \in Events : raised[e] = NotRaised
    BY <1>4
  <2>. QED  BY <2>1, <2>2 DEF RelayFits
<1>. QED  BY Zenon, <1>6, <1>7, <1>8, <1>9, <1>10, <1>11, <1>12, <1>13, FanWhole DEF FanRest

\* Nothing happens.
LEMMA FanOutRests ==
  ASSUME FanRest, UNCHANGED fanOutVars
  PROVE  FanRest'
<1>1. /\ FanOutTypeOK /\ InPlace /\ ServedPerAttempt /\ OwnEventOnce /\ OncePerInstance
      /\ EventsFit /\ TriesFit /\ RowsFit /\ RelayFits
  BY Zenon, FanParts
<1>2. /\ raised' = raised /\ queue' = queue /\ drain' = drain /\ fate' = fate /\ unsent' = unsent
      /\ rows' = rows /\ acks' = acks /\ toRelay' = toRelay /\ served' = served /\ life' = life
      /\ shownAt' = shownAt /\ faults' = faults /\ flushes' = flushes
  BY DEF fanOutVars
<1>3. /\ life \in [Hosts -> 1 .. MaxFaults + 1] /\ faults \in 0 .. MaxFaults
  BY Zenon, <1>1, FanVars
<1>4. FanOutTypeOK'
  BY <1>1, <1>2 DEF FanOutTypeOK
<1>5. InPlace'
  BY Zenon, <1>1, <1>2, PlacesStand
<1>6. ServedPerAttempt' /\ OwnEventOnce' /\ OncePerInstance'
  BY Zenon, <1>1, <1>2, ServedStands, OnceStands
<1>7. EventsFit'
  <2>1. unsent' \subseteq unsent /\ \A e \in Events : fate'[e] = fate[e]
    BY <1>2
  <2>. QED  BY Zenon, <1>1, <1>2, <2>1, EventsStand
<1>8. TriesFit'
  <2>1. \A h \in Hosts, q \in Queues : HeldAt(h, q)' \subseteq HeldAt(h, q)
    BY <1>2 DEF HeldAt, ToSet
  <2>. QED  BY Zenon, <1>1, <1>2, <2>1, TriesStand
<1>9. RowsFit'
  <2>1. unsent' \subseteq unsent /\ faults \in Nat /\ faults' \in Nat /\ faults <= faults'
    BY <1>2, <1>3, FanNumbers
  <2>. QED  BY Zenon, <1>1, <1>2, <1>3, <2>1, RowsStand
<1>10. RelayFits'
  BY Zenon, <1>1, <1>2, RelayStands
<1>. QED  BY Zenon, <1>4, <1>5, <1>6, <1>7, <1>8, <1>9, <1>10, FanPartsNext

\* The invariant in the next state.
LEMMA FanWholeNext == FanRest' => FanOutInv'
<1>1. FanRest => FanOutInv
  BY FanWhole
<1>. QED  BY <1>1, PTL

\* Every step of the fan-out keeps the invariant.
LEMMA FanOutStays ==
  ASSUME FanOutInv, [FanOutNext]_fanOutVars
  PROVE  FanOutInv'
<1>1. FanRest
  BY Zenon, FanWhole
<1>2. FanRest'
  <2>1. CASE UNCHANGED fanOutVars
    BY Zenon, <1>1, <2>1, FanOutRests
  <2>2. ASSUME NEW h \in Hosts, NEW e \in Events,
               \/ \E p \in Priorities : Enqueue(h, e, p)
               \/ Broadcast(h, e)
               \/ BroadcastFails(h, e)
               \/ Publish(h, e)
        PROVE  FanRest'
    BY Zenon, <1>1, <2>2, EnqueueKeeps, BroadcastKeeps, BroadcastFailsKeeps, PublishKeeps
  <2>3. ASSUME NEW h \in Raisers, NEW q \in Queues,
               \/ BeginDrain(h, q)
               \/ BeginFlush(h, q)
               \/ Deliver(h, q)
               \/ DeliverFails(h, q)
               \/ FinishDrain(h, q)
               \/ CancelFlush(h, q)
        PROVE  FanRest'
    <3>1. h \in Hosts
      BY FanNumbers
    <3>. QED  BY Zenon, <1>1, <2>3, <3>1, BeginDrainKeeps, BeginFlushKeeps, DeliverKeeps,
              DeliverFailsKeeps,
                 FinishKeeps, CancelKeeps
  <2>4. ASSUME NEW h \in Hosts, BeginPass(h) \/ Relay(h) \/ Ack(h) \/ FanOutRestart(h)
        PROVE  FanRest'
    BY Zenon, <1>1, <2>4, BeginPassKeeps, RelayKeeps, AckKeeps, FanOutRestartKeeps
  <2>5. CASE Expire
    BY Zenon, <1>1, <2>5, ExpireKeeps
  <2>. QED  BY Zenon, <2>1, <2>2, <2>3, <2>4, <2>5 DEF FanOutNext
<1>. QED  BY Zenon, <1>2, FanWholeNext

\* An event whose fate is open is in one place, is served within its attempts at its own process
\* and shown once at the others, and nobody relays its own, however loops, flushes, retries, relay
\* passes, acknowledgements and restarts interleave (FanOutInv).
THEOREM EventsAreHeldOnce == FanOutSpec => []FanOutInv
<1>1. FanOutInit => FanOutInv
  BY FanOutStart
<1>2. FanOutInv /\ [FanOutNext]_fanOutVars => FanOutInv'
  BY FanOutStays
<1>. QED  BY <1>1, <1>2, PTL DEF FanOutSpec


-----------------------------------------------------------------------------
(* The relay and the channel, side by side.                                  *)

\* A step of either is one of its own, or none.
LEMMA EachItsOwn == [Next]_vars => [FanOutNext]_fanOutVars /\ [ChannelNext]_channelVars
BY Zenon DEF Next, InFanOut, InChannel, vars

\* Both begin soundly.
LEMMA BothStart == Init => FanOutInv /\ ChannelInv
BY Zenon, FanOutStart, ChannelStart DEF Init

\* Every step keeps both invariants.
LEMMA BothStay ==
  ASSUME FanOutInv, ChannelInv, [Next]_vars
  PROVE  FanOutInv' /\ ChannelInv'
BY Zenon, EachItsOwn, FanOutStays, ChannelStays

\* The same of the two side by side (FanOutInv, ChannelInv).
THEOREM RelayAndChannelAreSound == Spec => []FanOutInv /\ []ChannelInv
<1>1. FanOutInv /\ ChannelInv /\ [Next]_vars => FanOutInv' /\ ChannelInv'
  BY BothStay
<1>. QED  BY <1>1, BothStart, PTL DEF Spec

\* No step takes a linked attachment away, or a viewer back to an older frame.
THEOREM ChannelStepsSoundly == Spec => AttachmentStays /\ FramesGoForward
<1>1. ChannelInv /\ [Next]_vars
        => [\A a \in Uploads : linked[a] /= "none" => linked'[a] = linked[a]]_channelVars
  <2>. SUFFICES ASSUME ChannelInv, [Next]_vars
                PROVE  \A a \in Uploads : linked[a] /= "none" => linked'[a] = linked[a]
    OBVIOUS
  <2>1. [ChannelNext]_channelVars
    BY Zenon, EachItsOwn
  <2>. QED  BY Zenon, <2>1, AttachmentHolds
<1>2. ChannelInv /\ [Next]_vars => [frame'.at >= frame.at]_channelVars
  <2>. SUFFICES ASSUME ChannelInv, [Next]_vars PROVE frame'.at >= frame.at
    OBVIOUS
  <2>1. [ChannelNext]_channelVars
    BY Zenon, EachItsOwn
  <2>. QED  BY Zenon, <2>1, FrameGoes
<1>. QED  BY <1>1, <1>2, RelayAndChannelAreSound, PTL DEF Spec, AttachmentStays, FramesGoForward
==============================================================================
