-------------------------- MODULE CustomerChannel --------------------------
(***************************************************************************)
(* The customer channel of one conversation (realtime/customer.rs): the    *)
(* registry of its sockets, the creation of an agent's message by POST     *)
(* /messages, its LINE relay, and the refresh of the latest-message        *)
(* snapshot (realtime/latest.rs) that each new message schedules. A        *)
(* message is named by its request; its creation stamp is taken before its *)
(* transaction, so two requests may commit against their stamps.           *)
(***************************************************************************)
EXTENDS Naturals, FiniteSets

CONSTANTS Viewers,      \* users with a session on the channel
          Sockets,      \* connections opened during the run
          Msgs,         \* requests of POST /messages
          Uploads,      \* attachments a request may name
          MaxDrops      \* bound: requests whose client hangs up

NoOne == "no one"

ASSUME ChannelAssumption ==
  /\ MaxDrops \in Nat /\ Sockets \subseteq Nat /\ IsFiniteSet(Msgs)
  /\ NoOne \notin Viewers /\ "none" \notin Msgs

NoMsg == [at |-> 0]
RefreshAt == {"off", "derive", "store", "tell"}

VARIABLES
  sock,      \* connection (numbered as they open) -> its user while registered
  closed,    \* connections opened and ended: an identifier is never reused
  told,      \* connection -> user -> last presence event it was sent
  make,      \* request -> [at, stamp, names]
  clock,     \* creation stamps handed out
  linked,    \* attachment -> message_id, or "none"
  shown,     \* messages sent to the sockets open at that moment
  relayed,   \* messages the LINE relay task may still push
  onLine,    \* messages pushed to the customer
  latest,    \* the cached snapshot: a message's [at |-> stamp]
  pending,   \* CacheInner.pending holds the conversation
  refresher, \* request -> its refresh task
  frame,     \* the last latest_message_updated frame
  drops      \* counts MaxDrops

channelVars == <<sock, closed, told, make, clock, linked, shown, relayed, onLine,
                 latest, pending, refresher, frame, drops>>
socketVars == <<sock, closed, told>>
refreshVars == <<latest, pending, refresher, frame>>

ChannelInit ==
  /\ sock = [c \in Sockets |-> NoOne] /\ closed = {}
  /\ told = [c \in Sockets |-> [u \in Viewers |-> "nothing"]]
  /\ make = [m \in Msgs |-> [at |-> "new", stamp |-> 0, names |-> {}]]
  /\ clock = 0
  /\ linked = [a \in Uploads |-> "none"]
  /\ shown = {}
  /\ relayed = {} /\ onLine = {}
  /\ latest = NoMsg /\ pending = FALSE /\ frame = NoMsg
  /\ refresher = [m \in Msgs |-> [at |-> "off", got |-> NoMsg]]
  /\ drops = 0

-----------------------------------------------------------------------------
(* CustomerChannels: each operation is one hold of the registry's lock.     *)

Open == {c \in Sockets : sock[c] /= NoOne}
ChannelConnect(c, u) ==
  /\ c \notin Open \cup closed /\ \A o \in Sockets : o < c => o \in Open \cup closed
  /\ told' = [o \in Sockets |-> IF o \in Open THEN [told[o] EXCEPT ![u] = "here"] ELSE told[o]]
  /\ sock' = [sock EXCEPT ![c] = u]
  /\ UNCHANGED <<closed, make, clock, linked, shown, relayed, onLine, refreshVars, drops>>

\* "gone" is announced only with the user's last connection.
AnnounceTo(c) ==
  IF \E o \in Open \ {c} : sock[o] = sock[c] THEN {} ELSE Open \ {c}

ChannelDisconnect(c) ==
  /\ sock[c] /= NoOne
  /\ told' = [o \in Sockets |->
                IF o = c THEN [u \in Viewers |-> "nothing"]
                ELSE IF o \in AnnounceTo(c) THEN [told[o] EXCEPT ![sock[c]] = "gone"]
                ELSE told[o]]
  /\ sock' = [sock EXCEPT ![c] = NoOne]
  /\ closed' = closed \cup {c}
  /\ UNCHANGED <<make, clock, linked, shown, relayed, onLine, refreshVars, drops>>

-----------------------------------------------------------------------------
(* POST /messages.                                                          *)

MsgAt(m, s) == make[m].at = s
StoredMsgs == {m \in Msgs : make[m].at \notin {"new", "stamped"}
                        /\ ~(make[m].at = "dropped" /\ make[m].stamp = 0)}

Stamp(m, as) ==
  /\ MsgAt(m, "new")
  /\ clock' = clock + 1
  /\ make' = [make EXCEPT ![m] = [at |-> "stamped", stamp |-> clock + 1, names |-> as]]
  /\ UNCHANGED <<socketVars, linked, shown, relayed, onLine, refreshVars, drops>>

LinkFree(m) ==
  [a \in Uploads |-> IF a \in make[m].names /\ linked[a] = "none" THEN m ELSE linked[a]]

\* One transaction: the row, its free attachments, the recency markers. The
\* relay task is spawned when something is left to push.
CommitMessage(m) ==
  /\ MsgAt(m, "stamped")
  /\ make' = [make EXCEPT ![m].at = "stored"]
  /\ linked' = LinkFree(m)
  /\ UNCHANGED <<socketVars, clock, shown, relayed, onLine, refreshVars, drops>>

SpawnRelay(m) ==
  /\ MsgAt(m, "stored")
  /\ make' = [make EXCEPT ![m].at = "relayed"]
  /\ relayed' = relayed \cup {m}
  /\ UNCHANGED <<socketVars, clock, linked, shown, onLine, refreshVars, drops>>

\* A batch is pushed or its failure is logged; the row stays 'delivered'.
PushToLine(m) ==
  /\ m \in relayed
  /\ relayed' = relayed \ {m}
  /\ \/ onLine' = onLine \cup {m}
     \/ UNCHANGED onLine
  /\ UNCHANGED <<socketVars, make, clock, linked, shown, refreshVars, drops>>

\* MUTANT of FanOutMessage: the commit is not waited for.
FanOutBlind(m) ==
  /\ make[m].at \in {"stamped", "relayed"}
  /\ make' = [make EXCEPT ![m].at = IF @ = "relayed" THEN "shown" ELSE @]
  /\ shown' = shown \cup {m}
  /\ UNCHANGED <<socketVars, clock, linked, relayed, onLine, refreshVars, drops>>

FanOutMessage(m) ==
  /\ MsgAt(m, "relayed")
  /\ make' = [make EXCEPT ![m].at = "shown"]
  /\ shown' = shown \cup {m}
  /\ UNCHANGED <<socketVars, clock, linked, relayed, onLine, refreshVars, drops>>

\* The client hangs up at an await: the handler ends where it is. Before the
\* commit the transaction is rolled back.
DropRequest(m) ==
  /\ drops < MaxDrops /\ make[m].at \in {"stamped", "stored", "relayed"}
  /\ drops' = drops + 1
  /\ make' = [make EXCEPT ![m].at = "dropped",
                          ![m].stamp = IF MsgAt(m, "stamped") THEN 0 ELSE @]
  /\ UNCHANGED <<socketVars, clock, linked, shown, relayed, onLine, refreshVars>>

-----------------------------------------------------------------------------
(* The latest-message snapshot.                                             *)

Newest == IF StoredMsgs = {} THEN NoMsg
          ELSE [at |-> CHOOSE s \in {make[m].stamp : m \in StoredMsgs} :
                         \A m \in StoredMsgs : s >= make[m].stamp]

\* MUTANT of BeginRefresh: nothing is coalesced.
BeginRefreshAlways(m) ==
  /\ pending' = TRUE
  /\ refresher' = [refresher EXCEPT ![m] = [at |-> "derive", got |-> NoMsg]]
  /\ latest' = NoMsg

\* begin_refresh: a request that finds one pending is coalesced into it.
BeginRefresh(m) ==
  \/ /\ ~pending /\ pending' = TRUE
     /\ refresher' = [refresher EXCEPT ![m] = [at |-> "derive", got |-> NoMsg]]
     /\ latest' = NoMsg
  \/ pending /\ UNCHANGED <<pending, refresher, latest>>

ScheduleRefresh(m) ==
  /\ MsgAt(m, "shown")
  /\ make' = [make EXCEPT ![m].at = "done"]
  /\ BeginRefresh(m)
  /\ UNCHANGED <<socketVars, clock, linked, shown, relayed, onLine, frame, drops>>

\* The query, or the third failed attempt at it.
Derive(m) ==
  /\ refresher[m].at = "derive"
  /\ \/ /\ refresher' = [refresher EXCEPT ![m] = [at |-> "store", got |-> Newest]]
        /\ UNCHANGED pending
     \/ /\ refresher' = [refresher EXCEPT ![m].at = "off"]
        /\ pending' = FALSE
  /\ UNCHANGED <<socketVars, make, clock, linked, shown, relayed, onLine, latest, frame,
                 drops>>

StoreSnapshot(m) ==
  /\ refresher[m].at = "store"
  /\ latest' = refresher[m].got
  /\ refresher' = [refresher EXCEPT ![m].at = "tell"]
  /\ UNCHANGED <<socketVars, make, clock, linked, shown, relayed, onLine, pending, frame,
                 drops>>

TellLatest(m) ==
  /\ refresher[m].at = "tell"
  /\ frame' = refresher[m].got
  /\ refresher' = [refresher EXCEPT ![m].at = "off"]
  /\ pending' = FALSE
  /\ UNCHANGED <<socketVars, make, clock, linked, shown, relayed, onLine, latest, drops>>

-----------------------------------------------------------------------------
RequestStep(m) ==
  CommitMessage(m) \/ SpawnRelay(m) \/ FanOutMessage(m) \/ ScheduleRefresh(m)
RefreshStep(m) == Derive(m) \/ StoreSnapshot(m) \/ TellLatest(m)

ChannelNext ==
  \/ \E c \in Sockets : ChannelDisconnect(c) \/ \E u \in Viewers : ChannelConnect(c, u)
  \/ \E m \in Msgs :
       \/ \E as \in SUBSET Uploads : Stamp(m, as)
       \/ CommitMessage(m)
       \/ SpawnRelay(m)
       \/ PushToLine(m)
       \/ FanOutMessage(m)
       \/ DropRequest(m)
       \/ ScheduleRefresh(m)
       \/ Derive(m)
       \/ StoreSnapshot(m)
       \/ TellLatest(m)

\* A request and a refresh task, once running, go on.
ChannelFairness ==
  \A m \in Msgs : WF_channelVars(RequestStep(m)) /\ WF_channelVars(RefreshStep(m))

ChannelSpec == ChannelInit /\ [][ChannelNext]_channelVars /\ ChannelFairness

-----------------------------------------------------------------------------
LatestSet == [at : 0..Cardinality(Msgs)]
ChannelTypeOK ==
  /\ sock \in [Sockets -> Viewers \cup {NoOne}] /\ closed \subseteq Sockets
  /\ told \in [Sockets -> [Viewers -> {"nothing", "here", "gone"}]]
  /\ make \in [Msgs -> [at : {"new", "stamped", "stored", "relayed", "shown", "done",
                              "dropped"},
                        stamp : 0..Cardinality(Msgs), names : SUBSET Uploads]]
  /\ clock \in 0..Cardinality(Msgs)
  /\ linked \in [Uploads -> Msgs \cup {"none"}]
  /\ shown \subseteq Msgs
  /\ relayed \subseteq Msgs /\ onLine \subseteq Msgs
  /\ latest \in LatestSet /\ frame \in LatestSet
  /\ refresher \in [Msgs -> [at : RefreshAt, got : LatestSet]]
  /\ pending = (\E m \in Msgs : refresher[m].at /= "off")
  /\ drops \in 0..MaxDrops

\* What a socket was last told of a user is true of the registry: a tab that
\* closes while the user has another one does not make the user look gone
\* (CustomerChannels::connect, disconnect).
PresenceIsTrue ==
  \A c \in Open, u \in Viewers :
    told[c][u] /= "nothing" => (told[c][u] = "here" <=> \E o \in Open : sock[o] = u)

\* Neither a viewer nor the customer sees a message whose transaction was
\* rolled back or is still open, whatever requests are dropped (create_message).
OnlyStoredIsSeen ==
  onLine \cup relayed \cup shown \subseteq StoredMsgs

\* An attachment two requests name stays with the message that linked it first.
AttachmentStays ==
  [][\A a \in Uploads : linked[a] /= "none" => linked'[a] = linked[a]]_channelVars

\* Coalescing keeps refreshes from overtaking one another: viewers are never
\* told of an older latest message after a newer one (begin_refresh).
FramesGoForward == [][frame'.at >= frame.at]_channelVars

\* A refresh ends, so the next one is not coalesced into a dead one.
RefreshEnds == []<>~pending

\* "the conversation gained a new most-recent message: coalesced refresh ...
\* eventual freshness": once a message's request is done the snapshot is it, a
\* newer one, or absent.
LatestIsFresh ==
  \A m \in Msgs :
    make[m].at = "done" ~> (latest = NoMsg \/ latest.at >= make[m].stamp)

\* A connection that is not open, not yet or no more, has been told nothing.
SocketsFit ==
  /\ Open \cap closed = {}
  /\ \A c \in Sockets \ Open : told[c] = [u \in Viewers |-> "nothing"]

\* Each request that has begun took one stamp of the clock.
StampsFit ==
  /\ clock = Cardinality({m \in Msgs : make[m].at /= "new"})
  /\ \A m \in Msgs :
       /\ make[m].stamp <= clock
       /\ make[m].at \notin {"new", "dropped"} => make[m].stamp > 0

\* One refresh at a time, and what it has read is no older than what was told, and no newer
\* than what is stored.
RefreshesFit ==
  /\ \A m, k \in Msgs : refresher[m].at /= "off" /\ refresher[k].at /= "off" => m = k
  /\ frame.at <= Newest.at
  /\ \A m \in Msgs : refresher[m].at \in {"store", "tell"} =>
        frame.at <= refresher[m].got.at /\ refresher[m].got.at <= Newest.at

\* What the web chat's sockets were told is true: of who is there, and of what is stored.
ChannelInv ==
  /\ ChannelTypeOK
  /\ PresenceIsTrue
  /\ OnlyStoredIsSeen
  /\ SocketsFit
  /\ StampsFit
  /\ RefreshesFit
=============================================================================
