---------------------------- MODULE Collaboration ----------------------------
(***************************************************************************)
(* Who looks at a conversation and who is typing in it                     *)
(* (realtime/collaboration.rs).  A request changes the room under its      *)
(* mutex and tells the others of it afterwards, without the mutex; typing  *)
(* indicators and presence records lapse with time and are purged only on *)
(* an administrator's demand.                                              *)
(***************************************************************************)
EXTENDS Naturals, FiniteSets

CONSTANTS Convs, Users,
          Tabs,          \* requests that may be in flight together
          VIEWER_CAP, TYPING_TTL, PRESENCE_TTL,
          MaxClock, MaxAsked   \* bounds: instants, requests

ASSUME CollabAssumption ==
  /\ IsFiniteSet(Users)
  /\ {VIEWER_CAP, TYPING_TTL, PRESENCE_TTL} \subseteq Nat \ {0}
  /\ {MaxClock, MaxAsked} \subseteq Nat

VARIABLES
  collabClock,
  viewer,    \* <<conversation, user>> -> [in, joined, typing]: joined tells a viewer that
             \* came by join from one that came by typing, typing is an expiry or 0
  viewing,   \* user -> expiry of the record, 0 for none
  telling,   \* tab -> [at, conv, user, event]: what is still to be told
  toldOthers,      \* <<conversation, user>> -> the last event the others were told
  crossing,  \* pairs two requests were in flight for at once
  asked

collabVars == <<collabClock, viewer, viewing, telling, toldOthers, crossing, asked>>

Absent == [in |-> FALSE, joined |-> FALSE, typing |-> 0]
Quiet == [at |-> "idle", pair |-> <<>>, event |-> "none"]

CollabInit ==
  /\ collabClock = 0 /\ asked = 0 /\ crossing = {}
  /\ viewer = [p \in Convs \X Users |-> Absent]
  /\ viewing = [u \in Users |-> 0]
  /\ telling = [t \in Tabs |-> Quiet]
  /\ toldOthers = [p \in Convs \X Users |-> "none"]

Room(c) == {u \in Users : viewer[<<c, u>>].in}
Joined(c) == {u \in Room(c) : viewer[<<c, u>>].joined}
Expired(x) == x <= collabClock
About(p) == {t \in Tabs : telling[t].at = "tell" /\ telling[t].pair = p}

\* The request of a tab: the event it will tell, or none.
Asks(t, p, e) ==
  /\ telling[t] = Quiet /\ asked < MaxAsked /\ asked' = asked + 1
  /\ telling' = [telling EXCEPT ![t] = [at |-> "tell", pair |-> p, event |-> e]]
  /\ crossing' = IF About(p) = {} THEN crossing ELSE crossing \cup {p}

-----------------------------------------------------------------------------
\* MUTANT of Join: the capacity is not looked at.
JoinEvenFull(t, c, u) ==
  LET p == <<c, u>>
  IN  /\ viewer' = IF viewer[p].in THEN viewer
                   ELSE [viewer EXCEPT ![p] = [in |-> TRUE, joined |-> TRUE, typing |-> 0]]
      /\ Asks(t, p, "joined")
      /\ UNCHANGED <<collabClock, viewing, toldOthers>>

\* A user who is in the room already takes no place of it.
Join(t, c, u) ==
  LET p == <<c, u>>
  IN  /\ viewer[p].in \/ Cardinality(Room(c)) < VIEWER_CAP
      /\ viewer' = IF viewer[p].in THEN viewer
                   ELSE [viewer EXCEPT ![p] = [in |-> TRUE, joined |-> TRUE, typing |-> 0]]
      /\ Asks(t, p, "joined")
      /\ UNCHANGED <<collabClock, viewing, toldOthers>>

Leave(t, c, u) ==
  /\ viewer' = [viewer EXCEPT ![<<c, u>>] = Absent]
  /\ Asks(t, <<c, u>>, "left")
  /\ UNCHANGED <<collabClock, viewing, toldOthers>>

\* Typing, or ceasing to, makes a viewer of a user who was none.
SetTyping(t, c, u, active) ==
  /\ viewer' = [viewer EXCEPT ![<<c, u>>].in = TRUE,
                              ![<<c, u>>].typing = IF active THEN collabClock + TYPING_TTL ELSE 0]
  /\ Asks(t, <<c, u>>, IF active THEN "start" ELSE "stop")
  /\ UNCHANGED <<collabClock, viewing, toldOthers>>

SetPresence(u) ==
  /\ asked < MaxAsked /\ asked' = asked + 1
  /\ viewing' = [viewing EXCEPT ![u] = collabClock + PRESENCE_TTL]
  /\ UNCHANGED <<collabClock, viewer, telling, toldOthers, crossing>>

\* emit: what the others in the room are told last.
Emit(t) ==
  /\ telling[t].at = "tell"
  /\ toldOthers' = [toldOthers EXCEPT ![telling[t].pair] = telling[t].event]
  /\ telling' = [telling EXCEPT ![t] = Quiet]
  /\ UNCHANGED <<collabClock, viewer, viewing, crossing, asked>>

Cleanup ==
  /\ viewer' = [p \in DOMAIN viewer |->
                  IF Expired(viewer[p].typing) THEN [viewer[p] EXCEPT !.typing = 0] ELSE viewer[p]]
  /\ viewing' = [u \in Users |-> IF Expired(viewing[u]) THEN 0 ELSE viewing[u]]
  /\ UNCHANGED <<collabClock, telling, toldOthers, crossing, asked>>

ClockTicks ==
  /\ collabClock < MaxClock /\ collabClock' = collabClock + 1
  /\ UNCHANGED <<viewer, viewing, telling, toldOthers, crossing, asked>>

-----------------------------------------------------------------------------
CollabNext ==
  \/ \E t \in Tabs :
       \/ \E c \in Convs, u \in Users :
            \/ Join(t, c, u)
            \/ Leave(t, c, u)
            \/ \E active \in BOOLEAN : SetTyping(t, c, u, active)
       \/ Emit(t)
  \/ \E u \in Users : SetPresence(u)
  \/ Cleanup
  \/ ClockTicks

CollabSpec == CollabInit /\ [][CollabNext]_collabVars

-----------------------------------------------------------------------------
Viewers == [in : BOOLEAN, joined : BOOLEAN, typing : 0..(MaxClock + TYPING_TTL)]
Events == {"none", "joined", "left", "start", "stop"}
Tellings == [at : {"idle", "tell"}, pair : (Convs \X Users) \cup {<<>>}, event : Events]

CollabTypeOK ==
  /\ collabClock \in 0..MaxClock /\ asked \in 0..MaxAsked
  /\ viewer \in [Convs \X Users -> Viewers]
  /\ \A p \in Convs \X Users : ~viewer[p].in => viewer[p] = Absent
  /\ viewing \in [Users -> 0..(MaxClock + PRESENCE_TTL)]
  /\ toldOthers \in [Convs \X Users -> Events]
  /\ telling \in [Tabs -> Tellings]
  /\ \A t \in Tabs : telling[t].at = "tell" => telling[t].pair \in Convs \X Users
  /\ crossing \subseteq Convs \X Users

\* "Enforces the per-conversation capacity": never more viewers than it have come by
\* joining, whoever came, left and came again in between; typing is not counted.
JoinsWithinCap ==
  \A c \in Convs : Cardinality(Joined(c)) <= VIEWER_CAP

\* One request at most is about a pair that no two were about at once.
OneUnlessCrossed == \A p \in (Convs \X Users) \ crossing : \A s, t \in About(p) : s = t

\* The event says how the room has the user: present or gone, and typing only if it says so.
Agrees(p, e) ==
  /\ viewer[p].in <=> e \in {"joined", "start", "stop"}
  /\ ~Expired(viewer[p].typing) => e \in {"start", "joined"}

\* What the others were told last of a user is how the room has it, though the room is
\* changed first and they are told afterwards: unless two requests of the user crossed,
\* one told as present is, one told as gone is not, and only one told to be typing is.
\* While they are still to be told, what they will be told is.
ToldAgrees ==
  \A p \in (Convs \X Users) \ crossing :
    /\ About(p) = {} => Agrees(p, toldOthers[p])
    /\ \A t \in About(p) : Agrees(p, telling[t].event)

\* A typing indicator or a presence record that has not lapsed ends by a request of its
\* own user, never by the cleanup or by joining again.
FreshSignsEndByRequest ==
  /\ \A p \in DOMAIN viewer : ~Expired(viewer[p].typing) /\ viewer'[p].typing = 0 =>
       \E t \in Tabs : telling'[t].pair = p /\ telling'[t].event \in {"left", "stop"}
  /\ \A u \in Users : ~Expired(viewing[u]) => viewing'[u] /= 0
FreshStays == [][FreshSignsEndByRequest]_collabVars

\* "Capacity for a single conversation is bounded."
RoomWithinCap == \A c \in Convs : Cardinality(Room(c)) <= VIEWER_CAP

\* The room keeps its cap on joining, and the others know who is in it.
CollabInv == CollabTypeOK /\ JoinsWithinCap /\ OneUnlessCrossed /\ ToldAgrees
=============================================================================
