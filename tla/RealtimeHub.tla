----------------------------- MODULE RealtimeHub -----------------------------
(***************************************************************************)
(* The realtime hub of one process (realtime/hub, socket, rooms and        *)
(* user_sessions).  A connection is registered under the hub's lock before *)
(* the protocol upgrade and removed by the task that drives its socket.  A *)
(* user's state (the conversations followed) is in memory while the user   *)
(* is connected, is written to its row after each change by whoever        *)
(* changed it, and is read back when it is next needed.  A room numbers    *)
(* its messages, keeps the last of them, and sends each to whoever is      *)
(* there.                                                                  *)
(*                                                                         *)
(* Left out: the contents of frames, frame and rate limits, statistics and *)
(* preferences (kept and written with the followed set; a heartbeat or a   *)
(* change of preferences is a follow of what is followed), who may see     *)
(* what, and rooms in simplified mode, which keep no history.              *)
(***************************************************************************)
EXTENDS Integers, Sequences, FiniteSets, SequencesExt

CONSTANTS
    Users,
    Sees,           \* <<v, u>>: v is told of u's presence (admin, or shares a team)
    Rooms,          \* conversations
    ConnIds,        \* bound: connections registered in a behaviour, numbered as they come
    Reqs,           \* bound: HTTP requests in progress
    MaxPerUser,     \* MAX_CONNECTIONS_PER_USER (5 in hub.rs)
    HistoryCap,     \* ROOM_HISTORY_CAP (50 in hub.rs)
    MaxSent,        \* bound: messages of a room
    MaxHubServed    \* bound: requests begun, and frames but for messages

ASSUME HubAssumption ==
    /\ Users # {} /\ ConnIds \subseteq Nat \ {0}
    /\ Sees \subseteq Users \X Users
    /\ MaxPerUser \in Nat \ {0} /\ HistoryCap \in Nat \ {0}
    /\ MaxSent \in Nat /\ MaxHubServed \in Nat

VARIABLES
    conn,       \* conn[c]: the hub's entry for c and the phase of its socket
    heard,      \* heard[c][u]: the last presence event about u sent to c
    mem,        \* mem[u]: UserState in memory
    saved,      \* saved[u]: u's row of realtime_user_state
    followed,   \* followed[u]: what u followed, was saved, and was not given up
    room,       \* room[r]: RoomState
    reach,      \* reach[c]: messages in the history when c joined its room, or sent to c
    muted,      \* messages whose broadcast the feature flag suppressed
    talk,       \* talk[c]: the frame that c's socket task is handling
    req,        \* req[q]: an HTTP request
    challenge,  \* the room's authentication challenge and the connects it let in
    enabled,    \* GatewayConfig.enabled
    hubServed

hubVars == <<conn, heard, mem, saved, followed, room, reach, muted, talk, req, challenge, enabled, hubServed>>

-----------------------------------------------------------------------------

Personal == "personal"
NoConn == [phase |-> "new", user |-> CHOOSE u \in Users : TRUE, at |-> Personal]
NoState == [known |-> FALSE, follows |-> {}]
State(f) == [known |-> TRUE, follows |-> f]
States == [known : BOOLEAN, follows : SUBSET Rooms]
NoRoom == [seq |-> 0, history |-> <<>>]
Quiet == [pc |-> "quiet"]
IdleReq == [pc |-> "idle"]
Connects == {"gateway", "session", "room"}
Messages == Rooms \X (1 .. MaxSent)
Changes == {"follow", "unfollow"}

HubTypeOK ==
    /\ conn \in [ConnIds -> [phase : {"new", "held", "open", "leaked", "gone"},
                             user : Users, at : Rooms \cup {Personal}]]
    /\ heard \in [ConnIds -> [Users -> {"unheard", "online", "offline"}]]
    /\ mem \in [Users -> States] /\ saved \in [Users -> States]
    /\ followed \in [Users -> SUBSET Rooms]
    /\ room \in [Rooms -> [seq : 0 .. MaxSent, history : Seq(1 .. MaxSent)]]
    /\ \A r \in Rooms : Len(room[r].history) <= HistoryCap
    /\ reach \in [ConnIds -> SUBSET Messages]
    /\ muted \in SUBSET Messages
    /\ talk \in [ConnIds -> {Quiet} \cup [pc : {"stamped"}, n : 1 .. MaxSent]
                            \cup [pc : {"pushed"}, n : 1 .. MaxSent, subs : SUBSET Users]
                            \cup [pc : {"persist"}, kind : Changes, at : Rooms]
                            \cup [pc : {"save"}, kind : Changes, at : Rooms, snap : States]]
    /\ req \in [Reqs -> {IdleReq} \cup
                   [pc : {"hydrate", "restore", "act", "persist", "save", "upgrade"},
                    kind : Connects \cup Changes \cup {"left"}, user : Users,
                    at : Rooms \cup {Personal}, snap : States, conn : {0} \cup ConnIds]]
    /\ challenge \in [state : {"none", "issued", "stale"}, admitted : Nat]
    /\ enabled \in BOOLEAN
    /\ hubServed \in 0 .. MaxHubServed

HubInit ==
    /\ conn = [c \in ConnIds |-> NoConn]
    /\ heard = [c \in ConnIds |-> [u \in Users |-> "unheard"]]
    /\ mem = [u \in Users |-> NoState] /\ saved = [u \in Users |-> NoState]
    /\ followed = [u \in Users |-> {}]
    /\ room = [r \in Rooms |-> NoRoom]
    /\ reach = [c \in ConnIds |-> {}]
    /\ muted = {}
    /\ talk = [c \in ConnIds |-> Quiet]
    /\ req = [q \in Reqs |-> IdleReq]
    /\ challenge = [state |-> "none", admitted |-> 0]
    /\ enabled = TRUE
    /\ hubServed = 0

NextId(c) == \A d \in ConnIds : conn[d] = NoConn <=> d >= c
Registered(c) == conn[c].phase \in {"held", "open", "leaked"}
ConnsOf(u) == {c \in ConnIds : Registered(c) /\ conn[c].user = u}
InRoom(r) == {c \in ConnIds : Registered(c) /\ conn[c].at = r}
HubServe == hubServed < MaxHubServed /\ hubServed' = hubServed + 1
ReqAt(q, pc) == req[q].pc = pc
Goto(q, pc) == req' = [req EXCEPT ![q].pc = pc]
Leave(q) == req' = [req EXCEPT ![q] = IdleReq]

\* entry(..).or_default(): a user's state is created empty.
Known(u) == IF mem[u].known THEN mem[u] ELSE State({})
-----------------------------------------------------------------------------
(* Requests                                                                  *)

BeginReq(q, pc, kind, u, r) ==
    /\ HubServe
    /\ ReqAt(q, "idle")
    /\ req' = [req EXCEPT ![q] = [pc |-> pc, kind |-> kind, user |-> u, at |-> r,
                                  snap |-> NoState, conn |-> 0]]
    /\ UNCHANGED <<conn, heard, mem, saved, followed, room, reach, muted, talk, challenge, enabled>>

\* connect: a personal channel or a room's, through the gateway, unless the feature is off.
GatewayConnect(q, u, r) == enabled /\ BeginReq(q, "hydrate", "gateway", u, r)

\* session_connect: a personal channel.
SessionConnect(q, u) == BeginReq(q, "hydrate", "session", u, Personal)

\* room_connect with a bearer token: it does not look at the user's row.
RoomConnect(q, u, r) == BeginReq(q, "act", "room", u, r)

\* subscribe.
FollowRequest(q, u, r) == BeginReq(q, "hydrate", "follow", u, r)

\* unsubscribe.
UnfollowRequest(q, u, r) == BeginReq(q, "hydrate", "unfollow", u, r)

\* hydrate: the row is read unless the state is in memory; a failing read finds nothing.
Hydrate(q) ==
    LET u == req[q].user
    IN  /\ ReqAt(q, "hydrate")
        /\ \/ mem[u].known /\ Goto(q, "act")
           \/ /\ ~mem[u].known
              /\ \E saw \in {saved[u], NoState} :
                   req' = [req EXCEPT ![q].pc = "restore", ![q].snap = saw]
        /\ UNCHANGED <<conn, heard, mem, saved, followed, room, reach, muted, talk, challenge, enabled, hubServed>>

\* hydrate_user: a no-op when the state is there by now.
HydrateUser(q) ==
    LET u == req[q].user
    IN  /\ ReqAt(q, "restore")
        /\ mem' = IF ~mem[u].known /\ req[q].snap.known THEN [mem EXCEPT ![u] = req[q].snap] ELSE mem
        /\ Goto(q, "act")
        /\ UNCHANGED <<conn, heard, saved, followed, room, reach, muted, talk, challenge, enabled, hubServed>>

\* presence_locked: those connected who may see u, u's own connections aside.
Announce(u, what, audience) ==
    [c \in ConnIds |-> IF c \in audience /\ <<conn[c].user, u>> \in Sees /\ conn[c].user # u
                       THEN [heard[c] EXCEPT ![u] = what] ELSE heard[c]]

\* register: under one lock, and before the upgrade.
Register(q, c) ==
    LET u == req[q].user
        r == req[q].at
    IN  /\ ReqAt(q, "act") /\ req[q].kind \in Connects
        /\ NextId(c)
        /\ Cardinality(ConnsOf(u)) < MaxPerUser
        /\ conn' = [conn EXCEPT ![c] = [phase |-> "held", user |-> u, at |-> r]]
        /\ mem' = [mem EXCEPT ![u] = Known(u)]
        /\ reach' = IF r \in Rooms THEN [reach EXCEPT ![c] = {r} \X ToSet(room[r].history)] ELSE reach
        /\ heard' = IF ConnsOf(u) = {}
                    THEN Announce(u, "online", {d \in ConnIds : Registered(d)}) ELSE heard
        /\ req' = [req EXCEPT ![q].pc = IF req[q].kind = "session" THEN "persist" ELSE "upgrade",
                              ![q].conn = c]
        /\ UNCHANGED <<saved, followed, room, muted, talk, challenge, enabled, hubServed>>

\* A connection over the ceiling is refused.
RefuseConnect(q) ==
    /\ ReqAt(q, "act") /\ req[q].kind \in Connects
    /\ Cardinality(ConnsOf(req[q].user)) >= MaxPerUser
    /\ Leave(q)
    /\ UNCHANGED <<conn, heard, mem, saved, followed, room, reach, muted, talk, challenge, enabled, hubServed>>

\* The upgrade starts run_socket, or the client is gone before it: the hub's entry stays.
Upgrade(q) ==
    /\ ReqAt(q, "upgrade")
    /\ \E phase \in {"open", "leaked"} :
         conn' = IF conn[req[q].conn].phase = "held"
                 THEN [conn EXCEPT ![req[q].conn].phase = phase] ELSE conn
    /\ Leave(q)
    /\ UNCHANGED <<heard, mem, saved, followed, room, reach, muted, talk, challenge, enabled, hubServed>>

\* subscribe, unsubscribe, heartbeat and the like, on the user's state in memory.
Changed(u, kind, r) ==
    [Known(u) EXCEPT !.follows = IF kind = "follow" THEN @ \cup {r} ELSE @ \ {r}]

GivenUp(u, kind, r) == IF kind = "unfollow" THEN [followed EXCEPT ![u] = @ \ {r}] ELSE followed
Told(u, kind, r) == IF kind = "follow" THEN [followed EXCEPT ![u] = @ \cup {r}] ELSE followed

ChangeState(q) ==
    LET u == req[q].user
    IN  /\ ReqAt(q, "act") /\ req[q].kind \notin Connects
        /\ mem' = [mem EXCEPT ![u] = Changed(u, req[q].kind, req[q].at)]
        /\ followed' = GivenUp(u, req[q].kind, req[q].at)
        /\ Goto(q, "persist")
        /\ UNCHANGED <<conn, heard, saved, room, reach, muted, talk, challenge, enabled, hubServed>>

\* persist_user: the snapshot; without a state in memory it is the empty one.
TakeSnapshot(q) ==
    /\ ReqAt(q, "persist")
    /\ req' = [req EXCEPT ![q].pc = "save", ![q].snap = Known(req[q].user)]
    /\ UNCHANGED <<conn, heard, mem, saved, followed, room, reach, muted, talk, challenge, enabled, hubServed>>

\* persist_snapshot: best effort; the request succeeds in any case.
SaveSnapshot(q) ==
    LET u == req[q].user
    IN  /\ ReqAt(q, "save")
        /\ \/ /\ saved' = [saved EXCEPT ![u] = req[q].snap]
              /\ followed' = Told(u, req[q].kind, req[q].at)
           \/ UNCHANGED <<saved, followed>>
        /\ IF req[q].kind = "session" THEN Goto(q, "upgrade") ELSE Leave(q)
        /\ UNCHANGED <<conn, heard, mem, room, reach, muted, talk, challenge, enabled, hubServed>>
-----------------------------------------------------------------------------
(* Connections                                                               *)

\* unregister: the last connection takes the user's state with it.
Unregistered(c) ==
    LET u == conn[c].user
        last == ConnsOf(u) = {c}
    IN  /\ conn' = [conn EXCEPT ![c].phase = "gone"]
        /\ mem' = IF last THEN [mem EXCEPT ![u] = NoState] ELSE mem
        /\ heard' = IF last THEN Announce(u, "offline", {d \in ConnIds \ {c} : Registered(d)}) ELSE heard

\* The end of run_socket: the peer closes, the credential expires or the connection idles.
\* The last snapshot of a user's state is then written.
EndSocket(c) ==
    /\ conn[c].phase = "open" /\ talk[c] = Quiet
    /\ Unregistered(c)
    /\ saved' \in (IF ConnsOf(conn[c].user) = {c} /\ mem[conn[c].user].known
                   THEN {saved, [saved EXCEPT ![conn[c].user] = mem[conn[c].user]]} ELSE {saved})
    /\ UNCHANGED <<followed, room, reach, muted, talk, req, challenge, enabled, hubServed>>

\* disconnect, force_disconnect: the connection of the user, or an administrator, is removed;
\* its socket finds its channel closed.
ForceDisconnect(q, c) ==
    /\ HubServe
    /\ ReqAt(q, "idle")
    /\ Registered(c)
    /\ Unregistered(c)
    /\ req' = IF ConnsOf(conn[c].user) = {c} /\ mem[conn[c].user].known
              THEN [req EXCEPT ![q] = [pc |-> "save", kind |-> "left", user |-> conn[c].user,
                                       at |-> Personal, snap |-> mem[conn[c].user], conn |-> 0]]
              ELSE req
    /\ UNCHANGED <<saved, followed, room, reach, muted, talk, challenge, enabled>>

\* A subscribe or unsubscribe frame on the personal channel.
FollowFrame(c, kind, r) ==
    LET u == conn[c].user
    IN  /\ HubServe
        /\ conn[c].phase = "open" /\ conn[c].at = Personal /\ talk[c] = Quiet
        /\ mem' = [mem EXCEPT ![u] = Changed(u, kind, r)]
        /\ followed' = GivenUp(u, kind, r)
        /\ talk' = [talk EXCEPT ![c] = [pc |-> "persist", kind |-> kind, at |-> r]]
        /\ UNCHANGED <<conn, heard, saved, room, reach, muted, req, challenge, enabled>>

FrameSnapshot(c) ==
    /\ talk[c].pc = "persist"
    /\ talk' = [talk EXCEPT ![c] = [pc |-> "save", kind |-> @.kind, at |-> @.at,
                                    snap |-> Known(conn[c].user)]]
    /\ UNCHANGED <<conn, heard, mem, saved, followed, room, reach, muted, req, challenge, enabled, hubServed>>

FrameSave(c) ==
    LET u == conn[c].user
    IN  /\ talk[c].pc = "save"
        /\ \/ /\ saved' = [saved EXCEPT ![u] = talk[c].snap]
              /\ followed' = Told(u, talk[c].kind, talk[c].at)
           \/ UNCHANGED <<saved, followed>>
        /\ talk' = [talk EXCEPT ![c] = Quiet]
        /\ UNCHANGED <<conn, heard, mem, room, reach, muted, req, challenge, enabled, hubServed>>
-----------------------------------------------------------------------------
(* Room messages                                                             *)

\* next_seq, on a message frame.
StampMessage(c) ==
    LET r == conn[c].at
    IN  /\ conn[c].phase = "open" /\ r \in Rooms /\ talk[c] = Quiet
        /\ room[r].seq < MaxSent
        /\ room' = [room EXCEPT ![r].seq = @ + 1]
        /\ talk' = [talk EXCEPT ![c] = [pc |-> "stamped", n |-> room[r].seq + 1]]
        /\ UNCHANGED <<conn, heard, mem, saved, followed, reach, muted, req, challenge, enabled,
                       hubServed>>

\* The room's history, its oldest entries dropped.
Kept(r, n) ==
    LET h == Append(room[r].history, n)
    IN  IF Len(h) > HistoryCap THEN Tail(h) ELSE h

\* to_conversation: the room's connections and the followers' personal channels; nothing is
\* sent while the feature is off.
Sent(r, n, subs) ==
    IF enabled
    THEN /\ reach' = [c \in ConnIds |->
                        IF c \in InRoom(r) \/ (Registered(c) /\ conn[c].at = Personal /\ conn[c].user \in subs)
                        THEN reach[c] \cup {<<r, n>>} ELSE reach[c]]
         /\ UNCHANGED muted
    ELSE muted' = muted \cup {<<r, n>>} /\ UNCHANGED reach

Followers(r) == {u \in Users : r \in mem[u].follows}

\* MUTANT of KeepMessage: the broadcast comes before the history.
KeepMessageLast(c) ==
    LET r == conn[c].at
    IN  \/ /\ talk[c].pc = "stamped"
           /\ Sent(r, talk[c].n, Followers(r))
           /\ talk' = [talk EXCEPT ![c] = [pc |-> "pushed", n |-> @.n, subs |-> {}]]
           /\ UNCHANGED <<conn, heard, mem, saved, followed, room, req, challenge, enabled, hubServed>>
        \/ /\ talk[c].pc = "pushed"
           /\ room' = [room EXCEPT ![r].history = Kept(r, talk[c].n)]
           /\ talk' = [talk EXCEPT ![c] = Quiet]
           /\ UNCHANGED <<conn, heard, mem, saved, followed, reach, muted, req, challenge, enabled, hubServed>>

\* to_conversation_message: the history first, then who follows (under a lock of its own).
KeepMessage(c) ==
    LET r == conn[c].at
    IN  /\ talk[c].pc = "stamped"
        /\ room' = [room EXCEPT ![r].history = Kept(r, talk[c].n)]
        /\ talk' = [talk EXCEPT ![c] = [pc |-> "pushed", n |-> @.n, subs |-> Followers(r)]]
        /\ UNCHANGED <<conn, heard, mem, saved, followed, reach, muted, req, challenge, enabled, hubServed>>

\* fan_out, under one lock.
FanOut(c) ==
    /\ talk[c].pc = "pushed"
    /\ Sent(conn[c].at, talk[c].n, talk[c].subs)
    /\ talk' = [talk EXCEPT ![c] = Quiet]
    /\ UNCHANGED <<conn, heard, mem, saved, followed, room, req, challenge, enabled, hubServed>>
-----------------------------------------------------------------------------
(* Challenges, the feature flag, restarts                                    *)

\* create_challenge, for the room's challenge that is looked at; its lifetime may pass.
IssueChallenge ==
    /\ HubServe
    /\ challenge = [state |-> "none", admitted |-> 0]
    /\ challenge' = [challenge EXCEPT !.state = "issued"]
    /\ UNCHANGED <<conn, heard, mem, saved, followed, room, reach, muted, talk, req, enabled>>

ExpireChallenge ==
    /\ challenge.state = "issued"
    /\ challenge' = [challenge EXCEPT !.state = "stale"]
    /\ UNCHANGED <<conn, heard, mem, saved, followed, room, reach, muted, talk, req, enabled, hubServed>>

\* consume_challenge, on a room connect: whatever comes of it, the challenge is removed.
ConsumeChallenge(q, u, r) ==
    /\ HubServe
    /\ ReqAt(q, "idle")
    /\ challenge.state \in {"issued", "stale"}
    /\ \E signed \in BOOLEAN :
         IF signed /\ challenge.state = "issued"
         THEN /\ challenge' = [state |-> "none", admitted |-> challenge.admitted + 1]
              /\ req' = [req EXCEPT ![q] = [pc |-> "act", kind |-> "room", user |-> u, at |-> r,
                                            snap |-> NoState, conn |-> 0]]
         ELSE challenge' = [state |-> "none", admitted |-> 1] /\ UNCHANGED req
    /\ UNCHANGED <<conn, heard, mem, saved, followed, room, reach, muted, talk, enabled>>

\* migration_config, administrators only.
SetFeature ==
    /\ HubServe
    /\ enabled' = ~enabled
    /\ UNCHANGED <<conn, heard, mem, saved, followed, room, reach, muted, talk, req, challenge>>

\* A restart leaves the rows.
HubRestart ==
    /\ HubServe
    /\ conn' = [c \in ConnIds |-> IF conn[c] = NoConn THEN NoConn ELSE [conn[c] EXCEPT !.phase = "gone"]]
    /\ mem' = [u \in Users |-> NoState]
    /\ room' = [r \in Rooms |-> NoRoom]
    /\ reach' = [c \in ConnIds |-> {}] /\ muted' = {}
    /\ talk' = [c \in ConnIds |-> Quiet]
    /\ req' = [q \in Reqs |-> IdleReq]
    /\ challenge' = [state |-> "none", admitted |-> 0]
    /\ UNCHANGED <<heard, saved, followed, enabled>>

SocketStep(c) == EndSocket(c) \/ FrameSnapshot(c) \/ FrameSave(c) \/ KeepMessage(c) \/ FanOut(c)

HubNext ==
    \/ \E q \in Reqs, u \in Users :
         \/ SessionConnect(q, u) \/ GatewayConnect(q, u, Personal)
         \/ \E r \in Rooms : \/ GatewayConnect(q, u, r) \/ RoomConnect(q, u, r)
                             \/ FollowRequest(q, u, r) \/ UnfollowRequest(q, u, r)
    \/ \E q \in Reqs : \/ Hydrate(q) \/ HydrateUser(q) \/ RefuseConnect(q) \/ Upgrade(q)
                       \/ ChangeState(q) \/ TakeSnapshot(q) \/ SaveSnapshot(q)
                       \/ \E c \in ConnIds : Register(q, c) \/ ForceDisconnect(q, c)
                       \/ \E u \in Users, r \in Rooms : ConsumeChallenge(q, u, r)
    \/ \E c \in ConnIds : \/ SocketStep(c) \/ StampMessage(c)
                          \/ \E r \in Rooms, kind \in Changes : FollowFrame(c, kind, r)
    \/ IssueChallenge \/ ExpireChallenge \/ SetFeature \/ HubRestart

HubSpec == HubInit /\ [][HubNext]_hubVars /\ \A c \in ConnIds : WF_hubVars(SocketStep(c))
-----------------------------------------------------------------------------
(* Properties                                                                *)

\* What a connection last heard of a user's presence is true: online if the user has a
\* connection, offline if not, although both come from whoever happens to be first or last.
PresenceIsTruthful ==
    \A c \in ConnIds, u \in Users : Registered(c) =>
        /\ heard[c][u] = "online" => ConnsOf(u) # {}
        /\ heard[c][u] = "offline" => ConnsOf(u) = {}

\* A connected user has a state in memory (register relies on it: expect("user state")), and
\* only the last of several connections takes it away.
StateWhileConnected == \A c \in ConnIds : Registered(c) => mem[conn[c].user].known

\* No message falls between joining and listening: each one in the room's history was
\* there when a member joined (and can be synced), has been sent to it, is about to be,
\* or was suppressed by the flag.
NothingFallsBetween ==
    \A r \in Rooms : \A c \in InRoom(r) : \A i \in DOMAIN room[r].history :
        LET n == room[r].history[i]
        IN  \/ <<r, n>> \in reach[c] \cup muted
            \/ \E d \in ConnIds : conn[d].at = r /\ talk[d].pc = "pushed" /\ talk[d].n = n

\* A challenge lets in at most one connection (consume_challenge).
ChallengeAdmitsOnce == challenge.admitted <= 1

\* Every socket that run_socket drives comes to be unregistered: a credential expires.
SocketsEnd == []<>(\A c \in ConnIds : conn[c].phase # "open")

\* user_sessions.rs:10: the followed set "survives full disconnects and restarts": what is
\* in memory holds everything that the user followed, was saved, and was not given up.
FollowedSetSurvives == \A u \in Users : mem[u].known => followed[u] \subseteq mem[u].follows

\* Who is told of a user's presence may see it; a connection that has not been registered has
\* heard nothing and says nothing; what is said in a room is said from a room.
ConnsFit ==
    \A c \in ConnIds :
        /\ conn[c].phase = "new" => /\ conn[c] = NoConn /\ talk[c] = Quiet
                                   /\ \A u \in Users : heard[c][u] = "unheard"
        /\ \A u \in Users : Registered(c) /\ heard[c][u] # "unheard" =>
               <<conn[c].user, u>> \in Sees /\ conn[c].user # u
        /\ talk[c].pc \in {"stamped", "pushed"} => conn[c].at \in Rooms

\* A request that changes what is followed names a conversation; one on behalf of a user
\* who left only saves; one that upgrades has a connection.
RequestsFit ==
    \A q \in Reqs : req[q] # IdleReq =>
        /\ req[q].kind \in Changes => req[q].at \in Rooms
        /\ req[q].kind = "left" => req[q].pc = "save"
        /\ req[q].pc = "upgrade" \/ (req[q].kind = "session" /\ req[q].pc \in {"persist", "save"})
              => req[q].conn \in ConnIds /\ conn[req[q].conn] # NoConn

\* A challenge that is open has let nobody in.
ChallengeFits == challenge.state # "none" => challenge.admitted = 0

\* Whoever is connected has a state, is seen as such by those who may see it, misses no
\* message of its room, and got in by a challenge of its own.
HubInv ==
    /\ HubTypeOK
    /\ PresenceIsTruthful
    /\ StateWhileConnected
    /\ NothingFallsBetween
    /\ ChallengeAdmitsOnce
    /\ ConnsFit
    /\ RequestsFit
    /\ ChallengeFits
=============================================================================
