------------------------ MODULE ActivityRestoreProofs ------------------------
(***************************************************************************)
(* Proofs about Routing and ActivityRestore, for any number of             *)
(* conversations, teams, labels, requests, restores and faults.            *)
(* Routing's Inv is inductive: what a request has read, and what an audit  *)
(* entry has recorded, is a team and a status that belong together, so     *)
(* writing it back later, in any order, leaves every row consistent.       *)
(* ActivityRestore's UndoInv is inductive, too: a restore that holds a     *)
(* claim works on an entry in progress, nobody else does, and an entry     *)
(* leaves that state only by its holder.                                   *)
(***************************************************************************)
EXTENDS ActivityRestore, TLAPS

-----------------------------------------------------------------------------
(* Routing.                                                                 *)

\* A row's team and status belong together.
Consistent(s) == s.status = "assigned" => s.team # NoTeam

\* What a request carries, by the point it has reached.
LEMMA RequestShape ==
  ASSUME NEW q \in RequestStates
  PROVE  /\ q.pc \in {"team", "apply"} =>
              q \in [pc : {"team", "apply"}, op : RoutingActions, conv : Convs,
                     team : Teams \cup {NoTeam}, seen : Routes]
         /\ q.pc = "update" =>
              q \in [pc : {"update"}, conv : Convs, team : Teams, seen : Routes]
         /\ q.pc = "chunks" =>
              q \in [pc : {"chunks"}, todo : SUBSET Convs, team : Teams,
                     mine : SUBSET Teams]
  BY DEF RequestStates, Idle

\* A routing operation writes a consistent row, with a team unless it is unassign.
LEMMA NewRouteIsConsistent ==
  ASSUME NEW op \in RoutingActions, NEW t \in Teams \cup {NoTeam},
         op = "unassign" <=> t = NoTeam
  PROVE  /\ NewRoute(op, t) \in Routes
         /\ Consistent(NewRoute(op, t))
         /\ NewRoute(op, t).team = NoTeam <=> op = "unassign"
<1>1. CASE op = "assign"
  BY <1>1 DEF NewRoute, Routes, Consistent
<1>2. CASE op = "transfer"
  BY <1>2 DEF NewRoute, Routes, Consistent
<1>3. CASE op = "unassign"
  BY <1>3 DEF NewRoute, Routes, Consistent, Pool
<1> QED BY <1>1, <1>2, <1>3 DEF RoutingActions

\* Bulk assign is for teams.
LEMMA BulkRouteIsConsistent ==
  ASSUME NEW t \in Teams
  PROVE  /\ NewRoute("assign", t) \in Routes
         /\ NewRoute("assign", t).team = t
  BY DEF NewRoute, Routes

\* Nothing has happened yet.
LEMMA InitInv == Init => Inv
<1> SUFFICES ASSUME Init PROVE Inv
  OBVIOUS
<1>1. TypeOK
  <2>1. conv \in [Convs -> Routes]
    BY DEF Init, Routes
  <2>2. log \in Seq(Entries)
    BY DEF Init
  <2> QED BY <2>1, <2>2 DEF Init, TypeOK, RequestStates
<1>2. AssignedHasTeam
  BY DEF Init, AssignedHasTeam
<1>3. SnapshotsAreConsistent
  BY DEF Init, SnapshotsAreConsistent
<1>4. RequestsAreConsistent
  BY DEF Init, RequestsAreConsistent, At, Idle
<1> QED BY <1>1, <1>2, <1>3, <1>4 DEF Inv

\* Beginning a request leaves the rows alone and adds what that request carries.
LEMMA BeginInv ==
  ASSUME Inv, NEW r \in Requests, NEW q \in RequestStates, Begin(r, q),
         UNCHANGED <<conv, gone, log>>,
         q.pc \in {"team", "apply"} =>
           /\ q.seen.status = "assigned" => q.seen.team # NoTeam
           /\ q.op = "unassign" <=> q.team = NoTeam
           /\ q.op = "unassign" => q.seen.team # NoTeam
  PROVE  Inv'
<1>1. TypeOK'
  BY DEF Begin, Inv, TypeOK
<1>2. AssignedHasTeam' /\ SnapshotsAreConsistent'
  BY DEF Inv, AssignedHasTeam, SnapshotsAreConsistent
<1>3. RequestsAreConsistent'
  <2> SUFFICES ASSUME NEW p \in Requests, req'[p].pc \in {"team", "apply"}
               PROVE  /\ req'[p].seen.status = "assigned" => req'[p].seen.team # NoTeam
                      /\ req'[p].op = "unassign" <=> req'[p].team = NoTeam
                      /\ req'[p].op = "unassign" => req'[p].seen.team # NoTeam
    BY DEF RequestsAreConsistent, At
  <2>1. CASE p = r
    BY <2>1 DEF Begin, Inv, TypeOK
  <2>2. CASE p # r
    BY <2>2 DEF Begin, Inv, TypeOK, RequestsAreConsistent, At
  <2> QED BY <2>1, <2>2
<1> QED BY <1>1, <1>2, <1>3 DEF Inv

\* A request that ends can only leave fewer obligations.
LEMMA EndRequests ==
  ASSUME Inv, NEW r \in Requests, End(r)
  PROVE  req' \in [Requests -> RequestStates] /\ RequestsAreConsistent'
<1>1. req' \in [Requests -> RequestStates]
  BY DEF End, Inv, TypeOK, RequestStates
<1>2. RequestsAreConsistent'
  BY DEF End, Inv, TypeOK, RequestsAreConsistent, At, Idle
<1> QED BY <1>1, <1>2

\* The steps of a request preserve the invariant, one per operation.
LEMMA RequestInv ==
  ASSUME Inv, NEW r \in Requests, RequestStep(r)
  PROVE  Inv'
<1> USE RoutingAssumption DEF RoutingAssumption
<1>a. TypeOK /\ AssignedHasTeam /\ SnapshotsAreConsistent /\ RequestsAreConsistent
  BY DEF Inv
<1>1. ASSUME NEW op \in RoutingActions, NEW c \in Convs, NEW t \in Teams \cup {NoTeam},
             BeginRouting(r, op, c, t)
      PROVE  Inv'
  <2> DEFINE q == [pc |-> IF op = "unassign" THEN "apply" ELSE "team", op |-> op,
                   conv |-> c, team |-> t, seen |-> conv[c]]
  <2>1. conv[c] \in Routes
    BY <1>a DEF TypeOK
  <2>2. q \in RequestStates
    BY <2>1 DEF RequestStates
  <2>3. conv[c].status = "assigned" => conv[c].team # NoTeam
    BY <1>a DEF AssignedHasTeam
  <2>4. op = "unassign" => conv[c].team # NoTeam
    BY <1>1 DEF BeginRouting
  <2>5. op = "unassign" <=> t = NoTeam
    BY <1>1 DEF BeginRouting
  <2>6. Begin(r, q) /\ UNCHANGED <<conv, gone, log>>
    BY <1>1 DEF BeginRouting
  <2>7. /\ q.seen.status = "assigned" => q.seen.team # NoTeam
        /\ q.op = "unassign" <=> q.team = NoTeam
        /\ q.op = "unassign" => q.seen.team # NoTeam
    BY <2>3, <2>4, <2>5
  <2> HIDE DEF q
  <2> QED BY <2>2, <2>6, <2>7, BeginInv
<1>2. CASE CheckTeam(r)
  <2>1. req[r] \in [pc : {"team", "apply"}, op : RoutingActions, conv : Convs,
                    team : Teams \cup {NoTeam}, seen : Routes]
    BY <1>2, <1>a, RequestShape DEF CheckTeam, At, TypeOK
  <2>2. [req[r] EXCEPT !.pc = "apply"] \in RequestStates
    BY <2>1 DEF RequestStates
  <2>3. TypeOK'
    BY <1>2, <1>a, <2>2 DEF CheckTeam, TypeOK
  <2>4. RequestsAreConsistent'
    BY <1>2, <1>a, <2>1 DEF CheckTeam, RequestsAreConsistent, At, TypeOK
  <2> QED BY <1>2, <1>a, <2>3, <2>4
          DEF CheckTeam, Inv, AssignedHasTeam, SnapshotsAreConsistent
<1>3. CASE Apply(r)
  <2> DEFINE q == req[r]
  <2>1. q \in [pc : {"team", "apply"}, op : RoutingActions, conv : Convs,
               team : Teams \cup {NoTeam}, seen : Routes]
    BY <1>3, <1>a, RequestShape DEF Apply, At, TypeOK
  <2>2. /\ q.seen.status = "assigned" => q.seen.team # NoTeam
        /\ q.op = "unassign" <=> q.team = NoTeam
    BY <1>3, <1>a DEF Apply, RequestsAreConsistent
  <2>3. /\ NewRoute(q.op, q.team) \in Routes
        /\ Consistent(NewRoute(q.op, q.team))
    BY <2>1, <2>2, NewRouteIsConsistent
  <2>4. RoutingEntry(q) \in Entries
    BY <2>1, <2>3 DEF RoutingEntry, Entries
  <2>5. log' = Append(log, RoutingEntry(q)) /\ log \in Seq(Entries)
    BY <1>3, <1>a DEF Apply, TypeOK
  <2>6. TypeOK'
    <3>1. conv' \in [Convs -> Routes]
      BY <1>3, <1>a, <2>1, <2>3 DEF Apply, TypeOK
    <3>2. log' \in Seq(Entries)
      BY <2>4, <2>5
    <3>3. req' \in [Requests -> RequestStates]
      BY <1>3, EndRequests DEF Apply
    <3> QED BY <1>3, <1>a, <3>1, <3>2, <3>3 DEF Apply, TypeOK
  <2>7. AssignedHasTeam'
    BY <1>3, <1>a, <2>1, <2>3 DEF Apply, TypeOK, AssignedHasTeam, Consistent
  <2>8. SnapshotsAreConsistent'
    <3> SUFFICES ASSUME NEW e \in DOMAIN log'
                 PROVE  Consistent(log'[e].old) /\ Consistent(log'[e].new)
      BY DEF SnapshotsAreConsistent, Consistent
    <3>1. CASE e \in DOMAIN log
      BY <3>1, <2>4, <2>5, <1>a DEF SnapshotsAreConsistent, Consistent
    <3>2. CASE e \notin DOMAIN log
      <4>1. log'[e] = RoutingEntry(q)
        BY <3>2, <2>4, <2>5
      <4> QED BY <4>1, <2>2, <2>3 DEF RoutingEntry, Consistent
    <3> QED BY <3>1, <3>2
  <2> QED BY <1>3, <2>6, <2>7, <2>8, EndRequests DEF Apply, Inv
<1>4. ASSUME NEW ids \in SUBSET Convs, NEW t \in Teams, NEW mine \in SUBSET Teams,
             BeginBulk(r, ids, t, mine)
      PROVE  Inv'
  <2> DEFINE q == [pc |-> "chunks", todo |-> ids, team |-> t, mine |-> mine]
  <2>1. q \in RequestStates /\ q.pc \notin {"team", "apply"}
    BY DEF RequestStates
  <2>2. Begin(r, q) /\ UNCHANGED <<conv, gone, log>>
    BY <1>4 DEF BeginBulk
  <2> HIDE DEF q
  <2> QED BY <2>1, <2>2, BeginInv
<1>5. CASE BulkChunk(r)
  <2>1. req[r] \in [pc : {"chunks"}, todo : SUBSET Convs, team : Teams,
                    mine : SUBSET Teams]
    BY <1>5, <1>a, RequestShape DEF BulkChunk, At, TypeOK
  <2>2. PICK chunk \in SUBSET req[r].todo :
          /\ conv' = [c \in Convs |-> IF c \in chunk
                                      THEN NewRoute("assign", req[r].team)
                                      ELSE conv[c]]
          /\ IF chunk = req[r].todo
             THEN End(r)
             ELSE req' = [req EXCEPT ![r].todo = @ \ chunk]
    BY <1>5 DEF BulkChunk
  <2>3. /\ NewRoute("assign", req[r].team) \in Routes
        /\ NewRoute("assign", req[r].team).team \in Teams
    BY <2>1, BulkRouteIsConsistent
  <2>4. conv' \in [Convs -> Routes]
    BY <2>2, <2>3, <1>a DEF TypeOK
  <2>5. AssignedHasTeam'
    BY <2>2, <2>3, <1>a DEF AssignedHasTeam, TypeOK
  <2>6. req' \in [Requests -> RequestStates] /\ RequestsAreConsistent'
    <3>1. CASE chunk = req[r].todo
      BY <2>2, <3>1, EndRequests
    <3>2. CASE chunk # req[r].todo
      <4>1. req' = [req EXCEPT ![r] = [req[r] EXCEPT !.todo = req[r].todo \ chunk]]
        BY <2>2, <3>2
      <4>2. [req[r] EXCEPT !.todo = req[r].todo \ chunk] \in RequestStates
        BY <2>1 DEF RequestStates
      <4>3. [req[r] EXCEPT !.todo = req[r].todo \ chunk].pc = "chunks"
        BY <2>1
      <4> QED BY <4>1, <4>2, <4>3, <1>a DEF TypeOK, RequestsAreConsistent, At
    <3> QED BY <3>1, <3>2
  <2> QED BY <1>5, <1>a, <2>4, <2>5, <2>6
          DEF BulkChunk, Inv, TypeOK, SnapshotsAreConsistent
<1>6. ASSUME NEW c \in Convs, NEW t \in Teams, BeginBackfill(r, c, t) \/ BeginScan(r, c, t)
      PROVE  Inv'
  <2> DEFINE q == [pc |-> "update", conv |-> c, team |-> t, seen |-> conv[c]]
  <2>1. q \in RequestStates /\ q.pc \notin {"team", "apply"}
    BY <1>a DEF RequestStates, TypeOK
  <2>2. Begin(r, q) /\ UNCHANGED <<conv, gone, log>>
    BY <1>6 DEF BeginBackfill, BeginScan
  <2> HIDE DEF q
  <2> QED BY <2>1, <2>2, BeginInv
<1>7. CASE UpdateTeam(r)
  <2>1. req[r] \in [pc : {"update"}, conv : Convs, team : Teams, seen : Routes]
    BY <1>7, <1>a, RequestShape DEF UpdateTeam, At, TypeOK
  <2>2. conv' = [conv EXCEPT ![req[r].conv] = [conv[req[r].conv] EXCEPT !.team = req[r].team]]
    BY <1>7 DEF UpdateTeam, NewTeam
  <2>3. conv' \in [Convs -> Routes]
    BY <2>1, <2>2, <1>a DEF TypeOK, Routes
  <2>4. AssignedHasTeam'
    <3> SUFFICES ASSUME NEW c \in Convs, conv'[c].status = "assigned"
                 PROVE  conv'[c].team # NoTeam
      BY DEF AssignedHasTeam
    <3>1. CASE c = req[r].conv
      BY <3>1, <2>1, <2>2, <1>a DEF TypeOK, Routes
    <3>2. CASE c # req[r].conv
      BY <3>2, <2>1, <2>2, <1>a DEF TypeOK, AssignedHasTeam
    <3> QED BY <3>1, <3>2
  <2> QED BY <1>7, <1>a, <2>3, <2>4, EndRequests
          DEF UpdateTeam, Inv, TypeOK, SnapshotsAreConsistent
<1>8. CASE Abandon(r)
  BY <1>8, <1>a, EndRequests
     DEF Abandon, Inv, TypeOK, AssignedHasTeam, SnapshotsAreConsistent
<1> QED BY <1>1, <1>2, <1>3, <1>4, <1>5, <1>6, <1>7, <1>8 DEF RequestStep

\* Every step preserves the invariant.
LEMMA StepInv == Inv /\ [Next]_vars => Inv'
<1> SUFFICES ASSUME Inv, [Next]_vars PROVE Inv'
  OBVIOUS
<1>1. ASSUME NEW t \in Teams, DeleteTeam(t) PROVE Inv'
  BY <1>1 DEF DeleteTeam, Inv, TypeOK, AssignedHasTeam, SnapshotsAreConsistent,
              RequestsAreConsistent, At
<1>2. CASE UNCHANGED vars
  BY <1>2 DEF vars, Inv, TypeOK, AssignedHasTeam, SnapshotsAreConsistent,
              RequestsAreConsistent, At
<1> QED BY <1>1, <1>2, RequestInv DEF Next

\* The invariant holds in every reachable state.
THEOREM InvHolds == Spec => []Inv
<1> QED BY InitInv, StepInv, PTL DEF Spec

\* Routing never leaves a conversation 'assigned' without a team, whatever rows its
\* writers had read when they started.
THEOREM AssignedHasTeamHolds == Spec => []AssignedHasTeam
<1>1. Inv => AssignedHasTeam
  BY DEF Inv
<1> QED BY <1>1, InvHolds, PTL

\* Every snapshot in the audit trail can be written back.
THEOREM SnapshotsAreConsistentHolds == Spec => []SnapshotsAreConsistent
<1>1. Inv => SnapshotsAreConsistent
  BY DEF Inv
<1> QED BY <1>1, InvHolds, PTL

\* A step that gives a conversation back to the pool is the transaction of an unassign.
LEMMA ReleaseStep ==
  ASSUME Inv, [Next]_vars, NEW c \in Convs,
         conv[c].team # NoTeam, conv'[c].team = NoTeam
  PROVE  /\ Len(log') = Len(log) + 1
         /\ log'[Len(log')].action = "unassign"
         /\ log'[Len(log')].on = c
         /\ log'[Len(log')].old.team # NoTeam
<1> USE RoutingAssumption DEF RoutingAssumption
<1>a. TypeOK /\ RequestsAreConsistent
  BY DEF Inv
<1>1. PICK r \in Requests : Apply(r) \/ BulkChunk(r) \/ UpdateTeam(r)
  BY DEF Next, vars, RequestStep, BeginRouting, CheckTeam, BeginBulk, BeginBackfill,
         BeginScan, Abandon, DeleteTeam
<1>2. CASE Apply(r)
  <2> DEFINE q == req[r]
  <2>1. q \in [pc : {"team", "apply"}, op : RoutingActions, conv : Convs,
               team : Teams \cup {NoTeam}, seen : Routes]
    BY <1>2, <1>a, RequestShape DEF Apply, At, TypeOK
  <2>2. /\ q.op = "unassign" <=> q.team = NoTeam
        /\ q.op = "unassign" => q.seen.team # NoTeam
    BY <1>2, <1>a DEF Apply, RequestsAreConsistent
  <2>3. c = q.conv
    BY <1>2, <1>a, <2>1 DEF Apply, TypeOK
  <2>4. NewRoute(q.op, q.team).team = NoTeam
    BY <1>2, <1>a, <2>1, <2>3 DEF Apply, TypeOK
  <2>5. q.op = "unassign"
    BY <2>1, <2>2, <2>4, NewRouteIsConsistent
  <2>6. log' = Append(log, RoutingEntry(q)) /\ log \in Seq(Entries)
    BY <1>2, <1>a DEF Apply, TypeOK
  <2>7. Len(log') = Len(log) + 1 /\ log'[Len(log')] = RoutingEntry(q)
    BY <2>6
  <2> QED BY <2>2, <2>3, <2>5, <2>7 DEF RoutingEntry
<1>3. CASE BulkChunk(r)
  <2>1. req[r].team \in Teams
    BY <1>3, <1>a, RequestShape DEF BulkChunk, At, TypeOK
  <2>2. conv'[c] = conv[c] \/ conv'[c] = NewRoute("assign", req[r].team)
    BY <1>3 DEF BulkChunk
  <2> QED BY <2>1, <2>2, BulkRouteIsConsistent
<1>4. CASE UpdateTeam(r)
  <2>1. req[r] \in [pc : {"update"}, conv : Convs, team : Teams, seen : Routes]
    BY <1>4, <1>a, RequestShape DEF UpdateTeam, At, TypeOK
  <2>2. conv' = [conv EXCEPT ![req[r].conv] = [conv[req[r].conv] EXCEPT !.team = req[r].team]]
    BY <1>4 DEF UpdateTeam, NewTeam
  <2>3. conv'[c].team \in {conv[c].team, req[r].team}
    BY <2>1, <2>2, <1>a DEF TypeOK, Routes
  <2> QED BY <2>1, <2>3
<1> QED BY <1>1, <1>2, <1>3, <1>4

\* A conversation returns to the shared pool only on the record.
THEOREM ReleasedOnTheRecordHolds == Spec => ReleasedOnTheRecord
<1>1. Inv /\ [Next]_vars =>
        [\A c \in Convs :
           conv[c].team # NoTeam /\ conv'[c].team = NoTeam =>
             /\ Len(log') = Len(log) + 1
             /\ log'[Len(log')].action = "unassign"
             /\ log'[Len(log')].on = c
             /\ log'[Len(log')].old.team # NoTeam]_vars
  BY ReleaseStep
<1> QED BY <1>1, InvHolds, PTL DEF Spec, ReleasedOnTheRecord

-----------------------------------------------------------------------------
(* The restore of activities.                                               *)

\* What the invariant says of the audit trail, and of who works on it.
TrailInv == log \in Seq(Entries) /\ SnapshotsAreConsistent /\ EntriesAreTyped /\ RestoredOnce
ClaimInv == job \in [Restorers -> JobStates] /\ JobsHoldTheirClaims /\ SingleRestorer

\* What it says of the rows and of the routing requests, and of the clock and the bounds.
RowInv ==
  /\ conv \in [Convs -> Routes] /\ AssignedHasTeam
  /\ gone \in SUBSET Teams
  /\ req \in [Requests -> RequestStates] /\ RequestsAreConsistent
CountInv == begun \in Nat /\ horizon \in Nat /\ purged \in Nat /\ errors \in Nat /\ drops \in Nat

\* The invariant is these four, and the set of labels.
LEMMA UndoInvParts ==
  UndoInv <=> TrailInv /\ ClaimInv /\ RowInv /\ CountInv /\ linked \in SUBSET Links
  BY DEF UndoInv, UndoTypeOK, TypeOK, Inv, TrailInv, ClaimInv, RowInv, CountInv

LEMMA UndoInvNext ==
  TrailInv' /\ ClaimInv' /\ RowInv' /\ CountInv' /\ linked' \in SUBSET Links => UndoInv'
  BY DEF UndoInv, UndoTypeOK, TypeOK, Inv, TrailInv, ClaimInv, RowInv, CountInv

\* What a job carries, by the point it has reached.
LEMMA JobShape ==
  ASSUME NEW q \in JobStates
  PROVE  /\ q.pc \in {"plan", "claim", "batch", "release"} =>
              q \in [pc : {"plan", "claim", "batch", "release"},
                     entry : Nat, force : BOOLEAN, exists : BOOLEAN]
         /\ q.pc \in {"add", "remove"} =>
              q \in [pc : {"add", "remove"}, link : Links, exists : BOOLEAN]
  BY DEF JobStates, Idle

-----------------------------------------------------------------------------
(* The audit trail                                                           *)

\* t is s with one more element, a.
Grown(S, s, t, a) ==
  /\ t \in Seq(S)
  /\ Len(s) \in Nat
  /\ DOMAIN s = 1..Len(s)
  /\ DOMAIN t = 1..(Len(s) + 1)
  /\ t[Len(s) + 1] = a
  /\ \A i \in DOMAIN s : t[i] = s[i]

\* Append keeps what is there and adds one element.
LEMMA AppendGrows ==
  ASSUME NEW S, NEW s \in Seq(S), NEW a \in S
  PROVE  Grown(S, s, Append(s, a), a)
  BY DEF Grown

\* What routing and label requests write into the trail.
Fresh(a) ==
  /\ Consistent(a.old) /\ Consistent(a.new)
  /\ a.action # "restore" /\ a.state = "open"
  /\ a.action \in RoutingActions => a.on \in Convs
  /\ a.action \in {"tag assign", "tag unassign"} => a.on \in Links

\* A new entry of a routing or a label request disturbs no other entry.
LEMMA AppendTrail ==
  ASSUME TrailInv, NEW a \in Entries, Grown(Entries, log, log', a), Fresh(a)
  PROVE  /\ TrailInv'
         /\ DOMAIN log \subseteq DOMAIN log'
         /\ \A e \in DOMAIN log : log'[e] = log[e]
<1> USE DEF TrailInv
<1> DEFINE n == Len(log) + 1
<1>1. /\ log' \in Seq(Entries)
      /\ log'[n] = a
      /\ \A e \in DOMAIN log : log'[e] = log[e]
  BY DEF Grown
<1>2. n \in Nat /\ DOMAIN log = 1..(n - 1) /\ DOMAIN log' = 1..n
  BY DEF Grown
<1> HIDE DEF n
<1>2a. /\ \A e \in DOMAIN log' : e \in DOMAIN log \/ e = n
       /\ DOMAIN log \subseteq DOMAIN log'
  <2>1. \A e \in 1..n : e \in 1..(n - 1) \/ e = n
    BY <1>2
  <2>2. 1..(n - 1) \subseteq 1..n
    BY <1>2
  <2> QED BY <1>2, <2>1, <2>2, Zenon
<1>3. SnapshotsAreConsistent'
  BY <1>1, <1>2a DEF Fresh, SnapshotsAreConsistent, Consistent
<1>4. EntriesAreTyped'
  BY <1>1, <1>2a DEF Fresh, EntriesAreTyped
<1>5. RestoredOnce'
  <2>1. ASSUME NEW i \in DOMAIN log', log'[i].action = "restore"
        PROVE  /\ log'[i].of \in 1..(i - 1)
               /\ log'[log'[i].of].state = "restored"
               /\ log'[log'[i].of].by = i
    <3>1. i \in DOMAIN log /\ log'[i] = log[i]
      BY <1>1, <1>2a, <2>1 DEF Fresh
    <3>2. /\ log[i].of \in 1..(i - 1)
          /\ log[log[i].of].state = "restored"
          /\ log[log[i].of].by = i
      BY <3>1, <2>1 DEF RestoredOnce
    <3>3. log[i].of \in DOMAIN log
      <4>1. log[i].of \in 1..(n - 1)
        BY <1>2, <3>1, <3>2
      <4> QED BY <1>2, <4>1, Zenon
    <3> QED BY <1>1, <1>2a, <3>1, <3>2, <3>3
  <2>2. ASSUME NEW e \in DOMAIN log', log'[e].state = "restored"
        PROVE  /\ log'[e].by \in DOMAIN log'
               /\ log'[log'[e].by].action = "restore"
               /\ log'[log'[e].by].of = e
    <3>1. e \in DOMAIN log /\ log'[e] = log[e]
      BY <1>1, <1>2a, <2>2 DEF Fresh
    <3>2. /\ log[e].by \in DOMAIN log
          /\ log[log[e].by].action = "restore"
          /\ log[log[e].by].of = e
      BY <3>1, <2>2 DEF RestoredOnce
    <3> QED BY <1>1, <1>2a, <3>1, <3>2
  <2> QED BY <2>1, <2>2 DEF RestoredOnce
<1> QED BY <1>1, <1>2a, <1>3, <1>4, <1>5

\* Claiming or releasing an entry that is not restored disturbs no link.
LEMMA MarkTrail ==
  ASSUME TrailInv, NEW e \in DOMAIN log, NEW s \in {"open", "in_progress"},
         log' = [log EXCEPT ![e].state = s],
         log[e].action # "restore", log[e].state # "restored"
  PROVE  /\ TrailInv'
         /\ DOMAIN log' = DOMAIN log
         /\ \A i \in DOMAIN log : i # e => log'[i] = log[i]
         /\ log'[e] = [log[e] EXCEPT !.state = s]
<1> USE DEF TrailInv
<1>1. /\ log' \in Seq(Entries)
      /\ DOMAIN log' = DOMAIN log
      /\ \A i \in DOMAIN log : i # e => log'[i] = log[i]
      /\ log'[e] = [log[e] EXCEPT !.state = s]
      /\ log[e] \in Entries
  <2>1. log[e] \in Entries
    OBVIOUS
  <2>2. [log[e] EXCEPT !.state = s] \in Entries
    BY <2>1 DEF Entries
  <2>3. log' = [log EXCEPT ![e] = [log[e] EXCEPT !.state = s]]
    OBVIOUS
  <2> QED BY <2>1, <2>2, <2>3
<1>2. \A i \in DOMAIN log :
        /\ log'[i].action = log[i].action /\ log'[i].on = log[i].on
        /\ log'[i].old = log[i].old /\ log'[i].new = log[i].new
        /\ log'[i].of = log[i].of /\ log'[i].by = log[i].by
        /\ log'[i].state = IF i = e THEN s ELSE log[i].state
  BY <1>1 DEF Entries
<1>3. SnapshotsAreConsistent'
  BY <1>1, <1>2 DEF SnapshotsAreConsistent
<1>3a. EntriesAreTyped'
  BY <1>1, <1>2 DEF EntriesAreTyped
<1>4. RestoredOnce'
  <2>1. ASSUME NEW i \in DOMAIN log', log'[i].action = "restore"
        PROVE  /\ log'[i].of \in 1..(i - 1)
               /\ log'[log'[i].of].state = "restored"
               /\ log'[log'[i].of].by = i
    <3>1. /\ log[i].of \in 1..(i - 1)
          /\ log[log[i].of].state = "restored"
          /\ log[log[i].of].by = i
      BY <1>1, <1>2, <2>1 DEF RestoredOnce
    <3>2. log[i].of \in DOMAIN log /\ log[i].of # e
      <4>1. DOMAIN log = 1..Len(log) /\ Len(log) \in Nat
        OBVIOUS
      <4> QED BY <1>1, <2>1, <3>1, <4>1
    <3> QED BY <1>1, <1>2, <2>1, <3>1, <3>2
  <2>2. ASSUME NEW i \in DOMAIN log', log'[i].state = "restored"
        PROVE  /\ log'[i].by \in DOMAIN log'
               /\ log'[log'[i].by].action = "restore"
               /\ log'[log'[i].by].of = i
    BY <1>1, <1>2, <2>2 DEF RestoredOnce
  <2> QED BY <2>1, <2>2 DEF RestoredOnce
<1> QED BY <1>1, <1>3, <1>3a, <1>4

\* The commit of a restore links an entry in progress with the new entry.
LEMMA CommitTrail ==
  ASSUME TrailInv, NEW e \in DOMAIN log,
         log[e].action # "restore", log[e].state = "in_progress",
         Grown(Entries,
               [log EXCEPT ![e] = [log[e] EXCEPT !.state = "restored", !.by = Len(log) + 1]],
               log', RestoreEntry(e))
  PROVE  /\ TrailInv'
         /\ DOMAIN log \subseteq DOMAIN log'
         /\ \A i \in DOMAIN log : i # e => log'[i] = log[i]
         /\ log'[e] = [log[e] EXCEPT !.state = "restored", !.by = Len(log) + 1]
<1> USE DEF TrailInv
<1> DEFINE n == Len(log) + 1
           marked == [log[e] EXCEPT !.state = "restored", !.by = n]
           rest == [log EXCEPT ![e] = marked]
           new == RestoreEntry(e)
<1>1. /\ log[e] \in Entries /\ n \in Nat /\ DOMAIN log = 1..Len(log) /\ Len(log) \in Nat
      /\ e \in Nat
  OBVIOUS
<1>2. marked \in Entries /\ new \in Entries
  BY <1>1 DEF Entries, RestoreEntry, Routes, Pool
<1>3. /\ marked.action = log[e].action /\ marked.on = log[e].on
      /\ marked.old = log[e].old /\ marked.new = log[e].new /\ marked.of = log[e].of
      /\ marked.by = n /\ marked.state = "restored"
  BY <1>1 DEF Entries
<1>4. Grown(Entries, rest, log', new)
  OBVIOUS
<1>5. rest \in Seq(Entries) /\ Len(rest) = Len(log)
  BY <1>1, <1>2
<1>6. /\ new.action = "restore" /\ new.of = e /\ new.state = "open"
      /\ new.old = Pool /\ new.new = Pool
  BY DEF RestoreEntry
<1> HIDE DEF marked, rest, new
<1>7. /\ log' \in Seq(Entries)
      /\ DOMAIN log' = 1..n
      /\ log'[n] = new
      /\ \A i \in 1..Len(log) : log'[i] = rest[i]
  BY <1>1, <1>4, <1>5 DEF Grown
<1>8. /\ \A i \in DOMAIN log : i # e => log'[i] = log[i]
      /\ log'[e] = marked
  BY <1>1, <1>7 DEF rest
<1>9. \A i \in DOMAIN log' : i \in DOMAIN log \/ i = n
  BY <1>1, <1>7
<1>10. SnapshotsAreConsistent'
  <2> SUFFICES ASSUME NEW i \in DOMAIN log', NEW s \in {log'[i].old, log'[i].new}
               PROVE  s.status = "assigned" => s.team # NoTeam
    BY DEF SnapshotsAreConsistent
  <2>1. CASE i = n
    BY <1>6, <1>7, <2>1 DEF Pool
  <2>2. CASE i = e
    BY <1>3, <1>8, <2>2 DEF SnapshotsAreConsistent
  <2>3. CASE i \in DOMAIN log /\ i # e
    BY <1>8, <2>3 DEF SnapshotsAreConsistent
  <2> QED BY <1>9, <2>1, <2>2, <2>3
<1>11. EntriesAreTyped'
  <2> SUFFICES ASSUME NEW i \in DOMAIN log'
               PROVE  /\ log'[i].action \in RoutingActions => log'[i].on \in Convs
                      /\ log'[i].action \in {"tag assign", "tag unassign"} =>
                           log'[i].on \in Links
                      /\ log'[i].action = "restore" => log'[i].state = "open"
    BY DEF EntriesAreTyped
  <2>1. CASE i = n
    BY <1>6, <1>7, <2>1 DEF RoutingActions
  <2>2. CASE i = e
    BY <1>3, <1>8, <2>2 DEF EntriesAreTyped
  <2>3. CASE i \in DOMAIN log /\ i # e
    BY <1>8, <2>3 DEF EntriesAreTyped
  <2> QED BY <1>9, <2>1, <2>2, <2>3
<1>12. RestoredOnce'
  <2>1. ASSUME NEW i \in DOMAIN log', log'[i].action = "restore"
        PROVE  /\ log'[i].of \in 1..(i - 1)
               /\ log'[log'[i].of].state = "restored"
               /\ log'[log'[i].of].by = i
    <3>1. CASE i = n
      BY <3>1, <1>1, <1>3, <1>6, <1>7, <1>8
    <3>2. CASE i # n
      <4>1. i \in DOMAIN log /\ i # e /\ log'[i] = log[i]
        BY <1>3, <1>8, <1>9, <2>1, <3>2
      <4>2. /\ log[i].of \in 1..(i - 1)
            /\ log[log[i].of].state = "restored"
            /\ log[log[i].of].by = i
        BY <2>1, <4>1 DEF RestoredOnce
      <4>3. log[i].of \in DOMAIN log /\ log[i].of # e
        BY <1>1, <4>1, <4>2
      <4> QED BY <1>8, <4>1, <4>2, <4>3
    <3> QED BY <3>1, <3>2
  <2>2. ASSUME NEW i \in DOMAIN log', log'[i].state = "restored"
        PROVE  /\ log'[i].by \in DOMAIN log'
               /\ log'[log'[i].by].action = "restore"
               /\ log'[log'[i].by].of = i
    <3>1. CASE i = e
      BY <3>1, <1>1, <1>3, <1>6, <1>7, <1>8
    <3>2. CASE i # e
      <4>1. i \in DOMAIN log /\ log'[i] = log[i]
        BY <1>6, <1>7, <1>8, <1>9, <2>2, <3>2
      <4>2. /\ log[i].by \in DOMAIN log
            /\ log[log[i].by].action = "restore"
            /\ log[log[i].by].of = i
        BY <2>2, <4>1 DEF RestoredOnce
      <4>3. log[i].by # e
        BY <4>2
      <4> QED BY <1>1, <1>7, <1>8, <4>1, <4>2, <4>3
    <3> QED BY <3>1, <3>2
  <2> QED BY <2>1, <2>2 DEF RestoredOnce
<1> QED BY <1>1, <1>7, <1>8, <1>10, <1>11, <1>12 DEF marked

-----------------------------------------------------------------------------
(* The claims                                                                *)

\* Entries that stay as they are leave the claims as they are.
LEMMA ClaimsKept ==
  ASSUME ClaimInv, job' = job, DOMAIN log \subseteq DOMAIN log',
         \A e \in DOMAIN log : log'[e] = log[e]
  PROVE  ClaimInv'
<1> USE DEF ClaimInv
<1>1. JobsHoldTheirClaims'
  BY DEF JobsHoldTheirClaims, On, Entry
<1>2. SingleRestorer'
  <2> SUFFICES ASSUME NEW q \in Restorers, NEW r \in Restorers, NEW e \in DOMAIN log',
                      Holds(q, e)', Holds(r, e)'
               PROVE  q = r
    BY DEF SingleRestorer
  <2>1. Holds(q, e) /\ Holds(r, e)
    BY DEF Holds, On
  <2>2. e \in DOMAIN log
    BY <2>1 DEF JobsHoldTheirClaims, Holds, On
  <2> QED BY <2>1, <2>2 DEF SingleRestorer
<1> QED BY <1>1, <1>2

\* A job that changes while the trail does not, or only at the entry of the job, keeps
\* the claims of the others.
LEMMA ClaimsMoved ==
  ASSUME ClaimInv, NEW r \in Restorers, NEW q \in JobStates,
         job' = [job EXCEPT ![r] = q],
         DOMAIN log \subseteq DOMAIN log',
         \A e \in DOMAIN log :
           \/ log'[e] = log[e]
           \/ /\ log'[e].action = log[e].action
              /\ \A p \in Restorers \ {r} : ~Holds(p, e),
         q.pc \in {"plan", "claim", "batch", "release"} =>
           /\ q.entry \in DOMAIN log'
           /\ log'[q.entry].action # "restore",
         q.pc = "batch" => log'[q.entry].state = "in_progress",
         q.pc = "release" => log'[q.entry].state \in {"in_progress", "restored"},
         q.pc \in {"batch", "release"} =>
           \A p \in Restorers \ {r} : ~Holds(p, q.entry)
  PROVE  ClaimInv'
<1> USE DEF ClaimInv
<1>1. /\ job' \in [Restorers -> JobStates]
      /\ job'[r] = q
      /\ \A p \in Restorers \ {r} : job'[p] = job[p]
  OBVIOUS
<1>2. JobsHoldTheirClaims'
  <2> SUFFICES ASSUME NEW p \in Restorers
               PROVE  /\ \A pc \in {"plan", "claim", "batch", "release"} :
                           job'[p].pc = pc =>
                             /\ job'[p].entry \in DOMAIN log'
                             /\ log'[job'[p].entry].action # "restore"
                      /\ job'[p].pc = "batch" =>
                           log'[job'[p].entry].state = "in_progress"
                      /\ job'[p].pc = "release" =>
                           log'[job'[p].entry].state \in {"in_progress", "restored"}
    BY DEF JobsHoldTheirClaims, On, Entry
  <2>1. CASE p = r
    BY <2>1, <1>1
  <2>2. CASE p # r
    <3>1. job'[p] = job[p]
      BY <2>2, <1>1
    <3>2. /\ \A pc \in {"plan", "claim", "batch", "release"} :
               job[p].pc = pc =>
                 /\ job[p].entry \in DOMAIN log
                 /\ log[job[p].entry].action # "restore"
          /\ job[p].pc = "batch" => log[job[p].entry].state = "in_progress"
          /\ job[p].pc = "release" =>
               log[job[p].entry].state \in {"in_progress", "restored"}
      BY DEF JobsHoldTheirClaims, On, Entry
    <3>3. job[p].pc \in {"batch", "release"} => Holds(p, job[p].entry)
      BY DEF Holds, On
    <3> QED BY <2>2, <3>1, <3>2, <3>3
  <2> QED BY <2>1, <2>2
<1>3. SingleRestorer'
  <2> SUFFICES ASSUME NEW a \in Restorers, NEW b \in Restorers, NEW e \in DOMAIN log',
                      Holds(a, e)', Holds(b, e)', a # b
               PROVE  FALSE
    BY DEF SingleRestorer
  <2>1. \A p \in Restorers \ {r} : Holds(p, e)' => Holds(p, e)
    BY <1>1 DEF Holds, On
  <2>2. CASE a # r /\ b # r
    <3>1. Holds(a, e) /\ Holds(b, e)
      BY <2>1, <2>2
    <3>2. e \in DOMAIN log
      BY <3>1 DEF JobsHoldTheirClaims, Holds, On
    <3> QED BY <3>1, <3>2 DEF SingleRestorer
  <2>3. CASE a = r
    BY <2>1, <2>3, <1>1 DEF Holds, On
  <2>4. CASE b = r
    BY <2>1, <2>4, <1>1 DEF Holds, On
  <2> QED BY <2>2, <2>3, <2>4
<1> QED BY <1>1, <1>2, <1>3

\* Who holds a claim holds it alone.
LEMMA HeldAlone ==
  ASSUME ClaimInv, NEW r \in Restorers, On(r, "batch") \/ On(r, "release")
  PROVE  /\ job[r].entry \in DOMAIN log
         /\ Entry(r).action # "restore"
         /\ \A p \in Restorers \ {r} : ~Holds(p, job[r].entry)
  BY DEF ClaimInv, JobsHoldTheirClaims, SingleRestorer, Holds, On

-----------------------------------------------------------------------------
(* The steps                                                                 *)

\* A step that leaves rows and routing requests alone keeps what holds of them.
LEMMA RowsKept ==
  ASSUME RowInv, UNCHANGED unrouted
  PROVE  RowInv'
  BY DEF RowInv, unrouted, AssignedHasTeam, RequestsAreConsistent, At

\* A trail that does not change keeps what holds of it.
LEMMA TrailKept ==
  ASSUME TrailInv, UNCHANGED log
  PROVE  TrailInv'
  BY DEF TrailInv, SnapshotsAreConsistent, EntriesAreTyped, RestoredOnce

\* A restore or label request that is idle, or at a point without a claim, may begin,
\* end or move on without one, whatever others append meanwhile.
LEMMA UnclaimedMove ==
  ASSUME ClaimInv, NEW r \in Restorers, NEW q \in JobStates,
         job' = [job EXCEPT ![r] = q],
         DOMAIN log \subseteq DOMAIN log', \A e \in DOMAIN log : log'[e] = log[e],
         q.pc \in {"plan", "claim"} => q.entry \in DOMAIN log /\ log[q.entry].action # "restore",
         q.pc \notin {"batch", "release"}
  PROVE  ClaimInv'
  BY ClaimsMoved

\* Idle is a state of a job.
LEMMA IdleJob == Idle \in JobStates /\ Idle.pc \notin {"plan", "claim", "batch", "release"}
  BY DEF Idle, JobStates

\* Nothing has been restored yet.
LEMMA InitUndoInv == UndoInit => UndoInv
<1> SUFFICES ASSUME UndoInit PROVE UndoInv
  OBVIOUS
<1>1. Inv
  BY InitInv DEF UndoInit
<1>2. log = <<>>
  BY DEF UndoInit, Init
<1>3. EntriesAreTyped /\ RestoredOnce
  BY <1>2 DEF EntriesAreTyped, RestoredOnce
<1>4. \A r \in Restorers, pc \in {"plan", "claim", "batch", "release"} : ~On(r, pc)
  BY DEF UndoInit, On, Idle
<1>5. JobsHoldTheirClaims /\ SingleRestorer
  BY <1>4 DEF JobsHoldTheirClaims, SingleRestorer, Holds
<1>6. UndoTypeOK
  BY <1>1, IdleJob DEF UndoInit, UndoTypeOK, Inv
<1> QED BY <1>1, <1>3, <1>5, <1>6 DEF UndoInv

\* The label requests: they begin, and write or leave one entry.
LEMMA LabelInv ==
  ASSUME UndoInv, NEW r \in Restorers,
         \/ \E pc \in {"add", "remove"}, l \in Links : BeginLabel(r, pc, l)
         \/ AddLabel(r)
         \/ RemoveLabel(r)
  PROVE  UndoInv'
<1>a. TrailInv /\ ClaimInv /\ RowInv /\ CountInv /\ linked \in SUBSET Links
  BY UndoInvParts
<1>b. RowInv'
  BY <1>a, RowsKept DEF BeginLabel, AddLabel, RemoveLabel
<1>c. CountInv'
  <2>1. CountInv /\ UNCHANGED <<clock, errors, drops>> /\ (begun' = begun \/ begun' = begun + 1)
    BY <1>a DEF BeginLabel, BeginJob, AddLabel, RemoveLabel
  <2> QED BY <2>1 DEF CountInv, clock
<1>1. ASSUME NEW pc \in {"add", "remove"}, NEW l \in Links, BeginLabel(r, pc, l)
      PROVE  UndoInv'
  <2> DEFINE q == [pc |-> pc, link |-> l, exists |-> l \in linked]
  <2>1. q \in JobStates /\ q.pc \notin {"plan", "claim", "batch", "release"}
    BY DEF JobStates
  <2>2. job' = [job EXCEPT ![r] = q] /\ log' = log /\ linked' = linked
    BY <1>1 DEF BeginLabel, BeginJob
  <2> HIDE DEF q
  <2>3. ClaimInv'
    BY <1>a, <2>1, <2>2, UnclaimedMove
  <2>4. TrailInv'
    BY <1>a, <2>2, TrailKept
  <2> QED BY <1>a, <1>b, <1>c, <2>2, <2>3, <2>4, UndoInvNext
<1>2. ASSUME NEW action \in {"tag assign", "tag unassign"}, job[r].link \in Links,
             log' = Append(log, LabelEntry(action, job[r].link)),
             Finish(r), linked' \in SUBSET Links
      PROVE  UndoInv'
  <2> DEFINE a == LabelEntry(action, job[r].link)
  <2>1. a \in Entries
    BY <1>2 DEF LabelEntry, Entries, Pool, Routes
  <2>2. Fresh(a)
    BY <1>2 DEF LabelEntry, Fresh, Pool, Consistent, RoutingActions
  <2> HIDE DEF a
  <2>3. Grown(Entries, log, log', a)
    BY <1>a, <1>2, <2>1, AppendGrows DEF TrailInv, a
  <2>4. /\ TrailInv'
        /\ DOMAIN log \subseteq DOMAIN log'
        /\ \A e \in DOMAIN log : log'[e] = log[e]
    BY <1>a, <2>1, <2>2, <2>3, AppendTrail
  <2>5. ClaimInv'
    BY <1>a, <1>2, <2>4, IdleJob, UnclaimedMove DEF Finish
  <2> QED BY <1>b, <1>c, <1>2, <2>4, <2>5, UndoInvNext
<1>3. CASE AddLabel(r)
  <2>1. job[r].link \in Links
    <3>1. job[r] \in JobStates /\ job[r].pc = "add"
      BY <1>a, <1>3 DEF AddLabel, On, ClaimInv
    <3> QED BY <3>1, JobShape
  <2>2. linked' \in SUBSET Links
    BY <1>a, <1>3, <2>1 DEF AddLabel
  <2> QED BY <1>2, <1>3, <2>1, <2>2 DEF AddLabel
<1>4. CASE RemoveLabel(r)
  <2>1. job[r].link \in Links
    <3>1. job[r] \in JobStates /\ job[r].pc = "remove"
      BY <1>a, <1>4 DEF RemoveLabel, On, ClaimInv
    <3> QED BY <3>1, JobShape
  <2>2. linked' \in SUBSET Links
    BY <1>a, <1>4 DEF RemoveLabel
  <2>3. CASE job[r].exists
    BY <1>2, <1>4, <2>1, <2>2, <2>3 DEF RemoveLabel
  <2>4. CASE ~job[r].exists
    <3>1. log' = log /\ job' = [job EXCEPT ![r] = Idle]
      BY <1>4, <2>4 DEF RemoveLabel, Finish
    <3>2. ClaimInv'
      BY <1>a, <3>1, IdleJob, UnclaimedMove
    <3>3. TrailInv'
      BY <1>a, <3>1, TrailKept
    <3> QED BY <1>b, <1>c, <2>2, <3>2, <3>3, UndoInvNext
  <2> QED BY <2>3, <2>4
<1> QED BY <1>1, <1>3, <1>4

\* A restore at any point but the commit leaves the rows and the labels alone.
LEMMA RestoreFrame ==
  ASSUME UndoInv, NEW r \in Restorers,
         \/ \E e \in DOMAIN log, force \in BOOLEAN : BeginRestore(r, e, force)
         \/ BuildPlan(r) \/ Claim(r) \/ Rollback(r) \/ Release(r) \/ ReleaseFails(r)
         \/ Leave(r) \/ Drop(r)
  PROVE  RowInv' /\ CountInv' /\ linked' \in SUBSET Links
<1>a. RowInv /\ CountInv /\ linked \in SUBSET Links
  BY UndoInvParts
<1>1. /\ UNCHANGED <<unrouted, linked, clock>>
      /\ begun' \in {begun, begun + 1}
      /\ errors' \in {errors, errors + 1}
      /\ drops' \in {drops, drops + 1}
  BY DEF BeginRestore, BeginJob, BuildPlan, Claim, Rollback, Release, ReleaseFails,
         Leave, Drop, Spent
<1>2. RowInv'
  BY <1>a, <1>1, RowsKept
<1>3. CountInv'
  BY <1>a, <1>1 DEF CountInv, clock
<1> QED BY <1>a, <1>1, <1>2, <1>3

\* A job between load and release carries an entry number and two flags.
LEMMA RestoreJob ==
  ASSUME ClaimInv, NEW r \in Restorers, NEW pc \in {"plan", "claim", "batch", "release"},
         On(r, pc)
  PROVE  /\ job[r] \in [pc : {"plan", "claim", "batch", "release"},
                         entry : Nat, force : BOOLEAN, exists : BOOLEAN]
         /\ job[r].entry \in DOMAIN log
         /\ log[job[r].entry].action # "restore"
<1>1. job[r] \in JobStates /\ job[r].pc = pc
  BY DEF ClaimInv, On
<1>2. job[r].entry \in DOMAIN log /\ log[job[r].entry].action # "restore"
  BY DEF ClaimInv, JobsHoldTheirClaims, Entry
<1> QED BY <1>1, <1>2, JobShape

\* A plan notes whether the label is there.
LEMMA PlannedJob ==
  ASSUME NEW q \in [pc : {"plan", "claim", "batch", "release"},
                    entry : Nat, force : BOOLEAN, exists : BOOLEAN],
         NEW x \in BOOLEAN
  PROVE  /\ [q EXCEPT !.pc = "claim", !.exists = x] \in JobStates
         /\ [q EXCEPT !.pc = "claim", !.exists = x].pc = "claim"
         /\ [q EXCEPT !.pc = "claim", !.exists = x].entry = q.entry
  BY DEF JobStates

\* Before the claim: the entry is loaded, and the plan is built.
LEMMA PlanInv ==
  ASSUME UndoInv, NEW r \in Restorers,
         \/ \E e \in DOMAIN log, force \in BOOLEAN : BeginRestore(r, e, force)
         \/ BuildPlan(r)
         \/ Leave(r)
  PROVE  UndoInv'
<1>a. TrailInv /\ ClaimInv
  BY UndoInvParts
<1>b. RowInv' /\ CountInv' /\ linked' \in SUBSET Links
  BY RestoreFrame
<1>c. UNCHANGED log /\ TrailInv'
  BY <1>a, TrailKept DEF BeginRestore, BuildPlan, Leave
<1>1. ASSUME NEW e \in DOMAIN log, NEW force \in BOOLEAN, BeginRestore(r, e, force)
      PROVE  ClaimInv'
  <2> DEFINE q == [pc |-> "plan", entry |-> e, force |-> force, exists |-> FALSE]
  <2>1. e \in Nat
    BY <1>a DEF TrailInv
  <2>2. q \in JobStates /\ q.pc = "plan" /\ q.entry = e
    BY <2>1 DEF JobStates
  <2>3. log[e].action # "restore" /\ job' = [job EXCEPT ![r] = q]
    BY <1>1 DEF BeginRestore, Restorable, BeginJob
  <2> HIDE DEF q
  <2> QED BY <1>a, <1>c, <2>2, <2>3, UnclaimedMove
<1>2. ASSUME BuildPlan(r) PROVE ClaimInv'
  <2> DEFINE x == Entry(r).on \in linked
             q == [job[r] EXCEPT !.pc = "claim", !.exists = x]
  <2>1. /\ job[r] \in [pc : {"plan", "claim", "batch", "release"},
                        entry : Nat, force : BOOLEAN, exists : BOOLEAN]
        /\ job[r].entry \in DOMAIN log
        /\ log[job[r].entry].action # "restore"
    BY <1>a, <1>2, RestoreJob DEF BuildPlan
  <2>2. q \in JobStates /\ q.pc = "claim" /\ q.entry = job[r].entry
    <3>1. x \in BOOLEAN
      OBVIOUS
    <3> HIDE DEF x
    <3> QED BY <2>1, <3>1, PlannedJob
  <2>3. job' = [job EXCEPT ![r] = q]
    BY <1>2 DEF BuildPlan
  <2> HIDE DEF q
  <2>4. DOMAIN log \subseteq DOMAIN log' /\ \A i \in DOMAIN log : log'[i] = log[i]
    BY <1>c
  <2> QED BY <1>a, <2>1, <2>2, <2>3, <2>4, UnclaimedMove
<1>3. ASSUME Leave(r) PROVE ClaimInv'
  <2>1. job' = [job EXCEPT ![r] = Idle]
    BY <1>3 DEF Leave, Finish
  <2>2. DOMAIN log \subseteq DOMAIN log' /\ \A i \in DOMAIN log : log'[i] = log[i]
    BY <1>c
  <2> QED BY <1>a, <2>1, <2>2, IdleJob, UnclaimedMove
<1> QED BY <1>b, <1>c, <1>1, <1>2, <1>3, UndoInvNext

\* The claim: nobody holds an open entry, so nobody loses it.
LEMMA ClaimStepInv ==
  ASSUME UndoInv, NEW r \in Restorers, Claim(r)
  PROVE  UndoInv'
<1>a. TrailInv /\ ClaimInv
  BY UndoInvParts
<1>b. RowInv' /\ CountInv' /\ linked' \in SUBSET Links
  BY RestoreFrame
<1> DEFINE e == job[r].entry
           q == [job[r] EXCEPT !.pc = "batch"]
<1>1. /\ job[r] \in [pc : {"plan", "claim", "batch", "release"},
                      entry : Nat, force : BOOLEAN, exists : BOOLEAN]
      /\ e \in DOMAIN log
      /\ log[e].action # "restore"
  BY <1>a, RestoreJob DEF Claim
<1>2. q \in JobStates /\ q.pc = "batch" /\ q.entry = e
  BY <1>1 DEF JobStates
<1>3. /\ log[e].state = "open"
      /\ log' = [log EXCEPT ![e].state = "in_progress"]
      /\ job' = [job EXCEPT ![r] = q]
  BY DEF Claim, Claimable, Proceed
<1> HIDE DEF e, q
<1>4. /\ TrailInv'
      /\ DOMAIN log' = DOMAIN log
      /\ \A i \in DOMAIN log : i # e => log'[i] = log[i]
      /\ log'[e] = [log[e] EXCEPT !.state = "in_progress"]
  BY <1>a, <1>1, <1>3, MarkTrail
<1>5. log'[e].action = log[e].action /\ log'[e].state = "in_progress"
  <2>1. log[e] \in Entries
    BY <1>a, <1>1 DEF TrailInv
  <2> QED BY <1>4, <2>1 DEF Entries
<1>6. \A p \in Restorers \ {r} : ~Holds(p, e)
  BY <1>a, <1>3 DEF ClaimInv, JobsHoldTheirClaims, Holds, On, Entry
<1>7. ClaimInv'
  <2>1. \A i \in DOMAIN log :
          \/ log'[i] = log[i]
          \/ /\ log'[i].action = log[i].action
             /\ \A p \in Restorers \ {r} : ~Holds(p, i)
    BY <1>4, <1>5, <1>6
  <2> QED BY <1>a, <1>1, <1>2, <1>3, <1>4, <1>5, <1>6, <2>1, ClaimsMoved
<1> QED BY <1>b, <1>4, <1>7, UndoInvNext

\* The commit: the row goes back to a snapshot, which is consistent, and the entry is
\* linked with the entry of the restore.
LEMMA CommitStepInv ==
  ASSUME UndoInv, NEW r \in Restorers, Commit(r)
  PROVE  UndoInv'
<1>a. TrailInv /\ ClaimInv /\ RowInv /\ CountInv /\ linked \in SUBSET Links
  BY UndoInvParts
<1> DEFINE e == job[r].entry
           a == log[e]
           marked == [log[e] EXCEPT !.state = "restored", !.by = Len(log) + 1]
<1>1. /\ job[r] \in [pc : {"plan", "claim", "batch", "release"},
                      entry : Nat, force : BOOLEAN, exists : BOOLEAN]
      /\ e \in DOMAIN log
      /\ a.action # "restore"
  BY <1>a, RestoreJob DEF Commit
<1>2. a \in Entries /\ Len(log) \in Nat /\ log \in Seq(Entries) /\ e \in Nat
  BY <1>a, <1>1 DEF TrailInv
<1>3. /\ a.state = "in_progress"
      /\ \A p \in Restorers \ {r} : ~Holds(p, e)
  BY <1>a, HeldAlone DEF Commit, Applicable
<1>4. CountInv'
  <2>1. CountInv /\ UNCHANGED <<begun, clock, drops>> /\ errors' \in {errors, errors + 1}
    BY <1>a DEF Commit, Spent
  <2> QED BY <2>1 DEF CountInv, clock
<1>5. linked' \in SUBSET Links
  <2>1. linked' = Relinked(a, job[r].exists)
    BY DEF Commit
  <2>2. a.action \in {"tag assign", "tag unassign"} => a.on \in Links
    BY <1>a, <1>1 DEF TrailInv, EntriesAreTyped
  <2> QED BY <1>a, <2>1, <2>2 DEF Relinked
<1>6. RowInv'
  <2>1. conv' = Reverted(a) /\ UNCHANGED <<gone, req>>
    BY DEF Commit
  <2>2. a.action \in RoutingActions => a.on \in Convs
    BY <1>a, <1>1 DEF TrailInv, EntriesAreTyped
  <2>3. a.old \in Routes /\ (a.old.status = "assigned" => a.old.team # NoTeam)
    BY <1>a, <1>1, <1>2 DEF TrailInv, SnapshotsAreConsistent, Entries
  <2>4. conv' \in [Convs -> Routes] /\ AssignedHasTeam'
    <3> HIDE DEF a
    <3>1. CASE a.action \in RoutingActions
      <4>1. conv' = [conv EXCEPT ![a.on] = a.old]
        BY <2>1, <3>1 DEF Reverted
      <4> QED BY <1>a, <2>2, <2>3, <3>1, <4>1 DEF RowInv, AssignedHasTeam
    <3>2. CASE a.action \notin RoutingActions
      BY <1>a, <2>1, <3>2 DEF Reverted, RowInv, AssignedHasTeam
    <3> QED BY <3>1, <3>2
  <2> QED BY <1>a, <2>1, <2>4 DEF RowInv, RequestsAreConsistent, At
<1>7. Grown(Entries, [log EXCEPT ![e] = marked], log', RestoreEntry(e))
  <2>1. marked \in Entries /\ RestoreEntry(e) \in Entries
    <3>1. log[e] \in Entries /\ e \in Nat /\ Len(log) + 1 \in Nat
      BY <1>2
    <3> HIDE DEF e
    <3>2. marked \in Entries
      BY <3>1 DEF Entries
    <3>3. RestoreEntry(e) \in Entries
      BY <3>1 DEF Entries, RestoreEntry, Routes, Pool
    <3> QED BY <3>2, <3>3
  <2>2. [log EXCEPT ![e] = marked] \in Seq(Entries)
    BY <1>1, <1>2, <2>1
  <2>3. log' = Append([log EXCEPT ![e] = marked], RestoreEntry(e))
    BY <1>1, <1>2 DEF Commit
  <2> QED BY <2>1, <2>2, <2>3, AppendGrows
<1>8. /\ TrailInv'
      /\ DOMAIN log \subseteq DOMAIN log'
      /\ \A i \in DOMAIN log : i # e => log'[i] = log[i]
      /\ log'[e] = marked
  BY <1>a, <1>1, <1>3, <1>7, CommitTrail
<1>9. log'[e].action = a.action /\ log'[e].state = "restored"
  BY <1>2, <1>8 DEF Entries
<1>10. \A i \in DOMAIN log :
         \/ log'[i] = log[i]
         \/ /\ log'[i].action = log[i].action
            /\ \A p \in Restorers \ {r} : ~Holds(p, i)
  BY <1>3, <1>8, <1>9
<1>11. ClaimInv'
  <2>1. CASE Finish(r)
    <3>1. job' = [job EXCEPT ![r] = Idle]
      BY <2>1 DEF Finish
    <3> HIDE DEF e, a, marked
    <3> QED BY <1>a, <1>8, <1>10, <3>1, IdleJob, ClaimsMoved
  <2>2. CASE Proceed(r, "release")
    <3> DEFINE q == [job[r] EXCEPT !.pc = "release"]
    <3>1. q \in JobStates /\ q.pc = "release" /\ q.entry = e
      BY <1>1 DEF JobStates
    <3>2. job' = [job EXCEPT ![r] = q]
      BY <2>2 DEF Proceed
    <3> HIDE DEF e, a, marked, q
    <3>3. e \in DOMAIN log' /\ log'[e].action # "restore"
      BY <1>1, <1>8, <1>9 DEF a
    <3> QED BY <1>a, <1>3, <1>8, <1>9, <1>10, <3>1, <3>2, <3>3, ClaimsMoved
  <2> QED BY <2>1, <2>2 DEF Commit
<1> QED BY <1>4, <1>5, <1>6, <1>8, <1>11, UndoInvNext

\* After a failure: the claim is given up by its holder, unless its own commit has
\* restored the entry; a restore that vanishes leaves the entry as it is.
LEMMA GiveUpInv ==
  ASSUME UndoInv, NEW r \in Restorers,
         Rollback(r) \/ Release(r) \/ ReleaseFails(r) \/ Drop(r)
  PROVE  UndoInv'
<1>a. TrailInv /\ ClaimInv
  BY UndoInvParts
<1>b. RowInv' /\ CountInv' /\ linked' \in SUBSET Links
  BY RestoreFrame
<1> DEFINE e == job[r].entry
<1>1. /\ job[r] \in [pc : {"plan", "claim", "batch", "release"},
                      entry : Nat, force : BOOLEAN, exists : BOOLEAN]
      /\ e \in DOMAIN log
      /\ log[e].action # "restore"
  BY <1>a, RestoreJob DEF Rollback, Release, ReleaseFails, Drop
<1>2. \A p \in Restorers \ {r} : ~Holds(p, e)
  BY <1>a, HeldAlone DEF Rollback, Release, ReleaseFails, Drop
<1>3. CASE Rollback(r)
  <2> DEFINE q == [job[r] EXCEPT !.pc = "release"]
  <2>1. q \in JobStates /\ q.pc = "release" /\ q.entry = e
    BY <1>1 DEF JobStates
  <2>2. job' = [job EXCEPT ![r] = q] /\ log' = log
    BY <1>3 DEF Rollback, Proceed
  <2>3. log[e].state = "in_progress"
    BY <1>a, <1>3 DEF Rollback, ClaimInv, JobsHoldTheirClaims, Entry
  <2> HIDE DEF e, q
  <2>4. TrailInv'
    BY <1>a, <2>2, TrailKept
  <2>5. ClaimInv'
    BY <1>a, <1>1, <1>2, <2>1, <2>2, <2>3, ClaimsMoved
  <2> QED BY <1>b, <2>4, <2>5, UndoInvNext
<1>4. ASSUME job' = [job EXCEPT ![r] = Idle], log' = log
      PROVE  UndoInv'
  <2>1. TrailInv' /\ ClaimInv'
    BY <1>a, <1>4, TrailKept, IdleJob, UnclaimedMove
  <2> QED BY <1>b, <2>1, UndoInvNext
<1>5. CASE ReleaseFails(r) \/ Drop(r)
  BY <1>4, <1>5 DEF ReleaseFails, Drop, Finish
<1>6. CASE Release(r)
  <2>1. job' = [job EXCEPT ![r] = Idle]
    BY <1>6 DEF Release, Finish
  <2>2. CASE ~Releasable(e)
    <3>1. log' = log
      BY <1>6, <2>2 DEF Release
    <3> QED BY <1>4, <2>1, <3>1
  <2>3. CASE Releasable(e)
    <3>1. log' = [log EXCEPT ![e].state = "open"]
      BY <1>6, <2>3 DEF Release
    <3>2. log[e].state # "restored" /\ log[e] \in Entries
      BY <1>a, <1>1, <2>3 DEF Releasable, TrailInv
    <3> HIDE DEF e
    <3>3. /\ TrailInv'
          /\ DOMAIN log' = DOMAIN log
          /\ \A i \in DOMAIN log : i # e => log'[i] = log[i]
          /\ log'[e] = [log[e] EXCEPT !.state = "open"]
      BY <1>a, <1>1, <3>1, <3>2, MarkTrail
    <3>4. log'[e].action = log[e].action
      BY <3>2, <3>3 DEF Entries
    <3>5. \A i \in DOMAIN log :
            \/ log'[i] = log[i]
            \/ /\ log'[i].action = log[i].action
               /\ \A p \in Restorers \ {r} : ~Holds(p, i)
      BY <1>2, <3>3, <3>4
    <3>6. ClaimInv'
      BY <1>a, <2>1, <3>3, <3>5, IdleJob, ClaimsMoved
    <3> QED BY <1>b, <3>3, <3>6, UndoInvNext
  <2> QED BY <2>2, <2>3
<1> QED BY <1>3, <1>5, <1>6

\* What routing requests write into the trail while a restore is on its way.
LEMMA RoutingInv ==
  ASSUME UndoInv, Next, UNCHANGED undoVars
  PROVE  UndoInv'
<1>a. TrailInv /\ ClaimInv /\ RowInv /\ CountInv /\ linked \in SUBSET Links /\ Inv
  BY UndoInvParts DEF UndoInv
<1>1. Inv'
  BY <1>a, StepInv
<1>2. RowInv' /\ CountInv' /\ linked' \in SUBSET Links /\ job' = job
  BY <1>a, <1>1 DEF Inv, TypeOK, RowInv, CountInv, undoVars
<1>3. ASSUME NEW r \in Requests, Apply(r)
      PROVE  UndoInv'
  <2> DEFINE q == req[r]
             a == RoutingEntry(q)
  <2>1. q \in [pc : {"team", "apply"}, op : RoutingActions, conv : Convs,
               team : Teams \cup {NoTeam}, seen : Routes]
    BY <1>3, <1>a, RequestShape DEF Apply, At, RowInv
  <2>2. /\ Consistent(q.seen)
        /\ q.op = "unassign" <=> q.team = NoTeam
    BY <1>3, <1>a DEF Apply, RowInv, RequestsAreConsistent, Consistent
  <2>3. NewRoute(q.op, q.team) \in Routes /\ Consistent(NewRoute(q.op, q.team))
    BY <2>1, <2>2, NewRouteIsConsistent
  <2>4. a \in Entries
    BY <2>1, <2>3 DEF RoutingEntry, Entries
  <2>5. Fresh(a)
    BY <2>1, <2>2, <2>3 DEF RoutingEntry, Fresh, RoutingActions
  <2>6. log' = Append(log, a)
    BY <1>3 DEF Apply
  <2> HIDE DEF a
  <2>7. Grown(Entries, log, log', a)
    BY <1>a, <2>4, <2>6, AppendGrows DEF TrailInv
  <2>8. /\ TrailInv'
        /\ DOMAIN log \subseteq DOMAIN log'
        /\ \A e \in DOMAIN log : log'[e] = log[e]
    BY <1>a, <2>4, <2>5, <2>7, AppendTrail
  <2>9. ClaimInv'
    BY <1>a, <1>2, <2>8, ClaimsKept
  <2> QED BY <1>2, <2>8, <2>9, UndoInvNext
<1>4. CASE UNCHANGED log
  <2>1. TrailInv'
    BY <1>a, <1>4, TrailKept
  <2>2. ClaimInv'
    BY <1>a, <1>2, <1>4, ClaimsKept
  <2> QED BY <1>2, <2>1, <2>2, UndoInvNext
<1>5. UNCHANGED log \/ \E r \in Requests : Apply(r)
  BY DEF Next, RequestStep, BeginRouting, CheckTeam, BeginBulk, BulkChunk, BeginBackfill,
         BeginScan, UpdateTeam, Abandon, DeleteTeam
<1> QED BY <1>3, <1>4, <1>5

\* Every step preserves the invariant.
LEMMA StepUndoInv == UndoInv /\ [UndoNext]_allVars => UndoInv'
<1> SUFFICES ASSUME UndoInv, [UndoNext]_allVars PROVE UndoInv'
  OBVIOUS
<1>a. TrailInv /\ ClaimInv /\ RowInv /\ CountInv /\ linked \in SUBSET Links
  BY UndoInvParts
<1>1. ASSUME NEW r \in Restorers, JobStep(r) PROVE UndoInv'
  BY <1>1, LabelInv, PlanInv, ClaimStepInv, CommitStepInv, GiveUpInv
     DEF JobStep, RestoreStep
<1>2. ASSUME UNCHANGED <<unrouted, log, job>>, CountInv', linked' \in SUBSET Links
      PROVE  UndoInv'
  <2>1. RowInv'
    BY <1>a, <1>2, RowsKept
  <2>2. TrailInv'
    BY <1>a, <1>2, TrailKept
  <2>3. ClaimInv'
    BY <1>a, <1>2, ClaimsKept
  <2> QED BY <1>2, <2>1, <2>2, <2>3, UndoInvNext
<1>3. ASSUME NEW labels \in SUBSET Links, ReplaceLabels(labels) PROVE UndoInv'
  <2>1. CountInv'
    BY <1>a, <1>3 DEF ReplaceLabels, CountInv, clock
  <2> QED BY <1>2, <1>3, <2>1 DEF ReplaceLabels
<1>4. CASE Expire
  <2>1. CountInv'
    BY <1>a, <1>4 DEF Expire, CountInv
  <2> QED BY <1>a, <1>2, <1>4, <2>1 DEF Expire
<1>5. CASE Purge
  <2>1. CountInv'
    BY <1>a, <1>5 DEF Purge, CountInv
  <2> QED BY <1>a, <1>2, <1>5, <2>1 DEF Purge
<1>6. CASE UNCHANGED allVars
  <2>1. CountInv'
    BY <1>a, <1>6 DEF allVars, vars, undoVars, CountInv
  <2> QED BY <1>a, <1>2, <1>6, <2>1 DEF allVars, vars, undoVars, unrouted
<1> QED BY <1>1, <1>3, <1>4, <1>5, <1>6, RoutingInv DEF UndoNext

-----------------------------------------------------------------------------
(* The theorems                                                              *)

\* The invariant holds in every reachable state.
THEOREM UndoInvHolds == UndoSpec => []UndoInv
<1> QED BY InitUndoInv, StepUndoInv, PTL DEF UndoSpec

\* No two restores ever work on the same entry, also while one of them gives it up.
THEOREM SingleRestorerHolds == UndoSpec => []SingleRestorer
<1>1. UndoInv => SingleRestorer
  BY DEF UndoInv
<1> QED BY <1>1, UndoInvHolds, PTL

\* Every entry is restored at most once, and it and its restore name each other.
THEOREM RestoredOnceHolds == UndoSpec => []RestoredOnce
<1>1. UndoInv => RestoredOnce
  BY DEF UndoInv
<1> QED BY <1>1, UndoInvHolds, PTL

\* Restores that write old snapshots back never leave a conversation 'assigned' without
\* a team.
THEOREM RestoreKeepsAssignedHasTeam == UndoSpec => []AssignedHasTeam
<1>1. UndoInv => AssignedHasTeam
  BY DEF UndoInv, Inv
<1> QED BY <1>1, UndoInvHolds, PTL

-----------------------------------------------------------------------------
(* What a step may never do                                                  *)

\* e keeps what was done to what, and what it was; a restored entry keeps all it has.
Kept(e) ==
  /\ e \in DOMAIN log'
  /\ log'[e].action = log[e].action /\ log'[e].on = log[e].on
  /\ log'[e].old = log[e].old
  /\ log[e].state = "restored" => log'[e] = log[e]

\* Appending keeps every entry.
LEMMA AppendedKept ==
  ASSUME log \in Seq(Entries), NEW a \in Entries, log' = Append(log, a), NEW e \in DOMAIN log
  PROVE  Kept(e)
<1>1. Grown(Entries, log, log', a)
  BY AppendGrows
<1>2. log'[e] = log[e] /\ DOMAIN log = 1..Len(log) /\ DOMAIN log' = 1..(Len(log) + 1)
      /\ Len(log) \in Nat
  BY <1>1 DEF Grown
<1>3. 1..Len(log) \subseteq 1..(Len(log) + 1)
  BY <1>2
<1>4. e \in DOMAIN log'
  BY <1>2, <1>3, Zenon
<1> QED BY <1>2, <1>4 DEF Kept

\* Claiming or releasing keeps an entry that is not restored, and all the others.
LEMMA MarkedKept ==
  ASSUME log \in Seq(Entries), NEW i \in DOMAIN log, NEW s,
         log' = [log EXCEPT ![i].state = s], log[i].state # "restored", NEW e \in DOMAIN log
  PROVE  Kept(e)
<1>1. log[e] \in Entries
  OBVIOUS
<1>2. log'[e] = IF e = i THEN [log[e] EXCEPT !.state = s] ELSE log[e]
  OBVIOUS
<1> QED BY <1>1, <1>2 DEF Kept, Entries

\* The commit of a restore marks an entry in progress and appends another.
LEMMA CommitKept ==
  ASSUME UndoInv, NEW r \in Restorers, Commit(r), NEW e \in DOMAIN log
  PROVE  Kept(e)
<1>a. TrailInv /\ ClaimInv /\ log \in Seq(Entries)
  BY UndoInvParts DEF TrailInv
<1> DEFINE i == job[r].entry
           n == Len(log) + 1
           marked == [log[i] EXCEPT !.state = "restored", !.by = n]
<1>1. i \in DOMAIN log /\ n \in Nat /\ i \in Nat
  BY <1>a, RestoreJob DEF Commit
<1>2. log[i].state = "in_progress" /\ log[i] \in Entries /\ log[e] \in Entries
  BY <1>a, <1>1 DEF Commit, Applicable
<1>3. marked \in Entries
  <2> HIDE DEF i, n
  <2> QED BY <1>1, <1>2 DEF Entries
<1>4. RestoreEntry(i) \in Entries
  BY <1>1, <1>2 DEF Entries, RestoreEntry, Routes, Pool
<1>5. log' = Append([log EXCEPT ![i] = marked], RestoreEntry(i))
  BY <1>a, <1>1 DEF Commit
<1>6. [log EXCEPT ![i] = marked] \in Seq(Entries)
  BY <1>a, <1>1, <1>3
<1>7. Grown(Entries, [log EXCEPT ![i] = marked], log', RestoreEntry(i))
  BY <1>4, <1>5, <1>6, AppendGrows
<1>8. DOMAIN log \subseteq DOMAIN log' /\ log'[e] = IF e = i THEN marked ELSE log[e]
  <2> HIDE DEF marked, i
  <2>1. DOMAIN [log EXCEPT ![i] = marked] = DOMAIN log
    OBVIOUS
  <2>2. /\ DOMAIN log \subseteq DOMAIN log'
        /\ log'[e] = [log EXCEPT ![i] = marked][e]
    BY <1>7, <2>1 DEF Grown
  <2> QED BY <1>1, <2>2
<1>9. /\ marked.action = log[i].action /\ marked.on = log[i].on /\ marked.old = log[i].old
  <2> HIDE DEF i, n
  <2> QED BY <1>1, <1>2 DEF Entries
<1> QED BY <1>2, <1>8, <1>9 DEF Kept

\* Every step keeps every entry.
LEMMA EntriesKept ==
  ASSUME UndoInv, UndoNext, NEW e \in DOMAIN log
  PROVE  Kept(e)
<1>a. TrailInv /\ ClaimInv /\ RowInv /\ log \in Seq(Entries)
  BY UndoInvParts DEF TrailInv
<1>1. CASE UNCHANGED log
  BY <1>1 DEF Kept
<1>2. ASSUME NEW r \in Requests, Apply(r) PROVE Kept(e)
  <2> DEFINE q == req[r]
  <2>1. q \in [pc : {"team", "apply"}, op : RoutingActions, conv : Convs,
               team : Teams \cup {NoTeam}, seen : Routes]
    BY <1>2, <1>a, RequestShape DEF Apply, At, RowInv
  <2>2. q.op = "unassign" <=> q.team = NoTeam
    BY <1>2, <1>a DEF Apply, RowInv, RequestsAreConsistent
  <2>3. RoutingEntry(q) \in Entries
    BY <2>1, <2>2, NewRouteIsConsistent DEF RoutingEntry, Entries
  <2> QED BY <1>2, <1>a, <2>3, AppendedKept DEF Apply
<1>3. ASSUME NEW r \in Restorers, AddLabel(r) \/ RemoveLabel(r) PROVE Kept(e)
  <2>1. job[r] \in JobStates /\ job[r].pc \in {"add", "remove"}
    BY <1>3, <1>a DEF AddLabel, RemoveLabel, On, ClaimInv
  <2>2. job[r].link \in Links
    BY <2>1, JobShape
  <2>3. \A action \in {"tag assign", "tag unassign"} :
          LabelEntry(action, job[r].link) \in Entries
    BY <2>2 DEF LabelEntry, Entries, Pool, Routes
  <2>4. \/ UNCHANGED log
        \/ \E action \in {"tag assign", "tag unassign"} :
             log' = Append(log, LabelEntry(action, job[r].link))
    BY <1>3 DEF AddLabel, RemoveLabel
  <2> QED BY <1>1, <1>a, <2>3, <2>4, AppendedKept
<1>4. ASSUME NEW r \in Restorers, Claim(r) PROVE Kept(e)
  <2>1. job[r].entry \in DOMAIN log
    BY <1>4, <1>a, RestoreJob DEF Claim
  <2> QED BY <1>4, <1>a, <2>1, MarkedKept DEF Claim, Claimable
<1>5. ASSUME NEW r \in Restorers, Release(r) PROVE Kept(e)
  <2>1. job[r].entry \in DOMAIN log
    BY <1>5, <1>a, RestoreJob DEF Release
  <2>2. CASE Releasable(job[r].entry)
    BY <1>5, <1>a, <2>1, <2>2, MarkedKept DEF Release, Releasable
  <2>3. CASE ~Releasable(job[r].entry)
    BY <1>1, <1>5, <2>3 DEF Release
  <2> QED BY <2>2, <2>3
<1>6. ASSUME NEW r \in Restorers, Commit(r) PROVE Kept(e)
  BY <1>6, CommitKept
<1>7. ASSUME Next, UNCHANGED undoVars PROVE Kept(e)
  BY <1>1, <1>2, <1>7
     DEF Next, RequestStep, BeginRouting, CheckTeam, BeginBulk, BulkChunk, BeginBackfill,
         BeginScan, UpdateTeam, Abandon, DeleteTeam
<1>8. ASSUME NEW r \in Restorers, JobStep(r) PROVE Kept(e)
  BY <1>1, <1>3, <1>4, <1>5, <1>6, <1>8
     DEF JobStep, BeginLabel, BeginRestore, RestoreStep, BuildPlan, Rollback,
         ReleaseFails, Leave, Drop
<1> QED BY <1>1, <1>7, <1>8 DEF UndoNext, ReplaceLabels, Expire, Purge

\* A restored entry is never touched again, by a second restore, a late release or
\* anything else.
THEOREM RestoredIsFinalHolds == UndoSpec => RestoredIsFinal
<1>1. UndoInv /\ [UndoNext]_allVars =>
        [\A e \in DOMAIN log : log[e].state = "restored" => log'[e] = log[e]]_allVars
  BY EntriesKept DEF Kept
<1> QED BY <1>1, UndoInvHolds, PTL DEF UndoSpec, RestoredIsFinal

\* A plan that nobody forced to add a label back has found the label missing.
PlansAreClean ==
  \A r \in Restorers :
    (On(r, "claim") \/ On(r, "batch")) /\ Entry(r).action = "tag unassign" =>
      job[r].force \/ ~job[r].exists

\* A job stays as it is, builds its plan, claims, or holds neither plan nor claim.
LEMMA JobMoves ==
  ASSUME UndoInv, UndoNext, NEW r \in Restorers, On(r, "claim")' \/ On(r, "batch")'
  PROVE  \/ job'[r] = job[r]
         \/ BuildPlan(r)
         \/ Claim(r)
<1>a. job \in [Restorers -> JobStates]
  BY DEF UndoInv, UndoTypeOK
<1>1. CASE UNCHANGED job
  BY <1>1
<1>2. ASSUME NEW q \in Restorers, JobStep(q) PROVE job'[r] = job[r] \/ BuildPlan(r) \/ Claim(r)
  <2>1. CASE q = r
    <3>1. ASSUME NEW s, job' = [job EXCEPT ![r] = s], s.pc \notin {"claim", "batch"}
          PROVE  FALSE
      BY <1>a, <3>1 DEF On
    <3>2. ASSUME NEW pc \in {"add", "remove"}, NEW l \in Links, BeginLabel(r, pc, l)
          PROVE  FALSE
      BY <3>1, <3>2 DEF BeginLabel, BeginJob
    <3>3. ASSUME NEW e \in DOMAIN log, NEW force \in BOOLEAN, BeginRestore(r, e, force)
          PROVE  FALSE
      BY <3>1, <3>3 DEF BeginRestore, BeginJob
    <3>4. ASSUME Finish(r) PROVE FALSE
      BY <3>1, <3>4 DEF Finish, Idle
    <3>5. ASSUME Proceed(r, "release"), On(r, "batch") PROVE FALSE
      BY <1>a, <3>5 DEF Proceed, On
    <3> QED BY <1>2, <2>1, <3>2, <3>3, <3>4, <3>5
            DEF JobStep, RestoreStep, AddLabel, RemoveLabel, Commit, Rollback, Release,
                ReleaseFails, Leave, Drop
  <2>2. CASE q # r
    BY <1>2, <1>a, <2>2
       DEF JobStep, RestoreStep, BeginLabel, AddLabel, RemoveLabel, BeginRestore, BeginJob,
           BuildPlan, Claim, Commit, Rollback, Release, ReleaseFails, Leave, Drop, Finish,
           Proceed
  <2> QED BY <2>1, <2>2
<1> QED BY <1>1, <1>2 DEF UndoNext, undoVars, ReplaceLabels, Expire, Purge

\* Plans stay clean: an entry keeps its action, and a claim keeps what the plan noted.
LEMMA CleanStep ==
  UndoInv /\ PlansAreClean /\ [UndoNext]_allVars => PlansAreClean'
<1> SUFFICES ASSUME UndoInv, PlansAreClean, [UndoNext]_allVars,
                    NEW r \in Restorers, On(r, "claim")' \/ On(r, "batch")',
                    Entry(r)'.action = "tag unassign"
             PROVE  job'[r].force \/ ~job'[r].exists
  BY DEF PlansAreClean
<1>a. TrailInv /\ ClaimInv /\ job \in [Restorers -> JobStates]
  BY UndoInvParts DEF ClaimInv
<1>1. CASE UNCHANGED allVars
  BY <1>1 DEF allVars, vars, undoVars, PlansAreClean, On, Entry
<1>2. CASE UndoNext /\ job'[r] = job[r]
  <2>1. job[r].entry \in DOMAIN log
    BY <1>a, <1>2, RestoreJob DEF On
  <2>2. Entry(r)'.action = Entry(r).action
    BY <1>2, <2>1, EntriesKept DEF Kept, Entry
  <2> QED BY <1>2, <2>2 DEF PlansAreClean, On
<1>3. CASE BuildPlan(r)
  <2>1. job[r] \in [pc : {"plan", "claim", "batch", "release"},
                    entry : Nat, force : BOOLEAN, exists : BOOLEAN]
    BY <1>a, <1>3, RestoreJob DEF BuildPlan
  <2>2. /\ job'[r].force = job[r].force /\ job'[r].entry = job[r].entry
        /\ job'[r].exists = (Entry(r).on \in linked)
    BY <1>3, <1>a, <2>1 DEF BuildPlan
  <2>3. Entry(r)' = Entry(r)
    BY <1>3, <2>2 DEF BuildPlan, Entry
  <2> QED BY <1>3, <2>2, <2>3 DEF BuildPlan, Drifted
<1>4. CASE UndoNext /\ Claim(r)
  <2>1. /\ job[r] \in [pc : {"plan", "claim", "batch", "release"},
                        entry : Nat, force : BOOLEAN, exists : BOOLEAN]
        /\ job[r].entry \in DOMAIN log
    BY <1>a, <1>4, RestoreJob DEF Claim
  <2>2. /\ job'[r].force = job[r].force /\ job'[r].entry = job[r].entry
        /\ job'[r].exists = job[r].exists
    BY <1>4, <1>a, <2>1 DEF Claim, Proceed
  <2>3. Entry(r)'.action = Entry(r).action
    BY <1>4, <2>1, <2>2, EntriesKept DEF Kept, Entry
  <2> QED BY <1>4, <2>2, <2>3 DEF Claim, PlansAreClean
<1> QED BY <1>1, <1>2, <1>3, <1>4, JobMoves

\* A commit that nobody forced undoes the action.
LEMMA CommitUndoes ==
  ASSUME UndoInv, PlansAreClean, NEW r \in Restorers, NEW e \in DOMAIN log,
         Holds(r, e), ~job[r].force, Commit(r)
  PROVE  Undone(log[e])'
<1>a. TrailInv /\ ClaimInv /\ RowInv
  BY UndoInvParts
<1> DEFINE a == log[e]
<1>1. /\ e = job[r].entry /\ On(r, "batch") /\ ~Missing(a)
      /\ conv' = Reverted(a) /\ linked' = Relinked(a, job[r].exists)
  BY DEF Holds, Commit, Applicable
<1>2. /\ log'[e].action = a.action /\ log'[e].on = a.on /\ log'[e].old = a.old
  BY CommitKept DEF Kept
<1>3. /\ a.action \in RoutingActions => a.on \in Convs
      /\ a.action \in RoutingActions \cup {"tag assign", "tag unassign"}
  <2>1. log \in Seq(Entries) /\ EntriesAreTyped
    BY <1>a DEF TrailInv
  <2>2. a \in Entries /\ a.action # "restore"
    BY <1>1, <1>a, <2>1, RestoreJob
  <2>3. a.action \in RoutingActions \cup {"tag assign", "tag unassign", "restore"}
    BY <2>2 DEF Entries
  <2> QED BY <2>1, <2>2, <2>3 DEF EntriesAreTyped
<1>4. a.action = "tag unassign" => ~job[r].exists
  BY <1>1 DEF PlansAreClean, Entry
<1> HIDE DEF a
<1>5. CASE a.action = "tag assign"
  BY <1>1, <1>2, <1>5 DEF Relinked, Undone
<1>6. CASE a.action = "tag unassign"
  BY <1>1, <1>2, <1>4, <1>6 DEF Relinked, Undone
<1>7. CASE a.action \in RoutingActions
  <2>1. conv' = [conv EXCEPT ![a.on] = a.old]
    BY <1>1, <1>7 DEF Reverted
  <2>2. conv'[a.on] = a.old
    BY <1>a, <1>3, <1>7, <2>1 DEF RowInv
  <2> QED BY <1>2, <1>7, <2>2 DEF Undone, RoutingActions
<1> QED BY <1>3, <1>5, <1>6, <1>7

\* Whatever happens to the resource between the plan and the commit, a restore that is
\* not forced leaves it as it was before the action.
THEOREM UnforcedRestoreUndoesHolds == UndoSpec => UnforcedRestoreUndoes
<1>1. UndoInit => PlansAreClean
  <2>1. UndoInit => \A r \in Restorers : ~On(r, "claim") /\ ~On(r, "batch")
    BY DEF UndoInit, On, Idle
  <2> QED BY <2>1 DEF PlansAreClean
<1>2. UndoInv /\ PlansAreClean /\ [UndoNext]_allVars =>
        [\A r \in Restorers, e \in DOMAIN log :
           Holds(r, e) /\ ~job[r].force /\ Commit(r) => Undone(log[e])']_allVars
  BY CommitUndoes
<1> QED BY <1>1, <1>2, CleanStep, UndoInvHolds, PTL DEF UndoSpec, UnforcedRestoreUndoes

=============================================================================
