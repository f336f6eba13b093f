------------------------------- MODULE Routing -------------------------------
(***************************************************************************)
(* Which team a conversation belongs to.  Agents assign, unassign, transfer *)
(* and bulk-assign conversations; a webhook gives a conversation without a  *)
(* team the team of its customer; a QR scan moves it to the team of the code.*)
(* Every request reads the row first and writes it in a later statement, so  *)
(* requests interleave between the two.  Assign, unassign and transfer write *)
(* a reversible audit entry in the transaction that changes the row.         *)
(*                                                                          *)
(* Left out: the routing-history row (conversation_transfers) written in the *)
(* same transaction and read by nobody here, and the broadcasts.             *)
(***************************************************************************)
EXTENDS Integers, Sequences, FiniteSets

CONSTANTS
    Convs,          \* conversations, never deleted nor closed
    Links,          \* customer-label pairs: other resources the audit trail names
    Teams, NoTeam,  \* teams; the shared pool
    Requests,       \* routing requests that may be in progress
    ChunkSize,      \* conversations per statement of a bulk assign (500 in store.rs)
    MaxRequests     \* bound: requests begun

ASSUME RoutingAssumption ==
    /\ NoTeam \notin Teams
    /\ Convs \cap Links = {}
    /\ IsFiniteSet(Convs)
    /\ ChunkSize \in Nat \ {0}
    /\ MaxRequests \in Nat

VARIABLES
    conv,    \* conv[c]: conversations.team_id and status
    gone,    \* teams that are soft-deleted
    log,     \* activity_logs, in the order of their ids
    req,     \* req[r]: routing request r
    begun    \* requests begun

vars == <<conv, gone, log, req, begun>>

-----------------------------------------------------------------------------

Routes == [team : Teams \cup {NoTeam}, status : {"active", "assigned"}]
Pool == [team |-> NoTeam, status |-> "active"]

RoutingActions == {"assign", "unassign", "transfer"}

\* An audit entry: what was done to which resource; for a routing change, the snapshots
\* old and new; for a restore, the entry it restored (of); and the columns that link an
\* entry to its own restore (restore_state and restored_by_log_id, 0 for NULL).
Entries ==
    [action : RoutingActions \cup {"tag assign", "tag unassign", "restore"},
     on : Convs \cup Links,
     old : Routes, new : Routes, of : Nat,
     state : {"open", "in_progress", "restored"}, by : Nat]

Idle == [pc |-> "idle"]

RequestStates ==
    {Idle}
    \cup [pc : {"team", "apply"}, op : RoutingActions, conv : Convs,
          team : Teams \cup {NoTeam}, seen : Routes]
    \cup [pc : {"update"}, conv : Convs, team : Teams, seen : Routes]
    \cup [pc : {"chunks"}, todo : SUBSET Convs, team : Teams, mine : SUBSET Teams]

TypeOK ==
    /\ conv \in [Convs -> Routes]
    /\ gone \in SUBSET Teams
    /\ log \in Seq(Entries)
    /\ req \in [Requests -> RequestStates]
    /\ begun \in Nat

Init ==
    /\ conv \in [Convs -> [team : Teams \cup {NoTeam}, status : {"active"}]]
    /\ gone = {}
    /\ log = <<>>
    /\ req = [r \in Requests |-> Idle]
    /\ begun = 0

At(r, pc) == req[r].pc = pc

Begin(r, state) ==
    /\ req[r] = Idle
    /\ begun < MaxRequests
    /\ req' = [req EXCEPT ![r] = state]
    /\ begun' = begun + 1

End(r) == req' = [req EXCEPT ![r] = Idle]

-----------------------------------------------------------------------------
(* Assign, unassign, transfer                                                *)

\* The row is read (find_bare); unassign needs a team to take away.
BeginRouting(r, op, c, t) ==
    /\ op = "unassign" <=> t = NoTeam
    /\ op = "unassign" => conv[c].team # NoTeam
    /\ Begin(r, [pc |-> IF op = "unassign" THEN "apply" ELSE "team", op |-> op,
                 conv |-> c, team |-> t, seen |-> conv[c]])
    /\ UNCHANGED <<conv, gone, log>>

\* The receiving team must not be deleted (team_name).
CheckTeam(r) ==
    /\ At(r, "team")
    /\ req[r].team \notin gone
    /\ req' = [req EXCEPT ![r].pc = "apply"]
    /\ UNCHANGED <<conv, gone, log, begun>>

NewRoute(op, t) ==
    CASE op = "assign"   -> [team |-> t, status |-> "assigned"]
      [] op = "transfer" -> [team |-> t, status |-> "active"]
      [] op = "unassign" -> Pool

\* MUTANT of RoutingEntry: the prior status is recorded with the team that is written.
RoutingEntryMixed(q) ==
    [action |-> q.op, on |-> q.conv,
     old |-> [team |-> q.team, status |-> q.seen.status],
     new |-> NewRoute(q.op, q.team), of |-> 0, state |-> "open", by |-> 0]

RoutingEntry(q) ==
    [action |-> q.op, on |-> q.conv, old |-> q.seen, new |-> NewRoute(q.op, q.team),
     of |-> 0, state |-> "open", by |-> 0]

\* apply_routing_change: one transaction writes the row and the audit entry, whose
\* snapshots are what the request read and what it writes.
Apply(r) ==
    /\ At(r, "apply")
    /\ conv' = [conv EXCEPT ![req[r].conv] = NewRoute(req[r].op, req[r].team)]
    /\ log' = Append(log, RoutingEntry(req[r]))
    /\ End(r)
    /\ UNCHANGED <<gone, begun>>

-----------------------------------------------------------------------------
(* Bulk assign                                                               *)

Visible(c, mine) == conv[c].team \in mine \cup {NoTeam}

\* Every conversation must be visible to the caller, whose teams are mine (all teams
\* for an administrator).  The receiving team is not looked up.
BeginBulk(r, ids, t, mine) ==
    /\ ids # {}
    /\ \A c \in ids : Visible(c, mine)
    /\ Begin(r, [pc |-> "chunks", todo |-> ids, team |-> t, mine |-> mine])
    /\ UNCHANGED <<conv, gone, log>>

\* One UPDATE per chunk, outside any transaction, with no audit entry.
BulkChunk(r) ==
    /\ At(r, "chunks")
    /\ \E chunk \in SUBSET req[r].todo :
         /\ Cardinality(chunk) = ChunkSize \/ chunk = req[r].todo
         /\ Cardinality(chunk) \in 1..ChunkSize
         /\ conv' = [c \in Convs |-> IF c \in chunk
                                     THEN NewRoute("assign", req[r].team)
                                     ELSE conv[c]]
         /\ IF chunk = req[r].todo
            THEN End(r)
            ELSE req' = [req EXCEPT ![r].todo = @ \ chunk]
    /\ UNCHANGED <<gone, log, begun>>

-----------------------------------------------------------------------------
(* Webhooks and QR scans, which write the team alone                         *)

\* find_or_create_conversation reads a conversation without a team.
BeginBackfill(r, c, t) ==
    /\ conv[c].team = NoTeam
    /\ Begin(r, [pc |-> "update", conv |-> c, team |-> t, seen |-> conv[c]])
    /\ UNCHANGED <<conv, gone, log>>

\* reconcile reads a conversation of another team than the code's, which is not deleted.
BeginScan(r, c, t) ==
    /\ t \notin gone
    /\ conv[c].team # t
    /\ Begin(r, [pc |-> "update", conv |-> c, team |-> t, seen |-> conv[c]])
    /\ UNCHANGED <<conv, gone, log>>

\* MUTANT of NewTeam: the prior team is written back.
NewTeamIsPrior(q) == q.seen.team

NewTeam(q) == q.team

\* Both update the team by id, whatever the row holds by now.
UpdateTeam(r) ==
    /\ At(r, "update")
    /\ conv' = [conv EXCEPT ![req[r].conv].team = NewTeam(req[r])]
    /\ End(r)
    /\ UNCHANGED <<gone, log, begun>>

-----------------------------------------------------------------------------

\* A request ends without a further statement: it is refused, a statement fails, its
\* client hangs up or the process dies.
Abandon(r) ==
    /\ req[r] # Idle
    /\ End(r)
    /\ UNCHANGED <<conv, gone, log, begun>>

\* delete_team: the row stays, and conversations keep the team.
DeleteTeam(t) ==
    /\ t \notin gone
    /\ gone' = gone \cup {t}
    /\ UNCHANGED <<conv, log, req, begun>>

RequestStep(r) ==
    \/ \E op \in RoutingActions, c \in Convs, t \in Teams \cup {NoTeam} :
         BeginRouting(r, op, c, t)
    \/ CheckTeam(r)
    \/ Apply(r)
    \/ \E ids \in SUBSET Convs, t \in Teams, mine \in SUBSET Teams :
         BeginBulk(r, ids, t, mine)
    \/ BulkChunk(r)
    \/ \E c \in Convs, t \in Teams : BeginBackfill(r, c, t) \/ BeginScan(r, c, t)
    \/ UpdateTeam(r)
    \/ Abandon(r)

Next ==
    \/ \E r \in Requests : RequestStep(r)
    \/ \E t \in Teams : DeleteTeam(t)

Spec == Init /\ [][Next]_vars

-----------------------------------------------------------------------------
(* What holds                                                                *)

\* A conversation with status 'assigned' has a team.  Seven operations write team_id or
\* status (store.rs, conversations/handlers.rs, ingest.rs, liff/handlers.rs, restore.rs),
\* two of them the team alone and one of them a snapshot taken long before.
AssignedHasTeam ==
    \A c \in Convs : conv[c].status = "assigned" => conv[c].team # NoTeam

\* A conversation goes back to the shared pool only by an unassign, which leaves a
\* reversible entry that names the conversation: no webhook, scan or bulk assign that
\* acts on a row read earlier takes a team away (Rust_CRD.md:2852, "the reverse is not
\* performed during ingestion").
ReleasedOnTheRecord ==
    [][\A c \in Convs :
         conv[c].team # NoTeam /\ conv'[c].team = NoTeam =>
           /\ Len(log') = Len(log) + 1
           /\ log'[Len(log')].action = "unassign"
           /\ log'[Len(log')].on = c
           /\ log'[Len(log')].old.team # NoTeam]_vars

\* Every audit entry can be undone without breaking AssignedHasTeam: its snapshots are
\* pairs of a team and a status that belong together, even when the row has changed
\* between the request's SELECT and its transaction.
SnapshotsAreConsistent ==
    \A e \in DOMAIN log : \A s \in {log[e].old, log[e].new} :
      s.status = "assigned" => s.team # NoTeam

-----------------------------------------------------------------------------
(* Why it holds: the inductive invariant                                     *)

\* What a request read was a consistent row; unassign, and only it, has no team to give,
\* and has read a team to take away.
RequestsAreConsistent ==
    \A r \in Requests :
      /\ At(r, "team") \/ At(r, "apply") =>
           /\ req[r].seen.status = "assigned" => req[r].seen.team # NoTeam
           /\ req[r].op = "unassign" <=> req[r].team = NoTeam
           /\ req[r].op = "unassign" => req[r].seen.team # NoTeam

\* The conjunction that every step preserves: teams and statuses belong together in the
\* rows, in every snapshot of the log and in what a request has read and is about to
\* write.  It implies the invariants above: proved in RoutingProofs.
Inv ==
    /\ TypeOK
    /\ AssignedHasTeam
    /\ SnapshotsAreConsistent
    /\ RequestsAreConsistent

-----------------------------------------------------------------------------
(* What the documents say and the code does not do                           *)

\* Rust_CRD.md: an audit entry carries "a snapshot of the resource's prior state".
SnapshotIsPrior ==
    [][\A e \in DOMAIN log' \ DOMAIN log :
         log'[e].action \in RoutingActions => log'[e].old = conv[log'[e].on]]_vars

\* Rust_CRD.md: an existing conversation is "team-backfilled if it had no team".
BackfillFillsThePool ==
    [][\A r \in Requests :
         At(r, "update") /\ req[r].seen.team = NoTeam /\ UpdateTeam(r) =>
           conv[req[r].conv].team = NoTeam]_vars

=============================================================================
