--------------------------- MODULE ActivityRestore ---------------------------
(***************************************************************************)
(* Undoing an audited action.  A restore reads the audit entry, compares    *)
(* the resource with the state the action left (a conflict stops it unless  *)
(* the caller forces it), claims the entry, and then, in one transaction,   *)
(* puts the resource back, appends an entry for the restore and links the    *)
(* two.  A claim is released when the transaction fails.                     *)
(*                                                                          *)
(* Two kinds of resource are modelled: conversations, whose routing Routing   *)
(* changes while a restore is on its way, and the labels of customers, which *)
(* other requests add, remove and replace meanwhile.  Tags, teams, customers *)
(* and agents are restored by the same code as conversations, field by field; *)
(* team memberships are not modelled.                                        *)
(***************************************************************************)
EXTENDS Routing

CONSTANTS
    Restorers,      \* restore and label requests that may be in progress
    MaxErrors,      \* bound: statements and commits that fail
    MaxDrops        \* bound: restores that vanish (a hang-up, a crash)

ASSUME RestoreAssumption ==
    /\ MaxErrors \in Nat
    /\ MaxDrops \in Nat

VARIABLES
    linked,   \* labels customers carry (customer_tags, unique by customer and label)
    job,      \* job[r]: restore or label request r
    horizon,  \* entries up to this one are out of their restore window
    purged,   \* entries up to this one have been deleted
    errors, drops

undoVars == <<linked, job, horizon, purged, errors, drops>>
allVars == <<vars, undoVars>>

-----------------------------------------------------------------------------

JobStates ==
    {Idle}
    \cup [pc : {"plan", "claim", "batch", "release"},
          entry : Nat, force : BOOLEAN, exists : BOOLEAN]
    \cup [pc : {"add", "remove"}, link : Links, exists : BOOLEAN]

UndoTypeOK ==
    /\ TypeOK
    /\ linked \in SUBSET Links
    /\ job \in [Restorers -> JobStates]
    /\ horizon \in Nat
    /\ purged \in Nat
    /\ errors \in Nat
    /\ drops \in Nat

UndoInit ==
    /\ Init
    /\ linked \in SUBSET Links
    /\ job = [r \in Restorers |-> Idle]
    /\ horizon = 0
    /\ purged = 0
    /\ errors = 0
    /\ drops = 0

On(r, pc) == job[r].pc = pc
Finish(r) == job' = [job EXCEPT ![r] = Idle]
Proceed(r, pc) == job' = [job EXCEPT ![r].pc = pc]

BeginJob(r, state) ==
    /\ job[r] = Idle
    /\ begun < MaxRequests
    /\ job' = [job EXCEPT ![r] = state]
    /\ begun' = begun + 1

\* The entry r restores, and its row.
Entry(r) == log[job[r].entry]
Row(e) == e \in DOMAIN log /\ e > purged

Spent == errors' = errors + 1 /\ errors < MaxErrors

unrouted == <<conv, gone, req>>
clock == <<horizon, purged>>

-----------------------------------------------------------------------------
(* The labels of a customer                                                  *)

LabelEntry(action, l) ==
    [action |-> action, on |-> l, old |-> Pool, new |-> Pool,
     of |-> 0, state |-> "open", by |-> 0]

\* add_customer_tags and remove_customer_tags look which labels are there first.
BeginLabel(r, pc, l) ==
    /\ pc = "add" => l \notin linked
    /\ BeginJob(r, [pc |-> pc, link |-> l, exists |-> l \in linked])
    /\ UNCHANGED <<unrouted, log, linked, clock, errors, drops>>

\* The INSERT fails on a label that has been added meanwhile.
AddLabel(r) ==
    /\ On(r, "add")
    /\ job[r].link \notin linked
    /\ linked' = linked \cup {job[r].link}
    /\ log' = Append(log, LabelEntry("tag assign", job[r].link))
    /\ Finish(r)
    /\ UNCHANGED <<unrouted, begun, clock, errors, drops>>

\* The DELETE does not say whether the label was still there; the entry is written if
\* it was there when the request looked.
RemoveLabel(r) ==
    /\ On(r, "remove")
    /\ linked' = linked \ {job[r].link}
    /\ log' = IF job[r].exists
              THEN Append(log, LabelEntry("tag unassign", job[r].link))
              ELSE log
    /\ Finish(r)
    /\ UNCHANGED <<unrouted, begun, clock, errors, drops>>

\* replace_customer_tags: one transaction, and no entry that could be restored.
ReplaceLabels(labels) ==
    /\ begun < MaxRequests
    /\ begun' = begun + 1
    /\ linked' = labels
    /\ UNCHANGED <<unrouted, log, job, clock, errors, drops>>

-----------------------------------------------------------------------------
(* restore_activity                                                          *)

Restorable(e) == Row(e) /\ log[e].action # "restore"

\* The entry is loaded: reversible, not restored nor being restored, in its window.
BeginRestore(r, e, force) ==
    /\ Restorable(e)
    /\ log[e].state = "open"
    /\ e > horizon
    /\ BeginJob(r, [pc |-> "plan", entry |-> e, force |-> force, exists |-> FALSE])
    /\ UNCHANGED <<unrouted, log, linked, clock, errors, drops>>

\* Drift between what the action left and what is there now (detect_field_conflicts; a
\* removed label that is back; an added label that is gone cannot be removed at all).
Drifted(a) ==
    IF a.action = "tag unassign" THEN a.on \in linked
    ELSE a.action \in RoutingActions /\ conv[a.on] # a.new

Missing(a) == a.action = "tag assign" /\ a.on \notin linked

BuildPlan(r) ==
    /\ On(r, "plan")
    /\ ~Missing(Entry(r))
    /\ Drifted(Entry(r)) => job[r].force
    /\ job' = [job EXCEPT ![r].pc = "claim", ![r].exists = Entry(r).on \in linked]
    /\ UNCHANGED <<unrouted, log, linked, begun, clock, errors, drops>>

Claimable(e) == Row(e) /\ log[e].state = "open"

Claim(r) ==
    /\ On(r, "claim")
    /\ Claimable(job[r].entry)
    /\ log' = [log EXCEPT ![job[r].entry].state = "in_progress"]
    /\ Proceed(r, "batch")
    /\ UNCHANGED <<unrouted, linked, begun, clock, errors, drops>>

\* MUTANT of Reverted: the team is put back without its status.
RevertedTeamOnly(a) ==
    IF a.action \in RoutingActions THEN [conv EXCEPT ![a.on].team = a.old.team] ELSE conv

\* apply_plan: what the reversal makes of the resources, and when it fails.
Reverted(a) ==
    IF a.action \in RoutingActions THEN [conv EXCEPT ![a.on] = a.old] ELSE conv

Relinked(a, exists) ==
    CASE a.action = "tag assign"   -> linked \ {a.on}
      [] a.action = "tag unassign" -> IF exists THEN linked ELSE linked \cup {a.on}
      [] OTHER                     -> linked

RestoreEntry(e) ==
    [action |-> "restore", on |-> log[e].on, old |-> Pool, new |-> Pool,
     of |-> e, state |-> "open", by |-> 0]

Applicable(e) == ~Missing(log[e]) /\ Row(e) /\ log[e].state = "in_progress"

\* The transaction commits; the caller may not learn of it.
Commit(r) ==
    LET e == job[r].entry IN
    /\ On(r, "batch")
    /\ Applicable(e)
    /\ conv' = Reverted(log[e])
    /\ linked' = Relinked(log[e], job[r].exists)
    /\ log' = Append([log EXCEPT ![e].state = "restored", ![e].by = Len(log) + 1],
                     RestoreEntry(e))
    /\ \/ Finish(r) /\ UNCHANGED errors
       \/ Proceed(r, "release") /\ Spent
    /\ UNCHANGED <<gone, req, begun, clock, drops>>

\* The transaction fails: nothing to reverse any more, or a failing statement.
Rollback(r) ==
    /\ On(r, "batch")
    /\ \/ ~Applicable(job[r].entry) /\ UNCHANGED errors
       \/ Spent
    /\ Proceed(r, "release")
    /\ UNCHANGED <<unrouted, log, linked, begun, clock, drops>>

\* MUTANTS of Releasable: the release is not guarded; it looks for the wrong state.
ReleasableAlways(e) == Row(e)
ReleasableOpen(e) == Row(e) /\ log[e].state = "open"

Releasable(e) == Row(e) /\ log[e].state = "in_progress"

Release(r) ==
    LET e == job[r].entry IN
    /\ On(r, "release")
    /\ log' = IF Releasable(e) THEN [log EXCEPT ![e].state = "open"] ELSE log
    /\ Finish(r)
    /\ UNCHANGED <<unrouted, linked, begun, clock, errors, drops>>

\* A failed release is logged and forgotten.
ReleaseFails(r) ==
    /\ On(r, "release")
    /\ Spent
    /\ Finish(r)
    /\ UNCHANGED <<unrouted, log, linked, begun, clock, drops>>

\* A request that holds no claim ends: refused (missing, conflict, lost claim), failed,
\* or dropped.
Leave(r) ==
    /\ \E pc \in {"plan", "claim", "add", "remove"} : On(r, pc)
    /\ Finish(r)
    /\ UNCHANGED <<unrouted, log, linked, begun, clock, errors, drops>>

\* A restore that holds a claim vanishes.
Drop(r) ==
    /\ On(r, "batch") \/ On(r, "release")
    /\ drops < MaxDrops
    /\ drops' = drops + 1
    /\ Finish(r)
    /\ UNCHANGED <<unrouted, log, linked, begun, clock, errors>>

-----------------------------------------------------------------------------
(* Time                                                                      *)

\* Windows close in the order of the entries (24 hours after each).
Expire ==
    /\ horizon < Len(log)
    /\ horizon' = horizon + 1
    /\ UNCHANGED <<unrouted, log, begun, linked, job, purged, errors, drops>>

\* cleanup keeps at least 30 days: windows have closed, and no request lasts that long.
Purge ==
    /\ purged < horizon
    /\ \A r \in Restorers :
         \A pc \in {"plan", "claim", "batch", "release"} :
           On(r, pc) => job[r].entry > horizon
    /\ purged' = horizon
    /\ UNCHANGED <<unrouted, log, begun, linked, job, horizon, errors, drops>>

-----------------------------------------------------------------------------

RestoreStep(r) ==
    \/ BuildPlan(r) \/ Claim(r) \/ Commit(r) \/ Rollback(r)
    \/ Release(r) \/ ReleaseFails(r) \/ Leave(r)

JobStep(r) ==
    \/ \E pc \in {"add", "remove"}, l \in Links : BeginLabel(r, pc, l)
    \/ AddLabel(r)
    \/ RemoveLabel(r)
    \/ \E e \in DOMAIN log, force \in BOOLEAN : BeginRestore(r, e, force)
    \/ RestoreStep(r)
    \/ Drop(r)

UndoNext ==
    \/ Next /\ UNCHANGED undoVars
    \/ \E r \in Restorers : JobStep(r)
    \/ \E labels \in SUBSET Links : ReplaceLabels(labels)
    \/ Expire
    \/ Purge

UndoSpec == UndoInit /\ [][UndoNext]_allVars

\* A handler that is not dropped runs to its end.
FairUndoSpec == UndoSpec /\ \A r \in Restorers : WF_allVars(RestoreStep(r))

-----------------------------------------------------------------------------
(* What holds                                                                *)

\* No two restores are between claim and end on the same entry, also when one of them
\* has failed and is about to release a claim that another might have taken by then.
\* (The release in restore.rs names the entry, not the claim.)
Holds(r, e) == (On(r, "batch") \/ On(r, "release")) /\ job[r].entry = e

SingleRestorer ==
    \A q, r \in Restorers, e \in DOMAIN log :
      Holds(q, e) /\ Holds(r, e) => q = r

\* Exactly-once restoration: an entry is marked restored if and only if there is a
\* restore entry for it, there is only one, and the two name each other; also when the
\* commit is reported as an error and the restore then tries to release its claim.
RestoredOnce ==
    /\ \A i \in DOMAIN log : log[i].action = "restore" =>
         /\ log[i].of \in 1..(i - 1)
         /\ log[log[i].of].state = "restored"
         /\ log[log[i].of].by = i
    /\ \A e \in DOMAIN log : log[e].state = "restored" =>
         /\ log[e].by \in DOMAIN log
         /\ log[log[e].by].action = "restore"
         /\ log[log[e].by].of = e

\* A restored entry is never claimed, released or restored again.
RestoredIsFinal ==
    [][\A e \in DOMAIN log : log[e].state = "restored" => log'[e] = log[e]]_allVars

\* a's action is undone: the conversation has its old route, the label is off or on.
Undone(a) ==
    CASE a.action = "tag assign"   -> a.on \notin linked
      [] a.action = "tag unassign" -> a.on \in linked
      [] OTHER                     -> conv[a.on] = a.old

\* A restore that nobody forced leaves its resource as it was before the action,
\* whatever happened to it between the plan and the transaction.
UnforcedRestoreUndoes ==
    [][\A r \in Restorers, e \in DOMAIN log :
         Holds(r, e) /\ ~job[r].force /\ Commit(r) => Undone(log[e])']_allVars

\* The claim on the entry of a routed conversation does not last: unless a restore
\* vanishes, and with no more than one statement failing, it is restored or open again.
\* (One of a label may also be given up because the label is gone, and then one failed
\* release is enough to keep it.)
InProgress(e) == e \in DOMAIN log /\ log[e].state = "in_progress"

ClaimResolves ==
    []<>(\A e \in 1..MaxRequests : InProgress(e) /\ log[e].on \in Convs => drops > 0)

-----------------------------------------------------------------------------
(* Why it holds: the inductive invariant                                     *)

\* Restores work on entries that exist; who has a claim works on an entry in progress,
\* and who gives it up on one that its own commit, at most, has restored.
JobsHoldTheirClaims ==
    \A r \in Restorers :
      /\ \A pc \in {"plan", "claim", "batch", "release"} : On(r, pc) =>
           /\ job[r].entry \in DOMAIN log
           /\ Entry(r).action # "restore"
      /\ On(r, "batch") => Entry(r).state = "in_progress"
      /\ On(r, "release") => Entry(r).state \in {"in_progress", "restored"}

\* Entries name resources of their kind, and restores are never restored.
EntriesAreTyped ==
    \A e \in DOMAIN log :
      /\ log[e].action \in RoutingActions => log[e].on \in Convs
      /\ log[e].action \in {"tag assign", "tag unassign"} => log[e].on \in Links
      /\ log[e].action = "restore" => log[e].state = "open"

\* The conjunction that every step preserves: an entry is restored exactly once, by the one
\* restore that holds its claim, and conversations stay consistent through restores.  It
\* implies the invariants above: proved in ActivityRestoreProofs.
UndoInv ==
    /\ UndoTypeOK
    /\ Inv
    /\ EntriesAreTyped
    /\ JobsHoldTheirClaims
    /\ SingleRestorer
    /\ RestoredOnce

-----------------------------------------------------------------------------
(* What the documents say and the code does not do                           *)

\* Rust_CRD.md: "by default a restore is refused if the resource changed after the
\* original action".
UnforcedMeetsNoDrift ==
    [][\A r \in Restorers : On(r, "batch") /\ ~job[r].force /\ Commit(r) =>
         ~Drifted(Entry(r))]_allVars

\* Rust_CRD.md: "a tag assignment is removed or re-added".
EveryRestoreUndoes ==
    [][\A r \in Restorers, e \in DOMAIN log :
         Holds(r, e) /\ Commit(r) => Undone(log[e])']_allVars

\* Rust_CRD.md: in progress "is transient -- it advances to restored on success, or
\* returns to not yet restored if the reversal batch fails".
ClaimIsTransient ==
    \A e \in DOMAIN log :
      Row(e) /\ log[e].state = "in_progress" => \E r \in Restorers : Holds(r, e)

=============================================================================
