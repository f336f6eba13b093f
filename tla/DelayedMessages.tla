--------------------------- MODULE DelayedMessages ---------------------------
(***************************************************************************)
(* Delayed sends: an agent schedules a message 1..120 seconds ahead, may    *)
(* cancel, recall or reschedule it while it is pending, and a one-second    *)
(* loop in every backend instance dispatches what has become due.           *)
(*                                                                          *)
(* The instances share only the database (scheduled_messages, messages,     *)
(* agents).  No row is ever locked and no transaction spans two awaits, so  *)
(* every SELECT and every UPDATE is a step of its own and anything may      *)
(* happen between them.  What an instance keeps in memory (the recall       *)
(* markers, the dispatcher's list, the requests in progress) dies with it.  *)
(***************************************************************************)
EXTENDS Integers

CONSTANTS
    Items,            \* rows of scheduled_messages, by id
    NoItem,           \* the dispatcher is not working on a row
    Instances,        \* backend processes that share the database
    Requests,         \* HTTP requests that may be in progress at a time
    Agents, Admins,   \* accounts, and those with the admin role
    Owner,            \* Owner[i]: the agent that schedules i
    Platform,         \* Platform[i]: "webchat", "gateway" or "unsupported"
    Delays,           \* the delays a request may ask for
    MarkerGrace,      \* MARKER_GRACE_SECS: how long a marker outlives the delay
    MoveGrace,        \* the same for a rescheduled item
    StaleAge,         \* age at which a failed item is archived
    MaxTime,          \* bound: the clock stops here
    MaxFaults         \* bound: crashes and database errors per instance

ASSUME DelayedAssumption ==
    /\ NoItem \notin Items
    /\ Admins \subseteq Agents
    /\ Owner \in [Items -> Agents]
    /\ Platform \in [Items -> {"webchat", "gateway", "unsupported"}]
    /\ Delays \subseteq Nat \ {0}
    /\ MarkerGrace \in Nat
    /\ MoveGrace \in Nat
    /\ StaleAge \in Nat
    /\ MaxTime \in Nat
    /\ MaxFaults \in Nat

VARIABLES
    status,      \* status[i]: the row's lifecycle column
    at,          \* at[i]: scheduled_at
    failedAt,    \* failedAt[i]: updated_at of a failed row; of others nobody reads it
    agents,      \* the agents that still have a row
    now,         \* the clock all instances read
    marker,      \* marker[p][i]: expiry of p's recallability marker, 0 if none
    disp,        \* disp[p]: the dispatcher task of p
    req,         \* req[r]: the request handler r
    copies,      \* copies[p][i]: times p handed i to its recipient
    faults,      \* faults[p]: crashes and failed database calls of p so far
    cancelAck    \* items some client was told are cancelled

row == <<status, at, failedAt, agents>>
vars == <<status, at, failedAt, agents, now, marker, disp, req, copies, faults,
          cancelAck>>

-----------------------------------------------------------------------------

Statuses == {"absent", "pending", "sent", "failed", "cancelled", "archived", "purged"}
Settled == Statuses \ {"absent", "pending"}

Idle == [stage |-> "scan", todo |-> {}, item |-> NoItem, result |-> "none"]
NoRequest == [pc |-> "idle", item |-> NoItem]

DispatcherStates ==
    [stage : {"scan"}, todo : SUBSET Items, item : {NoItem}, result : {"none"}]
      \cup [stage : {"send"}, todo : SUBSET Items, item : Items, result : {"none"}]
      \cup [stage : {"record"}, todo : SUBSET Items, item : Items, result : {"ok", "error"}]

RequestStates ==
    {NoRequest}
      \cup [pc : {"check", "cancel"}, item : Items, inst : Instances]
      \cup [pc : {"mark", "move", "remark"}, item : Items, inst : Instances,
            delay : Delays, fire : Nat]

TypeOK ==
    /\ status \in [Items -> Statuses]
    /\ at \in [Items -> Nat]
    /\ failedAt \in [Items -> Nat]
    /\ agents \in SUBSET Agents
    /\ now \in Nat
    /\ marker \in [Instances -> [Items -> Nat]]
    /\ disp \in [Instances -> DispatcherStates]
    /\ req \in [Requests -> RequestStates]
    /\ copies \in [Instances -> [Items -> Nat]]
    /\ faults \in [Instances -> Nat]
    /\ cancelAck \in SUBSET Items

Init ==
    /\ status = [i \in Items |-> "absent"]
    /\ at = [i \in Items |-> 0]
    /\ failedAt = [i \in Items |-> 0]
    /\ agents = Agents
    /\ now = 0
    /\ marker = [p \in Instances |-> [i \in Items |-> 0]]
    /\ disp = [p \in Instances |-> Idle]
    /\ req = [r \in Requests |-> NoRequest]
    /\ copies = [p \in Instances |-> [i \in Items |-> 0]]
    /\ faults = [p \in Instances |-> 0]
    /\ cancelAck = {}

\* The row can still be selected by its id.
Exists(i) == status[i] \notin {"absent", "purged"}

\* The dispatcher of p has read i as pending and due and has not finished with it.
Holds(p, i) == disp[p].stage # "scan" /\ disp[p].item = i

\* A message reached its recipient: the platform or, for webchat, the messages table.
Delivered(i) == \E p \in Instances : copies[p][i] > 0

-----------------------------------------------------------------------------
(* Scheduling: v2_send and legacy_send through schedule_delayed             *)

\* The INSERT; agent_id references agents, so the scheduling agent must exist.
ScheduleInsert(r, p, i, d) ==
    /\ req[r] = NoRequest
    /\ status[i] = "absent"
    /\ Owner[i] \in agents
    /\ now + d <= MaxTime
    /\ status' = [status EXCEPT ![i] = "pending"]
    /\ at' = [at EXCEPT ![i] = now + d]
    /\ req' = [req EXCEPT ![r] = [pc |-> "mark", item |-> i, inst |-> p,
                                  delay |-> d, fire |-> now + d]]
    /\ UNCHANGED <<failedAt, agents, now, marker, disp, copies, faults, cancelAck>>

\* RecallableMarkers::mark and the reply, after the await of the statement.
MarkAndReply(r, pc, grace) ==
    /\ req[r].pc = pc
    /\ marker' = [marker EXCEPT ![req[r].inst][req[r].item] = now + req[r].delay + grace]
    /\ req' = [req EXCEPT ![r] = NoRequest]
    /\ UNCHANGED <<row, now, disp, copies, faults, cancelAck>>

ScheduleReply(r) == MarkAndReply(r, "mark", MarkerGrace)

-----------------------------------------------------------------------------
(* Cancel (v2_cancel) and recall (legacy_recall), both through              *)
(* cancel_delayed.                                                          *)

\* The ownership SELECT of v2_cancel.
StartCancel(r, p, u, i) ==
    /\ req[r] = NoRequest
    /\ u \in agents
    /\ Exists(i)
    /\ u \in Admins \/ u = Owner[i]
    /\ req' = [req EXCEPT ![r] = [pc |-> "check", item |-> i, inst |-> p]]
    /\ UNCHANGED <<row, now, marker, disp, copies, faults, cancelAck>>

\* The marker lookup of legacy_recall and its SELECT: sender and deadline.
StartRecall(r, p, u, i) ==
    /\ req[r] = NoRequest
    /\ u \in agents
    /\ marker[p][i] > now
    /\ Exists(i)
    /\ u = Owner[i]
    /\ now < at[i]
    /\ req' = [req EXCEPT ![r] = [pc |-> "check", item |-> i, inst |-> p]]
    /\ UNCHANGED <<row, now, marker, disp, copies, faults, cancelAck>>

\* cancel_delayed's own SELECT: the row must be pending and not yet due.
CancelCheck(r) ==
    /\ req[r].pc = "check"
    /\ LET i == req[r].item IN
       req' = [req EXCEPT ![r] =
                 IF status[i] = "pending" /\ now < at[i]
                 THEN [pc |-> "cancel", item |-> i, inst |-> req[r].inst]
                 ELSE NoRequest]
    /\ UNCHANGED <<row, now, marker, disp, copies, faults, cancelAck>>

\* MUTANT of CancelUpdate: an UPDATE without the status guard.
CancelUnguarded(r) ==
    /\ req[r].pc = "cancel"
    /\ status' = IF Exists(req[r].item) THEN [status EXCEPT ![req[r].item] = "cancelled"]
                                        ELSE status
    /\ marker' = [marker EXCEPT ![req[r].inst][req[r].item] = 0]
    /\ cancelAck' = cancelAck \cup {req[r].item}
    /\ req' = [req EXCEPT ![r] = NoRequest]
    /\ UNCHANGED <<at, failedAt, agents, now, disp, copies, faults>>

\* UPDATE ... WHERE status = 'pending'.  The number of rows it changed is not
\* looked at: the marker is cleared and success reported either way.
CancelUpdate(r) ==
    /\ req[r].pc = "cancel"
    /\ LET i == req[r].item IN
       /\ status' = IF status[i] = "pending" THEN [status EXCEPT ![i] = "cancelled"]
                                             ELSE status
       /\ marker' = [marker EXCEPT ![req[r].inst][i] = 0]
       /\ cancelAck' = cancelAck \cup {i}
    /\ req' = [req EXCEPT ![r] = NoRequest]
    /\ UNCHANGED <<at, failedAt, agents, now, disp, copies, faults>>

-----------------------------------------------------------------------------
(* Reschedule: legacy_reschedule                                            *)

\* The SELECT and its checks.  A webchat item cannot be rescheduled: its
\* platform is not one Platform::parse knows.
StartReschedule(r, p, u, i, d) ==
    /\ req[r] = NoRequest
    /\ u \in agents
    /\ status[i] = "pending"
    /\ u = Owner[i]
    /\ Platform[i] = "gateway"
    /\ now + d <= MaxTime
    /\ req' = [req EXCEPT ![r] = [pc |-> "move", item |-> i, inst |-> p,
                                  delay |-> d, fire |-> now + d]]
    /\ UNCHANGED <<row, now, marker, disp, copies, faults, cancelAck>>

\* UPDATE scheduled_at ... WHERE status = 'pending'; rows changed not looked at.
RescheduleUpdate(r) ==
    /\ req[r].pc = "move"
    /\ LET i == req[r].item IN
       at' = IF status[i] = "pending" THEN [at EXCEPT ![i] = req[r].fire] ELSE at
    /\ req' = [req EXCEPT ![r].pc = "remark"]
    /\ UNCHANGED <<status, failedAt, agents, now, marker, disp, copies, faults, cancelAck>>

RescheduleReply(r) == MarkAndReply(r, "remark", MoveGrace)

\* A handler stops early: a statement fails, or the client disconnects and the
\* handler's future is dropped at its await.
RequestEnds(r) ==
    /\ req[r] # NoRequest
    /\ req' = [req EXCEPT ![r] = NoRequest]
    /\ UNCHANGED <<row, now, marker, disp, copies, faults, cancelAck>>

-----------------------------------------------------------------------------
(* The dispatcher: main's one-second loop over dispatch_due, one item after *)
(* the other.                                                               *)

\* MUTANTS of Due: the status, or the time, is not compared again.
DueWhateverStatus(i) == status[i] # "absent" /\ at[i] <= now
DueAtOnce(i) == status[i] = "pending"

\* The condition of dispatch_due's SELECT, checked again by process_delayed.
Due(i) == status[i] = "pending" /\ at[i] <= now

Resting(p) == disp[p].stage = "scan" /\ disp[p].todo = {}

\* dispatch_due's SELECT.  The order of the pass is left open.
SelectDue(p) ==
    /\ Resting(p)
    /\ disp' = [disp EXCEPT ![p].todo = {i \in Items : Due(i)}]
    /\ UNCHANGED <<row, now, marker, req, copies, faults, cancelAck>>

\* process_delayed's SELECT: go on only with a row that is still pending and due.
LoadRow(p, i) ==
    /\ disp[p].stage = "scan"
    /\ i \in disp[p].todo
    /\ disp' = [disp EXCEPT ![p] =
                  [stage |-> IF Due(i) THEN "send" ELSE "scan",
                   todo |-> disp[p].todo \ {i},
                   item |-> IF Due(i) THEN i ELSE NoItem,
                   result |-> "none"]]
    /\ UNCHANGED <<row, now, marker, req, copies, faults, cancelAck>>

\* The SELECT fails: the item waits for a later pass.
LoadFails(p, i) ==
    /\ disp[p].stage = "scan"
    /\ i \in disp[p].todo
    /\ faults[p] < MaxFaults
    /\ disp' = [disp EXCEPT ![p].todo = @ \ {i}]
    /\ faults' = [faults EXCEPT ![p] = @ + 1]
    /\ UNCHANGED <<row, now, marker, req, copies, cancelAck>>

\* What the send can come to: does the recipient get the message, and what does
\* the dispatcher learn.  A gateway call that times out may have been served.
\* The webchat INSERT ... SELECT FROM agents writes no row, and reports no
\* error, once the agent is gone.
SendOutcomes(i) ==
    CASE Platform[i] = "gateway" ->
           {[got |-> TRUE, result |-> "ok"], [got |-> FALSE, result |-> "error"],
            [got |-> TRUE, result |-> "error"]}
      [] Platform[i] = "webchat" ->
           {[got |-> Owner[i] \in agents, result |-> "ok"],
            [got |-> FALSE, result |-> "error"]}
      [] Platform[i] = "unsupported" ->
           {[got |-> FALSE, result |-> "error"]}

Send(p) ==
    /\ disp[p].stage = "send"
    /\ \E o \in SendOutcomes(disp[p].item) :
         /\ disp' = [disp EXCEPT ![p].stage = "record", ![p].result = o.result]
         /\ copies' = IF o.got THEN [copies EXCEPT ![p][disp[p].item] = @ + 1]
                               ELSE copies
    /\ UNCHANGED <<row, now, marker, req, faults, cancelAck>>

\* MUTANTS of Outcome: the error is dropped; a failed item is left for the next pass.
OutcomeDropsError(result) == "sent"
OutcomeRetries(result) == IF result = "ok" THEN "sent" ELSE "pending"

\* The status the attempt ends in.
Outcome(result) == IF result = "ok" THEN "sent" ELSE "failed"

\* UPDATE ... SET status WHERE id: unconditional.  The marker is cleared only
\* after a successful send.
Record(p) ==
    /\ disp[p].stage = "record"
    /\ LET i == disp[p].item
           ok == disp[p].result = "ok" IN
       /\ status' = IF ~Exists(i) THEN status
                    ELSE [status EXCEPT ![i] = Outcome(disp[p].result)]
       /\ failedAt' = IF ok \/ ~Exists(i) THEN failedAt ELSE [failedAt EXCEPT ![i] = now]
       /\ marker' = IF ok THEN [marker EXCEPT ![p][i] = 0] ELSE marker
    /\ disp' = [disp EXCEPT ![p] = [Idle EXCEPT !.todo = disp[p].todo]]
    /\ UNCHANGED <<at, agents, now, req, copies, faults, cancelAck>>

\* The UPDATE fails: the error is returned or logged, and the row is as it was.
RecordFails(p) ==
    /\ disp[p].stage = "record"
    /\ faults[p] < MaxFaults
    /\ disp' = [disp EXCEPT ![p] = [Idle EXCEPT !.todo = disp[p].todo]]
    /\ faults' = [faults EXCEPT ![p] = @ + 1]
    /\ UNCHANGED <<row, now, marker, req, copies, cancelAck>>

\* archive_stale_failed, which the same loop runs every 3600 ticks.
Archive(p) ==
    /\ Resting(p)
    /\ status' = [i \in Items |->
                     IF status[i] = "failed" /\ failedAt[i] + StaleAge < now
                     THEN "archived" ELSE status[i]]
    /\ UNCHANGED <<at, failedAt, agents, now, marker, disp, req, copies, faults, cancelAck>>

-----------------------------------------------------------------------------
(* The surroundings                                                         *)

\* p dies and a new process takes its place: memory is lost, requests with it.
Crash(p) ==
    /\ faults[p] < MaxFaults
    /\ faults' = [faults EXCEPT ![p] = @ + 1]
    /\ disp' = [disp EXCEPT ![p] = Idle]
    /\ marker' = [marker EXCEPT ![p] = [i \in Items |-> 0]]
    /\ req' = [r \in Requests |->
                 IF req[r] # NoRequest /\ req[r].inst = p THEN NoRequest ELSE req[r]]
    /\ UNCHANGED <<row, now, copies, cancelAck>>

\* purge_member, one transaction: the agent's pending rows go, the others stay
\* under the placeholder identity, and the account is deleted.
PurgeMember(u) ==
    /\ u \in agents
    /\ agents' = agents \ {u}
    /\ status' = [i \in Items |-> IF Owner[i] = u /\ status[i] = "pending"
                                  THEN "purged" ELSE status[i]]
    /\ UNCHANGED <<at, failedAt, now, marker, disp, req, copies, faults, cancelAck>>

\* A marker that expires is as good as none.
Tick ==
    /\ now < MaxTime
    /\ now' = now + 1
    /\ marker' = [p \in Instances |->
                    [i \in Items |-> IF marker[p][i] <= now + 1 THEN 0 ELSE marker[p][i]]]
    /\ UNCHANGED <<row, disp, req, copies, faults, cancelAck>>

-----------------------------------------------------------------------------

RequestStep(r) ==
    \/ \E p \in Instances, i \in Items, d \in Delays : ScheduleInsert(r, p, i, d)
    \/ ScheduleReply(r)
    \/ \E p \in Instances, u \in Agents, i \in Items : StartCancel(r, p, u, i)
    \/ \E p \in Instances, u \in Agents, i \in Items : StartRecall(r, p, u, i)
    \/ CancelCheck(r)
    \/ CancelUpdate(r)
    \/ \E p \in Instances, u \in Agents, i \in Items, d \in Delays :
         StartReschedule(r, p, u, i, d)
    \/ RescheduleUpdate(r)
    \/ RescheduleReply(r)
    \/ RequestEnds(r)

DispatcherStep(p) ==
    \/ SelectDue(p)
    \/ \E i \in Items : LoadRow(p, i)
    \/ Send(p)
    \/ Record(p)

FaultStep(p) ==
    \/ \E i \in Items : LoadFails(p, i)
    \/ RecordFails(p)
    \/ Crash(p)

Next ==
    \/ \E r \in Requests : RequestStep(r)
    \/ \E p \in Instances : DispatcherStep(p)
    \/ \E p \in Instances : FaultStep(p)
    \/ \E p \in Instances : Archive(p)
    \/ \E u \in Agents : PurgeMember(u)
    \/ Tick

Spec == Init /\ [][Next]_vars

\* The loop never returns and each of its awaits ends: the HTTP client has a
\* ten-second timeout, a statement returns or fails.
FairSpec == Spec /\ WF_vars(Tick) /\ \A p \in Instances : WF_vars(DispatcherStep(p))

-----------------------------------------------------------------------------
(* What holds                                                               *)

\* A dispatcher hands a message over at most once more than its process crashed
\* or its database calls failed: process_delayed claims only a pending row, and
\* whatever the attempt comes to settles the row unless a fault intervenes.
OneCopyPerFault ==
    \A p \in Instances, i \in Items : copies[p][i] <= 1 + faults[p]

\* A row says "sent" only if the message reached its recipient or the account of
\* the scheduling agent was purged: process_delayed takes an INSERT ... SELECT
\* that wrote no row for a success, so only the purge of the pending row and of
\* the agent in one transaction keeps "sent" honest.
SentWasDelivered ==
    \A i \in Items : status[i] = "sent" => Delivered(i) \/ Owner[i] \notin agents

\* Once a client was told that a message is cancelled, the message is never
\* pending again, although cancel_delayed does not look at what its UPDATE changed.
CancelAckStands ==
    \A i \in cancelAck : status[i] \in Settled

\* A message that is settled and that no dispatcher holds is out of reach: no later
\* step delivers it, claims it or changes its status, except failed -> archived.
\* So a cancellation that lands before any dispatcher read the row is final.
Finished(i) == status[i] \in Settled /\ \A p \in Instances : ~Holds(p, i)

FinishedStaysFinished ==
    [][\A i \in Items : Finished(i) =>
         /\ status'[i] = status[i] \/ (status[i] = "failed" /\ status'[i] = "archived")
         /\ Finished(i)'
         /\ \A p \in Instances : copies'[p][i] = copies[p][i]]_vars

\* A message whose fire time cannot be moved is not handed over before it, whatever
\* instance, restart or failed attempt the hand-over comes from.
SendsOnTime ==
    [][\A p \in Instances, i \in Items :
         Platform[i] = "webchat" /\ copies'[p][i] # copies[p][i] => at[i] <= now]_vars

\* Every pending message is settled in the end: dispatched, failed, cancelled or
\* purged, even with one sequential loop for all messages, and crashes in between.
PendingIsSettled ==
    []<>(\A i \in Items : status[i] # "pending")

\* The implementation of the abstract lifecycle: a dispatcher's claim is the row it
\* works on, its attempt is over once it is about to record the outcome.
Lifecycle == INSTANCE SendLifecycle WITH
    phase <- status,
    claim <- [p \in Instances |->
                IF disp[p].stage = "scan" THEN NoItem ELSE disp[p].item],
    tried <- [p \in Instances |-> disp[p].stage = "record"]

ImplementsLifecycle == Lifecycle!Spec

-----------------------------------------------------------------------------
(* Why it holds: the inductive invariant                                    *)

\* A row that a dispatcher works on, or that a cancellation has checked, was there
\* to be read; rows never come back to "absent".
ReadRowsExist ==
    /\ \A p \in Instances : disp[p].stage # "scan" => status[disp[p].item] # "absent"
    /\ \A r \in Requests : req[r].pc = "cancel" => status[req[r].item] # "absent"

\* The one copy an instance may hand over without a fault: it is still to come as
\* long as the row is pending or p is about to send, and spent otherwise.
CopyCredit ==
    \A p \in Instances, i \in Items :
      /\ copies[p][i] > faults[p] =>
           /\ copies[p][i] = 1 + faults[p]
           /\ status[i] \in Settled \/ (disp[p].stage = "record" /\ disp[p].item = i)
      /\ disp[p].stage = "send" /\ disp[p].item = i => copies[p][i] <= faults[p]

\* A result "ok" waiting to be recorded is a delivery, or the sender was purged.
OkWasDelivered ==
    \A p \in Instances : disp[p].stage = "record" /\ disp[p].result = "ok"
      => Delivered(disp[p].item) \/ Owner[disp[p].item] \notin agents

\* Only a gateway's message is ever being moved, so that a webchat message about to be
\* handed over is still due, whatever happened since its row was read.
FixedTimesStand ==
    /\ \A r \in Requests : req[r].pc = "move" => Platform[req[r].item] = "gateway"
    /\ \A p \in Instances :
         disp[p].stage = "send" /\ Platform[disp[p].item] = "webchat"
           => at[disp[p].item] <= now

\* The conjunction that every step preserves: what a row says of its delivery and what a
\* client was told of a cancellation stays true, an instance has copies left to hand over
\* only as far as its faults go (OneCopyPerFault), and a time that cannot be moved is kept
\* to (SendsOnTime).  Proved in DelayedMessagesProofs.
Inv ==
    /\ TypeOK
    /\ ReadRowsExist
    /\ CopyCredit
    /\ OkWasDelivered
    /\ SentWasDelivered
    /\ CancelAckStands
    /\ FixedTimesStand

-----------------------------------------------------------------------------
(* What the documents say and the code does not do                          *)

\* Rust_CRD.md: "at-most-once delivery via an idempotency check against existing
\* delivered records".
AtMostOnceDelivery ==
    \A i \in Items, p \in Instances :
      /\ copies[p][i] <= 1
      /\ copies[p][i] = 1 => \A q \in Instances \ {p} : copies[q][i] = 0

\* Rust_CRD.md: "A cancelled message is never delivered".  Stated for what a client
\* was told, with the message not yet handed over when it was told so.
CancelledIsNotDelivered ==
    [][\A i \in cancelAck : \A p \in Instances : copies'[p][i] = copies[p][i]]_vars

\* Rust_CRD.md: "sent: terminal. Reached from pending when platform delivery
\* succeeds".
SentMeansDelivered ==
    \A i \in Items : status[i] = "sent" => Delivered(i)

\* Rust_CRD.md, cancelled: "Reached only from pending and only strictly before the
\* fire time".
CancelledBeforeFireTime ==
    [][\A i \in Items :
         status[i] # "cancelled" /\ status'[i] = "cancelled" => now < at[i]]_vars

\* state.rs: markers are "present while an item is still cancellable".
CancellableIsMarked ==
    \A i \in Items :
      /\ status[i] = "pending" /\ now < at[i]
      /\ \A r \in Requests : req[r].item # i
      => \E p \in Instances : marker[p][i] > now

=============================================================================
