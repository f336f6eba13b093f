------------------------ MODULE DelayedMessagesProofs ------------------------
(***************************************************************************)
(* Proofs about DelayedMessages, for any number of messages, instances,     *)
(* requests and faults.  TypeOK is inductive; the safety properties follow  *)
(* from Inv, which adds what a dispatcher and a request know of the row     *)
(* they read.                                                               *)
(***************************************************************************)
EXTENDS DelayedMessages, TLAPS

USE DelayedAssumption DEF DelayedAssumption

\* Every reachable state is well typed: the rows, both kinds of tasks and the
\* markers stay in the sets they are declared over.
LEMMA InitTypeOK == Init => TypeOK
  BY DEF Init, TypeOK, Statuses, Idle, DispatcherStates, NoRequest, RequestStates

\* What a request in progress carries, by the point it has reached.
LEMMA RequestShape ==
  ASSUME NEW q \in RequestStates
  PROVE  /\ q.pc \in {"check", "cancel"} =>
              q \in [pc : {"check", "cancel"}, item : Items, inst : Instances]
         /\ q.pc \in {"mark", "move", "remark"} =>
              q \in [pc : {"mark", "move", "remark"}, item : Items, inst : Instances,
                     delay : Delays, fire : Nat]
  BY DEF RequestStates, NoRequest

\* The steps of a request handler keep the types.
LEMMA RequestTypeOK ==
  ASSUME TypeOK, NEW r \in Requests, RequestStep(r)
  PROVE  TypeOK'
<1> USE DEF TypeOK, Statuses
<1>1. ASSUME NEW p \in Instances, NEW i \in Items, NEW d \in Delays,
             ScheduleInsert(r, p, i, d)
      PROVE  TypeOK'
  <2>1. now + d \in Nat
    OBVIOUS
  <2>2. req' \in [Requests -> RequestStates]
    BY <1>1, <2>1 DEF ScheduleInsert, RequestStates
  <2> QED BY <1>1, <2>1, <2>2 DEF ScheduleInsert, row
<1>2. ASSUME NEW pc, NEW g \in Nat, MarkAndReply(r, pc, g), pc \in {"mark", "remark"}
      PROVE  TypeOK'
  <2>1. /\ req[r] \in [pc : {"mark", "move", "remark"}, item : Items, inst : Instances,
                      delay : Delays, fire : Nat]
    BY <1>2, RequestShape DEF MarkAndReply
  <2>2. now + req[r].delay + g \in Nat
    <3>1. req[r].delay \in Nat
      BY <2>1
    <3> QED BY <3>1
  <2> QED BY <1>2, <2>1, <2>2 DEF MarkAndReply, row, RequestStates
<1>3. ASSUME NEW p \in Instances, NEW u \in Agents, NEW i \in Items,
             StartCancel(r, p, u, i) \/ StartRecall(r, p, u, i)
      PROVE  TypeOK'
  <2>1. [pc |-> "check", item |-> i, inst |-> p] \in RequestStates
    BY DEF RequestStates
  <2> QED BY <1>3, <2>1 DEF StartCancel, StartRecall, row
<1>4. CASE CancelCheck(r)
  <2>1. req[r] \in [pc : {"check", "cancel"}, item : Items, inst : Instances]
    BY <1>4, RequestShape DEF CancelCheck
  <2> QED BY <1>4, <2>1 DEF CancelCheck, row, RequestStates
<1>5. CASE CancelUpdate(r)
  <2>1. req[r] \in [pc : {"check", "cancel"}, item : Items, inst : Instances]
    BY <1>5, RequestShape DEF CancelUpdate
  <2> QED BY <1>5, <2>1 DEF CancelUpdate, row, RequestStates
<1>6. ASSUME NEW p \in Instances, NEW u \in Agents, NEW i \in Items, NEW d \in Delays,
             StartReschedule(r, p, u, i, d)
      PROVE  TypeOK'
  <2>1. now + d \in Nat
    OBVIOUS
  <2>2. req' \in [Requests -> RequestStates]
    BY <1>6, <2>1 DEF StartReschedule, RequestStates
  <2> QED BY <1>6, <2>2 DEF StartReschedule, row
<1>7. CASE RescheduleUpdate(r)
  <2>1. req[r] \in [pc : {"mark", "move", "remark"}, item : Items, inst : Instances,
                   delay : Delays, fire : Nat]
    BY <1>7, RequestShape DEF RescheduleUpdate
  <2>2. [req[r] EXCEPT !.pc = "remark"] \in RequestStates
    BY <2>1 DEF RequestStates
  <2> QED BY <1>7, <2>1, <2>2 DEF RescheduleUpdate, row
<1>8. CASE RequestEnds(r)
  BY <1>8 DEF RequestEnds, row, RequestStates
<1> QED BY <1>1, <1>2, <1>3, <1>4, <1>5, <1>6, <1>7, <1>8
        DEF RequestStep, ScheduleReply, RescheduleReply

\* What a dispatcher works on, by the stage it is in.
LEMMA DispatcherShape ==
  ASSUME NEW q \in DispatcherStates
  PROVE  /\ q.todo \in SUBSET Items
         /\ q.stage = "scan" =>
              q \in [stage : {"scan"}, todo : SUBSET Items, item : {NoItem}, result : {"none"}]
         /\ q.stage = "send" =>
              q \in [stage : {"send"}, todo : SUBSET Items, item : Items, result : {"none"}]
         /\ q.stage = "record" =>
              q \in [stage : {"record"}, todo : SUBSET Items, item : Items,
                     result : {"ok", "error"}]
  BY DEF DispatcherStates

\* An attempt to deliver a message comes to "ok" or "error".
LEMMA SendResult ==
  ASSUME NEW i \in Items, NEW o \in SendOutcomes(i)
  PROVE  o.result \in {"ok", "error"}
<1>1. Platform[i] \in {"webchat", "gateway", "unsupported"}
  OBVIOUS
<1> QED BY <1>1 DEF SendOutcomes

\* The steps of a dispatcher and the faults keep the types.
LEMMA DispatcherTypeOK ==
  ASSUME TypeOK, NEW p \in Instances,
         DispatcherStep(p) \/ FaultStep(p) \/ Archive(p)
  PROVE  TypeOK'
<1> USE DEF TypeOK, Statuses, row
<1> disp[p] \in DispatcherStates
  OBVIOUS
<1>1. CASE SelectDue(p)
  <2>1. {i \in Items : Due(i)} \in SUBSET Items
    OBVIOUS
  <2>2. [disp[p] EXCEPT !.todo = {i \in Items : Due(i)}] \in DispatcherStates
    BY <1>1, <2>1, DispatcherShape DEF SelectDue, Resting, DispatcherStates
  <2> QED BY <1>1, <2>2 DEF SelectDue
<1>2. ASSUME NEW i \in Items, LoadRow(p, i) PROVE TypeOK'
  BY <1>2, DispatcherShape DEF LoadRow, DispatcherStates
<1>3. CASE Send(p)
  <2>1. disp[p] \in [stage : {"send"}, todo : SUBSET Items, item : Items, result : {"none"}]
    BY <1>3, DispatcherShape DEF Send
  <2>2. PICK o \in SendOutcomes(disp[p].item) :
          /\ disp' = [disp EXCEPT ![p].stage = "record", ![p].result = o.result]
          /\ copies' = IF o.got THEN [copies EXCEPT ![p][disp[p].item] = @ + 1]
                                ELSE copies
    BY <1>3 DEF Send
  <2>3. disp' \in [Instances -> DispatcherStates]
    <3>1. o.result \in {"ok", "error"}
      BY <2>1, <2>2, SendResult
    <3>2. [[disp[p] EXCEPT !.stage = "record"] EXCEPT !.result = o.result] \in DispatcherStates
      BY <2>1, <3>1 DEF DispatcherStates
    <3> QED BY <2>2, <3>2
  <2>4. copies' \in [Instances -> [Items -> Nat]]
    <3>1. copies[p][disp[p].item] + 1 \in Nat
      BY <2>1
    <3> QED BY <2>1, <2>2, <3>1
  <2> QED BY <1>3, <2>3, <2>4 DEF Send
<1>4. CASE Record(p)
  <2>1. disp[p] \in [stage : {"record"}, todo : SUBSET Items, item : Items,
                    result : {"ok", "error"}]
    BY <1>4, DispatcherShape DEF Record, Outcome
  <2>2. [Idle EXCEPT !.todo = disp[p].todo] \in DispatcherStates
    BY <2>1 DEF Idle, DispatcherStates
  <2> QED BY <1>4, <2>1, <2>2 DEF Record, Outcome
<1>5. ASSUME NEW i \in Items, LoadFails(p, i) PROVE TypeOK'
  <2>1. [disp[p] EXCEPT !.todo = @ \ {i}] \in DispatcherStates
    BY <1>5, DispatcherShape DEF LoadFails, DispatcherStates
  <2> QED BY <1>5, <2>1 DEF LoadFails
<1>6. CASE RecordFails(p)
  <2>1. [Idle EXCEPT !.todo = disp[p].todo] \in DispatcherStates
    BY DispatcherShape DEF Idle, DispatcherStates
  <2> QED BY <1>6, <2>1 DEF RecordFails
<1>7. CASE Crash(p)
  <2>1. Idle \in DispatcherStates /\ NoRequest \in RequestStates
    BY DEF Idle, DispatcherStates, RequestStates
  <2> QED BY <1>7, <2>1 DEF Crash
<1>8. CASE Archive(p)
  BY <1>8 DEF Archive
<1> QED BY <1>1, <1>2, <1>3, <1>4, <1>5, <1>6, <1>7, <1>8 DEF DispatcherStep, FaultStep

LEMMA TypeOKStep == TypeOK /\ [Next]_vars => TypeOK'
<1> SUFFICES ASSUME TypeOK, [Next]_vars PROVE TypeOK'
  OBVIOUS
<1>1. CASE UNCHANGED vars
  BY <1>1 DEF vars, TypeOK
<1>2. ASSUME NEW u \in Agents, PurgeMember(u) PROVE TypeOK'
  BY <1>2 DEF PurgeMember, TypeOK, Statuses
<1>3. CASE Tick
  BY <1>3 DEF Tick, TypeOK, row
<1> QED BY <1>1, <1>2, <1>3, RequestTypeOK, DispatcherTypeOK DEF Next

\* The types hold in every reachable state.
THEOREM TypeCorrect == Spec => []TypeOK
<1> QED BY InitTypeOK, TypeOKStep, PTL DEF Spec

-----------------------------------------------------------------------------
(* How a step may change what the invariant speaks of                       *)

\* Statuses move away from "absent" and never out of the settled ones.
LEMMA StatusStep ==
  ASSUME TypeOK, [Next]_vars, NEW i \in Items
  PROVE  /\ status[i] # "absent" => status'[i] # "absent"
         /\ status[i] \in Settled => status'[i] \in Settled
<1> USE DEF TypeOK, Statuses, Settled, row
<1>1. CASE UNCHANGED vars
  BY <1>1 DEF vars
<1>2. ASSUME NEW r \in Requests, RequestStep(r) PROVE status' = status \/
          (\E k \in Items : \/ status[k] = "absent" /\ status' = [status EXCEPT ![k] = "pending"]
                            \/ status[k] = "pending" /\ status' = [status EXCEPT ![k] = "cancelled"])
  <2>1. CASE CancelUpdate(r)
    <3>1. req[r].item \in Items
      BY <2>1, RequestShape DEF CancelUpdate
    <3> QED BY <2>1, <3>1 DEF CancelUpdate
  <2>2. CASE ~CancelUpdate(r)
    BY <1>2, <2>2 DEF RequestStep, ScheduleInsert, ScheduleReply, RescheduleReply,
       MarkAndReply, StartCancel, StartRecall, CancelCheck, StartReschedule,
       RescheduleUpdate, RequestEnds
  <2> QED BY <2>1, <2>2
<1>3. ASSUME NEW p \in Instances, Record(p)
      PROVE  status' = status \/ (/\ Exists(disp[p].item)
                                  /\ \E s \in {"sent", "failed"} :
                                       status' = [status EXCEPT ![disp[p].item] = s])
  BY <1>3 DEF Record, Outcome
<1>4. ASSUME NEW p \in Instances,
             DispatcherStep(p) \/ FaultStep(p), ~Record(p)
      PROVE  status' = status
  BY <1>4 DEF DispatcherStep, FaultStep, SelectDue, LoadRow, Send, LoadFails, RecordFails, Crash
<1>5. ASSUME NEW p \in Instances, Archive(p)
      PROVE  status'[i] = status[i] \/ (status[i] = "failed" /\ status'[i] = "archived")
  BY <1>5 DEF Archive
<1>6. ASSUME NEW u \in Agents, PurgeMember(u)
      PROVE  status'[i] = status[i] \/ (status[i] = "pending" /\ status'[i] = "purged")
  BY <1>6 DEF PurgeMember
<1>7. CASE Tick
  BY <1>7 DEF Tick
<1> QED
  <2>1. ASSUME NEW r \in Requests, RequestStep(r) PROVE
           /\ status[i] # "absent" => status'[i] # "absent"
           /\ status[i] \in Settled => status'[i] \in Settled
    BY <2>1, <1>2
  <2>2. ASSUME NEW p \in Instances, DispatcherStep(p) \/ FaultStep(p) PROVE
           /\ status[i] # "absent" => status'[i] # "absent"
           /\ status[i] \in Settled => status'[i] \in Settled
    BY <2>2, <1>3, <1>4 DEF Exists
  <2> QED BY <1>1, <2>1, <2>2, <1>5, <1>6, <1>7 DEF Next

\* A dispatcher that is at a row was at it before, or has just read it as due.
LEMMA DispStep ==
  ASSUME TypeOK, [Next]_vars, NEW p \in Instances, disp'[p].stage # "scan"
  PROVE  \/ disp'[p] = disp[p]
         \/ /\ disp[p].stage = "scan" /\ disp'[p].stage = "send"
            /\ Due(disp'[p].item)
         \/ /\ disp[p].stage = "send" /\ disp'[p].stage = "record"
            /\ disp'[p].item = disp[p].item
            /\ Send(p)
<1> USE DEF TypeOK, row
<1>1. CASE UNCHANGED vars
  BY <1>1 DEF vars
<1>2. ASSUME NEW r \in Requests, RequestStep(r) PROVE disp' = disp
  BY <1>2 DEF RequestStep, ScheduleInsert, ScheduleReply, RescheduleReply, MarkAndReply,
     StartCancel, StartRecall, CancelCheck, CancelUpdate, StartReschedule,
     RescheduleUpdate, RequestEnds
<1>3. ASSUME NEW q \in Instances, SelectDue(q)
      PROVE  disp'[p] = disp[p]
  <2>1. disp'[q].stage = "scan"
    BY <1>3 DEF SelectDue, Resting, DispatcherStates
  <2>2. q # p
    BY <2>1
  <2> QED BY <1>3, <2>2 DEF SelectDue
<1>4. ASSUME NEW q \in Instances, NEW i \in Items, LoadRow(q, i)
      PROVE  disp'[p] = disp[p] \/ (/\ disp[p].stage = "scan" /\ disp'[p].stage = "send"
                                    /\ Due(disp'[p].item))
  <2>1. CASE q # p
    BY <1>4, <2>1 DEF LoadRow
  <2>2. CASE q = p
    <3>1. disp'[p] = [stage |-> IF Due(i) THEN "send" ELSE "scan", todo |-> disp[p].todo \ {i},
                      item |-> IF Due(i) THEN i ELSE NoItem, result |-> "none"]
      BY <1>4, <2>2 DEF LoadRow
    <3> QED BY <1>4, <2>2, <3>1 DEF LoadRow
  <2> QED BY <2>1, <2>2
<1>5. ASSUME NEW q \in Instances, Send(q)
      PROVE  disp'[p] = disp[p] \/ (/\ disp[p].stage = "send" /\ disp'[p].stage = "record"
                                    /\ disp'[p].item = disp[p].item
                                    /\ Send(p))
  <2>1. PICK o \in SendOutcomes(disp[q].item) :
          disp' = [disp EXCEPT ![q].stage = "record", ![q].result = o.result]
    BY <1>5 DEF Send
  <2>2. CASE q # p
    BY <2>1, <2>2
  <2>3. CASE q = p
    <3>1. disp'[p] = [[disp[p] EXCEPT !.stage = "record"] EXCEPT !.result = o.result]
      BY <2>1, <2>3
    <3>2. disp[p] \in [stage : {"send"}, todo : SUBSET Items, item : Items, result : {"none"}]
      BY <1>5, <2>3, DispatcherShape DEF Send
    <3>3. disp'[p].item = disp[p].item /\ disp'[p].stage = "record"
      BY <3>1, <3>2
    <3> QED BY <1>5, <2>3, <3>3 DEF Send
  <2> QED BY <2>2, <2>3
<1>6. ASSUME NEW q \in Instances, Record(q) \/ RecordFails(q) \/ Crash(q)
      PROVE  disp'[p] = disp[p]
  BY <1>6 DEF Record, Outcome, RecordFails, Crash, Idle
<1>7. ASSUME NEW q \in Instances, NEW i \in Items, LoadFails(q, i)
      PROVE  disp'[p] = disp[p]
  <2>1. disp'[q].stage = "scan"
    BY <1>7 DEF LoadFails, DispatcherStates
  <2>2. q # p
    BY <2>1
  <2> QED BY <1>7, <2>2 DEF LoadFails
<1>8. ASSUME NEW q \in Instances, Archive(q) PROVE disp' = disp
  BY <1>8 DEF Archive
<1>9. ASSUME NEW u \in Agents, PurgeMember(u) PROVE disp' = disp
  BY <1>9 DEF PurgeMember
<1>10. CASE Tick
  BY <1>10 DEF Tick
<1> QED BY <1>1, <1>2, <1>3, <1>4, <1>5, <1>6, <1>7, <1>8, <1>9, <1>10
        DEF Next, DispatcherStep, FaultStep

\* Only a dispatcher's send hands over a copy, of the message it holds; faults are
\* never forgotten and purged agents never return.
LEMMA CopyStep ==
  ASSUME TypeOK, [Next]_vars
  PROVE  /\ agents' \subseteq agents
         /\ \A p \in Instances : faults'[p] >= faults[p]
         /\ \/ copies' = copies
            \/ \E p \in Instances :
                 /\ Send(p)
                 /\ copies' = [copies EXCEPT ![p][disp[p].item] = @ + 1]
<1> USE DEF TypeOK, row
<1>1. CASE UNCHANGED vars
  BY <1>1 DEF vars
<1>2. ASSUME NEW r \in Requests, RequestStep(r)
      PROVE  agents' = agents /\ faults' = faults /\ copies' = copies
  BY <1>2 DEF RequestStep, ScheduleInsert, ScheduleReply, RescheduleReply, MarkAndReply,
     StartCancel, StartRecall, CancelCheck, CancelUpdate, StartReschedule,
     RescheduleUpdate, RequestEnds
<1>3. ASSUME NEW q \in Instances, DispatcherStep(q), ~Send(q)
      PROVE  agents' = agents /\ faults' = faults /\ copies' = copies
  BY <1>3 DEF DispatcherStep, SelectDue, LoadRow, Record
<1>4. ASSUME NEW q \in Instances, Send(q)
      PROVE  /\ agents' = agents /\ faults' = faults
             /\ \/ copies' = copies
                \/ copies' = [copies EXCEPT ![q][disp[q].item] = @ + 1]
  BY <1>4 DEF Send
<1>5. ASSUME NEW q \in Instances, FaultStep(q)
      PROVE  /\ agents' = agents /\ copies' = copies
             /\ faults' = [faults EXCEPT ![q] = @ + 1]
  BY <1>5 DEF FaultStep, LoadFails, RecordFails, Crash
<1>6. ASSUME NEW q \in Instances, Archive(q)
      PROVE  agents' = agents /\ faults' = faults /\ copies' = copies
  BY <1>6 DEF Archive
<1>7. ASSUME NEW u \in Agents, PurgeMember(u)
      PROVE  agents' \subseteq agents /\ faults' = faults /\ copies' = copies
  BY <1>7 DEF PurgeMember
<1>8. CASE Tick
  BY <1>8 DEF Tick
<1> QED
  <2>1. ASSUME NEW q \in Instances, DispatcherStep(q)
        PROVE  /\ agents' \subseteq agents
               /\ \A p \in Instances : faults'[p] >= faults[p]
               /\ \/ copies' = copies
                  \/ \E p \in Instances :
                       /\ Send(p)
                       /\ copies' = [copies EXCEPT ![p][disp[p].item] = @ + 1]
    <3>1. CASE Send(q)
      BY <1>4, <3>1
    <3>2. CASE ~Send(q)
      BY <1>3, <2>1, <3>2
    <3> QED BY <3>1, <3>2
  <2>2. ASSUME NEW q \in Instances, FaultStep(q)
        PROVE  agents' = agents /\ copies' = copies
               /\ \A p \in Instances : faults'[p] >= faults[p]
    <3>1. \A p \in Instances : faults[p] + 1 >= faults[p] /\ faults[p] >= faults[p]
      OBVIOUS
    <3> QED BY <2>2, <1>5, <3>1
  <2>3. \A p \in Instances : faults[p] >= faults[p]
    OBVIOUS
  <2> QED BY <1>1, <1>2, <2>1, <2>2, <2>3, <1>6, <1>7, <1>8 DEF Next

\* A cancellation about to update a row has just read it as pending, or had before.
LEMMA CancelStep ==
  ASSUME TypeOK, [Next]_vars, NEW r \in Requests, req'[r].pc = "cancel"
  PROVE  req'[r] = req[r] \/ status[req'[r].item] = "pending"
<1> USE DEF TypeOK, row, NoRequest
<1>1. CASE UNCHANGED vars
  BY <1>1 DEF vars
<1>2. ASSUME NEW k \in Requests, CancelCheck(k)
      PROVE  req'[r] = req[r] \/ status[req'[r].item] = "pending"
  BY <1>2 DEF CancelCheck
<1>3. ASSUME NEW k \in Requests, RequestStep(k), ~CancelCheck(k)
      PROVE  req'[r] = req[r]
  <2>1. CASE RescheduleUpdate(k)
    <3>1. req'[k].pc = "remark"
      BY <2>1, RequestShape DEF RescheduleUpdate
    <3> QED BY <2>1, <3>1 DEF RescheduleUpdate
  <2>2. CASE ~RescheduleUpdate(k)
    BY <1>3, <2>2 DEF RequestStep, ScheduleInsert, ScheduleReply, RescheduleReply,
       MarkAndReply, StartCancel, StartRecall, CancelUpdate, StartReschedule, RequestEnds
  <2> QED BY <2>1, <2>2
<1>4. ASSUME NEW q \in Instances, DispatcherStep(q) \/ FaultStep(q) \/ Archive(q)
      PROVE  req'[r] = req[r]
  BY <1>4 DEF DispatcherStep, FaultStep, SelectDue, LoadRow, Send, Record, Outcome, LoadFails,
     RecordFails, Crash, Archive
<1>5. ASSUME NEW u \in Agents, PurgeMember(u) PROVE req' = req
  BY <1>5 DEF PurgeMember
<1>6. CASE Tick
  BY <1>6 DEF Tick
<1> QED BY <1>1, <1>2, <1>3, <1>4, <1>5, <1>6 DEF Next

\* A dispatcher with an outcome to record keeps it, settles the row, or meets a fault.
LEMMA RecordStep ==
  ASSUME TypeOK, [Next]_vars, NEW p \in Instances, disp[p].stage = "record",
         status[disp[p].item] # "absent"
  PROVE  \/ disp'[p] = disp[p]
         \/ status'[disp[p].item] \in Settled
         \/ faults'[p] = faults[p] + 1
<1> USE DEF TypeOK, row
<1>0. disp[p].item \in Items
  BY DispatcherShape
<1>1. CASE UNCHANGED vars
  BY <1>1 DEF vars
<1>2. ASSUME NEW r \in Requests, RequestStep(r) PROVE disp' = disp
  BY <1>2 DEF RequestStep, ScheduleInsert, ScheduleReply, RescheduleReply, MarkAndReply,
     StartCancel, StartRecall, CancelCheck, CancelUpdate, StartReschedule,
     RescheduleUpdate, RequestEnds
<1>3. ASSUME NEW q \in Instances, DispatcherStep(q), ~Record(q)
      PROVE  disp'[p] = disp[p]
  BY <1>3 DEF DispatcherStep, SelectDue, LoadRow, Send, Resting
<1>4. ASSUME NEW q \in Instances, Record(q)
      PROVE  disp'[p] = disp[p] \/ status'[disp[p].item] \in Settled
  <2>1. CASE q = p
    BY <1>0, <1>4, <2>1 DEF Record, Outcome, Exists, Settled, Statuses
  <2>2. CASE q # p
    BY <1>4, <2>2 DEF Record, Outcome
  <2> QED BY <2>1, <2>2
<1>5. ASSUME NEW q \in Instances, FaultStep(q)
      PROVE  disp'[p] = disp[p] \/ faults'[p] = faults[p] + 1
  BY <1>5 DEF FaultStep, LoadFails, RecordFails, Crash
<1>6. ASSUME NEW q \in Instances, Archive(q) PROVE disp' = disp
  BY <1>6 DEF Archive
<1>7. ASSUME NEW u \in Agents, PurgeMember(u) PROVE disp' = disp
  BY <1>7 DEF PurgeMember
<1>8. CASE Tick
  BY <1>8 DEF Tick
<1> QED BY <1>1, <1>2, <1>3, <1>4, <1>5, <1>6, <1>7, <1>8 DEF Next

\* After a send, "ok" is only reported for a message that went out, or for a webchat
\* message whose sender is gone.
LEMMA SendHonest ==
  ASSUME TypeOK, NEW p \in Instances, Send(p), disp'[p].result = "ok"
  PROVE  /\ disp'[p].item = disp[p].item
         /\ \/ \E q \in Instances : copies'[q][disp[p].item] > 0
            \/ Owner[disp[p].item] \notin agents'
<1> USE DEF TypeOK, row
<1>1. disp[p] \in [stage : {"send"}, todo : SUBSET Items, item : Items, result : {"none"}]
  BY DispatcherShape DEF Send
<1>2. PICK o \in SendOutcomes(disp[p].item) :
        /\ disp' = [disp EXCEPT ![p].stage = "record", ![p].result = o.result]
        /\ copies' = IF o.got THEN [copies EXCEPT ![p][disp[p].item] = @ + 1]
                              ELSE copies
  BY DEF Send
<1>3. disp'[p].item = disp[p].item /\ o.result = "ok"
  BY <1>1, <1>2
<1>4. o.got \/ Owner[disp[p].item] \notin agents
  <2>1. Platform[disp[p].item] \in {"webchat", "gateway", "unsupported"}
    BY <1>1
  <2>2. CASE Platform[disp[p].item] = "gateway"
    BY <1>2, <1>3, <2>2 DEF SendOutcomes
  <2>3. CASE Platform[disp[p].item] = "webchat"
    <3>1. CASE Owner[disp[p].item] \in agents
      <4>1. SendOutcomes(disp[p].item) = {[got |-> TRUE, result |-> "ok"],
                                         [got |-> FALSE, result |-> "error"]}
        BY <2>3, <3>1 DEF SendOutcomes
      <4> QED BY <1>3, <4>1
    <3> QED BY <3>1
  <2>4. CASE Platform[disp[p].item] = "unsupported"
    BY <1>2, <1>3, <2>4 DEF SendOutcomes
  <2> QED BY <2>1, <2>2, <2>3, <2>4
<1>5. CASE o.got
  <2>1. copies'[p][disp[p].item] = copies[p][disp[p].item] + 1
    BY <1>1, <1>2, <1>5
  <2>2. copies'[p][disp[p].item] > 0
    BY <1>1, <2>1
  <2> QED BY <1>3, <2>2
<1>6. CASE ~o.got
  BY <1>3, <1>4, <1>6 DEF Send
<1> QED BY <1>5, <1>6

\* A row becomes "sent" only when a dispatcher records the result "ok" for it.
LEMMA SentStep ==
  ASSUME TypeOK, [Next]_vars, NEW i \in Items, status[i] # "sent", status'[i] = "sent"
  PROVE  \E p \in Instances : /\ disp[p].stage = "record" /\ disp[p].result = "ok"
                              /\ disp[p].item = i
<1> USE DEF TypeOK, row
<1>1. ~UNCHANGED vars
  BY DEF vars
<1>2. ASSUME NEW r \in Requests, RequestStep(r) PROVE FALSE
  BY <1>2 DEF RequestStep, ScheduleInsert, ScheduleReply, RescheduleReply, MarkAndReply,
     StartCancel, StartRecall, CancelCheck, CancelUpdate, StartReschedule,
     RescheduleUpdate, RequestEnds
<1>3. ASSUME NEW q \in Instances, Record(q)
      PROVE  /\ disp[q].stage = "record" /\ disp[q].result = "ok"
             /\ disp[q].item = i
  BY <1>3 DEF Record, Outcome
<1>4. ASSUME NEW q \in Instances, DispatcherStep(q) \/ FaultStep(q), ~Record(q) PROVE FALSE
  BY <1>4 DEF DispatcherStep, FaultStep, SelectDue, LoadRow, Send, LoadFails, RecordFails, Crash
<1>5. ASSUME NEW q \in Instances, Archive(q) PROVE FALSE
  BY <1>5 DEF Archive
<1>6. ASSUME NEW u \in Agents, PurgeMember(u) PROVE FALSE
  BY <1>6 DEF PurgeMember
<1>7. ~Tick
  BY DEF Tick
<1> QED BY <1>1, <1>2, <1>3, <1>4, <1>5, <1>6, <1>7 DEF Next

\* A cancellation is acknowledged by the step that updates the row.
LEMMA AckStep ==
  ASSUME TypeOK, [Next]_vars, NEW i \in cancelAck', i \notin cancelAck
  PROVE  \E r \in Requests : CancelUpdate(r) /\ req[r].item = i
<1> USE DEF row
<1>1. ~UNCHANGED vars
  BY DEF vars
<1>2. ASSUME NEW r \in Requests, RequestStep(r), ~CancelUpdate(r) PROVE FALSE
  BY <1>2 DEF RequestStep, ScheduleInsert, ScheduleReply, RescheduleReply, MarkAndReply,
     StartCancel, StartRecall, CancelCheck, StartReschedule, RescheduleUpdate, RequestEnds
<1>3. ASSUME NEW r \in Requests, CancelUpdate(r) PROVE req[r].item = i
  BY <1>3 DEF CancelUpdate
<1>4. ASSUME NEW q \in Instances, DispatcherStep(q) \/ FaultStep(q) \/ Archive(q) PROVE FALSE
  BY <1>4 DEF DispatcherStep, FaultStep, SelectDue, LoadRow, Send, Record, Outcome, LoadFails,
     RecordFails, Crash, Archive
<1>5. ASSUME NEW u \in Agents, PurgeMember(u) PROVE FALSE
  BY <1>5 DEF PurgeMember
<1>6. ~Tick
  BY DEF Tick
<1> QED BY <1>1, <1>2, <1>3, <1>4, <1>5, <1>6 DEF Next

-----------------------------------------------------------------------------
(* The invariant                                                            *)

LEMMA InitInv == Init => Inv
<1> SUFFICES ASSUME Init PROVE Inv
  OBVIOUS
<1>1. TypeOK
  BY InitTypeOK
<1> QED BY <1>1 DEF Init, Inv, ReadRowsExist, CopyCredit, OkWasDelivered,
           SentWasDelivered, CancelAckStands, FixedTimesStand, Idle, NoRequest

LEMMA ReadRowsExistStep ==
  ASSUME Inv, [Next]_vars
  PROVE  ReadRowsExist'
<1> USE DEF Inv
<1>0. TypeOK'
  BY TypeOKStep
<1>1. ASSUME NEW p \in Instances, disp'[p].stage # "scan"
      PROVE  status'[disp'[p].item] # "absent"
  <2>1. disp'[p] \in DispatcherStates
    BY <1>0 DEF TypeOK
  <2>2. disp'[p].item \in Items
    BY <1>1, <2>1 DEF DispatcherStates
  <2>3. status[disp'[p].item] # "absent"
    BY <1>1, DispStep DEF Due, ReadRowsExist
  <2> QED BY <2>2, <2>3, StatusStep
<1>2. ASSUME NEW r \in Requests, req'[r].pc = "cancel"
      PROVE  status'[req'[r].item] # "absent"
  <2>1. req'[r].item \in Items
    <3>1. req'[r] \in RequestStates
      BY <1>0 DEF TypeOK
    <3> QED BY <1>2, <3>1, RequestShape
  <2>2. status[req'[r].item] # "absent"
    BY <1>2, CancelStep DEF ReadRowsExist
  <2> QED BY <2>1, <2>2, StatusStep
<1> QED BY <1>1, <1>2 DEF ReadRowsExist

\* No instance hands a message over a second time without a fault in between.
LEMMA CopyCreditStep ==
  ASSUME Inv, [Next]_vars
  PROVE  CopyCredit'
<1> USE DEF Inv
<1>0. TypeOK'
  BY TypeOKStep
<1> SUFFICES ASSUME NEW p \in Instances, NEW i \in Items
    PROVE /\ copies'[p][i] > faults'[p] =>
               /\ copies'[p][i] = 1 + faults'[p]
               /\ status'[i] \in Settled \/ (disp'[p].stage = "record" /\ disp'[p].item = i)
          /\ disp'[p].stage = "send" /\ disp'[p].item = i => copies'[p][i] <= faults'[p]
  BY DEF CopyCredit
<1>1. /\ copies[p][i] \in Nat /\ copies'[p][i] \in Nat
      /\ faults[p] \in Nat /\ faults'[p] \in Nat
  BY <1>0 DEF TypeOK
<1>2. CASE Send(p) /\ disp[p].item = i
  <2>1. /\ copies[p][i] <= faults[p]
    BY <1>2 DEF CopyCredit, Send
  <2>2. disp'[p].stage = "record" /\ disp'[p].item = i
    <3>1. disp[p] \in [stage : {"send"}, todo : SUBSET Items, item : Items, result : {"none"}]
      BY <1>2, DispatcherShape DEF Send, TypeOK
    <3> QED BY <1>2, <3>1 DEF Send, TypeOK
  <2>3. copies'[p][i] <= copies[p][i] + 1 /\ faults'[p] = faults[p]
    BY <1>1, <1>2, CopyStep DEF Send, TypeOK
  <2> QED BY <1>1, <2>1, <2>2, <2>3
<1>3. CASE ~(Send(p) /\ disp[p].item = i)
  <2>1. copies'[p][i] = copies[p][i] /\ faults'[p] >= faults[p]
    <3>1. TypeOK
      OBVIOUS
    <3>2. faults'[p] >= faults[p]
      BY <3>1, CopyStep
    <3>3. CASE copies' = copies
      BY <3>2, <3>3
    <3>4. ASSUME NEW q \in Instances, Send(q),
                 copies' = [copies EXCEPT ![q][disp[q].item] = @ + 1]
          PROVE  copies'[p][i] = copies[p][i]
      <4>1. copies \in [Instances -> [Items -> Nat]]
        BY <3>1 DEF TypeOK
      <4>2. q # p \/ disp[q].item # i
        BY <3>4, <1>3
      <4> QED BY <3>4, <4>1, <4>2
    <3> QED BY <3>1, <3>2, <3>3, <3>4, CopyStep
  <2>2. ASSUME copies'[p][i] > faults'[p]
        PROVE  /\ copies'[p][i] = 1 + faults'[p]
               /\ status'[i] \in Settled \/ (disp'[p].stage = "record" /\ disp'[p].item = i)
    <3>1. /\ copies[p][i] > faults[p]
          /\ copies[p][i] = 1 + faults[p]
          /\ faults'[p] = faults[p]
      BY <1>1, <2>1, <2>2 DEF CopyCredit
    <3>2. CASE status[i] \in Settled
      BY <3>1, <2>1, <3>2, StatusStep
    <3>3. CASE disp[p].stage = "record" /\ disp[p].item = i
      <4>1. status[disp[p].item] # "absent"
        BY <3>3 DEF ReadRowsExist
      <4>2. faults'[p] # faults[p] + 1
        BY <1>1, <3>1
      <4>3. disp'[p] = disp[p] \/ status'[i] \in Settled
        BY <3>3, <4>1, <4>2, RecordStep
      <4> QED BY <3>1, <2>1, <3>3, <4>3
    <3> QED BY <3>1, <3>2, <3>3 DEF CopyCredit
  <2>3. ASSUME disp'[p].stage = "send", disp'[p].item = i
        PROVE  copies'[p][i] <= faults'[p]
    <3>1. copies[p][i] <= faults[p]
      <4>1. CASE disp'[p] = disp[p]
        BY <2>3, <4>1 DEF CopyCredit
      <4>2. CASE Due(disp'[p].item) /\ disp[p].stage = "scan"
        BY <1>1, <2>3, <4>2 DEF Due, CopyCredit, Settled
      <4> QED BY <2>3, <4>1, <4>2, DispStep
    <3> QED BY <1>1, <2>1, <3>1
  <2> QED BY <2>2, <2>3
<1> QED BY <1>2, <1>3

\* A row marked "sent" and a result "ok" both stand for a delivery or a purged sender.
LEMMA DeliveredStep ==
  ASSUME Inv, [Next]_vars
  PROVE  OkWasDelivered' /\ SentWasDelivered'
<1> USE DEF Inv
<1>0. TypeOK'
  BY TypeOKStep
<1> DEFINE Honest(i) == Delivered(i) \/ Owner[i] \notin agents
           HonestNext(i) == \/ \E q \in Instances : copies'[q][i] > 0
                            \/ Owner[i] \notin agents'
<1>1. ASSUME NEW i \in Items, Honest(i) PROVE HonestNext(i)
  <2>1. ASSUME NEW p \in Instances, copies[p][i] > 0 PROVE copies'[p][i] > 0
    <3>1. copies[p][i] \in Nat
      BY DEF TypeOK
    <3>2. copies'[p][i] = copies[p][i] \/ copies'[p][i] = copies[p][i] + 1
      <4>1. CASE copies' = copies
        BY <4>1
      <4>2. ASSUME NEW q \in Instances,
                   copies' = [copies EXCEPT ![q][disp[q].item] = @ + 1]
            PROVE  copies'[p][i] = copies[p][i] \/ copies'[p][i] = copies[p][i] + 1
        <5>1. copies \in [Instances -> [Items -> Nat]]
          BY DEF TypeOK
        <5> QED BY <4>2, <5>1
      <4> QED BY <4>1, <4>2, CopyStep
    <3> QED BY <2>1, <3>1, <3>2
  <2>2. agents' \subseteq agents
    BY CopyStep
  <2> QED BY <1>1, <2>1, <2>2 DEF Delivered
<1>2. ASSUME NEW p \in Instances, disp'[p].stage = "record", disp'[p].result = "ok"
      PROVE  HonestNext(disp'[p].item)
  <2>1. CASE disp'[p] = disp[p]
    <3>1. disp[p].item \in Items
      <4>1. disp[p] \in DispatcherStates
        BY DEF TypeOK
      <4> QED BY <1>2, <2>1, <4>1, DispatcherShape
    <3>2. Honest(disp[p].item)
      BY <1>2, <2>1 DEF OkWasDelivered
    <3>3. HonestNext(disp[p].item)
      BY <1>1, <3>1, <3>2
    <3> QED BY <2>1, <3>3
  <2>2. CASE Send(p)
    BY <1>2, <2>2, SendHonest
  <2> QED BY <1>2, <2>1, <2>2, DispStep
<1>3. ASSUME NEW i \in Items, status'[i] = "sent"
      PROVE  HonestNext(i)
  <2>1. CASE status[i] = "sent"
    BY <1>1, <2>1 DEF SentWasDelivered
  <2>2. CASE status[i] # "sent"
    <3>1. PICK p \in Instances : /\ disp[p].stage = "record" /\ disp[p].result = "ok"
                                 /\ disp[p].item = i
      BY <1>3, <2>2, SentStep
    <3>2. Honest(i)
      BY <3>1 DEF OkWasDelivered
    <3> QED BY <1>1, <3>2
  <2> QED BY <2>1, <2>2
<1>4. OkWasDelivered'
  BY <1>2 DEF OkWasDelivered, Delivered
<1>5. SentWasDelivered'
  BY <1>3 DEF SentWasDelivered, Delivered
<1> QED BY <1>4, <1>5

\* An acknowledged cancellation leaves the row settled.
LEMMA CancelAckStep ==
  ASSUME Inv, [Next]_vars
  PROVE  CancelAckStands'
<1> USE DEF Inv
<1> SUFFICES ASSUME NEW i \in cancelAck' PROVE status'[i] \in Settled
  BY DEF CancelAckStands
<1>1. i \in Items
  BY TypeOKStep DEF TypeOK
<1>2. CASE i \in cancelAck
  BY <1>1, <1>2, StatusStep DEF CancelAckStands
<1>3. CASE i \notin cancelAck
  <2>1. PICK r \in Requests : CancelUpdate(r) /\ req[r].item = i
    BY <1>3, AckStep
  <2>2. status[i] # "absent"
    BY <2>1 DEF CancelUpdate, ReadRowsExist
  <2> QED BY <1>1, <2>1, <2>2 DEF CancelUpdate, TypeOK, Statuses, Settled
<1> QED BY <1>2, <1>3

\* Fire times move in two ways only: a new row gets one, and a pending row the one a
\* request is about to write.
LEMMA MoveStep ==
  ASSUME TypeOK, [Next]_vars, NEW i \in Items, at'[i] # at[i]
  PROVE  \/ status[i] = "absent"
         \/ \E r \in Requests : req[r].pc = "move" /\ req[r].item = i
<1> USE DEF TypeOK, row
<1>1. CASE UNCHANGED vars
  BY <1>1 DEF vars
<1>2. ASSUME NEW r \in Requests, RequestStep(r)
      PROVE  status[i] = "absent" \/ (req[r].pc = "move" /\ req[r].item = i)
  <2>1. CASE \E p \in Instances, k \in Items, d \in Delays : ScheduleInsert(r, p, k, d)
    BY <2>1 DEF ScheduleInsert
  <2>2. CASE RescheduleUpdate(r)
    BY <2>2 DEF RescheduleUpdate
  <2>3. CASE UNCHANGED at
    BY <2>3
  <2> QED
    BY <1>2, <2>1, <2>2, <2>3 DEF RequestStep, ScheduleReply, RescheduleReply,
       MarkAndReply, StartCancel, StartRecall, CancelCheck, CancelUpdate,
       StartReschedule, RequestEnds
<1>3. ASSUME NEW q \in Instances, DispatcherStep(q) \/ FaultStep(q) \/ Archive(q)
      PROVE  at' = at
  BY <1>3 DEF DispatcherStep, FaultStep, SelectDue, LoadRow, Send, Record, LoadFails,
     RecordFails, Crash, Archive
<1>4. ASSUME NEW u \in Agents, PurgeMember(u) PROVE at' = at
  BY <1>4 DEF PurgeMember
<1>5. CASE Tick
  BY <1>5 DEF Tick
<1> QED BY <1>1, <1>2, <1>3, <1>4, <1>5 DEF Next

\* A request comes to move a message only by StartReschedule, for a gateway's message.
LEMMA MovingStep ==
  ASSUME TypeOK, [Next]_vars, NEW r \in Requests, req'[r].pc = "move"
  PROVE  req'[r] = req[r] \/ Platform[req'[r].item] = "gateway"
<1> USE DEF TypeOK, row
<1>1. CASE UNCHANGED vars
  BY <1>1 DEF vars
<1>2. ASSUME NEW o \in Requests, o # r, RequestStep(o) PROVE req'[r] = req[r]
  BY <1>2 DEF RequestStep, ScheduleInsert, ScheduleReply, RescheduleReply, MarkAndReply,
     StartCancel, StartRecall, CancelCheck, CancelUpdate, StartReschedule,
     RescheduleUpdate, RequestEnds
<1>3. CASE RequestStep(r)
  <2>1. ASSUME NEW p \in Instances, NEW u \in Agents, NEW i \in Items, NEW d \in Delays,
               StartReschedule(r, p, u, i, d)
        PROVE  Platform[req'[r].item] = "gateway"
    BY <2>1 DEF StartReschedule
  <2>2. ASSUME NEW p \in Instances, NEW i \in Items, NEW d \in Delays,
               ScheduleInsert(r, p, i, d)
        PROVE  FALSE
    BY <2>2 DEF ScheduleInsert
  <2>3. ASSUME NEW p \in Instances, NEW u \in Agents, NEW i \in Items,
               StartCancel(r, p, u, i) \/ StartRecall(r, p, u, i)
        PROVE  FALSE
    BY <2>3 DEF StartCancel, StartRecall
  <2>4. ASSUME ScheduleReply(r) \/ RescheduleReply(r) \/ CancelCheck(r) \/ CancelUpdate(r)
                 \/ RequestEnds(r)
        PROVE  FALSE
    BY <2>4 DEF ScheduleReply, RescheduleReply, MarkAndReply, CancelCheck, CancelUpdate,
       RequestEnds, NoRequest
  <2>5. ASSUME RescheduleUpdate(r) PROVE FALSE
    <3>1. req[r] \in [pc : {"mark", "move", "remark"}, item : Items, inst : Instances,
                      delay : Delays, fire : Nat]
      BY <2>5, RequestShape DEF RescheduleUpdate
    <3> QED BY <2>5, <3>1 DEF RescheduleUpdate
  <2> QED BY <1>3, <2>1, <2>2, <2>3, <2>4, <2>5 DEF RequestStep
<1>4. ASSUME NEW q \in Instances, Crash(q) PROVE req'[r] = req[r]
  BY <1>4 DEF Crash, NoRequest
<1>5. ASSUME NEW q \in Instances, DispatcherStep(q) \/ FaultStep(q) \/ Archive(q), ~Crash(q)
      PROVE  req' = req
  BY <1>5 DEF DispatcherStep, FaultStep, SelectDue, LoadRow, Send, Record, LoadFails,
     RecordFails, Archive
<1>6. ASSUME NEW u \in Agents, PurgeMember(u) PROVE req' = req
  BY <1>6 DEF PurgeMember
<1>7. CASE Tick
  BY <1>7 DEF Tick
<1> QED BY <1>1, <1>2, <1>3, <1>4, <1>5, <1>6, <1>7 DEF Next

\* The clock all instances read never goes back.
LEMMA ClockStep == TypeOK /\ [Next]_vars => now <= now'
<1> SUFFICES ASSUME TypeOK, [Next]_vars PROVE now <= now'
  OBVIOUS
<1> now \in Nat
  BY DEF TypeOK
<1>1. CASE UNCHANGED vars
  BY <1>1 DEF vars
<1>2. ASSUME NEW r \in Requests, RequestStep(r) PROVE now' = now
  BY <1>2 DEF RequestStep, ScheduleInsert, ScheduleReply, RescheduleReply, MarkAndReply,
     StartCancel, StartRecall, CancelCheck, CancelUpdate, StartReschedule,
     RescheduleUpdate, RequestEnds
<1>3. ASSUME NEW q \in Instances, DispatcherStep(q) \/ FaultStep(q) \/ Archive(q)
      PROVE  now' = now
  BY <1>3 DEF DispatcherStep, FaultStep, SelectDue, LoadRow, Send, Record, LoadFails,
     RecordFails, Crash, Archive
<1>4. ASSUME NEW u \in Agents, PurgeMember(u) PROVE now' = now
  BY <1>4 DEF PurgeMember
<1>5. CASE Tick
  BY <1>5 DEF Tick
<1> QED BY <1>1, <1>2, <1>3, <1>4, <1>5 DEF Next

\* A webchat message that a dispatcher is about to hand over stays due.
LEMMA FixedTimesStep ==
  ASSUME Inv, [Next]_vars
  PROVE  FixedTimesStand'
<1> USE DEF Inv
<1>1. ASSUME NEW r \in Requests, req'[r].pc = "move"
      PROVE  Platform[req'[r].item] = "gateway"
  BY <1>1, MovingStep DEF FixedTimesStand
<1>2. ASSUME NEW p \in Instances, disp'[p].stage = "send",
             Platform[disp'[p].item] = "webchat"
      PROVE  at'[disp'[p].item] <= now'
  <2>1. disp'[p] \in DispatcherStates
    BY TypeOKStep DEF TypeOK
  <2>2. disp'[p].item \in Items
    BY <1>2, <2>1, DispatcherShape
  <2>3. status[disp'[p].item] # "absent" /\ at[disp'[p].item] <= now
    BY <1>2, DispStep DEF Due, ReadRowsExist, FixedTimesStand
  <2>4. at'[disp'[p].item] = at[disp'[p].item]
    BY <1>2, <2>2, <2>3, MoveStep DEF FixedTimesStand
  <2>5. at[disp'[p].item] \in Nat /\ now \in Nat /\ now' \in Nat
    BY <2>2, TypeOKStep DEF TypeOK
  <2> QED BY <2>3, <2>4, <2>5, ClockStep
<1> QED BY <1>1, <1>2 DEF FixedTimesStand

LEMMA InvStep == Inv /\ [Next]_vars => Inv'
  BY TypeOKStep, ReadRowsExistStep, CopyCreditStep, DeliveredStep, CancelAckStep,
     FixedTimesStep DEF Inv

THEOREM InvHolds == Spec => []Inv
<1> QED BY InitInv, InvStep, PTL DEF Spec

\* No instance hands a message over more often than once plus once per crash or failed
\* database call: without faults, a single backend delivers at most once.
THEOREM OneCopyPerFaultHolds == Spec => []OneCopyPerFault
<1>1. Inv => OneCopyPerFault
  BY DEF Inv, CopyCredit, OneCopyPerFault, TypeOK
<1> QED BY <1>1, InvHolds, PTL

\* "sent" stands for a delivery unless the sender's account was purged.
THEOREM SentWasDeliveredHolds == Spec => []SentWasDelivered
<1>1. Inv => SentWasDelivered
  BY DEF Inv
<1> QED BY <1>1, InvHolds, PTL

\* What a client was told is cancelled is settled for good.
THEOREM CancelAckStandsHolds == Spec => []CancelAckStands
<1>1. Inv => CancelAckStands
  BY DEF Inv
<1> QED BY <1>1, InvHolds, PTL

-----------------------------------------------------------------------------
(* What a step may never do                                                 *)

LEMMA FinishedStep ==
  ASSUME TypeOK, [Next]_vars, NEW i \in Items, Finished(i)
  PROVE  /\ status'[i] = status[i] \/ (status[i] = "failed" /\ status'[i] = "archived")
         /\ Finished(i)'
         /\ \A p \in Instances : copies'[p][i] = copies[p][i]
<1> USE DEF TypeOK, row, Finished
<1>1. status'[i] = status[i] \/ (status[i] = "failed" /\ status'[i] = "archived")
  <2>1. CASE UNCHANGED vars
    BY <2>1 DEF vars
  <2>2. ASSUME NEW r \in Requests, RequestStep(r) PROVE status'[i] = status[i]
    <3>1. CASE CancelUpdate(r)
      BY <3>1 DEF CancelUpdate, Settled
    <3>2. CASE ~CancelUpdate(r)
      BY <2>2, <3>2 DEF RequestStep, ScheduleInsert, ScheduleReply, RescheduleReply,
         MarkAndReply, StartCancel, StartRecall, CancelCheck, StartReschedule,
         RescheduleUpdate, RequestEnds, Settled
    <3> QED BY <3>1, <3>2
  <2>3. ASSUME NEW q \in Instances, DispatcherStep(q) \/ FaultStep(q)
        PROVE  status'[i] = status[i]
    <3>1. CASE Record(q)
      BY <3>1 DEF Record, Outcome, Holds
    <3>2. CASE ~Record(q)
      BY <2>3, <3>2 DEF DispatcherStep, FaultStep, SelectDue, LoadRow, Send, LoadFails,
         RecordFails, Crash
    <3> QED BY <3>1, <3>2
  <2>4. ASSUME NEW q \in Instances, Archive(q)
        PROVE  status'[i] = status[i] \/ (status[i] = "failed" /\ status'[i] = "archived")
    BY <2>4 DEF Archive
  <2>5. ASSUME NEW u \in Agents, PurgeMember(u) PROVE status'[i] = status[i]
    BY <2>5 DEF PurgeMember, Settled
  <2>6. CASE Tick
    BY <2>6 DEF Tick
  <2> QED BY <2>1, <2>2, <2>3, <2>4, <2>5, <2>6 DEF Next
<1>2. Finished(i)'
  <2>1. status'[i] \in Settled
    BY StatusStep
  <2>2. ASSUME NEW p \in Instances, disp'[p].stage # "scan", disp'[p].item = i
        PROVE  FALSE
    BY <2>2, DispStep DEF Holds, Due, Settled
  <2> QED BY <2>1, <2>2 DEF Holds
<1>3. \A p \in Instances : copies'[p][i] = copies[p][i]
  <2>1. ASSUME NEW q \in Instances, Send(q) PROVE disp[q].item # i
    BY <2>1 DEF Send, Holds
  <2> QED BY <2>1, CopyStep
<1> QED BY <1>1, <1>2, <1>3

\* A settled message that no dispatcher holds is never delivered, claimed or changed
\* again, but for the archiving of a failed one.
THEOREM FinishedStaysFinishedHolds == Spec => FinishedStaysFinished
<1>1. TypeOK /\ [Next]_vars =>
        [\A i \in Items : Finished(i) =>
           /\ status'[i] = status[i] \/ (status[i] = "failed" /\ status'[i] = "archived")
           /\ Finished(i)'
           /\ \A p \in Instances : copies'[p][i] = copies[p][i]]_vars
  BY FinishedStep
<1> QED BY <1>1, TypeCorrect, PTL DEF Spec, FinishedStaysFinished

\* No instance hands a webchat message over before the time it was scheduled for, however
\* often instances crash, statements fail and the loop reads the row again.
THEOREM SendsOnTimeHolds == Spec => SendsOnTime
<1>1. Inv /\ [Next]_vars =>
        [\A p \in Instances, i \in Items :
           Platform[i] = "webchat" /\ copies'[p][i] # copies[p][i] => at[i] <= now]_vars
  <2> SUFFICES ASSUME Inv, [Next]_vars, NEW p \in Instances, NEW i \in Items,
                      Platform[i] = "webchat", copies'[p][i] # copies[p][i]
               PROVE  at[i] <= now
    OBVIOUS
  <2>1. copies \in [Instances -> [Items -> Nat]]
    BY DEF Inv, TypeOK
  <2>2. PICK q \in Instances :
          /\ Send(q)
          /\ copies' = [copies EXCEPT ![q][disp[q].item] = @ + 1]
    BY <2>1, CopyStep DEF Inv
  <2>3. disp[q].item = i
    BY <2>1, <2>2
  <2> QED BY <2>2, <2>3 DEF Send, Inv, FixedTimesStand
<1> QED BY <1>1, InvHolds, PTL DEF Spec, SendsOnTime

-----------------------------------------------------------------------------
(* The implementation of the abstract lifecycle                             *)

LEMMA InitImplements == Init => Lifecycle!Init
<1> SUFFICES ASSUME Init PROVE Lifecycle!Init
  OBVIOUS
<1>1. \A p \in Instances : disp[p].stage = "scan"
  BY DEF Init, Idle
<1>2. [p \in Instances |-> IF disp[p].stage = "scan" THEN NoItem ELSE disp[p].item]
        = [p \in Instances |-> NoItem]
  BY <1>1
<1>3. [p \in Instances |-> disp[p].stage = "record"] = [p \in Instances |-> FALSE]
  BY <1>1
<1> QED BY <1>2, <1>3 DEF Init, Lifecycle!Init

LEMMA StepImplements == TypeOK /\ [Next]_vars => [Lifecycle!Next]_(Lifecycle!vars)
<1> SUFFICES ASSUME TypeOK, [Next]_vars PROVE [Lifecycle!Next]_(Lifecycle!vars)
  OBVIOUS
<1> USE DEF TypeOK, row
<1>1. ASSUME UNCHANGED <<status, disp, copies>> PROVE UNCHANGED Lifecycle!vars
  BY <1>1 DEF Lifecycle!vars
<1>2. ASSUME NEW from, NEW to, UNCHANGED <<disp, copies>>, status' \in [Items -> Statuses],
             \A i \in Items : status'[i] # status[i] => status[i] = from /\ status'[i] = to
      PROVE  Lifecycle!Move(from, to)
  <2> DEFINE S == {i \in Items : status'[i] # status[i]}
  <2>1. S \in SUBSET {i \in Items : status[i] = from}
    BY <1>2
  <2>2. status' = [i \in Items |-> IF i \in S THEN to ELSE status[i]]
    BY <1>2
  <2> QED BY <1>2, <2>1, <2>2 DEF Lifecycle!Move
<1>3. CASE UNCHANGED vars
  BY <1>1, <1>3 DEF vars
<1>4. ASSUME NEW r \in Requests, RequestStep(r) PROVE [Lifecycle!Next]_(Lifecycle!vars)
  <2>1. ASSUME NEW p \in Instances, NEW i \in Items, NEW d \in Delays, ScheduleInsert(r, p, i, d)
        PROVE  Lifecycle!Move("absent", "pending")
    BY <1>2, <2>1 DEF ScheduleInsert, Statuses
  <2>2. CASE CancelUpdate(r)
    <3>1. Lifecycle!Move("pending", "cancelled")
      BY <1>2, <2>2 DEF CancelUpdate, Statuses
    <3> QED BY <3>1 DEF Lifecycle!Next
  <2>3. CASE /\ ~CancelUpdate(r)
             /\ ~\E p \in Instances, i \in Items, d \in Delays : ScheduleInsert(r, p, i, d)
    BY <1>1, <1>4, <2>3 DEF RequestStep, ScheduleReply, RescheduleReply, MarkAndReply,
       StartCancel, StartRecall, CancelCheck, StartReschedule, RescheduleUpdate, RequestEnds
  <2> QED BY <2>1, <2>2, <2>3 DEF Lifecycle!Next
<1>5. ASSUME NEW q \in Instances, SelectDue(q) PROVE UNCHANGED Lifecycle!vars
  <2>1. \A p \in Instances : disp'[p].stage = disp[p].stage /\ disp'[p].item = disp[p].item
    BY <1>5, DispatcherShape DEF SelectDue, Resting
  <2> QED BY <1>5, <2>1 DEF SelectDue, Lifecycle!vars
<1>6. ASSUME NEW q \in Instances, NEW i \in Items, LoadRow(q, i)
      PROVE  [Lifecycle!Next]_(Lifecycle!vars)
  <2>1. CASE Due(i)
    <3>1. disp' = [disp EXCEPT ![q] = [stage |-> "send", todo |-> disp[q].todo \ {i},
                                       item |-> i, result |-> "none"]]
      BY <1>6, <2>1 DEF LoadRow
    <3>2. [p \in Instances |-> IF disp'[p].stage = "scan" THEN NoItem ELSE disp'[p].item]
            = [[p \in Instances |-> IF disp[p].stage = "scan" THEN NoItem ELSE disp[p].item]
                 EXCEPT ![q] = i]
      BY <3>1
    <3>3. [p \in Instances |-> disp'[p].stage = "record"]
            = [p \in Instances |-> disp[p].stage = "record"]
      <4>1. \A p \in Instances : disp'[p].stage = "record" <=> disp[p].stage = "record"
        BY <1>6, <3>1 DEF LoadRow
      <4> QED BY <4>1
    <3>4. disp[q].stage = "scan" /\ status[i] = "pending" /\ status' = status
          /\ copies' = copies
      BY <1>6, <2>1 DEF LoadRow, Due
    <3>5. Lifecycle!Claim(q, i)
      BY <3>2, <3>3, <3>4 DEF Lifecycle!Claim
    <3> QED BY <3>5 DEF Lifecycle!Next
  <2>2. CASE ~Due(i)
    <3>1. disp' = [disp EXCEPT ![q] = [stage |-> "scan", todo |-> disp[q].todo \ {i},
                                       item |-> NoItem, result |-> "none"]]
      BY <1>6, <2>2 DEF LoadRow
    <3> QED BY <1>6, <3>1 DEF LoadRow, Lifecycle!vars
  <2> QED BY <2>1, <2>2
<1>7. ASSUME NEW q \in Instances, Send(q) PROVE [Lifecycle!Next]_(Lifecycle!vars)
  <2>1. disp[q] \in [stage : {"send"}, todo : SUBSET Items, item : Items, result : {"none"}]
    BY <1>7, DispatcherShape DEF Send
  <2>2. PICK o \in SendOutcomes(disp[q].item) :
          /\ disp' = [disp EXCEPT ![q].stage = "record", ![q].result = o.result]
          /\ copies' = IF o.got THEN [copies EXCEPT ![q][disp[q].item] = @ + 1]
                                ELSE copies
    BY <1>7 DEF Send
  <2>3. /\ \A p \in Instances : disp'[p].item = disp[p].item
        /\ \A p \in Instances \ {q} : disp'[p].stage = disp[p].stage
        /\ disp'[q].stage = "record"
    BY <2>1, <2>2
  <2>4. Lifecycle!Attempt(q)
    <3>1. status' = status
      BY <1>7 DEF Send
    <3>2. /\ copies' = [copies EXCEPT ![q][disp[q].item] = @ + 1]
          \/ copies' = copies
      BY <2>2
    <3>3. disp[q].stage = "send" /\ disp[q].item \in Items
      BY <2>1
    <3>4. disp[q].item # NoItem
      BY <3>3, DelayedAssumption
    <3>5. [p \in Instances |-> IF disp'[p].stage = "scan" THEN NoItem ELSE disp'[p].item]
            = [p \in Instances |-> IF disp[p].stage = "scan" THEN NoItem ELSE disp[p].item]
      BY <2>3, <3>3
    <3>6. [p \in Instances |-> disp'[p].stage = "record"]
            = [[p \in Instances |-> disp[p].stage = "record"] EXCEPT ![q] = TRUE]
      BY <2>3
    <3>7. [p \in Instances |-> IF disp[p].stage = "scan" THEN NoItem ELSE disp[p].item][q]
            = disp[q].item
      BY <3>3
    <3>8. ~[p \in Instances |-> disp[p].stage = "record"][q]
      BY <3>3
    <3> QED BY <3>1, <3>2, <3>4, <3>5, <3>6, <3>7, <3>8 DEF Lifecycle!Attempt
  <2> QED BY <2>4 DEF Lifecycle!Next
<1>8. ASSUME NEW q \in Instances, Record(q) PROVE [Lifecycle!Next]_(Lifecycle!vars)
  <2>1. disp[q] \in [stage : {"record"}, todo : SUBSET Items, item : Items,
                    result : {"ok", "error"}]
    BY <1>8, DispatcherShape DEF Record, Outcome
  <2>2. disp' = [disp EXCEPT ![q] = [Idle EXCEPT !.todo = disp[q].todo]] /\ copies' = copies
    BY <1>8 DEF Record, Outcome
  <2>3. \/ status' = status
        \/ /\ status[disp[q].item] \notin {"absent", "purged"}
           /\ \E s \in {"sent", "failed"} : status' = [status EXCEPT ![disp[q].item] = s]
    BY <1>8 DEF Record, Outcome, Exists
  <2>4. Lifecycle!Release(q)
    BY <2>1, <2>2, <2>3 DEF Lifecycle!Release, Idle
  <2> QED BY <2>4 DEF Lifecycle!Next
<1>9. ASSUME NEW q \in Instances, RecordFails(q) PROVE [Lifecycle!Next]_(Lifecycle!vars)
  <2>1. disp[q] \in [stage : {"record"}, todo : SUBSET Items, item : Items,
                    result : {"ok", "error"}]
    BY <1>9, DispatcherShape DEF RecordFails
  <2>2. Lifecycle!Release(q)
    BY <1>9, <2>1 DEF RecordFails, Lifecycle!Release, Idle
  <2> QED BY <2>2 DEF Lifecycle!Next
<1>10. ASSUME NEW q \in Instances, Crash(q) PROVE [Lifecycle!Next]_(Lifecycle!vars)
  <2>1. CASE disp[q].stage = "scan"
    BY <1>10, <2>1 DEF Crash, Lifecycle!vars, Idle
  <2>2. CASE disp[q].stage # "scan"
    <3>1. disp[q].item \in Items
      BY <2>2 DEF DispatcherStates
    <3>2. Lifecycle!Release(q)
      BY <1>10, <2>2, <3>1 DEF Crash, Lifecycle!Release, Idle
    <3> QED BY <3>2 DEF Lifecycle!Next
  <2> QED BY <2>1, <2>2
<1>11. ASSUME NEW q \in Instances, NEW i \in Items, LoadFails(q, i)
       PROVE  UNCHANGED Lifecycle!vars
  <2>1. \A p \in Instances : disp'[p].stage = disp[p].stage /\ disp'[p].item = disp[p].item
    BY <1>11, DispatcherShape DEF LoadFails
  <2> QED BY <1>11, <2>1 DEF LoadFails, Lifecycle!vars
<1>12. ASSUME NEW q \in Instances, Archive(q) PROVE [Lifecycle!Next]_(Lifecycle!vars)
  <2>1. Lifecycle!Move("failed", "archived")
    BY <1>2, <1>12 DEF Archive, Statuses
  <2> QED BY <2>1 DEF Lifecycle!Next
<1>13. ASSUME NEW u \in Agents, PurgeMember(u) PROVE [Lifecycle!Next]_(Lifecycle!vars)
  <2>1. Lifecycle!Move("pending", "purged")
    BY <1>2, <1>13 DEF PurgeMember, Statuses
  <2> QED BY <2>1 DEF Lifecycle!Next
<1>14. CASE Tick
  BY <1>1, <1>14 DEF Tick
<1> QED BY <1>3, <1>4, <1>5, <1>6, <1>7, <1>8, <1>9, <1>10, <1>11, <1>12, <1>13, <1>14
        DEF Next, DispatcherStep, FaultStep

\* Every behaviour of the code is one of the abstract lifecycle: whatever requests,
\* clocks, instances and faults do, a message is claimed only while it is pending and
\* a claim is worth one attempt.
THEOREM ImplementsLifecycleHolds == Spec => ImplementsLifecycle
<1> QED BY InitImplements, StepImplements, TypeCorrect, PTL
        DEF Spec, ImplementsLifecycle, Lifecycle!Spec

=============================================================================
