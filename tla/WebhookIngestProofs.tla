------------------------- MODULE WebhookIngestProofs -------------------------
(***************************************************************************)
(* Proofs about WebhookIngest, for any number of instances, calls, events,  *)
(* batches and faults: the invariant Inv, and from it the properties of the *)
(* conversation lock, of the reply ledger and of the follow-up work.         *)
(***************************************************************************)
EXTENDS WebhookIngest, TLAPS

USE WebhookAssumption DEF WebhookAssumption

States == MessageStates \cup FollowStates

\* What a call in progress carries.
LEMMA CallShape ==
  ASSUME TypeOK, CallsOnEvents, NEW x \in Calls, call[x] # Idle \/ call[x].pc # "idle"
  PROVE  /\ call[x] # Idle
         /\ call[x] \in [pc : States, inst : Instances, batch : Batches, k : Nat,
                         failed : BOOLEAN]
         /\ call[x].pc \in States /\ call[x].pc # "idle"
         /\ Inst(x) \in Instances
         /\ call[x].batch \in Batches
         /\ call[x].k \in 1..Len(call[x].batch)
         /\ call[x].failed \in BOOLEAN
         /\ Event(x) \in Events
         /\ Cust(x) \in Customers
<1>1. call[x] # Idle
  BY DEF Idle
<1>2. call[x] \in [pc : States, inst : Instances, batch : Batches, k : Nat,
                   failed : BOOLEAN]
  BY <1>1 DEF TypeOK, CallStates, States
<1>3. call[x].k \in 1..Len(call[x].batch)
  BY <1>1 DEF CallsOnEvents
<1>4. call[x].batch \in Batches
  BY <1>2
<1>5. Event(x) \in Events
  BY <1>3, <1>4 DEF Event
<1>6. Cust(x) \in Customers
  BY <1>5 DEF Cust
<1>7. call[x].pc \in States /\ call[x].pc # "idle"
  BY <1>2 DEF States, MessageStates, FollowStates
<1> QED BY <1>1, <1>2, <1>3, <1>4, <1>5, <1>6, <1>7 DEF Inst

\* x moves to the state s, with the event it works on, and no other call moves.
Moved(x, s) ==
  /\ call' \in [Calls -> CallStates]
  /\ \A y \in Calls \ {x} : call'[y] = call[y]
  /\ call'[x] # Idle
  /\ call'[x].pc = s
  /\ call'[x].batch = call[x].batch
  /\ call'[x].k = call[x].k
  /\ \A y \in Calls : Event(y)' = Event(y) /\ Inst(y)' = Inst(y) /\ Cust(y)' = Cust(y)

LEMMA GotoMoves ==
  ASSUME TypeOK, CallsOnEvents, NEW x \in Calls, call[x].pc # "idle", NEW s \in States,
         Goto(x, s)
  PROVE  Moved(x, s) /\ call'[x].failed = call[x].failed
<1>1. call[x] \in [pc : States, inst : Instances, batch : Batches, k : Nat,
                   failed : BOOLEAN]
  BY CallShape
<1>2. call' = [call EXCEPT ![x].pc = s]
  BY DEF Goto
<1>3. call \in [Calls -> CallStates]
  BY DEF TypeOK
<1>4. [call[x] EXCEPT !.pc = s] \in [pc : States, inst : Instances, batch : Batches,
                                     k : Nat, failed : BOOLEAN]
  BY <1>1
<1>5. call'[x] = [call[x] EXCEPT !.pc = s] /\ \A y \in Calls \ {x} : call'[y] = call[y]
  BY <1>2, <1>3
<1>6. call' \in [Calls -> CallStates]
  BY <1>2, <1>3, <1>4 DEF CallStates, States
<1>7. /\ call'[x].pc = s
      /\ call'[x].batch = call[x].batch
      /\ call'[x].k = call[x].k
      /\ call'[x].inst = call[x].inst
      /\ call'[x].failed = call[x].failed
  BY <1>1, <1>5
<1>8. call'[x] # Idle
  BY <1>7 DEF Idle, States, MessageStates, FollowStates
<1>9. \A y \in Calls : Event(y)' = Event(y) /\ Inst(y)' = Inst(y) /\ Cust(y)' = Cust(y)
  BY <1>5, <1>7 DEF Event, Inst, Cust
<1> QED BY <1>5, <1>6, <1>7, <1>8, <1>9 DEF Moved

LEMMA GotoPc ==
  ASSUME NEW x \in Calls, call \in [Calls -> CallStates],
         call[x] \in [pc : States, inst : Instances, batch : Batches, k : Nat,
                      failed : BOOLEAN]
  PROVE  /\ \A s : Goto(x, s) => call'[x].pc = s
         /\ FailEvent(x) => call'[x].pc = "next"
  BY DEF Goto, FailEvent

LEMMA FailMoves ==
  ASSUME TypeOK, CallsOnEvents, NEW x \in Calls, call[x].pc # "idle", FailEvent(x)
  PROVE  Moved(x, "next") /\ call'[x].failed = TRUE
<1>1. call[x] \in [pc : States, inst : Instances, batch : Batches, k : Nat,
                   failed : BOOLEAN]
  BY CallShape
<1>2. call' = [call EXCEPT ![x].pc = "next", ![x].failed = TRUE]
  BY DEF FailEvent
<1>3. call \in [Calls -> CallStates]
  BY DEF TypeOK
<1>4. "next" \in States
  BY DEF States, MessageStates
<1>5. [[call[x] EXCEPT !.pc = "next"] EXCEPT !.failed = TRUE]
        \in [pc : States, inst : Instances, batch : Batches, k : Nat, failed : BOOLEAN]
  BY <1>1, <1>4
<1>6. /\ call'[x] = [[call[x] EXCEPT !.pc = "next"] EXCEPT !.failed = TRUE]
      /\ \A y \in Calls \ {x} : call'[y] = call[y]
  BY <1>2, <1>3
<1>7. call' \in [Calls -> CallStates]
  BY <1>2, <1>3, <1>5 DEF CallStates, States
<1>8. /\ call'[x].pc = "next"
      /\ call'[x].batch = call[x].batch
      /\ call'[x].k = call[x].k
      /\ call'[x].inst = call[x].inst
      /\ call'[x].failed = TRUE
  BY <1>1, <1>6
<1>9. call'[x] # Idle
  BY <1>8 DEF Idle
<1>10. \A y \in Calls : Event(y)' = Event(y) /\ Inst(y)' = Inst(y) /\ Cust(y)' = Cust(y)
  BY <1>6, <1>8 DEF Event, Inst, Cust
<1> QED BY <1>6, <1>7, <1>8, <1>9, <1>10 DEF Moved

\* Letting go of a lock keeps the lock table a table, and changes x's entries only.
LEMMA UnlockedTable ==
  ASSUME TypeOK, NEW x \in Calls, Inst(x) \in Instances
  PROVE  /\ Unlocked(x) \in [Instances -> [Customers -> Calls \cup {NoCall}]]
         /\ \A p \in Instances, c \in Customers :
              Unlocked(x)[p][c] = IF p = Inst(x) /\ lock[p][c] = x THEN NoCall
                                                                   ELSE lock[p][c]
  BY DEF TypeOK, Unlocked

-----------------------------------------------------------------------------
(* The inductive invariant holds initially                                   *)

LEMMA InitInv == Init => Inv
<1> SUFFICES ASSUME Init PROVE Inv
  OBVIOUS
<1> USE DEF Init
<1>1. TypeOK
  BY DEF TypeOK, CallStates
<1>2. \A x \in Calls : call[x] = Idle /\ call[x].pc = "idle"
  BY DEF Idle
<1>3. \A p \in Instances, c \in Customers : lock[p][c] = NoCall
  OBVIOUS
<1>4. CallsOnEvents /\ OpensTheFirst /\ StoredSoFar
  BY <1>2 DEF CallsOnEvents, OpensTheFirst, StoredSoFar, At
<1>5. LocksAreHeld
  BY <1>2, <1>3 DEF LocksAreHeld, LockDiscipline
<1>6. SingleSender /\ ConfirmedIsOver
  BY <1>2 DEF SingleSender, ConfirmedIsOver, Sending
<1>7. AnnouncedFromOnePlace
  BY <1>2 DEF AnnouncedFromOnePlace, Ingesting
<1>8. OneConversationPerInstance /\ AckedIsStored
  BY DEF OneConversationPerInstance, AckedIsStored, Openers
<1> QED BY <1>1, <1>4, <1>5, <1>6, <1>7, <1>8 DEF Inv

-----------------------------------------------------------------------------
(* Types                                                                     *)

\* The steps of a call within an event.
PlainStep(x) ==
  \/ Dedupe(x) \/ Reserve(x) \/ TakeLock(x)
  \/ FindCustomer(x) \/ InsertCustomer(x) \/ CustomerConflict(x)
  \/ FindConversation(x) \/ InsertConversation(x)
  \/ Store(x) \/ Evaluate(x) \/ TakeAttempt(x) \/ RetakeAttempt(x)
  \/ SendReply(x) \/ RecordAttempt(x) \/ FollowUp(x)
  \/ Welcome(x) \/ DefaultWelcome(x)
  \/ StatementFails(x) \/ LedgerFails(x)

\* How such a step moves the call that makes it: on to a state of its event, with its lock kept,
\* taken or let go of.
LEMMA StepMoves ==
  ASSUME Inv, NEW x \in Calls, PlainStep(x)
  PROVE  /\ call[x].pc # "idle"
         /\ \E s \in States : Moved(x, s)
         /\ \/ lock' = lock
            \/ lock' = Unlocked(x)
            \/ /\ lock[Inst(x)][Cust(x)] = NoCall
               /\ lock' = [lock EXCEPT ![Inst(x)][Cust(x)] = x]
<1> USE DEF At, States, MessageStates, FollowStates
<1> TypeOK /\ CallsOnEvents
  BY DEF Inv
<1>1. CASE Dedupe(x)
  BY <1>1, GotoMoves DEF Dedupe
<1>2. CASE Reserve(x)
  BY <1>2, GotoMoves DEF Reserve
<1>3. CASE TakeLock(x)
  BY <1>3, GotoMoves DEF TakeLock
<1>4. CASE FindCustomer(x)
  BY <1>4, GotoMoves DEF FindCustomer, AfterCustomer
<1>5. CASE InsertCustomer(x)
  BY <1>5, GotoMoves DEF InsertCustomer, AfterCustomer
<1>6. CASE CustomerConflict(x)
  BY <1>6, FailMoves DEF CustomerConflict, FailEvent
<1>7. CASE FindConversation(x)
  BY <1>7, GotoMoves DEF FindConversation, AfterConversation
<1>8. CASE InsertConversation(x)
  BY <1>8, GotoMoves DEF InsertConversation, AfterConversation
<1>9. CASE Store(x)
  BY <1>9, GotoMoves DEF Store
<1>10. CASE Evaluate(x)
  <2>1. Reservable(Event(x)) \in {"take", "retake", "busy"}
    BY DEF Reservable
  <2> QED BY <1>10, <2>1, GotoMoves DEF Evaluate, AfterReply
<1>11. CASE TakeAttempt(x)
  BY <1>11, GotoMoves DEF TakeAttempt, AfterReply
<1>12. CASE RetakeAttempt(x)
  BY <1>12, GotoMoves DEF RetakeAttempt, AfterReply
<1>13. CASE SendReply(x)
  BY <1>13, GotoMoves DEF SendReply
<1>14. CASE RecordAttempt(x)
  BY <1>14, GotoMoves DEF RecordAttempt, AfterReply
<1>15. CASE FollowUp(x)
  BY <1>15, GotoMoves DEF FollowUp
<1>16. CASE Welcome(x)
  BY <1>16, GotoMoves DEF Welcome
<1>17. CASE DefaultWelcome(x)
  BY <1>17, GotoMoves DEF DefaultWelcome
<1>18. CASE StatementFails(x)
  BY <1>18, FailMoves DEF StatementFails, FailEvent
<1>19. CASE LedgerFails(x)
  BY <1>19, GotoMoves DEF LedgerFails, AfterReply
<1> QED
  BY <1>1, <1>2, <1>3, <1>4, <1>5, <1>6, <1>7, <1>8, <1>9, <1>10, <1>11, <1>12, <1>13,
     <1>14, <1>15, <1>16, <1>17, <1>18, <1>19 DEF PlainStep

LEMMA NextEventMoves ==
  ASSUME TypeOK, CallsOnEvents, NEW x \in Calls, NextEvent(x)
  PROVE  /\ call[x] # Idle
         /\ call' \in [Calls -> CallStates]
         /\ \A y \in Calls \ {x} : call'[y] = call[y]
         /\ \/ /\ call[x].k = Len(call[x].batch)
               /\ call'[x] = Idle
               /\ acked' = IF call[x].failed THEN acked ELSE acked \cup {call[x].batch}
            \/ /\ call[x].k < Len(call[x].batch)
               /\ call'[x] # Idle
               /\ call'[x].k = call[x].k + 1
               /\ call'[x].batch = call[x].batch
               /\ call'[x].inst = call[x].inst
               /\ call'[x].failed = call[x].failed
               /\ call'[x].pc = Start(call[x].batch[call[x].k + 1])
               /\ acked' = acked
<1> USE DEF At
<1>1. call[x].pc = "next"
  BY DEF NextEvent
<1>2. /\ call[x] \in [pc : States, inst : Instances, batch : Batches, k : Nat,
                     failed : BOOLEAN]
      /\ call[x] # Idle
      /\ call[x].k \in 1..Len(call[x].batch)
  BY <1>1, CallShape
<1>3. call \in [Calls -> CallStates] /\ Idle \in CallStates
  BY DEF TypeOK, CallStates
<1>4. Len(call[x].batch) \in Nat
  BY <1>2
<1>5. CASE call[x].k < Len(call[x].batch)
  <2> DEFINE s == Start(call[x].batch[call[x].k + 1])
  <2>1. call' = [call EXCEPT ![x].k = call[x].k + 1, ![x].pc = s] /\ acked' = acked
    BY <1>5 DEF NextEvent
  <2>2. s \in States
    BY DEF Start, States, MessageStates, FollowStates
  <2> HIDE DEF s
  <2>3. [[call[x] EXCEPT !.k = call[x].k + 1] EXCEPT !.pc = s]
          \in [pc : States, inst : Instances, batch : Batches, k : Nat, failed : BOOLEAN]
    <3>1. call[x].k + 1 \in Nat
      BY <1>2
    <3> QED BY <1>2, <2>2, <3>1
  <2>4. /\ call'[x] = [[call[x] EXCEPT !.k = call[x].k + 1] EXCEPT !.pc = s]
        /\ \A y \in Calls \ {x} : call'[y] = call[y]
    BY <1>3, <2>1
  <2>5. call' \in [Calls -> CallStates]
    BY <1>3, <2>1, <2>3 DEF CallStates, States
  <2>6. /\ call'[x].pc = s
        /\ call'[x].batch = call[x].batch
        /\ call'[x].k = call[x].k + 1
        /\ call'[x].inst = call[x].inst
        /\ call'[x].failed = call[x].failed
    BY <1>2, <2>4
  <2>7. call'[x] # Idle
    BY <2>2, <2>6 DEF Idle, States, MessageStates, FollowStates
  <2> QED BY <1>2, <1>5, <2>1, <2>4, <2>5, <2>6, <2>7 DEF s
<1>6. CASE ~(call[x].k < Len(call[x].batch))
  <2>1. /\ call' = [call EXCEPT ![x] = Idle]
        /\ acked' = IF call[x].failed THEN acked ELSE acked \cup {call[x].batch}
    BY <1>6 DEF NextEvent
  <2>2. call[x].k = Len(call[x].batch)
    BY <1>2, <1>4, <1>6
  <2> QED BY <1>2, <1>3, <2>1, <2>2
<1> QED BY <1>5, <1>6

\* A posted batch starts with its first event.
LEMMA DeliverMoves ==
  ASSUME TypeOK, NEW x \in Calls, NEW p \in Instances, NEW b \in Batches, Deliver(x, p, b)
  PROVE  /\ call[x] = Idle
         /\ call' \in [Calls -> CallStates]
         /\ \A y \in Calls \ {x} : call'[y] = call[y]
         /\ call'[x] # Idle
         /\ call'[x].pc = Start(b[1])
         /\ call'[x].inst = p
         /\ call'[x].batch = b
         /\ call'[x].k = 1
         /\ call'[x].failed = FALSE
<1>1. b[1] \in Events
  OBVIOUS
<1>2. Start(b[1]) \in {"dedupe", "reserve"}
  BY DEF Start
<1>3. call'[x] = [pc |-> Start(b[1]), inst |-> p, batch |-> b, k |-> 1, failed |-> FALSE]
  BY DEF Deliver, TypeOK
<1>4. call'[x] \in CallStates
  BY <1>2, <1>3 DEF CallStates, MessageStates, FollowStates
<1> QED BY <1>2, <1>3, <1>4 DEF Deliver, TypeOK, Idle

\* Every step keeps the types.
LEMMA TypeStep ==
  ASSUME Inv, Next
  PROVE  TypeOK'
<1> USE DEF rows, outside
<1> TypeOK /\ CallsOnEvents
  BY DEF Inv
<1>1. ASSUME NEW x \in Calls, PlainStep(x)
      PROVE  TypeOK'
  <2>1. /\ Event(x) \in Events /\ Inst(x) \in Instances /\ Cust(x) \in Customers
        /\ call' \in [Calls -> CallStates]
        /\ Event(x) \in Messages => call[x].pc \in MessageStates
        /\ Event(x) \in Follows => call[x].pc \in FollowStates
    BY <1>1, StepMoves, CallShape DEF Moved, CallsOnEvents
  <2>2. lock' \in [Instances -> [Customers -> Calls \cup {NoCall}]]
    <3>1. CASE lock' = lock
      BY <3>1 DEF TypeOK
    <3>2. CASE lock' = Unlocked(x)
      BY <2>1, <3>2, UnlockedTable
    <3>3. CASE lock' = [lock EXCEPT ![Inst(x)][Cust(x)] = x]
      BY <2>1, <3>3 DEF TypeOK
    <3> QED BY <1>1, <3>1, <3>2, <3>3, StepMoves
  <2> USE <2>1, <2>2 DEF At
  <2>3. CASE Dedupe(x) \/ Evaluate(x) \/ FindCustomer(x) \/ TakeLock(x) \/ CustomerConflict(x)
    BY <2>3 DEF Dedupe, Evaluate, FindCustomer, TakeLock, CustomerConflict, TypeOK
  <2>4. CASE Reserve(x)
    <3>1. Event(x) \in Follows
      BY <2>4 DEF Reserve, Events, MessageStates
    <3> QED BY <2>4, <3>1 DEF Reserve, TypeOK
  <2>5. CASE InsertCustomer(x)
    BY <2>5 DEF InsertCustomer, TypeOK
  <2>6. CASE FindConversation(x) \/ Store(x)
    <3>1. CASE FindConversation(x)
      BY <3>1 DEF FindConversation, TypeOK
    <3>2. CASE Store(x)
      <4>1. Event(x) \in Messages
        BY <3>2 DEF Store, Events, FollowStates
      <4>2. stored' \in SUBSET Messages
        BY <3>2, <4>1 DEF Store, TypeOK
      <4> QED BY <3>2, <4>2 DEF Store, TypeOK
    <3> QED BY <2>6, <3>1, <3>2
  <2>7. CASE InsertConversation(x)
    BY <2>7 DEF InsertConversation, Openers, TypeOK
  <2>8. CASE TakeAttempt(x) \/ RetakeAttempt(x)
    BY <2>8 DEF TakeAttempt, RetakeAttempt, TypeOK
  <2>9. CASE SendReply(x)
    <3>1. Event(x) \in Messages
      BY <2>9 DEF SendReply, Events, FollowStates
    <3>2. replies' \in [Messages -> Nat] /\ confirmed' \in SUBSET Messages
      <4>1. /\ replies' = [replies EXCEPT ![Event(x)] = @ + 1] \/ replies' = replies
            /\ confirmed' = confirmed \cup {Event(x)} \/ confirmed' = confirmed
        BY <2>9 DEF SendReply
      <4>2. replies' \in [Messages -> Nat]
        <5>1. replies \in [Messages -> Nat] /\ replies[Event(x)] + 1 \in Nat
          BY <3>1 DEF TypeOK
        <5> QED BY <3>1, <4>1, <5>1
      <4>3. confirmed' \in SUBSET Messages
        BY <3>1, <4>1 DEF TypeOK
      <4> QED BY <4>2, <4>3
    <3> QED BY <2>9, <3>2 DEF SendReply, TypeOK
  <2>10. CASE RecordAttempt(x)
    BY <2>10 DEF RecordAttempt, Outcome, TypeOK
  <2>11. CASE FollowUp(x)
    <3>1. Event(x) \in Messages
      BY <2>11 DEF FollowUp, Events, FollowStates
    <3>2. spawned' \in [Instances -> SUBSET Messages]
      BY <2>11, <3>1 DEF FollowUp, TypeOK
    <3> QED BY <2>11, <3>2 DEF FollowUp, TypeOK
  <2>12. CASE Welcome(x) \/ DefaultWelcome(x)
    <3>1. greeted' \in [Follows -> SUBSET {"rule", "default"}]
      <4>1. greeted' = greeted \/ \E how \in {"rule", "default"} : Greet(x, how)
        BY <2>12 DEF Welcome, DefaultWelcome
      <4>2. ASSUME NEW how \in {"rule", "default"}, Greet(x, how)
            PROVE  greeted' \in [Follows -> SUBSET {"rule", "default"}]
        BY <4>2 DEF Greet, TypeOK
      <4> QED BY <4>1, <4>2 DEF TypeOK
    <3> QED BY <2>12, <3>1 DEF Welcome, DefaultWelcome, TypeOK
  <2>13. CASE StatementFails(x) \/ LedgerFails(x)
    BY <2>13 DEF StatementFails, LedgerFails, Fault, TypeOK
  <2> QED
    BY <1>1, <2>3, <2>4, <2>5, <2>6, <2>7, <2>8, <2>9, <2>10, <2>11, <2>12, <2>13
       DEF PlainStep
<1>2. ASSUME NEW x \in Calls, NextEvent(x)
      PROVE  TypeOK'
  <2>1. call[x].batch \in Batches
    BY <1>2, CallShape, NextEventMoves
  <2>2. call' \in [Calls -> CallStates] /\ acked' \in SUBSET Batches
    BY <1>2, <2>1, NextEventMoves DEF TypeOK
  <2> QED BY <1>2, <2>2 DEF TypeOK, NextEvent
<1>3. ASSUME NEW x \in Calls, HangUp(x)
      PROVE  TypeOK'
  <2>1. Inst(x) \in Instances
    BY <1>3, CallShape DEF HangUp
  <2> QED BY <1>3, <2>1, UnlockedTable DEF TypeOK, HangUp, Fault, CallStates
<1>4. ASSUME NEW x \in Calls, NEW p \in Instances, NEW b \in Batches, Deliver(x, p, b)
      PROVE  TypeOK'
  <2>1. call' \in [Calls -> CallStates]
    BY <1>4, DeliverMoves
  <2>2. sends' \in [Batches -> Nat]
    BY <1>4 DEF TypeOK, Deliver
  <2> QED BY <1>4, <2>1, <2>2 DEF TypeOK, Deliver
<1>5. ASSUME NEW p \in Instances, NEW m \in Messages, Announce(p, m)
      PROVE  TypeOK'
  BY <1>5 DEF TypeOK, Announce
<1>6. ASSUME NEW c \in Customers, LiffRead(c) \/ LiffInsert(c)
      PROVE  TypeOK'
  <2>1. CASE LiffRead(c)
    BY <2>1 DEF TypeOK, LiffRead
  <2>2. CASE LiffInsert(c)
    <3>1. opened' \in [Openers -> [Customers -> Nat]]
      BY <2>2 DEF TypeOK, LiffInsert, Openers
    <3> QED BY <2>2, <3>1 DEF TypeOK, LiffInsert
  <2> QED BY <1>6, <2>1, <2>2
<1>7. ASSUME NEW p \in Instances, Crash(p)
      PROVE  TypeOK'
  BY <1>7 DEF TypeOK, Crash, Fault, CallStates
<1> QED BY <1>1, <1>2, <1>3, <1>4, <1>5, <1>6, <1>7 DEF Next, Posted, CallStep, CallFault, PlainStep

-----------------------------------------------------------------------------
(* Calls and locks                                                           *)

\* Every step leaves a call in a state of the kind of event it works on.
LEMMA CallsOnEventsStep ==
  ASSUME Inv, Next
  PROVE  CallsOnEvents'
<1> TypeOK /\ CallsOnEvents
  BY DEF Inv
<1> DEFINE Fits(y) == call[y] # Idle =>
             /\ call[y].k \in 1..Len(call[y].batch)
             /\ Event(y) \in Messages => call[y].pc \in MessageStates
             /\ Event(y) \in Follows => call[y].pc \in FollowStates
<1>1. \A y \in Calls : Fits(y)
  BY DEF CallsOnEvents
<1>2. SUFFICES \A y \in Calls : Fits(y)'
  BY DEF CallsOnEvents
<1>3. ASSUME NEW x \in Calls, PlainStep(x)
      PROVE  \A y \in Calls : Fits(y)'
  <2>1. /\ call[x] # Idle
        /\ \A y \in Calls \ {x} : call'[y] = call[y]
        /\ call'[x].k = call[x].k /\ call'[x].batch = call[x].batch
        /\ \A y \in Calls : Event(y)' = Event(y)
        /\ Event(x) \in Events
        /\ call[x] \in [pc : States, inst : Instances, batch : Batches, k : Nat,
                        failed : BOOLEAN]
    BY <1>3, StepMoves, CallShape DEF Moved
  <2>2. \A y \in Calls \ {x} : Fits(y)'
    BY <1>1, <2>1
  <2>3. /\ Event(x) \in Messages => call'[x].pc \in MessageStates
        /\ Event(x) \in Follows => call'[x].pc \in FollowStates
    <3> USE <1>1, <2>1 DEF At, MessageStates, FollowStates
    <3> call \in [Calls -> CallStates]
      BY DEF TypeOK
    <3>1. \A s : Goto(x, s) => call'[x].pc = s
      BY GotoPc
    <3>2. FailEvent(x) => call'[x].pc = "next"
      BY GotoPc
    <3>3. CASE Dedupe(x) \/ Reserve(x) \/ TakeLock(x)
      BY <3>1, <3>3 DEF Dedupe, Reserve, TakeLock
    <3>4. CASE FindCustomer(x) \/ InsertCustomer(x)
      BY <3>1, <3>4 DEF FindCustomer, InsertCustomer, AfterCustomer
    <3>5. CASE FindConversation(x) \/ InsertConversation(x)
      BY <3>1, <3>5 DEF FindConversation, InsertConversation, AfterConversation
    <3>6. CASE Store(x) \/ FollowUp(x) \/ SendReply(x) \/ Welcome(x) \/ DefaultWelcome(x)
      BY <3>1, <3>6 DEF Store, FollowUp, SendReply, Welcome, DefaultWelcome
    <3>7. CASE Evaluate(x) \/ TakeAttempt(x) \/ RetakeAttempt(x) \/ RecordAttempt(x) \/ LedgerFails(x)
      <4>1. Reservable(Event(x)) \in {"take", "retake", "busy"}
        BY DEF Reservable
      <4> QED
        BY <3>1, <3>7, <4>1
           DEF Evaluate, TakeAttempt, RetakeAttempt, RecordAttempt, LedgerFails, AfterReply
    <3>8. CASE CustomerConflict(x) \/ StatementFails(x)
      BY <3>2, <3>8 DEF CustomerConflict, StatementFails
    <3> QED BY <1>3, <3>3, <3>4, <3>5, <3>6, <3>7, <3>8 DEF PlainStep
  <2> QED BY <1>1, <2>1, <2>2, <2>3
<1>4. ASSUME NEW x \in Calls, NextEvent(x)
      PROVE  \A y \in Calls : Fits(y)'
  <2>1. /\ call[x] # Idle
        /\ call[x].k \in 1..Len(call[x].batch)
        /\ call[x].batch \in Batches
        /\ \A y \in Calls \ {x} : call'[y] = call[y]
    BY <1>4, NextEventMoves, CallShape
  <2>2. CASE call'[x] = Idle
    BY <1>1, <2>1, <2>2 DEF Event
  <2>3. CASE /\ call'[x].k = call[x].k + 1
             /\ call[x].k < Len(call[x].batch)
             /\ call'[x].batch = call[x].batch
             /\ call'[x].pc = Start(call[x].batch[call[x].k + 1])
    <3>1. call'[x].k \in 1..Len(call'[x].batch)
      BY <2>1, <2>3
    <3>2. call'[x].pc = Start(Event(x)')
      BY <2>3 DEF Event
    <3>3. Fits(x)'
      BY <3>1, <3>2 DEF Start, MessageStates, FollowStates
    <3> QED BY <1>1, <2>1, <3>3 DEF Event
  <2> QED BY <1>4, <2>2, <2>3, NextEventMoves
<1>5. ASSUME NEW x \in Calls, NEW p \in Instances, NEW b \in Batches, Deliver(x, p, b)
      PROVE  \A y \in Calls : Fits(y)'
  <2>1. /\ \A y \in Calls \ {x} : call'[y] = call[y]
        /\ call'[x].k = 1 /\ call'[x].batch = b
        /\ call'[x].pc = Start(b[1])
    BY <1>5, DeliverMoves
  <2>2. call'[x].k \in 1..Len(call'[x].batch)
    BY <2>1
  <2>3. call'[x].pc = Start(Event(x)')
    BY <2>1 DEF Event
  <2>4. Fits(x)'
    BY <2>2, <2>3 DEF Start, MessageStates, FollowStates
  <2> QED BY <1>1, <2>1, <2>4 DEF Event
<1>6. ASSUME NEW x \in Calls, HangUp(x)
      PROVE  \A y \in Calls : Fits(y)'
  BY <1>1, <1>6 DEF HangUp, TypeOK, Event
<1>7. ASSUME NEW p \in Instances, Crash(p)
      PROVE  \A y \in Calls : Fits(y)'
  BY <1>1, <1>7 DEF Crash, Event
<1>8. ASSUME UNCHANGED call
      PROVE  \A y \in Calls : Fits(y)'
  BY <1>1, <1>8 DEF Event
<1> QED
  BY <1>3, <1>4, <1>5, <1>6, <1>7, <1>8 DEF Next, Posted, CallStep, CallFault, PlainStep, Announce, LiffRead, LiffInsert

\* Where a step takes the call that makes it, in the form the lemmas below cite.
LEMMA StepPc ==
  ASSUME Inv, NEW x \in Calls, PlainStep(x)
  PROVE  /\ \A s : Goto(x, s) => call'[x].pc = s
         /\ FailEvent(x) => call'[x].pc = "next"
         /\ call[x] # Idle /\ call'[x] # Idle
         /\ call'[x].batch = call[x].batch /\ call'[x].k = call[x].k
         /\ \A y \in Calls \ {x} : call'[y] = call[y]
         /\ \A y \in Calls : Event(y)' = Event(y) /\ Inst(y)' = Inst(y) /\ Cust(y)' = Cust(y)
         /\ Event(x) \in Events /\ Inst(x) \in Instances /\ Cust(x) \in Customers
<1>1. TypeOK /\ CallsOnEvents
  BY DEF Inv
<1>2. call \in [Calls -> CallStates]
  BY <1>1 DEF TypeOK
<1>3. call[x].pc # "idle" /\ \E s \in States : Moved(x, s)
  BY StepMoves
<1> QED BY <1>1, <1>2, <1>3, CallShape, GotoPc DEF Moved

\* The locks of the other calls are as they were.
LEMMA OthersKeepLocks ==
  ASSUME TypeOK, NEW x \in Calls, NEW y \in Calls \ {x}, LockDiscipline(y),
         Inst(x) \in Instances, Cust(x) \in Customers,
         call'[y] = call[y], Event(y)' = Event(y), Inst(y)' = Inst(y), Cust(y)' = Cust(y),
         call[y].pc \in LockedStates => Inst(y) \in Instances /\ Cust(y) \in Customers,
         \/ lock' = lock
         \/ lock' = Unlocked(x)
         \/ /\ lock[Inst(x)][Cust(x)] = NoCall
            /\ lock' = [lock EXCEPT ![Inst(x)][Cust(x)] = x]
  PROVE  LockDiscipline(y)'
<1> y # NoCall
  OBVIOUS
<1>1. \A p \in Instances, c \in Customers : lock'[p][c] = y <=> lock[p][c] = y
  <2>1. CASE lock' = Unlocked(x)
    BY <2>1, UnlockedTable
  <2>2. CASE lock[Inst(x)][Cust(x)] = NoCall /\ lock' = [lock EXCEPT ![Inst(x)][Cust(x)] = x]
    BY <2>2 DEF TypeOK
  <2> QED BY <2>1, <2>2
<1> QED BY <1>1 DEF LockDiscipline, Holding, LockedStates

\* The discipline of a call that stays as it is and keeps its locks, and of one that is
\* back at the start and holds none.
LEMMA LockStays ==
  ASSUME NEW y \in Calls, LockDiscipline(y), call'[y] = call[y],
         call[y].pc \in LockedStates => Inst(y) \in Instances /\ Cust(y) \in Customers,
         \A p \in Instances, c \in Customers : lock'[p][c] = y <=> lock[p][c] = y
  PROVE  LockDiscipline(y)'
<1>1. Inst(y)' = Inst(y) /\ Cust(y)' = Cust(y) /\ Event(y)' = Event(y)
  BY DEF Inst, Cust, Event
<1>2. call[y].pc \in LockedStates => (Holding(y)' <=> Holding(y))
  BY <1>1 DEF Holding
<1> QED BY <1>1, <1>2 DEF LockDiscipline, LockedStates

LEMMA LockFree ==
  ASSUME NEW y \in Calls, call'[y].pc \in {"idle", "dedupe", "reserve"},
         \A p \in Instances, c \in Customers : lock'[p][c] # y
  PROVE  LockDiscipline(y)'
  BY DEF LockDiscipline

\* A lock is held by whom it protects, and by nobody who is done.
LEMMA LocksStep ==
  ASSUME Inv, Next
  PROVE  LocksAreHeld'
<1> TypeOK /\ CallsOnEvents
  BY DEF Inv
<1>1. \A y \in Calls : LockDiscipline(y)
  BY DEF Inv, LocksAreHeld
<1>2. \A y \in Calls : call[y].pc \in LockedStates =>
         Inst(y) \in Instances /\ Cust(y) \in Customers /\ call[y] # Idle
  BY CallShape DEF LockedStates
<1>3. SUFFICES \A y \in Calls : LockDiscipline(y)'
  BY DEF LocksAreHeld
<1>4. ASSUME NEW x \in Calls, PlainStep(x)
      PROVE  \A y \in Calls : LockDiscipline(y)'
  <2>1. \A y \in Calls \ {x} : LockDiscipline(y)'
    BY <1>1, <1>2, <1>4, StepPc, StepMoves, OthersKeepLocks
  <2>2. LockDiscipline(x)'
    <3> USE StepPc, <1>4
    <3>1. /\ Event(x) \in Messages => call[x].pc \in MessageStates
          /\ Event(x) \in Follows => call[x].pc \in FollowStates
      BY DEF CallsOnEvents
    <3>2. LockDiscipline(x)
      BY <1>1
    <3> USE <3>1, <3>2 DEF At, LockDiscipline, Holding, LockedStates, MessageStates,
                           FollowStates, Events
    <3>3. CASE lock' = Unlocked(x) /\ call'[x].pc \in {"next", "welcome"}
      <4> HIDE StepPc, <1>4, <3>1
      <4>1. Inst(x) \in Instances
        BY <1>4, StepPc, CallShape
      <4>2. \A p \in Instances, c \in Customers : lock'[p][c] # x
        BY <3>3, <4>1, UnlockedTable, WebhookAssumption
      <4> QED BY <3>3, <4>2
    <3>4. CASE TakeLock(x)
      BY <3>4 DEF TakeLock, TypeOK
    <3>5. CASE lock' = lock /\ (Dedupe(x) \/ Reserve(x))
      BY <3>5 DEF Dedupe, Reserve
    <3>6. CASE FindCustomer(x) \/ InsertCustomer(x)
      BY <3>6 DEF FindCustomer, InsertCustomer, AfterCustomer
    <3>7. CASE FindConversation(x) \/ InsertConversation(x)
      BY <3>3, <3>7 DEF FindConversation, InsertConversation, AfterConversation
    <3>8. CASE Store(x)
      BY <3>3, <3>8 DEF Store
    <3>9. CASE Evaluate(x) \/ TakeAttempt(x) \/ RetakeAttempt(x) \/ RecordAttempt(x) \/ LedgerFails(x)
      <4>1. Reservable(Event(x)) \in {"take", "retake", "busy"}
        BY DEF Reservable
      <4> QED
        BY <3>9, <4>1
           DEF Evaluate, TakeAttempt, RetakeAttempt, RecordAttempt, LedgerFails, AfterReply
    <3>10. CASE SendReply(x) \/ Welcome(x) \/ DefaultWelcome(x)
      BY <3>10 DEF SendReply, Welcome, DefaultWelcome
    <3>11. CASE FollowUp(x) \/ CustomerConflict(x) \/ StatementFails(x)
      BY <3>3, <3>11 DEF FollowUp, CustomerConflict, StatementFails, FailEvent
    <3> QED
      BY <3>4, <3>5, <3>6, <3>7, <3>8, <3>9, <3>10, <3>11
         DEF PlainStep, Dedupe, Reserve
  <2> QED BY <2>1, <2>2
<1>5. ASSUME NEW x \in Calls, NextEvent(x)
      PROVE  \A y \in Calls : LockDiscipline(y)'
  <2>1. /\ \A y \in Calls \ {x} : call'[y] = call[y]
        /\ lock' = lock
        /\ call'[x].pc \in {"idle", "dedupe", "reserve"}
    BY <1>5, NextEventMoves DEF NextEvent, Start, Idle
  <2>2. \A p \in Instances, c \in Customers : lock[p][c] # x
    BY <1>1, <1>5 DEF LockDiscipline, NextEvent, At, LockedStates
  <2>3. LockDiscipline(x)'
    BY <2>1, <2>2, LockFree
  <2> QED BY <1>1, <1>2, <2>1, <2>3, LockStays
<1>6. ASSUME NEW x \in Calls, NEW p \in Instances, NEW b \in Batches, Deliver(x, p, b)
      PROVE  \A y \in Calls : LockDiscipline(y)'
  <2>1. /\ \A y \in Calls \ {x} : call'[y] = call[y]
        /\ lock' = lock
        /\ call[x].pc = "idle"
        /\ call'[x].pc \in {"dedupe", "reserve"}
    <3>1. call'[x].pc = Start(b[1]) /\ call[x] = Idle
      BY <1>6, DeliverMoves
    <3> QED BY <1>6, <3>1, DeliverMoves DEF Deliver, Start, Idle
  <2>2. \A q \in Instances, c \in Customers : lock[q][c] # x
    BY <1>1, <2>1 DEF LockDiscipline, LockedStates
  <2>3. LockDiscipline(x)'
    BY <2>1, <2>2, LockFree
  <2> QED BY <1>1, <1>2, <2>1, <2>3, LockStays
<1>7. ASSUME NEW x \in Calls, HangUp(x)
      PROVE  \A y \in Calls : LockDiscipline(y)'
  <2>1. /\ \A y \in Calls \ {x} : call'[y] = call[y]
        /\ lock' = Unlocked(x)
        /\ call'[x].pc = "idle"
        /\ Inst(x) \in Instances
    BY <1>7, CallShape DEF HangUp, TypeOK, Idle
  <2>2. \A p \in Instances, c \in Customers, y \in Calls :
           lock'[p][c] = y <=> y # x /\ lock[p][c] = y
    <3>1. \A p \in Instances, c \in Customers : lock[p][c] = x => p = Inst(x)
      BY <1>1 DEF LockDiscipline
    <3> QED BY <2>1, <3>1, UnlockedTable
  <2>3. LockDiscipline(x)'
    BY <2>1, <2>2, LockFree
  <2>4. ASSUME NEW y \in Calls \ {x} PROVE LockDiscipline(y)'
    BY <1>1, <1>2, <2>1, <2>2, LockStays
  <2> QED BY <2>3, <2>4
<1>8. ASSUME NEW p \in Instances, Crash(p)
      PROVE  \A y \in Calls : LockDiscipline(y)'
  <2>1. \A y \in Calls : call'[y] = IF call[y] # Idle /\ Inst(y) = p THEN Idle ELSE call[y]
    BY <1>8 DEF Crash, Inst
  <2>2. \A q \in Instances, c \in Customers, y \in Calls :
           lock'[q][c] = y <=> q # p /\ lock[q][c] = y
    BY <1>8 DEF Crash, TypeOK
  <2>3. ASSUME NEW y \in Calls PROVE LockDiscipline(y)'
    <3>1. CASE call[y] # Idle /\ Inst(y) = p
      BY <1>1, <2>1, <2>2, <3>1 DEF LockDiscipline, Idle
    <3>2. CASE ~(call[y] # Idle /\ Inst(y) = p)
      <4>1. call'[y] = call[y] /\ Event(y)' = Event(y) /\ Inst(y)' = Inst(y) /\ Cust(y)' = Cust(y)
        BY <2>1, <3>2 DEF Event, Inst, Cust
      <4> QED BY <1>1, <1>2, <2>2, <3>2, <4>1 DEF LockDiscipline, Holding, LockedStates
    <3> QED BY <3>1, <3>2
  <2> QED BY <2>3
<1>9. ASSUME UNCHANGED <<call, lock>>
      PROVE  \A y \in Calls : LockDiscipline(y)'
  BY <1>1, <1>2, <1>9, LockStays
<1> QED
  BY <1>4, <1>5, <1>6, <1>7, <1>8, <1>9 DEF Next, Posted, CallStep, CallFault, PlainStep, Announce, LiffRead, LiffInsert

-----------------------------------------------------------------------------
(* Conversations                                                             *)

\* Who opens a conversation holds the lock and saw that there was none, so its
\* instance opens no second one.
LEMMA OpeningStep ==
  ASSUME Inv, Next
  PROVE  OpensTheFirst' /\ OneConversationPerInstance'
<1> TypeOK /\ CallsOnEvents /\ LocksAreHeld /\ OpensTheFirst /\ OneConversationPerInstance
  BY DEF Inv
<1> opened \in [Openers -> [Customers -> Nat]]
  BY DEF TypeOK
<1> DEFINE First(y) == At(y, "newConversation") => opened[Inst(y)][Cust(y)] = 0
<1>1. \A y \in Calls : First(y)
  BY DEF OpensTheFirst
<1>2. \A y \in Calls : call[y].pc \in LockedStates =>
         Inst(y) \in Instances /\ Cust(y) \in Customers /\ call[y] # Idle
  BY CallShape DEF LockedStates
<1>3. ASSUME NEW x \in Calls, InsertConversation(x)
      PROVE  OpensTheFirst' /\ OneConversationPerInstance'
  <2> USE <1>3, StepPc DEF PlainStep, InsertConversation, At, AfterConversation
  <2>1. Inst(x) \in Instances /\ Cust(x) \in Customers /\ call[x].pc = "newConversation"
    BY <1>2 DEF LockedStates
  <2>2. opened[Inst(x)][Cust(x)] = 0 /\ Holding(x)
    BY <1>1, <2>1 DEF LocksAreHeld, LockDiscipline
  <2>3. opened' = [opened EXCEPT ![Inst(x)][Cust(x)] = 1]
    BY <2>1, <2>2
  <2>4. OneConversationPerInstance'
    BY <2>1, <2>3 DEF OneConversationPerInstance, Openers
  <2>5. ASSUME NEW y \in Calls, At(y, "newConversation")'
        PROVE  opened'[Inst(y)'][Cust(y)'] = 0
    <3>1. call'[x].pc \in {"store", "welcome"}
      OBVIOUS
    <3>2. y # x /\ call'[y] = call[y]
      BY <2>5, <3>1
    <3>3. At(y, "newConversation") /\ Inst(y)' = Inst(y) /\ Cust(y)' = Cust(y)
      BY <2>5, <3>2 DEF Event, Inst, Cust
    <3>4. Holding(y) /\ Inst(y) \in Instances /\ Cust(y) \in Customers
      BY <1>2, <3>3 DEF LocksAreHeld, LockDiscipline, LockedStates
    <3>5. Inst(y) # Inst(x) \/ Cust(y) # Cust(x)
      BY <2>2, <3>2, <3>4 DEF Holding
    <3> QED BY <1>1, <2>1, <2>3, <3>3, <3>4, <3>5 DEF Openers
  <2> QED BY <2>4, <2>5 DEF OpensTheFirst
<1>4. ASSUME \A p \in Instances : opened'[p] = opened[p],
             \A y \in Calls : At(y, "newConversation")' =>
               \/ At(y, "newConversation") /\ Inst(y)' = Inst(y) /\ Cust(y)' = Cust(y)
               \/ /\ Inst(y)' \in Instances /\ Cust(y)' \in Customers
                  /\ opened[Inst(y)'][Cust(y)'] = 0
      PROVE  OpensTheFirst' /\ OneConversationPerInstance'
  <2>1. OneConversationPerInstance'
    BY <1>4 DEF OneConversationPerInstance
  <2>2. ASSUME NEW y \in Calls, At(y, "newConversation")'
        PROVE  opened'[Inst(y)'][Cust(y)'] = 0
    BY <1>1, <1>2, <1>4, <2>2 DEF At, LockedStates
  <2> QED BY <2>1, <2>2 DEF OpensTheFirst
<1>5. ASSUME NEW x \in Calls, FindConversation(x)
      PROVE  OpensTheFirst' /\ OneConversationPerInstance'
  <2> USE <1>5, StepPc DEF PlainStep, FindConversation, At, AfterConversation
  <2>1. opened' = opened
    BY DEF rows
  <2>2. ASSUME NEW y \in Calls, At(y, "newConversation")'
        PROVE  \/ At(y, "newConversation") /\ Inst(y)' = Inst(y) /\ Cust(y)' = Cust(y)
               \/ /\ Inst(y)' \in Instances /\ Cust(y)' \in Customers
                  /\ opened[Inst(y)'][Cust(y)'] = 0
    <3>1. CASE y = x
      <4>1. ~HasOpenConversation(Cust(x))
        BY <2>2, <3>1
      <4>2. opened[Inst(x)][Cust(x)] = 0
        BY <4>1 DEF HasOpenConversation, Openers
      <4> QED BY <3>1, <4>2
    <3>2. CASE y # x
      <4>1. call'[y] = call[y]
        BY <3>2
      <4> HIDE StepPc, <1>5 DEF FindConversation, AfterConversation, PlainStep
      <4> QED BY <2>2, <4>1 DEF Event, Inst, Cust
    <3> QED BY <3>1, <3>2
  <2> QED BY <1>4, <2>1, <2>2
<1>6. ASSUME NEW x \in Calls, PlainStep(x), ~InsertConversation(x), ~FindConversation(x)
      PROVE  OpensTheFirst' /\ OneConversationPerInstance'
  <2> USE StepPc, <1>6 DEF At
  <2>1. opened' = opened
    BY DEF PlainStep, Dedupe, Reserve, TakeLock, FindCustomer, InsertCustomer,
           CustomerConflict, Store, Evaluate, TakeAttempt, RetakeAttempt, SendReply,
           RecordAttempt, FollowUp, Welcome, DefaultWelcome, StatementFails, LedgerFails, rows
  <2>2. Reservable(Event(x)) \in {"take", "retake", "busy"}
    BY DEF Reservable
  <2>3. call'[x].pc # "newConversation"
    BY <2>2 DEF PlainStep, Dedupe, Reserve, TakeLock, FindCustomer, InsertCustomer,
           CustomerConflict, Store, Evaluate, TakeAttempt, RetakeAttempt, SendReply,
           RecordAttempt, FollowUp, Welcome, DefaultWelcome, StatementFails, LedgerFails,
           AfterCustomer, AfterReply
  <2>4. \A y \in Calls : At(y, "newConversation")' =>
           At(y, "newConversation") /\ Inst(y)' = Inst(y) /\ Cust(y)' = Cust(y)
    BY <2>3
  <2> QED BY <1>4, <2>1, <2>4
<1>7. ASSUME \A p \in Instances : opened'[p] = opened[p],
             \A y \in Calls : call'[y] = call[y] \/ call'[y].pc \in {"idle", "dedupe", "reserve"}
      PROVE  OpensTheFirst' /\ OneConversationPerInstance'
  <2>1. \A y \in Calls : At(y, "newConversation")' =>
           At(y, "newConversation") /\ Inst(y)' = Inst(y) /\ Cust(y)' = Cust(y)
    BY <1>7 DEF At, Event, Inst, Cust
  <2> QED BY <1>4, <1>7, <2>1
<1>8. ASSUME NEW x \in Calls, NextEvent(x) \/ HangUp(x)
      PROVE  OpensTheFirst' /\ OneConversationPerInstance'
  <2>1. \A y \in Calls : call'[y] = call[y] \/ call'[y].pc \in {"idle", "dedupe", "reserve"}
    <3>1. CASE NextEvent(x)
      BY <3>1, NextEventMoves DEF Start, Idle
    <3>2. CASE HangUp(x)
      BY <3>2 DEF HangUp, Idle, TypeOK
    <3> QED BY <1>8, <3>1, <3>2
  <2> QED BY <1>7, <1>8, <2>1 DEF NextEvent, HangUp, rows
<1>9. ASSUME NEW x \in Calls, NEW p \in Instances, NEW b \in Batches, Deliver(x, p, b)
      PROVE  OpensTheFirst' /\ OneConversationPerInstance'
  <2>1. \A y \in Calls : call'[y] = call[y] \/ call'[y].pc \in {"idle", "dedupe", "reserve"}
    BY <1>9, DeliverMoves DEF Start
  <2> QED BY <1>7, <1>9, <2>1 DEF Deliver, rows
<1>10. ASSUME NEW p \in Instances, Crash(p)
      PROVE  OpensTheFirst' /\ OneConversationPerInstance'
  BY <1>7, <1>10 DEF Crash, Idle, rows
<1>11. ASSUME NEW p \in Instances, NEW m \in Messages, Announce(p, m)
      PROVE  OpensTheFirst' /\ OneConversationPerInstance'
  BY <1>7, <1>11 DEF Announce, rows
<1>12. ASSUME NEW c \in Customers, LiffRead(c) \/ LiffInsert(c)
      PROVE  OpensTheFirst' /\ OneConversationPerInstance'
  <2>1. \A p \in Instances : opened'[p] = opened[p]
    BY <1>12 DEF LiffRead, LiffInsert, rows, Openers
  <2> QED BY <1>7, <1>12, <2>1 DEF LiffRead, LiffInsert
<1> QED
  BY <1>3, <1>5, <1>6, <1>8, <1>9, <1>10, <1>11, <1>12 DEF Next, Posted, CallStep, CallFault, PlainStep

-----------------------------------------------------------------------------
(* Replies                                                                   *)

SendStates == {"send", "recordOk", "recordError"}

\* The ledger gives an attempt to one call at a time, and none after a success.
LEMMA RepliesStep ==
  ASSUME Inv, Next
  PROVE  SingleSender' /\ ConfirmedIsOver' /\ \A m \in confirmed : replies'[m] = replies[m]
<1> TypeOK /\ CallsOnEvents /\ SingleSender /\ ConfirmedIsOver
  BY DEF Inv
<1> DEFINE Goal == /\ SingleSender' /\ ConfirmedIsOver'
                   /\ \A m \in confirmed : replies'[m] = replies[m]
<1> ledger \in [Messages -> {"none", "pending", "success", "failed"}] /\ confirmed \in SUBSET Messages
  BY DEF TypeOK
\* Steps after which nobody sends who did not send before.
<1>1. ASSUME UNCHANGED <<ledger, confirmed, replies>>,
             \A y \in Calls : call'[y].pc \in SendStates => call'[y] = call[y]
      PROVE  Goal
  <2>1. \A y \in Calls, m \in Messages : Sending(y, m)' =>
           Sending(y, m) /\ (At(y, "recordOk") => At(y, "recordOk")')
    BY <1>1 DEF Sending, SendStates, Event, At
  <2>2. \A y \in Calls, m \in Messages : Sending(y, m)' =>
           (At(y, "recordOk") <=> At(y, "recordOk")')
    BY <1>1 DEF Sending, SendStates, At
  <2>3. SingleSender'
    BY <1>1, <2>1 DEF SingleSender
  <2>4. ConfirmedIsOver'
    BY <1>1, <2>1, <2>2 DEF ConfirmedIsOver
  <2> QED BY <1>1, <2>3, <2>4
<1>2. ASSUME NEW x \in Calls, PlainStep(x), ~TakeAttempt(x), ~RetakeAttempt(x), ~SendReply(x),
             ~RecordAttempt(x)
      PROVE  Goal
  <2> USE <1>2, StepPc DEF At
  <2>1. Reservable(Event(x)) \in {"take", "retake", "busy"}
    BY DEF Reservable
  <2>2. call'[x].pc \notin SendStates
    BY <2>1 DEF PlainStep, Dedupe, Reserve, TakeLock, FindCustomer, InsertCustomer,
           CustomerConflict, FindConversation, InsertConversation, Store, Evaluate,
           FollowUp, Welcome, DefaultWelcome, StatementFails, LedgerFails,
           AfterCustomer, AfterConversation, AfterReply, SendStates
  <2>3. UNCHANGED <<ledger, confirmed, replies>>
    BY DEF PlainStep, Dedupe, Reserve, TakeLock, FindCustomer, InsertCustomer,
           CustomerConflict, FindConversation, InsertConversation, Store, Evaluate,
           FollowUp, Welcome, DefaultWelcome, StatementFails, LedgerFails, rows, outside
  <2> QED BY <1>1, <2>2, <2>3
<1>3. ASSUME NEW x \in Calls, TakeAttempt(x) \/ RetakeAttempt(x)
      PROVE  Goal
  <2> DEFINE m0 == Event(x)
  <2> USE <1>3, StepPc DEF PlainStep, At
  <2>1. m0 \in Messages
    BY DEF TakeAttempt, RetakeAttempt, CallsOnEvents, Events, FollowStates
  <2>2. CASE ledger[m0] \in {"none", "failed"} /\ ledger' = [ledger EXCEPT ![m0] = "pending"]
                /\ call'[x].pc = "send" /\ confirmed' = confirmed /\ replies' = replies
    <3>1. \A y \in Calls : ~Sending(y, m0)
      BY <2>1, <2>2 DEF SingleSender
    <3>2. m0 \notin confirmed
      BY <2>2 DEF ConfirmedIsOver
    <3>3. \A y \in Calls, m \in Messages : y # x =>
             (Sending(y, m)' <=> Sending(y, m)) /\ (At(y, "recordOk")' <=> At(y, "recordOk"))
      BY DEF Sending
    <3>4. \A m \in Messages : Sending(x, m)' <=> m = m0
      BY <2>1, <2>2 DEF Sending
    <3>5. \A m \in Messages : ~Sending(x, m)
      BY DEF Sending, TakeAttempt, RetakeAttempt
    <3>6. SingleSender'
      BY <2>1, <2>2, <3>1, <3>3, <3>4 DEF SingleSender
    <3>7. ConfirmedIsOver'
      BY <2>1, <2>2, <3>2, <3>3, <3>4 DEF ConfirmedIsOver
    <3> QED BY <2>2, <3>6, <3>7
  <2>3. CASE UNCHANGED <<ledger, confirmed, replies>> /\ call'[x].pc = AfterReply(x)
    <3>1. call'[x].pc \notin SendStates
      BY <2>3 DEF AfterReply, SendStates
    <3> QED BY <1>1, <2>3, <3>1
  <2> QED BY <2>2, <2>3 DEF TakeAttempt, RetakeAttempt, outside
<1>4. ASSUME NEW x \in Calls, SendReply(x)
      PROVE  Goal
  <2> DEFINE m0 == Event(x)
  <2> USE <1>4, StepPc DEF PlainStep, At
  <2>1. m0 \in Messages /\ Sending(x, m0) /\ At(x, "send")
    BY DEF SendReply, CallsOnEvents, Events, FollowStates, Sending
  <2>2. m0 \notin confirmed
    BY <2>1 DEF ConfirmedIsOver
  <2>3. ledger' = ledger /\ ledger[m0] = "pending" /\ \A y \in Calls \ {x} : ~Sending(y, m0)
    BY <2>1 DEF SingleSender, SendReply, rows
  <2>4. \A y \in Calls, m \in Messages : y # x =>
           (Sending(y, m)' <=> Sending(y, m)) /\ (At(y, "recordOk")' <=> At(y, "recordOk"))
    BY DEF Sending
  <2>5. call'[x].pc \in {"recordOk", "recordError"}
    BY DEF SendReply
  <2>6. \A m \in Messages : Sending(x, m)' <=> m = m0
    BY <2>1, <2>5 DEF Sending
  <2>7. SingleSender'
    BY <2>1, <2>3, <2>4, <2>6 DEF SingleSender
  <2>8. \/ confirmed' = confirmed
        \/ confirmed' = confirmed \cup {m0} /\ call'[x].pc = "recordOk"
    BY DEF SendReply
  <2>9. ConfirmedIsOver'
    BY <2>1, <2>2, <2>3, <2>4, <2>6, <2>8 DEF ConfirmedIsOver
  <2>10. \A m \in confirmed : replies'[m] = replies[m]
    BY <2>1, <2>2 DEF SendReply, TypeOK
  <2> QED BY <2>7, <2>9, <2>10
<1>5. ASSUME NEW x \in Calls, RecordAttempt(x)
      PROVE  Goal
  <2> DEFINE m0 == Event(x)
  <2> USE <1>5, StepPc DEF PlainStep, At
  <2>1. m0 \in Messages /\ Sending(x, m0)
    BY DEF RecordAttempt, CallsOnEvents, Events, FollowStates, Sending
  <2>2. \A y \in Calls \ {x} : ~Sending(y, m0)
    BY <2>1 DEF SingleSender
  <2>3. ledger' = [ledger EXCEPT ![m0] = Outcome(x)]
    BY DEF RecordAttempt
  <2>4. confirmed' = confirmed /\ replies' = replies
    BY DEF RecordAttempt, outside
  <2>5. \A m \in Messages : ~Sending(x, m)'
    BY DEF RecordAttempt, AfterReply, Sending
  <2>6. \A y \in Calls, m \in Messages : y # x =>
           (Sending(y, m)' <=> Sending(y, m)) /\ (At(y, "recordOk")' <=> At(y, "recordOk"))
    BY DEF Sending
  <2>7. SingleSender'
    BY <2>1, <2>2, <2>3, <2>5, <2>6 DEF SingleSender
  <2>8. m0 \in confirmed => Outcome(x) = "success"
    BY <2>1 DEF ConfirmedIsOver, Outcome
  <2>9. ConfirmedIsOver'
    BY <2>1, <2>3, <2>4, <2>5, <2>6, <2>8 DEF ConfirmedIsOver
  <2> QED BY <2>4, <2>7, <2>9
<1>6. ASSUME NEW x \in Calls, NextEvent(x)
      PROVE  Goal
  <2>1. \A y \in Calls : call'[y].pc \in SendStates => call'[y] = call[y]
    BY <1>6, NextEventMoves DEF SendStates, Start, Idle
  <2> QED BY <1>1, <1>6, <2>1 DEF NextEvent, rows
<1>7. ASSUME NEW x \in Calls, NEW p \in Instances, NEW b \in Batches, Deliver(x, p, b)
      PROVE  Goal
  <2>1. \A y \in Calls : call'[y].pc \in SendStates => call'[y] = call[y]
    BY <1>7, DeliverMoves DEF SendStates, Start
  <2> QED BY <1>1, <1>7, <2>1 DEF Deliver, rows
<1>8. ASSUME NEW x \in Calls, HangUp(x)
      PROVE  Goal
  <2>1. \A y \in Calls : call'[y].pc \in SendStates => call'[y] = call[y]
    BY <1>8 DEF HangUp, TypeOK, SendStates, Idle
  <2> QED BY <1>1, <1>8, <2>1 DEF HangUp, rows, outside
<1>9. ASSUME NEW p \in Instances, Crash(p)
      PROVE  Goal
  <2>1. \A y \in Calls : call'[y].pc \in SendStates => call'[y] = call[y]
    BY <1>9 DEF Crash, SendStates, Idle
  <2> QED BY <1>1, <1>9, <2>1 DEF Crash, rows, outside
<1>10. ASSUME NEW p \in Instances, NEW m \in Messages, Announce(p, m)
      PROVE  Goal
  BY <1>1, <1>10 DEF Announce, rows
<1>11. ASSUME NEW c \in Customers, LiffRead(c) \/ LiffInsert(c)
      PROVE  Goal
  BY <1>1, <1>11 DEF LiffRead, LiffInsert, rows, outside
<1> QED
  BY <1>2, <1>3, <1>4, <1>5, <1>6, <1>7, <1>8, <1>9, <1>10, <1>11
     DEF Next, Posted, CallStep, CallFault, PlainStep

-----------------------------------------------------------------------------
(* Stored messages                                                           *)

IngestStates ==
  {"reply", "take", "retake", "send", "recordOk", "recordError", "followUp"}

\* A step of a call either moves on within those states, or gets there with its
\* message stored; a message ends without a failure only once it is stored.
LEMMA StoredStep ==
  ASSUME Inv, Next
  PROVE  StoredSoFar' /\ AckedIsStored' /\ stored \subseteq stored'
<1> TypeOK /\ CallsOnEvents /\ StoredSoFar /\ AckedIsStored
  BY DEF Inv
<1> DEFINE Past(y) == call[y] # Idle =>
      /\ call[y].pc \in IngestStates => Event(y) \in stored
      /\ ~call[y].failed =>
           /\ \A j \in 1..(call[y].k - 1) :
                call[y].batch[j] \in Messages => call[y].batch[j] \in stored
           /\ call[y].pc = "next" /\ Event(y) \in Messages => Event(y) \in stored
<1> DEFINE Acked == \A b \in acked : \A k \in 1..Len(b) : b[k] \in Messages => b[k] \in stored
<1> DEFINE Goal == (\A y \in Calls : Past(y)') /\ Acked' /\ stored \subseteq stored'
<1>1. (\A y \in Calls : Past(y)) /\ Acked
  BY DEF StoredSoFar, AckedIsStored, At, IngestStates
<1>2. SUFFICES Goal
  BY DEF StoredSoFar, AckedIsStored, At, IngestStates
<1>3. ASSUME NEW x \in Calls, PlainStep(x)
      PROVE  Goal
  <2> USE <1>3, StepPc DEF At
  <2>1. stored \subseteq stored' /\ acked' = acked
    BY DEF PlainStep, Dedupe, Reserve, TakeLock, FindCustomer, InsertCustomer,
           CustomerConflict, FindConversation, InsertConversation, Store, Evaluate,
           TakeAttempt, RetakeAttempt, SendReply, RecordAttempt, FollowUp, Welcome,
           DefaultWelcome, StatementFails, LedgerFails, rows, outside
  <2>2. \A y \in Calls \ {x} : Past(y)'
    BY <1>1, <2>1
  <2>3. /\ Event(x) \in Messages => call[x].pc \in MessageStates
        /\ call[x].pc \in FollowStates \/ Event(x) \in Messages
    BY DEF CallsOnEvents, Events
  <2>4. Reservable(Event(x)) \in {"take", "retake", "busy"}
    BY DEF Reservable
  <2>5. /\ call'[x].pc \in IngestStates => Event(x) \in stored'
        /\ call'[x].pc = "next" /\ Event(x) \in Messages =>
             Event(x) \in stored' \/ FailEvent(x)
    <3>1. CASE Dedupe(x) \/ Reserve(x) \/ TakeLock(x)
      BY <2>1, <2>3, <3>1 DEF Dedupe, Reserve, TakeLock, MessageStates, IngestStates
    <3>2. CASE FindCustomer(x) \/ InsertCustomer(x)
      BY <2>1, <2>3, <3>2 DEF FindCustomer, InsertCustomer, AfterCustomer, IngestStates
    <3>3. CASE FindConversation(x) \/ InsertConversation(x)
      BY <2>1, <3>3 DEF FindConversation, InsertConversation, AfterConversation, IngestStates
    <3>4. CASE Store(x)
      BY <3>4 DEF Store
    <3>5. CASE FollowUp(x) \/ SendReply(x)
      BY <1>1, <2>1, <3>5 DEF FollowUp, SendReply, IngestStates
    <3>6. CASE Welcome(x) \/ DefaultWelcome(x)
      BY <2>1, <2>3, <3>6 DEF Welcome, DefaultWelcome, MessageStates, IngestStates
    <3>7. CASE Evaluate(x) \/ TakeAttempt(x) \/ RetakeAttempt(x) \/ RecordAttempt(x) \/ LedgerFails(x)
      BY <1>1, <2>1, <3>7
         DEF Evaluate, TakeAttempt, RetakeAttempt, RecordAttempt, LedgerFails, IngestStates
    <3>8. CASE CustomerConflict(x) \/ StatementFails(x)
      BY <3>8 DEF CustomerConflict, StatementFails, IngestStates
    <3> QED BY <3>1, <3>2, <3>3, <3>4, <3>5, <3>6, <3>7, <3>8 DEF PlainStep
  <2>6. IF FailEvent(x) THEN call'[x].failed = TRUE ELSE call'[x].failed = call[x].failed
    <3>1. call[x].pc # "idle" /\ call[x].failed \in BOOLEAN
      BY CallShape
    <3>2. CASE FailEvent(x)
      BY <3>1, <3>2, FailMoves
    <3>3. CASE ~FailEvent(x)
      <4>1. \E s : Goto(x, s)
        BY <2>4, <3>3
           DEF PlainStep, Dedupe, Reserve, TakeLock, FindCustomer, InsertCustomer,
               CustomerConflict, FindConversation, InsertConversation, AfterConversation,
               Store, Evaluate, TakeAttempt, RetakeAttempt, SendReply, RecordAttempt,
               FollowUp, Welcome, DefaultWelcome, StatementFails, LedgerFails
      <4>2. call'[x].failed = call[x].failed
        BY <4>1, CallShape DEF Goto, TypeOK
      <4> QED BY <3>3, <4>2
    <3> QED BY <3>2, <3>3
  <2>7. Past(x)'
    BY <1>1, <2>1, <2>5, <2>6
  <2> QED BY <1>1, <2>1, <2>2, <2>7
<1>4. ASSUME NEW x \in Calls, NextEvent(x)
      PROVE  Goal
  <2>1. /\ call[x] # Idle /\ call[x].k \in 1..Len(call[x].batch)
        /\ call[x].batch \in Batches /\ call[x].failed \in BOOLEAN
        /\ stored' = stored /\ call[x].pc = "next"
        /\ \A y \in Calls \ {x} : call'[y] = call[y] /\ Event(y)' = Event(y)
    BY <1>4, NextEventMoves, CallShape DEF NextEvent, rows, At, Event
  <2>2. Len(call[x].batch) \in Nat
    BY <2>1
  <2>3. ~call[x].failed => \A j \in 1..call[x].k :
           call[x].batch[j] \in Messages => call[x].batch[j] \in stored
    <3> SUFFICES ASSUME ~call[x].failed, NEW j \in 1..call[x].k, call[x].batch[j] \in Messages
                 PROVE  call[x].batch[j] \in stored
      OBVIOUS
    <3>1. CASE j = call[x].k
      BY <1>1, <2>1, <3>1 DEF Event
    <3>2. CASE j # call[x].k
      <4>1. j \in 1..(call[x].k - 1)
        BY <2>1, <3>2
      <4> QED BY <1>1, <2>1, <4>1
    <3> QED BY <3>1, <3>2
  <2>4. \A y \in Calls \ {x} : Past(y)'
    BY <1>1, <2>1
  <2>5. CASE /\ call[x].k = Len(call[x].batch)
             /\ call'[x] = Idle
             /\ acked' = IF call[x].failed THEN acked ELSE acked \cup {call[x].batch}
    BY <1>1, <2>1, <2>3, <2>4, <2>5
  <2>6. CASE /\ call'[x].k = call[x].k + 1
             /\ call'[x].batch = call[x].batch
             /\ call'[x].failed = call[x].failed
             /\ call'[x].pc = Start(call[x].batch[call[x].k + 1])
             /\ acked' = acked
    <3>1. call'[x].k - 1 = call[x].k
      BY <2>1, <2>6
    <3>2. call'[x].pc \notin IngestStates /\ call'[x].pc # "next"
      BY <2>6 DEF Start, IngestStates
    <3>3. Past(x)'
      BY <2>1, <2>3, <2>6, <3>1, <3>2
    <3> QED BY <1>1, <2>1, <2>4, <2>6, <3>3
  <2> QED BY <1>4, <2>5, <2>6, NextEventMoves
<1>5. ASSUME NEW x \in Calls, NEW p \in Instances, NEW b \in Batches, Deliver(x, p, b)
      PROVE  Goal
  <2>1. /\ \A y \in Calls \ {x} : call'[y] = call[y] /\ Event(y)' = Event(y)
        /\ call'[x].k = 1 /\ call'[x].pc \in {"dedupe", "reserve"}
    BY <1>5, DeliverMoves, ZenonT(40) DEF Start, Event
  <2>2. stored' = stored /\ acked' = acked
    BY <1>5 DEF Deliver, rows
  <2>3. Past(x)'
    BY <2>1 DEF IngestStates
  <2> QED BY <1>1, <2>1, <2>2, <2>3
<1>6. ASSUME UNCHANGED <<stored, acked>>, \A y \in Calls : call'[y] = call[y] \/ call'[y] = Idle
      PROVE  Goal
  <2>1. \A y \in Calls : call'[y] # Idle => call'[y] = call[y] /\ Event(y)' = Event(y)
    BY <1>6 DEF Event
  <2> QED BY <1>1, <1>6, <2>1
<1>7. ASSUME NEW x \in Calls, HangUp(x)
      PROVE  Goal
  BY <1>6, <1>7 DEF HangUp, TypeOK, rows, outside
<1>8. ASSUME NEW p \in Instances, Crash(p)
      PROVE  Goal
  BY <1>6, <1>8 DEF Crash, rows, outside
<1>9. ASSUME NEW p \in Instances, NEW m \in Messages, Announce(p, m)
      PROVE  Goal
  BY <1>6, <1>9 DEF Announce, rows
<1>10. ASSUME NEW c \in Customers, LiffRead(c) \/ LiffInsert(c)
      PROVE  Goal
  BY <1>6, <1>10 DEF LiffRead, LiffInsert, rows, outside
<1> QED
  BY <1>3, <1>4, <1>5, <1>7, <1>8, <1>9, <1>10
     DEF Next, Posted, CallStep, CallFault, PlainStep

-----------------------------------------------------------------------------
(* Follow-up work                                                            *)

\* The work of a stored message is handed on: from the call that stored it, which
\* holds the lock, to the spawned task, to the count of what was done.
LEMMA AnnouncedStep ==
  ASSUME Inv, Next
  PROVE  AnnouncedFromOnePlace'
<1> TypeOK /\ CallsOnEvents /\ LocksAreHeld /\ AnnouncedFromOnePlace /\ StoredSoFar
  BY DEF Inv
<1> /\ announced \in [Messages -> Nat] /\ spawned \in [Instances -> SUBSET Messages]
    /\ call \in [Calls -> CallStates]
  BY DEF TypeOK
<1> \A m \in Messages : announced[m] \in Nat
  OBVIOUS
<1>1. stored \subseteq stored'
  BY StoredStep
<1>2. \A x \in Calls, m \in Messages : Ingesting(x, m) => m \in stored
  BY DEF Ingesting, StoredSoFar, Idle
<1> DEFINE OnePlace(m) ==
      /\ announced[m] <= 1
      /\ announced[m] = 1 => m \in stored
      /\ \A x \in Calls : Ingesting(x, m) =>
           /\ announced[m] = 0
           /\ \A p \in Instances : m \notin spawned[p]
           /\ \A y \in Calls \ {x} : ~Ingesting(y, m)
      /\ \A p \in Instances : m \in spawned[p] =>
           /\ announced[m] = 0
           /\ m \in stored
           /\ \A q \in Instances \ {p} : m \notin spawned[q]
<1>0. \A m \in Messages : OnePlace(m)
  BY DEF AnnouncedFromOnePlace
\* Steps that hand nothing on.
<1>3. ASSUME UNCHANGED announced,
             \A p \in Instances : spawned'[p] \subseteq spawned[p],
             \A x \in Calls, m \in Messages : Ingesting(x, m)' => Ingesting(x, m)
      PROVE  AnnouncedFromOnePlace'
  BY <1>1, <1>3 DEF AnnouncedFromOnePlace
<1>4. ASSUME NEW x \in Calls, PlainStep(x)
      PROVE  /\ \A y \in Calls \ {x}, m \in Messages : Ingesting(y, m)' => Ingesting(y, m)
             /\ lock' = lock /\ call[x].pc \in IngestStates =>
                  \A m \in Messages : Ingesting(x, m)' => Ingesting(x, m)
  <2> USE <1>4, StepPc
  <2>1. \A y \in Calls \ {x}, p \in Instances, c \in Customers :
           lock'[p][c] = y => lock[p][c] = y
    <3>1. CASE lock' = lock
      BY <3>1
    <3>2. CASE lock' = Unlocked(x)
      BY <3>2, UnlockedTable
    <3>3. CASE lock' = [lock EXCEPT ![Inst(x)][Cust(x)] = x]
      BY <3>3 DEF TypeOK
    <3> QED BY <3>1, <3>2, <3>3, StepMoves
  <2>2. ASSUME NEW y \in Calls \ {x}, NEW m \in Messages, Ingesting(y, m)'
        PROVE  Ingesting(y, m)
    <3>1. call'[y] = call[y] /\ Event(y)' = Event(y) /\ Inst(y)' = Inst(y) /\ Cust(y)' = Cust(y)
      OBVIOUS
    <3>2. call[y].pc \in IngestStates
      BY <2>2, <3>1 DEF Ingesting, IngestStates
    <3>3. Inst(y) \in Instances /\ Cust(y) \in Customers
      BY <3>2, CallShape DEF IngestStates
    <3> QED BY <2>1, <2>2, <3>1, <3>2, <3>3 DEF Ingesting, Holding, IngestStates
  <2> QED BY <2>2 DEF Ingesting, Holding, IngestStates
<1>5. ASSUME NEW x \in Calls, Store(x), call'[x].pc # "next"
      PROVE  AnnouncedFromOnePlace'
  <2> DEFINE m0 == Event(x)
  <2> USE <1>5, StepPc DEF PlainStep
  <2>1. m0 \in Messages /\ m0 \notin stored /\ UNCHANGED <<announced, spawned>>
    BY DEF Store, At, CallsOnEvents, Events, FollowStates, outside
  <2>2. announced[m0] = 0 /\ \A p \in Instances : m0 \notin spawned[p]
    BY <2>1 DEF AnnouncedFromOnePlace
  <2>3. \A y \in Calls : ~Ingesting(y, m0)
    BY <1>2, <2>1
  <2>4. \A y \in Calls \ {x}, m \in Messages : Ingesting(y, m)' => Ingesting(y, m)
    BY <1>4
  <2>5. \A m \in Messages : Ingesting(x, m)' => m = m0
    BY DEF Ingesting
  <2> QED BY <1>1, <2>1, <2>2, <2>3, <2>4, <2>5 DEF AnnouncedFromOnePlace
<1>6. ASSUME NEW x \in Calls, FollowUp(x)
      PROVE  AnnouncedFromOnePlace'
  <2> DEFINE m0 == Event(x)
  <2> USE <1>6, StepPc DEF PlainStep
  <2>1. call[x].pc = "followUp" /\ announced' = announced /\ call'[x].pc = "next"
    BY DEF FollowUp, At, outside
  <2>2. m0 \in Messages
    BY <2>1 DEF CallsOnEvents, Events, FollowStates
  <2>3. Ingesting(x, m0)
    BY <2>1 DEF Ingesting, LocksAreHeld, LockDiscipline
  <2>4. \A m \in Messages : ~Ingesting(x, m)'
    BY <2>1 DEF Ingesting
  <2>5. \A y \in Calls \ {x}, m \in Messages : Ingesting(y, m)' => Ingesting(y, m)
    BY <1>4
  <2>6. \A p \in Instances :
           spawned'[p] = IF p = Inst(x) THEN spawned[p] \cup {m0} ELSE spawned[p]
    BY DEF FollowUp
  <2>7. m0 \in stored
    BY <1>2, <2>2, <2>3
  <2>8. /\ announced[m0] = 0
        /\ \A p \in Instances : m0 \notin spawned[p]
        /\ \A y \in Calls \ {x} : ~Ingesting(y, m0)
    BY <2>2, <2>3 DEF AnnouncedFromOnePlace
  <2>9. \A y \in Calls : ~Ingesting(y, m0)'
    BY <2>2, <2>4, <2>5, <2>8
  <2>10. ASSUME NEW m \in Messages \ {m0}
         PROVE  /\ \A p \in Instances : m \in spawned'[p] => m \in spawned[p]
                /\ \A y \in Calls : Ingesting(y, m)' => Ingesting(y, m)
    BY <2>4, <2>5, <2>6
  <2>11. ASSUME NEW m \in Messages, m = m0 PROVE OnePlace(m)'
    <3>1. announced'[m] = 0 /\ m \in stored'
      BY <1>1, <2>1, <2>7, <2>8, <2>11
    <3>2. \A p \in Instances : m \in spawned'[p] => p = Inst(x)
      BY <2>6, <2>8, <2>11
    <3>3. \A y \in Calls : ~Ingesting(y, m)'
      BY <2>9, <2>11 DEF Ingesting
    <3> QED BY <3>1, <3>2, <3>3
  <2>12. \A m \in Messages \ {m0} : OnePlace(m)'
    BY <1>0, <1>1, <2>1, <2>10
  <2> QED BY <2>11, <2>12 DEF AnnouncedFromOnePlace
<1>7. ASSUME NEW p \in Instances, NEW m \in Messages, Announce(p, m)
      PROVE  AnnouncedFromOnePlace'
  <2>1. /\ m \in spawned[p] /\ call' = call /\ lock' = lock
        /\ announced' = [announced EXCEPT ![m] = announced[m] + 1]
        /\ \A q \in Instances : spawned'[q] = IF q = p THEN spawned[p] \ {m} ELSE spawned[q]
    BY <1>7 DEF Announce
  <2>2. \A x \in Calls, n \in Messages : Ingesting(x, n)' = Ingesting(x, n)
    BY <2>1 DEF Ingesting, Holding, Event, Inst, Cust
  <2>3. /\ announced[m] = 0 /\ m \in stored
        /\ \A q \in Instances \ {p} : m \notin spawned[q]
        /\ \A x \in Calls : ~Ingesting(x, m)
    BY <2>1 DEF AnnouncedFromOnePlace
  <2>4. OnePlace(m)'
    BY <1>1, <2>1, <2>2, <2>3
  <2>5. ASSUME NEW n \in Messages \ {m} PROVE OnePlace(n)'
    <3>1. OnePlace(n) /\ announced'[n] = announced[n]
      BY <1>0, <2>1
    <3>2. \A q \in Instances : n \in spawned'[q] <=> n \in spawned[q]
      BY <2>1
    <3>3. \A x \in Calls : Ingesting(x, n)' <=> Ingesting(x, n)
      BY <2>2
    <3> QED BY <1>1, <3>1, <3>2, <3>3
  <2> QED BY <2>4, <2>5 DEF AnnouncedFromOnePlace
<1>8. ASSUME NEW x \in Calls, PlainStep(x), ~FollowUp(x), Store(x) => call'[x].pc = "next"
      PROVE  AnnouncedFromOnePlace'
  <2> USE <1>8, StepPc DEF At
  <2>1. UNCHANGED <<announced, spawned>>
    BY DEF PlainStep, Dedupe, Reserve, TakeLock, FindCustomer, InsertCustomer,
           CustomerConflict, FindConversation, InsertConversation, Store, Evaluate,
           TakeAttempt, RetakeAttempt, SendReply, RecordAttempt, Welcome, DefaultWelcome,
           StatementFails, LedgerFails, outside
  <2>2. ASSUME NEW m \in Messages, Ingesting(x, m)'
        PROVE  Ingesting(x, m)
    <3>1. call'[x].pc \in IngestStates
      BY <2>2 DEF Ingesting, IngestStates
    <3>2. CASE Dedupe(x)
      <4>1. call[x].pc = "dedupe" /\ lock' = lock
        BY <3>2 DEF Dedupe
      <4>2. ~Holding(x)
        <5>1. Inst(x) \in Instances /\ Cust(x) \in Customers
          OBVIOUS
        <5> QED BY <4>1, <5>1, SMTT(30) DEF LocksAreHeld, LockDiscipline, LockedStates, Holding
      <4> QED BY <2>2, <4>1, <4>2 DEF Ingesting, Holding
    <3>3. CASE Evaluate(x) \/ TakeAttempt(x) \/ RetakeAttempt(x) \/ SendReply(x)
                 \/ RecordAttempt(x) \/ LedgerFails(x)
      <4>1. call[x].pc \in IngestStates /\ lock' = lock
        BY <3>3 DEF Evaluate, TakeAttempt, RetakeAttempt, SendReply, RecordAttempt,
                    LedgerFails, IngestStates
      <4> QED BY <1>4, <2>2, <4>1
    <3>4. CASE Reserve(x) \/ TakeLock(x) \/ FindCustomer(x) \/ InsertCustomer(x)
                 \/ CustomerConflict(x) \/ FindConversation(x) \/ InsertConversation(x)
                 \/ Welcome(x) \/ DefaultWelcome(x) \/ StatementFails(x) \/ Store(x)
      BY <3>1, <3>4
         DEF Reserve, TakeLock, FindCustomer, InsertCustomer, CustomerConflict,
             FindConversation, InsertConversation, Welcome, DefaultWelcome,
             StatementFails, AfterCustomer, AfterConversation, IngestStates
    <3> QED BY <3>2, <3>3, <3>4 DEF PlainStep
  <2>3. \A y \in Calls, m \in Messages : Ingesting(y, m)' => Ingesting(y, m)
    BY <1>4, <2>2
  <2> QED BY <1>3, <2>1, <2>3
\* Steps that start or end calls.
<1>9. ASSUME UNCHANGED announced,
             \A p \in Instances : spawned'[p] \subseteq spawned[p],
             \A y \in Calls :
               \/ call'[y].pc \notin IngestStates
               \/ /\ call'[y] = call[y]
                  /\ Inst(y) \in Instances /\ Cust(y) \in Customers =>
                       (lock'[Inst(y)][Cust(y)] = y => Holding(y))
      PROVE  AnnouncedFromOnePlace'
  <2>1. ASSUME NEW y \in Calls, NEW m \in Messages, Ingesting(y, m)'
        PROVE  Ingesting(y, m)
    <3>1. call'[y].pc \in IngestStates
      BY <2>1 DEF Ingesting, IngestStates
    <3>2. call'[y] = call[y] /\ Event(y)' = Event(y) /\ Inst(y)' = Inst(y) /\ Cust(y)' = Cust(y)
      BY <1>9, <3>1 DEF Event, Inst, Cust
    <3>3. Inst(y) \in Instances /\ Cust(y) \in Customers
      BY <3>1, <3>2, CallShape DEF IngestStates
    <3> QED BY <1>9, <2>1, <3>1, <3>2, <3>3 DEF Ingesting, Holding
  <2> QED BY <1>3, <1>9, <2>1
<1>10. ASSUME NEW x \in Calls, NextEvent(x)
      PROVE  AnnouncedFromOnePlace'
  <2>1. call'[x].pc \notin IngestStates /\ \A y \in Calls \ {x} : call'[y] = call[y]
    BY <1>10, NextEventMoves DEF Start, IngestStates, Idle
  <2> QED BY <1>9, <1>10, <2>1 DEF NextEvent, Holding
<1>11. ASSUME NEW x \in Calls, NEW p \in Instances, NEW b \in Batches, Deliver(x, p, b)
      PROVE  AnnouncedFromOnePlace'
  <2>1. call'[x].pc \notin IngestStates /\ \A y \in Calls \ {x} : call'[y] = call[y]
    BY <1>11, DeliverMoves DEF Start, IngestStates
  <2> QED BY <1>9, <1>11, <2>1 DEF Deliver, Holding
<1>12. ASSUME NEW x \in Calls, HangUp(x)
      PROVE  AnnouncedFromOnePlace'
  <2>1. /\ call'[x].pc \notin IngestStates
        /\ \A y \in Calls \ {x} : call'[y] = call[y]
        /\ lock' = Unlocked(x) /\ UNCHANGED <<announced, spawned>>
    BY <1>12 DEF HangUp, IngestStates, Idle, outside
  <2>2. Inst(x) \in Instances
    BY <1>12, CallShape DEF HangUp
  <2> QED BY <1>9, <2>1, <2>2, UnlockedTable DEF Holding
<1>13. ASSUME NEW p \in Instances, Crash(p)
      PROVE  AnnouncedFromOnePlace'
  <2>1. /\ \A y \in Calls :
             \/ call'[y].pc \notin IngestStates
             \/ call'[y] = call[y] /\ (call[y] = Idle \/ Inst(y) # p)
        /\ \A q \in Instances : q # p => lock'[q] = lock[q]
        /\ \A q \in Instances : spawned'[q] \subseteq spawned[q]
        /\ announced' = announced
    <3>1. \A y \in Calls :
             call'[y] = IF call[y] # Idle /\ Inst(y) = p THEN Idle ELSE call[y]
      BY <1>13 DEF Crash, Inst
    <3>2. Idle.pc \notin IngestStates
      BY DEF Idle, IngestStates
    <3>3. \A q \in Instances : q # p => lock'[q] = lock[q]
      BY <1>13 DEF Crash, TypeOK
    <3>4. (\A q \in Instances : spawned'[q] \subseteq spawned[q]) /\ announced' = announced
      BY <1>13 DEF Crash, outside
    <3>5. ASSUME NEW y \in Calls
          PROVE  \/ call'[y].pc \notin IngestStates
                 \/ call'[y] = call[y] /\ (call[y] = Idle \/ Inst(y) # p)
      <4>1. CASE call[y] # Idle /\ Inst(y) = p
        BY <3>1, <3>2, <4>1
      <4>2. CASE ~(call[y] # Idle /\ Inst(y) = p)
        BY <3>1, <4>2
      <4> QED BY <4>1, <4>2
    <3> QED BY <3>3, <3>4, <3>5
  <2>2. \A y \in Calls : call[y] = Idle => call[y].pc \notin IngestStates
    BY DEF Idle, IngestStates
  <2> QED BY <1>9, <2>1, <2>2 DEF Holding
<1>14. ASSUME NEW c \in Customers, LiffRead(c) \/ LiffInsert(c)
      PROVE  AnnouncedFromOnePlace'
  BY <1>9, <1>14 DEF LiffRead, LiffInsert, outside, Holding
<1> QED
  BY <1>5, <1>6, <1>7, <1>8, <1>10, <1>11, <1>12, <1>13, <1>14
     DEF Next, Posted, CallStep, CallFault, PlainStep

-----------------------------------------------------------------------------
(* The theorems                                                              *)

LEMMA InvStep == Inv /\ [Next]_vars => Inv'
<1> SUFFICES ASSUME Inv, [Next]_vars PROVE Inv'
  OBVIOUS
<1>1. CASE Next
  <2>1. TypeOK' /\ CallsOnEvents' /\ LocksAreHeld'
    BY <1>1, TypeStep, CallsOnEventsStep, LocksStep
  <2>2. OpensTheFirst' /\ OneConversationPerInstance' /\ SingleSender' /\ ConfirmedIsOver'
    BY <1>1, OpeningStep, RepliesStep
  <2>3. AnnouncedFromOnePlace' /\ StoredSoFar' /\ AckedIsStored'
    BY <1>1, AnnouncedStep, StoredStep
  <2> QED BY <2>1, <2>2, <2>3 DEF Inv
<1>2. CASE UNCHANGED vars
  <2> USE <1>2 DEF vars, rows, outside
  <2>1. \A x \in Calls : Event(x)' = Event(x) /\ Inst(x)' = Inst(x) /\ Cust(x)' = Cust(x)
    BY DEF Event, Inst, Cust
  <2>2. TypeOK' /\ OneConversationPerInstance' /\ AckedIsStored'
    BY DEF Inv, TypeOK, OneConversationPerInstance, AckedIsStored
  <2>3. CallsOnEvents' /\ OpensTheFirst' /\ StoredSoFar'
    BY <2>1 DEF Inv, CallsOnEvents, OpensTheFirst, StoredSoFar, At
  <2>4. LocksAreHeld'
    BY <2>1 DEF Inv, LocksAreHeld, LockDiscipline, Holding
  <2>5. SingleSender' /\ ConfirmedIsOver'
    BY <2>1 DEF Inv, SingleSender, ConfirmedIsOver, Sending, At
  <2>6. AnnouncedFromOnePlace'
    <3>1. \A x \in Calls, m \in Messages : Ingesting(x, m)' <=> Ingesting(x, m)
      BY <2>1 DEF Ingesting, Holding
    <3> QED BY <3>1 DEF Inv, AnnouncedFromOnePlace
  <2> QED BY <2>2, <2>3, <2>4, <2>5, <2>6 DEF Inv
<1> QED BY <1>1, <1>2

\* The invariant holds whatever batches are posted, calls interleave and faults occur.
THEOREM InvHolds == Spec => []Inv
<1> QED BY InitInv, InvStep, PTL DEF Spec

\* Every variable keeps its type: in particular the ledger holds one of the statuses
\* of its column, and a call is in a state of the event handlers.
THEOREM TypeOKHolds == Spec => []TypeOK
<1>1. Inv => TypeOK
  BY DEF Inv
<1> QED BY <1>1, InvHolds, PTL

\* customer_lock works: the webhook calls of one process open at most one conversation
\* for a customer, however many of them it serves at a time.
THEOREM OneConversationPerInstanceHolds == Spec => []OneConversationPerInstance
<1>1. Inv => OneConversationPerInstance
  BY DEF Inv
<1> QED BY <1>1, InvHolds, PTL

\* reserve_attempt works across instances: one call at a time sends the automatic
\* reply to a message, and the ledger shows the attempt while it does.
THEOREM SingleSenderHolds == Spec => []SingleSender
<1>1. Inv => SingleSender
  BY DEF Inv
<1> QED BY <1>1, InvHolds, PTL

\* A reply the gateway confirmed is the last: redeliveries, crashes and failed ledger
\* updates lead to no other.
THEOREM QuietAfterSuccessHolds == Spec => QuietAfterSuccess
<1>1. Inv /\ [Next]_vars => [\A m \in confirmed : replies'[m] = replies[m]]_vars
  BY RepliesStep
<1> QED BY <1>1, InvHolds, PTL DEF Spec, QuietAfterSuccess

\* The broadcast and the media job of a message are done at most once: only the call
\* whose INSERT stored the message gets to spawn_followups.
THEOREM AnnouncedOnceHolds == Spec => []AnnouncedOnce
<1>1. Inv => AnnouncedOnce
  BY DEF Inv, AnnouncedFromOnePlace, AnnouncedOnce
<1> QED BY <1>1, InvHolds, PTL

\* A webhook answers 200 only when the platform may forget the batch: every message
\* of it has its row.
THEOREM AckedIsStoredHolds == Spec => []AckedIsStored
<1>1. Inv => AckedIsStored
  BY DEF Inv
<1> QED BY <1>1, InvHolds, PTL

=============================================================================
