---------------------------- MODULE WebhookIngest ----------------------------
(***************************************************************************)
(* Inbound webhooks: a platform posts batches of message and follow events  *)
(* and posts a batch again until it is answered with 200.  Each event is    *)
(* deduplicated, finds or creates its customer and its open conversation,   *)
(* is stored, may be answered by an automatic reply under a delivery ledger, *)
(* and leaves follow-up work (broadcast, media job) to a spawned task.       *)
(*                                                                          *)
(* A webhook call is a future that any await may drop: the platform hangs   *)
(* up, or the process dies.  Calls of one instance serialise on a lock per  *)
(* customer; instances share nothing but the database, whose statements are *)
(* single steps with the unique indexes of the migrations.                   *)
(***************************************************************************)
EXTENDS Integers, Sequences

CONSTANTS
    Instances,          \* backend processes
    Liff,               \* the LIFF welcome page, which opens conversations too
    Calls, NoCall,      \* webhook calls that may be in progress; no lock holder
    Messages, Follows,  \* events: by platform message id, by webhook event id
    Customers,
    From,               \* From[e]: the customer an event comes from
    Routed,             \* customers with a team: a follow opens a conversation
    Friends,            \* customers who may scan a team's QR code
    Batches,            \* sequences of events the platform posts in one body
    MaxSends,           \* bound: times a batch is posted
    MaxFaults           \* bound: crashes, hang-ups and failed statements

Events == Messages \cup Follows
Openers == Instances \cup {Liff}

ASSUME WebhookAssumption ==
    /\ Liff \notin Instances
    /\ NoCall \notin Calls
    /\ Messages \cap Follows = {}
    /\ From \in [Events -> Customers]
    /\ Routed \subseteq Customers
    /\ Friends \subseteq Customers
    /\ \A b \in Batches : Len(b) \in Nat \ {0} /\ \A k \in 1..Len(b) : b[k] \in Events
    /\ MaxSends \in Nat
    /\ MaxFaults \in Nat

VARIABLES
    customers,   \* customers with a row
    opened,      \* opened[o][c]: conversations o created for c; none is ever closed
    stored,      \* messages with a row (messages.platform_message_id is unique)
    ledger,      \* ledger[m]: auto_reply_deliveries, unique by message
    seen,        \* follows reserved in webhook_replay_events
    lock,        \* lock[p][c]: the call of p that holds c's lock
    call,        \* call[x]: the webhook call x
    liff,        \* liff[c]: reconcile, between its SELECT and its INSERT
    spawned,     \* spawned[p]: messages whose follow-up task waits in p
    announced,   \* announced[m]: times the follow-up work of m was done
    replies,     \* replies[m]: automatic replies to m that reached the customer
    confirmed,   \* messages with a reply the gateway confirmed
    greeted,     \* greeted[f]: the welcomes that reached the customer
    acked,       \* batches answered with 200
    sends,       \* sends[b]: times b was posted
    faults

rows == <<customers, opened, stored, ledger, seen>>
outside == <<announced, replies, confirmed, greeted, acked, sends>>
vars == <<rows, lock, call, liff, spawned, outside, faults>>

-----------------------------------------------------------------------------

Idle == [pc |-> "idle"]

MessageStates ==
    {"dedupe", "lock", "customer", "newCustomer", "conversation", "newConversation",
     "store", "reply", "take", "retake", "send", "recordOk", "recordError", "followUp",
     "next"}
FollowStates ==
    {"reserve", "customer", "newCustomer", "lock", "conversation", "newConversation",
     "welcome", "default", "next"}

CallStates ==
    {Idle} \cup [pc : MessageStates \cup FollowStates, inst : Instances,
                 batch : Batches, k : Nat, failed : BOOLEAN]

TypeOK ==
    /\ customers \in SUBSET Customers
    /\ opened \in [Openers -> [Customers -> Nat]]
    /\ stored \in SUBSET Messages
    /\ ledger \in [Messages -> {"none", "pending", "success", "failed"}]
    /\ seen \in SUBSET Follows
    /\ lock \in [Instances -> [Customers -> Calls \cup {NoCall}]]
    /\ call \in [Calls -> CallStates]
    /\ liff \in [Customers -> {"idle", "insert"}]
    /\ spawned \in [Instances -> SUBSET Messages]
    /\ announced \in [Messages -> Nat]
    /\ replies \in [Messages -> Nat]
    /\ confirmed \in SUBSET Messages
    /\ greeted \in [Follows -> SUBSET {"rule", "default"}]
    /\ acked \in SUBSET Batches
    /\ sends \in [Batches -> Nat]
    /\ faults \in Nat

Init ==
    /\ customers = {}
    /\ opened = [o \in Openers |-> [c \in Customers |-> 0]]
    /\ stored = {}
    /\ ledger = [m \in Messages |-> "none"]
    /\ seen = {}
    /\ lock = [p \in Instances |-> [c \in Customers |-> NoCall]]
    /\ call = [x \in Calls |-> Idle]
    /\ liff = [c \in Customers |-> "idle"]
    /\ spawned = [p \in Instances |-> {}]
    /\ announced = [m \in Messages |-> 0]
    /\ replies = [m \in Messages |-> 0]
    /\ confirmed = {}
    /\ greeted = [f \in Follows |-> {}]
    /\ acked = {}
    /\ sends = [b \in Batches |-> 0]
    /\ faults = 0

\* The event a call works on, where it comes from, and in which instance.
Event(x) == call[x].batch[call[x].k]
Inst(x) == call[x].inst
Cust(x) == From[Event(x)]

At(x, pc) == call[x].pc = pc
Goto(x, pc) == call' = [call EXCEPT ![x].pc = pc]

Holding(x) == lock[Inst(x)][Cust(x)] = x

\* The lock table once x has dropped its guard.
Unlocked(x) ==
    [lock EXCEPT ![Inst(x)] =
       [c \in Customers |-> IF lock[Inst(x)][c] = x THEN NoCall ELSE lock[Inst(x)][c]]]

HasOpenConversation(c) == \E o \in Openers : opened[o][c] > 0

-----------------------------------------------------------------------------
(* The batch: line_webhook and its siblings                                  *)

Start(e) == IF e \in Messages THEN "dedupe" ELSE "reserve"

\* The platform posts b; it may do so again while an earlier call still runs.
Deliver(x, p, b) ==
    /\ call[x] = Idle
    /\ b \notin acked
    /\ sends[b] < MaxSends
    /\ sends' = [sends EXCEPT ![b] = @ + 1]
    /\ call' = [call EXCEPT ![x] = [pc |-> Start(b[1]), inst |-> p, batch |-> b, k |-> 1,
                                    failed |-> FALSE]]
    /\ UNCHANGED <<rows, lock, liff, spawned, announced, replies, confirmed, greeted,
                   acked, faults>>

\* The next event of the batch, or the answer: 200 only if no event failed.
NextEvent(x) ==
    /\ At(x, "next")
    /\ LET b == call[x].batch
           k == call[x].k IN
       IF k < Len(b)
       THEN /\ call' = [call EXCEPT ![x].k = k + 1, ![x].pc = Start(b[k + 1])]
            /\ UNCHANGED acked
       ELSE /\ call' = [call EXCEPT ![x] = Idle]
            /\ acked' = IF call[x].failed THEN acked ELSE acked \cup {b}
    /\ UNCHANGED <<rows, lock, liff, spawned, announced, replies, confirmed, greeted,
                   sends, faults>>

-----------------------------------------------------------------------------
(* ingest_message and handle_line_follow, up to the conversation             *)

\* The SELECT by platform message id, before the lock.  A known message goes
\* straight to retry_redelivered.
Dedupe(x) ==
    /\ At(x, "dedupe")
    /\ Goto(x, IF Event(x) \in stored THEN "reply" ELSE "lock")
    /\ UNCHANGED <<rows, lock, liff, spawned, outside, faults>>

\* reserve_webhook_event: INSERT ... ON CONFLICT DO NOTHING, before any side effect.
Reserve(x) ==
    /\ At(x, "reserve")
    /\ Goto(x, IF Event(x) \in seen THEN "next" ELSE "customer")
    /\ seen' = seen \cup {Event(x)}
    /\ UNCHANGED <<customers, opened, stored, ledger, lock, liff, spawned, outside, faults>>

\* A message is locked before its customer is looked up, a follow only after.
TakeLock(x) ==
    /\ At(x, "lock")
    /\ lock[Inst(x)][Cust(x)] = NoCall
    /\ lock' = [lock EXCEPT ![Inst(x)][Cust(x)] = x]
    /\ Goto(x, IF Event(x) \in Messages THEN "customer" ELSE "conversation")
    /\ UNCHANGED <<rows, liff, spawned, outside, faults>>

\* With the customer known: a follow without a team is finished.
AfterCustomer(x) ==
    IF Event(x) \in Messages THEN "conversation"
    ELSE IF Cust(x) \in Routed THEN "lock" ELSE "next"

FindCustomer(x) ==
    /\ At(x, "customer")
    /\ Goto(x, IF Cust(x) \in customers THEN AfterCustomer(x) ELSE "newCustomer")
    /\ UNCHANGED <<rows, lock, liff, spawned, outside, faults>>

InsertCustomer(x) ==
    /\ At(x, "newCustomer")
    /\ Cust(x) \notin customers
    /\ customers' = customers \cup {Cust(x)}
    /\ Goto(x, AfterCustomer(x))
    /\ UNCHANGED <<opened, stored, ledger, seen, lock, liff, spawned, outside, faults>>

\* MUTANT of FailEvent: the lock guard is leaked.
FailEventLocked(x) ==
    /\ call' = [call EXCEPT ![x].pc = "next", ![x].failed = TRUE]
    /\ UNCHANGED lock

\* The event fails: its error is counted, the lock guard dropped, the batch goes on.
FailEvent(x) ==
    /\ call' = [call EXCEPT ![x].pc = "next", ![x].failed = TRUE]
    /\ lock' = Unlocked(x)

\* Another call inserted the customer first: the unique index refuses the row.
CustomerConflict(x) ==
    /\ At(x, "newCustomer")
    /\ Cust(x) \in customers
    /\ FailEvent(x)
    /\ UNCHANGED <<rows, liff, spawned, outside, faults>>

\* With the conversation known a message is stored under the lock, a follow leaves
\* the locked block.
AfterConversation(x) ==
    IF Event(x) \in Messages
    THEN Goto(x, "store") /\ UNCHANGED lock
    ELSE Goto(x, "welcome") /\ lock' = Unlocked(x)

FindConversation(x) ==
    /\ At(x, "conversation")
    /\ IF HasOpenConversation(Cust(x))
       THEN AfterConversation(x)
       ELSE Goto(x, "newConversation") /\ UNCHANGED lock
    /\ UNCHANGED <<rows, liff, spawned, outside, faults>>

InsertConversation(x) ==
    /\ At(x, "newConversation")
    /\ opened' = [opened EXCEPT ![Inst(x)][Cust(x)] = @ + 1]
    /\ AfterConversation(x)
    /\ UNCHANGED <<customers, stored, ledger, seen, liff, spawned, outside, faults>>

-----------------------------------------------------------------------------
(* The message: its row, the automatic reply, the follow-up work             *)

\* The INSERT.  When the unique index refuses it the message is a duplicate: the
\* call is done with it, with no error and no reply.
Store(x) ==
    /\ At(x, "store")
    /\ IF Event(x) \in stored
       THEN /\ Goto(x, "next")
            /\ lock' = Unlocked(x)
            /\ UNCHANGED stored
       ELSE /\ Goto(x, "reply")
            /\ stored' = stored \cup {Event(x)}
            /\ UNCHANGED lock
    /\ UNCHANGED <<customers, opened, ledger, seen, liff, spawned, outside, faults>>

\* Where the evaluation returns to: ingest_message when it runs under the lock, the
\* end of the event when it runs for a redelivery.
AfterReply(x) == IF Holding(x) THEN "followUp" ELSE "next"

\* reserve_attempt's SELECT: which statement reserves the attempt, if any.
Reservable(m) ==
    CASE ledger[m] = "none" -> "take"
      [] ledger[m] = "failed" -> "retake"
      [] OTHER -> "busy"

\* evaluate_message: no rule matches, or the first that does asks for an attempt.
\* The rules, and the hours they depend on, may differ from one call to the next.
Evaluate(x) ==
    /\ At(x, "reply")
    /\ \E matched \in BOOLEAN :
         LET how == Reservable(Event(x)) IN
         Goto(x, IF matched /\ how # "busy" THEN how ELSE AfterReply(x))
    /\ UNCHANGED <<rows, lock, liff, spawned, outside, faults>>

\* INSERT ... ON CONFLICT DO NOTHING: a row changed means the attempt is ours.
TakeAttempt(x) ==
    /\ At(x, "take")
    /\ LET m == Event(x) IN
       IF ledger[m] = "none"
       THEN Goto(x, "send") /\ ledger' = [ledger EXCEPT ![m] = "pending"]
       ELSE Goto(x, AfterReply(x)) /\ UNCHANGED ledger
    /\ UNCHANGED <<customers, opened, stored, seen, lock, liff, spawned, outside, faults>>

\* MUTANT of RetakeAttempt: the UPDATE without its status guard.
RetakeUnguarded(x) ==
    /\ At(x, "retake")
    /\ Goto(x, "send")
    /\ ledger' = [ledger EXCEPT ![Event(x)] = "pending"]
    /\ UNCHANGED <<customers, opened, stored, seen, lock, liff, spawned, outside, faults>>

\* UPDATE ... WHERE status = 'failed', and the same test.
RetakeAttempt(x) ==
    /\ At(x, "retake")
    /\ LET m == Event(x) IN
       IF ledger[m] = "failed"
       THEN Goto(x, "send") /\ ledger' = [ledger EXCEPT ![m] = "pending"]
       ELSE Goto(x, AfterReply(x)) /\ UNCHANGED ledger
    /\ UNCHANGED <<customers, opened, stored, seen, lock, liff, spawned, outside, faults>>

\* The gateway call.  One that times out may have been served.
SendReply(x) ==
    /\ At(x, "send")
    /\ \/ /\ replies' = [replies EXCEPT ![Event(x)] = @ + 1]
          /\ confirmed' = confirmed \cup {Event(x)}
          /\ Goto(x, "recordOk")
       \/ /\ replies' = [replies EXCEPT ![Event(x)] = @ + 1]
          /\ Goto(x, "recordError")
          /\ UNCHANGED confirmed
       \/ /\ Goto(x, "recordError")
          /\ UNCHANGED <<replies, confirmed>>
    /\ UNCHANGED <<rows, lock, liff, spawned, announced, greeted, acked, sends, faults>>

\* MUTANT of Outcome: every attempt may be repeated.
OutcomeFails(x) == "failed"

Outcome(x) == IF At(x, "recordOk") THEN "success" ELSE "failed"

\* The UPDATE of the ledger row, whatever its status is by now.
RecordAttempt(x) ==
    /\ At(x, "recordOk") \/ At(x, "recordError")
    /\ ledger' = [ledger EXCEPT ![Event(x)] = Outcome(x)]
    /\ Goto(x, AfterReply(x))
    /\ UNCHANGED <<customers, opened, stored, seen, lock, liff, spawned, outside, faults>>

\* spawn_followups, and the lock guard goes out of scope.
FollowUp(x) ==
    /\ At(x, "followUp")
    /\ spawned' = [spawned EXCEPT ![Inst(x)] = @ \cup {Event(x)}]
    /\ Goto(x, "next")
    /\ lock' = Unlocked(x)
    /\ UNCHANGED <<rows, liff, outside, faults>>

\* The spawned task: broadcast, media job, notification, activity log.
Announce(p, m) ==
    /\ m \in spawned[p]
    /\ spawned' = [spawned EXCEPT ![p] = @ \ {m}]
    /\ announced' = [announced EXCEPT ![m] = @ + 1]
    /\ UNCHANGED <<rows, lock, call, liff, replies, confirmed, greeted, acked, sends, faults>>

-----------------------------------------------------------------------------
(* The follow: a welcome by rule, or the default one                         *)

Greet(x, how) == greeted' = [greeted EXCEPT ![Event(x)] = @ \cup {how}]

\* evaluate_welcome: no rule; sent; not sent; or reported as not sent.
Welcome(x) ==
    /\ At(x, "welcome")
    /\ \/ Goto(x, "default") /\ UNCHANGED greeted
       \/ Goto(x, "next") /\ Greet(x, "rule")
       \/ Goto(x, "default") /\ Greet(x, "rule")
    /\ UNCHANGED <<rows, lock, liff, spawned, announced, replies, confirmed, acked, sends,
                   faults>>

\* The default welcome follows whenever the rule's was not reported as sent.
DefaultWelcome(x) ==
    /\ At(x, "default")
    /\ Greet(x, "default") \/ UNCHANGED greeted
    /\ Goto(x, "next")
    /\ UNCHANGED <<rows, lock, liff, spawned, announced, replies, confirmed, acked, sends,
                   faults>>

-----------------------------------------------------------------------------
(* reconcile of the LIFF welcome page: the same SELECT and INSERT, no lock   *)

LiffRead(c) ==
    /\ c \in Friends \cap customers
    /\ liff[c] = "idle"
    /\ ~HasOpenConversation(c)
    /\ liff' = [liff EXCEPT ![c] = "insert"]
    /\ UNCHANGED <<rows, lock, call, spawned, outside, faults>>

LiffInsert(c) ==
    /\ liff[c] = "insert"
    /\ opened' = [opened EXCEPT ![Liff][c] = @ + 1]
    /\ liff' = [liff EXCEPT ![c] = "idle"]
    /\ UNCHANGED <<customers, stored, ledger, seen, lock, call, spawned, outside, faults>>

-----------------------------------------------------------------------------
(* Faults                                                                    *)

Fault == faults < MaxFaults /\ faults' = faults + 1

\* A statement whose error the event returns: 500, and the platform posts it again.
StatementFails(x) ==
    /\ call[x].pc \in {"dedupe", "reserve", "customer", "newCustomer", "conversation",
                       "newConversation", "store"}
    /\ Fault
    /\ FailEvent(x)
    /\ UNCHANGED <<rows, liff, spawned, outside>>

\* A statement of the engine: evaluate_message's result is dropped by its callers.
LedgerFails(x) ==
    /\ call[x].pc \in {"reply", "take", "retake", "recordOk", "recordError"}
    /\ Fault
    /\ Goto(x, AfterReply(x))
    /\ UNCHANGED <<rows, lock, liff, spawned, outside>>

\* The platform hangs up and the handler's future is dropped, lock guard included.
HangUp(x) ==
    /\ call[x] # Idle
    /\ Fault
    /\ call' = [call EXCEPT ![x] = Idle]
    /\ lock' = Unlocked(x)
    /\ UNCHANGED <<rows, liff, spawned, outside>>

\* p dies: its calls, its locks and its spawned tasks are gone.
Crash(p) ==
    /\ Fault
    /\ call' = [x \in Calls |-> IF call[x] # Idle /\ call[x].inst = p THEN Idle ELSE call[x]]
    /\ lock' = [lock EXCEPT ![p] = [c \in Customers |-> NoCall]]
    /\ spawned' = [spawned EXCEPT ![p] = {}]
    /\ UNCHANGED <<rows, liff, outside>>

-----------------------------------------------------------------------------

CallStep(x) ==
    \/ NextEvent(x)
    \/ Dedupe(x)
    \/ Reserve(x)
    \/ TakeLock(x)
    \/ FindCustomer(x)
    \/ InsertCustomer(x)
    \/ CustomerConflict(x)
    \/ FindConversation(x)
    \/ InsertConversation(x)
    \/ Store(x)
    \/ Evaluate(x)
    \/ TakeAttempt(x)
    \/ RetakeAttempt(x)
    \/ SendReply(x)
    \/ RecordAttempt(x)
    \/ FollowUp(x)
    \/ Welcome(x)
    \/ DefaultWelcome(x)

CallFault(x) ==
    \/ StatementFails(x)
    \/ LedgerFails(x)
    \/ HangUp(x)

Posted(b) == \E x \in Calls, p \in Instances : Deliver(x, p, b)

Next ==
    \/ \E b \in Batches : Posted(b)
    \/ \E x \in Calls : CallStep(x) \/ CallFault(x)
    \/ \E p \in Instances, m \in Messages : Announce(p, m)
    \/ \E c \in Customers : LiffRead(c) \/ LiffInsert(c)
    \/ \E p \in Instances : Crash(p)

Spec == Init /\ [][Next]_vars

\* The platform posts what was not answered with 200, every await of a call ends
\* (statements and gateway calls have time limits), and spawned tasks are run.
FairSpec ==
    /\ Spec
    /\ \A b \in Batches : WF_vars(Posted(b))
    /\ \A x \in Calls : WF_vars(CallStep(x))
    /\ \A p \in Instances, m \in Messages : WF_vars(Announce(p, m))

-----------------------------------------------------------------------------
(* What holds                                                                *)

\* The webhook calls of one process open at most one conversation for a customer,
\* however they interleave: find_or_create_open_conversation runs under customer_lock,
\* also for the follow, which found its customer before it took the lock.
OneConversationPerInstance ==
    \A p \in Instances, c \in Customers : opened[p][c] <= 1

\* Two calls, of one or of two instances, never send the reply to one message at the
\* same time, and while one does the ledger says so: reserve_attempt.
Sending(x, m) ==
    /\ call[x].pc \in {"send", "recordOk", "recordError"}
    /\ Event(x) = m

SingleSender ==
    \A m \in Messages, x \in Calls :
      Sending(x, m) => /\ ledger[m] = "pending"
                       /\ \A y \in Calls \ {x} : ~Sending(y, m)

\* Once the gateway confirmed a reply the customer gets no other reply to the same
\* message, through redeliveries, crashes and failed ledger updates.
QuietAfterSuccess ==
    [][\A m \in confirmed : replies'[m] = replies[m]]_vars

\* The follow-up work of a message is done at most once, although every redelivery
\* that passed the early SELECT goes through the whole of ingest_message.
AnnouncedOnce ==
    \A m \in Messages : announced[m] <= 1

\* A batch is answered with 200 only when all its messages have their rows: nothing
\* the platform will not post again is missing.
AckedIsStored ==
    \A b \in acked : \A k \in 1..Len(b) : b[k] \in Messages => b[k] \in stored

\* A message the platform keeps posting is stored in the end, through crashes,
\* hang-ups and lost races.
\* Stored is for good, so it is enough that nothing posted is missing again and again.
PostedIsStored ==
    []<>(\A b \in Batches : \A k \in 1..Len(b) :
           b[k] \in Messages /\ sends[b] > 0 => b[k] \in stored)

-----------------------------------------------------------------------------
(* Why it holds: the inductive invariant                                     *)

\* A call works on an event of its batch, in a state of that kind of event.
CallsOnEvents ==
    \A x \in Calls : call[x] # Idle =>
      /\ call[x].k \in 1..Len(call[x].batch)
      /\ Event(x) \in Messages => call[x].pc \in MessageStates
      /\ Event(x) \in Follows => call[x].pc \in FollowStates

LockedStates ==
    {"customer", "newCustomer", "conversation", "newConversation", "store", "reply",
     "take", "retake", "send", "recordOk", "recordError", "followUp"}

\* A held lock is that of the customer its holder works on; a follow holds it only
\* while it looks for the conversation.  Whoever looks for a conversation, or stores
\* a message it has not seen before, holds it.
LockDiscipline(x) ==
    /\ \A p \in Instances, c \in Customers :
         lock[p][c] = x =>
           /\ call[x].pc \in LockedStates
           /\ Event(x) \in Follows => call[x].pc \in {"conversation", "newConversation"}
           /\ Inst(x) = p
           /\ Cust(x) = c
    /\ \/ call[x].pc \in {"conversation", "newConversation", "store", "followUp"}
       \/ call[x].pc \in {"customer", "newCustomer"} /\ Event(x) \in Messages
       => Holding(x)

LocksAreHeld == \A x \in Calls : LockDiscipline(x)

\* Who is about to open a conversation has seen that its instance opened none.
OpensTheFirst ==
    \A x \in Calls : At(x, "newConversation") => opened[Inst(x)][Cust(x)] = 0

\* The reply to a confirmed message is over, or about to be recorded as a success.
ConfirmedIsOver ==
    \A m \in confirmed :
      /\ ledger[m] \in {"pending", "success"}
      /\ \A x \in Calls : Sending(x, m) => At(x, "recordOk")

\* The call that inserted m, until it has spawned the follow-up work.
Ingesting(x, m) ==
    /\ call[x].pc \in {"reply", "take", "retake", "send", "recordOk", "recordError",
                       "followUp"}
    /\ Event(x) = m
    /\ Holding(x)

\* The follow-up work of a stored message is in one place: ahead, spawned or done.
AnnouncedFromOnePlace ==
    \A m \in Messages :
      /\ announced[m] <= 1
      /\ announced[m] = 1 => m \in stored
      /\ \A x \in Calls : Ingesting(x, m) =>
           /\ announced[m] = 0
           /\ \A p \in Instances : m \notin spawned[p]
           /\ \A y \in Calls \ {x} : ~Ingesting(y, m)
      /\ \A p \in Instances : m \in spawned[p] =>
           /\ announced[m] = 0
           /\ m \in stored
           /\ \A q \in Instances \ {p} : m \notin spawned[q]

\* A call that reports no failure has left no message of its batch unstored.
StoredSoFar ==
    \A x \in Calls : call[x] # Idle =>
      /\ call[x].pc \in {"reply", "take", "retake", "send", "recordOk", "recordError",
                         "followUp"} => Event(x) \in stored
      /\ ~call[x].failed =>
           /\ \A j \in 1..(call[x].k - 1) :
                call[x].batch[j] \in Messages => call[x].batch[j] \in stored
           /\ At(x, "next") /\ Event(x) \in Messages => Event(x) \in stored

\* The conjunction that every step preserves: nothing that two calls or a redelivery race
\* for happens twice (conversation, reply, announcement), and nothing is acknowledged that
\* is not stored.  It implies the invariants above: proved in WebhookIngestProofs.
Inv ==
    /\ TypeOK
    /\ CallsOnEvents
    /\ LocksAreHeld
    /\ OpensTheFirst
    /\ OneConversationPerInstance
    /\ SingleSender
    /\ ConfirmedIsOver
    /\ AnnouncedFromOnePlace
    /\ StoredSoFar
    /\ AckedIsStored

-----------------------------------------------------------------------------
(* What the documents say and the code does not do                           *)

\* Rust_CRD.md: "at most one open conversation results".
OneOpenConversation ==
    \A c \in Customers :
      /\ \A o \in Openers : opened[o][c] <= 1
      /\ \A o, q \in Openers : opened[o][c] > 0 /\ opened[q][c] > 0 => o = q

\* Rust_CRD.md: "uniqueness on the platform message identifier guarantees
\* at-most-once auto-reply per inbound message".
OneReplyPerMessage ==
    \A m \in Messages : replies[m] <= 1

\* reserve_webhook_event: it returns false "when the exact event has already been
\* processed".  A processed follow has its customer.
SeenIsProcessed ==
    \A b \in acked : \A k \in 1..Len(b) : b[k] \in Follows => From[b[k]] \in customers

\* handle_line_follow: "falling back to the default localized welcome only when no
\* rule matched".
OneWelcome ==
    \A f \in Follows : greeted[f] # {"rule", "default"}

\* spawn_followups: "New-message event for every successfully persisted inbound
\* message".
StoredIsAnnounced ==
    \A m \in Messages : m \in stored ~> announced[m] > 0

=============================================================================
