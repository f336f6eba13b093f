--------------------------- MODULE MessageDelivery ---------------------------
(***************************************************************************)
(* The life of an agent's message after it is written.  POST               *)
(* /conversations/:id/messages commits the row as 'pending' and spawns a   *)
(* task that pushes its items to the customer's platform, a batch at a     *)
(* time, and then writes the outcome; the platform's receipts come back    *)
(* through the webhook.  Meanwhile agents edit, recall, bulk-recall and    *)
(* forward messages, each by a read and a later statement by id that       *)
(* checks nothing again.                                                   *)
(*                                                                         *)
(* Left out: customers' own messages, tags and reactions in the metadata   *)
(* column, mentions, conversation timestamps and the realtime broadcasts.  *)
(***************************************************************************)
EXTENDS Integers, Sequences, FiniteSets

CONSTANTS
    MaxMsgs,        \* bound: messages, numbered as they are written
    Atts,           \* attachment ids
    Chats,          \* conversations
    LineChats,      \* those of LINE customers: a batch is accepted whole or not at all
    MaxClerks,      \* bound: requests in progress at once
    TextItem,       \* the text of a message, as an item on the wire
    BatchCap,       \* BATCH_CAP (5 in channels.rs)
    MaxServed       \* bound: requests begun

ASSUME DeliveryAssumption ==
    /\ LineChats \subseteq Chats
    /\ TextItem \notin Atts /\ IsFiniteSet(Atts)
    /\ BatchCap \in Nat \ {0}
    /\ MaxMsgs \in Nat /\ MaxClerks \in Nat /\ MaxServed \in Nat

VARIABLES
    row,        \* row[m]: the messages table
    att,        \* att[a]: the attachments table
    task,       \* task[m]: the delivery task of message m
    wire,       \* wire[m]: the items of m its customer has received
    notices,    \* messages whose customer was told of the recall, or lost the remote copy
    clerk,      \* clerk[r]: request r on existing messages
    recallLog,  \* message_recall_logs
    raced,      \* messages recalled while an edit of them was under way
    served      \* requests begun

deliveryVars ==
    <<row, att, task, wire, notices, clerk, recallLog, raced, served>>

-----------------------------------------------------------------------------

Msgs == 1 .. MaxMsgs
Clerks == 1 .. MaxClerks
Items == Atts \cup {TextItem}
Statuses == {"pending", "sent", "partial", "failed", "delivered", "recalled"}

NoRow == [status |-> "none"]
Rows == [chat : Chats, status : Statuses, sent : BOOLEAN, pmid : BOOLEAN, recalled : BOOLEAN,
         text : {"original", "edited", "marker"}, deadline : {"none", "open", "passed"}]

\* An attachment, once uploaded, is unlinked (at = 0) or linked to a message.
Attachments == [up : BOOLEAN, at : Msgs \cup {0}, chat : Chats]

NoTask == [pc |-> "none"]
Tasks ==
    {NoTask}
    \cup [pc : {"select"}, asked : SUBSET Atts, text : BOOLEAN]
    \cup [pc : {"send"}, items : Seq(Items), all : SUBSET Items, ok : BOOLEAN, bad : BOOLEAN]

IdleClerk == [pc |-> "idle"]
ClerkStates ==
    {IdleClerk}
    \cup [pc : {"edit", "forward"}, msg : Msgs, text : {"original", "edited", "marker"}]
    \cup [pc : {"recall"}, msgs : SUBSET Msgs, notify : BOOLEAN, pmid : BOOLEAN]
    \cup [pc : {"notice"}, msgs : SUBSET Msgs, pmid : BOOLEAN]

DeliveryTypeOK ==
    /\ row \in [Msgs -> Rows \cup {NoRow}]
    /\ att \in [Atts -> Attachments]
    /\ task \in [Msgs -> Tasks]
    /\ wire \in [Msgs -> SUBSET Items]
    /\ notices \in SUBSET Msgs
    /\ clerk \in [Clerks -> ClerkStates]
    /\ recallLog \in SUBSET (Msgs \X {"successful", "failed"})
    /\ raced \in SUBSET Msgs
    /\ served \in 0 .. MaxServed

DeliveryInit ==
    /\ row = [m \in Msgs |-> NoRow]
    /\ att \in [Atts -> [up : {FALSE}, at : {0}, chat : Chats]]
    /\ task = [m \in Msgs |-> NoTask]
    /\ wire = [m \in Msgs |-> {}]
    /\ notices = {}
    /\ clerk = [r \in Clerks |-> IdleClerk]
    /\ recallLog = {}
    /\ raced = {}
    /\ served = 0

NewRow(c, status, deadline) ==
    [chat |-> c, status |-> status, sent |-> status = "sent", pmid |-> FALSE, recalled |-> FALSE,
     text |-> "original", deadline |-> deadline]

Exists(m) == row[m] # NoRow
Free(m) == \A n \in Msgs : row[n] = NoRow <=> n >= m

Serve == served < MaxServed /\ served' = served + 1

-----------------------------------------------------------------------------
(* Writing messages                                                          *)

\* The file is stored and its row inserted, unlinked, for one conversation.
Upload(a) ==
    /\ Serve
    /\ ~att[a].up
    /\ att' = [att EXCEPT ![a].up = TRUE]
    /\ UNCHANGED <<row, task, wire, notices, clerk, recallLog, raced>>

\* POST /messages/:id/attachments: stored and inserted on an existing message.
UploadOn(a, m) ==
    /\ Serve
    /\ ~att[a].up
    /\ Exists(m)
    /\ att' = [att EXCEPT ![a] = [up |-> TRUE, at |-> m, chat |-> row[m].chat]]
    /\ UNCHANGED <<row, task, wire, notices, clerk, recallLog, raced>>

\* MUTANT of LinkSent: the conversation is not in the WHERE clause.
LinkSentAnywhere(m, c, asked) ==
    [a \in Atts |-> IF a \in asked /\ att[a].up
                    THEN [att[a] EXCEPT !.at = m] ELSE att[a]]

\* The send links every attachment it names that belongs to its conversation, also one
\* that another message already holds.
LinkSent(m, c, asked) ==
    [a \in Atts |-> IF a \in asked /\ att[a].up /\ att[a].chat = c
                    THEN [att[a] EXCEPT !.at = m] ELSE att[a]]

\* send_message, its transaction: the row, the links; the text or an attachment is required.
Send(m, c, text, asked) ==
    /\ Serve
    /\ Free(m)
    /\ text \/ asked # {}
    /\ row' = [row EXCEPT ![m] = NewRow(c, "pending", "none")]
    /\ att' = LinkSent(m, c, asked)
    /\ task' = [task EXCEPT ![m] = [pc |-> "select", asked |-> asked, text |-> text]]
    /\ UNCHANGED <<wire, notices, clerk, recallLog, raced>>

\* create_message: a note of the agents' side, 'sent' at once and pushed nowhere; it links
\* only attachments that no message holds.
Create(m, c, asked) ==
    /\ Serve
    /\ Free(m)
    /\ row' = [row EXCEPT ![m] = NewRow(c, "sent", "none")]
    /\ att' = [a \in Atts |-> IF a \in asked /\ att[a].up /\ att[a].at = 0
                              THEN [att[a] EXCEPT !.at = m] ELSE att[a]]
    /\ UNCHANGED <<task, wire, notices, clerk, recallLog, raced>>

\* process_delayed for webchat: the row of a scheduled message, with a recall window.
CreateScheduled(m, c) ==
    /\ Serve
    /\ Free(m)
    /\ row' = [row EXCEPT ![m] = NewRow(c, "sent", "open")]
    /\ UNCHANGED <<att, task, wire, notices, clerk, recallLog, raced>>

DeadlinePasses(m) ==
    /\ Exists(m)
    /\ row[m].deadline = "open"
    /\ row' = [row EXCEPT ![m].deadline = "passed"]
    /\ UNCHANGED <<att, task, wire, notices, clerk, recallLog, raced, served>>

-----------------------------------------------------------------------------
(* Delivery                                                                  *)

\* The attachments are selected after the commit: one that another send took meanwhile
\* is not among them.  The text goes first.
SelectItems(m) ==
    LET mine == {a \in task[m].asked : att[a].at = m}
        all  == (IF task[m].text THEN {TextItem} ELSE {}) \cup mine
    IN  /\ task[m].pc = "select"
        /\ \E items \in [1 .. Cardinality(all) -> all] :
             /\ {items[i] : i \in DOMAIN items} = all
             /\ task[m].text => items[1] = TextItem
             /\ task' = [task EXCEPT ![m] =
                   [pc |-> "send", items |-> items, all |-> all, ok |-> FALSE, bad |-> FALSE]]
        /\ UNCHANGED <<row, att, wire, notices, clerk, recallLog, raced, served>>

BatchSize(m) == IF Len(task[m].items) < BatchCap THEN Len(task[m].items) ELSE BatchCap

\* send_batch: LINE takes a batch whole, the others item by item until one is refused.
\* The platform may have taken the items and the answer be lost.
SendBatch(m) ==
    /\ task[m].pc = "send"
    /\ task[m].items # <<>>
    /\ \E k \in 0 .. BatchSize(m), ok \in BOOLEAN :
         /\ row[m].chat \in LineChats => k \in {0, BatchSize(m)}
         /\ ok => k = BatchSize(m)
         /\ wire' = [wire EXCEPT ![m] = @ \cup {task[m].items[i] : i \in 1 .. k}]
         /\ task' = [task EXCEPT
              ![m].items = SubSeq(@, BatchSize(m) + 1, Len(@)),
              ![m].ok = @ \/ ok, ![m].bad = @ \/ ~ok]
    /\ UNCHANGED <<row, att, notices, clerk, recallLog, raced, served>>

\* MUTANT of Outcome: a failed batch does not count once one succeeded.
OutcomeOptimistic(ok, bad) == IF ok THEN "sent" ELSE "failed"

Outcome(ok, bad) ==
    IF ok /\ ~bad THEN "sent" ELSE IF ok THEN "partial" ELSE "failed"

Persist(r, ok, bad) ==
    [r EXCEPT !.status = Outcome(ok, bad), !.sent = ok, !.pmid = ok]

\* The outcome is written by id, whatever became of the row; when the statement fails it
\* is logged and the row stays 'pending'.
WriteOutcome(m) ==
    /\ task[m].pc = "send"
    /\ task[m].items = <<>>
    /\ \/ row' = [row EXCEPT ![m] = Persist(@, task[m].ok, task[m].bad)]
       \/ row' = row
    /\ task' = [task EXCEPT ![m] = NoTask]
    /\ UNCHANGED <<att, wire, notices, clerk, recallLog, raced, served>>

\* The webhook's delivery receipt finds the row by the platform's message id.  Meta sends it
\* once the customer has the message; one that arrives before the id is stored finds nothing.
Receipt(m) ==
    /\ Exists(m)
    /\ row[m].chat \notin LineChats
    /\ row[m].pmid
    /\ row[m].status # "delivered"
    /\ row' = [row EXCEPT ![m].status = "delivered"]
    /\ UNCHANGED <<att, task, wire, notices, clerk, recallLog, raced, served>>

-----------------------------------------------------------------------------
(* Edit, recall, forward                                                     *)

Take(r, state) ==
    /\ \A q \in 1 .. r : clerk[q] = IdleClerk <=> q = r
    /\ Serve
    /\ clerk' = [clerk EXCEPT ![r] = state]

\* update_message reads the row; without a content in the body it writes back the one it read.
BeginEdit(r, m) ==
    /\ Exists(m)
    /\ ~row[m].recalled
    /\ \E text \in {"edited", row[m].text} :
         Take(r, [pc |-> "edit", msg |-> m, text |-> text])
    /\ UNCHANGED <<row, att, task, wire, notices, recallLog, raced>>

FinishEdit(r) ==
    /\ clerk[r].pc = "edit"
    /\ row' = [row EXCEPT ![clerk[r].msg].text = clerk[r].text]
    /\ clerk' = [clerk EXCEPT ![r] = IdleClerk]
    /\ UNCHANGED <<att, task, wire, notices, recallLog, raced, served>>

Recallable(m) == Exists(m) /\ ~row[m].recalled /\ row[m].deadline # "passed"

\* recall_message and bulk_delete (notify FALSE) and recall_sent_message (one message,
\* notify TRUE) read the rows and keep those that may be recalled.
BeginRecall(r, S, notify) ==
    /\ S # {}
    /\ notify => Cardinality(S) = 1
    /\ \A m \in S : Recallable(m)
    /\ Take(r, [pc |-> "recall", msgs |-> S, notify |-> notify,
                pmid |-> notify /\ \A m \in S : row[m].pmid])
    /\ UNCHANGED <<row, att, task, wire, notices, recallLog, raced>>

\* recall_sent_message past the deadline leaves a trace and changes nothing.
RefuseRecall(m) ==
    /\ Exists(m)
    /\ ~row[m].recalled
    /\ row[m].deadline = "passed"
    /\ recallLog' = recallLog \cup {<<m, "failed">>}
    /\ UNCHANGED <<row, att, task, wire, notices, clerk, raced, served>>

Recalled(r) == [r EXCEPT !.recalled = TRUE, !.status = "recalled", !.text = "marker"]

EditedNow == {clerk[r].msg : r \in {q \in Clerks : clerk[q].pc = "edit"}}

\* One statement by id; recall_sent_message logs it, and goes on to the platform.
FinishRecall(r) ==
    LET S == clerk[r].msgs
    IN  /\ clerk[r].pc = "recall"
        /\ row' = [m \in Msgs |-> IF m \in S THEN Recalled(row[m]) ELSE row[m]]
        /\ raced' = raced \cup (S \cap EditedNow)
        /\ IF clerk[r].notify
           THEN /\ clerk' = [clerk EXCEPT ![r] =
                                [pc |-> "notice", msgs |-> S, pmid |-> @.pmid]]
                /\ recallLog' = recallLog \cup {<<m, "successful">> : m \in S}
           ELSE /\ clerk' = [clerk EXCEPT ![r] = IdleClerk]
                /\ UNCHANGED recallLog
        /\ UNCHANGED <<att, task, wire, notices, served>>

\* LINE customers get a notice; a Facebook copy is deleted when the row carried the
\* platform's id as it was read.  Failures are swallowed.
Notice(r) ==
    /\ clerk[r].pc = "notice"
    /\ \E told \in BOOLEAN :
         /\ told => \A m \in clerk[r].msgs : row[m].chat \in LineChats \/ clerk[r].pmid
         /\ notices' = IF told THEN notices \cup clerk[r].msgs ELSE notices
    /\ clerk' = [clerk EXCEPT ![r] = IdleClerk]
    /\ UNCHANGED <<row, att, task, wire, recallLog, raced, served>>

\* forward_message reads the source, whatever its state, and later inserts a copy.
BeginForward(r, m) ==
    /\ Exists(m)
    /\ Take(r, [pc |-> "forward", msg |-> m, text |-> row[m].text])
    /\ UNCHANGED <<row, att, task, wire, notices, recallLog, raced>>

FinishForward(r, m, c) ==
    /\ clerk[r].pc = "forward"
    /\ Free(m)
    /\ row' = [row EXCEPT ![m] = [NewRow(c, "sent", "none") EXCEPT !.text = clerk[r].text]]
    /\ clerk' = [clerk EXCEPT ![r] = IdleClerk]
    /\ UNCHANGED <<att, task, wire, notices, recallLog, raced, served>>

\* The delivery task is spawned and nothing remembers it: a restart loses it.
Restart ==
    /\ task' = [m \in Msgs |-> NoTask]
    /\ clerk' = [r \in Clerks |-> IdleClerk]
    /\ UNCHANGED <<row, att, wire, notices, recallLog, raced, served>>

DeliveryTask(m) == SelectItems(m) \/ SendBatch(m) \/ WriteOutcome(m)

DeliveryNext ==
    \/ \E a \in Atts : Upload(a) \/ \E m \in Msgs : UploadOn(a, m)
    \/ \E m \in Msgs, c \in Chats :
         \/ \E text \in BOOLEAN, asked \in SUBSET Atts : Send(m, c, text, asked)
         \/ \E asked \in SUBSET Atts : Create(m, c, asked)
         \/ CreateScheduled(m, c)
         \/ \E r \in Clerks : FinishForward(r, m, c)
    \/ \E m \in Msgs : DeadlinePasses(m) \/ DeliveryTask(m) \/ Receipt(m) \/ RefuseRecall(m)
    \/ \E r \in Clerks :
         \/ \E m \in Msgs : BeginEdit(r, m) \/ BeginForward(r, m)
         \/ \E S \in SUBSET Msgs, notify \in BOOLEAN : BeginRecall(r, S, notify)
         \/ FinishEdit(r) \/ FinishRecall(r) \/ Notice(r)
    \/ Restart

DeliveryFairness == \A m \in Msgs : WF_deliveryVars(DeliveryTask(m))

DeliverySpec == DeliveryInit /\ [][DeliveryNext]_deliveryVars /\ DeliveryFairness

-----------------------------------------------------------------------------
(* Properties                                                                *)

TruthfulStep(m) ==
    task[m].pc = "send" /\ task'[m] = NoTask /\ row'[m] # row[m] =>
        /\ row'[m].status = "sent" => wire[m] = task[m].all
        /\ row'[m].sent /\ task[m].all # {} => wire[m] # {}

\* What the task writes is what happened on the wire: 'sent' means that the customer has
\* every item of the message, 'partial' and is_sent that something arrived (deliver_pending).
OutcomeIsTruthful ==
    [][\A m \in Msgs : TruthfulStep(m)]_deliveryVars

\* No customer receives a file uploaded for the conversation of another: every attachment on
\* the wire belongs to the conversation of its message (the links of send_message, create
\* and the selection after the commit).
WireStaysInConversation ==
    \A m \in Msgs : \A a \in wire[m] \cap Atts : att[a].chat = row[m].chat

ConfirmedStep(m) ==
    Exists(m) =>
        /\ row[m].status = "delivered" => row'[m].status \in {"delivered", "recalled"}
        /\ row[m].status \in {"sent", "partial", "failed"} =>
               row'[m].status \in {row[m].status, "delivered", "recalled"}
        /\ row'[m].status = "pending" => row[m].status = "pending"

\* A row leaves 'pending' for good, and an outcome the platform confirmed is not taken back:
\* the task is the only writer of 'sent', 'partial' and 'failed', and a receipt can only
\* find a row whose task has written.
ConfirmedIsNotTakenBack ==
    [][\A m \in Msgs : ConfirmedStep(m)]_deliveryVars

\* A recalled message shows the marker, unless an edit was already under way when it was
\* recalled (update_message checks is_recalled on a read and writes by id).
RecallSticks ==
    \A m \in Msgs : Exists(m) /\ row[m].recalled /\ m \notin raced => row[m].text = "marker"

\* The customer hears of a recall only after the row says so, and a success in the log
\* belongs to a recalled row ("mark recalled first, log success, then best-effort
\* platform notification").
NoticeFollowsRecall ==
    \A m \in Msgs :
        m \in notices \/ <<m, "successful">> \in recallLog => Exists(m) /\ row[m].recalled

RecallUnderWay(m) == \E r \in Clerks : clerk[r].pc = "recall" /\ m \in clerk[r].msgs

WindowStep(m) ==
    Exists(m) /\ row[m].deadline = "passed" /\ ~row[m].recalled /\ ~RecallUnderWay(m)
        => ~row'[m].recalled /\ ~RecallUnderWay(m)'

\* The recall window closes: a message whose deadline has passed with no recall of it under
\* way is never recalled (recall_message, bulk_delete and recall_sent_message).
RecallWindowCloses ==
    [][\A m \in Msgs : WindowStep(m)]_deliveryVars

\* While the process lives and the database answers, a pending message gets its outcome.
PendingResolves ==
    []<>(\A m \in Msgs : task[m] = NoTask)

-----------------------------------------------------------------------------
(* Why they hold: the inductive invariant                                    *)

Belongs(a, m) == att[a].up /\ att[a].chat = row[m].chat

\* A task works for a row that no outcome was written to, on attachments of its
\* conversation; what it has not sent and not failed to send is still ahead of it.
TaskIsSound(m) ==
    LET t == task[m]
        ahead == {t.items[i] : i \in DOMAIN t.items}
    IN  /\ t # NoTask =>
             Exists(m) /\ ~row[m].pmid /\ row[m].status \in {"pending", "recalled"}
        /\ t.pc = "select" => wire[m] = {}
        /\ t.pc = "send" =>
             /\ ahead \subseteq t.all /\ wire[m] \subseteq t.all
             /\ ~t.bad => t.all \subseteq wire[m] \cup ahead
             /\ t.ok => wire[m] # {}
             /\ \A a \in t.all \cap Atts : Belongs(a, m)

\* Whatever is linked is linked to a message, which is of its conversation while the task
\* has yet to select.
LinkIsSound(a) ==
    att[a].at # 0 =>
        Exists(att[a].at) /\ (task[att[a].at].pc = "select" => Belongs(a, att[a].at))

WireIsSound(m) ==
    /\ wire[m] # {} => Exists(m)
    /\ \A a \in wire[m] \cap Atts : att[a].up

\* A request works on rows that exist; an edit of a recalled one has raced its recall.
ClerkIsSound(r) ==
    /\ clerk[r].pc = "edit" => Exists(clerk[r].msg)
                                 /\ (row[clerk[r].msg].recalled => clerk[r].msg \in raced)
    /\ clerk[r].pc = "recall" => \A m \in clerk[r].msgs : Exists(m)
    /\ clerk[r].pc = "notice" => \A m \in clerk[r].msgs : Exists(m) /\ row[m].recalled

\* What the rows, the wire and the log say of a message agree: no file crosses from one
\* conversation to another, a recall sticks, and its notice never comes before it.
DeliveryInv ==
    /\ DeliveryTypeOK
    /\ \A m \in Msgs : TaskIsSound(m) /\ WireIsSound(m)
    /\ \A a \in Atts : LinkIsSound(a)
    /\ \A r \in Clerks : ClerkIsSound(r)
    /\ WireStaysInConversation /\ RecallSticks /\ NoticeFollowsRecall

\* What no step does: claim what did not happen on the wire, take back an outcome the
\* platform confirmed, or recall a message after its deadline.
DeliverySteps == OutcomeIsTruthful /\ ConfirmedIsNotTakenBack /\ RecallWindowCloses
=============================================================================
