--------------------------- MODULE MessagesProofs ----------------------------
(***************************************************************************)
(* Proofs about one process: the delivery of messages, the job queue and   *)
(* the realtime hub, for any number of messages, jobs, connections and     *)
(* users.  Each part has one inductive invariant.  DeliveryInv: beside     *)
(* what is promised of rows and of what went over the wire, what a task,   *)
(* an attachment and a clerk hold in hand.  QueueInv: beside where a job   *)
(* is and what the books say, what the job in hand has behind it and how   *)
(* its pushes bound its tries.  HubInv: beside presence, state and         *)
(* history, which connections, requests and challenges there can be. What  *)
(* a step of a delivery may never do follows from the first: a row that    *)
(* exists is left alone, touched, recalled, receipted or concluded, and    *)
(* nothing else.                                                           *)
(***************************************************************************)
EXTENDS MCMessages, FiniteSetTheorems, SequenceTheorems, TLAPS

(* The delivery of messages.                                              *)

\* What tasks, attachments and clerks hold in hand.
DeliverySteady == /\ \A m \in Msgs : TaskIsSound(m) /\ WireIsSound(m)
                  /\ \A a \in Atts : LinkIsSound(a)
                  /\ \A r \in Clerks : ClerkIsSound(r)
\* What is promised of the rows and of the wire.
DeliveryPromises == WireStaysInConversation /\ RecallSticks /\ NoticeFollowsRecall

\* Rows do not go away, nor change their conversation, nor forget a recall; neither do
\* uploads.
DeliveryKept ==
    /\ \A m \in Msgs : Exists(m) =>
         Exists(m)' /\ row'[m].chat = row[m].chat /\ (row[m].recalled => row'[m].recalled)
    /\ \A a \in Atts : att[a].up => att'[a].up /\ att'[a].chat = att[a].chat

\* The fields of a row.
LEMMA RowFacts ==
  ASSUME NEW r \in Rows
  PROVE  /\ r # NoRow /\ r.chat \in Chats /\ r.status \in Statuses /\ r.sent \in BOOLEAN
         /\ r.pmid \in BOOLEAN /\ r.recalled \in BOOLEAN
         /\ r.text \in {"original", "edited", "marker"}
         /\ r.deadline \in {"none", "open", "passed"}
<1>1. r.status # "none"
  BY DEF Rows, Statuses
<1>. QED
  BY <1>1 DEF Rows, NoRow

\* A row as it is inserted.
LEMMA NewRowFacts ==
  ASSUME NEW c \in Chats, NEW s \in {"pending", "sent"}, NEW d \in {"none", "open"}
  PROVE  /\ NewRow(c, s, d) \in Rows /\ NewRow(c, s, d).chat = c /\ NewRow(c, s, d).status = s
         /\ NewRow(c, s, d).pmid = FALSE /\ NewRow(c, s, d).recalled = FALSE
         /\ NewRow(c, s, d).deadline = d
BY DEF NewRow, Rows, Statuses

\* What a task carries, by the point it has reached.
LEMMA TaskFacts ==
  ASSUME NEW t \in Tasks
  PROVE  /\ t = NoTask <=> t.pc = "none"
         /\ t.pc \in {"none", "select", "send"}
         /\ t.pc = "select" => t.asked \in SUBSET Atts /\ t.text \in BOOLEAN
         /\ t.pc = "send" => /\ t.items \in Seq(Items) /\ t.all \in SUBSET Items
                             /\ t.ok \in BOOLEAN /\ t.bad \in BOOLEAN
BY DEF Tasks, NoTask

\* What a clerk carries, by the point it has reached.
LEMMA ClerkFacts ==
  ASSUME NEW k \in ClerkStates
  PROVE  /\ k = IdleClerk <=> k.pc = "idle"
         /\ k.pc \in {"idle", "edit", "forward", "recall", "notice"}
         /\ k.pc \in {"edit", "forward"} => k.msg \in Msgs
              /\ k.text \in {"original", "edited", "marker"}
         /\ k.pc \in {"recall", "notice"} => k.msgs \in SUBSET Msgs /\ k.pmid \in BOOLEAN
         /\ k.pc = "recall" => k.notify \in BOOLEAN
BY DEF ClerkStates, IdleClerk

-----------------------------------------------------------------------------
(* Frames. *)

\* Tasks that do not move stand while their rows keep their outcome.
LEMMA TasksStand ==
  ASSUME DeliveryInv, DeliveryKept, task' = task, wire' = wire,
         \A m \in Msgs : task[m] # NoTask =>
            row'[m].pmid = row[m].pmid /\ row'[m].status \in {row[m].status, "recalled"}
  PROVE  \A m \in Msgs : TaskIsSound(m)' /\ WireIsSound(m)'
<1>. SUFFICES ASSUME NEW m \in Msgs PROVE TaskIsSound(m)' /\ WireIsSound(m)'
  OBVIOUS
<1>1. TaskIsSound(m) /\ WireIsSound(m) /\ task[m] \in Tasks
  BY DEF DeliveryInv, DeliveryTypeOK
<1>2. WireIsSound(m)'
  BY <1>1 DEF WireIsSound, DeliveryKept
<1>3. \A a \in Atts : Exists(m) /\ Belongs(a, m) => Belongs(a, m)'
  BY DEF Belongs, DeliveryKept
<1>4. TaskIsSound(m)'
  BY <1>1, <1>3, TaskFacts DEF TaskIsSound, DeliveryKept
<1>. QED
  BY <1>2, <1>4

\* Attachments that are not linked anew stay where they belong.
LEMMA LinksStand ==
  ASSUME DeliveryInv, DeliveryKept, \A a \in Atts : att'[a].at = att[a].at,
         \A m \in Msgs : task'[m].pc = "select" => task[m].pc = "select"
  PROVE  \A a \in Atts : LinkIsSound(a)'
<1>. SUFFICES ASSUME NEW a \in Atts PROVE LinkIsSound(a)'
  OBVIOUS
<1>1. LinkIsSound(a) /\ att[a].at \in Msgs \cup {0} /\ att'[a].at = att[a].at
  BY DEF DeliveryInv, DeliveryTypeOK, Attachments
<1>. QED
  BY <1>1 DEF LinkIsSound, Belongs, DeliveryKept, Exists

\* Clerks that do not move stand.
LEMMA ClerksStand ==
  ASSUME DeliveryInv, DeliveryKept, clerk' = clerk, raced' = raced,
         \A m \in Msgs : Exists(m) => row'[m].recalled = row[m].recalled
  PROVE  \A r \in Clerks : ClerkIsSound(r)'
<1>. SUFFICES ASSUME NEW r \in Clerks PROVE ClerkIsSound(r)'
  OBVIOUS
<1>1. ClerkIsSound(r) /\ clerk[r] \in ClerkStates
  BY DEF DeliveryInv, DeliveryTypeOK
<1>. QED
  BY <1>1, ClerkFacts DEF ClerkIsSound, DeliveryKept

\* What went over the wire stays in its conversation.
LEMMA WireStands ==
  ASSUME DeliveryInv, DeliveryKept, wire' = wire
  PROVE  WireStaysInConversation'
BY DEF DeliveryInv, WireStaysInConversation, WireIsSound, DeliveryKept

\* Notices stand while no recall succeeds.
LEMMA NoticesStand ==
  ASSUME DeliveryInv, DeliveryKept, notices' = notices,
         recallLog' \cap (Msgs \X {"successful"}) = recallLog \cap (Msgs \X {"successful"})
  PROVE  NoticeFollowsRecall'
BY DEF DeliveryInv, NoticeFollowsRecall, DeliveryKept

\* Recalled rows keep the marker.
LEMMA RecallsStand ==
  ASSUME DeliveryInv, raced' = raced,
         \A m \in Msgs : row'[m] # row[m] /\ row'[m].recalled =>
            row[m].recalled /\ Exists(m) /\ row'[m].text = row[m].text
  PROVE  RecallSticks'
<1>. SUFFICES ASSUME NEW m \in Msgs
              PROVE  Exists(m)' /\ row'[m].recalled /\ m \notin raced => row'[m].text = "marker"
  BY DEF RecallSticks
<1>1. Exists(m) /\ row[m].recalled /\ m \notin raced => row[m].text = "marker"
  BY DEF DeliveryInv, RecallSticks
<1>. QED
  BY <1>1 DEF Exists

\* The invariant is the types, what is in hand and the promises.
LEMMA DeliveryConclusion == DeliveryTypeOK /\ DeliverySteady /\ DeliveryPromises => DeliveryInv
BY DEF DeliveryInv, DeliverySteady, DeliveryPromises

\* No message has been written.
LEMMA DeliveryInitially == DeliveryInit => DeliveryInv
<1>. SUFFICES ASSUME DeliveryInit PROVE DeliveryInv
  OBVIOUS
<1>1. DeliveryTypeOK
  <2>1. att \in [Atts -> Attachments]
    BY DEF DeliveryInit, Attachments
  <2>2. task \in [Msgs -> Tasks] /\ clerk \in [Clerks -> ClerkStates] /\ served \in 0 .. MaxServed
    BY DeliveryAssumption DEF DeliveryInit, Tasks, ClerkStates
  <2>. QED
    BY <2>1, <2>2 DEF DeliveryInit, DeliveryTypeOK
<1>2. DeliverySteady
  BY DEF DeliveryInit, DeliverySteady, TaskIsSound, WireIsSound, LinkIsSound, ClerkIsSound,
     NoTask, IdleClerk
<1>3. DeliveryPromises
  BY DEF DeliveryInit, DeliveryPromises, WireStaysInConversation, RecallSticks,
     NoticeFollowsRecall, Exists
<1>. QED
  BY <1>1, <1>2, <1>3, DeliveryConclusion

\* A request is counted.
LEMMA ServeFacts ==
  ASSUME DeliveryTypeOK, Serve
  PROVE  served' \in 0 .. MaxServed
BY DeliveryAssumption DEF DeliveryTypeOK, Serve

\* What is left of the items when the first n are taken off.
Left(s, n) == SubSeq(s, n + 1, Len(s))

\* Taking n items off a sequence loses nothing but them.
LEMMA RestOfSequence ==
  ASSUME NEW s \in Seq(Items), NEW n \in 0 .. Len(s)
  PROVE  /\ Left(s, n) \in Seq(Items)
         /\ {Left(s, n)[i] : i \in DOMAIN Left(s, n)} \subseteq {s[i] : i \in DOMAIN s}
         /\ {s[i] : i \in DOMAIN s} \subseteq {s[i] : i \in 1 .. n} \cup {Left(s, n)[i] : i \in DOMAIN Left(s, n)}
<1>. DEFINE left == Left(s, n)
<1>1. Len(s) \in Nat /\ n \in Nat /\ n <= Len(s) /\ DOMAIN s = 1 .. Len(s)
  OBVIOUS
<1>2. /\ left \in Seq(Items) /\ Len(left) = Len(s) - n /\ DOMAIN left = 1 .. (Len(s) - n)
      /\ \A i \in 1 .. (Len(s) - n) : left[i] = s[n + i]
  <2>1. \A i \in (n + 1) .. Len(s) : s[i] \in Items
    BY <1>1
  <2>2. /\ left \in Seq(Items)
        /\ Len(left) = IF n + 1 <= Len(s) THEN Len(s) - (n + 1) + 1 ELSE 0
        /\ \A i \in 1 .. Len(s) - (n + 1) + 1 : left[i] = s[n + 1 + i - 1]
    BY <1>1, <2>1, SubSeqProperties DEF Left
  <2>3. Len(left) = Len(s) - n
    <3>1. CASE n + 1 <= Len(s)
      BY <1>1, <2>2, <3>1
    <3>2. CASE ~(n + 1 <= Len(s))
      <4>1. n = Len(s)
        <5>1. \A a, b \in Nat : a <= b /\ ~(a + 1 <= b) => a = b
          OBVIOUS
        <5>. QED
          BY <1>1, <3>2, <5>1
      <4>2. Len(left) = 0
        BY <2>2, <3>2
      <4>. QED
        BY <1>1, <4>1, <4>2
    <3>. QED
      BY <3>1, <3>2
  <2>4. DOMAIN left = 1 .. Len(left)
    BY <2>2
  <2>5. ASSUME NEW i \in 1 .. (Len(s) - n) PROVE left[i] = s[n + i]
    <3>1. i \in 1 .. Len(s) - (n + 1) + 1 /\ n + 1 + i - 1 = n + i
      BY <1>1
    <3>2. left[i] = s[n + 1 + i - 1]
      BY <2>2, <3>1
    <3>. QED
      BY <3>1, <3>2
  <2>. QED
    BY <2>2, <2>3, <2>4, <2>5
<1>. HIDE DEF left
<1>3. ASSUME NEW j \in 1 .. Len(s), ~(j \in 1 .. n)
      PROVE  j - n \in DOMAIN left /\ left[j - n] = s[j]
  <2>1. j - n \in 1 .. (Len(s) - n) /\ n + (j - n) = j
    BY <1>1, <1>3
  <2>2. left[j - n] = s[n + (j - n)]
    BY <1>2, <2>1
  <2>. QED
    BY <1>2, <2>1, <2>2
<1>4. ASSUME NEW i \in DOMAIN left PROVE n + i \in DOMAIN s /\ left[i] = s[n + i]
  <2>1. i \in 1 .. (Len(s) - n)
    BY <1>2
  <2>2. n + i \in 1 .. Len(s)
    BY <1>1, <2>1
  <2>. QED
    BY <1>1, <1>2, <2>1, <2>2
<1>5. {left[i] : i \in DOMAIN left} \subseteq {s[i] : i \in DOMAIN s}
  BY <1>4
<1>6. {s[i] : i \in DOMAIN s} \subseteq {s[i] : i \in 1 .. n} \cup {left[i] : i \in DOMAIN left}
  BY <1>1, <1>3
<1>. QED
  BY <1>2, <1>5, <1>6 DEF left

\* A free id has no row.
LEMMA FreeFacts ==
  ASSUME NEW m \in Msgs, Free(m)
  PROVE  ~Exists(m)
<1>1. m \in Nat
  BY DeliveryAssumption DEF Msgs
<1>. QED
  BY <1>1 DEF Free, Exists

\* Every step of a request, of a delivery task, of a clerk, of the platform and of a restart
\* keeps the invariant.
LEMMA DeliveryStep == DeliveryInv /\ [DeliveryNext]_deliveryVars => DeliveryInv'
<1>. SUFFICES ASSUME DeliveryInv, [DeliveryNext]_deliveryVars PROVE DeliveryInv'
  OBVIOUS
<1>1. DeliveryTypeOK
  BY DEF DeliveryInv
<1>2. ASSUME NEW a \in Atts, Upload(a) PROVE DeliveryInv'
  <2>1. /\ att' \in [Atts -> Attachments]
        /\ \A x \in Atts : att'[x].at = att[x].at /\ att'[x].chat = att[x].chat
             /\ (att[x].up => att'[x].up)
    BY <1>2, <1>1 DEF Upload, DeliveryTypeOK, Attachments
  <2>2. DeliveryTypeOK'
    BY <1>2, <1>1, <2>1, ServeFacts DEF Upload, DeliveryTypeOK
  <2>3. DeliveryKept
    BY <1>2, <1>1, <2>1 DEF Upload, DeliveryKept, Exists
  <2>4. \A x \in Msgs : TaskIsSound(x)' /\ WireIsSound(x)'
    BY <1>2, <2>1, <2>3, TasksStand DEF Upload
  <2>5. \A x \in Atts : LinkIsSound(x)'
    BY <1>2, <2>1, <2>3, LinksStand DEF Upload
  <2>6. \A x \in Clerks : ClerkIsSound(x)'
    BY <1>2, <2>1, <2>3, ClerksStand DEF Upload
  <2>7. WireStaysInConversation' /\ NoticeFollowsRecall'
    BY <1>2, <2>1, <2>3, WireStands, NoticesStand DEF Upload
  <2>8. DeliverySteady'
    BY <2>4, <2>5, <2>6 DEF DeliverySteady
  <2>9. DeliveryPromises'
    BY <1>2, <2>1, <2>7, RecallsStand DEF Upload, DeliveryPromises
  <2>. QED
    BY <2>2, <2>8, <2>9, DeliveryConclusion, PTL
<1>3. ASSUME NEW a \in Atts, NEW m \in Msgs, UploadOn(a, m) PROVE DeliveryInv'
  <2>1. /\ att' \in [Atts -> Attachments]
        /\ att'[a].up /\ att'[a].at = m /\ att'[a].chat = row[m].chat
        /\ \A x \in Atts : x # a => att'[x] = att[x]
    BY <1>3, <1>1, RowFacts DEF UploadOn, DeliveryTypeOK, Attachments, Exists
  <2>2. DeliveryTypeOK'
    BY <1>3, <1>1, <2>1, ServeFacts DEF UploadOn, DeliveryTypeOK
  <2>3. DeliveryKept
    BY <1>3, <1>1, <2>1 DEF UploadOn, DeliveryKept, Exists
  <2>4. \A x \in Msgs : TaskIsSound(x)' /\ WireIsSound(x)'
    BY <1>3, <2>1, <2>3, TasksStand DEF UploadOn
  <2>5. \A x \in Atts : LinkIsSound(x)'
    BY <1>3, <2>1 DEF UploadOn, DeliveryInv, LinkIsSound, Belongs, Exists
  <2>6. \A x \in Clerks : ClerkIsSound(x)'
    BY <1>3, <2>1, <2>3, ClerksStand DEF UploadOn
  <2>7. WireStaysInConversation' /\ NoticeFollowsRecall'
    BY <1>3, <2>1, <2>3, WireStands, NoticesStand DEF UploadOn
  <2>8. DeliverySteady'
    BY <2>4, <2>5, <2>6 DEF DeliverySteady
  <2>9. DeliveryPromises'
    BY <1>3, <2>1, <2>7, RecallsStand DEF UploadOn, DeliveryPromises
  <2>. QED
    BY <2>2, <2>8, <2>9, DeliveryConclusion, PTL
<1>4. ASSUME NEW m \in Msgs, NEW c \in Chats, NEW asked \in SUBSET Atts, Create(m, c, asked)
      PROVE  DeliveryInv'
  <2>1. /\ row' \in [Msgs -> Rows \cup {NoRow}] /\ ~Exists(m) /\ row'[m] # NoRow
        /\ ~row'[m].recalled
        /\ \A x \in Msgs : x # m => row'[x] = row[x]
    <3>. DEFINE v == NewRow(c, "sent", "none")
    <3>1. v \in Rows /\ v.chat = c /\ v.status = "sent" /\ v.pmid = FALSE /\ v.recalled = FALSE
      BY NewRowFacts, ZenonT(40)
    <3>2. v # NoRow
      BY <3>1, RowFacts
    <3>3. row' = [row EXCEPT ![m] = v] /\ ~Exists(m)
      BY <1>4, FreeFacts DEF Create
    <3>. HIDE DEF v
    <3>. QED
      BY <1>1, <3>1, <3>2, <3>3 DEF DeliveryTypeOK
  <2>2. /\ att' \in [Atts -> Attachments]
        /\ \A x \in Atts : att'[x].chat = att[x].chat /\ att'[x].up = att[x].up
                             /\ (att'[x] = att[x] \/ att'[x].at = m)
    BY <1>4, <1>1 DEF Create, DeliveryTypeOK, Attachments
  <2>3. task[m] = NoTask
    BY <2>1 DEF DeliveryInv, TaskIsSound
  <2>4. DeliveryTypeOK'
    BY <1>4, <1>1, <2>1, <2>2, ServeFacts DEF Create, DeliveryTypeOK
  <2>5. DeliveryKept
    BY <2>1, <2>2 DEF DeliveryKept, Exists
  <2>6. \A x \in Msgs : TaskIsSound(x)' /\ WireIsSound(x)'
    BY <1>4, <2>1, <2>3, <2>5, TasksStand DEF Create
  <2>7. \A x \in Atts : LinkIsSound(x)'
    BY <1>4, <1>1, <2>1, <2>2, <2>3
       DEF Create, DeliveryInv, DeliveryTypeOK, Attachments, LinkIsSound, Belongs, Exists, NoTask
  <2>8. \A x \in Clerks : ClerkIsSound(x)'
    BY <1>4, <2>1, <2>3, <2>5, ClerksStand DEF Create
  <2>9. WireStaysInConversation' /\ NoticeFollowsRecall'
    BY <1>4, <2>1, <2>3, <2>5, WireStands, NoticesStand DEF Create
  <2>10. DeliverySteady'
    BY <2>6, <2>7, <2>8 DEF DeliverySteady
  <2>11. DeliveryPromises'
    BY <1>4, <2>1, <2>3, <2>9, RecallsStand DEF Create, DeliveryPromises
  <2>. QED
    BY <2>4, <2>10, <2>11, DeliveryConclusion, PTL
<1>5. ASSUME NEW m \in Msgs, NEW c \in Chats, CreateScheduled(m, c) PROVE DeliveryInv'
  <2>1. /\ row' \in [Msgs -> Rows \cup {NoRow}] /\ ~Exists(m) /\ row'[m] # NoRow
        /\ ~row'[m].recalled
        /\ \A x \in Msgs : x # m => row'[x] = row[x]
    <3>. DEFINE v == NewRow(c, "sent", "open")
    <3>1. v \in Rows /\ v.chat = c /\ v.status = "sent" /\ v.pmid = FALSE /\ v.recalled = FALSE
      BY NewRowFacts
    <3>2. v # NoRow
      BY <3>1, RowFacts
    <3>3. row' = [row EXCEPT ![m] = v] /\ ~Exists(m)
      BY <1>5, FreeFacts DEF CreateScheduled
    <3>. HIDE DEF v
    <3>. QED
      BY <1>1, <3>1, <3>2, <3>3 DEF DeliveryTypeOK
  <2>2. task[m] = NoTask
    BY <2>1 DEF DeliveryInv, TaskIsSound
  <2>3. DeliveryTypeOK'
    BY <1>5, <1>1, <2>1, ServeFacts DEF CreateScheduled, DeliveryTypeOK
  <2>4. DeliveryKept
    BY <1>5, <1>1, <2>1 DEF CreateScheduled, DeliveryKept, Exists
  <2>5. \A x \in Msgs : TaskIsSound(x)' /\ WireIsSound(x)'
    BY <1>5, <2>1, <2>2, <2>4, TasksStand DEF CreateScheduled
  <2>6. \A x \in Atts : LinkIsSound(x)'
    BY <1>5, <2>1, <2>2, <2>4, LinksStand DEF CreateScheduled
  <2>7. \A x \in Clerks : ClerkIsSound(x)'
    BY <1>5, <2>1, <2>2, <2>4, ClerksStand DEF CreateScheduled
  <2>8. WireStaysInConversation' /\ NoticeFollowsRecall'
    BY <1>5, <2>1, <2>2, <2>4, WireStands, NoticesStand DEF CreateScheduled
  <2>9. DeliverySteady'
    BY <2>5, <2>6, <2>7 DEF DeliverySteady
  <2>10. DeliveryPromises'
    BY <1>5, <2>1, <2>2, <2>8, RecallsStand DEF CreateScheduled, DeliveryPromises
  <2>. QED
    BY <2>3, <2>9, <2>10, DeliveryConclusion, PTL
<1>6. ASSUME NEW m \in Msgs, DeadlinePasses(m) PROVE DeliveryInv'
  <2>1. /\ row' \in [Msgs -> Rows \cup {NoRow}] /\ Exists(m)' /\ Exists(m)
        /\ row'[m].chat = row[m].chat /\ row'[m].recalled = row[m].recalled
        /\ row'[m].text = row[m].text
        /\ row'[m].pmid = row[m].pmid /\ row'[m].status = row[m].status
        /\ \A x \in Msgs : x # m => row'[x] = row[x]
    <3>. DEFINE v == [row[m] EXCEPT !.deadline = "passed"]
    <3>1. row[m] \in Rows /\ Exists(m)
      BY <1>6, <1>1 DEF DeadlinePasses, DeliveryTypeOK, Exists
    <3>2. v \in Rows /\ v.chat = row[m].chat /\ v.recalled = row[m].recalled
          /\ v.text = row[m].text
          /\ v.pmid = row[m].pmid /\ v.status = row[m].status
      BY <3>1 DEF Rows
    <3>3. row' = [row EXCEPT ![m] = v]
      BY <1>6 DEF DeadlinePasses
    <3>. HIDE DEF v
    <3>. QED
      BY <1>1, <3>1, <3>2, <3>3, RowFacts DEF DeliveryTypeOK, Exists
  <2>2. DeliveryTypeOK'
    BY <1>6, <1>1, <2>1, TRUE DEF DeadlinePasses, DeliveryTypeOK
  <2>3. DeliveryKept
    BY <1>6, <1>1, <2>1 DEF DeadlinePasses, DeliveryKept, Exists
  <2>4. \A x \in Msgs : TaskIsSound(x)' /\ WireIsSound(x)'
    BY <1>6, <2>1, <2>3, TasksStand DEF DeadlinePasses
  <2>5. \A x \in Atts : LinkIsSound(x)'
    BY <1>6, <2>1, <2>3, LinksStand DEF DeadlinePasses
  <2>6. \A x \in Clerks : ClerkIsSound(x)'
    BY <1>6, <2>1, <2>3, ClerksStand DEF DeadlinePasses
  <2>7. WireStaysInConversation' /\ NoticeFollowsRecall'
    BY <1>6, <2>1, <2>3, WireStands, NoticesStand DEF DeadlinePasses
  <2>8. DeliverySteady'
    BY <2>4, <2>5, <2>6 DEF DeliverySteady
  <2>9. DeliveryPromises'
    BY <1>6, <2>1, <2>7, RecallsStand DEF DeadlinePasses, DeliveryPromises
  <2>. QED
    BY <2>2, <2>8, <2>9, DeliveryConclusion, PTL
<1>7. ASSUME NEW m \in Msgs, Receipt(m) PROVE DeliveryInv'
  <2>1. /\ row' \in [Msgs -> Rows \cup {NoRow}] /\ Exists(m)' /\ Exists(m)
        /\ row'[m].chat = row[m].chat /\ row'[m].recalled = row[m].recalled
        /\ row'[m].text = row[m].text
        /\ \A x \in Msgs : x # m => row'[x] = row[x]
    <3>. DEFINE v == [row[m] EXCEPT !.status = "delivered"]
    <3>1. row[m] \in Rows /\ Exists(m)
      BY <1>7, <1>1 DEF Receipt, DeliveryTypeOK, Exists
    <3>2. v \in Rows /\ v.chat = row[m].chat /\ v.recalled = row[m].recalled
          /\ v.text = row[m].text
      BY <3>1 DEF Rows, Statuses
    <3>3. row' = [row EXCEPT ![m] = v]
      BY <1>7 DEF Receipt
    <3>. HIDE DEF v
    <3>. QED
      BY <1>1, <3>1, <3>2, <3>3, RowFacts DEF DeliveryTypeOK, Exists
  <2>2. task[m] = NoTask
    BY <1>7 DEF Receipt, DeliveryInv, TaskIsSound
  <2>3. DeliveryTypeOK'
    BY <1>7, <1>1, <2>1, TRUE DEF Receipt, DeliveryTypeOK
  <2>4. DeliveryKept
    BY <1>7, <1>1, <2>1 DEF Receipt, DeliveryKept, Exists
  <2>5. \A x \in Msgs : TaskIsSound(x)' /\ WireIsSound(x)'
    BY <1>7, <2>1, <2>2, <2>4, TasksStand DEF Receipt
  <2>6. \A x \in Atts : LinkIsSound(x)'
    BY <1>7, <2>1, <2>2, <2>4, LinksStand DEF Receipt
  <2>7. \A x \in Clerks : ClerkIsSound(x)'
    BY <1>7, <2>1, <2>2, <2>4, ClerksStand DEF Receipt
  <2>8. WireStaysInConversation' /\ NoticeFollowsRecall'
    BY <1>7, <2>1, <2>2, <2>4, WireStands, NoticesStand DEF Receipt
  <2>9. DeliverySteady'
    BY <2>5, <2>6, <2>7 DEF DeliverySteady
  <2>10. DeliveryPromises'
    BY <1>7, <2>1, <2>2, <2>8, RecallsStand DEF Receipt, DeliveryPromises
  <2>. QED
    BY <2>3, <2>9, <2>10, DeliveryConclusion, PTL
<1>8. ASSUME NEW r \in Clerks, NEW m \in Msgs, BeginEdit(r, m) PROVE DeliveryInv'
  <2>1. /\ clerk' \in [Clerks -> ClerkStates] /\ served' \in 0 .. MaxServed
        /\ \A q \in Clerks : q # r => clerk'[q] = clerk[q]
        /\ clerk'[r].pc = "edit" /\ clerk'[r].msg = m
    <3>1. PICK text \in {"edited", row[m].text} : Take(r, [pc |-> "edit", msg |-> m,
               text |-> text])
      BY <1>8 DEF BeginEdit
    <3>2. text \in {"original", "edited", "marker"}
      BY <1>8, <1>1, RowFacts DEF BeginEdit, DeliveryTypeOK, Exists
    <3>. DEFINE v == [pc |-> "edit", msg |-> m, text |-> text]
    <3>3. v \in ClerkStates /\ v.pc = "edit" /\ v.msg = m
      BY <3>2 DEF ClerkStates
    <3>4. clerk' = [clerk EXCEPT ![r] = v]
      BY <3>1 DEF Take
    <3>. HIDE DEF v
    <3>. QED
      BY <1>1, <3>1, <3>3, <3>4, ServeFacts DEF DeliveryTypeOK, Take
  <2>2. DeliveryTypeOK'
    BY <1>8, <1>1, <2>1, ServeFacts DEF BeginEdit, DeliveryTypeOK
  <2>3. DeliveryKept
    BY <1>8, <1>1, <2>1 DEF BeginEdit, DeliveryKept, Exists
  <2>4. \A x \in Msgs : TaskIsSound(x)' /\ WireIsSound(x)'
    BY <1>8, <2>1, <2>3, TasksStand DEF BeginEdit
  <2>5. \A x \in Atts : LinkIsSound(x)'
    BY <1>8, <2>1, <2>3, LinksStand DEF BeginEdit
  <2>6. \A x \in Clerks : ClerkIsSound(x)'
    BY <1>8, <1>1, <2>1, ClerkFacts
       DEF BeginEdit, DeliveryInv, DeliveryTypeOK, ClerkIsSound, Exists
  <2>7. WireStaysInConversation' /\ NoticeFollowsRecall'
    BY <1>8, <2>1, <2>3, WireStands, NoticesStand DEF BeginEdit
  <2>8. DeliverySteady'
    BY <2>4, <2>5, <2>6 DEF DeliverySteady
  <2>9. DeliveryPromises'
    BY <1>8, <2>1, <2>7, RecallsStand DEF BeginEdit, DeliveryPromises
  <2>. QED
    BY <2>2, <2>8, <2>9, DeliveryConclusion, PTL
<1>9. ASSUME NEW r \in Clerks, NEW m \in Msgs, BeginForward(r, m) PROVE DeliveryInv'
  <2>1. /\ clerk' \in [Clerks -> ClerkStates] /\ served' \in 0 .. MaxServed
        /\ \A q \in Clerks : q # r => clerk'[q] = clerk[q]
        /\ clerk'[r].pc = "forward" /\ clerk'[r].msg = m
    <3>. DEFINE v == [pc |-> "forward", msg |-> m, text |-> row[m].text]
    <3>1. row[m].text \in {"original", "edited", "marker"}
      BY <1>9, <1>1, RowFacts DEF BeginForward, DeliveryTypeOK, Exists
    <3>2. v \in ClerkStates /\ v.pc = "forward" /\ v.msg = m
      BY <3>1 DEF ClerkStates
    <3>3. clerk' = [clerk EXCEPT ![r] = v] /\ Serve
      BY <1>9 DEF BeginForward, Take
    <3>. HIDE DEF v
    <3>. QED
      BY <1>1, <3>2, <3>3, ServeFacts DEF DeliveryTypeOK
  <2>2. DeliveryTypeOK'
    BY <1>9, <1>1, <2>1, ServeFacts DEF BeginForward, DeliveryTypeOK
  <2>3. DeliveryKept
    BY <1>9, <1>1, <2>1 DEF BeginForward, DeliveryKept, Exists
  <2>4. \A x \in Msgs : TaskIsSound(x)' /\ WireIsSound(x)'
    BY <1>9, <2>1, <2>3, TasksStand DEF BeginForward
  <2>5. \A x \in Atts : LinkIsSound(x)'
    BY <1>9, <2>1, <2>3, LinksStand DEF BeginForward
  <2>6. \A x \in Clerks : ClerkIsSound(x)'
    BY <1>9, <1>1, <2>1, ClerkFacts
       DEF BeginForward, DeliveryInv, DeliveryTypeOK, ClerkIsSound, Exists
  <2>7. WireStaysInConversation' /\ NoticeFollowsRecall'
    BY <1>9, <2>1, <2>3, WireStands, NoticesStand DEF BeginForward
  <2>8. DeliverySteady'
    BY <2>4, <2>5, <2>6 DEF DeliverySteady
  <2>9. DeliveryPromises'
    BY <1>9, <2>1, <2>7, RecallsStand DEF BeginForward, DeliveryPromises
  <2>. QED
    BY <2>2, <2>8, <2>9, DeliveryConclusion, PTL
<1>10. ASSUME NEW r \in Clerks, NEW S \in SUBSET Msgs, NEW notify \in BOOLEAN,
              BeginRecall(r, S, notify)
       PROVE  DeliveryInv'
  <2>1. /\ clerk' \in [Clerks -> ClerkStates] /\ served' \in 0 .. MaxServed
        /\ \A q \in Clerks : q # r => clerk'[q] = clerk[q]
        /\ clerk'[r].pc = "recall" /\ clerk'[r].msgs = S /\ \A m \in S : Exists(m)
    <3>. DEFINE v == [pc |-> "recall", msgs |-> S, notify |-> notify,
                      pmid |-> notify /\ \A m \in S : row[m].pmid]
    <3>1. v \in ClerkStates /\ v.pc = "recall" /\ v.msgs = S
      BY DEF ClerkStates
    <3>2. clerk' = [clerk EXCEPT ![r] = v] /\ Serve /\ \A m \in S : Exists(m)
      BY <1>10 DEF BeginRecall, Take, Recallable
    <3>. HIDE DEF v
    <3>. QED
      BY <1>1, <3>1, <3>2, ServeFacts DEF DeliveryTypeOK
  <2>2. DeliveryTypeOK'
    BY <1>10, <1>1, <2>1, ServeFacts DEF BeginRecall, DeliveryTypeOK
  <2>3. DeliveryKept
    BY <1>10, <1>1, <2>1 DEF BeginRecall, DeliveryKept, Exists
  <2>4. \A x \in Msgs : TaskIsSound(x)' /\ WireIsSound(x)'
    BY <1>10, <2>1, <2>3, TasksStand DEF BeginRecall
  <2>5. \A x \in Atts : LinkIsSound(x)'
    BY <1>10, <2>1, <2>3, LinksStand DEF BeginRecall
  <2>6. \A x \in Clerks : ClerkIsSound(x)'
    BY <1>10, <1>1, <2>1, ClerkFacts
       DEF BeginRecall, DeliveryInv, DeliveryTypeOK, ClerkIsSound, Exists
  <2>7. WireStaysInConversation' /\ NoticeFollowsRecall'
    BY <1>10, <2>1, <2>3, WireStands, NoticesStand DEF BeginRecall
  <2>8. DeliverySteady'
    BY <2>4, <2>5, <2>6 DEF DeliverySteady
  <2>9. DeliveryPromises'
    BY <1>10, <2>1, <2>7, RecallsStand DEF BeginRecall, DeliveryPromises
  <2>. QED
    BY <2>2, <2>8, <2>9, DeliveryConclusion, PTL
<1>11. ASSUME NEW m \in Msgs, RefuseRecall(m) PROVE DeliveryInv'
  <2>1. recallLog' \cap (Msgs \X {"successful"}) = recallLog \cap (Msgs \X {"successful"})
    BY <1>11 DEF RefuseRecall
  <2>2. DeliveryTypeOK'
    BY <1>11, <1>1, <2>1, TRUE DEF RefuseRecall, DeliveryTypeOK
  <2>3. DeliveryKept
    BY <1>11, <1>1, <2>1 DEF RefuseRecall, DeliveryKept, Exists
  <2>4. \A x \in Msgs : TaskIsSound(x)' /\ WireIsSound(x)'
    BY <1>11, <2>1, <2>3, TasksStand DEF RefuseRecall
  <2>5. \A x \in Atts : LinkIsSound(x)'
    BY <1>11, <2>1, <2>3, LinksStand DEF RefuseRecall
  <2>6. \A x \in Clerks : ClerkIsSound(x)'
    BY <1>11, <2>1, <2>3, ClerksStand DEF RefuseRecall
  <2>7. WireStaysInConversation' /\ NoticeFollowsRecall'
    BY <1>11, <2>1, <2>3, WireStands, NoticesStand DEF RefuseRecall
  <2>8. DeliverySteady'
    BY <2>4, <2>5, <2>6 DEF DeliverySteady
  <2>9. DeliveryPromises'
    BY <1>11, <2>1, <2>7, RecallsStand DEF RefuseRecall, DeliveryPromises
  <2>. QED
    BY <2>2, <2>8, <2>9, DeliveryConclusion, PTL
<1>12. ASSUME NEW m \in Msgs, NEW c \in Chats, NEW text \in BOOLEAN, NEW asked \in SUBSET Atts,
              Send(m, c, text, asked)
       PROVE  DeliveryInv'
  <2>. DEFINE t == [pc |-> "select", asked |-> asked, text |-> text]
  <2>1. /\ row' \in [Msgs -> Rows \cup {NoRow}] /\ ~Exists(m) /\ row'[m] # NoRow
        /\ ~row'[m].recalled
        /\ row'[m].chat = c /\ row'[m].status = "pending" /\ ~row'[m].pmid
        /\ \A x \in Msgs : x # m => row'[x] = row[x]
    <3>. DEFINE v == NewRow(c, "pending", "none")
    <3>1. v \in Rows /\ v.chat = c /\ v.status = "pending" /\ v.pmid = FALSE /\ v.recalled = FALSE
      BY NewRowFacts, ZenonT(40)
    <3>2. v # NoRow
      BY <3>1, RowFacts
    <3>3. row' = [row EXCEPT ![m] = v] /\ ~Exists(m)
      BY <1>12, FreeFacts DEF Send
    <3>. HIDE DEF v
    <3>. QED
      BY <1>1, <3>1, <3>2, <3>3 DEF DeliveryTypeOK
  <2>2. /\ att' \in [Atts -> Attachments]
        /\ \A x \in Atts : /\ att'[x].chat = att[x].chat /\ att'[x].up = att[x].up
                             /\ \/ att'[x] = att[x]
                                \/ att'[x].at = m /\ att[x].up /\ att[x].chat = c
    BY <1>12, <1>1 DEF Send, LinkSent, DeliveryTypeOK, Attachments
  <2>3. /\ task' = [task EXCEPT ![m] = t] /\ t \in Tasks /\ t.pc = "select"
        /\ wire' = wire /\ clerk' = clerk /\ raced' = raced /\ notices' = notices
        /\ recallLog' = recallLog
    BY <1>12 DEF Send, Tasks
  <2>. HIDE DEF t
  <2>4. task' \in [Msgs -> Tasks] /\ task'[m] = t /\ \A x \in Msgs : x # m => task'[x] = task[x]
    BY <1>1, <2>3 DEF DeliveryTypeOK
  <2>5. DeliveryTypeOK'
    BY <1>12, <1>1, <2>1, <2>2, <2>4, ServeFacts DEF Send, DeliveryTypeOK
  <2>6. DeliveryKept
    BY <2>1, <2>2 DEF DeliveryKept, Exists
  <2>7. \A x \in Atts, y \in Msgs : Exists(y) /\ Belongs(x, y) => Belongs(x, y)'
    BY <2>6 DEF Belongs, DeliveryKept
  <2>8. ASSUME NEW x \in Msgs PROVE TaskIsSound(x)' /\ WireIsSound(x)'
    <3>1. TaskIsSound(x) /\ WireIsSound(x) /\ task[x] \in Tasks
      BY <1>1 DEF DeliveryInv, DeliveryTypeOK
    <3>2. WireIsSound(x)'
      BY <3>1, <2>6, <2>3 DEF WireIsSound, DeliveryKept
    <3>3. CASE x = m
      BY <3>1, <3>3, <2>1, <2>3, <2>4 DEF TaskIsSound, WireIsSound, Exists
    <3>4. CASE x # m
      <4>1. row'[x] = row[x] /\ task'[x] = task[x] /\ wire'[x] = wire[x]
        BY <3>4, <2>1, <2>3, <2>4
      <4>2. \A a \in Atts : Belongs(a, x) => Belongs(a, x)'
        BY <4>1, <2>2 DEF Belongs
      <4>. QED
        BY <3>1, <3>2, <4>1, <4>2 DEF TaskIsSound, Exists
    <3>. QED
      BY <3>2, <3>3, <3>4
  <2>9. ASSUME NEW x \in Atts PROVE LinkIsSound(x)'
    <3>1. LinkIsSound(x) /\ att[x].at \in Msgs \cup {0}
      BY <1>1 DEF DeliveryInv, DeliveryTypeOK, Attachments
    <3>2. CASE att'[x].at = m
      <4>1. att[x].at # m
        BY <3>1, <2>1, FreeFacts, DeliveryAssumption DEF LinkIsSound, Msgs
      <4>. QED
        BY <3>2, <4>1, <2>1, <2>2 DEF LinkIsSound, Belongs, Exists
    <3>3. CASE att'[x].at # m
      BY <3>1, <3>3, <2>1, <2>2, <2>4, <2>7 DEF LinkIsSound, Exists
    <3>. QED
      BY <3>2, <3>3
  <2>10. \A x \in Clerks : ClerkIsSound(x)'
    BY <2>1, <2>6, <2>3, ClerksStand DEF Exists
  <2>11. WireStaysInConversation' /\ NoticeFollowsRecall'
    BY <2>6, <2>3, WireStands, NoticesStand
  <2>12. DeliverySteady'
    BY <2>8, <2>9, <2>10 DEF DeliverySteady
  <2>13. DeliveryPromises'
    BY <2>1, <2>11, <2>3, RecallsStand DEF DeliveryPromises
  <2>. QED
    BY <2>5, <2>12, <2>13, DeliveryConclusion, PTL
<1>13. ASSUME NEW m \in Msgs, SelectItems(m) PROVE DeliveryInv'
  <2>. DEFINE mine == {a \in task[m].asked : att[a].at = m}
              all == (IF task[m].text THEN {TextItem} ELSE {}) \cup mine
  <2>1. PICK items \in [1 .. Cardinality(all) -> all] :
          /\ {items[i] : i \in DOMAIN items} = all
          /\ task' = [task EXCEPT ![m] = [pc |-> "send", items |-> items, all |-> all,
               ok |-> FALSE, bad |-> FALSE]]
    BY <1>13 DEF SelectItems
  <2>. DEFINE t == [pc |-> "send", items |-> items, all |-> all, ok |-> FALSE, bad |-> FALSE]
  <2>2. task[m] \in Tasks /\ task[m].pc = "select" /\ task[m].asked \in SUBSET Atts
    BY <1>13, <1>1, TaskFacts DEF SelectItems, DeliveryTypeOK
  <2>3. all \in SUBSET Items /\ IsFiniteSet(all)
    <3>1. IsFiniteSet(mine)
      BY <2>2, DeliveryAssumption, FS_Subset
    <3>2. IsFiniteSet(IF task[m].text THEN {TextItem} ELSE {})
      BY FS_Singleton, FS_EmptySet
    <3>3. IsFiniteSet(all)
      BY <3>1, <3>2, FS_Union
    <3>. QED
      BY <2>2, <3>3 DEF Items
  <2>4. t \in Tasks
    <3>1. Cardinality(all) \in Nat
      BY <2>3, FS_CardinalityType
    <3>. HIDE DEF all
    <3>2. items \in Seq(Items)
      BY <2>3, <3>1
    <3>. QED
      BY <2>3, <3>2 DEF Tasks
  <2>5. t.pc = "send" /\ t.items = items /\ t.all = all /\ t.ok = FALSE /\ t.bad = FALSE
    OBVIOUS
  <2>6. \A a \in all \cap Atts : a \in mine
    BY DeliveryAssumption
  <2>. HIDE DEF all, t
  <2>7. task' \in [Msgs -> Tasks] /\ task'[m] = t /\ \A x \in Msgs : x # m => task'[x] = task[x]
    BY <1>1, <2>1, <2>4 DEF DeliveryTypeOK, t
  <2>8. UNCHANGED <<row, att, wire, notices, clerk, recallLog, raced, served>>
    BY <1>13 DEF SelectItems
  <2>9. DeliveryTypeOK'
    BY <1>1, <2>7, <2>8 DEF DeliveryTypeOK
  <2>10. DeliveryKept
    BY <2>8 DEF DeliveryKept, Exists
  <2>11. ASSUME NEW x \in Msgs PROVE TaskIsSound(x)' /\ WireIsSound(x)'
    <3>1. TaskIsSound(x) /\ WireIsSound(x)
      BY <1>1 DEF DeliveryInv, DeliveryTypeOK
    <3>2. CASE x = m
      <4>1. \A a \in all \cap Atts : Belongs(a, m)
        BY <2>6, <2>2, <1>1, DeliveryAssumption DEF DeliveryInv, LinkIsSound, Msgs
      <4>2. task[m] # NoTask
        BY <2>2, TaskFacts
      <4>3. ~row[m].pmid /\ row[m].status \in {"pending", "recalled"} /\ Exists(m) /\ wire[m] = {}
        BY <3>1, <3>2, <2>2, <4>2 DEF TaskIsSound
      <4>. QED
        BY <3>1, <3>2, <4>1, <4>3, <2>1, <2>5, <2>7, <2>8
           DEF TaskIsSound, WireIsSound, Belongs, Exists
    <3>3. CASE x # m
      BY <3>1, <3>3, <2>7, <2>8 DEF TaskIsSound, WireIsSound, Belongs, Exists
    <3>. QED
      BY <3>2, <3>3
  <2>12. \A x \in Atts : LinkIsSound(x)'
    BY <2>10, <2>5, <2>7, <2>8, LinksStand
  <2>13. \A x \in Clerks : ClerkIsSound(x)'
    BY <2>10, <2>8, ClerksStand
  <2>14. WireStaysInConversation' /\ NoticeFollowsRecall'
    BY <2>10, <2>8, WireStands, NoticesStand
  <2>15. DeliverySteady'
    BY <2>11, <2>12, <2>13 DEF DeliverySteady
  <2>16. DeliveryPromises'
    BY <2>14, <2>8, RecallsStand DEF DeliveryPromises
  <2>. QED
    BY <2>9, <2>15, <2>16, DeliveryConclusion, PTL
<1>14. ASSUME NEW m \in Msgs, WriteOutcome(m) PROVE DeliveryInv'
  <2>1. task[m].pc = "send" /\ task[m] \in Tasks /\ task[m] # NoTask
    BY <1>14, <1>1, TaskFacts DEF WriteOutcome, DeliveryTypeOK
  <2>2. /\ row' \in [Msgs -> Rows \cup {NoRow}] /\ Exists(m)' /\ Exists(m)
        /\ row'[m].chat = row[m].chat /\ row'[m].recalled = row[m].recalled
        /\ row'[m].text = row[m].text
        /\ \A x \in Msgs : x # m => row'[x] = row[x]
    <3>. DEFINE v == Persist(row[m], task[m].ok, task[m].bad)
    <3>1. row[m] \in Rows /\ Exists(m)
      BY <2>1, <1>1 DEF DeliveryTypeOK, DeliveryInv, TaskIsSound, Exists
    <3>2. v \in Rows /\ v.chat = row[m].chat /\ v.recalled = row[m].recalled
          /\ v.text = row[m].text
      <4>1. Outcome(task[m].ok, task[m].bad) \in Statuses /\ task[m].ok \in BOOLEAN
        BY <2>1, TaskFacts DEF Outcome, Statuses
      <4>. QED
        BY <3>1, <4>1 DEF Rows, Persist
    <3>3. row' = [row EXCEPT ![m] = v] \/ row' = row
      BY <1>14 DEF WriteOutcome
    <3>. HIDE DEF v
    <3>. QED
      BY <1>1, <3>1, <3>2, <3>3, RowFacts DEF DeliveryTypeOK, Exists
  <2>3. task' \in [Msgs -> Tasks] /\ task'[m] = NoTask /\ \A x \in Msgs : x # m
             => task'[x] = task[x]
    BY <1>14, <1>1 DEF WriteOutcome, DeliveryTypeOK, Tasks
  <2>4. UNCHANGED <<att, wire, notices, clerk, recallLog, raced, served>>
    BY <1>14 DEF WriteOutcome
  <2>5. DeliveryTypeOK'
    BY <1>1, <2>2, <2>3, <2>4 DEF DeliveryTypeOK
  <2>6. DeliveryKept
    BY <2>2, <2>4 DEF DeliveryKept, Exists
  <2>7. ASSUME NEW x \in Msgs PROVE TaskIsSound(x)' /\ WireIsSound(x)'
    <3>1. TaskIsSound(x) /\ WireIsSound(x)
      BY <1>1 DEF DeliveryInv, DeliveryTypeOK
    <3>2. CASE x = m
      BY <3>1, <3>2, <2>2, <2>3, <2>4 DEF TaskIsSound, WireIsSound, NoTask
    <3>3. CASE x # m
      BY <3>1, <3>3, <2>2, <2>3, <2>4 DEF TaskIsSound, WireIsSound, Belongs, Exists
    <3>. QED
      BY <3>2, <3>3
  <2>8. \A x \in Atts : LinkIsSound(x)'
    BY <2>6, <2>3, <2>4, LinksStand DEF NoTask
  <2>9. \A x \in Clerks : ClerkIsSound(x)'
    BY <2>2, <2>6, <2>4, ClerksStand
  <2>10. WireStaysInConversation' /\ NoticeFollowsRecall'
    BY <2>6, <2>4, WireStands, NoticesStand
  <2>11. DeliverySteady'
    BY <2>7, <2>8, <2>9 DEF DeliverySteady
  <2>12. DeliveryPromises'
    BY <2>2, <2>10, <2>4, RecallsStand DEF DeliveryPromises
  <2>. QED
    BY <2>5, <2>11, <2>12, DeliveryConclusion, PTL
<1>15. ASSUME NEW r \in Clerks, FinishEdit(r) PROVE DeliveryInv'
  <2>. DEFINE m == clerk[r].msg
  <2>1. clerk[r].pc = "edit" /\ m \in Msgs /\ clerk[r].text \in {"original", "edited", "marker"}
        /\ Exists(m) /\ (row[m].recalled => m \in raced)
    BY <1>15, <1>1, ClerkFacts DEF FinishEdit, DeliveryTypeOK, DeliveryInv, ClerkIsSound
  <2>. HIDE DEF m
  <2>2. /\ row' \in [Msgs -> Rows \cup {NoRow}] /\ row'[m] # NoRow
        /\ row'[m].chat = row[m].chat /\ row'[m].recalled = row[m].recalled
        /\ row'[m].pmid = row[m].pmid /\ row'[m].status = row[m].status
        /\ \A x \in Msgs : x # m => row'[x] = row[x]
    <3>. DEFINE v == [row[m] EXCEPT !.text = clerk[r].text]
    <3>1. row[m] \in Rows
      BY <2>1, <1>1 DEF DeliveryTypeOK, Exists
    <3>2. v \in Rows /\ v.chat = row[m].chat /\ v.recalled = row[m].recalled
          /\ v.pmid = row[m].pmid /\ v.status = row[m].status
      BY <3>1, <2>1 DEF Rows
    <3>3. row' = [row EXCEPT ![m] = v]
      BY <1>15 DEF FinishEdit, m
    <3>4. v # NoRow
      BY <3>2, RowFacts
    <3>. HIDE DEF v
    <3>. QED
      BY <1>1, <2>1, <3>2, <3>3, <3>4 DEF DeliveryTypeOK, Exists
  <2>3. clerk' \in [Clerks -> ClerkStates] /\ clerk'[r] = IdleClerk
             /\ \A q \in Clerks : q # r => clerk'[q] = clerk[q]
    BY <1>15, <1>1 DEF FinishEdit, DeliveryTypeOK, ClerkStates
  <2>4. UNCHANGED <<att, task, wire, notices, recallLog, raced, served>>
    BY <1>15 DEF FinishEdit
  <2>5. DeliveryTypeOK'
    BY <1>1, <2>2, <2>3, <2>4 DEF DeliveryTypeOK
  <2>6. DeliveryKept
    BY <2>2, <2>1, <2>4 DEF DeliveryKept, Exists
  <2>7. \A x \in Msgs : TaskIsSound(x)' /\ WireIsSound(x)'
    BY <2>2, <2>6, <2>4, TasksStand
  <2>8. \A x \in Atts : LinkIsSound(x)'
    BY <2>6, <2>4, LinksStand
  <2>9. ASSUME NEW x \in Clerks PROVE ClerkIsSound(x)'
    <3>1. ClerkIsSound(x) /\ clerk[x] \in ClerkStates
      BY <1>1 DEF DeliveryInv, DeliveryTypeOK
    <3>. QED
      BY <3>1, <2>2, <2>1, <2>3, <2>4, ClerkFacts DEF ClerkIsSound, Exists, IdleClerk
  <2>10. WireStaysInConversation' /\ NoticeFollowsRecall'
    BY <2>6, <2>4, WireStands, NoticesStand
  <2>11. DeliverySteady'
    BY <2>7, <2>8, <2>9 DEF DeliverySteady
  <2>12. RecallSticks'
    BY <2>2, <2>1, <2>4 DEF DeliveryInv, RecallSticks, Exists
  <2>13. DeliveryPromises'
    BY <2>10, <2>12 DEF DeliveryPromises
  <2>. QED
    BY <2>5, <2>11, <2>13, DeliveryConclusion, PTL
<1>16. ASSUME NEW r \in Clerks, FinishRecall(r) PROVE DeliveryInv'
  <2>. DEFINE S == clerk[r].msgs
  <2>1. clerk[r].pc = "recall" /\ S \in SUBSET Msgs /\ clerk[r].notify \in BOOLEAN
        /\ clerk[r].pmid \in BOOLEAN
        /\ \A m \in S : Exists(m) /\ row[m] \in Rows
    BY <1>16, <1>1, ClerkFacts DEF FinishRecall, DeliveryTypeOK, DeliveryInv, ClerkIsSound, Exists
  <2>. HIDE DEF S
  <2>2. /\ row' \in [Msgs -> Rows \cup {NoRow}]
        /\ \A m \in S : row'[m] # NoRow /\ row'[m].chat = row[m].chat /\ row'[m].recalled
             /\ row'[m].text = "marker"
                         /\ row'[m].pmid = row[m].pmid /\ row'[m].status = "recalled"
        /\ \A x \in Msgs : x \notin S => row'[x] = row[x]
    <3>1. row' = [m \in Msgs |-> IF m \in S THEN Recalled(row[m]) ELSE row[m]]
      BY <1>16 DEF FinishRecall, S
    <3>2. ASSUME NEW m \in S
          PROVE  /\ Recalled(row[m]) \in Rows /\ Recalled(row[m]).chat = row[m].chat
                 /\ Recalled(row[m]).recalled /\ Recalled(row[m]).text = "marker"
                 /\ Recalled(row[m]).pmid = row[m].pmid /\ Recalled(row[m]).status = "recalled"
      BY <2>1 DEF Recalled, Rows, Statuses
    <3>. QED
      BY <1>1, <2>1, <3>1, <3>2, RowFacts DEF DeliveryTypeOK
  <2>3. /\ clerk' \in [Clerks -> ClerkStates]
        /\ \/ clerk'[r].pc = "notice" /\ clerk'[r].msgs = S
           \/ clerk'[r].pc = "idle"
        /\ \A q \in Clerks : q # r => clerk'[q] = clerk[q]
    <3>. DEFINE v == [pc |-> "notice", msgs |-> S, pmid |-> clerk[r].pmid]
    <3>1. v \in ClerkStates /\ v.pc = "notice" /\ v.msgs = S /\ IdleClerk \in ClerkStates
          /\ IdleClerk.pc = "idle"
      BY <2>1 DEF ClerkStates, IdleClerk
    <3>2. clerk' = [clerk EXCEPT ![r] = v] \/ clerk' = [clerk EXCEPT ![r] = IdleClerk]
      BY <1>16 DEF FinishRecall, S
    <3>. HIDE DEF v
    <3>. QED
      BY <1>1, <3>1, <3>2 DEF DeliveryTypeOK
  <2>4. /\ UNCHANGED <<att, task, wire, notices, served>>
        /\ raced' = raced \cup (S \cap EditedNow)
        /\ recallLog' \in SUBSET (recallLog \cup {<<m, "successful">> : m \in S})
    BY <1>16 DEF FinishRecall, S
  <2>5. DeliveryTypeOK'
    BY <1>1, <2>2, <2>1, <2>3, <2>4 DEF DeliveryTypeOK
  <2>6. DeliveryKept
    BY <2>2, <2>1, <2>4 DEF DeliveryKept, Exists
  <2>7. \A x \in Msgs : TaskIsSound(x)' /\ WireIsSound(x)'
    BY <2>2, <2>6, <2>4, TasksStand
  <2>8. \A x \in Atts : LinkIsSound(x)'
    BY <2>6, <2>4, LinksStand
  <2>9. ASSUME NEW x \in Clerks PROVE ClerkIsSound(x)'
    <3>1. ClerkIsSound(x) /\ clerk[x] \in ClerkStates
      BY <1>1 DEF DeliveryInv, DeliveryTypeOK
    <3>2. CASE x = r
      BY <3>2, <2>2, <2>1, <2>3 DEF ClerkIsSound, Exists
    <3>3. CASE x # r
      <4>1. clerk'[x] = clerk[x]
        BY <3>3, <2>3
      <4>2. clerk[x].pc = "edit" => clerk[x].msg \in EditedNow /\ clerk[x].msg \in Msgs
        BY <3>1, ClerkFacts DEF EditedNow
      <4>3. clerk[x].pc \in {"recall", "notice"} => clerk[x].msgs \in SUBSET Msgs
        BY <3>1, ClerkFacts
      <4>. QED
        BY <3>1, <4>1, <4>2, <4>3, <2>2, <2>6, <2>4 DEF ClerkIsSound, Exists, DeliveryKept
    <3>. QED
      BY <3>2, <3>3
  <2>10. WireStaysInConversation'
    BY <2>6, <2>4, WireStands
  <2>11. NoticeFollowsRecall'
    BY <2>2, <2>6, <2>4 DEF DeliveryInv, NoticeFollowsRecall, DeliveryKept, Exists
  <2>12. DeliverySteady'
    BY <2>7, <2>8, <2>9 DEF DeliverySteady
  <2>13. RecallSticks'
    BY <2>2, <2>1, <2>4 DEF DeliveryInv, RecallSticks, Exists
  <2>14. DeliveryPromises'
    BY <2>10, <2>11, <2>13 DEF DeliveryPromises
  <2>. QED
    BY <2>5, <2>12, <2>14, DeliveryConclusion, PTL
<1>17. ASSUME NEW r \in Clerks, Notice(r) PROVE DeliveryInv'
  <2>1. clerk[r].msgs \in SUBSET Msgs /\ \A m \in clerk[r].msgs : Exists(m) /\ row[m].recalled
    BY <1>17, <1>1, ClerkFacts DEF Notice, DeliveryTypeOK, DeliveryInv, ClerkIsSound
  <2>2. clerk' \in [Clerks -> ClerkStates] /\ clerk'[r] = IdleClerk
             /\ \A q \in Clerks : q # r => clerk'[q] = clerk[q]
    BY <1>17, <1>1 DEF Notice, DeliveryTypeOK, ClerkStates
  <2>3. UNCHANGED <<row, att, task, wire, recallLog, raced, served>>
        /\ notices' \subseteq notices \cup clerk[r].msgs
    BY <1>17 DEF Notice
  <2>4. DeliveryTypeOK'
    BY <1>1, <2>1, <2>2, <2>3 DEF DeliveryTypeOK
  <2>5. DeliveryKept
    BY <2>3 DEF DeliveryKept, Exists
  <2>6. \A x \in Msgs : TaskIsSound(x)' /\ WireIsSound(x)'
    BY <2>5, <2>3, TasksStand
  <2>7. \A x \in Atts : LinkIsSound(x)'
    BY <2>5, <2>3, LinksStand
  <2>8. \A x \in Clerks : ClerkIsSound(x)'
    BY <2>2, <2>3 DEF DeliveryInv, ClerkIsSound, Exists, IdleClerk
  <2>9. WireStaysInConversation'
    BY <2>5, <2>3, WireStands
  <2>10. NoticeFollowsRecall'
    BY <2>1, <2>3 DEF DeliveryInv, NoticeFollowsRecall, Exists
  <2>11. DeliverySteady'
    BY <2>6, <2>7, <2>8 DEF DeliverySteady
  <2>12. DeliveryPromises'
    BY <2>9, <2>3, <2>10, RecallsStand DEF DeliveryPromises
  <2>. QED
    BY <2>4, <2>11, <2>12, DeliveryConclusion, PTL
<1>18. ASSUME NEW r \in Clerks, NEW m \in Msgs, NEW c \in Chats, FinishForward(r, m, c)
       PROVE  DeliveryInv'
  <2>1. /\ row' \in [Msgs -> Rows \cup {NoRow}] /\ ~Exists(m) /\ row'[m] # NoRow
        /\ ~row'[m].recalled
        /\ \A x \in Msgs : x # m => row'[x] = row[x]
    <3>. DEFINE v == [NewRow(c, "sent", "none") EXCEPT !.text = clerk[r].text]
    <3>1. clerk[r].text \in {"original", "edited", "marker"}
      BY <1>18, <1>1, ClerkFacts DEF FinishForward, DeliveryTypeOK
    <3>2. v \in Rows /\ ~v.recalled
      <4>1. NewRow(c, "sent", "none") \in Rows /\ NewRow(c, "sent", "none").recalled = FALSE
        BY NewRowFacts
      <4>. QED
        BY <3>1, <4>1 DEF Rows
    <3>3. row' = [row EXCEPT ![m] = v] /\ ~Exists(m)
      BY <1>18, FreeFacts DEF FinishForward
    <3>. HIDE DEF v
    <3>. QED
      BY <1>1, <3>2, <3>3, RowFacts DEF DeliveryTypeOK
  <2>2. task[m] = NoTask
    BY <2>1 DEF DeliveryInv, TaskIsSound
  <2>3. clerk' \in [Clerks -> ClerkStates] /\ clerk'[r] = IdleClerk
             /\ \A q \in Clerks : q # r => clerk'[q] = clerk[q]
    BY <1>18, <1>1 DEF FinishForward, DeliveryTypeOK, ClerkStates
  <2>4. UNCHANGED <<att, task, wire, notices, recallLog, raced, served>>
    BY <1>18 DEF FinishForward
  <2>5. DeliveryTypeOK'
    BY <1>1, <2>1, <2>3, <2>4 DEF DeliveryTypeOK
  <2>6. DeliveryKept
    BY <2>1, <2>4 DEF DeliveryKept, Exists
  <2>7. \A x \in Msgs : TaskIsSound(x)' /\ WireIsSound(x)'
    BY <2>1, <2>6, <2>2, <2>4, TasksStand
  <2>8. \A x \in Atts : LinkIsSound(x)'
    BY <2>6, <2>4, LinksStand
  <2>9. ASSUME NEW x \in Clerks PROVE ClerkIsSound(x)'
    <3>1. ClerkIsSound(x) /\ clerk[x] \in ClerkStates
      BY <1>1 DEF DeliveryInv, DeliveryTypeOK
    <3>. QED
      BY <3>1, <2>1, <2>3, <2>4, ClerkFacts DEF ClerkIsSound, Exists, IdleClerk
  <2>10. WireStaysInConversation' /\ NoticeFollowsRecall'
    BY <2>6, <2>4, WireStands, NoticesStand
  <2>11. DeliverySteady'
    BY <2>7, <2>8, <2>9 DEF DeliverySteady
  <2>12. DeliveryPromises'
    BY <2>1, <2>10, <2>4, RecallsStand DEF DeliveryPromises
  <2>. QED
    BY <2>5, <2>11, <2>12, DeliveryConclusion, PTL
<1>19. CASE Restart
  <2>1. /\ task' \in [Msgs -> Tasks] /\ clerk' \in [Clerks -> ClerkStates]
        /\ \A m \in Msgs : task'[m] = NoTask
        /\ \A r \in Clerks : clerk'[r] = IdleClerk
    BY <1>19 DEF Restart, Tasks, ClerkStates
  <2>2. UNCHANGED <<row, att, wire, notices, recallLog, raced, served>>
    BY <1>19 DEF Restart
  <2>3. DeliveryTypeOK'
    BY <1>1, <2>1, <2>2 DEF DeliveryTypeOK
  <2>4. DeliveryKept
    BY <2>2 DEF DeliveryKept, Exists
  <2>5. DeliverySteady'
    <3>1. \A m \in Msgs : TaskIsSound(m)'
      BY <2>1 DEF TaskIsSound, NoTask
    <3>2. \A m \in Msgs : WireIsSound(m)'
      BY <2>2 DEF DeliveryInv, WireIsSound, Exists
    <3>3. \A a \in Atts : LinkIsSound(a)'
      BY <2>1, <2>4, <2>2, LinksStand DEF NoTask
    <3>4. \A r \in Clerks : ClerkIsSound(r)'
      BY <2>1 DEF ClerkIsSound, IdleClerk
    <3>. QED
      BY <3>1, <3>2, <3>3, <3>4 DEF DeliverySteady
  <2>6. DeliveryPromises'
    BY <2>4, <2>2, WireStands, NoticesStand, RecallsStand DEF DeliveryPromises
  <2>. QED
    BY <2>3, <2>5, <2>6, DeliveryConclusion, PTL
<1>20. ASSUME NEW m \in Msgs, SendBatch(m) PROVE DeliveryInv'
  <2>. DEFINE n == BatchSize(m)
              items == task[m].items
              ahead == {items[i] : i \in DOMAIN items}
  <2>1. /\ task[m] \in Tasks /\ task[m].pc = "send" /\ task[m] # NoTask
        /\ items \in Seq(Items) /\ items # <<>> /\ task[m].all \in SUBSET Items
        /\ task[m].ok \in BOOLEAN /\ task[m].bad \in BOOLEAN
    BY <1>20, <1>1, TaskFacts DEF SendBatch, DeliveryTypeOK
  <2>2. n \in 1 .. Len(items)
    BY <2>1, DeliveryAssumption DEF BatchSize
  <2>3. PICK k \in 0 .. n, ok \in BOOLEAN :
          /\ ok => k = n
          /\ wire' = [wire EXCEPT ![m] = @ \cup {items[i] : i \in 1 .. k}]
          /\ task' = [task EXCEPT ![m].items = SubSeq(@, n + 1, Len(@)),
                                  ![m].ok = @ \/ ok, ![m].bad = @ \/ ~ok]
    BY <1>20 DEF SendBatch
  <2>4. UNCHANGED <<row, att, notices, clerk, recallLog, raced, served>>
    BY <1>20 DEF SendBatch
  <2>. DEFINE rest0 == Left(items, n)
  <2>5. /\ rest0 \in Seq(Items)
        /\ {rest0[i] : i \in DOMAIN rest0} \subseteq ahead
        /\ ahead \subseteq {items[i] : i \in 1 .. n} \cup {rest0[i] : i \in DOMAIN rest0}
    <3>1. n \in 0 .. Len(items)
      BY <2>2
    <3>2. items \in Seq(Items)
      BY <2>1
    <3>. HIDE DEF n, items
    <3>. QED
      BY <3>1, <3>2, RestOfSequence
  <2>6. /\ task'[m].pc = "send" /\ task'[m].items = rest0 /\ task'[m].all = task[m].all
        /\ task'[m].ok = (task[m].ok \/ ok) /\ task'[m].bad = (task[m].bad \/ ~ok)
        /\ task' \in [Msgs -> Tasks] /\ \A x \in Msgs : x # m => task'[x] = task[x]
    <3>1. task[m] \in [pc : {"send"}, items : Seq(Items), all : SUBSET Items, ok : BOOLEAN,
               bad : BOOLEAN]
      BY <2>1 DEF Tasks, NoTask
    <3>. DEFINE v == [task[m] EXCEPT !.items = rest0, !.ok = task[m].ok \/ ok,
                !.bad = task[m].bad \/ ~ok]
    <3>2. v \in [pc : {"send"}, items : Seq(Items), all : SUBSET Items, ok : BOOLEAN,
               bad : BOOLEAN]
      BY <2>5, <3>1
    <3>3. v.pc = "send" /\ v.items = rest0 /\ v.all = task[m].all /\ v.ok = (task[m].ok
               \/ ok) /\ v.bad = (task[m].bad \/ ~ok)
      BY <3>1
    <3>4. task \in [Msgs -> Tasks]
      BY <1>1 DEF DeliveryTypeOK
    <3>5. task' = [task EXCEPT ![m] = v]
      BY <2>3, <3>4 DEF Left
    <3>6. v \in Tasks
      BY <3>2 DEF Tasks
    <3>. HIDE DEF v, rest0
    <3>. QED
      BY <3>3, <3>4, <3>5, <3>6
  <2>7. TaskIsSound(m) /\ WireIsSound(m)
    BY DEF DeliveryInv
  <2>8. /\ wire' \in [Msgs -> SUBSET Items]
        /\ wire'[m] = wire[m] \cup {items[i] : i \in 1 .. k}
        /\ wire'[m] \subseteq task[m].all
        /\ \A x \in Msgs : x # m => wire'[x] = wire[x]
    <3>1. {items[i] : i \in 1 .. k} \subseteq ahead
      BY <2>1, <2>2, <2>3
    <3>2. ahead \subseteq task[m].all /\ wire[m] \subseteq task[m].all
      BY <2>1, <2>7 DEF TaskIsSound
    <3>. QED
      BY <1>1, <2>1, <2>3, <3>1, <3>2 DEF DeliveryTypeOK
  <2>9. DeliveryTypeOK'
    BY <1>1, <2>4, <2>6, <2>8 DEF DeliveryTypeOK
  <2>10. DeliveryKept
    BY <2>4 DEF DeliveryKept, Exists
  <2>11. /\ Exists(m) /\ ~row[m].pmid /\ row[m].status \in {"pending", "recalled"}
         /\ ahead \subseteq task[m].all
         /\ ~task[m].bad => task[m].all \subseteq wire[m] \cup ahead
         /\ task[m].ok => wire[m] # {}
         /\ \A a \in task[m].all \cap Atts : Belongs(a, m)
    BY <2>1, <2>7 DEF TaskIsSound
  <2>12. ok => {items[i] : i \in 1 .. n} \subseteq wire'[m] /\ wire'[m] # {}
    <3>1. ok => k = n
      BY <2>3
    <3>2. 1 \in 1 .. n /\ wire'[m] = wire[m] \cup {items[i] : i \in 1 .. k}
      BY <2>2, <2>8
    <3>. HIDE DEF items, n
    <3>. QED
      BY <3>1, <3>2
  <2>. HIDE DEF rest0, items, n, ahead
  <2>13. TaskIsSound(m)'
    <3>1. Exists(m)' /\ ~row'[m].pmid /\ row'[m].status \in {"pending", "recalled"}
      BY <2>4, <2>11 DEF Exists
    <3>2. {rest0[i] : i \in DOMAIN rest0} \subseteq task[m].all
      BY <2>5, <2>11
    <3>3. ~task'[m].bad => task[m].all \subseteq wire'[m] \cup {rest0[i] : i \in DOMAIN rest0}
      BY <2>5, <2>6, <2>8, <2>11, <2>12
    <3>4. task'[m].ok => wire'[m] # {}
      BY <2>6, <2>8, <2>11, <2>12
    <3>5. \A a \in task[m].all \cap Atts : Belongs(a, m)'
      BY <2>4, <2>11 DEF Belongs
    <3>. QED
      BY <3>1, <3>2, <3>3, <3>4, <3>5, <2>6, <2>8 DEF TaskIsSound
  <2>14. WireIsSound(m)'
    BY <2>4, <2>8, <2>11 DEF WireIsSound, Belongs, Exists
  <2>15. ASSUME NEW x \in Msgs PROVE TaskIsSound(x)' /\ WireIsSound(x)'
    <3>1. TaskIsSound(x) /\ WireIsSound(x)
      BY DEF DeliveryInv
    <3>2. CASE x # m
      BY <3>1, <3>2, <2>4, <2>6, <2>8 DEF TaskIsSound, WireIsSound, Belongs, Exists
    <3>. QED
      BY <3>2, <2>13, <2>14
  <2>16. \A x \in Atts : LinkIsSound(x)'
    BY <2>10, <2>1, <2>4, <2>6, LinksStand
  <2>17. \A x \in Clerks : ClerkIsSound(x)'
    BY <2>10, <2>4, ClerksStand
  <2>18. WireStaysInConversation'
    <3>1. \A a \in wire'[m] \cap Atts : att'[a].chat = row'[m].chat
      BY <2>4, <2>8, <2>11 DEF Belongs
    <3>. QED
      BY <3>1, <2>4, <2>8 DEF DeliveryInv, WireStaysInConversation
  <2>19. NoticeFollowsRecall'
    BY <2>10, <2>4, NoticesStand
  <2>20. DeliverySteady'
    BY <2>15, <2>16, <2>17 DEF DeliverySteady
  <2>21. DeliveryPromises'
    BY <2>18, <2>4, <2>19, RecallsStand DEF DeliveryPromises
  <2>. QED
    BY <2>9, <2>20, <2>21, DeliveryConclusion, PTL
<1>21. CASE UNCHANGED deliveryVars
  <2>1. UNCHANGED <<row, att, task, wire, notices, clerk, recallLog, raced, served>>
    BY <1>21 DEF deliveryVars
  <2>2. DeliveryTypeOK'
    BY <1>1, <2>1 DEF DeliveryTypeOK
  <2>3. DeliveryKept
    BY <2>1 DEF DeliveryKept, Exists
  <2>4. DeliverySteady'
    BY <2>1, <2>3, TasksStand, LinksStand, ClerksStand DEF DeliverySteady
  <2>5. DeliveryPromises'
    BY <2>1, <2>3, WireStands, NoticesStand, RecallsStand DEF DeliveryPromises
  <2>. QED
    BY <2>2, <2>4, <2>5, DeliveryConclusion, PTL
<1>. QED
  BY <1>2, <1>3, <1>4, <1>5, <1>6, <1>7, <1>8, <1>9, <1>10, <1>11, <1>12, <1>13, <1>14, <1>15,
     <1>16, <1>17, <1>18, <1>19, <1>20, <1>21 DEF DeliveryNext, DeliveryTask

\* No file goes to another conversation than its own, a recalled message keeps the marker
\* unless an edit was under way, and a notice follows only a recall that succeeded, however
\* deliveries, edits, recalls, receipts and restarts interleave (DeliveryInv).
THEOREM DeliveriesAreSound == DeliverySpec => []DeliveryInv
BY DeliveryInitially, DeliveryStep, PTL DEF DeliverySpec

-----------------------------------------------------------------------------
(* What a step may never do. *)

\* The five things that can happen to a row that exists.
RowStands(m) == row'[m] = row[m]
RowTouched(m) == row'[m].status = row[m].status /\ row'[m].recalled = row[m].recalled
RowRecalled(m) == row'[m].status = "recalled" /\ RecallUnderWay(m)
RowReceipted(m) ==
    /\ row'[m].status = "delivered" /\ row'[m].recalled = row[m].recalled
    /\ task[m] = NoTask
RowConcluded(m) ==
    /\ task[m].pc = "send" /\ task[m].items = <<>>
    /\ row'[m].status = Outcome(task[m].ok, task[m].bad) /\ row'[m].sent = task[m].ok
    /\ row'[m].recalled = row[m].recalled

\* What the end of a delivery task writes to a row.
LEMMA OutcomesConclude ==
  ASSUME DeliveryInv, NEW m \in Msgs, Exists(m), NEW n \in Msgs, WriteOutcome(n)
  PROVE  RowStands(m) \/ RowConcluded(m)
<1>. DEFINE v == Persist(row[n], task[n].ok, task[n].bad)
<1>1. row \in [Msgs -> Rows \cup {NoRow}] /\ row[m] \in Rows
  BY DEF DeliveryInv, DeliveryTypeOK, Exists
<1>2. (row' = [row EXCEPT ![n] = v] \/ row' = row) /\ task[n].pc = "send" /\ task[n].items = <<>>
  BY DEF WriteOutcome
<1>3. ASSUME n = m
      PROVE  /\ v.status = Outcome(task[m].ok, task[m].bad) /\ v.sent = task[m].ok
             /\ v.recalled = row[m].recalled
  BY <1>1, <1>3 DEF Persist, Rows
<1>. HIDE DEF v
<1>. QED
  BY <1>1, <1>2, <1>3 DEF RowStands, RowConcluded

\* Nothing else happens to a row.
LEMMA WhatHappensToARow ==
  ASSUME DeliveryInv, DeliveryNext, NEW m \in Msgs, Exists(m)
  PROVE  RowStands(m) \/ RowTouched(m) \/ RowRecalled(m) \/ RowReceipted(m) \/ RowConcluded(m)
<1>1. /\ row \in [Msgs -> Rows \cup {NoRow}] /\ row[m] \in Rows
      /\ clerk \in [Clerks -> ClerkStates] /\ task \in [Msgs -> Tasks]
  BY DEF DeliveryInv, DeliveryTypeOK, Exists
<1>2. ASSUME NEW n \in Msgs, NEW v, Free(n), row' = [row EXCEPT ![n] = v] PROVE RowStands(m)
  BY <1>1, <1>2, FreeFacts DEF RowStands
<1>3. ASSUME NEW n \in Msgs, DeadlinePasses(n) PROVE RowStands(m) \/ RowTouched(m)
  BY <1>1, <1>3 DEF DeadlinePasses, RowStands, RowTouched, Rows
<1>4. ASSUME NEW n \in Msgs, WriteOutcome(n) PROVE RowStands(m) \/ RowConcluded(m)
  BY <1>4, OutcomesConclude
<1>5. ASSUME NEW n \in Msgs, Receipt(n) PROVE RowStands(m) \/ RowReceipted(m)
  <2>1. row[n].pmid => task[n] = NoTask
    BY DEF DeliveryInv, TaskIsSound
  <2>. QED
    BY <1>1, <1>5, <2>1 DEF Receipt, RowStands, RowReceipted, Rows
<1>6. ASSUME NEW r \in Clerks, FinishEdit(r) PROVE RowStands(m) \/ RowTouched(m)
  BY <1>1, <1>6 DEF FinishEdit, RowStands, RowTouched, Rows
<1>7. ASSUME NEW r \in Clerks, FinishRecall(r) PROVE RowStands(m) \/ RowRecalled(m)
  <2>1. row' = [x \in Msgs |-> IF x \in clerk[r].msgs THEN Recalled(row[x]) ELSE row[x]]
        /\ clerk[r].pc = "recall"
    BY <1>7 DEF FinishRecall
  <2>2. Recalled(row[m]).status = "recalled"
    BY <1>1 DEF Recalled, Rows
  <2>. QED
    BY <2>1, <2>2 DEF RowStands, RowRecalled, RecallUnderWay
<1>. QED
  BY <1>2, <1>3, <1>4, <1>5, <1>6, <1>7
     DEF DeliveryNext, DeliveryTask, Upload, UploadOn, Send, Create, CreateScheduled,
          FinishForward,
         RefuseRecall, SelectItems, SendBatch, BeginEdit, BeginForward, BeginRecall, Notice,
              Restart, RowStands

\* A delivery that ends says of its message what the platform accepted.
LEMMA OutcomesAreTruthful ==
  ASSUME DeliveryInv, DeliveryNext, NEW m \in Msgs
  PROVE  TruthfulStep(m)
<1>. SUFFICES ASSUME task[m].pc = "send", task'[m] = NoTask, row'[m] # row[m]
              PROVE  /\ row'[m].status = "sent" => wire[m] = task[m].all
                     /\ row'[m].sent /\ task[m].all # {} => wire[m] # {}
  BY DEF TruthfulStep
<1>1. task[m] \in Tasks /\ task[m] # NoTask
  BY DEF DeliveryInv, DeliveryTypeOK, NoTask
<1>2. TaskIsSound(m) /\ Exists(m)
  BY <1>1 DEF DeliveryInv, TaskIsSound
<1>3. RowConcluded(m)
  <2>1. ASSUME NEW n \in Msgs, WriteOutcome(n) PROVE RowConcluded(m)
    BY <1>2, <2>1, OutcomesConclude DEF RowStands
  <2>2. ASSUME NEW n \in Msgs, NEW c \in Chats, NEW text \in BOOLEAN, NEW asked \in SUBSET Atts,
               Send(n, c, text, asked)
        PROVE  FALSE
    BY <1>2, <2>2, FreeFacts DEF Send, DeliveryInv, DeliveryTypeOK
  <2>3. UNCHANGED task \/ UNCHANGED row \/ RowConcluded(m)
    BY <2>1, <2>2
       DEF DeliveryNext, DeliveryTask, Upload, UploadOn, Create, CreateScheduled, FinishForward,
           DeadlinePasses, Receipt, RefuseRecall, SelectItems, SendBatch, BeginEdit, BeginForward,
           BeginRecall, FinishEdit, FinishRecall, Notice, Restart
  <2>. QED
    BY <1>1, <2>3
<1>4. {task[m].items[i] : i \in DOMAIN task[m].items} = {}
  BY <1>3 DEF RowConcluded
<1>. QED
  BY <1>2, <1>3, <1>4 DEF TaskIsSound, RowConcluded, Outcome

\* An outcome is not taken back.
LEMMA ConfirmationsStand ==
  ASSUME DeliveryInv, DeliveryNext, NEW m \in Msgs
  PROVE  ConfirmedStep(m)
<1>. SUFFICES ASSUME Exists(m)
              PROVE  /\ row[m].status = "delivered"
                          => row'[m].status \in {"delivered", "recalled"}
                     /\ row[m].status \in {"sent", "partial", "failed"} =>
                            row'[m].status \in {row[m].status, "delivered", "recalled"}
                     /\ row'[m].status = "pending" => row[m].status = "pending"
  BY DEF ConfirmedStep
<1>1. RowConcluded(m) => /\ row[m].status \in {"pending", "recalled"}
                         /\ row'[m].status \in {"sent", "partial", "failed"}
  <2>1. task[m].pc = "send" => task[m] # NoTask
    BY DEF NoTask
  <2>. QED
    BY <2>1 DEF DeliveryInv, TaskIsSound, RowConcluded, Outcome
<1>. QED
  BY <1>1, WhatHappensToARow DEF RowStands, RowTouched, RowRecalled, RowReceipted

\* Past its window a message is not recalled, and no recall of it begins.
LEMMA WindowsClose ==
  ASSUME DeliveryInv, DeliveryNext, NEW m \in Msgs
  PROVE  WindowStep(m)
<1>. SUFFICES ASSUME Exists(m), row[m].deadline = "passed", ~row[m].recalled, ~RecallUnderWay(m)
              PROVE  ~row'[m].recalled /\ ~RecallUnderWay(m)'
  BY DEF WindowStep
<1>1. ~row'[m].recalled
  BY WhatHappensToARow DEF RowStands, RowTouched, RowRecalled, RowReceipted, RowConcluded
<1>2. \A r \in Clerks : clerk[r] \in ClerkStates /\ ~(clerk[r].pc = "recall"
           /\ m \in clerk[r].msgs)
  BY DEF RecallUnderWay, DeliveryInv, DeliveryTypeOK
<1>3. ASSUME NEW q \in Clerks PROVE ~(clerk'[q].pc = "recall" /\ m \in clerk'[q].msgs)
  <2>1. clerk \in [Clerks -> ClerkStates]
    BY DEF DeliveryInv, DeliveryTypeOK
  <2>2. ASSUME NEW r \in Clerks, NEW n \in Msgs, BeginEdit(r, n) \/ BeginForward(r, n)
        PROVE  clerk'[q] = clerk[q] \/ clerk'[q].pc \in {"edit", "forward"}
    BY <2>1, <2>2 DEF BeginEdit, BeginForward, Take
  <2>3. ASSUME NEW r \in Clerks, NEW S \in SUBSET Msgs, NEW notify \in BOOLEAN,
               BeginRecall(r, S, notify)
        PROVE  clerk'[q] = clerk[q] \/ m \notin clerk'[q].msgs
    BY <2>1, <2>3 DEF BeginRecall, Take, Recallable
  <2>4. ASSUME NEW r \in Clerks,
               \/ FinishEdit(r) \/ FinishRecall(r) \/ Notice(r)
               \/ \E n \in Msgs, c \in Chats : FinishForward(r, n, c)
        PROVE  clerk'[q] = clerk[q] \/ clerk'[q].pc \in {"idle", "notice"}
    BY <2>1, <2>4 DEF FinishEdit, FinishRecall, Notice, FinishForward, IdleClerk
  <2>5. Restart => clerk'[q].pc = "idle"
    BY DEF Restart, IdleClerk
  <2>6. \/ clerk'[q] = clerk[q] \/ clerk'[q].pc \in {"edit", "forward", "idle", "notice"}
        \/ m \notin clerk'[q].msgs
    BY <2>2, <2>3, <2>4, <2>5
       DEF DeliveryNext, DeliveryTask, Upload, UploadOn, Send, Create, CreateScheduled,
            DeadlinePasses,
           Receipt, RefuseRecall, SelectItems, SendBatch, WriteOutcome
  <2>. QED
    BY <1>2, <2>6
<1>. QED
  BY <1>1, <1>3 DEF RecallUnderWay

\* What no step of a delivery does: tell an untruth about what was sent, take back an outcome,
\* or recall past the window (DeliverySteps).
THEOREM DeliveriesStepSoundly == DeliverySpec => DeliverySteps
<1>1. DeliveryInv /\ [DeliveryNext]_deliveryVars => [\A m \in Msgs : TruthfulStep(m)]_deliveryVars
  BY OutcomesAreTruthful
<1>2. DeliveryInv /\ [DeliveryNext]_deliveryVars
           => [\A m \in Msgs : ConfirmedStep(m)]_deliveryVars
  BY ConfirmationsStand
<1>3. DeliveryInv /\ [DeliveryNext]_deliveryVars => [\A m \in Msgs : WindowStep(m)]_deliveryVars
  BY WindowsClose
<1>. QED
  BY <1>1, <1>2, <1>3, DeliveriesAreSound, PTL
     DEF DeliverySpec, DeliverySteps, OutcomeIsTruthful, ConfirmedIsNotTakenBack,
          RecallWindowCloses

-----------------------------------------------------------------------------
(* The job queue.                                                           *)

\* The bounds are numbers.
LEMMA QueueNumbers == MaxRetries \in Nat /\ MaxRetries > 0 /\ MaxChunks \in Nat
     /\ MaxBatchSize \in Nat /\ MaxBatchSize > 0
BY QueueAssumption

\* A try of a job has an attempt below the ceiling.
LEMMA TryFacts ==
  ASSUME NEW t \in Tries
  PROVE  t.job \in JobIds /\ t.attempt \in Nat /\ t.attempt + 1 <= MaxRetries
BY QueueNumbers DEF Tries

-----------------------------------------------------------------------------
(* Sequences of tries.                                                      *)

\* A try that joins a line: the line has it, once if its job was not there.
LEMMA AppendedTry ==
  ASSUME NEW s \in Seq(Tries), NEW t \in Tries
  PROVE  /\ Append(s, t) \in Seq(Tries) /\ ToSet(Append(s, t)) = ToSet(s) \cup {t}
         /\ Len(Append(s, t)) = Len(s) + 1
         /\ OnceEach(s) /\ t.job \notin JobsOf(ToSet(s)) => OnceEach(Append(s, t))
<1>. DEFINE r == Append(s, t)
<1>1. /\ r \in Seq(Tries) /\ Len(r) = Len(s) + 1 /\ Len(s) \in Nat
      /\ \A i \in 1 .. Len(s) : r[i] = s[i]
      /\ r[Len(s) + 1] = t
  OBVIOUS
<1>2. DOMAIN r = 1 .. (Len(s) + 1) /\ DOMAIN s = 1 .. Len(s)
  BY <1>1
<1>. HIDE DEF r
<1>3. ToSet(r) = ToSet(s) \cup {t}
  BY <1>1, <1>2 DEF ToSet
<1>4. ASSUME OnceEach(s), t.job \notin JobsOf(ToSet(s)) PROVE OnceEach(r)
  <2>1. \A i \in 1 .. Len(s) : s[i].job # t.job
    BY <1>2, <1>4 DEF ToSet, JobsOf
  <2>2. ASSUME NEW i \in 1 .. (Len(s) + 1), NEW k \in 1 .. (Len(s) + 1), r[i].job = r[k].job
        PROVE  i = k
    <3>1. CASE i \in 1 .. Len(s) /\ k \in 1 .. Len(s)
      BY <1>1, <1>2, <1>4, <2>2, <3>1 DEF OnceEach
    <3>2. CASE i = Len(s) + 1 /\ k \in 1 .. Len(s)
      BY <1>1, <2>1, <2>2, <3>2
    <3>3. CASE k = Len(s) + 1 /\ i \in 1 .. Len(s)
      BY <1>1, <2>1, <2>2, <3>3
    <3>. QED  BY <1>1, <3>1, <3>2, <3>3
  <2>. QED  BY <1>2, <2>2 DEF OnceEach
<1>. QED  BY <1>1, <1>3, <1>4 DEF r

\* A line cut in two: each half holds its own, and no job is in both.
LEMMA SplitTries ==
  ASSUME NEW s \in Seq(Tries), NEW n \in 1 .. Len(s)
  PROVE  LET a == SubSeq(s, 1, n)
             b == SubSeq(s, n + 1, Len(s))
         IN  /\ a \in Seq(Tries) /\ b \in Seq(Tries) /\ a # <<>>
             /\ ToSet(s) = ToSet(a) \cup ToSet(b)
             /\ OnceEach(s) => OnceEach(a) /\ OnceEach(b)
                  /\ JobsOf(ToSet(a)) \cap JobsOf(ToSet(b)) = {}
<1>. DEFINE a == SubSeq(s, 1, n)
            b == SubSeq(s, n + 1, Len(s))
<1>1. PICK m : m = Len(s)
  OBVIOUS
<1>2. m \in Nat /\ n \in 1 .. m /\ DOMAIN s = 1 .. m /\ \A i \in 1 .. m : s[i] \in Tries
  BY <1>1
<1>3. /\ a \in Seq(Tries) /\ Len(a) = n /\ \A i \in 1 .. n : a[i] = s[i]
  BY <1>1, <1>2, SubSeqProperties
<1>4. /\ b \in Seq(Tries) /\ Len(b) = m - n /\ \A i \in 1 .. (m - n) : b[i] = s[n + i]
  <2>1. \A i \in (n + 1) .. m : s[i] \in Tries
    BY <1>2
  <2>2. b = [i \in 1 .. (m - n) |-> s[n + i]]
    BY <1>1, <1>2 DEF b
  <2>3. m - n \in Nat /\ \A i \in 1 .. (m - n) : n + i \in (n + 1) .. m
    BY <1>2
  <2>4. b \in [1 .. (m - n) -> Tries]
    BY <2>1, <2>2, <2>3
  <2>5. \A q \in [1 .. (m - n) -> Tries] : q \in Seq(Tries) /\ Len(q) = m - n
    BY <2>3
  <2>. QED  BY <2>2, <2>3, <2>4, <2>5
<1>. HIDE DEF a, b
<1>5. DOMAIN a = 1 .. n /\ DOMAIN b = 1 .. (m - n) /\ a # <<>>
  BY <1>2, <1>3, <1>4
<1>6. \A i \in 1 .. m : i \in 1 .. n \/ (i - n \in 1 .. (m - n) /\ n + (i - n) = i)
  BY <1>2
<1>7. \A i \in 1 .. (m - n) : n + i \in 1 .. m
  BY <1>2
<1>8. \A i \in 1 .. n : i \in 1 .. m
  BY <1>2
<1>9. ToSet(s) = ToSet(a) \cup ToSet(b)
  <2>1. ASSUME NEW x \in ToSet(s) PROVE x \in ToSet(a) \cup ToSet(b)
    <3>1. PICK i \in 1 .. m : x = s[i]
      BY <1>2 DEF ToSet
    <3>2. CASE i \in 1 .. n
      BY <1>3, <1>5, <3>1, <3>2 DEF ToSet
    <3>3. CASE i - n \in 1 .. (m - n) /\ n + (i - n) = i
      BY <1>4, <1>5, <3>1, <3>3 DEF ToSet
    <3>. QED  BY <1>6, <3>2, <3>3
  <2>2. ASSUME NEW x \in ToSet(a) PROVE x \in ToSet(s)
    <3>1. PICK i \in 1 .. n : x = a[i]
      BY <1>5, <2>2 DEF ToSet
    <3>2. i \in 1 .. m /\ s[i] = x
      BY <1>3, <1>8, <3>1
    <3>. QED  BY <1>2, <3>2 DEF ToSet
  <2>3. ASSUME NEW x \in ToSet(b) PROVE x \in ToSet(s)
    <3>1. PICK i \in 1 .. (m - n) : x = b[i]
      BY <1>5, <2>3 DEF ToSet
    <3>2. n + i \in 1 .. m /\ s[n + i] = x
      BY <1>4, <1>7, <3>1
    <3>. QED  BY <1>2, <3>2 DEF ToSet
  <2>. QED  BY <2>1, <2>2, <2>3
<1>10. ASSUME OnceEach(s) PROVE OnceEach(a) /\ OnceEach(b)
              /\ JobsOf(ToSet(a)) \cap JobsOf(ToSet(b)) = {}
  <2>1. \A i, k \in 1 .. m : s[i].job = s[k].job => i = k
    BY <1>2, <1>10 DEF OnceEach
  <2>2. OnceEach(a)
    BY <1>3, <1>5, <1>8, <2>1 DEF OnceEach
  <2>3. OnceEach(b)
    <3>. SUFFICES ASSUME NEW i \in 1 .. (m - n), NEW k \in 1 .. (m - n), b[i].job = b[k].job
                  PROVE  i = k
      BY <1>5 DEF OnceEach
    <3>1. n + i = n + k
      BY <1>4, <1>7, <2>1
    <3>. QED  BY <1>2, <3>1
  <2>4. ASSUME NEW i \in 1 .. n, NEW k \in 1 .. (m - n) PROVE a[i].job # b[k].job
    <3>1. n + k \in 1 .. m /\ i \in 1 .. m /\ i # n + k
      BY <1>2, <1>7, <1>8
    <3>2. s[i].job # s[n + k].job
      BY <2>1, <3>1
    <3>3. a[i] = s[i] /\ b[k] = s[n + k]
      BY <1>3, <1>4
    <3>. QED  BY <3>2, <3>3
  <2>. QED  BY <1>5, <2>2, <2>3, <2>4 DEF ToSet, JobsOf
<1>. QED  BY <1>3, <1>4, <1>5, <1>9, <1>10 DEF a, b

\* The first of a line, and the rest without it.
LEMMA FirstTry ==
  ASSUME NEW s \in Seq(Tries), s # <<>>
  PROVE  /\ Head(s) \in Tries /\ Tail(s) \in Seq(Tries)
         /\ ToSet(s) = {Head(s)} \cup ToSet(Tail(s))
         /\ OnceEach(s) => OnceEach(Tail(s)) /\ Head(s).job \notin JobsOf(ToSet(Tail(s)))
<1>. DEFINE b == Tail(s)
<1>1. PICK m : m = Len(s)
  OBVIOUS
<1>2. m \in Nat /\ m > 0 /\ DOMAIN s = 1 .. m /\ \A i \in 1 .. m : s[i] \in Tries
  BY <1>1
<1>3. Head(s) = s[1] /\ 1 \in 1 .. m
  BY <1>1, <1>2
<1>4. b \in Seq(Tries) /\ Len(b) = m - 1 /\ \A i \in 1 .. (m - 1) : b[i] = s[i + 1]
  BY <1>1, <1>2
<1>. HIDE DEF b
<1>5. DOMAIN b = 1 .. (m - 1) /\ \A i \in 1 .. (m - 1) : i + 1 \in 1 .. m /\ i + 1 # 1
  BY <1>2, <1>4
<1>6. \A i \in 1 .. m : i = 1 \/ (i - 1 \in 1 .. (m - 1) /\ (i - 1) + 1 = i)
  BY <1>2
<1>7. ToSet(s) = {s[1]} \cup ToSet(b)
  <2>1. ASSUME NEW x \in ToSet(s) PROVE x = s[1] \/ x \in ToSet(b)
    <3>1. PICK i \in 1 .. m : x = s[i]
      BY <1>2 DEF ToSet
    <3>2. CASE i - 1 \in 1 .. (m - 1) /\ (i - 1) + 1 = i
      <4>1. b[i - 1] = x
        BY <1>4, <3>1, <3>2
      <4>. QED  BY <1>5, <3>2, <4>1 DEF ToSet
    <3>. QED  BY <1>6, <3>1, <3>2
  <2>2. ASSUME NEW x \in ToSet(b) PROVE x \in ToSet(s)
    BY <1>2, <1>4, <1>5, <2>2 DEF ToSet
  <2>3. s[1] \in ToSet(s)
    BY <1>2, <1>3 DEF ToSet
  <2>. QED  BY <2>1, <2>2, <2>3
<1>8. ASSUME OnceEach(s) PROVE OnceEach(b) /\ s[1].job \notin JobsOf(ToSet(b))
  <2>1. \A i, k \in 1 .. m : s[i].job = s[k].job => i = k
    BY <1>2, <1>8 DEF OnceEach
  <2>2. OnceEach(b)
    <3>. SUFFICES ASSUME NEW i \in 1 .. (m - 1), NEW k \in 1 .. (m - 1), b[i].job = b[k].job
                  PROVE  i = k
      BY <1>5 DEF OnceEach
    <3>1. i + 1 = k + 1
      BY <1>4, <1>5, <2>1
    <3>. QED  BY <1>2, <3>1
  <2>3. \A i \in 1 .. (m - 1) : s[1].job # b[i].job
    BY <1>3, <1>4, <1>5, <2>1
  <2>. QED  BY <1>5, <2>2, <2>3 DEF ToSet, JobsOf
<1>. QED  BY <1>2, <1>3, <1>4, <1>7, <1>8 DEF b

-----------------------------------------------------------------------------
(* Where the jobs are.                                                      *)

\* The jobs of each place.
Waiting == JobsOf(ToSet(channel))
Taken == JobsOf(ToSet(batch))
Resting == JobsOf(asleep)
Buried == JobsOf(ToSet(dead))
DoneWith == finished \cup lost
\* Five sets of jobs have nothing in common.
Apart(a, b, c, d, e) ==
    /\ a \cap b = {} /\ a \cap c = {} /\ a \cap d = {} /\ a \cap e = {}
    /\ b \cap c = {} /\ b \cap d = {} /\ b \cap e = {}
    /\ c \cap d = {} /\ c \cap e = {} /\ d \cap e = {}
\* A job sleeps at most once.
SleepOnce(set) == \A t, u \in set : t.job = u.job => t = u
\* EveryJobInOnePlace, place by place.
OnePlace ==
    /\ OnceEach(channel) /\ OnceEach(batch) /\ OnceEach(dead) /\ SleepOnce(asleep)
    /\ Apart(Waiting, Taken, Resting, Buried, DoneWith)
    /\ Waiting \cup Taken \cup Resting \cup Buried \cup DoneWith = Accepted

\* It says the same.
LEMMA OnePlaceEach == OnePlace <=> EveryJobInOnePlace
<1>1. /\ Place("channel") = Waiting /\ Place("batch") = Taken /\ Place("asleep") = Resting
      /\ Place("dead") = Buried /\ Place("done") = DoneWith
  BY DEF Place, Waiting, Taken, Resting, Buried, DoneWith
<1>2. UNION {Place(p) : p \in Places} = Waiting \cup Taken \cup Resting \cup Buried \cup DoneWith
  BY <1>1 DEF Places
<1>3. (\A p, q \in Places : p # q => Place(p) \cap Place(q) = {})
           => Apart(Waiting, Taken, Resting, Buried, DoneWith)
  <2>. HAVE \A p, q \in Places : p # q => Place(p) \cap Place(q) = {}
  <2>1. /\ Place("channel") \cap Place("batch") = {} /\ Place("channel") \cap Place("asleep") = {}
        /\ Place("channel") \cap Place("dead") = {} /\ Place("channel") \cap Place("done") = {}
        /\ Place("batch") \cap Place("asleep") = {} /\ Place("batch") \cap Place("dead") = {}
        /\ Place("batch") \cap Place("done") = {} /\ Place("asleep") \cap Place("dead") = {}
        /\ Place("asleep") \cap Place("done") = {} /\ Place("dead") \cap Place("done") = {}
    BY DEF Places
  <2>. QED  BY <1>1, <2>1 DEF Apart
<1>4. Apart(Waiting, Taken, Resting, Buried, DoneWith) => \A p, q \in Places : p # q
           => Place(p) \cap Place(q) = {}
  <2>. HAVE Apart(Waiting, Taken, Resting, Buried, DoneWith)
  <2>. TAKE p \in Places
  <2>. TAKE q \in Places
  <2>. HAVE p # q
  <2>1. CASE p = "channel"  BY <1>1, <2>1 DEF Apart, Places
  <2>2. CASE p = "batch"  BY <1>1, <2>2 DEF Apart, Places
  <2>3. CASE p = "asleep"  BY <1>1, <2>3 DEF Apart, Places
  <2>4. CASE p = "dead"  BY <1>1, <2>4 DEF Apart, Places
  <2>5. CASE p = "done"  BY <1>1, <2>5 DEF Apart, Places
  <2>. QED  BY <2>1, <2>2, <2>3, <2>4, <2>5 DEF Places
<1>. QED  BY <1>2, <1>3, <1>4, Zenon DEF OnePlace, EveryJobInOnePlace, SleepOnce

\* Nobody waits where no try does.
LEMMA JobsOfSets ==
  /\ JobsOf({}) = {}
  /\ \A t : JobsOf({t}) = {t.job}
  /\ \A a, b : JobsOf(a \cup b) = JobsOf(a) \cup JobsOf(b)
BY DEF JobsOf

\* The empty line.
LEMMA NoTries == ToSet(<<>>) = {} /\ OnceEach(<<>>) /\ <<>> \in Seq(Tries)
BY DEF ToSet, OnceEach

\* A try that wakes leaves those asleep.
LEMMA WokenTries ==
  ASSUME NEW set, SleepOnce(set), NEW t \in set
  PROVE  SleepOnce(set \ {t}) /\ JobsOf(set) = JobsOf(set \ {t}) \cup {t.job}
         /\ t.job \notin JobsOf(set \ {t})
BY DEF SleepOnce, JobsOf

\* A try that goes to sleep joins them.
LEMMA RestingTries ==
  ASSUME NEW set, SleepOnce(set), NEW t, t.job \notin JobsOf(set)
  PROVE  SleepOnce(set \cup {t})
BY DEF SleepOnce, JobsOf

\* What a job asks for.
LEMMA BodyFacts ==
  ASSUME NEW b \in Bodies
  PROVE  /\ b # NoJob
         /\ b.kind = "outbound" => b.chunks \in 0 .. MaxChunks
         /\ b.kind = "media" => b.key \in MediaKeys
         /\ b.kind \in {"outbound", "media"}
BY DEF Bodies, NoJob

\* An accepted job asks for something.
LEMMA AcceptedBodies == QueueTypeOK => \A j \in Accepted : jobs[j] \in Bodies
BY DEF QueueTypeOK, Accepted

\* The job in hand is accepted and nowhere else.
LEMMA HandFacts ==
  ASSUME QueueTypeOK, OnePlace, batch # <<>>
  PROVE  /\ InHand \in Tries /\ InHand \in ToSet(batch) /\ InHand.job \in JobIds
         /\ InHand.job \in Accepted /\ Body \in Bodies
         /\ InHand.job \notin Waiting \cup Resting \cup Buried \cup DoneWith
         /\ InHand.job \notin JobsOf(ToSet(Tail(batch)))
         /\ Tail(batch) \in Seq(Tries) /\ OnceEach(Tail(batch))
         /\ Taken = {InHand.job} \cup JobsOf(ToSet(Tail(batch)))
<1>1. batch \in Seq(Tries)
  BY DEF QueueTypeOK
<1>2. /\ InHand \in Tries /\ Tail(batch) \in Seq(Tries)
      /\ ToSet(batch) = {InHand} \cup ToSet(Tail(batch))
      /\ OnceEach(Tail(batch)) /\ InHand.job \notin JobsOf(ToSet(Tail(batch)))
  BY <1>1, FirstTry DEF InHand, OnePlace
<1>3. Taken = {InHand.job} \cup JobsOf(ToSet(Tail(batch)))
  BY <1>2 DEF Taken, JobsOf
<1>4. InHand.job \in JobIds
  BY <1>2, TryFacts
<1>5. InHand.job \in Accepted /\ InHand.job \notin Waiting \cup Resting \cup Buried \cup DoneWith
  BY <1>3 DEF OnePlace, Apart
<1>. QED  BY <1>2, <1>3, <1>4, <1>5, AcceptedBodies DEF Body

\* Every try that waits, is taken or sleeps is one of an accepted job.
LEMMA TriesAreAccepted ==
  ASSUME QueueTypeOK, OnePlace
  PROVE  /\ ToSet(channel) \subseteq Tries /\ ToSet(batch) \subseteq Tries
         /\ asleep \subseteq Tries /\ ToSet(dead) \subseteq Tries
         /\ \A t \in ToSet(channel) \cup ToSet(batch) \cup asleep \cup ToSet(dead) :
               t.job \in Accepted /\ t.job \in JobIds /\ t.attempt \in Nat
<1>1. ToSet(channel) \subseteq Tries /\ ToSet(batch) \subseteq Tries
      /\ asleep \subseteq Tries /\ ToSet(dead) \subseteq Tries
  BY DEF QueueTypeOK, ToSet
<1>2. \A t \in ToSet(channel) \cup ToSet(batch) \cup asleep \cup ToSet(dead) : t.job \in Accepted
  BY DEF OnePlace, Waiting, Taken, Resting, Buried, JobsOf
<1>. QED  BY <1>1, <1>2, TryFacts

\* A try of another place, or behind the job in hand, is not the one in hand.
LEMMA OtherTries ==
  ASSUME QueueTypeOK, OnePlace, batch # <<>>
  PROVE  \A t \in ToSet(channel) \cup ToSet(Tail(batch)) \cup asleep : t # InHand
         /\ t.job # InHand.job
BY HandFacts DEF Waiting, Resting, JobsOf

-----------------------------------------------------------------------------
(* What a step of the job in hand leaves alone.                             *)

\* The invariant but for what is on the record, with the places one by one.
QueueRest == QueueTypeOK /\ OnePlace /\ StatsAddUp /\ OneRowPerMedia
             /\ DeliveredMeansEveryChunk /\ WorkIsSound /\ PushesAreTries

\* What is on the record.
OnRecord == OutcomeOnRecord /\ WorkOnRecord

\* Together they are the invariant.
LEMMA QueueWhole == QueueRest /\ OnRecord <=> QueueInv
BY OnePlaceEach DEF QueueRest, OnRecord, QueueInv

\* The books stand while nothing is settled.
LEMMA BooksStand ==
  OnePlace /\ StatsAddUp /\ UNCHANGED <<jobs, channel, batch, asleep, dead, finished, stats,
       lost>> => OnePlace' /\ StatsAddUp'
BY DEF OnePlace, StatsAddUp, Waiting, Taken, Resting, Buried, DoneWith, Accepted, OnceEach,
   SleepOnce

\* Where the work on a job can be.
LEMMA WorkShapes ==
  QueueTypeOK =>
    \/ work = Idling
    \/ work.pc = "push" /\ work.next \in 1 .. MaxChunks /\ work = [pc |-> "push",
         next |-> work.next]
    \/ work = [pc |-> "fetch"]
    \/ work = [pc |-> "insert"]
    \/ work.pc = "settle" /\ work.ok \in BOOLEAN /\ work.hope \in BOOLEAN
         /\ work = [pc |-> "settle", ok |-> work.ok, hope |-> work.hope]
BY DEF QueueTypeOK

\* The numbers of the pushes stand while only the try in hand has begun anew.
LEMMA PushesStand ==
  ASSUME QueueTypeOK, OnePlace, PushesAreTries, batch # <<>>,
         UNCHANGED <<jobs, channel, batch, asleep>>,
         \A j \in JobIds : j # InHand.job => pushed'[j] = pushed[j] /\ outcome'[j] = outcome[j]
              /\ unwritten'[j] = unwritten[j],
         \A i \in 1 .. MaxChunks : pushed'[InHand.job][i] <= Under(InHand, i)'
              /\ pushed'[InHand.job][i] <= MaxRetries
  PROVE  PushesAreTries'
<1>1. InHand' = InHand /\ Accepted' = Accepted
  BY DEF InHand, Accepted
<1>2. InHand.job \in Accepted /\ InHand.job \in JobIds
  BY HandFacts
<1>3. ASSUME NEW t \in ToSet(channel) \cup ToSet(batch) \cup asleep, NEW i \in 1 .. MaxChunks
      PROVE  pushed'[t.job][i] <= Under(t, i)'
  <2>1. CASE t = InHand
    BY <1>1, <2>1
  <2>2. CASE t # InHand
    <3>1. t \in ToSet(channel) \cup ToSet(Tail(batch)) \cup asleep
      BY <2>2, FirstTry DEF QueueTypeOK, InHand
    <3>2. t.job # InHand.job /\ t.job \in JobIds
      BY <3>1, OtherTries, TriesAreAccepted
    <3>3. pushed[t.job][i] <= Under(t, i)
      BY DEF PushesAreTries
    <3>4. Under(t, i) = t.attempt /\ Under(t, i)' = t.attempt
      BY <1>1, <2>2 DEF Under
    <3>. QED  BY <3>2, <3>3, <3>4
  <2>. QED  BY <2>1, <2>2
<1>4. \A j \in JobIds, i \in 1 .. MaxChunks : pushed'[j][i] <= MaxRetries
  BY <1>2 DEF PushesAreTries
<1>5. \A j \in JobIds \ Accepted : outcome'[j] = "pending"
           /\ unwritten'[j] = 0 /\ \A i \in 1 .. MaxChunks : pushed'[j][i] = 0
  BY <1>2 DEF PushesAreTries
<1>. QED  BY <1>1, <1>3, <1>4, <1>5 DEF PushesAreTries

\* While the job in hand goes on, it is under way with the tries it has begun.
LEMMA HandUnder ==
  ASSUME QueueTypeOK, OnePlace, PushesAreTries, batch # <<>>, NEW i \in 1 .. MaxChunks
  PROVE  /\ pushed[InHand.job][i] \in Nat /\ pushed[InHand.job][i] <= MaxRetries
         /\ pushed[InHand.job][i] <= InHand.attempt + 1
         /\ InHand.attempt \in Nat /\ InHand.attempt + 1 <= MaxRetries
         /\ work.pc # "settle" /\ ~(work.pc = "push" /\ i < work.next)
              => pushed[InHand.job][i] <= InHand.attempt
<1>1. InHand \in Tries /\ InHand \in ToSet(batch) /\ InHand.job \in JobIds
  BY HandFacts
<1>2. InHand.attempt \in Nat /\ InHand.attempt + 1 <= MaxRetries
  BY <1>1, TryFacts
<1>3. pushed[InHand.job][i] <= Under(InHand, i) /\ pushed[InHand.job][i] <= MaxRetries
  BY <1>1 DEF PushesAreTries
<1>4. pushed[InHand.job][i] \in Nat
  <2>1. pushed \in [JobIds -> [1 .. MaxChunks -> Nat]]
    BY Zenon DEF QueueTypeOK
  <2>. QED  BY <1>1, <2>1
<1>5. /\ Under(InHand, i) \in Nat /\ Under(InHand, i) <= InHand.attempt + 1
      /\ work.pc # "settle" /\ ~(work.pc = "push" /\ i < work.next)
           => Under(InHand, i) = InHand.attempt
  BY <1>2 DEF Under
<1>. QED  BY <1>2, <1>3, <1>4, <1>5

\* A step of the job in hand that pushes nothing and takes no try back.
LEMMA NothingPushed ==
  ASSUME QueueTypeOK, OnePlace, PushesAreTries, batch # <<>>,
         UNCHANGED <<jobs, channel, batch, asleep, pushed>>,
         \A j \in JobIds : j # InHand.job =>
              outcome'[j] = outcome[j] /\ unwritten'[j] = unwritten[j],
         work = Idling \/ work.pc \in {"fetch", "insert"} \/ work'.pc = "settle"
  PROVE  PushesAreTries'
<1>1. InHand' = InHand
  BY DEF InHand
<1>2. ASSUME NEW i \in 1 .. MaxChunks
      PROVE  pushed'[InHand.job][i] <= Under(InHand, i)' /\ pushed'[InHand.job][i] <= MaxRetries
  <2>1. batch' # <<>>
    OBVIOUS
  <2>2. Under(InHand, i)' = IF work'.pc = "settle" \/ (work'.pc = "push" /\ i < work'.next)
                            THEN InHand.attempt + 1 ELSE InHand.attempt
    BY <1>1, <2>1 DEF Under
  <2>3. work = Idling \/ work.pc \in {"fetch", "insert"} => work.pc # "settle" /\ work.pc # "push"
    BY DEF Idling
  <2>. QED  BY <2>2, <2>3, HandUnder
<1>. QED  BY <1>2, PushesStand
-----------------------------------------------------------------------------
(* The actions.                                                             *)

\* A job is accepted: it waits, and is nowhere else.
LEMMA EnqueueStep == ASSUME QueueRest, NEW j \in JobIds, Enqueue(j) PROVE QueueRest'
<1>1. PICK body \in Bodies : jobs' = [jobs EXCEPT ![j] = body]
  BY DEF Enqueue
<1>2. PICK t : t = [job |-> j, attempt |-> 0]
  OBVIOUS
<1>3. t \in Tries /\ t.job = j /\ t.attempt = 0
  BY <1>2, QueueNumbers DEF Tries
<1>4. /\ jobs[j] = NoJob /\ channel' = Append(channel, t)
      /\ UNCHANGED <<batch, work, asleep, dead, finished, stats, pushed, outcome, unwritten, stored,
           linked, lost>>
  BY <1>2 DEF Enqueue
<1>5. QueueTypeOK /\ OnePlace /\ channel \in Seq(Tries)
      /\ jobs \in [JobIds -> Bodies \cup {NoJob}]
  BY DEF QueueRest, QueueTypeOK
<1>6. /\ channel' \in Seq(Tries) /\ ToSet(channel') = ToSet(channel) \cup {t}
      /\ OnceEach(channel) /\ t.job \notin Waiting => OnceEach(channel')
  BY <1>3, <1>4, <1>5, AppendedTry DEF Waiting
<1>7. jobs' \in [JobIds -> Bodies \cup {NoJob}] /\ jobs'[j] = body
           /\ \A k \in JobIds : k # j => jobs'[k] = jobs[k]
  BY <1>1, <1>5
<1>8. j \notin Accepted /\ Accepted' = Accepted \cup {j}
  <2>1. j \notin Accepted /\ jobs'[j] # NoJob
    BY <1>4, <1>7, BodyFacts DEF Accepted
  <2>. QED  BY <1>7, <2>1 DEF Accepted
<1>9. QueueTypeOK'
  BY <1>4, <1>5, <1>6, <1>7 DEF QueueTypeOK
<1>10. OnePlace'
  <2>1. Waiting' = Waiting \cup {j}
    BY <1>3, <1>6 DEF Waiting, JobsOf
  <2>2. Taken' = Taken /\ Resting' = Resting /\ Buried' = Buried /\ DoneWith' = DoneWith
    BY <1>4 DEF Taken, Resting, Buried, DoneWith
  <2>3. j \notin Waiting \cup Taken \cup Resting \cup Buried \cup DoneWith
    BY <1>5, <1>8 DEF OnePlace
  <2>4. OnceEach(channel') /\ OnceEach(batch') /\ OnceEach(dead') /\ SleepOnce(asleep')
    BY <1>3, <1>4, <1>5, <1>6, <2>3 DEF OnePlace
  <2>. QED  BY <1>5, <1>8, <2>1, <2>2, <2>3, <2>4 DEF OnePlace, Apart
<1>11. StatsAddUp' /\ OneRowPerMedia'
  BY <1>4 DEF QueueRest, StatsAddUp, OneRowPerMedia
<1>13. DeliveredMeansEveryChunk'
  <2>1. outcome[j] = "pending" /\ \A i \in 1 .. MaxChunks : pushed[j][i] = 0
    BY <1>8 DEF QueueRest, PushesAreTries
  <2>2. \A k \in Accepted : k \in JobIds /\ k # j
    BY <1>8 DEF Accepted
  <2>3. \A i \in 1 .. MaxChunks : pushed[j][i] <= MaxRetries
    BY DEF QueueRest, PushesAreTries
  <2>. QED  BY <1>4, <1>7, <1>8, <2>1, <2>2, <2>3 DEF QueueRest, DeliveredMeansEveryChunk
<1>14. batch # <<>> => InHand' = InHand /\ Body' = Body /\ InHand.job # j /\ InHand.job \in JobIds
  BY <1>4, <1>5, <1>7, <1>8, HandFacts DEF InHand, Body
<1>15. WorkIsSound'
  <2>1. CASE batch = <<>>
    <3>1. work' = Idling
      BY <1>4, <2>1 DEF QueueRest, WorkIsSound
    <3>. QED  BY <3>1 DEF WorkIsSound, Idling
  <2>2. CASE batch # <<>>
    BY <1>4, <1>14, <2>2 DEF QueueRest, WorkIsSound
  <2>. QED  BY <2>1, <2>2
<1>16. PushesAreTries'
  <2>1. ASSUME NEW u \in ToSet(channel') \cup ToSet(batch') \cup asleep', NEW i \in 1 .. MaxChunks
        PROVE  pushed'[u.job][i] <= (IF batch' # <<>> /\ u = InHand'
               /\ (work'.pc = "settle" \/ (work'.pc = "push" /\ i < work'.next))
                                     THEN u.attempt + 1 ELSE u.attempt)
    <3>1. CASE u = t
      <4>1. batch' # <<>> => u # InHand'
        BY <1>3, <1>4, <1>14, <3>1
      <4>2. pushed[j][i] = 0
        BY <1>8 DEF QueueRest, PushesAreTries
      <4>. QED  BY <1>3, <1>4, <3>1, <4>1, <4>2
    <3>2. CASE u # t
      <4>1. u \in ToSet(channel) \cup ToSet(batch) \cup asleep
        BY <1>4, <1>6, <3>2
      <4>2. pushed[u.job][i] <= Under(u, i)
        BY <4>1 DEF QueueRest, PushesAreTries
      <4>. QED  BY <1>4, <1>14, <4>2 DEF Under
    <3>. QED  BY <3>1, <3>2
  <2>2. \A k \in JobIds, i \in 1 .. MaxChunks : pushed'[k][i] <= MaxRetries
    BY <1>4 DEF QueueRest, PushesAreTries
  <2>3. \A k \in JobIds \ Accepted' : outcome'[k] = "pending"
             /\ unwritten'[k] = 0 /\ \A i \in 1 .. MaxChunks : pushed'[k][i] = 0
    BY <1>4, <1>8 DEF QueueRest, PushesAreTries
  <2>. QED  BY <2>1, <2>2, <2>3 DEF PushesAreTries, Under
<1>. QED  BY <1>9, <1>10, <1>11, <1>13, <1>15, <1>16 DEF QueueRest

\* A batch is taken: what waited is in the batch or waits still.
LEMMA TakeBatchStep == ASSUME QueueRest, TakeBatch PROVE QueueRest'
<1>1. PICK n \in 1 .. (IF Len(channel) < MaxBatchSize THEN Len(channel) ELSE MaxBatchSize) :
        batch' = SubSeq(channel, 1, n) /\ channel' = SubSeq(channel, n + 1, Len(channel))
  BY DEF TakeBatch
<1>2. batch = <<>> /\ UNCHANGED <<jobs, work, asleep, dead, finished, stats, pushed, outcome, unwritten,
           stored, linked, lost>>
  BY DEF TakeBatch
<1>3. QueueTypeOK /\ OnePlace /\ channel \in Seq(Tries) /\ Len(channel) \in Nat
  BY DEF QueueRest, QueueTypeOK
<1>4. n \in 1 .. Len(channel)
  BY <1>1, <1>3, QueueNumbers
<1>5. /\ batch' \in Seq(Tries) /\ channel' \in Seq(Tries) /\ batch' # <<>>
      /\ ToSet(channel) = ToSet(batch') \cup ToSet(channel')
      /\ OnceEach(channel) => OnceEach(batch') /\ OnceEach(channel')
           /\ JobsOf(ToSet(batch')) \cap JobsOf(ToSet(channel')) = {}
  BY <1>1, <1>3, <1>4, SplitTries
<1>6. QueueTypeOK'
  BY <1>2, <1>3, <1>5 DEF QueueTypeOK
<1>7. OnePlace'
  <2>1. Taken = {}
    BY <1>2, NoTries DEF Taken, JobsOf
  <2>2. Waiting = Taken' \cup Waiting'
    BY <1>5 DEF Waiting, Taken, JobsOf
  <2>3. Taken' \cap Waiting' = {}
    BY <1>3, <1>5 DEF Waiting, Taken, OnePlace
  <2>4. Resting' = Resting /\ Buried' = Buried /\ DoneWith' = DoneWith /\ Accepted' = Accepted
    BY <1>2 DEF Resting, Buried, DoneWith, Accepted
  <2>5. OnceEach(channel') /\ OnceEach(batch') /\ OnceEach(dead') /\ SleepOnce(asleep')
    BY <1>2, <1>3, <1>5 DEF OnePlace
  <2>. QED  BY <1>3, <2>1, <2>2, <2>3, <2>4, <2>5 DEF OnePlace, Apart
<1>8. StatsAddUp' /\ OneRowPerMedia' /\ DeliveredMeansEveryChunk'
  BY <1>2 DEF QueueRest, StatsAddUp, OneRowPerMedia,
     DeliveredMeansEveryChunk, Accepted
<1>9. work = Idling /\ work' = Idling
  BY <1>2 DEF QueueRest, WorkIsSound
<1>10. WorkIsSound'
  BY <1>9 DEF WorkIsSound, Idling
<1>11. PushesAreTries'
  <2>1. \A u, i : Under(u, i) = u.attempt
    BY <1>2 DEF Under
  <2>2. work'.pc # "settle" /\ work'.pc # "push"
    BY <1>9 DEF Idling
  <2>3. ASSUME NEW u \in ToSet(channel') \cup ToSet(batch') \cup asleep', NEW i \in 1 .. MaxChunks
        PROVE  pushed'[u.job][i] <= u.attempt
    <3>1. u \in ToSet(channel) \cup ToSet(batch) \cup asleep
      BY <1>2, <1>5
    <3>. QED  BY <1>2, <2>1, <3>1 DEF QueueRest, PushesAreTries
  <2>. QED  BY <1>2, <2>2, <2>3 DEF QueueRest, PushesAreTries, Under, Accepted
<1>. QED  BY <1>6, <1>7, <1>8, <1>10, <1>11 DEF QueueRest

\* Work that is to be settled.
LEMMA SettleKinds ==
  ASSUME NEW ok \in BOOLEAN, NEW hope \in BOOLEAN, Settle(ok, hope)
  PROVE  work'.pc = "settle" /\ work' \in [pc : {"settle"}, ok : BOOLEAN, hope : BOOLEAN]
         /\ work' # Idling
         /\ (work'.ok <=> ok) /\ (work'.hope <=> hope)
<1>1. work' \in [pc : {"settle"}, ok : BOOLEAN, hope : BOOLEAN] /\ work'.pc = "settle"
  BY DEF Settle
<1>2. (work'.ok <=> ok) /\ (work'.hope <=> hope)
  BY Zenon DEF Settle
<1>. QED  BY <1>1, <1>2 DEF Idling

\* A message that is marked, or was to be: no other row is touched.
LEMMA Marked ==
  ASSUME QueueTypeOK, NEW h, h = InHand.job, h \in JobIds,
         NEW o \in {"pending", "delivered", "failed"}, MarkMessage(o)
  PROVE  /\ outcome' \in [JobIds -> {"pending", "delivered", "failed"}]
         /\ unwritten' \in [JobIds -> Nat]
         /\ \A j \in JobIds : j # h => outcome'[j] = outcome[j] /\ unwritten'[j] = unwritten[j]
         /\ \/ outcome'[h] = o /\ unwritten'[h] = unwritten[h]
            \/ outcome'[h] = outcome[h] /\ unwritten'[h] = unwritten[h] + 1
<1>1. outcome \in [JobIds -> {"pending", "delivered", "failed"}] /\ unwritten \in [JobIds -> Nat]
  BY Zenon DEF QueueTypeOK
<1>2. CASE outcome' = [outcome EXCEPT ![h] = o] /\ unwritten' = unwritten
  BY <1>1, <1>2
<1>3. CASE unwritten' = [unwritten EXCEPT ![h] = @ + 1] /\ outcome' = outcome
  BY <1>1, <1>3
<1>. QED  BY <1>2, <1>3 DEF MarkMessage

\* An outbound job is begun, or fails before its first chunk.
LEMMA StartOutboundStep == ASSUME QueueRest, StartOutbound PROVE QueueRest'
<1>1. /\ batch # <<>> /\ work = Idling /\ Body.kind = "outbound"
      /\ UNCHANGED <<jobs, channel, batch, asleep, dead, finished, stats, pushed, stored,
           linked, lost>>
  BY DEF StartOutbound
<1>2. QueueTypeOK /\ OnePlace /\ InHand.job \in JobIds /\ Body \in Bodies
      /\ InHand.job \notin Buried /\ InHand.job \in Accepted
  BY <1>1, HandFacts DEF QueueRest
<1>3. InHand' = InHand /\ Body' = Body /\ Body.chunks \in 0 .. MaxChunks /\ Accepted' = Accepted
  BY <1>1, <1>2, BodyFacts DEF InHand, Body, Accepted
<1>4. OnePlace' /\ StatsAddUp'
  BY <1>1, BooksStand DEF QueueRest
<1>5. OneRowPerMedia'
  BY <1>1 DEF QueueRest, OneRowPerMedia
<1>6. CASE Body.chunks = 0
  <2>1. Settle(FALSE, FALSE) /\ MarkMessage("failed")
    BY <1>6 DEF StartOutbound
  <2>2. /\ work'.pc = "settle" /\ work' \in [pc : {"settle"}, ok : BOOLEAN, hope : BOOLEAN]
             /\ work' # Idling
        /\ ~work'.ok
    BY <2>1, SettleKinds, Zenon
  <2>3. /\ outcome' \in [JobIds -> {"pending", "delivered", "failed"}]
        /\ unwritten' \in [JobIds -> Nat]
        /\ outcome'[InHand.job] \in {"failed", outcome[InHand.job]}
        /\ \A j \in JobIds : j # InHand.job =>
             outcome'[j] = outcome[j] /\ unwritten'[j] = unwritten[j]
    BY <1>2, <2>1, Marked
  <2>4. QueueTypeOK'
    BY <1>1, <1>2, <2>2, <2>3 DEF QueueTypeOK
  <2>6. DeliveredMeansEveryChunk'
    BY <1>1, <1>3, <2>3 DEF QueueRest, DeliveredMeansEveryChunk, Accepted
  <2>7. WorkIsSound'
    BY <1>1, <1>3, <2>2, <2>3 DEF WorkIsSound
  <2>8. PushesAreTries'
    BY <1>1, <1>2, <2>2, <2>3, NothingPushed DEF QueueRest
  <2>. QED  BY <1>4, <1>5, <2>4, <2>6, <2>7, <2>8 DEF QueueRest
<1>7. CASE Body.chunks # 0
  <2>1. work' = [pc |-> "push", next |-> 1] /\ outcome' = outcome /\ unwritten' = unwritten
    BY <1>7 DEF StartOutbound
  <2>2. /\ work'.pc = "push" /\ work'.next = 1 /\ work' # Idling
        /\ work' \in [pc : {"push"}, next : 1 .. MaxChunks]
    BY <1>3, <1>7, <2>1, QueueNumbers DEF Idling
  <2>3. QueueTypeOK'
    BY <1>1, <1>2, <2>1, <2>2 DEF QueueTypeOK
  <2>4. DeliveredMeansEveryChunk'
    BY <1>1, <2>1 DEF QueueRest, DeliveredMeansEveryChunk, Accepted
  <2>5. WorkIsSound'
    BY <1>1, <1>3, <1>7, <2>2, QueueNumbers DEF WorkIsSound
  <2>6. PushesAreTries'
    BY <1>1, <1>2, <2>1, NothingPushed DEF QueueRest
  <2>. QED  BY <1>4, <1>5, <2>3, <2>4, <2>5, <2>6 DEF QueueRest
<1>. QED  BY <1>6, <1>7
\* A chunk is pushed, and the message is marked when it was the last.
LEMMA PushChunkStep == ASSUME QueueRest, PushChunk PROVE QueueRest'
<1>. DEFINE last == work.next = Body.chunks
            h == InHand.job
<1>1. PICK got \in BOOLEAN, ok \in BOOLEAN, hope \in BOOLEAN :
        /\ ok => got /\ hope
        /\ pushed' = IF got THEN [pushed EXCEPT ![InHand.job][work.next] = @ + 1] ELSE pushed
        /\ IF ok /\ ~(work.next = Body.chunks)
           THEN work' = [work EXCEPT !.next = @ + 1] /\ UNCHANGED <<outcome, unwritten>>
           ELSE Settle(ok, hope) /\ MarkMessage(IF ok THEN "delivered" ELSE "failed")
  BY Zenon DEF PushChunk
<1>2. work.pc = "push" /\ UNCHANGED <<jobs, channel, batch, asleep, dead, finished, stats,
           stored, linked, lost>>
  BY DEF PushChunk
<1>3. QueueTypeOK /\ OnePlace /\ work # Idling
  BY <1>2 DEF QueueRest, Idling
<1>4. batch # <<>> /\ Body.kind = "outbound" /\ work.next <= Body.chunks
      /\ \A i \in 1 .. MaxChunks : i < work.next => pushed[InHand.job][i] > 0
  BY <1>2, <1>3 DEF QueueRest, WorkIsSound
<1>5. work.next \in 1 .. MaxChunks /\ work = [pc |-> "push", next |-> work.next]
  BY <1>2, <1>3, WorkShapes DEF Idling
<1>6. h \in JobIds /\ h \in Accepted /\ Body \in Bodies /\ h \notin Buried
      /\ Body.chunks \in 0 .. MaxChunks
  BY <1>3, <1>4, HandFacts, BodyFacts
<1>7. InHand' = InHand /\ Body' = Body /\ Accepted' = Accepted /\ batch' # <<>>
  BY <1>2, <1>4 DEF InHand, Body, Accepted
<1>. HIDE DEF h
<1>8. /\ pushed' \in [JobIds -> [1 .. MaxChunks -> Nat]]
      /\ \A j \in JobIds : j # h => pushed'[j] = pushed[j]
      /\ \A i \in 1 .. MaxChunks : i # work.next => pushed'[h][i] = pushed[h][i]
      /\ pushed'[h][work.next] = pushed[h][work.next] + (IF got THEN 1 ELSE 0)
      /\ \A i \in 1 .. MaxChunks : pushed[h][i] \in Nat
  <2>1. pushed \in [JobIds -> [1 .. MaxChunks -> Nat]]
    BY <1>3 DEF QueueTypeOK
  <2>2. PICK n : n = work.next
    OBVIOUS
  <2>3. n \in 1 .. MaxChunks
    BY <1>5, <2>2
  <2>4. PICK entry : entry = pushed[h]
    OBVIOUS
  <2>5. entry \in [1 .. MaxChunks -> Nat]
    BY <1>6, <2>1, <2>4
  <2>6. entry[n] \in Nat /\ entry[n] + 1 \in Nat
    BY <2>3, <2>5
  <2>7. CASE got
    <3>1. PICK more : more = [entry EXCEPT ![n] = entry[n] + 1]
      OBVIOUS
    <3>2. /\ more \in [1 .. MaxChunks -> Nat] /\ more[n] = entry[n] + 1
          /\ \A i \in 1 .. MaxChunks : i # n => more[i] = entry[i]
      BY <2>3, <2>5, <2>6, <3>1
    <3>3. pushed' = [pushed EXCEPT ![h] = more]
      BY <1>1, <2>7, <2>2, <2>4, <3>1 DEF h
    <3>4. pushed' \in [JobIds -> [1 .. MaxChunks -> Nat]] /\ pushed'[h] = more
               /\ \A j \in JobIds : j # h => pushed'[j] = pushed[j]
      BY <1>6, <2>1, <3>2, <3>3
    <3>. QED  BY <2>7, <2>2, <2>4, <2>5, <3>2, <3>4
  <2>8. CASE ~got
    <3>1. pushed' = pushed
      BY <1>1, <2>8
    <3>2. entry[n] + (IF got THEN 1
               ELSE 0) = entry[n] /\ \A i \in 1 .. MaxChunks : entry[i] \in Nat
      BY <2>8, <2>5, <2>6
    <3>. QED  BY <2>1, <2>2, <2>4, <3>1, <3>2
  <2>. QED  BY <2>7, <2>8
<1>9. OnePlace' /\ StatsAddUp'
  BY <1>2, BooksStand DEF QueueRest
<1>10. OneRowPerMedia'
  BY <1>2 DEF QueueRest, OneRowPerMedia
<1>11. /\ outcome' \in [JobIds -> {"pending", "delivered", "failed"}]
       /\ unwritten' \in [JobIds -> Nat]
       /\ \A j \in JobIds : j # h => outcome'[j] = outcome[j] /\ unwritten'[j] = unwritten[j]
  <2>1. CASE ok /\ ~(work.next = Body.chunks)
    BY <1>1, <1>3, <2>1 DEF QueueTypeOK
  <2>2. CASE ~(ok /\ ~(work.next = Body.chunks))
    <3>1. PICK o \in {"pending", "delivered", "failed"} : MarkMessage(o)
      BY <1>1, <2>2
    <3>. QED  BY <1>3, <1>6, <3>1, Marked DEF h
  <2>. QED  BY <2>1, <2>2
<1>13. \A i \in 1 .. MaxChunks : /\ pushed[h][i] <= InHand.attempt + 1
                                      /\ InHand.attempt + 1 <= MaxRetries
                                 /\ ~(i < work.next) => pushed[h][i] <= InHand.attempt
                                 /\ InHand.attempt \in Nat
  BY <1>2, <1>3, <1>4, HandUnder DEF QueueRest, h
<1>14. \A i \in 1 .. MaxChunks : /\ pushed'[h][i] <= InHand.attempt + 1
                                 /\ i > work.next => pushed'[h][i] <= InHand.attempt
                                 /\ i < work.next => pushed'[h][i] > 0
                                 /\ pushed'[h][i] <= MaxRetries
  <2>. TAKE i \in 1 .. MaxChunks
  <2>1. PICK a : a = InHand.attempt
    OBVIOUS
  <2>2. PICK n : n = work.next
    OBVIOUS
  <2>3. PICK v : v = pushed[h][i]
    OBVIOUS
  <2>4. PICK w : w = pushed'[h][i]
    OBVIOUS
  <2>5. /\ a \in Nat /\ v <= a + 1 /\ a + 1 <= MaxRetries /\ (~(i < n) => v <= a)
    BY <1>13, <2>1, <2>2, <2>3
  <2>6. n \in 1 .. MaxChunks /\ v \in Nat /\ i \in Int /\ MaxRetries \in Nat
    BY <1>5, <1>8, <2>2, <2>3, QueueNumbers
  <2>7. (i # n => w = v) /\ (i = n => w = v \/ w = v + 1)
    BY <1>8, <2>2, <2>3, <2>4
  <2>8. i < n => v > 0
    BY <1>4, <2>2, <2>3 DEF h
  <2>9. w <= a + 1 /\ (i > n => w <= a) /\ (i < n => w > 0) /\ w <= MaxRetries
    BY <2>5, <2>6, <2>7, <2>8
  <2>. QED  BY <2>1, <2>2, <2>4, <2>9
<1>15. CASE ok /\ ~(work.next = Body.chunks)
  <2>1. work' = [work EXCEPT !.next = @ + 1] /\ outcome' = outcome /\ got
    BY <1>1, <1>15
  <2>2. work' = [pc |-> "push", next |-> work.next + 1]
    BY <1>5, <2>1
  <2>3. work.next + 1 \in 1 .. MaxChunks /\ work.next + 1 <= Body.chunks
    BY <1>4, <1>5, <1>6, <1>15, QueueNumbers
  <2>4. work' \in [pc : {"push"}, next : 1 .. MaxChunks] /\ work'.pc = "push"
             /\ work'.next = work.next + 1 /\ work' # Idling
    BY <2>2, <2>3 DEF Idling
  <2>5. QueueTypeOK'
    BY <1>2, <1>3, <1>8, <1>11, <2>4 DEF QueueTypeOK
  <2>6. pushed'[h][work.next] > 0
    BY <1>5, <1>8, <2>1
  <2>7. WorkIsSound'
    <3>1. \A i \in 1 .. MaxChunks : i < work.next + 1 => pushed'[h][i] > 0
      <4>. TAKE i \in 1 .. MaxChunks
      <4>. HAVE i < work.next + 1
      <4>1. i < work.next \/ i = work.next
        BY <1>5
      <4>. QED  BY <1>14, <2>6, <4>1
    <3>. QED  BY <1>4, <1>7, <2>3, <2>4, <3>1 DEF WorkIsSound, h
  <2>8. PushesAreTries'
    <3>1. ASSUME NEW i \in 1 .. MaxChunks PROVE pushed'[InHand.job][i] <= Under(InHand, i)'
      <4>1. Under(InHand, i)' = IF i < work.next + 1 THEN InHand.attempt + 1 ELSE InHand.attempt
        BY <1>7, <2>4 DEF Under
      <4>2. i < work.next + 1 \/ i > work.next
        BY <1>5
      <4>. QED  BY <1>14, <4>1, <4>2 DEF h
    <3>. QED  BY <1>2, <1>3, <1>4, <1>8, <1>11, <1>14, <3>1, PushesStand DEF QueueRest, h
  <2>9. DeliveredMeansEveryChunk'
    <3>1. ASSUME NEW j \in Accepted, jobs[j].kind = "outbound"
          PROVE  /\ outcome'[j] = "delivered" => \A i \in 1 .. jobs[j].chunks : pushed'[j][i] > 0
                 /\ \A i \in 1 .. MaxChunks : pushed'[j][i] <= MaxRetries
      <4>1. /\ outcome[j] = "delivered" => \A i \in 1 .. jobs[j].chunks : pushed[j][i] > 0
            /\ \A i \in 1 .. MaxChunks : pushed[j][i] <= MaxRetries
        BY <3>1 DEF QueueRest, DeliveredMeansEveryChunk
      <4>2. CASE j # h
        BY <1>8, <2>1, <4>1, <4>2 DEF Accepted
      <4>3. CASE j = h
        <5>1. jobs[j] = Body
          BY <4>3 DEF Body, h
        <5>2. \A i \in 1 .. Body.chunks : i \in 1 .. MaxChunks
          BY <1>6, QueueNumbers
        <5>3. ASSUME outcome[j] = "delivered", NEW i \in 1 .. Body.chunks PROVE pushed'[j][i] > 0
          <6>1. i \in 1 .. MaxChunks /\ pushed[h][i] > 0
            BY <4>1, <4>3, <5>1, <5>2, <5>3
          <6>. QED  BY <1>8, <2>6, <4>3, <6>1
        <5>. QED  BY <1>14, <2>1, <4>3, <5>1, <5>3
      <4>. QED  BY <4>2, <4>3
    <3>. QED  BY <1>2, <1>7, <3>1 DEF DeliveredMeansEveryChunk
  <2>. QED  BY <1>9, <1>10, <2>5, <2>7, <2>8, <2>9 DEF QueueRest
<1>16. CASE ~(ok /\ ~(work.next = Body.chunks))
  <2>1. Settle(ok, hope) /\ MarkMessage(IF ok THEN "delivered" ELSE "failed")
    BY <1>1, <1>16
  <2>2. work'.pc = "settle" /\ work' \in [pc : {"settle"}, ok : BOOLEAN, hope : BOOLEAN]
             /\ work' # Idling /\ (work'.ok <=> ok)
    BY <2>1, SettleKinds, Zenon
  <2>3. outcome'[h] = (IF ok THEN "delivered" ELSE "failed") \/ outcome'[h] = outcome[h]
    <3>1. PICK o \in {"delivered", "failed"} :
            o = (IF ok THEN "delivered" ELSE "failed") /\ MarkMessage(o)
      BY <2>1
    <3>. QED  BY <1>3, <1>6, <3>1, Marked DEF h
  <2>4. QueueTypeOK'
    BY <1>2, <1>3, <1>8, <1>11, <2>2 DEF QueueTypeOK
  <2>5. WorkIsSound'
    BY <1>7, <2>2, <2>3 DEF WorkIsSound, h
  <2>6. PushesAreTries'
    <3>1. ASSUME NEW i \in 1 .. MaxChunks PROVE pushed'[InHand.job][i] <= Under(InHand, i)'
      <4>1. Under(InHand, i)' = InHand.attempt + 1
        BY <1>7, <2>2 DEF Under
      <4>. QED  BY <1>14, <4>1 DEF h
    <3>. QED  BY <1>2, <1>3, <1>4, <1>8, <1>11, <1>14, <3>1, PushesStand DEF QueueRest, h
  <2>7. DeliveredMeansEveryChunk'
    <3>1. ASSUME NEW j \in Accepted, jobs[j].kind = "outbound"
          PROVE  /\ outcome'[j] = "delivered" => \A i \in 1 .. jobs[j].chunks : pushed'[j][i] > 0
                 /\ \A i \in 1 .. MaxChunks : pushed'[j][i] <= MaxRetries
      <4>1. CASE j # h
        <5>1. j \in JobIds /\ outcome'[j] = outcome[j] /\ pushed'[j] = pushed[j]
          BY <1>8, <1>11, <4>1 DEF Accepted
        <5>. QED  BY <3>1, <5>1 DEF QueueRest, DeliveredMeansEveryChunk
      <4>2. CASE j = h
        <5>1. jobs[j] = Body
          BY <4>2 DEF Body, h
        <5>2. \A i \in 1 .. Body.chunks : i \in 1 .. MaxChunks /\ (i < work.next
                   \/ i = work.next \/ i > work.next)
          BY <1>5, <1>6, QueueNumbers
        <5>3. ASSUME outcome'[j] = "delivered", NEW i \in 1 .. Body.chunks PROVE pushed'[j][i] > 0
          <6>1. CASE ok /\ got /\ work.next = Body.chunks
            <7>1. i \in 1 .. MaxChunks /\ (i < work.next \/ i = work.next)
              BY <1>5, <1>6, <5>2, <6>1
            <7>2. pushed'[h][work.next] > 0
              BY <1>5, <1>8, <6>1
            <7>. QED  BY <1>14, <4>2, <7>1, <7>2
          <6>2. CASE outcome[h] = "delivered"
            <7>1. i \in 1 .. MaxChunks /\ pushed[h][i] > 0
              BY <3>1, <4>2, <5>1, <5>2, <6>2 DEF QueueRest, DeliveredMeansEveryChunk
            <7>. QED  BY <1>5, <1>8, <4>2, <7>1
          <6>. QED  BY <1>1, <1>16, <2>3, <4>2, <5>3, <6>1, <6>2
        <5>. QED  BY <1>14, <4>2, <5>1, <5>3
      <4>. QED  BY <4>1, <4>2
    <3>. QED  BY <1>2, <1>7, <3>1 DEF DeliveredMeansEveryChunk
  <2>. QED  BY <1>9, <1>10, <2>4, <2>5, <2>6, <2>7 DEF QueueRest
<1>. QED  BY <1>15, <1>16

\* A step of a media job settles no message and pushes nothing.
LEMMA MediaStand ==
  ASSUME QueueRest, batch # <<>>, Body.kind = "media", QueueTypeOK',
         UNCHANGED <<jobs, channel, batch, asleep, dead, finished, stats, pushed, outcome, unwritten, lost>>,
         work = Idling \/ work.pc \in {"fetch", "insert"},
         work'.pc \in {"fetch", "insert"} => linked'[Body.key] = 0,
         work'.pc \in {"fetch", "insert", "settle"},
         OneRowPerMedia'
  PROVE  QueueRest'
<1>1. QueueTypeOK /\ OnePlace
  BY DEF QueueRest
<1>2. OnePlace' /\ StatsAddUp'
  BY BooksStand DEF QueueRest
<1>3. DeliveredMeansEveryChunk'
  BY DEF QueueRest, DeliveredMeansEveryChunk, Accepted
<1>4. Body' = Body /\ batch' # <<>>
  BY DEF Body, InHand
<1>5. WorkIsSound'
  BY <1>4 DEF WorkIsSound
<1>6. PushesAreTries'
  BY <1>1, NothingPushed DEF QueueRest
<1>. QED  BY <1>2, <1>3, <1>5, <1>6 DEF QueueRest

\* A media job is begun, or finds its row there.
LEMMA StartMediaStep == ASSUME QueueRest, StartMedia PROVE QueueRest'
<1>1. /\ batch # <<>> /\ work = Idling /\ Body.kind = "media"
      /\ UNCHANGED <<jobs, channel, batch, asleep, dead, finished, stats, pushed, outcome, unwritten,
           stored, linked, lost>>
  BY DEF StartMedia
<1>2. QueueTypeOK /\ OnePlace /\ Body \in Bodies
  BY <1>1, HandFacts DEF QueueRest
<1>3. Body.key \in MediaKeys
  BY <1>1, <1>2, BodyFacts
<1>4. OneRowPerMedia'
  BY <1>1 DEF QueueRest, OneRowPerMedia
<1>5. CASE Settle(TRUE, TRUE) \/ Settle(FALSE, TRUE)
  <2>2. work'.pc = "settle" /\ work' \in [pc : {"settle"}, ok : BOOLEAN, hope : BOOLEAN]
    BY <1>5, SettleKinds, Zenon
  <2>3. QueueTypeOK'
    BY <1>1, <1>2, <2>2 DEF QueueTypeOK
  <2>. QED  BY <1>1, <1>4, <2>2, <2>3, MediaStand
<1>6. CASE ~(linked[Body.key] > 0) /\ work' = [pc |-> "fetch"]
  <2>1. work' = [pc |-> "fetch"]
    BY <1>6
  <2>2. work'.pc = "fetch" /\ work' \in [pc : {"fetch", "insert"}]
    BY <2>1
  <2>3. QueueTypeOK'
    BY <1>1, <1>2, <2>2 DEF QueueTypeOK
  <2>4. linked'[Body.key] = 0
    BY <1>1, <1>2, <1>3, <1>6 DEF QueueTypeOK
  <2>. QED  BY <1>1, <1>4, <2>2, <2>3, <2>4, MediaStand
<1>. QED  BY <1>5, <1>6 DEF StartMedia

\* What a media job that was begun may rely on.
LEMMA MediaBegun ==
  ASSUME QueueRest, work.pc \in {"fetch", "insert"}
  PROVE  batch # <<>> /\ Body.kind = "media" /\ linked[Body.key] = 0
         /\ Body.key \in MediaKeys /\ QueueTypeOK
<1>1. work # Idling
  BY DEF Idling
<1>2. batch # <<>> /\ Body.kind = "media" /\ linked[Body.key] = 0
  BY <1>1 DEF QueueRest, WorkIsSound
<1>. QED  BY <1>2, HandFacts, BodyFacts DEF QueueRest

\* The media is fetched.
LEMMA FetchMediaStep == ASSUME QueueRest, FetchMedia PROVE QueueRest'
<1>1. work.pc = "fetch" /\ UNCHANGED <<jobs, channel, batch, asleep, dead, finished, stats,
           pushed, outcome, unwritten, linked, lost>>
  BY DEF FetchMedia
<1>2. batch # <<>> /\ Body.kind = "media" /\ linked[Body.key] = 0 /\ Body.key \in MediaKeys
      /\ QueueTypeOK
  BY <1>1, MediaBegun
<1>3. OneRowPerMedia'
  BY <1>1 DEF QueueRest, OneRowPerMedia
<1>4. CASE work' = [pc |-> "insert"] /\ stored' \in SUBSET MediaKeys
  <2>1. work'.pc = "insert" /\ work' \in [pc : {"fetch", "insert"}]
    BY <1>4
  <2>2. QueueTypeOK'
    BY <1>1, <1>2, <1>4, <2>1 DEF QueueTypeOK
  <2>. QED  BY <1>1, <1>2, <1>3, <2>1, <2>2, MediaStand
<1>5. CASE Settle(FALSE, TRUE) /\ stored' = stored
  <2>1. work'.pc = "settle" /\ work' \in [pc : {"settle"}, ok : BOOLEAN, hope : BOOLEAN]
    BY <1>5, SettleKinds, Zenon
  <2>2. QueueTypeOK'
    BY <1>1, <1>2, <1>5, <2>1 DEF QueueTypeOK
  <2>. QED  BY <1>1, <1>2, <1>3, <2>1, <2>2, MediaStand
<1>6. stored \in SUBSET MediaKeys
  BY <1>2 DEF QueueTypeOK
<1>. QED  BY <1>2, <1>4, <1>5, <1>6 DEF FetchMedia

\* The row is inserted, known or not.
LEMMA InsertMediaStep == ASSUME QueueRest, InsertMedia PROVE QueueRest'
<1>1. PICK done \in BOOLEAN, ok \in BOOLEAN :
        linked' = (IF done THEN [linked EXCEPT ![Body.key] = @ + 1]
             ELSE linked) /\ Settle(ok, TRUE)
  BY DEF InsertMedia
<1>2. work.pc = "insert" /\ UNCHANGED <<jobs, channel, batch, asleep, dead, finished, stats,
           pushed, outcome, unwritten, stored, lost>>
  BY DEF InsertMedia
<1>3. batch # <<>> /\ Body.kind = "media" /\ linked[Body.key] = 0 /\ Body.key \in MediaKeys
      /\ QueueTypeOK
  BY <1>2, MediaBegun
<1>4. work'.pc = "settle" /\ work' \in [pc : {"settle"}, ok : BOOLEAN, hope : BOOLEAN]
  BY <1>1, SettleKinds, Zenon
<1>5. linked \in [MediaKeys -> Nat]
  BY <1>3 DEF QueueTypeOK
<1>6. linked' \in [MediaKeys -> Nat] /\ \A k \in MediaKeys : linked'[k] = linked[k]
           \/ linked'[k] = 1
  <2>1. CASE done
    <3>1. linked' = [linked EXCEPT ![Body.key] = 1]
      BY <1>1, <1>3, <1>5, <2>1
    <3>. QED  BY <1>5, <3>1
  <2>2. CASE ~done
    BY <1>1, <1>5, <2>2
  <2>. QED  BY <2>1, <2>2
<1>7. QueueTypeOK'
  BY <1>2, <1>3, <1>4, <1>6 DEF QueueTypeOK
<1>8. OneRowPerMedia'
  BY <1>6 DEF QueueRest, OneRowPerMedia
<1>. QED  BY <1>2, <1>3, <1>4, <1>7, <1>8, MediaStand
\* A job that failed below the ceiling may be tried once more.
LEMMA NextTry ==
  ASSUME NEW t \in Tries, t.attempt + 1 < MaxRetries
  PROVE  LET u == [t EXCEPT !.attempt = @ + 1] IN u \in Tries /\ u.job = t.job
         /\ u.attempt = t.attempt + 1
<1>1. PICK j \in JobIds, n \in 0 .. MaxRetries - 1 : t = [job |-> j, attempt |-> n]
  BY DEF Tries
<1>2. [t EXCEPT !.attempt = @ + 1] = [job |-> j, attempt |-> n + 1]
  BY <1>1
<1>3. n + 1 \in 0 .. MaxRetries - 1
  BY <1>1, QueueNumbers
<1>4. [job |-> j, attempt |-> n + 1] \in Tries
  BY <1>1, <1>3 DEF Tries
<1>. QED  BY <1>1, <1>2, <1>4

\* The job in hand is settled: done, asleep until a retry, or a dead letter.
LEMMA FinishJobStep == ASSUME QueueRest, FinishJob PROVE QueueRest'
<1>1. /\ work.pc = "settle" /\ batch' = Tail(batch) /\ work' = Idling
      /\ UNCHANGED <<jobs, channel, pushed, outcome, unwritten, stored, linked, lost>>
  BY DEF FinishJob
<1>2. QueueTypeOK /\ OnePlace /\ work # Idling
  BY <1>1 DEF QueueRest, Idling
<1>3. batch # <<>>
  BY <1>2 DEF QueueRest, WorkIsSound
<1>4. /\ InHand \in Tries /\ InHand \in ToSet(batch) /\ InHand.job \in JobIds
      /\ InHand.job \in Accepted /\ Body \in Bodies
      /\ InHand.job \notin Waiting \cup Resting \cup Buried \cup DoneWith
      /\ InHand.job \notin JobsOf(ToSet(Tail(batch)))
      /\ Tail(batch) \in Seq(Tries) /\ OnceEach(Tail(batch))
      /\ Taken = {InHand.job} \cup JobsOf(ToSet(Tail(batch)))
  BY <1>2, <1>3, HandFacts
<1>5. work.ok \in BOOLEAN /\ work.hope \in BOOLEAN
  BY <1>1, <1>2, WorkShapes DEF Idling
<1>6. PICK retry : retry = [InHand EXCEPT !.attempt = @ + 1]
  OBVIOUS
<1>7. InHand.attempt + 1 < MaxRetries => retry \in Tries /\ retry.job = InHand.job
           /\ retry.attempt = InHand.attempt + 1
  BY <1>4, <1>6, NextTry
<1>8. PICK h : h = InHand
  OBVIOUS
<1>9. Taken' = Taken \ {h.job} /\ Accepted' = Accepted /\ Waiting' = Waiting
      /\ OnceEach(batch') /\ OnceEach(channel')
  BY <1>1, <1>2, <1>4, <1>8 DEF Taken, Accepted, Waiting, OnePlace
<1>10. OneRowPerMedia' /\ DeliveredMeansEveryChunk'
  BY <1>1 DEF QueueRest, OneRowPerMedia, DeliveredMeansEveryChunk, Accepted
<1>11. WorkIsSound'
  BY <1>1 DEF WorkIsSound, Idling
<1>12. ASSUME asleep' = asleep \/ (asleep' = asleep \cup {retry}
              /\ InHand.attempt + 1 < MaxRetries)
       PROVE  PushesAreTries'
  <2>1. ASSUME NEW t \in ToSet(channel) \cup ToSet(Tail(batch)) \cup asleep',
               NEW i \in 1 .. MaxChunks
        PROVE  pushed[t.job][i] <= t.attempt
    <3>1. CASE t \in ToSet(channel) \cup ToSet(Tail(batch)) \cup asleep
      <4>1. t # InHand /\ t \in ToSet(channel) \cup ToSet(batch) \cup asleep
        BY <1>2, <1>3, <3>1, OtherTries, FirstTry DEF QueueTypeOK
      <4>2. pushed[t.job][i] <= Under(t, i) /\ Under(t, i) = t.attempt
        BY <4>1 DEF QueueRest, PushesAreTries, Under
      <4>. QED  BY <4>2
    <3>2. CASE t = retry /\ InHand.attempt + 1 < MaxRetries
      <4>1. pushed[InHand.job][i] <= InHand.attempt + 1
        BY <1>2, <1>3, HandUnder DEF QueueRest
      <4>. QED  BY <1>7, <3>2, <4>1
    <3>. QED  BY <1>12, <3>1, <3>2
  <2>2. work'.pc # "settle" /\ work'.pc # "push"
    BY <1>1 DEF Idling
  <2>. QED  BY <1>1, <1>9, <2>1, <2>2 DEF QueueRest, PushesAreTries, Under
<1>13. stats \in [processed : Nat, successes : Nat, errors : Nat, retries : Nat]
  BY <1>2 DEF QueueTypeOK
<1>14. CASE work.ok
  <2>1. stats' = Recorded(work.ok, ~work.ok /\ TriesAgain(InHand, work.hope))
        /\ finished' = finished \cup {InHand.job}
        /\ asleep' = asleep /\ dead' = dead
    BY <1>14, Zenon DEF FinishJob
  <2>2. stats' = [processed |-> stats.processed + 1, successes |-> stats.successes + 1,
             errors |-> stats.errors, retries |-> stats.retries]
    BY <1>13, <1>14, <2>1 DEF Recorded
  <2>3. stats' \in [processed : Nat, successes : Nat, errors : Nat, retries : Nat]
    BY <1>13, <2>2
  <2>4. QueueTypeOK'
    BY <1>1, <1>2, <1>4, <2>1, <2>3 DEF QueueTypeOK
  <2>5. OnePlace'
    <3>1. Resting' = Resting /\ Buried' = Buried /\ DoneWith' = DoneWith \cup {h.job}
      BY <1>1, <1>8, <2>1 DEF Resting, Buried, DoneWith
    <3>. QED  BY <1>2, <1>4, <1>8, <1>9, <2>1, <3>1 DEF OnePlace, Apart
  <2>6. StatsAddUp'
    BY <1>13, <2>1, <2>2 DEF QueueRest, StatsAddUp
  <2>. QED  BY <1>10, <1>11, <1>12, <2>1, <2>4, <2>5, <2>6 DEF QueueRest
<1>15. CASE ~work.ok /\ TriesAgain(InHand, work.hope)
  <2>1. stats' = Recorded(work.ok, ~work.ok /\ TriesAgain(InHand, work.hope))
        /\ finished' = finished
        /\ asleep' = asleep \cup {retry} /\ dead' = dead
    BY <1>6, <1>15, Zenon DEF FinishJob
  <2>2. stats' = [processed |-> stats.processed + 1, successes |-> stats.successes,
             errors |-> stats.errors + 1, retries |-> stats.retries + 1]
    BY <1>13, <1>15, <2>1 DEF Recorded
  <2>3. stats' \in [processed : Nat, successes : Nat, errors : Nat, retries : Nat]
    BY <1>13, <2>2
  <2>4. InHand.attempt + 1 < MaxRetries
    BY <1>15 DEF TriesAgain
  <2>5. QueueTypeOK'
    BY <1>1, <1>2, <1>4, <1>7, <2>1, <2>3, <2>4 DEF QueueTypeOK
  <2>6. OnePlace'
    <3>1. Resting' = Resting \cup {h.job}
      BY <1>7, <1>8, <2>1, <2>4 DEF Resting, JobsOf
    <3>2. Buried' = Buried /\ DoneWith' = DoneWith
      BY <1>1, <2>1 DEF Buried, DoneWith
    <3>3. SleepOnce(asleep')
      BY <1>2, <1>4, <1>7, <2>1, <2>4, RestingTries DEF OnePlace, Resting
    <3>. QED  BY <1>2, <1>4, <1>8, <1>9, <2>1, <3>1, <3>2, <3>3 DEF OnePlace, Apart
  <2>7. StatsAddUp'
    <3>1. /\ stats.processed = stats.successes + stats.errors
          /\ stats.errors = stats.retries + Len(dead)
      BY DEF QueueRest, StatsAddUp
    <3>2. Len(dead) \in Nat
      BY <1>2 DEF QueueTypeOK
    <3>. QED  BY <1>13, <2>1, <2>2, <3>1, <3>2 DEF StatsAddUp
  <2>. QED  BY <1>10, <1>11, <1>12, <2>1, <2>4, <2>5, <2>6, <2>7 DEF QueueRest
<1>16. CASE ~work.ok /\ ~TriesAgain(InHand, work.hope)
  <2>1. stats' = Recorded(work.ok, ~work.ok /\ TriesAgain(InHand, work.hope))
        /\ finished' = finished
        /\ asleep' = asleep /\ dead' = Append(dead, h)
    BY <1>8, <1>16, Zenon DEF FinishJob
  <2>2. stats' = [processed |-> stats.processed + 1, successes |-> stats.successes,
             errors |-> stats.errors + 1, retries |-> stats.retries]
    BY <1>13, <1>16, <2>1 DEF Recorded
  <2>3. stats' \in [processed : Nat, successes : Nat, errors : Nat, retries : Nat]
    BY <1>13, <2>2
  <2>4. dead \in Seq(Tries) /\ Len(dead) \in Nat /\ h \in Tries
    BY <1>2, <1>4, <1>8 DEF QueueTypeOK
  <2>5. /\ dead' \in Seq(Tries) /\ ToSet(dead') = ToSet(dead) \cup {h}
        /\ Len(dead') = Len(dead) + 1
        /\ OnceEach(dead) /\ h.job \notin JobsOf(ToSet(dead)) => OnceEach(dead')
    BY <2>1, <2>4, AppendedTry
  <2>6. QueueTypeOK'
    BY <1>1, <1>2, <1>4, <2>1, <2>3, <2>5 DEF QueueTypeOK
  <2>7. OnePlace'
    <3>1. Buried' = Buried \cup {h.job}
      BY <2>5 DEF Buried, JobsOf
    <3>2. Resting' = Resting /\ DoneWith' = DoneWith
      BY <1>1, <2>1 DEF Resting, DoneWith
    <3>3. OnceEach(dead')
      BY <1>2, <1>4, <1>8, <2>5 DEF OnePlace, Buried
    <3>. QED  BY <1>2, <1>4, <1>8, <1>9, <2>1, <3>1, <3>2, <3>3 DEF OnePlace, Apart
  <2>8. StatsAddUp'
    BY <1>2, <1>13, <2>1, <2>2, <2>4, <2>5, SMTT(30) DEF QueueRest, StatsAddUp, QueueTypeOK
  <2>. QED  BY <1>10, <1>11, <1>12, <2>1, <2>6, <2>7, <2>8 DEF QueueRest
<1>. QED  BY <1>14, <1>15, <1>16

\* A retry wakes: it waits again, or is lost with a closed channel.
LEMMA WakeStep == ASSUME QueueRest, NEW t \in asleep, Wake(t) PROVE QueueRest'
<1>1. /\ asleep' = asleep \ {t} /\ channel' = Append(channel, t)
      /\ UNCHANGED <<jobs, batch, work, dead, finished, stats, pushed, outcome, unwritten, stored, linked,
           lost>>
  BY DEF Wake
<1>2. QueueTypeOK /\ OnePlace /\ channel \in Seq(Tries) /\ t \in Tries
  BY DEF QueueRest, QueueTypeOK
<1>3. /\ channel' \in Seq(Tries) /\ ToSet(channel') = ToSet(channel) \cup {t}
      /\ OnceEach(channel) /\ t.job \notin JobsOf(ToSet(channel)) => OnceEach(channel')
  BY <1>1, <1>2, AppendedTry
<1>4. SleepOnce(asleep') /\ Resting = Resting' \cup {t.job} /\ t.job \notin Resting'
  BY <1>1, <1>2, WokenTries DEF OnePlace, Resting
<1>5. QueueTypeOK'
  BY <1>1, <1>2, <1>3 DEF QueueTypeOK
<1>6. OnePlace'
  <2>1. Waiting' = Waiting \cup {t.job}
    BY <1>3 DEF Waiting, JobsOf
  <2>2. Taken' = Taken /\ Buried' = Buried /\ DoneWith' = DoneWith /\ Accepted' = Accepted
    BY <1>1 DEF Taken, Buried, DoneWith, Accepted
  <2>3. OnceEach(channel') /\ OnceEach(batch') /\ OnceEach(dead')
    BY <1>1, <1>2, <1>3, <1>4 DEF OnePlace, Apart, Waiting
  <2>. QED  BY <1>2, <1>4, <2>1, <2>2, <2>3 DEF OnePlace, Apart
<1>7. StatsAddUp' /\ OneRowPerMedia' /\ DeliveredMeansEveryChunk'
  BY <1>1 DEF QueueRest, StatsAddUp, OneRowPerMedia,
     DeliveredMeansEveryChunk, Accepted
<1>8. WorkIsSound'
  BY <1>1 DEF QueueRest, WorkIsSound, InHand, Body
<1>9. PushesAreTries'
  <2>1. \A u \in ToSet(channel') \cup ToSet(batch') \cup asleep' :
           u \in ToSet(channel) \cup ToSet(batch) \cup asleep
    BY <1>1, <1>3
  <2>. QED  BY <1>1, <2>1 DEF QueueRest, PushesAreTries, Under, InHand, Accepted
<1>. QED  BY <1>5, <1>6, <1>7, <1>8, <1>9 DEF QueueRest

\* A restart loses what waited, was taken or slept.
LEMMA QueueRestartStep == ASSUME QueueRest, QueueRestart PROVE QueueRest'
<1>1. /\ lost' = lost \cup InFlight /\ channel' = <<>> /\ batch' = <<>> /\ dead' = <<>>
      /\ work' = Idling /\ asleep' = {} /\ stats' = NoStats
      /\ UNCHANGED <<jobs, finished, pushed, outcome, unwritten, stored, linked>>
  BY DEF QueueRestart
<1>2. QueueTypeOK /\ OnePlace
  BY DEF QueueRest
<1>3. InFlight = Waiting \cup Taken \cup Resting \cup Buried
  BY DEF InFlight, Waiting, Taken, Resting, Buried, JobsOf, ToSet
<1>4. QueueTypeOK'
  <2>1. lost' \in SUBSET JobIds
    BY <1>1, <1>2, <1>3 DEF OnePlace, Accepted, QueueTypeOK
  <2>2. NoStats \in [processed : Nat, successes : Nat, errors : Nat, retries : Nat]
    BY DEF NoStats
  <2>. QED  BY <1>1, <1>2, <2>1, <2>2, NoTries DEF QueueTypeOK
<1>5. OnePlace'
  <2>1. Waiting' = {} /\ Taken' = {} /\ Buried' = {} /\ Resting' = {}
    BY <1>1, NoTries, JobsOfSets DEF Waiting, Taken, Buried, Resting
  <2>2. Accepted' = Accepted /\ DoneWith' = finished \cup lost \cup InFlight
    BY <1>1 DEF Accepted, DoneWith
  <2>3. OnceEach(channel') /\ OnceEach(batch') /\ OnceEach(dead') /\ SleepOnce(asleep')
    BY <1>1, NoTries DEF SleepOnce
  <2>. QED  BY <1>2, <1>3, <2>1, <2>2, <2>3 DEF OnePlace, Apart, DoneWith
<1>6. StatsAddUp'
  BY <1>1 DEF StatsAddUp, NoStats
<1>7. OneRowPerMedia' /\ DeliveredMeansEveryChunk'
  BY <1>1 DEF QueueRest, OneRowPerMedia, DeliveredMeansEveryChunk, Accepted
<1>8. WorkIsSound'
  BY <1>1 DEF WorkIsSound, Idling
<1>9. PushesAreTries'
  <2>1. ToSet(channel') = {} /\ ToSet(batch') = {} /\ asleep' = {}
    BY <1>1, NoTries
  <2>. QED  BY <1>1, <2>1 DEF QueueRest, PushesAreTries, Accepted
<1>. QED  BY <1>4, <1>5, <1>6, <1>7, <1>8, <1>9 DEF QueueRest

\* No job has been accepted.
LEMMA QueueInitially == QueueInit => QueueRest
<1>. HAVE QueueInit
<1>1. /\ jobs = [j \in JobIds |-> NoJob] /\ channel = <<>> /\ batch = <<>> /\ dead = <<>>
      /\ work = Idling /\ asleep = {}
      /\ finished = {} /\ stats = NoStats
      /\ pushed = [j \in JobIds |-> [i \in 1 .. MaxChunks |-> 0]]
      /\ outcome = [j \in JobIds |-> "pending"]
      /\ unwritten = [j \in JobIds |-> 0] /\ stored = {}
      /\ linked = [k \in MediaKeys |-> 0] /\ lost = {}
  BY DEF QueueInit
<1>2. Accepted = {}
  BY <1>1 DEF Accepted
<1>3. QueueTypeOK
  <2>1. NoStats \in [processed : Nat, successes : Nat, errors : Nat, retries : Nat]
    BY DEF NoStats
  <2>2. pushed \in [JobIds -> [1 .. MaxChunks -> Nat]] /\ linked \in [MediaKeys -> Nat]
    BY <1>1
  <2>. QED  BY <1>1, <2>1, <2>2, NoTries DEF QueueTypeOK
<1>4. OnePlace
  <2>1. Waiting = {} /\ Taken = {} /\ Buried = {} /\ Resting = {} /\ DoneWith = {}
    BY <1>1, NoTries, JobsOfSets DEF Waiting, Taken, Buried, Resting, DoneWith
  <2>2. OnceEach(channel) /\ OnceEach(batch) /\ OnceEach(dead) /\ SleepOnce(asleep)
    BY <1>1, NoTries DEF SleepOnce
  <2>. QED  BY <1>2, <2>1, <2>2 DEF OnePlace, Apart
<1>5. StatsAddUp /\ OneRowPerMedia
  BY <1>1 DEF StatsAddUp, NoStats, OneRowPerMedia
<1>6. DeliveredMeansEveryChunk
  BY <1>2 DEF DeliveredMeansEveryChunk
<1>7. WorkIsSound
  BY <1>1 DEF WorkIsSound, Idling
<1>8. PushesAreTries
  <2>1. ToSet(channel) = {} /\ ToSet(batch) = {} /\ asleep = {}
    BY <1>1, NoTries
  <2>. QED  BY <1>1, <2>1, QueueNumbers DEF PushesAreTries
<1>. QED  BY <1>3, <1>4, <1>5, <1>6, <1>7, <1>8 DEF QueueRest

\* Nothing happens.
LEMMA QueueStands == QueueRest /\ UNCHANGED queueVars => QueueRest'
<1>. HAVE QueueRest /\ UNCHANGED queueVars
<1>1. UNCHANGED <<jobs, channel, batch, work, asleep, dead, finished, stats, pushed, outcome, unwritten,
           stored, linked, lost>>
  BY DEF queueVars
<1>2. QueueTypeOK' /\ StatsAddUp' /\ OneRowPerMedia'
      /\ DeliveredMeansEveryChunk'
  BY <1>1 DEF QueueRest, QueueTypeOK, StatsAddUp, OneRowPerMedia,
     DeliveredMeansEveryChunk, Accepted
<1>3. OnePlace'
  BY <1>1, BooksStand DEF QueueRest
<1>4. WorkIsSound' /\ PushesAreTries'
  BY <1>1 DEF QueueRest, WorkIsSound, PushesAreTries, Under, InHand, Body, Accepted
<1>. QED  BY <1>2, <1>3, <1>4 DEF QueueRest

\* Every step of the queue keeps the invariant.
LEMMA QueueStep == QueueRest /\ [QueueNext]_queueVars => QueueRest'
<1>. HAVE QueueRest /\ [QueueNext]_queueVars
<1>1. ASSUME NEW j \in JobIds, Enqueue(j) PROVE QueueRest'  BY <1>1, EnqueueStep
<1>2. CASE TakeBatch  BY <1>2, TakeBatchStep
<1>3. CASE StartOutbound  BY <1>3, StartOutboundStep
<1>4. CASE PushChunk  BY <1>4, PushChunkStep
<1>5. CASE StartMedia  BY <1>5, StartMediaStep
<1>6. CASE FetchMedia  BY <1>6, FetchMediaStep
<1>7. CASE InsertMedia  BY <1>7, InsertMediaStep
<1>8. CASE FinishJob  BY <1>8, FinishJobStep
<1>9. ASSUME NEW t \in asleep, Wake(t) PROVE QueueRest'  BY <1>9, WakeStep
<1>10. CASE QueueRestart  BY <1>10, QueueRestartStep
<1>11. CASE UNCHANGED queueVars  BY <1>11, QueueStands
<1>. QED  BY <1>1, <1>2, <1>3, <1>4, <1>5, <1>6, <1>7, <1>8, <1>9, <1>10, <1>11
          DEF QueueNext, Consumer

-----------------------------------------------------------------------------
(* What came of the jobs, on the record.                                    *)

\* A try that is done with is of a job that is not in hand.
LEMMA SettledElsewhere ==
  ASSUME QueueTypeOK, OnePlace, batch # <<>>
  PROVE  /\ \A i \in DOMAIN dead : dead[i].job \in JobIds /\ dead[i].job # InHand.job
         /\ \A j \in finished : j \in JobIds /\ j # InHand.job
<1>1. \A i \in DOMAIN dead : dead[i].job \in Buried
  BY DEF Buried, JobsOf, ToSet
<1>2. InHand.job \notin Buried \cup DoneWith
  BY HandFacts
<1>3. Buried \subseteq JobIds /\ finished \subseteq JobIds
  BY DEF OnePlace, Accepted, QueueTypeOK
<1>. QED  BY <1>1, <1>2, <1>3 DEF DoneWith

\* The record stands through a step of the job in hand: its row is left alone until it is
\* settled, and then has the outcome or one more loss.
LEMMA HandOnRecord ==
  ASSUME QueueRest, OnRecord, batch # <<>>, work.pc # "settle", NEW h, h = InHand.job,
         UNCHANGED <<jobs, channel, batch, asleep, dead, finished>>,
         \A j \in JobIds : j # h => outcome'[j] = outcome[j] /\ unwritten'[j] = unwritten[j],
         \/ Body.kind = "media"
         \/ work'.pc # "settle" /\ outcome'[h] = outcome[h] /\ unwritten'[h] = unwritten[h]
         \/ /\ work'.pc = "settle" /\ work'.ok \in BOOLEAN
            /\ \/ outcome'[h] = (IF work'.ok THEN "delivered" ELSE "failed")
               \/ outcome'[h] = outcome[h] /\ unwritten'[h] = unwritten[h] + 1
  PROVE  OnRecord'
<1>1. /\ InHand \in Tries /\ InHand \in ToSet(batch) /\ h \in JobIds
      /\ QueueTypeOK /\ OnePlace /\ InHand.attempt \in Nat
  BY HandFacts, TryFacts DEF QueueRest
<1>2. InHand' = InHand /\ Body' = Body
  BY DEF InHand, Body
<1>3. unwritten[h] \in Nat
  <2>1. unwritten \in [JobIds -> Nat]
    BY <1>1, Zenon DEF QueueTypeOK
  <2>. QED  BY <1>1, <2>1
<1>4. OutcomeOnRecord'
  BY <1>1, SettledElsewhere DEF OnRecord, OutcomeOnRecord, Failed, Succeeded
<1>5. Body.kind = "outbound" => Failed(h, InHand.attempt)
  BY <1>1 DEF OnRecord, WorkOnRecord, Body
<1>6. ASSUME NEW t \in ToSet(channel) \cup ToSet(batch) \cup asleep, jobs[t.job].kind = "outbound"
      PROVE  (t = InHand /\ work'.pc = "settle") \/ Failed(t.job, t.attempt)'
  <2>1. CASE t = InHand
    BY <1>5, <1>6, <2>1 DEF Body, Failed
  <2>2. CASE t # InHand
    <3>1. t \in ToSet(channel) \cup ToSet(Tail(batch)) \cup asleep
      BY <1>1, <2>2, FirstTry DEF QueueTypeOK, InHand
    <3>2. t.job # h /\ t.job \in JobIds
      BY <1>1, <3>1, OtherTries, TriesAreAccepted
    <3>. QED  BY <1>6, <2>2, <3>2 DEF OnRecord, WorkOnRecord, Failed
  <2>. QED  BY <2>1, <2>2
<1>7. ASSUME work'.pc = "settle", Body.kind = "outbound"
      PROVE  IF work'.ok THEN Succeeded(h)' ELSE Failed(h, InHand.attempt + 1)'
  <2>1. CASE outcome'[h] = (IF work'.ok THEN "delivered" ELSE "failed")
    BY <2>1 DEF Succeeded, Failed
  <2>2. CASE outcome'[h] = outcome[h] /\ unwritten'[h] = unwritten[h] + 1
    <3>1. unwritten'[h] > 0
      BY <1>3, <2>2
    <3>2. outcome'[h] = "failed" \/ unwritten'[h] = InHand.attempt + 1
      BY <1>5, <1>7, <2>2 DEF Failed
    <3>. QED  BY <1>2, <3>1, <3>2 DEF Succeeded, Failed
  <2>. QED  BY <1>7, <2>1, <2>2
<1>8. WorkOnRecord'
  BY <1>2, <1>6, <1>7 DEF WorkOnRecord
<1>. QED  BY <1>4, <1>8 DEF OnRecord

\* A job that is accepted has nothing behind it.
LEMMA EnqueueOnRecord ==
  ASSUME QueueRest, OnRecord, NEW j \in JobIds, Enqueue(j) PROVE OnRecord'
<1>1. PICK body \in Bodies : jobs' = [jobs EXCEPT ![j] = body]
  BY DEF Enqueue
<1>2. PICK t : t = [job |-> j, attempt |-> 0]
  OBVIOUS
<1>3. t \in Tries /\ t.job = j /\ t.attempt = 0
  BY <1>2, QueueNumbers DEF Tries
<1>4. /\ jobs[j] = NoJob /\ channel' = Append(channel, t)
      /\ UNCHANGED <<batch, work, asleep, dead, finished, outcome, unwritten>>
  BY <1>2 DEF Enqueue
<1>5. QueueTypeOK /\ OnePlace /\ channel \in Seq(Tries)
      /\ jobs \in [JobIds -> Bodies \cup {NoJob}]
  BY DEF QueueRest, QueueTypeOK
<1>6. ToSet(channel') = ToSet(channel) \cup {t}
  BY <1>3, <1>4, <1>5, AppendedTry
<1>7. \A k \in JobIds : k # j => jobs'[k] = jobs[k]
  BY <1>1, <1>5
<1>8. j \notin Accepted /\ unwritten[j] = 0
  BY <1>4 DEF Accepted, QueueRest, PushesAreTries
<1>9. \A u \in ToSet(channel) \cup ToSet(batch) \cup asleep \cup ToSet(dead) :
         u.job \in JobIds /\ u.job # j
  BY <1>5, <1>8, TriesAreAccepted
<1>10. \A i \in DOMAIN dead : dead[i] \in ToSet(dead)
  BY DEF ToSet
<1>11. \A k \in finished : k \in JobIds /\ k # j
  BY <1>5, <1>8 DEF OnePlace, DoneWith, Accepted
<1>12. OutcomeOnRecord'
  BY <1>4, <1>7, <1>9, <1>10, <1>11 DEF OnRecord, OutcomeOnRecord, Failed, Succeeded
<1>13. batch # <<>> => InHand' = InHand /\ Body' = Body
  <2>1. batch # <<>> => InHand \in ToSet(batch)
    BY <1>5, HandFacts
  <2>. QED  BY <1>4, <1>7, <1>9, <2>1 DEF InHand, Body
<1>14. work.pc = "settle" => batch # <<>>
  BY DEF QueueRest, WorkIsSound, Idling
<1>15. ASSUME NEW u \in ToSet(channel') \cup ToSet(batch') \cup asleep',
              jobs'[u.job].kind = "outbound"
       PROVE  (batch' # <<>> /\ u = InHand' /\ work'.pc = "settle") \/ Failed(u.job, u.attempt)'
  <2>1. CASE u = t
    BY <1>3, <1>4, <1>8, <2>1 DEF Failed
  <2>2. CASE u # t
    <3>1. u \in ToSet(channel) \cup ToSet(batch) \cup asleep
      BY <1>4, <1>6, <2>2
    <3>2. jobs[u.job].kind = "outbound"
      BY <1>7, <1>9, <1>15, <3>1
    <3>. QED  BY <1>4, <1>13, <3>1, <3>2 DEF OnRecord, WorkOnRecord, Failed
  <2>. QED  BY <2>1, <2>2
<1>16. WorkOnRecord'
  BY <1>4, <1>13, <1>14, <1>15 DEF OnRecord, WorkOnRecord, Failed, Succeeded
<1>. QED  BY <1>12, <1>16 DEF OnRecord

\* A batch that is taken has behind it what it had.
LEMMA TakeBatchOnRecord == ASSUME QueueRest, OnRecord, TakeBatch PROVE OnRecord'
<1>1. PICK n \in 1 .. (IF Len(channel) < MaxBatchSize THEN Len(channel) ELSE MaxBatchSize) :
        batch' = SubSeq(channel, 1, n) /\ channel' = SubSeq(channel, n + 1, Len(channel))
  BY DEF TakeBatch
<1>2. batch = <<>> /\ UNCHANGED <<jobs, work, asleep, dead, finished, outcome, unwritten>>
  BY DEF TakeBatch
<1>3. channel \in Seq(Tries) /\ Len(channel) \in Nat
  BY DEF QueueRest, QueueTypeOK
<1>4. n \in 1 .. Len(channel)
  BY <1>1, <1>3, QueueNumbers
<1>5. ToSet(channel) = ToSet(batch') \cup ToSet(channel')
  BY <1>1, <1>3, <1>4, SplitTries
<1>6. work = Idling /\ work' = Idling
  BY <1>2 DEF QueueRest, WorkIsSound
<1>7. OutcomeOnRecord'
  BY <1>2 DEF OnRecord, OutcomeOnRecord, Failed, Succeeded
<1>8. WorkOnRecord'
  BY <1>2, <1>5, <1>6 DEF OnRecord, WorkOnRecord, Failed, Idling
<1>. QED  BY <1>7, <1>8 DEF OnRecord

\* An outbound job that is begun has its row as it was, or fails.
LEMMA StartOutboundOnRecord == ASSUME QueueRest, OnRecord, StartOutbound PROVE OnRecord'
<1>1. /\ batch # <<>> /\ work = Idling
      /\ UNCHANGED <<jobs, channel, batch, asleep, dead, finished>>
  BY DEF StartOutbound
<1>2. PICK h : h = InHand.job
  OBVIOUS
<1>3. QueueTypeOK /\ h \in JobIds
  BY <1>1, <1>2, HandFacts DEF QueueRest
<1>4. work.pc # "settle"
  BY <1>1 DEF Idling
<1>5. CASE Settle(FALSE, FALSE) /\ MarkMessage("failed")
  <2>1. work'.pc = "settle" /\ work'.ok = FALSE
    BY <1>5 DEF Settle
  <2>2. /\ \A j \in JobIds : j # h => outcome'[j] = outcome[j] /\ unwritten'[j] = unwritten[j]
        /\ \/ outcome'[h] = "failed"
           \/ outcome'[h] = outcome[h] /\ unwritten'[h] = unwritten[h] + 1
    BY <1>2, <1>3, <1>5, Marked
  <2>. QED  BY <1>1, <1>2, <1>4, <2>1, <2>2, HandOnRecord
<1>6. CASE work' = [pc |-> "push", next |-> 1] /\ UNCHANGED <<outcome, unwritten>>
  <2>1. work'.pc # "settle"
    BY <1>6
  <2>. QED  BY <1>1, <1>2, <1>4, <1>6, <2>1, HandOnRecord
<1>. QED  BY <1>5, <1>6 DEF StartOutbound

\* A chunk that is pushed leaves the row alone unless it settles the job.
LEMMA PushChunkOnRecord == ASSUME QueueRest, OnRecord, PushChunk PROVE OnRecord'
<1>1. PICK ok \in BOOLEAN, hope \in BOOLEAN :
        IF ok /\ ~(work.next = Body.chunks)
        THEN work' = [work EXCEPT !.next = @ + 1] /\ UNCHANGED <<outcome, unwritten>>
        ELSE Settle(ok, hope) /\ MarkMessage(IF ok THEN "delivered" ELSE "failed")
  BY Zenon DEF PushChunk
<1>2. work.pc = "push" /\ UNCHANGED <<jobs, channel, batch, asleep, dead, finished>>
  BY DEF PushChunk
<1>3. QueueTypeOK /\ OnePlace /\ batch # <<>>
  BY <1>2 DEF QueueRest, WorkIsSound, Idling
<1>4. PICK h : h = InHand.job
  OBVIOUS
<1>5. h \in JobIds
  BY <1>3, <1>4, HandFacts
<1>6. CASE work' = [work EXCEPT !.next = @ + 1] /\ UNCHANGED <<outcome, unwritten>>
  <2>1. work = [pc |-> "push", next |-> work.next]
    BY <1>2, <1>3, WorkShapes DEF Idling
  <2>2. work'.pc # "settle"
    BY <1>6, <2>1
  <2>. QED  BY <1>2, <1>3, <1>4, <1>6, <2>2, HandOnRecord
<1>7. CASE Settle(ok, hope) /\ MarkMessage(IF ok THEN "delivered" ELSE "failed")
  <2>1. work'.pc = "settle" /\ work'.ok = ok
    BY <1>7 DEF Settle
  <2>2. PICK o \in {"delivered", "failed"} :
          o = (IF ok THEN "delivered" ELSE "failed") /\ MarkMessage(o)
    BY <1>7
  <2>3. /\ \A j \in JobIds : j # h => outcome'[j] = outcome[j] /\ unwritten'[j] = unwritten[j]
        /\ outcome'[h] = o \/ (outcome'[h] = outcome[h] /\ unwritten'[h] = unwritten[h] + 1)
    BY <1>3, <1>4, <1>5, <2>2, Marked
  <2>. QED  BY <1>2, <1>3, <1>4, <2>1, <2>2, <2>3, HandOnRecord
<1>. QED  BY <1>1, <1>6, <1>7

\* A step of a media job settles no message.
LEMMA MediaOnRecord ==
  ASSUME QueueRest, OnRecord, StartMedia \/ FetchMedia \/ InsertMedia PROVE OnRecord'
<1>1. /\ batch # <<>> /\ Body.kind = "media" /\ work.pc # "settle"
      /\ UNCHANGED <<jobs, channel, batch, asleep, dead, finished, outcome, unwritten>>
  <2>1. CASE StartMedia
    BY <2>1 DEF StartMedia, Idling
  <2>2. CASE FetchMedia
    BY <2>2, MediaBegun DEF FetchMedia
  <2>3. CASE InsertMedia
    BY <2>3, MediaBegun DEF InsertMedia
  <2>. QED  BY <2>1, <2>2, <2>3
<1>. QED  BY <1>1, HandOnRecord

\* The job in hand leaves it as it was settled.
LEMMA FinishJobOnRecord == ASSUME QueueRest, OnRecord, FinishJob PROVE OnRecord'
<1>1. /\ work.pc = "settle" /\ batch' = Tail(batch) /\ work' = Idling
      /\ UNCHANGED <<jobs, channel, outcome, unwritten>>
  BY DEF FinishJob
<1>2. QueueTypeOK /\ OnePlace /\ batch # <<>>
  BY <1>1 DEF QueueRest, WorkIsSound, Idling
<1>3. InHand \in Tries /\ InHand.attempt \in Nat /\ work.ok \in BOOLEAN
  BY <1>1, <1>2, HandFacts, TryFacts, WorkShapes DEF Idling
<1>4. PICK retry : retry = [InHand EXCEPT !.attempt = @ + 1]
  OBVIOUS
<1>5. InHand.attempt + 1 < MaxRetries => retry.job = InHand.job
           /\ retry.attempt = InHand.attempt + 1
  BY <1>3, <1>4, NextTry
<1>6. jobs[InHand.job].kind = "outbound" =>
        IF work.ok THEN Succeeded(InHand.job) ELSE Failed(InHand.job, InHand.attempt + 1)
  BY <1>1 DEF OnRecord, WorkOnRecord, Body
<1>7. ASSUME NEW t \in ToSet(channel) \cup ToSet(Tail(batch)) \cup asleep,
             jobs[t.job].kind = "outbound"
      PROVE  Failed(t.job, t.attempt)
  <2>1. t # InHand /\ t \in ToSet(channel) \cup ToSet(batch) \cup asleep
    BY <1>2, OtherTries, FirstTry DEF QueueTypeOK
  <2>. QED  BY <1>7, <2>1 DEF OnRecord, WorkOnRecord
<1>8. ASSUME asleep' = asleep
             \/ (asleep' = asleep \cup {retry} /\ InHand.attempt + 1 < MaxRetries /\ ~work.ok)
      PROVE  WorkOnRecord'
  <2>1. ASSUME NEW t \in ToSet(channel) \cup ToSet(Tail(batch)) \cup asleep',
               jobs[t.job].kind = "outbound"
        PROVE  Failed(t.job, t.attempt)
    BY <1>5, <1>6, <1>7, <1>8, <2>1
  <2>. QED  BY <1>1, <2>1 DEF WorkOnRecord, Failed, Idling
<1>9. CASE work.ok
  <2>1. finished' = finished \cup {InHand.job} /\ asleep' = asleep /\ dead' = dead
    BY <1>9, Zenon DEF FinishJob
  <2>2. OutcomeOnRecord'
    BY <1>1, <1>6, <1>9, <2>1 DEF OnRecord, OutcomeOnRecord, Failed, Succeeded
  <2>. QED  BY <1>8, <2>1, <2>2 DEF OnRecord
<1>10. CASE ~work.ok /\ TriesAgain(InHand, work.hope)
  <2>1. finished' = finished /\ asleep' = asleep \cup {retry} /\ dead' = dead
    BY <1>4, <1>10, Zenon DEF FinishJob
  <2>2. InHand.attempt + 1 < MaxRetries
    BY <1>10 DEF TriesAgain
  <2>3. OutcomeOnRecord'
    BY <1>1, <2>1 DEF OnRecord, OutcomeOnRecord, Failed, Succeeded
  <2>. QED  BY <1>8, <1>10, <2>1, <2>2, <2>3 DEF OnRecord
<1>11. CASE ~work.ok /\ ~TriesAgain(InHand, work.hope)
  <2>1. finished' = finished /\ asleep' = asleep /\ dead' = Append(dead, InHand)
    BY <1>11, Zenon DEF FinishJob
  <2>2. ToSet(dead') = ToSet(dead) \cup {InHand}
    BY <1>2, <1>3, <2>1, AppendedTry DEF QueueTypeOK
  <2>3. \A t \in ToSet(dead) : jobs[t.job].kind = "outbound" => Failed(t.job, t.attempt + 1)
    BY DEF OnRecord, OutcomeOnRecord, ToSet
  <2>4. \A i \in DOMAIN dead' : dead'[i] \in ToSet(dead')
    BY DEF ToSet
  <2>5. \A i \in DOMAIN dead' : jobs[dead'[i].job].kind = "outbound" =>
           Failed(dead'[i].job, dead'[i].attempt + 1)
    BY <1>6, <1>11, <2>2, <2>3, <2>4
  <2>6. OutcomeOnRecord'
    BY <1>1, <2>1, <2>5 DEF OnRecord, OutcomeOnRecord, Failed, Succeeded
  <2>. QED  BY <1>8, <2>1, <2>6 DEF OnRecord
<1>. QED  BY <1>9, <1>10, <1>11

\* A retry that wakes has behind it what it had asleep.
LEMMA WakeOnRecord == ASSUME QueueRest, OnRecord, NEW t \in asleep, Wake(t) PROVE OnRecord'
<1>1. /\ asleep' = asleep \ {t} /\ channel' = Append(channel, t)
      /\ UNCHANGED <<jobs, batch, work, dead, finished, outcome, unwritten>>
  BY DEF Wake
<1>2. channel \in Seq(Tries) /\ t \in Tries
  BY DEF QueueRest, QueueTypeOK
<1>3. ToSet(channel') = ToSet(channel) \cup {t}
  BY <1>1, <1>2, AppendedTry
<1>4. OutcomeOnRecord'
  BY <1>1 DEF OnRecord, OutcomeOnRecord, Failed, Succeeded
<1>5. WorkOnRecord'
  BY <1>1, <1>3 DEF OnRecord, WorkOnRecord, Failed, Succeeded, InHand, Body
<1>. QED  BY <1>4, <1>5 DEF OnRecord

\* A restart takes no outcome back.
LEMMA RestartOnRecord == ASSUME QueueRest, OnRecord, QueueRestart PROVE OnRecord'
<1>1. /\ channel' = <<>> /\ batch' = <<>> /\ dead' = <<>> /\ work' = Idling /\ asleep' = {}
      /\ UNCHANGED <<jobs, finished, outcome, unwritten>>
  BY DEF QueueRestart
<1>2. OutcomeOnRecord'
  BY <1>1 DEF OnRecord, OutcomeOnRecord, Succeeded
<1>3. WorkOnRecord'
  BY <1>1, NoTries DEF WorkOnRecord, Idling
<1>. QED  BY <1>2, <1>3 DEF OnRecord

\* At first nothing is on the record and nothing is due to be.
LEMMA RecordInitially == QueueInit => OnRecord
<1>. HAVE QueueInit
<1>1. channel = <<>> /\ batch = <<>> /\ dead = <<>> /\ work = Idling /\ asleep = {}
      /\ finished = {}
  BY DEF QueueInit
<1>. QED  BY <1>1, NoTries DEF OnRecord, OutcomeOnRecord, WorkOnRecord, Idling

\* Every step of the queue keeps the record.
LEMMA RecordStep == QueueRest /\ OnRecord /\ [QueueNext]_queueVars => OnRecord'
<1>. HAVE QueueRest /\ OnRecord /\ [QueueNext]_queueVars
<1>1. ASSUME NEW j \in JobIds, Enqueue(j) PROVE OnRecord'  BY <1>1, EnqueueOnRecord
<1>2. CASE TakeBatch  BY <1>2, TakeBatchOnRecord
<1>3. CASE StartOutbound  BY <1>3, StartOutboundOnRecord
<1>4. CASE PushChunk  BY <1>4, PushChunkOnRecord
<1>5. CASE StartMedia \/ FetchMedia \/ InsertMedia  BY <1>5, MediaOnRecord
<1>6. CASE FinishJob  BY <1>6, FinishJobOnRecord
<1>7. ASSUME NEW t \in asleep, Wake(t) PROVE OnRecord'  BY <1>7, WakeOnRecord
<1>8. CASE QueueRestart  BY <1>8, RestartOnRecord
<1>9. CASE UNCHANGED queueVars
  BY <1>9 DEF queueVars, OnRecord, OutcomeOnRecord, WorkOnRecord, Failed, Succeeded, InHand, Body
<1>. QED  BY <1>1, <1>2, <1>3, <1>4, <1>5, <1>6, <1>7, <1>8, <1>9 DEF QueueNext, Consumer

\* No job is lost or doubled but by a restart, no media item is stored twice, nothing is called
\* delivered that was not, no chunk is pushed more often than a job may be tried, the books
\* agree with the dead letters, and what came of a job is in its row unless the write was lost,
\* whatever is retried and however the timers fire (QueueInv).
THEOREM JobsAreKept == QueueSpec => []QueueInv
<1>1. QueueRest /\ OnRecord => QueueInv
  BY QueueWhole
<1>. QED
  BY <1>1, QueueInitially, RecordInitially, QueueStep, RecordStep, PTL DEF QueueSpec


-----------------------------------------------------------------------------
(* The realtime hub: what its rows hold.                                    *)

\* The rows of HubTypeOK, by name.
ConnRows == [phase : {"new", "held", "open", "leaked", "gone"}, user : Users,
     at : Rooms \cup {Personal}]
ReqPoints == {"hydrate", "restore", "act", "persist", "save", "upgrade"}
ReqRows == [pc : ReqPoints, kind : Connects \cup Changes \cup {"left"}, user : Users,
            at : Rooms \cup {Personal}, snap : States, conn : {0} \cup ConnIds]
TalkRows == {Quiet} \cup [pc : {"stamped"}, n : 1 .. MaxSent]
               \cup [pc : {"pushed"}, n : 1 .. MaxSent, subs : SUBSET Users]
               \cup [pc : {"persist"}, kind : Changes, at : Rooms]
               \cup [pc : {"save"}, kind : Changes, at : Rooms, snap : States]
RoomRows == [seq : 0 .. MaxSent, history : Seq(1 .. MaxSent)]

\* HubTypeOK in terms of them.
LEMMA HubRows ==
  HubTypeOK =>
    /\ conn \in [ConnIds -> ConnRows]
    /\ heard \in [ConnIds -> [Users -> {"unheard", "online", "offline"}]]
    /\ mem \in [Users -> States] /\ saved \in [Users -> States]
    /\ followed \in [Users -> SUBSET Rooms]
    /\ room \in [Rooms -> RoomRows] /\ \A r \in Rooms : Len(room[r].history) <= HistoryCap
    /\ reach \in [ConnIds -> SUBSET Messages] /\ muted \in SUBSET Messages
    /\ talk \in [ConnIds -> TalkRows] /\ req \in [Reqs -> {IdleReq} \cup ReqRows]
    /\ challenge \in [state : {"none", "issued", "stale"}, admitted : Nat]
    /\ enabled \in BOOLEAN /\ hubServed \in 0 .. MaxHubServed
BY Zenon DEF HubTypeOK, ConnRows, RoomRows, TalkRows, ReqRows, ReqPoints

\* And back.
LEMMA HubTyped ==
    /\ conn \in [ConnIds -> ConnRows]
    /\ heard \in [ConnIds -> [Users -> {"unheard", "online", "offline"}]]
    /\ mem \in [Users -> States] /\ saved \in [Users -> States]
    /\ followed \in [Users -> SUBSET Rooms]
    /\ room \in [Rooms -> RoomRows] /\ (\A r \in Rooms : Len(room[r].history) <= HistoryCap)
    /\ reach \in [ConnIds -> SUBSET Messages] /\ muted \in SUBSET Messages
    /\ talk \in [ConnIds -> TalkRows] /\ req \in [Reqs -> {IdleReq} \cup ReqRows]
    /\ challenge \in [state : {"none", "issued", "stale"}, admitted : Nat]
    /\ enabled \in BOOLEAN /\ hubServed \in 0 .. MaxHubServed
    => HubTypeOK
BY Zenon DEF HubTypeOK, ConnRows, RoomRows, TalkRows, ReqRows, ReqPoints

\* The bounds are numbers.
LEMMA HubNumbers == HistoryCap \in Nat /\ HistoryCap > 0 /\ MaxSent \in Nat
     /\ MaxHubServed \in Nat
BY HubAssumption

\* A connection that has not been registered.
LEMMA NoConnFacts ==
  NoConn \in ConnRows /\ NoConn.phase = "new" /\ NoConn.at = Personal /\ NoConn.user \in Users
BY HubAssumption DEF NoConn, ConnRows

\* A request in progress has all its fields.
LEMMA ReqFacts ==
  ASSUME NEW x \in {IdleReq} \cup ReqRows, x.pc # "idle"
  PROVE  /\ x \in ReqRows /\ x # IdleReq /\ x.pc \in ReqPoints
         /\ x.kind \in Connects \cup Changes \cup {"left"}
         /\ x.user \in Users /\ x.at \in Rooms \cup {Personal} /\ x.snap \in States
         /\ x.conn \in {0} \cup ConnIds
BY DEF IdleReq, ReqRows

\* A request as it is begun.
LEMMA ReqRowFacts ==
  ASSUME NEW p \in ReqPoints, NEW k \in Connects \cup Changes \cup {"left"}, NEW u \in Users,
         NEW a \in Rooms \cup {Personal}, NEW s \in States, NEW c \in {0} \cup ConnIds, NEW x,
         x = [pc |-> p, kind |-> k, user |-> u, at |-> a, snap |-> s, conn |-> c]
  PROVE  x \in ReqRows /\ x.pc = p /\ x.kind = k /\ x.user = u /\ x.at = a /\ x.snap = s
         /\ x.conn = c /\ x # IdleReq
BY DEF ReqRows, IdleReq, ReqPoints

\* A request goes on to a point.
LEMMA ReqGoes ==
  ASSUME NEW x \in ReqRows, NEW p \in ReqPoints, NEW y, y = [x EXCEPT !.pc = p]
  PROVE  y \in ReqRows /\ y.pc = p /\ y.kind = x.kind /\ y.user = x.user /\ y.at = x.at
         /\ y.snap = x.snap /\ y.conn = x.conn /\ y # IdleReq
BY DEF ReqRows, IdleReq, ReqPoints

\* A request goes on with a snapshot, or with a connection.
Snapped(x, p, s) == [x EXCEPT !.pc = p, !.snap = s]
Connecting(x, p, c) == [x EXCEPT !.pc = p, !.conn = c]

\* A request goes on with a snapshot.
LEMMA ReqGoesWith ==
  ASSUME NEW x \in ReqRows, NEW p \in ReqPoints, NEW s \in States
  PROVE  /\ Snapped(x, p, s) \in ReqRows /\ Snapped(x, p, s).pc = p
         /\ Snapped(x, p, s).kind = x.kind /\ Snapped(x, p, s).user = x.user
         /\ Snapped(x, p, s).at = x.at /\ Snapped(x, p, s).conn = x.conn
BY DEF ReqRows, IdleReq, ReqPoints, Snapped

\* A request goes on with a connection.
LEMMA ReqGoesTo ==
  ASSUME NEW x \in ReqRows, NEW p \in ReqPoints, NEW c \in ConnIds
  PROVE  /\ Connecting(x, p, c) \in ReqRows /\ Connecting(x, p, c).pc = p
         /\ Connecting(x, p, c).kind = x.kind
         /\ Connecting(x, p, c).user = x.user /\ Connecting(x, p, c).at = x.at
         /\ Connecting(x, p, c).conn = c
BY DEF ReqRows, IdleReq, ReqPoints, Connecting

\* The points of a request.
LEMMA Points ==
  /\ "hydrate" \in ReqPoints /\ "restore" \in ReqPoints /\ "act" \in ReqPoints
  /\ "persist" \in ReqPoints /\ "save" \in ReqPoints /\ "upgrade" \in ReqPoints
BY DEF ReqPoints

\* The states of a user.
LEMMA StateFacts ==
  /\ NoState \in States /\ \A f \in SUBSET Rooms : State(f) \in States /\ State(f).known
  /\ ~NoState.known
BY DEF NoState, State, States

\* A user's state, created empty if need be.
LEMMA KnownFacts ==
  ASSUME mem \in [Users -> States], NEW u \in Users
  PROVE  Known(u) \in States /\ Known(u).known
<1>1. CASE mem[u].known
  BY <1>1 DEF Known
<1>2. CASE ~mem[u].known
  BY <1>2, StateFacts DEF Known
<1>. QED  BY <1>1, <1>2

\* A state after a follow or an unfollow is a state.
LEMMA ChangedFacts ==
  ASSUME mem \in [Users -> States], NEW u \in Users, NEW kind, NEW r \in Rooms
  PROVE  Changed(u, kind, r) \in States /\ Changed(u, kind, r).known
<1>1. PICK k : k = Known(u)
  OBVIOUS
<1>2. k \in States /\ k.known
  BY <1>1, KnownFacts
<1>3. PICK f : f = IF kind = "follow" THEN k.follows \cup {r} ELSE k.follows \ {r}
  OBVIOUS
<1>4. f \in SUBSET Rooms
  BY <1>2, <1>3 DEF States
<1>5. Changed(u, kind, r) = [k EXCEPT !.follows = f]
  BY <1>1, <1>3, Zenon DEF Changed
<1>. QED  BY <1>2, <1>4, <1>5 DEF States

\* What is followed stays a set of conversations.
LEMMA FollowFacts ==
  ASSUME followed \in [Users -> SUBSET Rooms], NEW u \in Users, NEW kind, NEW r
  PROVE  /\ GivenUp(u, kind, r) \in [Users -> SUBSET Rooms]
         /\ (kind = "follow" => r \in Rooms) => Told(u, kind, r) \in [Users -> SUBSET Rooms]
BY DEF GivenUp, Told

\* A connection has a user and a place.
LEMMA RegisteredFacts ==
  ASSUME conn \in [ConnIds -> ConnRows], NEW c \in ConnIds
  PROVE  conn[c].user \in Users /\ conn[c].at \in Rooms \cup {Personal}
         /\ (Registered(c) <=> conn[c].phase \in {"held", "open", "leaked"})
BY DEF ConnRows, Registered

-----------------------------------------------------------------------------
(* What stands.                                                             *)

\* Presence stands while connections and what they heard do.
LEMMA PresenceStands == PresenceIsTruthful /\ UNCHANGED <<conn, heard>> => PresenceIsTruthful'
BY DEF PresenceIsTruthful, Registered, ConnsOf

\* A connected user keeps a state while no state goes away.
LEMMA StateStands ==
  HubTypeOK /\ StateWhileConnected /\ UNCHANGED conn /\ (\A u \in Users : mem[u].known
       => mem'[u].known) => StateWhileConnected'
<1>. HAVE HubTypeOK /\ StateWhileConnected /\ UNCHANGED conn
          /\ (\A u \in Users : mem[u].known => mem'[u].known)
<1>1. \A c \in ConnIds : conn[c].user \in Users
  BY HubRows, RegisteredFacts
<1>. QED  BY <1>1 DEF StateWhileConnected, Registered

\* NothingFallsBetween of one message.
LEMMA FallsNow ==
  ASSUME NothingFallsBetween, NEW r \in Rooms, NEW c \in InRoom(r),
         NEW i \in DOMAIN room[r].history
  PROVE  \/ <<r, room[r].history[i]>> \in reach[c] \cup muted
         \/ \E d \in ConnIds : conn[d].at = r /\ talk[d].pc = "pushed"
              /\ talk[d].n = room[r].history[i]
BY Zenon DEF NothingFallsBetween

\* The same in the next state.
LEMMA FallsNext ==
  ASSUME \A r \in Rooms : \A c \in InRoom(r)' : \A i \in DOMAIN room'[r].history :
           \/ <<r, room'[r].history[i]>> \in reach'[c] \cup muted'
           \/ \E d \in ConnIds : conn'[d].at = r /\ talk'[d].pc = "pushed"
                /\ talk'[d].n = room'[r].history[i]
  PROVE  NothingFallsBetween'
BY Zenon DEF NothingFallsBetween

\* No message falls between while rooms, connections and broadcasts under way do not move.
LEMMA HistoryStands ==
  NothingFallsBetween /\ UNCHANGED <<conn, room, reach, muted>>
       /\ (\A d \in ConnIds : talk[d].pc = "pushed" => talk'[d] = talk[d])
  => NothingFallsBetween'
<1>. HAVE NothingFallsBetween /\ UNCHANGED <<conn, room, reach, muted>>
          /\ (\A d \in ConnIds : talk[d].pc = "pushed" => talk'[d] = talk[d])
<1>1. SUFFICES ASSUME NEW r \in Rooms, NEW c \in InRoom(r), NEW i \in DOMAIN room[r].history
               PROVE  \/ <<r, room[r].history[i]>> \in reach[c] \cup muted
                      \/ \E d \in ConnIds : conn[d].at = r /\ talk'[d].pc = "pushed"
                           /\ talk'[d].n = room[r].history[i]
  BY DEF NothingFallsBetween, InRoom, Registered
<1>2. \/ <<r, room[r].history[i]>> \in reach[c] \cup muted
      \/ \E d \in ConnIds : conn[d].at = r /\ talk[d].pc = "pushed"
           /\ talk[d].n = room[r].history[i]
  BY Zenon DEF NothingFallsBetween
<1>. QED  BY <1>2

\* Nor while the rooms only count.
LEMMA HistoryAside ==
  ASSUME NothingFallsBetween, UNCHANGED <<conn, reach, muted>>,
         \A r \in Rooms : room'[r].history = room[r].history,
         \A d \in ConnIds : talk[d].pc = "pushed" => talk'[d] = talk[d]
  PROVE  NothingFallsBetween'
<1>1. \A r : InRoom(r)' = InRoom(r)
  BY DEF InRoom, Registered
<1>2. ASSUME NEW r \in Rooms, NEW d \in InRoom(r), NEW i \in DOMAIN room[r].history
      PROVE  \/ <<r, room[r].history[i]>> \in reach'[d] \cup muted'
             \/ \E e \in ConnIds : conn'[e].at = r /\ talk'[e].pc = "pushed"
                  /\ talk'[e].n = room[r].history[i]
  <2>1. \/ <<r, room[r].history[i]>> \in reach[d] \cup muted
        \/ \E e \in ConnIds : conn[e].at = r /\ talk[e].pc = "pushed"
             /\ talk[e].n = room[r].history[i]
    BY <1>2, FallsNow
  <2>2. CASE <<r, room[r].history[i]>> \in reach[d] \cup muted
    BY <2>2
  <2>3. CASE \E e \in ConnIds : conn[e].at = r /\ talk[e].pc = "pushed"
             /\ talk[e].n = room[r].history[i]
    BY <2>3
  <2>. QED  BY <2>1, <2>2, <2>3
<1>3. ASSUME NEW r \in Rooms, NEW d \in InRoom(r)', NEW i \in DOMAIN room'[r].history
      PROVE  \/ <<r, room'[r].history[i]>> \in reach'[d] \cup muted'
             \/ \E e \in ConnIds : conn'[e].at = r /\ talk'[e].pc = "pushed"
                  /\ talk'[e].n = room'[r].history[i]
  <2>1. d \in InRoom(r) /\ room'[r].history = room[r].history
    BY <1>1, <1>3
  <2>. QED  BY <1>2, <2>1
<1>. QED  BY <1>3, FallsNext

\* Connections stand while only registered ones say something.
LEMMA ConnsStand ==
  ConnsFit /\ UNCHANGED <<conn, heard>>
  /\ (\A c \in ConnIds : talk'[c] = talk[c] \/ (conn[c].phase # "new"
       /\ (talk'[c].pc \in {"stamped", "pushed"} => conn[c].at \in Rooms)))
  => ConnsFit'
BY DEF ConnsFit, Registered

\* The connections that have been registered, and a request as RequestsFit wants it.
Given == {c \in ConnIds : conn[c] # NoConn}
Fits(x, given) ==
  /\ x.kind \in Changes => x.at \in Rooms
  /\ x.kind = "left" => x.pc = "save"
  /\ x.pc = "upgrade" \/ (x.kind = "session" /\ x.pc \in {"persist", "save"}) => x.conn \in given

\* RequestsFit, request by request.
LEMMA RequestsEach == RequestsFit <=> \A q \in Reqs : req[q] # IdleReq => Fits(req[q], Given)
BY DEF RequestsFit, Fits, Given

\* Requests stand while no connection goes away.
LEMMA RequestsStand == RequestsFit /\ UNCHANGED req /\ Given \subseteq Given' => RequestsFit'
<1>. HAVE RequestsFit /\ UNCHANGED req /\ Given \subseteq Given'
<1>1. \A q \in Reqs : req[q] # IdleReq => Fits(req[q], Given)
  BY RequestsEach
<1>2. \A q \in Reqs : req'[q] # IdleReq => Fits(req'[q], Given')
  BY <1>1 DEF Fits
<1>. QED  BY <1>2, RequestsEach, PTL

\* One request moves on.
LEMMA RequestMoves ==
  ASSUME RequestsFit, Given \subseteq Given',
         NEW p \in Reqs, \A q \in Reqs : q # p => req'[q] = req[q],
         req'[p] = IdleReq \/ Fits(req'[p], Given')
  PROVE  RequestsFit'
<1>1. ASSUME NEW q \in Reqs, req'[q] # IdleReq PROVE Fits(req'[q], Given')
  <2>1. CASE q = p
    BY <1>1, <2>1
  <2>2. CASE q # p
    <3>1. req'[q] = req[q] /\ Fits(req[q], Given)
      BY <1>1, <2>2, RequestsEach
    <3>. QED  BY <3>1 DEF Fits
  <2>. QED  BY <2>1, <2>2
<1>2. \A q \in Reqs : req'[q] # IdleReq => Fits(req'[q], Given')
  BY <1>1
<1>. QED  BY <1>2 DEF RequestsFit, Fits, Given

\* The invariant, part by part.
LEMMA HubWhole ==
  HubInv <=> /\ HubTypeOK /\ PresenceIsTruthful /\ StateWhileConnected
                  /\ NothingFallsBetween /\ ChallengeAdmitsOnce
             /\ ConnsFit /\ RequestsFit /\ ChallengeFits
BY DEF HubInv

\* A step that touches neither connections nor rooms.
LEMMA HubAside ==
  HubInv /\ HubTypeOK' /\ UNCHANGED <<conn, heard, room, reach, muted, talk>>
       /\ (\A u \in Users : mem[u].known => mem'[u].known)
  /\ RequestsFit' /\ ChallengeFits' /\ ChallengeAdmitsOnce' => HubInv'
BY HubWhole, PresenceStands, StateStands, HistoryStands, ConnsStand, Zenon DEF HubInv

\* HubTypeOK in the next state.
LEMMA HubTypedNext ==
    /\ conn' \in [ConnIds -> ConnRows]
    /\ heard' \in [ConnIds -> [Users -> {"unheard", "online", "offline"}]]
    /\ mem' \in [Users -> States] /\ saved' \in [Users -> States]
    /\ followed' \in [Users -> SUBSET Rooms]
    /\ room' \in [Rooms -> RoomRows] /\ (\A r \in Rooms : Len(room'[r].history) <= HistoryCap)
    /\ reach' \in [ConnIds -> SUBSET Messages] /\ muted' \in SUBSET Messages
    /\ talk' \in [ConnIds -> TalkRows] /\ req' \in [Reqs -> {IdleReq} \cup ReqRows]
    /\ challenge' \in [state : {"none", "issued", "stale"}, admitted : Nat]
    /\ enabled' \in BOOLEAN /\ hubServed' \in 0 .. MaxHubServed
    => HubTypeOK'
BY Zenon DEF HubTypeOK, ConnRows, RoomRows, TalkRows, ReqRows, ReqPoints

\* A request or a frame is counted.
LEMMA HubServeFacts == HubTypeOK /\ HubServe => hubServed' \in 0 .. MaxHubServed
BY HubNumbers DEF HubTypeOK, HubServe

\* One request is replaced.
LEMMA OneRequest ==
  ASSUME req \in [Reqs -> {IdleReq} \cup ReqRows], NEW q \in Reqs,
         NEW x \in {IdleReq} \cup ReqRows,
         req' = [req EXCEPT ![q] = x]
  PROVE  req' \in [Reqs -> {IdleReq} \cup ReqRows] /\ req'[q] = x /\ \A p \in Reqs : p # q
         => req'[p] = req[p]
OBVIOUS

-----------------------------------------------------------------------------
(* Requests.                                                                *)

\* The steps of a request that touch neither connections nor rooms.
LEMMA RequestAside ==
  ASSUME HubInv, NEW q \in Reqs, NEW x \in {IdleReq} \cup ReqRows, req' = [req EXCEPT ![q] = x],
         UNCHANGED <<conn, heard, room, reach, muted, talk, challenge, enabled>>,
         hubServed' \in 0 .. MaxHubServed,
         mem' \in [Users -> States], \A u \in Users : mem[u].known => mem'[u].known,
         saved' \in [Users -> States], followed' \in [Users -> SUBSET Rooms],
         x = IdleReq \/ Fits(x, Given)
  PROVE  HubInv'
<1>1. req' \in [Reqs -> {IdleReq} \cup ReqRows] /\ req'[q] = x /\ \A p \in Reqs : p # q
           => req'[p] = req[p]
  BY HubRows, OneRequest DEF HubInv
<1>2. Given' = Given
  BY DEF Given
<1>3. RequestsFit'
  BY <1>1, <1>2, RequestMoves DEF HubInv
<1>4. HubTypeOK'
  BY <1>1, HubRows, HubTypedNext DEF HubInv
<1>5. ChallengeFits' /\ ChallengeAdmitsOnce'
  BY DEF HubInv, ChallengeFits, ChallengeAdmitsOnce
<1>. QED  BY <1>3, <1>4, <1>5, HubAside

\* A request begins.
LEMMA BeginReqStep ==
  ASSUME HubInv, NEW q \in Reqs, NEW pc \in {"hydrate", "act"},
         NEW kind \in Connects \cup Changes, NEW u \in Users,
         NEW r \in Rooms \cup {Personal}, kind \in Changes => r \in Rooms,
              BeginReq(q, pc, kind, u, r)
  PROVE  HubInv'
<1>1. PICK x : x = [pc |-> pc, kind |-> kind, user |-> u, at |-> r, snap |-> NoState, conn |-> 0]
  OBVIOUS
<1>2. x \in ReqRows /\ x.pc = pc /\ x.kind = kind /\ x.at = r
  BY <1>1, StateFacts, ReqRowFacts DEF ReqPoints
<1>3. Fits(x, Given)
  BY <1>2 DEF Fits, Connects, Changes
<1>4. hubServed' \in 0 .. MaxHubServed
  BY HubServeFacts DEF HubInv, BeginReq
<1>5. req' = [req EXCEPT ![q] = x] /\ UNCHANGED <<conn, heard, mem, saved, followed, room,
           reach, muted, talk, challenge, enabled>>
  BY <1>1 DEF BeginReq
<1>. QED  BY <1>2, <1>3, <1>4, <1>5, RequestAside, HubRows DEF HubInv

\* Every request begins so.
LEMMA RequestSteps ==
  ASSUME HubInv, NEW q \in Reqs, NEW u \in Users,
         \/ SessionConnect(q, u) \/ GatewayConnect(q, u, Personal)
         \/ \E r \in Rooms : \/ GatewayConnect(q, u, r) \/ RoomConnect(q, u, r)
                             \/ FollowRequest(q, u, r) \/ UnfollowRequest(q, u, r)
  PROVE  HubInv'
<1>1. {"gateway", "session", "room"} \subseteq Connects
      /\ {"follow", "unfollow"} \subseteq Changes
      /\ "gateway" \notin Changes /\ "session" \notin Changes /\ "room" \notin Changes
  BY DEF Connects, Changes
<1>2. CASE SessionConnect(q, u)
  BY <1>1, <1>2, BeginReqStep DEF SessionConnect
<1>3. ASSUME NEW r \in Rooms \cup {Personal}, GatewayConnect(q, u, r) PROVE HubInv'
  BY <1>1, <1>3, BeginReqStep DEF GatewayConnect
<1>4. ASSUME NEW r \in Rooms, RoomConnect(q, u, r) PROVE HubInv'
  BY <1>1, <1>4, BeginReqStep DEF RoomConnect
<1>5. ASSUME NEW r \in Rooms, FollowRequest(q, u, r) PROVE HubInv'
  BY <1>1, <1>5, BeginReqStep DEF FollowRequest
<1>6. ASSUME NEW r \in Rooms, UnfollowRequest(q, u, r) PROVE HubInv'
  BY <1>1, <1>6, BeginReqStep DEF UnfollowRequest
<1>. QED  BY <1>2, <1>3, <1>4, <1>5, <1>6

\* A request in progress.
LEMMA AtFacts ==
  ASSUME HubInv, NEW q \in Reqs, NEW p \in ReqPoints, ReqAt(q, p)
  PROVE  /\ req[q] \in ReqRows /\ req[q] # IdleReq /\ req[q].pc = p /\ req[q].user \in Users
         /\ req[q].kind \in Connects \cup Changes \cup {"left"}
         /\ req[q].at \in Rooms \cup {Personal}
         /\ req[q].snap \in States /\ req[q].conn \in {0} \cup ConnIds
         /\ Fits(req[q], Given)
<1>1. req[q] \in {IdleReq} \cup ReqRows /\ req[q].pc = p
  BY HubRows DEF HubInv, ReqAt
<1>2. req[q].pc # "idle"
  BY <1>1 DEF ReqPoints
<1>3. req[q] # IdleReq
  BY <1>1, <1>2 DEF IdleReq
<1>. QED  BY <1>1, <1>2, <1>3, ReqFacts, RequestsEach DEF HubInv

\* A row is read, unless the state is in memory.
LEMMA HydrateStep == ASSUME HubInv, NEW q \in Reqs, Hydrate(q) PROVE HubInv'
<1>1. ReqAt(q, "hydrate") /\ UNCHANGED <<conn, heard, mem, saved, followed, room, reach, muted,
           talk, challenge, enabled, hubServed>>
  BY DEF Hydrate
<1>2. /\ req[q] \in ReqRows /\ req[q].pc = "hydrate" /\ req[q].user \in Users
      /\ Fits(req[q], Given)
  BY <1>1, AtFacts, Points
<1>3. CASE Goto(q, "act")
  <2>1. PICK x : x = [req[q] EXCEPT !.pc = "act"]
    OBVIOUS
  <2>2. x \in ReqRows /\ x.pc = "act" /\ x.kind = req[q].kind /\ x.at = req[q].at
    BY <1>2, <2>1, ReqGoes, Points
  <2>3. Fits(x, Given)
    BY <1>2, <2>2 DEF Fits
  <2>4. req' = [req EXCEPT ![q] = x]
    BY <1>3, <2>1, HubRows DEF HubInv, Goto
  <2>. QED  BY <1>1, <2>2, <2>3, <2>4, RequestAside, HubRows DEF HubInv
<1>4. CASE \E saw \in {saved[req[q].user], NoState} : req' = [req EXCEPT ![q].pc = "restore",
           ![q].snap = saw]
  <2>1. PICK saw \in {saved[req[q].user], NoState} : req' = [req EXCEPT ![q].pc = "restore",
             ![q].snap = saw]
    BY <1>4
  <2>2. saw \in States
    BY <1>2, <2>1, HubRows, StateFacts DEF HubInv
  <2>3. PICK x : x = Snapped(req[q], "restore", saw)
    OBVIOUS
  <2>4. x \in ReqRows /\ x.pc = "restore" /\ x.kind = req[q].kind /\ x.at = req[q].at
    <3>1. "restore" \in ReqPoints
      BY Points
    <3>2. /\ Snapped(req[q], "restore", saw) \in ReqRows
          /\ Snapped(req[q], "restore", saw).pc = "restore"
          /\ Snapped(req[q], "restore", saw).kind = req[q].kind
          /\ Snapped(req[q], "restore", saw).at = req[q].at
      BY <1>2, <2>2, <3>1, ReqGoesWith
    <3>. QED  BY <2>3, <3>2
  <2>5. Fits(x, Given)
    BY <1>2, <2>4 DEF Fits
  <2>6. req' = [req EXCEPT ![q] = x]
    BY <2>1, <2>3, HubRows DEF HubInv, Snapped
  <2>. QED  BY <1>1, <2>4, <2>5, <2>6, RequestAside, HubRows DEF HubInv
<1>. QED  BY <1>3, <1>4, Zenon DEF Hydrate

\* What was read becomes the state, unless there is one by now.
LEMMA HydrateUserStep == ASSUME HubInv, NEW q \in Reqs, HydrateUser(q) PROVE HubInv'
<1>1. ReqAt(q, "restore") /\ UNCHANGED <<conn, heard, saved, followed, room, reach, muted, talk,
           challenge, enabled, hubServed>>
      /\ Goto(q, "act")
  BY DEF HydrateUser
<1>2. /\ req[q] \in ReqRows /\ req[q].pc = "restore" /\ req[q].user \in Users
      /\ Fits(req[q], Given) /\ req[q].snap \in States
  BY <1>1, AtFacts, Points
<1>3. PICK x : x = [req[q] EXCEPT !.pc = "act"]
  OBVIOUS
<1>4. x \in ReqRows /\ x.pc = "act" /\ x.kind = req[q].kind /\ x.at = req[q].at
  BY <1>2, <1>3, ReqGoes, Points
<1>5. Fits(x, Given)
  BY <1>2, <1>4 DEF Fits
<1>6. req' = [req EXCEPT ![q] = x]
  BY <1>1, <1>3, HubRows DEF HubInv, Goto
<1>7. mem \in [Users -> States]
  BY HubRows DEF HubInv
<1>8. mem' = mem \/ (mem' = [mem EXCEPT ![req[q].user] = req[q].snap] /\ ~mem[req[q].user].known)
  BY DEF HydrateUser
<1>9. mem' \in [Users -> States] /\ \A u \in Users : mem[u].known => mem'[u].known
  <2>1. CASE mem' = mem
    BY <1>7, <2>1
  <2>2. CASE mem' = [mem EXCEPT ![req[q].user] = req[q].snap] /\ ~mem[req[q].user].known
    BY <1>2, <1>7, <2>2
  <2>. QED  BY <1>8, <2>1, <2>2
<1>. QED  BY <1>1, <1>4, <1>5, <1>6, <1>9, RequestAside, HubRows DEF HubInv

\* A connection over the ceiling is refused.
LEMMA RefuseConnectStep == ASSUME HubInv, NEW q \in Reqs, RefuseConnect(q) PROVE HubInv'
BY RequestAside, HubRows DEF HubInv, RefuseConnect, Leave

\* A state changes in memory.
LEMMA ChangeStateStep == ASSUME HubInv, NEW q \in Reqs, ChangeState(q) PROVE HubInv'
<1>1. PICK u, r, k : u = req[q].user /\ r = req[q].at /\ k = req[q].kind
  OBVIOUS
<1>2. /\ ReqAt(q, "act") /\ k \notin Connects /\ mem' = [mem EXCEPT ![u] = Changed(u, k, r)]
      /\ followed' = GivenUp(u, k, r) /\ Goto(q, "persist")
      /\ UNCHANGED <<conn, heard, saved, room, reach, muted, talk, challenge, enabled, hubServed>>
  BY <1>1, Zenon DEF ChangeState
<1>3. /\ req[q] \in ReqRows /\ req[q].pc = "act" /\ u \in Users /\ Fits(req[q], Given)
      /\ k \in Connects \cup Changes \cup {"left"}
  BY <1>1, <1>2, AtFacts, Points
<1>4. k \in Changes /\ k # "left" /\ r \in Rooms /\ k # "session"
  BY <1>1, <1>2, <1>3 DEF Fits, Connects
<1>5. PICK x : x = [req[q] EXCEPT !.pc = "persist"]
  OBVIOUS
<1>6. x \in ReqRows /\ x.pc = "persist" /\ x.kind = k /\ x.at = r
  BY <1>1, <1>3, <1>5, ReqGoes, Points
<1>7. Fits(x, Given)
  BY <1>4, <1>6 DEF Fits
<1>8. req' = [req EXCEPT ![q] = x]
  BY <1>2, <1>5, HubRows DEF HubInv, Goto
<1>9. mem \in [Users -> States] /\ followed \in [Users -> SUBSET Rooms]
  BY HubRows DEF HubInv
<1>10. Changed(u, k, r) \in States /\ Changed(u, k, r).known
       /\ followed' \in [Users -> SUBSET Rooms]
  BY <1>2, <1>3, <1>4, <1>9, ChangedFacts, FollowFacts
<1>11. mem' \in [Users -> States] /\ \A v \in Users : mem[v].known => mem'[v].known
  BY <1>2, <1>3, <1>9, <1>10
<1>. QED  BY <1>2, <1>6, <1>7, <1>8, <1>10, <1>11, RequestAside, HubRows DEF HubInv

\* A snapshot is taken.
LEMMA TakeSnapshotStep == ASSUME HubInv, NEW q \in Reqs, TakeSnapshot(q) PROVE HubInv'
<1>1. /\ ReqAt(q, "persist") /\ req' = [req EXCEPT ![q].pc = "save",
           ![q].snap = Known(req[q].user)]
      /\ UNCHANGED <<conn, heard, mem, saved, followed, room, reach, muted, talk, challenge,
           enabled, hubServed>>
  BY DEF TakeSnapshot
<1>2. /\ req[q] \in ReqRows /\ req[q].pc = "persist" /\ req[q].user \in Users
      /\ Fits(req[q], Given)
  BY <1>1, AtFacts, Points
<1>3. PICK s : s = Known(req[q].user)
  OBVIOUS
<1>4. s \in States
  BY <1>2, <1>3, KnownFacts, HubRows DEF HubInv
<1>5. PICK x : x = Snapped(req[q], "save", s)
  OBVIOUS
<1>6. x \in ReqRows /\ x.pc = "save" /\ x.kind = req[q].kind /\ x.at = req[q].at
      /\ x.conn = req[q].conn
  <2>1. "save" \in ReqPoints
    BY Points
  <2>2. /\ Snapped(req[q], "save", s) \in ReqRows /\ Snapped(req[q], "save", s).pc = "save"
        /\ Snapped(req[q], "save", s).kind = req[q].kind
        /\ Snapped(req[q], "save", s).at = req[q].at
        /\ Snapped(req[q], "save", s).conn = req[q].conn
    BY <1>2, <1>4, <2>1, ReqGoesWith
  <2>. QED  BY <1>5, <2>2
<1>7. Fits(x, Given)
  BY <1>2, <1>6 DEF Fits
<1>8. req' = [req EXCEPT ![q] = x]
  BY <1>1, <1>3, <1>5, HubRows DEF HubInv, Snapped
<1>. QED  BY <1>1, <1>6, <1>7, <1>8, RequestAside, HubRows DEF HubInv

\* A snapshot is written, or is not.
LEMMA SaveSnapshotStep == ASSUME HubInv, NEW q \in Reqs, SaveSnapshot(q) PROVE HubInv'
<1>1. PICK u, r, k : u = req[q].user /\ r = req[q].at /\ k = req[q].kind
  OBVIOUS
<1>2. /\ ReqAt(q, "save")
      /\ \/ saved' = [saved EXCEPT ![u] = req[q].snap] /\ followed' = Told(u, k, r)
         \/ UNCHANGED <<saved, followed>>
      /\ IF k = "session" THEN Goto(q, "upgrade") ELSE Leave(q)
      /\ UNCHANGED <<conn, heard, mem, room, reach, muted, talk, challenge, enabled, hubServed>>
  BY <1>1, Zenon DEF SaveSnapshot
<1>3. /\ req[q] \in ReqRows /\ req[q].pc = "save" /\ u \in Users /\ Fits(req[q], Given)
      /\ req[q].snap \in States
  BY <1>1, <1>2, AtFacts, Points
<1>4. saved \in [Users -> States] /\ followed \in [Users -> SUBSET Rooms]
  BY HubRows DEF HubInv
<1>5. k = "follow" => r \in Rooms
  BY <1>1, <1>3 DEF Fits, Changes
<1>6. Told(u, k, r) \in [Users -> SUBSET Rooms]
  BY <1>3, <1>4, <1>5, FollowFacts
<1>7. saved' \in [Users -> States] /\ followed' \in [Users -> SUBSET Rooms]
  <2>1. CASE saved' = [saved EXCEPT ![u] = req[q].snap] /\ followed' = Told(u, k, r)
    BY <1>3, <1>4, <1>6, <2>1
  <2>2. CASE UNCHANGED <<saved, followed>>
    BY <1>4, <2>2
  <2>. QED  BY <1>2, <2>1, <2>2
<1>8. CASE k = "session"
  <2>1. PICK x : x = [req[q] EXCEPT !.pc = "upgrade"]
    OBVIOUS
  <2>2. x \in ReqRows /\ x.pc = "upgrade" /\ x.kind = k /\ x.at = r /\ x.conn = req[q].conn
    BY <1>1, <1>3, <2>1, ReqGoes, Points
  <2>3. Fits(x, Given)
    BY <1>1, <1>3, <1>8, <2>2 DEF Fits, Changes
  <2>4. req' = [req EXCEPT ![q] = x]
    BY <1>2, <1>8, <2>1, HubRows DEF HubInv, Goto
  <2>. QED  BY <1>2, <1>7, <2>2, <2>3, <2>4, RequestAside, HubRows DEF HubInv
<1>9. CASE k # "session"
  <2>1. req' = [req EXCEPT ![q] = IdleReq]
    BY <1>2, <1>9 DEF Leave
  <2>. QED  BY <1>2, <1>7, <2>1, RequestAside, HubRows DEF HubInv
<1>. QED  BY <1>8, <1>9

-----------------------------------------------------------------------------
(* Connections come and go.                                                 *)

\* Who is told of a user's presence, and who is not.
LEMMA AnnounceFacts ==
  ASSUME heard \in [ConnIds -> [Users -> {"unheard", "online", "offline"}]], NEW u \in Users,
         NEW what \in {"unheard", "online", "offline"}, NEW audience
  PROVE  LET h == Announce(u, what, audience)
         IN  /\ h \in [ConnIds -> [Users -> {"unheard", "online", "offline"}]]
             /\ \A d \in ConnIds, v \in Users : v # u \/ d \notin audience
                  => h[d][v] = heard[d][v]
             /\ \A d \in ConnIds : <<conn[d].user, u>> \in Sees /\ conn[d].user # u
                  /\ d \in audience => h[d][u] = what
             /\ \A d \in ConnIds : ~(<<conn[d].user, u>> \in Sees /\ conn[d].user # u)
                  => h[d] = heard[d]
<1>. DEFINE h == Announce(u, what, audience)
<1>1. ASSUME NEW d \in ConnIds
      PROVE  /\ h[d] = IF d \in audience /\ <<conn[d].user, u>> \in Sees /\ conn[d].user # u
                       THEN [heard[d] EXCEPT ![u] = what] ELSE heard[d]
             /\ h[d] \in [Users -> {"unheard", "online", "offline"}]
  <2>1. h[d] = IF d \in audience /\ <<conn[d].user, u>> \in Sees /\ conn[d].user # u
               THEN [heard[d] EXCEPT ![u] = what] ELSE heard[d]
    BY DEF Announce
  <2>2. heard[d] \in [Users -> {"unheard", "online", "offline"}]
    OBVIOUS
  <2>. QED  BY <2>1, <2>2
<1>2. h \in [ConnIds -> [Users -> {"unheard", "online", "offline"}]]
  <2>1. h = [d \in ConnIds |-> h[d]]
    BY DEF Announce
  <2>. HIDE DEF h
  <2>. QED  BY <1>1, <2>1
<1>. HIDE DEF h
<1>3. \A d \in ConnIds : heard[d] \in [Users -> {"unheard", "online", "offline"}]
  OBVIOUS
<1>4. \A d \in ConnIds, v \in Users : v # u \/ d \notin audience => h[d][v] = heard[d][v]
  BY <1>1, <1>3
<1>5. \A d \in ConnIds : <<conn[d].user, u>> \in Sees /\ conn[d].user # u /\ d \in audience
           => h[d][u] = what
  BY <1>1, <1>3
<1>6. \A d \in ConnIds : ~(<<conn[d].user, u>> \in Sees /\ conn[d].user # u) => h[d] = heard[d]
  BY <1>1
<1>. QED  BY <1>2, <1>4, <1>5, <1>6 DEF h

\* The elements of a sequence.
LEMMA SequenceElements ==
  ASSUME NEW S, NEW s \in Seq(S)
  PROVE  \A i \in DOMAIN s : s[i] \in S
OBVIOUS

\* The history a connection finds when it joins.
LEMMA HistoryFacts ==
  ASSUME HubTypeOK, NEW r \in Rooms
  PROVE  /\ room[r] \in RoomRows /\ room[r].history \in Seq(1 .. MaxSent)
         /\ room[r].seq \in 0 .. MaxSent
         /\ \A i \in DOMAIN room[r].history : room[r].history[i] \in 1 .. MaxSent
         /\ ToSet(room[r].history) \subseteq 1 .. MaxSent
<1>1. room[r] \in RoomRows
  BY HubRows
<1>2. room[r].history \in Seq(1 .. MaxSent) /\ room[r].seq \in 0 .. MaxSent
  BY <1>1 DEF RoomRows
<1>3. PICK h : h = room[r].history
  OBVIOUS
<1>4. \A i \in DOMAIN h : h[i] \in 1 .. MaxSent
  BY <1>2, <1>3, SequenceElements
<1>5. ToSet(h) \subseteq 1 .. MaxSent
  BY <1>4 DEF ToSet
<1>. QED  BY <1>1, <1>2, <1>3, <1>4, <1>5

\* A connection is registered: its user is online for whoever may see it, has a state, and has
\* the room's history.
LEMMA RegisterStep == ASSUME HubInv, NEW q \in Reqs, NEW c \in ConnIds,
     Register(q, c) PROVE HubInv'
<1>1. PICK u, r : u = req[q].user /\ r = req[q].at
  OBVIOUS
<1>2. PICK entry : entry = [phase |-> "held", user |-> u, at |-> r]
  OBVIOUS
<1>3. /\ ReqAt(q, "act") /\ req[q].kind \in Connects /\ NextId(c)
      /\ conn' = [conn EXCEPT ![c] = entry]
      /\ mem' = [mem EXCEPT ![u] = Known(u)]
      /\ reach' = IF r \in Rooms THEN [reach EXCEPT ![c] = {r} \X ToSet(room[r].history)]
                  ELSE reach
      /\ heard' = IF ConnsOf(u) = {} THEN Announce(u, "online", {d \in ConnIds : Registered(d)}) ELSE heard
      /\ req' = [req EXCEPT ![q].pc = IF req[q].kind = "session" THEN "persist"
           ELSE "upgrade", ![q].conn = c]
      /\ UNCHANGED <<saved, followed, room, muted, talk, challenge, enabled, hubServed>>
  BY <1>1, <1>2, Zenon DEF Register
<1>4. /\ req[q] \in ReqRows /\ req[q].pc = "act" /\ u \in Users
      /\ r \in Rooms \cup {Personal} /\ req[q].kind \in Connects
      /\ HubTypeOK /\ PresenceIsTruthful /\ StateWhileConnected /\ NothingFallsBetween
      /\ ConnsFit /\ RequestsFit
  BY <1>1, <1>3, AtFacts, Points DEF HubInv
<1>5. /\ conn \in [ConnIds -> ConnRows]
      /\ heard \in [ConnIds -> [Users -> {"unheard", "online", "offline"}]]
      /\ mem \in [Users -> States] /\ reach \in [ConnIds -> SUBSET Messages]
      /\ req \in [Reqs -> {IdleReq} \cup ReqRows]
  BY <1>4, HubRows
<1>6. conn[c] = NoConn /\ ~Registered(c) /\ talk[c] = Quiet
           /\ \A v \in Users : heard[c][v] = "unheard"
  <2>1. conn[c] = NoConn
    <3>1. c \in Nat
      BY HubAssumption
    <3>2. c >= c
      BY <3>1
    <3>. QED  BY <1>3, <3>2 DEF NextId
  <2>. QED  BY <1>4, <2>1, NoConnFacts DEF ConnsFit, Registered
<1>7. entry \in ConnRows /\ entry.phase = "held" /\ entry.user = u /\ entry.at = r
      /\ entry # NoConn
  BY <1>2, <1>4, NoConnFacts DEF ConnRows
<1>8. conn' \in [ConnIds -> ConnRows] /\ conn'[c] = entry /\ \A d \in ConnIds : d # c
           => conn'[d] = conn[d]
  BY <1>3, <1>5, <1>7
<1>9. (\A d \in ConnIds : d # c => (Registered(d)' <=> Registered(d))) /\ Registered(c)'
  BY <1>7, <1>8 DEF Registered
<1>10. ConnsOf(u)' = ConnsOf(u) \cup {c} /\ \A v \in Users : v # u => ConnsOf(v)' = ConnsOf(v)
  <2>1. ASSUME NEW v \in Users PROVE {d \in ConnIds : Registered(d)' /\ conn'[d].user = v}
                                       = IF v = u THEN ConnsOf(v) \cup {c} ELSE ConnsOf(v)
    BY <1>6, <1>7, <1>8, <1>9 DEF ConnsOf
  <2>. QED  BY <1>4, <2>1 DEF ConnsOf
<1>11. /\ heard' \in [ConnIds -> [Users -> {"unheard", "online", "offline"}]]
       /\ \A d \in ConnIds, v \in Users : v # u \/ ~Registered(d) => heard'[d][v] = heard[d][v]
       /\ \A d \in ConnIds : ~(<<conn[d].user, u>> \in Sees /\ conn[d].user # u)
            => heard'[d] = heard[d]
       /\ \A d \in ConnIds : ConnsOf(u) = {} /\ <<conn[d].user, u>> \in Sees
            /\ conn[d].user # u /\ Registered(d) => heard'[d][u] = "online"
       /\ ConnsOf(u) # {} => heard' = heard
  <2>1. CASE ConnsOf(u) = {}
    BY <1>3, <1>4, <1>5, <2>1, AnnounceFacts
  <2>2. CASE ConnsOf(u) # {}
    BY <1>3, <1>5, <2>2
  <2>. QED  BY <2>1, <2>2
<1>12. \A v \in Users : heard'[c][v] = "unheard"
  BY <1>6, <1>11
<1>13. PresenceIsTruthful'
  <2>1. ASSUME NEW d \in ConnIds, NEW v \in Users, Registered(d)'
        PROVE  (heard'[d][v] = "online" => ConnsOf(v)' # {}) /\ (heard'[d][v] = "offline"
               => ConnsOf(v)' = {})
    <3>1. CASE d = c
      BY <1>12, <3>1
    <3>2. CASE d # c /\ v # u
      BY <1>4, <1>9, <1>10, <1>11, <2>1, <3>2 DEF PresenceIsTruthful
    <3>3. CASE d # c /\ v = u
      <4>1. Registered(d) /\ ConnsOf(v)' # {}
        BY <1>9, <1>10, <2>1, <3>3
      <4>2. CASE ConnsOf(u) = {}
        <5>1. CASE <<conn[d].user, u>> \in Sees /\ conn[d].user # u
          BY <1>11, <3>3, <4>1, <4>2, <5>1
        <5>2. CASE ~(<<conn[d].user, u>> \in Sees /\ conn[d].user # u)
          BY <1>4, <1>11, <3>3, <4>1, <5>2 DEF ConnsFit
        <5>. QED  BY <5>1, <5>2
      <4>3. CASE ConnsOf(u) # {}
        BY <1>4, <1>11, <3>3, <4>1, <4>3 DEF PresenceIsTruthful
      <4>. QED  BY <4>2, <4>3
    <3>. QED  BY <3>1, <3>2, <3>3
  <2>. QED  BY <2>1 DEF PresenceIsTruthful
<1>14. mem' \in [Users -> States] /\ mem'[u].known /\ \A v \in Users : mem[v].known
            => mem'[v].known
  <2>1. PICK k : k = Known(u)
    OBVIOUS
  <2>2. k \in States /\ k.known
    BY <1>4, <1>5, <2>1, KnownFacts
  <2>3. mem' = [mem EXCEPT ![u] = k]
    BY <1>3, <2>1
  <2>. QED  BY <1>4, <1>5, <2>2, <2>3
<1>15. StateWhileConnected'
  <2>1. ASSUME NEW d \in ConnIds, Registered(d)' PROVE mem'[conn'[d].user].known
    <3>1. CASE d = c
      BY <1>7, <1>8, <1>14, <3>1
    <3>2. CASE d # c
      BY <1>4, <1>5, <1>8, <1>9, <1>14, <2>1, <3>2, RegisteredFacts DEF StateWhileConnected
    <3>. QED  BY <3>1, <3>2
  <2>. QED  BY <2>1 DEF StateWhileConnected
<1>16. /\ reach' \in [ConnIds -> SUBSET Messages] /\ (\A d \in ConnIds : d # c
            => reach'[d] = reach[d])
       /\ r \in Rooms => reach'[c] = {r} \X ToSet(room[r].history)
  <2>1. CASE r \in Rooms
    <3>1. PICK fresh : fresh = {r} \X ToSet(room[r].history)
      OBVIOUS
    <3>2. fresh \in SUBSET Messages
      BY <1>4, <2>1, <3>1, HistoryFacts DEF Messages
    <3>3. reach' = [reach EXCEPT ![c] = fresh]
      BY <1>3, <2>1, <3>1
    <3>. QED  BY <1>5, <3>1, <3>2, <3>3
  <2>2. CASE r \notin Rooms
    BY <1>3, <1>5, <2>2
  <2>. QED  BY <2>1, <2>2
<1>17. NothingFallsBetween'
  <2>1. ASSUME NEW a \in Rooms, NEW d \in ConnIds, Registered(d)', conn'[d].at = a,
               NEW i \in DOMAIN room[a].history
        PROVE  \/ <<a, room[a].history[i]>> \in reach'[d] \cup muted
               \/ \E e \in ConnIds : conn'[e].at = a /\ talk[e].pc = "pushed"
                    /\ talk[e].n = room[a].history[i]
    <3>1. CASE d = c
      <4>1. a = r
        BY <1>7, <1>8, <2>1, <3>1
      <4>2. room[a].history[i] \in ToSet(room[a].history)
        BY DEF ToSet
      <4>. QED  BY <1>16, <3>1, <4>1, <4>2
    <3>2. CASE d # c
      <4>1. d \in InRoom(a)
        BY <1>8, <1>9, <2>1, <3>2 DEF InRoom
      <4>2. \/ <<a, room[a].history[i]>> \in reach[d] \cup muted
            \/ \E e \in ConnIds : conn[e].at = a /\ talk[e].pc = "pushed"
                 /\ talk[e].n = room[a].history[i]
        BY <1>4, <4>1 DEF NothingFallsBetween
      <4>3. \A e \in ConnIds : talk[e].pc = "pushed" => e # c
        BY <1>6 DEF Quiet
      <4>. QED  BY <1>8, <1>16, <3>2, <4>2, <4>3
    <3>. QED  BY <3>1, <3>2
  <2>2. room' = room /\ muted' = muted /\ talk' = talk
    BY <1>3
  <2>. QED  BY <2>1, <2>2 DEF NothingFallsBetween, InRoom
<1>18. ConnsFit'
  <2>1. ASSUME NEW d \in ConnIds
        PROVE  /\ conn'[d].phase = "new" => conn'[d] = NoConn /\ talk[d] = Quiet
                    /\ \A v \in Users : heard'[d][v] = "unheard"
               /\ \A v \in Users : Registered(d)' /\ heard'[d][v] # "unheard"
                    => <<conn'[d].user, v>> \in Sees /\ conn'[d].user # v
               /\ talk[d].pc \in {"stamped", "pushed"} => conn'[d].at \in Rooms
    <3>1. CASE d = c
      BY <1>6, <1>7, <1>8, <1>12, <3>1 DEF Quiet
    <3>2. CASE d # c
      <4>1. conn[d].phase = "new" => ~Registered(d)
        BY DEF Registered
      <4>2. conn'[d] = conn[d] /\ (Registered(d)' <=> Registered(d))
        BY <1>8, <1>9, <3>2
      <4>3. ASSUME NEW v \in Users, Registered(d), heard'[d][v] # "unheard"
            PROVE  <<conn[d].user, v>> \in Sees /\ conn[d].user # v
        <5>1. heard[d][v] # "unheard" => <<conn[d].user, v>> \in Sees /\ conn[d].user # v
          BY <1>4, <4>3 DEF ConnsFit
        <5>2. (v = u /\ <<conn[d].user, u>> \in Sees /\ conn[d].user # u)
                   \/ heard'[d][v] = heard[d][v]
          BY <1>11, <4>3
        <5>. QED  BY <4>3, <5>1, <5>2
      <4>. QED  BY <1>4, <1>11, <4>1, <4>2, <4>3 DEF ConnsFit
    <3>. QED  BY <3>1, <3>2
  <2>2. talk' = talk
    BY <1>3
  <2>. QED  BY <2>1, <2>2 DEF ConnsFit
<1>19. PICK p : p = IF req[q].kind = "session" THEN "persist" ELSE "upgrade"
  OBVIOUS
<1>20. PICK x : x = Connecting(req[q], p, c)
  OBVIOUS
<1>21. p \in ReqPoints /\ (p = "upgrade" \/ p = "persist")
  BY <1>19, Points
<1>22. x \in ReqRows /\ x.pc = p /\ x.kind = req[q].kind /\ x.at = r /\ x.conn = c
  BY <1>1, <1>4, <1>20, <1>21, ReqGoesTo
<1>23. req' = [req EXCEPT ![q] = x]
  BY <1>3, <1>5, <1>19, <1>20 DEF Connecting
<1>24. req' \in [Reqs -> {IdleReq} \cup ReqRows] /\ req'[q] = x /\ \A s \in Reqs : s # q
            => req'[s] = req[s]
  BY <1>5, <1>22, <1>23, OneRequest
<1>25. Given \subseteq Given' /\ c \in Given'
  BY <1>7, <1>8 DEF Given
<1>26. RequestsFit'
  <2>1. Fits(x, Given')
    BY <1>4, <1>22, <1>25 DEF Fits, Connects, Changes
  <2>. QED  BY <1>4, <1>24, <1>25, <2>1, RequestMoves
<1>27. HubTypeOK'
  BY <1>3, <1>4, <1>8, <1>11, <1>14, <1>16, <1>24, HubRows, HubTypedNext
<1>28. ChallengeFits' /\ ChallengeAdmitsOnce'
  BY <1>3 DEF HubInv, ChallengeFits, ChallengeAdmitsOnce
<1>. QED  BY <1>13, <1>15, <1>17, <1>18, <1>26, <1>27, <1>28, Zenon DEF HubInv

\* A socket opens, or its entry is left behind.
LEMMA UpgradeStep == ASSUME HubInv, NEW q \in Reqs, Upgrade(q) PROVE HubInv'
<1>1. PICK c : c = req[q].conn
  OBVIOUS
<1>2. PICK phase \in {"open", "leaked"} :
        conn' = IF conn[c].phase = "held" THEN [conn EXCEPT ![c].phase = phase] ELSE conn
  BY <1>1 DEF Upgrade
<1>3. /\ ReqAt(q, "upgrade") /\ req' = [req EXCEPT ![q] = IdleReq]
      /\ UNCHANGED <<heard, mem, saved, followed, room, reach, muted, talk, challenge, enabled,
           hubServed>>
  BY DEF Upgrade, Leave
<1>4. /\ c \in ConnIds
      /\ HubTypeOK /\ PresenceIsTruthful /\ StateWhileConnected /\ NothingFallsBetween
      /\ ConnsFit /\ RequestsFit
  BY <1>1, <1>3, AtFacts, Points DEF HubInv, Fits, Given
<1>5. conn \in [ConnIds -> ConnRows]
  BY <1>4, HubRows
<1>6. /\ conn' \in [ConnIds -> ConnRows]
      /\ \A d \in ConnIds : /\ conn'[d].user = conn[d].user /\ conn'[d].at = conn[d].at
                            /\ conn'[d] = conn[d] \/ (conn'[d].phase \in {"open", "leaked"}
                                 /\ conn[d].phase = "held")
  <2>1. CASE conn[c].phase = "held"
    <3>1. PICK entry : entry = [conn[c] EXCEPT !.phase = phase]
      OBVIOUS
    <3>2. conn[c] \in ConnRows
      BY <1>4, <1>5
    <3>3. entry \in ConnRows /\ entry.user = conn[c].user /\ entry.at = conn[c].at
          /\ entry.phase = phase
      BY <3>1, <3>2 DEF ConnRows
    <3>4. conn' = [conn EXCEPT ![c] = entry]
      BY <1>2, <1>5, <2>1, <3>1
    <3>. QED  BY <1>4, <1>5, <2>1, <3>3, <3>4
  <2>2. CASE conn[c].phase # "held"
    BY <1>2, <1>5, <2>2
  <2>. QED  BY <2>1, <2>2
<1>7. \A d \in ConnIds : (Registered(d)' <=> Registered(d)) /\ (conn'[d].phase = "new"
           => conn'[d] = conn[d])
  BY <1>6 DEF Registered
<1>8. \A v \in Users : ConnsOf(v)' = ConnsOf(v)
  BY <1>6, <1>7 DEF ConnsOf
<1>9. PresenceIsTruthful' /\ StateWhileConnected'
  BY <1>3, <1>4, <1>6, <1>7, <1>8 DEF PresenceIsTruthful, StateWhileConnected
<1>10. NothingFallsBetween'
  <2>1. \A a : InRoom(a)' = InRoom(a)
    BY <1>6, <1>7 DEF InRoom
  <2>2. ASSUME NEW a \in Rooms, NEW d \in InRoom(a), NEW i \in DOMAIN room[a].history
        PROVE  \/ <<a, room[a].history[i]>> \in reach[d] \cup muted
               \/ \E e \in ConnIds : conn'[e].at = a /\ talk[e].pc = "pushed"
                    /\ talk[e].n = room[a].history[i]
    <3>1. \/ <<a, room[a].history[i]>> \in reach[d] \cup muted
          \/ \E e \in ConnIds : conn[e].at = a /\ talk[e].pc = "pushed"
               /\ talk[e].n = room[a].history[i]
      BY <1>4 DEF NothingFallsBetween
    <3>. QED  BY <1>6, <3>1
  <2>3. room' = room /\ muted' = muted /\ talk' = talk /\ reach' = reach
    BY <1>3
  <2>. QED  BY <2>1, <2>2, <2>3 DEF NothingFallsBetween
<1>11. ConnsFit'
  <2>1. ASSUME NEW d \in ConnIds
        PROVE  /\ conn'[d].phase = "new" => conn'[d] = NoConn /\ talk[d] = Quiet
                    /\ \A v \in Users : heard[d][v] = "unheard"
               /\ \A v \in Users : Registered(d)' /\ heard[d][v] # "unheard"
                    => <<conn'[d].user, v>> \in Sees /\ conn'[d].user # v
               /\ talk[d].pc \in {"stamped", "pushed"} => conn'[d].at \in Rooms
    <3>1. /\ conn[d].phase = "new" => conn[d] = NoConn /\ talk[d] = Quiet
               /\ \A v \in Users : heard[d][v] = "unheard"
          /\ \A v \in Users : Registered(d) /\ heard[d][v] # "unheard"
               => <<conn[d].user, v>> \in Sees /\ conn[d].user # v
          /\ talk[d].pc \in {"stamped", "pushed"} => conn[d].at \in Rooms
      BY <1>4, Zenon DEF ConnsFit
    <3>. QED  BY <1>6, <1>7, <3>1
  <2>2. talk' = talk /\ heard' = heard
    BY <1>3
  <2>. QED  BY <2>1, <2>2 DEF ConnsFit
<1>12. Given \subseteq Given'
  BY <1>6, NoConnFacts DEF Given
<1>13. req' \in [Reqs -> {IdleReq} \cup ReqRows] /\ RequestsFit'
  <2>1. req \in [Reqs -> {IdleReq} \cup ReqRows]
    BY <1>4, HubRows
  <2>2. req' \in [Reqs -> {IdleReq} \cup ReqRows] /\ req'[q] = IdleReq
             /\ \A s \in Reqs : s # q => req'[s] = req[s]
    BY <1>3, <2>1
  <2>. QED  BY <1>4, <1>12, <2>2, RequestMoves
<1>14. HubTypeOK'
  BY <1>3, <1>4, <1>6, <1>13, HubRows, HubTypedNext
<1>15. ChallengeFits' /\ ChallengeAdmitsOnce'
  BY <1>3 DEF HubInv, ChallengeFits, ChallengeAdmitsOnce
<1>. QED  BY <1>9, <1>10, <1>11, <1>13, <1>14, <1>15, Zenon DEF HubInv

\* A connection is removed.
LEMMA UnregisteredKeeps ==
  ASSUME HubInv, NEW c \in ConnIds, Registered(c), Unregistered(c),
         saved' \in [Users -> States], req' \in [Reqs -> {IdleReq} \cup ReqRows],
              hubServed' \in 0 .. MaxHubServed,
         UNCHANGED <<followed, room, reach, muted, talk, challenge, enabled>>,
         Given' = Given => RequestsFit'
  PROVE  HubInv'
<1>1. PICK u : u = conn[c].user
  OBVIOUS
<1>2. /\ conn' = [conn EXCEPT ![c].phase = "gone"]
      /\ mem' = IF ConnsOf(u) = {c} THEN [mem EXCEPT ![u] = NoState] ELSE mem
      /\ heard' = IF ConnsOf(u) = {c} THEN Announce(u, "offline", {d \in ConnIds \ {c} : Registered(d)}) ELSE heard
  BY <1>1, Zenon DEF Unregistered
<1>3. HubTypeOK /\ PresenceIsTruthful /\ StateWhileConnected /\ NothingFallsBetween
      /\ ConnsFit /\ RequestsFit
  BY DEF HubInv
<1>4. /\ conn \in [ConnIds -> ConnRows]
      /\ heard \in [ConnIds -> [Users -> {"unheard", "online", "offline"}]]
      /\ mem \in [Users -> States] /\ u \in Users
  BY <1>1, <1>3, HubRows, RegisteredFacts
<1>5. /\ conn' \in [ConnIds -> ConnRows] /\ conn'[c].phase = "gone"
      /\ conn'[c].at = conn[c].at /\ conn'[c].user = u
      /\ \A d \in ConnIds : d # c => conn'[d] = conn[d]
  <2>1. PICK entry : entry = [conn[c] EXCEPT !.phase = "gone"]
    OBVIOUS
  <2>2. conn[c] \in ConnRows
    BY <1>4
  <2>3. entry \in ConnRows /\ entry.user = u /\ entry.at = conn[c].at /\ entry.phase = "gone"
    BY <1>1, <2>1, <2>2 DEF ConnRows
  <2>4. conn' = [conn EXCEPT ![c] = entry]
    BY <1>2, <1>4, <2>1
  <2>. QED  BY <1>4, <2>3, <2>4
<1>6. ~Registered(c)' /\ \A d \in ConnIds : d # c => (Registered(d)' <=> Registered(d))
  BY <1>5 DEF Registered
<1>7. /\ c \in ConnsOf(u) /\ ConnsOf(u)' = ConnsOf(u) \ {c}
      /\ \A v \in Users : v # u => ConnsOf(v)' = ConnsOf(v)
  <2>1. ASSUME NEW v \in Users PROVE {d \in ConnIds : Registered(d)'
               /\ conn'[d].user = v} = ConnsOf(v) \ {c}
    BY <1>5, <1>6 DEF ConnsOf
  <2>2. \A v \in Users : v # u => c \notin ConnsOf(v)
    BY <1>1 DEF ConnsOf
  <2>3. \A v \in Users : v # u => ConnsOf(v) \ {c} = ConnsOf(v)
    BY <2>2
  <2>4. \A v \in Users : ConnsOf(v)' = ConnsOf(v) \ {c}
    BY <2>1 DEF ConnsOf
  <2>. QED  BY <1>1, <1>4, <2>3, <2>4 DEF ConnsOf
<1>8. /\ heard' \in [ConnIds -> [Users -> {"unheard", "online", "offline"}]]
      /\ \A d \in ConnIds, v \in Users : v # u \/ ~Registered(d) => heard'[d][v] = heard[d][v]
      /\ \A d \in ConnIds : ~(<<conn[d].user, u>> \in Sees /\ conn[d].user # u)
           => heard'[d] = heard[d]
      /\ \A d \in ConnIds : ConnsOf(u) = {c} /\ <<conn[d].user, u>> \in Sees
           /\ conn[d].user # u /\ Registered(d) /\ d # c => heard'[d][u] = "offline"
      /\ ConnsOf(u) # {c} => heard' = heard
  <2>1. CASE ConnsOf(u) = {c}
    BY <1>2, <1>4, <2>1, AnnounceFacts
  <2>2. CASE ConnsOf(u) # {c}
    BY <1>2, <1>4, <2>2
  <2>. QED  BY <2>1, <2>2
<1>9. PresenceIsTruthful'
  <2>1. ASSUME NEW d \in ConnIds, NEW v \in Users, Registered(d)'
        PROVE  (heard'[d][v] = "online" => ConnsOf(v)' # {}) /\ (heard'[d][v] = "offline"
               => ConnsOf(v)' = {})
    <3>1. d # c /\ Registered(d)
      BY <1>6, <2>1
    <3>2. CASE v # u
      BY <1>3, <1>7, <1>8, <3>1, <3>2 DEF PresenceIsTruthful
    <3>3. CASE v = u /\ ConnsOf(u) = {c}
      <4>1. ConnsOf(u)' = {}
        BY <1>7, <3>3
      <4>2. CASE <<conn[d].user, u>> \in Sees /\ conn[d].user # u
        BY <1>8, <3>1, <3>3, <4>1, <4>2
      <4>3. CASE ~(<<conn[d].user, u>> \in Sees /\ conn[d].user # u)
        <5>1. heard'[d][u] = "unheard"
          BY <1>3, <1>4, <1>8, <3>1, <4>3 DEF ConnsFit
        <5>. QED  BY <3>3, <5>1
      <4>. QED  BY <4>2, <4>3
    <3>4. CASE v = u /\ ConnsOf(u) # {c}
      <4>1. ConnsOf(u)' # {} /\ ConnsOf(u) # {}
        BY <1>7, <3>4
      <4>. QED  BY <1>3, <1>8, <3>1, <3>4, <4>1 DEF PresenceIsTruthful
    <3>. QED  BY <3>2, <3>3, <3>4
  <2>. QED  BY <2>1 DEF PresenceIsTruthful
<1>10. mem' \in [Users -> States] /\ (ConnsOf(u) # {c} => mem' = mem)
            /\ \A v \in Users : v # u => mem'[v] = mem[v]
  BY <1>2, <1>4, StateFacts
<1>11. StateWhileConnected'
  <2>1. ASSUME NEW d \in ConnIds, Registered(d)' PROVE mem'[conn'[d].user].known
    <3>1. d # c /\ Registered(d) /\ conn'[d] = conn[d] /\ conn[d].user \in Users
      BY <1>4, <1>5, <1>6, <2>1, RegisteredFacts
    <3>2. conn[d].user = u => ConnsOf(u) # {c}
      BY <3>1 DEF ConnsOf
    <3>3. mem[conn[d].user].known
      BY <1>3, <3>1 DEF StateWhileConnected
    <3>. QED  BY <1>10, <3>1, <3>2, <3>3
  <2>. QED  BY <2>1 DEF StateWhileConnected
<1>12. NothingFallsBetween'
  <2>1. ASSUME NEW a \in Rooms, NEW d \in ConnIds, Registered(d)', conn'[d].at = a,
               NEW i \in DOMAIN room[a].history
        PROVE  \/ <<a, room[a].history[i]>> \in reach[d] \cup muted
               \/ \E e \in ConnIds : conn'[e].at = a /\ talk[e].pc = "pushed"
                    /\ talk[e].n = room[a].history[i]
    <3>1. d \in InRoom(a)
      BY <1>5, <1>6, <2>1 DEF InRoom
    <3>2. \/ <<a, room[a].history[i]>> \in reach[d] \cup muted
          \/ \E e \in ConnIds : conn[e].at = a /\ talk[e].pc = "pushed"
               /\ talk[e].n = room[a].history[i]
      BY <1>3, <3>1 DEF NothingFallsBetween
    <3>3. \A e \in ConnIds : conn'[e].at = conn[e].at
      BY <1>5
    <3>. QED  BY <3>2, <3>3
  <2>2. room' = room /\ muted' = muted /\ talk' = talk /\ reach' = reach
    OBVIOUS
  <2>. QED  BY <2>1, <2>2 DEF NothingFallsBetween, InRoom
<1>13. ConnsFit'
  <2>1. ASSUME NEW d \in ConnIds
        PROVE  /\ conn'[d].phase = "new" => conn'[d] = NoConn /\ talk[d] = Quiet
                    /\ \A v \in Users : heard'[d][v] = "unheard"
               /\ \A v \in Users : Registered(d)' /\ heard'[d][v] # "unheard"
                    => <<conn'[d].user, v>> \in Sees /\ conn'[d].user # v
               /\ talk[d].pc \in {"stamped", "pushed"} => conn'[d].at \in Rooms
    <3>1. /\ conn[d].phase = "new" => conn[d] = NoConn /\ talk[d] = Quiet
               /\ \A v \in Users : heard[d][v] = "unheard"
          /\ \A v \in Users : Registered(d) /\ heard[d][v] # "unheard"
               => <<conn[d].user, v>> \in Sees /\ conn[d].user # v
          /\ talk[d].pc \in {"stamped", "pushed"} => conn[d].at \in Rooms
      BY <1>3, Zenon DEF ConnsFit
    <3>2. CASE d = c
      BY <1>5, <1>6, <3>1, <3>2
    <3>3. CASE d # c
      <4>1. conn'[d] = conn[d] /\ (Registered(d)' <=> Registered(d))
                 /\ (conn[d].phase = "new" => ~Registered(d))
        BY <1>5, <1>6, <3>3 DEF Registered
      <4>2. ASSUME NEW v \in Users, Registered(d), heard'[d][v] # "unheard"
            PROVE  <<conn[d].user, v>> \in Sees /\ conn[d].user # v
        <5>1. (v = u /\ <<conn[d].user, u>> \in Sees /\ conn[d].user # u)
                   \/ heard'[d][v] = heard[d][v]
          BY <1>8, <4>2
        <5>. QED  BY <3>1, <4>2, <5>1
      <4>. QED  BY <1>8, <3>1, <4>1, <4>2
    <3>. QED  BY <3>2, <3>3
  <2>2. talk' = talk
    OBVIOUS
  <2>. QED  BY <2>1, <2>2 DEF ConnsFit
<1>14. RequestsFit'
  <2>1. conn[c] # NoConn /\ conn'[c] # NoConn
    BY <1>5, NoConnFacts DEF Registered
  <2>2. Given' = Given
    BY <1>5, <2>1 DEF Given
  <2>. QED  BY <2>2
<1>15. HubTypeOK'
  BY <1>3, <1>5, <1>8, <1>10, HubRows, HubTypedNext
<1>16. ChallengeFits' /\ ChallengeAdmitsOnce'
  BY DEF HubInv, ChallengeFits, ChallengeAdmitsOnce
<1>. QED  BY <1>9, <1>11, <1>12, <1>13, <1>14, <1>15, <1>16, Zenon DEF HubInv

\* A socket ends.
LEMMA EndSocketStep == ASSUME HubInv, NEW c \in ConnIds, EndSocket(c) PROVE HubInv'
<1>1. /\ conn[c].phase = "open" /\ Unregistered(c)
      /\ saved' = saved \/ saved' = [saved EXCEPT ![conn[c].user] = mem[conn[c].user]]
      /\ UNCHANGED <<followed, room, reach, muted, talk, req, challenge, enabled, hubServed>>
  BY DEF EndSocket
<1>2. Registered(c)
  BY <1>1 DEF Registered
<1>3. saved' \in [Users -> States]
  BY <1>1, HubRows, RegisteredFacts DEF HubInv
<1>4. Given' = Given => RequestsFit'
  BY <1>1, RequestsStand DEF HubInv
<1>. QED  BY <1>1, <1>2, <1>3, <1>4, UnregisteredKeeps, HubRows DEF HubInv

\* A connection is closed by force.
LEMMA ForceDisconnectStep == ASSUME HubInv, NEW q \in Reqs, NEW c \in ConnIds,
     ForceDisconnect(q, c) PROVE HubInv'
<1>1. PICK u : u = conn[c].user
  OBVIOUS
<1>2. PICK x : x = [pc |-> "save", kind |-> "left", user |-> u, at |-> Personal,
           snap |-> mem[u], conn |-> 0]
  OBVIOUS
<1>3. /\ HubServe /\ Registered(c) /\ Unregistered(c) /\ ReqAt(q, "idle")
      /\ req' = req \/ req' = [req EXCEPT ![q] = x]
      /\ UNCHANGED <<saved, followed, room, reach, muted, talk, challenge, enabled>>
  BY <1>1, <1>2 DEF ForceDisconnect
<1>4. u \in Users /\ mem[u] \in States /\ req \in [Reqs -> {IdleReq} \cup ReqRows]
  BY <1>1, HubRows, RegisteredFacts DEF HubInv
<1>5. x \in ReqRows /\ x.pc = "save" /\ x.kind = "left"
  BY <1>2, <1>4, Points, ReqRowFacts
<1>6. ASSUME NEW given PROVE Fits(x, given)
  BY <1>5 DEF Fits, Changes
<1>7. req' \in [Reqs -> {IdleReq} \cup ReqRows] /\ (Given' = Given => RequestsFit')
  <2>1. CASE req' = req
    BY <1>4, <2>1, RequestsStand DEF HubInv
  <2>2. CASE req' = [req EXCEPT ![q] = x]
    <3>1. req' \in [Reqs -> {IdleReq} \cup ReqRows] /\ req'[q] = x /\ \A p \in Reqs : p # q
               => req'[p] = req[p]
      BY <1>4, <1>5, <2>2, OneRequest
    <3>2. ASSUME Given' = Given PROVE RequestsFit'
      BY <1>6, <3>1, <3>2, RequestMoves DEF HubInv
    <3>. QED  BY <3>1, <3>2
  <2>. QED  BY <1>3, <2>1, <2>2
<1>8. hubServed' \in 0 .. MaxHubServed
  BY <1>3, HubServeFacts DEF HubInv
<1>. QED  BY <1>3, <1>7, <1>8, UnregisteredKeeps, HubRows DEF HubInv

-----------------------------------------------------------------------------
(* Frames.                                                                  *)

\* What a connection's task carries, by the point it has reached.
LEMMA TalkFacts ==
  ASSUME NEW x \in TalkRows
  PROVE  /\ x.pc \in {"quiet", "stamped", "pushed", "persist", "save"}
         /\ x.pc \in {"stamped", "pushed"} => x.n \in 1 .. MaxSent
         /\ x.pc = "pushed" => x.subs \in SUBSET Users
         /\ x.pc \in {"persist", "save"} => x.kind \in Changes /\ x.at \in Rooms
         /\ x.pc = "save" => x.snap \in States
BY DEF TalkRows, Quiet

\* The points a task moves on to.
LEMMA TalkKinds ==
  /\ Quiet \in TalkRows /\ Quiet.pc = "quiet"
  /\ \A n \in 1 .. MaxSent : \A x : x = [pc |-> "stamped", n |-> n] => x \in TalkRows
       /\ x.pc = "stamped" /\ x.n = n
  /\ \A n \in 1 .. MaxSent, subs \in SUBSET Users : \A x : x = [pc |-> "pushed", n |-> n,
       subs |-> subs]
        => x \in TalkRows /\ x.pc = "pushed" /\ x.n = n
  /\ \A kind \in Changes, r \in Rooms : \A x : x = [pc |-> "persist", kind |-> kind,
       at |-> r] => x \in TalkRows /\ x.pc = "persist"
  /\ \A kind \in Changes, r \in Rooms, s \in States : \A x : x = [pc |-> "save", kind |-> kind,
       at |-> r, snap |-> s]
        => x \in TalkRows /\ x.pc = "save"
BY DEF TalkRows, Quiet

\* A connection's task moves on, and nothing of the rooms moves.
LEMMA TalkAside ==
  ASSUME HubInv, NEW c \in ConnIds, NEW x \in TalkRows, talk' = [talk EXCEPT ![c] = x],
         talk[c].pc # "pushed", conn[c].phase # "new", x.pc \in {"stamped", "pushed"}
              => conn[c].at \in Rooms,
         UNCHANGED <<conn, heard, reach, muted, req, challenge, enabled>>,
              hubServed' \in 0 .. MaxHubServed,
         room' \in [Rooms -> RoomRows], \A r \in Rooms : room'[r].history = room[r].history,
         mem' \in [Users -> States], \A u \in Users : mem[u].known => mem'[u].known,
         saved' \in [Users -> States], followed' \in [Users -> SUBSET Rooms]
  PROVE  HubInv'
<1>1. HubTypeOK /\ PresenceIsTruthful /\ StateWhileConnected /\ NothingFallsBetween
      /\ ConnsFit /\ RequestsFit
  BY DEF HubInv
<1>2. talk' \in [ConnIds -> TalkRows] /\ talk'[c] = x /\ \A d \in ConnIds : d # c
           => talk'[d] = talk[d]
  BY <1>1, HubRows
<1>3. HubTypeOK'
  BY <1>1, <1>2, HubRows, HubTypedNext
<1>4. PresenceIsTruthful' /\ StateWhileConnected'
  BY <1>1, PresenceStands, StateStands
<1>5. NothingFallsBetween'
  <2>1. \A d \in ConnIds : talk[d].pc = "pushed" => talk'[d] = talk[d]
    BY <1>2
  <2>. QED  BY <1>1, <2>1, HistoryAside
<1>6. ConnsFit'
  BY <1>1, <1>2, ConnsStand
<1>7. Given' = Given
  BY DEF Given
<1>8. RequestsFit'
  BY <1>1, <1>7, RequestsStand
<1>9. ChallengeFits' /\ ChallengeAdmitsOnce'
  BY DEF HubInv, ChallengeFits, ChallengeAdmitsOnce
<1>. QED  BY <1>3, <1>4, <1>5, <1>6, <1>8, <1>9, Zenon DEF HubInv

\* A task that has begun belongs to a connection that has been registered.
LEMMA TalkBegun ==
  ASSUME HubInv, NEW c \in ConnIds
  PROVE  /\ talk[c] \in TalkRows /\ conn[c].user \in Users
         /\ talk[c] # Quiet \/ Registered(c) => conn[c].phase # "new"
         /\ talk[c].pc \in {"stamped", "pushed"} => conn[c].at \in Rooms
<1>1. talk[c] \in TalkRows /\ conn[c].user \in Users
  BY HubRows, RegisteredFacts DEF HubInv
<1>2. talk[c] # Quiet \/ Registered(c) => conn[c].phase # "new"
  BY DEF HubInv, ConnsFit, Registered
<1>3. talk[c].pc \in {"stamped", "pushed"} => conn[c].at \in Rooms
  BY Zenon DEF HubInv, ConnsFit
<1>. QED  BY <1>1, <1>2, <1>3

\* A follow frame.
LEMMA FollowFrameStep ==
  ASSUME HubInv, NEW c \in ConnIds, NEW kind \in Changes, NEW r \in Rooms, FollowFrame(c, kind, r)
  PROVE  HubInv'
<1>1. PICK u : u = conn[c].user
  OBVIOUS
<1>2. PICK x : x = [pc |-> "persist", kind |-> kind, at |-> r]
  OBVIOUS
<1>3. /\ HubServe /\ conn[c].phase = "open" /\ talk[c] = Quiet
      /\ mem' = [mem EXCEPT ![u] = Changed(u, kind, r)] /\ followed' = GivenUp(u, kind, r)
      /\ talk' = [talk EXCEPT ![c] = x]
      /\ UNCHANGED <<conn, heard, saved, room, reach, muted, req, challenge, enabled>>
  BY <1>1, <1>2, Zenon DEF FollowFrame
<1>4. x \in TalkRows /\ x.pc = "persist"
  BY <1>2, TalkKinds
<1>5. u \in Users /\ mem \in [Users -> States] /\ followed \in [Users -> SUBSET Rooms]
  BY <1>1, TalkBegun, HubRows DEF HubInv
<1>6. Changed(u, kind, r) \in States /\ Changed(u, kind, r).known
      /\ followed' \in [Users -> SUBSET Rooms]
  BY <1>3, <1>5, ChangedFacts, FollowFacts
<1>7. mem' \in [Users -> States] /\ \A v \in Users : mem[v].known => mem'[v].known
  BY <1>3, <1>5, <1>6
<1>8. hubServed' \in 0 .. MaxHubServed
  BY <1>3, HubServeFacts DEF HubInv
<1>9. talk[c].pc # "pushed"
  BY <1>3, TalkKinds
<1>. QED  BY <1>3, <1>4, <1>6, <1>7, <1>8, <1>9, TalkAside, HubRows DEF HubInv

\* Its snapshot.
LEMMA FrameSnapshotStep == ASSUME HubInv, NEW c \in ConnIds, FrameSnapshot(c) PROVE HubInv'
<1>1. PICK t : t = talk[c]
  OBVIOUS
<1>2. PICK s : s = Known(conn[c].user)
  OBVIOUS
<1>3. PICK x : x = [pc |-> "save", kind |-> t.kind, at |-> t.at, snap |-> s]
  OBVIOUS
<1>4. talk \in [ConnIds -> TalkRows]
  BY HubRows DEF HubInv
<1>5. /\ t.pc = "persist" /\ talk' = [talk EXCEPT ![c] = x]
      /\ UNCHANGED <<conn, heard, mem, saved, followed, room, reach, muted, req, challenge,
           enabled, hubServed>>
  BY <1>1, <1>2, <1>3, <1>4 DEF FrameSnapshot
<1>6. t \in TalkRows /\ t.kind \in Changes /\ t.at \in Rooms /\ conn[c].user \in Users
      /\ t # Quiet
  BY <1>1, <1>5, TalkBegun, TalkFacts, TalkKinds
<1>7. s \in States
  BY <1>2, <1>6, KnownFacts, HubRows DEF HubInv
<1>8. x \in TalkRows /\ x.pc = "save"
  BY <1>3, <1>6, <1>7, TalkKinds
<1>9. conn[c].phase # "new" /\ talk[c].pc # "pushed"
  BY <1>1, <1>5, <1>6, TalkBegun
<1>. QED  BY <1>5, <1>8, <1>9, TalkAside, HubRows DEF HubInv

\* Its write.
LEMMA FrameSaveStep == ASSUME HubInv, NEW c \in ConnIds, FrameSave(c) PROVE HubInv'
<1>1. PICK t, u : t = talk[c] /\ u = conn[c].user
  OBVIOUS
<1>2. /\ t.pc = "save"
      /\ \/ saved' = [saved EXCEPT ![u] = t.snap] /\ followed' = Told(u, t.kind, t.at)
         \/ UNCHANGED <<saved, followed>>
      /\ talk' = [talk EXCEPT ![c] = Quiet]
      /\ UNCHANGED <<conn, heard, mem, room, reach, muted, req, challenge, enabled, hubServed>>
  BY <1>1, Zenon DEF FrameSave
<1>3. t \in TalkRows /\ t.kind \in Changes /\ t.at \in Rooms /\ u \in Users
      /\ t.snap \in States /\ t # Quiet
  BY <1>1, <1>2, TalkBegun, TalkFacts, TalkKinds
<1>4. saved \in [Users -> States] /\ followed \in [Users -> SUBSET Rooms]
  BY HubRows DEF HubInv
<1>5. Told(u, t.kind, t.at) \in [Users -> SUBSET Rooms]
  BY <1>3, <1>4, FollowFacts
<1>6. saved' \in [Users -> States] /\ followed' \in [Users -> SUBSET Rooms]
  <2>1. CASE saved' = [saved EXCEPT ![u] = t.snap] /\ followed' = Told(u, t.kind, t.at)
    BY <1>3, <1>4, <1>5, <2>1
  <2>2. CASE UNCHANGED <<saved, followed>>
    BY <1>4, <2>2
  <2>. QED  BY <1>2, <2>1, <2>2
<1>7. conn[c].phase # "new" /\ talk[c].pc # "pushed"
  BY <1>1, <1>2, <1>3, TalkBegun
<1>. QED  BY <1>2, <1>6, <1>7, TalkKinds, TalkAside, HubRows DEF HubInv

\* A message is numbered.
LEMMA StampMessageStep == ASSUME HubInv, NEW c \in ConnIds, StampMessage(c) PROVE HubInv'
<1>1. PICK r : r = conn[c].at
  OBVIOUS
<1>2. PICK x : x = [pc |-> "stamped", n |-> room[r].seq + 1]
  OBVIOUS
<1>3. /\ conn[c].phase = "open" /\ r \in Rooms /\ talk[c] = Quiet /\ room[r].seq < MaxSent
      /\ room' = [room EXCEPT ![r].seq = @ + 1] /\ talk' = [talk EXCEPT ![c] = x]
      /\ UNCHANGED <<conn, heard, mem, saved, followed, reach, muted, req, challenge, enabled,
           hubServed>>
  BY <1>1, <1>2, Zenon DEF StampMessage
<1>4. PICK entry : entry = room[r]
  OBVIOUS
<1>5. entry \in RoomRows /\ entry.seq \in 0 .. MaxSent /\ entry.seq < MaxSent
      /\ room \in [Rooms -> RoomRows]
  BY <1>3, <1>4, HistoryFacts, HubRows DEF HubInv
<1>6. entry.seq + 1 \in 1 .. MaxSent /\ entry.seq + 1 \in 0 .. MaxSent
  BY <1>5, HubNumbers
<1>7. PICK more : more = [entry EXCEPT !.seq = entry.seq + 1]
  OBVIOUS
<1>8. more \in RoomRows /\ more.history = entry.history
  BY <1>5, <1>6, <1>7 DEF RoomRows
<1>9. room' = [room EXCEPT ![r] = more]
  BY <1>3, <1>4, <1>5, <1>7
<1>10. room' \in [Rooms -> RoomRows] /\ \A a \in Rooms : room'[a].history = room[a].history
  BY <1>3, <1>4, <1>5, <1>8, <1>9
<1>11. x \in TalkRows /\ x.pc = "stamped"
  BY <1>2, <1>4, <1>6, TalkKinds
<1>12. hubServed' \in 0 .. MaxHubServed
  BY <1>3 DEF HubInv, HubTypeOK
<1>13. talk[c].pc # "pushed"
  BY <1>3, TalkKinds
<1>. QED  BY <1>1, <1>3, <1>10, <1>11, <1>12, <1>13, TalkAside, HubRows DEF HubInv

\* A history that grows by one entry and drops its oldest beyond the cap.
LEMMA KeptFacts ==
  ASSUME HubTypeOK, NEW r \in Rooms, NEW n \in 1 .. MaxSent
  PROVE  /\ Kept(r, n) \in Seq(1 .. MaxSent) /\ Len(Kept(r, n)) <= HistoryCap
         /\ \A i \in DOMAIN Kept(r, n) : Kept(r, n)[i] = n
              \/ \E k \in DOMAIN room[r].history : Kept(r, n)[i] = room[r].history[k]
<1>1. PICK S : S = 1 .. MaxSent
  OBVIOUS
<1>2. PICK h : h = room[r].history
  OBVIOUS
<1>3. h \in Seq(S) /\ n \in S /\ Len(h) <= HistoryCap /\ Len(h) \in Nat
  BY <1>1, <1>2, HistoryFacts, HubRows
<1>4. PICK m : m = Len(h)
  OBVIOUS
<1>5. PICK g : g = Append(h, n)
  OBVIOUS
<1>6. /\ g \in Seq(S) /\ Len(g) = m + 1 /\ g[m + 1] = n /\ \A i \in 1 .. m : g[i] = h[i]
  BY <1>3, <1>4, <1>5
<1>7. Kept(r, n) = IF m + 1 > HistoryCap THEN Tail(g) ELSE g
  BY <1>2, <1>5, <1>6 DEF Kept
<1>8. DOMAIN h = 1 .. m /\ DOMAIN g = 1 .. (m + 1) /\ m \in Nat
  BY <1>3, <1>4, <1>6
<1>9. CASE m + 1 > HistoryCap
  <2>1. PICK b : b = Tail(g)
    OBVIOUS
  <2>2. b \in Seq(S) /\ Len(b) = m /\ \A i \in 1 .. m : b[i] = g[i + 1]
    BY <1>6, <1>8, <2>1
  <2>3. \A i \in 1 .. m : i + 1 = m + 1 \/ i + 1 \in 1 .. m
    BY <1>8
  <2>4. DOMAIN b = 1 .. m
    BY <2>2
  <2>5. \A i \in DOMAIN b : b[i] = n \/ \E k \in DOMAIN h : b[i] = h[k]
    BY <1>6, <1>8, <2>2, <2>3, <2>4
  <2>6. m <= HistoryCap
    BY <1>3, <1>4
  <2>. QED  BY <1>1, <1>2, <1>7, <1>9, <2>1, <2>2, <2>5, <2>6
<1>10. CASE ~(m + 1 > HistoryCap)
  <2>1. \A i \in 1 .. (m + 1) : i = m + 1 \/ i \in 1 .. m
    BY <1>8
  <2>2. \A i \in DOMAIN g : g[i] = n \/ \E k \in DOMAIN h : g[i] = h[k]
    BY <1>6, <1>8, <2>1
  <2>3. m + 1 <= HistoryCap
    BY <1>8, <1>10, HubNumbers
  <2>. QED  BY <1>1, <1>2, <1>6, <1>7, <1>10, <2>2, <2>3
<1>. QED  BY <1>9, <1>10

\* A message is kept in the history, about to be broadcast.
LEMMA KeepMessageStep == ASSUME HubInv, NEW c \in ConnIds, KeepMessage(c) PROVE HubInv'
<1>1. PICK r, n, subs : r = conn[c].at /\ n = talk[c].n /\ subs = Followers(r)
  OBVIOUS
<1>2. PICK x : x = [pc |-> "pushed", n |-> n, subs |-> subs]
  OBVIOUS
<1>3. HubTypeOK /\ PresenceIsTruthful /\ StateWhileConnected /\ NothingFallsBetween
      /\ ConnsFit /\ RequestsFit
  BY DEF HubInv
<1>4. talk \in [ConnIds -> TalkRows] /\ room \in [Rooms -> RoomRows]
  BY <1>3, HubRows
<1>5. /\ talk[c].pc = "stamped" /\ room' = [room EXCEPT ![r].history = Kept(r, n)]
      /\ talk' = [talk EXCEPT ![c] = x]
      /\ UNCHANGED <<conn, heard, mem, saved, followed, reach, muted, req, challenge, enabled,
           hubServed>>
  BY <1>1, <1>2, <1>4 DEF KeepMessage
<1>6. n \in 1 .. MaxSent /\ r \in Rooms /\ subs \in SUBSET Users /\ conn[c].phase # "new"
  BY <1>1, <1>5, TalkBegun, TalkFacts, TalkKinds DEF Followers
<1>7. x \in TalkRows /\ x.pc = "pushed" /\ x.n = n
  BY <1>2, <1>6, TalkKinds
<1>8. talk' \in [ConnIds -> TalkRows] /\ talk'[c] = x /\ \A d \in ConnIds : d # c
           => talk'[d] = talk[d]
  BY <1>4, <1>5, <1>7
<1>9. PICK h : h = Kept(r, n)
  OBVIOUS
<1>10. h \in Seq(1 .. MaxSent) /\ Len(h) <= HistoryCap
       /\ \A i \in DOMAIN h : h[i] = n
            \/ \E k \in DOMAIN room[r].history : h[i] = room[r].history[k]
  BY <1>3, <1>6, <1>9, KeptFacts
<1>11. /\ room' \in [Rooms -> RoomRows] /\ room'[r].history = h /\ \A a \in Rooms : a # r
            => room'[a] = room[a]
  <2>1. PICK entry : entry = [room[r] EXCEPT !.history = h]
    OBVIOUS
  <2>2. room[r] \in RoomRows
    BY <1>4, <1>6
  <2>3. entry \in RoomRows /\ entry.history = h
    BY <1>10, <2>1, <2>2 DEF RoomRows
  <2>4. room' = [room EXCEPT ![r] = entry]
    BY <1>4, <1>5, <1>9, <2>1
  <2>. QED  BY <1>4, <1>6, <2>3, <2>4
<1>12. \A a \in Rooms : Len(room'[a].history) <= HistoryCap
  BY <1>3, <1>10, <1>11, HubRows
<1>13. HubTypeOK'
  BY <1>3, <1>5, <1>8, <1>11, <1>12, HubRows, HubTypedNext
<1>14. PresenceIsTruthful' /\ StateWhileConnected'
  BY <1>3, <1>5, PresenceStands, StateStands
<1>15. NothingFallsBetween'
  <2>1. reach' = reach /\ muted' = muted /\ conn' = conn /\ \A a : InRoom(a)' = InRoom(a)
    BY <1>5 DEF InRoom, Registered
  <2>2. ASSUME NEW a \in Rooms, NEW d \in InRoom(a), NEW k \in DOMAIN room[a].history
        PROVE  \/ <<a, room[a].history[k]>> \in reach'[d] \cup muted'
               \/ \E e \in ConnIds : conn'[e].at = a /\ talk'[e].pc = "pushed"
                    /\ talk'[e].n = room[a].history[k]
    <3>1. \/ <<a, room[a].history[k]>> \in reach[d] \cup muted
          \/ \E e \in ConnIds : conn[e].at = a /\ talk[e].pc = "pushed"
               /\ talk[e].n = room[a].history[k]
      BY <1>3, <2>2, FallsNow
    <3>2. CASE <<a, room[a].history[k]>> \in reach[d] \cup muted
      BY <2>1, <3>2
    <3>3. CASE \E e \in ConnIds : conn[e].at = a /\ talk[e].pc = "pushed"
               /\ talk[e].n = room[a].history[k]
      BY <1>5, <1>8, <2>1, <3>3
    <3>. QED  BY <3>1, <3>2, <3>3
  <2>3. ASSUME NEW a \in Rooms, NEW d \in InRoom(a)', NEW i \in DOMAIN room'[a].history
        PROVE  \/ <<a, room'[a].history[i]>> \in reach'[d] \cup muted'
               \/ \E e \in ConnIds : conn'[e].at = a /\ talk'[e].pc = "pushed"
                    /\ talk'[e].n = room'[a].history[i]
    <3>1. d \in InRoom(a)
      BY <2>1, <2>3
    <3>2. CASE a # r
      <4>1. room'[a] = room[a]
        BY <1>11, <3>2
      <4>2. i \in DOMAIN room[a].history
        BY <2>3, <4>1
      <4>. QED  BY <2>2, <3>1, <4>1, <4>2
    <3>3. CASE a = r
      <4>1. room'[a].history = h /\ i \in DOMAIN h
        BY <1>11, <2>3, <3>3
      <4>2. CASE h[i] = n
        BY <1>1, <1>7, <1>8, <2>1, <3>3, <4>1, <4>2
      <4>3. CASE \E k \in DOMAIN room[r].history : h[i] = room[r].history[k]
        BY <2>2, <3>1, <3>3, <4>1, <4>3
      <4>. QED  BY <1>10, <4>1, <4>2, <4>3
    <3>. QED  BY <3>2, <3>3
  <2>. QED  BY <2>3, FallsNext
<1>16. ConnsFit'
  BY <1>1, <1>3, <1>5, <1>6, <1>8, ConnsStand
<1>17. Given' = Given
  BY <1>5 DEF Given
<1>18. RequestsFit'
  BY <1>3, <1>5, <1>17, RequestsStand
<1>19. ChallengeFits' /\ ChallengeAdmitsOnce'
  BY <1>5 DEF HubInv, ChallengeFits, ChallengeAdmitsOnce
<1>. QED  BY <1>13, <1>14, <1>15, <1>16, <1>18, <1>19, Zenon DEF HubInv

\* A message is broadcast, or suppressed.
LEMMA FanOutStep == ASSUME HubInv, NEW c \in ConnIds, FanOut(c) PROVE HubInv'
<1>1. PICK r, n, subs : r = conn[c].at /\ n = talk[c].n /\ subs = talk[c].subs
  OBVIOUS
<1>2. /\ talk[c].pc = "pushed" /\ Sent(r, n, subs) /\ talk' = [talk EXCEPT ![c] = Quiet]
      /\ UNCHANGED <<conn, heard, mem, saved, followed, room, req, challenge, enabled, hubServed>>
  BY <1>1, Zenon DEF FanOut
<1>3. HubTypeOK /\ PresenceIsTruthful /\ StateWhileConnected /\ NothingFallsBetween
      /\ ConnsFit /\ RequestsFit
  BY DEF HubInv
<1>4. talk \in [ConnIds -> TalkRows] /\ reach \in [ConnIds -> SUBSET Messages]
      /\ muted \in SUBSET Messages
  BY <1>3, HubRows
<1>5. n \in 1 .. MaxSent /\ r \in Rooms
  BY <1>1, <1>2, TalkBegun, TalkFacts
<1>6. PICK m : m = <<r, n>>
  OBVIOUS
<1>7. m \in Messages
  BY <1>5, <1>6 DEF Messages
<1>8. talk' \in [ConnIds -> TalkRows] /\ talk'[c] = Quiet /\ \A d \in ConnIds : d # c
           => talk'[d] = talk[d]
  BY <1>2, <1>4, TalkKinds
<1>9. /\ reach' \in [ConnIds -> SUBSET Messages] /\ muted' \in SUBSET Messages
      /\ muted \subseteq muted'
      /\ \A d \in ConnIds : reach[d] \subseteq reach'[d]
      /\ \A d \in InRoom(r) : m \in reach'[d] \cup muted'
  <2>1. CASE enabled
    <3>1. /\ reach' = [d \in ConnIds |->
                         IF d \in InRoom(r) \/ (Registered(d) /\ conn[d].at = Personal
                              /\ conn[d].user \in subs)
                         THEN reach[d] \cup {m} ELSE reach[d]]
          /\ muted' = muted
      BY <1>2, <1>6, <2>1 DEF Sent
    <3>2. \A d \in InRoom(r) : d \in ConnIds
      BY DEF InRoom
    <3>. QED  BY <1>4, <1>7, <3>1, <3>2
  <2>2. CASE ~enabled
    <3>1. muted' = muted \cup {m} /\ reach' = reach
      BY <1>2, <1>6, <2>2 DEF Sent
    <3>. QED  BY <1>4, <1>7, <3>1
  <2>. QED  BY <2>1, <2>2
<1>10. HubTypeOK'
  BY <1>2, <1>3, <1>8, <1>9, HubRows, HubTypedNext
<1>11. PresenceIsTruthful' /\ StateWhileConnected'
  BY <1>2, <1>3, PresenceStands, StateStands
<1>12. NothingFallsBetween'
  <2>1. ASSUME NEW a \in Rooms, NEW d \in InRoom(a), NEW i \in DOMAIN room[a].history
        PROVE  \/ <<a, room[a].history[i]>> \in reach'[d] \cup muted'
               \/ \E e \in ConnIds : conn[e].at = a /\ talk'[e].pc = "pushed"
                    /\ talk'[e].n = room[a].history[i]
    <3>1. \/ <<a, room[a].history[i]>> \in reach[d] \cup muted
          \/ \E e \in ConnIds : conn[e].at = a /\ talk[e].pc = "pushed"
               /\ talk[e].n = room[a].history[i]
      BY <1>3, FallsNow
    <3>2. d \in ConnIds
      BY DEF InRoom
    <3>3. CASE <<a, room[a].history[i]>> \in reach[d] \cup muted
      BY <1>9, <3>2, <3>3
    <3>4. ASSUME NEW e \in ConnIds, conn[e].at = a, talk[e].pc = "pushed",
                 talk[e].n = room[a].history[i]
          PROVE  \/ <<a, room[a].history[i]>> \in reach'[d] \cup muted'
                 \/ \E f \in ConnIds : conn[f].at = a /\ talk'[f].pc = "pushed"
                      /\ talk'[f].n = room[a].history[i]
      <4>1. CASE e = c
        <5>1. a = r /\ room[a].history[i] = n
          BY <1>1, <3>4, <4>1
        <5>. QED  BY <1>6, <1>9, <5>1
      <4>2. CASE e # c
        BY <1>8, <3>4, <4>2
      <4>. QED  BY <4>1, <4>2
    <3>. QED  BY <3>1, <3>3, <3>4
  <2>2. room' = room /\ conn' = conn /\ \A a : InRoom(a)' = InRoom(a)
    BY <1>2 DEF InRoom, Registered
  <2>. QED  BY <2>1, <2>2 DEF NothingFallsBetween
<1>13. ConnsFit'
  <2>1. conn[c].phase # "new"
    BY <1>2, TalkBegun, TalkKinds
  <2>. QED  BY <1>2, <1>3, <1>8, <2>1, TalkKinds, ConnsStand
<1>14. Given' = Given
  BY <1>2 DEF Given
<1>15. RequestsFit'
  BY <1>2, <1>3, <1>14, RequestsStand
<1>16. ChallengeFits' /\ ChallengeAdmitsOnce'
  BY <1>2 DEF HubInv, ChallengeFits, ChallengeAdmitsOnce
<1>. QED  BY <1>10, <1>11, <1>12, <1>13, <1>15, <1>16, Zenon DEF HubInv

-----------------------------------------------------------------------------
(* Challenges, the feature flag, restarts.                                   *)

\* A challenge that is open has let nobody in.
LEMMA ChallengeFacts ==
  ASSUME HubInv
  PROVE  /\ challenge.state \in {"none", "issued", "stale"} /\ challenge.admitted \in Nat
         /\ challenge.admitted <= 1 /\ (challenge.state # "none" => challenge.admitted = 0)
         /\ challenge = [state |-> challenge.state, admitted |-> challenge.admitted]
BY HubRows DEF HubInv, ChallengeFits, ChallengeAdmitsOnce

\* A challenge changes, and a request perhaps begins.
LEMMA ChallengeMoves ==
  ASSUME HubInv, NEW s \in {"none", "issued", "stale"}, NEW n \in {0, 1}, s # "none" => n = 0,
         challenge' = [state |-> s, admitted |-> n],
         UNCHANGED <<conn, heard, mem, saved, followed, room, reach, muted, talk>>,
         req' \in [Reqs -> {IdleReq} \cup ReqRows], RequestsFit',
         enabled' \in BOOLEAN, hubServed' \in 0 .. MaxHubServed
  PROVE  HubInv'
<1>1. challenge' \in [state : {"none", "issued", "stale"}, admitted : Nat]
           /\ challenge'.state = s /\ challenge'.admitted = n
  OBVIOUS
<1>2. HubTypeOK'
  BY <1>1, HubRows, HubTypedNext DEF HubInv
<1>3. ChallengeFits' /\ ChallengeAdmitsOnce'
  BY <1>1 DEF ChallengeFits, ChallengeAdmitsOnce
<1>. QED  BY <1>2, <1>3, HubAside

\* A challenge is issued.
LEMMA IssueChallengeStep == ASSUME HubInv, IssueChallenge PROVE HubInv'
<1>1. /\ challenge = [state |-> "none", admitted |-> 0]
      /\ challenge' = [challenge EXCEPT !.state = "issued"]
      /\ UNCHANGED <<conn, heard, mem, saved, followed, room, reach, muted, talk, req, enabled>>
      /\ hubServed' \in 0 .. MaxHubServed
  BY HubServeFacts DEF HubInv, IssueChallenge
<1>2. challenge' = [state |-> "issued", admitted |-> 0]
  BY <1>1
<1>3. RequestsFit'
  BY <1>1, RequestsStand DEF HubInv, Given
<1>. QED  BY <1>1, <1>2, <1>3, ChallengeMoves, HubRows DEF HubInv

\* It expires.
LEMMA ExpireChallengeStep == ASSUME HubInv, ExpireChallenge PROVE HubInv'
<1>1. /\ challenge.state = "issued" /\ challenge' = [challenge EXCEPT !.state = "stale"]
      /\ UNCHANGED <<conn, heard, mem, saved, followed, room, reach, muted, talk, req, enabled,
           hubServed>>
  BY DEF ExpireChallenge
<1>2. challenge' = [state |-> "stale", admitted |-> 0]
  BY <1>1, ChallengeFacts
<1>3. RequestsFit'
  BY <1>1, RequestsStand DEF HubInv, Given
<1>. QED  BY <1>1, <1>2, <1>3, ChallengeMoves, HubRows DEF HubInv

\* It is used up, whatever comes of it.
LEMMA ConsumeChallengeStep ==
  ASSUME HubInv, NEW q \in Reqs, NEW u \in Users, NEW r \in Rooms,
         ConsumeChallenge(q, u, r) PROVE HubInv'
<1>1. PICK x : x = [pc |-> "act", kind |-> "room", user |-> u, at |-> r, snap |-> NoState,
           conn |-> 0]
  OBVIOUS
<1>2. /\ challenge.state \in {"issued", "stale"} /\ hubServed' \in 0 .. MaxHubServed
      /\ \/ challenge' = [state |-> "none", admitted |-> challenge.admitted + 1]
              /\ req' = [req EXCEPT ![q] = x]
         \/ challenge' = [state |-> "none", admitted |-> 1] /\ UNCHANGED req
      /\ UNCHANGED <<conn, heard, mem, saved, followed, room, reach, muted, talk, enabled>>
  BY <1>1, HubServeFacts DEF HubInv, ConsumeChallenge
<1>3. challenge' = [state |-> "none", admitted |-> 1]
  BY <1>2, ChallengeFacts
<1>4. x \in ReqRows /\ x.pc = "act" /\ x.kind = "room"
  BY <1>1, StateFacts, ReqRowFacts, Points DEF Connects
<1>5. Fits(x, Given)
  BY <1>4 DEF Fits, Changes
<1>6. req \in [Reqs -> {IdleReq} \cup ReqRows] /\ Given' = Given /\ RequestsFit
  BY <1>2, HubRows DEF HubInv, Given
<1>7. req' \in [Reqs -> {IdleReq} \cup ReqRows] /\ RequestsFit'
  <2>1. CASE req' = [req EXCEPT ![q] = x]
    <3>1. req' \in [Reqs -> {IdleReq} \cup ReqRows] /\ req'[q] = x /\ \A p \in Reqs : p # q
               => req'[p] = req[p]
      BY <1>4, <1>6, <2>1, OneRequest
    <3>. QED  BY <1>5, <1>6, <3>1, RequestMoves
  <2>2. CASE req' = req
    BY <1>6, <2>2, RequestsStand
  <2>. QED  BY <1>2, <2>1, <2>2
<1>. QED  BY <1>2, <1>3, <1>7, ChallengeMoves, HubRows DEF HubInv

\* The feature is turned on or off.
LEMMA SetFeatureStep == ASSUME HubInv, SetFeature PROVE HubInv'
<1>1. /\ enabled' = ~enabled /\ hubServed' \in 0 .. MaxHubServed
      /\ UNCHANGED <<conn, heard, mem, saved, followed, room, reach, muted, talk, req, challenge>>
  BY HubServeFacts DEF HubInv, SetFeature
<1>2. RequestsFit'
  BY <1>1, RequestsStand DEF HubInv, Given
<1>3. challenge' = [state |-> challenge.state, admitted |-> challenge.admitted]
  BY <1>1, ChallengeFacts
<1>4. challenge.admitted \in {0, 1} /\ challenge.state \in {"none", "issued", "stale"}
      /\ (challenge.state # "none" => challenge.admitted = 0)
  BY ChallengeFacts
<1>. QED  BY <1>1, <1>2, <1>3, <1>4, ChallengeMoves, HubRows DEF HubInv

\* A room without history.
LEMMA EmptyRooms == NoRoom \in RoomRows /\ Len(NoRoom.history) = 0 /\ DOMAIN NoRoom.history = {}
BY HubNumbers DEF NoRoom, RoomRows

\* A restart leaves no connection.
LEMMA HubRestartStep == ASSUME HubInv, HubRestart PROVE HubInv'
<1>1. /\ conn' = [c \in ConnIds |-> IF conn[c] = NoConn THEN NoConn
           ELSE [conn[c] EXCEPT !.phase = "gone"]]
      /\ mem' = [u \in Users |-> NoState] /\ room' = [r \in Rooms |-> NoRoom]
      /\ reach' = [c \in ConnIds |-> {}] /\ muted' = {} /\ talk' = [c \in ConnIds |-> Quiet]
      /\ req' = [q \in Reqs |-> IdleReq] /\ challenge' = [state |-> "none", admitted |-> 0]
      /\ UNCHANGED <<heard, saved, followed, enabled>> /\ hubServed' \in 0 .. MaxHubServed
  BY HubServeFacts DEF HubInv, HubRestart
<1>2. HubTypeOK /\ ConnsFit /\ conn \in [ConnIds -> ConnRows]
  BY HubRows DEF HubInv
<1>3. ASSUME NEW c \in ConnIds
      PROVE  /\ conn'[c] \in ConnRows /\ conn'[c].phase \in {"new", "gone"}
             /\ conn'[c].phase = "new" => conn[c] = NoConn /\ conn'[c] = NoConn
  <2>1. CASE conn[c] = NoConn
    BY <1>1, <2>1, NoConnFacts
  <2>2. CASE conn[c] # NoConn
    <3>1. conn'[c] = [conn[c] EXCEPT !.phase = "gone"] /\ conn[c] \in ConnRows
      BY <1>1, <1>2, <2>2
    <3>. QED  BY <3>1 DEF ConnRows
  <2>. QED  BY <2>1, <2>2
<1>4. conn' \in [ConnIds -> ConnRows]
  BY <1>1, <1>3
<1>5. \A c \in ConnIds : ~Registered(c)'
  BY <1>3 DEF Registered
<1>6. \A r : InRoom(r)' = {}
  BY <1>5 DEF InRoom
<1>7. /\ mem' \in [Users -> States] /\ room' \in [Rooms -> RoomRows]
           /\ (\A r \in Rooms : Len(room'[r].history) <= HistoryCap)
      /\ reach' \in [ConnIds -> SUBSET Messages] /\ muted' \in SUBSET Messages
      /\ talk' \in [ConnIds -> TalkRows]
      /\ req' \in [Reqs -> {IdleReq} \cup ReqRows]
  BY <1>1, StateFacts, EmptyRooms, HubNumbers, TalkKinds
<1>8. challenge' \in [state : {"none", "issued", "stale"}, admitted : Nat]
  BY <1>1
<1>9. HubTypeOK'
  BY <1>1, <1>2, <1>4, <1>7, <1>8, HubRows, HubTypedNext
<1>10. PresenceIsTruthful' /\ StateWhileConnected'
  BY <1>5 DEF PresenceIsTruthful, StateWhileConnected
<1>11. NothingFallsBetween'
  BY <1>6 DEF NothingFallsBetween
<1>12. ConnsFit'
  <2>1. ASSUME NEW c \in ConnIds
        PROVE  /\ conn'[c].phase = "new" => /\ conn'[c] = NoConn /\ talk'[c] = Quiet
                                           /\ \A u \in Users : heard'[c][u] = "unheard"
               /\ ~(talk'[c].pc \in {"stamped", "pushed"})
    <3>1. talk'[c] = Quiet /\ heard' = heard
      BY <1>1
    <3>2. NoConn.phase = "new"
      BY NoConnFacts
    <3>3. ASSUME conn'[c].phase = "new"
          PROVE  conn'[c] = NoConn /\ \A u \in Users : heard[c][u] = "unheard"
      BY <1>2, <1>3, <3>2, <3>3 DEF ConnsFit
    <3>4. ~(Quiet.pc \in {"stamped", "pushed"})
      BY DEF Quiet
    <3>. QED  BY <3>1, <3>3, <3>4
  <2>. QED  BY <1>5, <2>1, Zenon DEF ConnsFit
<1>13. RequestsFit'
  BY <1>1 DEF RequestsFit
<1>14. ChallengeFits' /\ ChallengeAdmitsOnce'
  BY <1>1 DEF ChallengeFits, ChallengeAdmitsOnce
<1>. QED  BY <1>9, <1>10, <1>11, <1>12, <1>13, <1>14, Zenon DEF HubInv

-----------------------------------------------------------------------------
(* Every behaviour of the hub.                                              *)

\* Nobody has connected.
LEMMA HubInitially == HubInit => HubInv
<1>. HAVE HubInit
<1>1. /\ conn = [c \in ConnIds |-> NoConn]
      /\ heard = [c \in ConnIds |-> [u \in Users |-> "unheard"]]
      /\ mem = [u \in Users |-> NoState] /\ saved = [u \in Users |-> NoState]
      /\ followed = [u \in Users |-> {}]
      /\ room = [r \in Rooms |-> NoRoom] /\ reach = [c \in ConnIds |-> {}] /\ muted = {}
      /\ talk = [c \in ConnIds |-> Quiet] /\ req = [q \in Reqs |-> IdleReq]
      /\ challenge = [state |-> "none", admitted |-> 0] /\ enabled = TRUE /\ hubServed = 0
  BY DEF HubInit
<1>2. HubTypeOK
  <2>1. /\ conn \in [ConnIds -> ConnRows] /\ mem \in [Users -> States]
        /\ saved \in [Users -> States]
        /\ room \in [Rooms -> RoomRows] /\ (\A r \in Rooms : Len(room[r].history) <= HistoryCap)
        /\ talk \in [ConnIds -> TalkRows] /\ req \in [Reqs -> {IdleReq} \cup ReqRows]
    BY <1>1, NoConnFacts, StateFacts, EmptyRooms, HubNumbers, TalkKinds
  <2>2. /\ heard \in [ConnIds -> [Users -> {"unheard", "online", "offline"}]]
        /\ followed \in [Users -> SUBSET Rooms]
        /\ reach \in [ConnIds -> SUBSET Messages] /\ muted \in SUBSET Messages
        /\ enabled \in BOOLEAN
        /\ hubServed \in 0 .. MaxHubServed
    BY <1>1, HubNumbers
  <2>3. challenge \in [state : {"none", "issued", "stale"}, admitted : Nat]
    BY <1>1
  <2>. QED  BY <2>1, <2>2, <2>3, HubTyped
<1>3. \A c \in ConnIds : ~Registered(c)
  BY <1>1, NoConnFacts DEF Registered
<1>4. PresenceIsTruthful /\ StateWhileConnected
  BY <1>3 DEF PresenceIsTruthful, StateWhileConnected
<1>5. NothingFallsBetween
  BY <1>3 DEF NothingFallsBetween, InRoom
<1>6. ConnsFit
  <2>1. \A c \in ConnIds : conn[c] = NoConn /\ talk[c] = Quiet
             /\ (\A u \in Users : heard[c][u] = "unheard")
                           /\ ~(talk[c].pc \in {"stamped", "pushed"})
    BY <1>1 DEF Quiet
  <2>. QED  BY <1>3, <2>1, Zenon DEF ConnsFit
<1>7. RequestsFit
  BY <1>1 DEF RequestsFit
<1>8. ChallengeFits /\ ChallengeAdmitsOnce
  BY <1>1 DEF ChallengeFits, ChallengeAdmitsOnce
<1>. QED  BY <1>2, <1>4, <1>5, <1>6, <1>7, <1>8, Zenon DEF HubInv

\* Nothing happens.
LEMMA HubStands == HubInv /\ UNCHANGED hubVars => HubInv'
<1>. HAVE HubInv /\ UNCHANGED hubVars
<1>1. HubTypeOK' /\ (\A u \in Users : mem[u].known => mem'[u].known)
  BY HubRows, HubTypedNext DEF HubInv, hubVars
<1>2. RequestsFit' /\ ChallengeFits' /\ ChallengeAdmitsOnce'
  BY DEF HubInv, RequestsFit, ChallengeFits, ChallengeAdmitsOnce, hubVars
<1>. QED  BY <1>1, <1>2, HubAside DEF hubVars

\* Every step of the hub keeps the invariant.
LEMMA HubStep == HubInv /\ [HubNext]_hubVars => HubInv'
<1>. HAVE HubInv /\ [HubNext]_hubVars
<1>1. CASE UNCHANGED hubVars
  BY <1>1, HubStands
<1>2. ASSUME NEW q \in Reqs, NEW u \in Users,
             \/ SessionConnect(q, u) \/ GatewayConnect(q, u, Personal)
             \/ \E r \in Rooms : \/ GatewayConnect(q, u, r) \/ RoomConnect(q, u, r)
                                 \/ FollowRequest(q, u, r) \/ UnfollowRequest(q, u, r)
      PROVE  HubInv'
  BY <1>2, RequestSteps
<1>3. ASSUME NEW q \in Reqs, \/ Hydrate(q) \/ HydrateUser(q) \/ RefuseConnect(q) \/ Upgrade(q)
                             \/ ChangeState(q) \/ TakeSnapshot(q) \/ SaveSnapshot(q)
      PROVE  HubInv'
  BY <1>3, HydrateStep, HydrateUserStep, RefuseConnectStep, UpgradeStep, ChangeStateStep,
     TakeSnapshotStep, SaveSnapshotStep
<1>4. ASSUME NEW q \in Reqs, NEW c \in ConnIds, Register(q, c) \/ ForceDisconnect(q, c)
      PROVE  HubInv'
  BY <1>4, RegisterStep, ForceDisconnectStep
<1>5. ASSUME NEW q \in Reqs, NEW u \in Users, NEW r \in Rooms, ConsumeChallenge(q, u, r)
      PROVE  HubInv'
  BY <1>5, ConsumeChallengeStep
<1>6. ASSUME NEW c \in ConnIds, SocketStep(c) \/ StampMessage(c) PROVE HubInv'
  BY <1>6, EndSocketStep, FrameSnapshotStep, FrameSaveStep, KeepMessageStep, FanOutStep,
     StampMessageStep DEF SocketStep
<1>7. ASSUME NEW c \in ConnIds, NEW r \in Rooms, NEW kind \in Changes, FollowFrame(c, kind, r)
      PROVE  HubInv'
  BY <1>7, FollowFrameStep
<1>8. ASSUME IssueChallenge \/ ExpireChallenge \/ SetFeature \/ HubRestart PROVE HubInv'
  BY <1>8, IssueChallengeStep, ExpireChallengeStep, SetFeatureStep, HubRestartStep
<1>. QED  BY <1>1, <1>2, <1>3, <1>4, <1>5, <1>6, <1>7, <1>8, Zenon DEF HubNext

\* Whoever is connected has a state in memory, is seen as such by those who may see it, misses no
\* message of its room, and got in by a challenge of its own, whatever the orders of registering,
\* saying, broadcasting and leaving (HubInv).
THEOREM ConnectionsAreSound == HubSpec => []HubInv
<1>1. HubInit => HubInv
  BY HubInitially
<1>2. HubInv /\ [HubNext]_hubVars => HubInv'
  BY HubStep
<1>. QED  BY <1>1, <1>2, PTL DEF HubSpec


-----------------------------------------------------------------------------
(* The three of them.                                                       *)

\* A step of one of the three leaves the others alone.
LEMMA PartsRun == [Next]_vars => [DeliveryNext]_deliveryVars /\ [QueueNext]_queueVars
     /\ [HubNext]_hubVars
<1>. HAVE [Next]_vars
<1>1. CASE Next
  BY <1>1, Zenon DEF Next, Delivering, Queueing, Connected
<1>2. CASE UNCHANGED vars
  BY <1>2, Zenon DEF vars
<1>. QED  BY <1>1, <1>2

\* What is true of deliveries, of jobs and of connections is true of the process that has all
\* three (DeliveryInv, QueueInv, HubInv), and no step of it tells an untruth about a delivery
\* (DeliverySteps).
THEOREM MessagesAreSound == Spec => [](DeliveryInv /\ QueueInv /\ HubInv) /\ DeliverySteps
<1>1. Init => DeliveryInit /\ QueueInit /\ HubInit
  BY DEF Init
<1>2. Spec => DeliveryInit /\ [][DeliveryNext]_deliveryVars
  BY <1>1, PartsRun, PTL DEF Spec
<1>3. Spec => QueueInit /\ [][QueueNext]_queueVars
  BY <1>1, PartsRun, PTL DEF Spec
<1>4. Spec => HubInit /\ [][HubNext]_hubVars
  BY <1>1, PartsRun, PTL DEF Spec
<1>5. DeliveryInit /\ [][DeliveryNext]_deliveryVars => []DeliveryInv
  BY DeliveryInitially, DeliveryStep, PTL
<1>6. QueueRest /\ OnRecord => QueueInv
  BY QueueWhole
<1>7. QueueInit /\ [][QueueNext]_queueVars => []QueueInv
  BY <1>6, QueueInitially, RecordInitially, QueueStep, RecordStep, PTL
<1>8. HubInit /\ [][HubNext]_hubVars => []HubInv
  BY HubInitially, HubStep, PTL
<1>9. DeliveryInv /\ [DeliveryNext]_deliveryVars => [\A m \in Msgs : TruthfulStep(m)]_deliveryVars
  BY OutcomesAreTruthful
<1>10. DeliveryInv /\ [DeliveryNext]_deliveryVars
            => [\A m \in Msgs : ConfirmedStep(m)]_deliveryVars
  BY ConfirmationsStand
<1>11. DeliveryInv /\ [DeliveryNext]_deliveryVars => [\A m \in Msgs : WindowStep(m)]_deliveryVars
  BY WindowsClose
<1>12. Spec => DeliverySteps
  BY <1>2, <1>5, <1>9, <1>10, <1>11, PTL
     DEF DeliverySteps, OutcomeIsTruthful, ConfirmedIsNotTakenBack, RecallWindowCloses
<1>. QED  BY <1>2, <1>3, <1>4, <1>5, <1>7, <1>8, <1>12, PTL
==============================================================================
