----------------------------- MODULE MCMessages -----------------------------
(* The delivery of messages, the job queue and the realtime hub of one      *)
(* process, for TLC.  They meet only through rows and calls that none of    *)
(* them waits for, so one run takes them one at a time: part says which of  *)
(* them a behaviour is about.                                               *)
EXTENDS MessageDelivery, JobQueue, RealtimeHub

VARIABLE part

vars == <<part, deliveryVars, queueVars, hubVars>>

\* One user sees the other.
MCSees == {<<"v", "u">>}

Init ==
  /\ part \in {"delivery", "queue", "hub"}
  /\ DeliveryInit /\ QueueInit /\ HubInit

In(p) == part = p /\ UNCHANGED part
Delivering == In("delivery") /\ UNCHANGED <<queueVars, hubVars>>
Queueing == In("queue") /\ UNCHANGED <<deliveryVars, hubVars>>
Connected == In("hub") /\ UNCHANGED <<deliveryVars, queueVars>>

Next ==
  \/ Delivering /\ DeliveryNext
  \/ Queueing /\ QueueNext
  \/ Connected /\ HubNext

\* The fairness of DeliverySpec, of QueueSpec and of HubSpec.
Fairness ==
  /\ \A m \in Msgs : WF_vars(Delivering /\ DeliveryTask(m))
  /\ WF_vars(Queueing /\ Consumer)
  /\ \A t \in Tries : WF_vars(Queueing /\ Wake(t))
  /\ \A c \in ConnIds : WF_vars(Connected /\ SocketStep(c))

Spec == Init /\ [][Next]_vars /\ Fairness

\* What was begun is settled: pending messages, accepted jobs and open sockets.
MessagesSettle == PendingResolves /\ EveryJobSettles /\ SocketsEnd
=============================================================================
