------------------------------ MODULE MCFanOut ------------------------------
(* The relay of events between processes and the web chat's channel, for    *)
(* TLC.  They share no state: a behaviour is about one of them.             *)
EXTENDS EventFanOut, CustomerChannel

VARIABLE part

vars == <<part, fanOutVars, channelVars>>

Init == part \in {"fanout", "channel"} /\ FanOutInit /\ ChannelInit

In(p) == part = p /\ UNCHANGED part
InFanOut == In("fanout") /\ UNCHANGED channelVars
InChannel == In("channel") /\ UNCHANGED fanOutVars

Next == (InFanOut /\ FanOutNext) \/ (InChannel /\ ChannelNext)

\* The fairness of FanOutSpec and ChannelSpec.
Fairness ==
  /\ \A h \in Raisers : WF_vars(InFanOut /\ \E q \in Queues : QueueTask(h, q))
  /\ \A h \in Hosts : WF_vars(InFanOut /\ RelayTask(h))
  /\ \A m \in Msgs : WF_vars(InChannel /\ RequestStep(m)) /\ WF_vars(InChannel /\ RefreshStep(m))

Spec == Init /\ [][Next]_vars /\ Fairness

\* What the relay and the channel promise over time: every row reaches the others, queues
\* drain and refreshes end; links stay, and no frame takes a viewer back.
FanOutPromises == RelayReaches /\ QueueDrains /\ RefreshEnds /\ AttachmentStays /\ FramesGoForward
=============================================================================
