---------------------------- MODULE MCWorkbench ----------------------------
(* The agents' workbench, for TLC: files, conversation sessions, labels,    *)
(* channel connections, auto-reply rules and hours, collaboration and the   *)
(* notification inbox.  They share no state: a behaviour is about one.      *)
EXTENDS Uploads, ConversationSessions, Labels, Connections, AutoReplyRules,
        BusinessHours, Collaboration, Notifications, TLC

VARIABLE part

vars == <<part, upVars, sessVars, labelVars, connVars, ruleVars, hourVars, collabVars, notVars>>

CONSTANTS x1, x2, y1, y2, z1, z2, b1, s1, s2

\* An hour from now, written an hour east of UTC: what the server sets is in UTC.
MCExpiries == {[at |-> 2, ahead |-> 1]}
MCLists == {<<y1, y2>>, <<y2, y1>>}

\* A day's window, one past midnight, one all day, and one switched off.
MCEntries == {[day |-> 0, open |-> 1, close |-> 2, on |-> TRUE],
              [day |-> 1, open |-> 2, close |-> 1, on |-> TRUE],
              [day |-> 1, open |-> 0, close |-> 0, on |-> TRUE],
              [day |-> 2, open |-> 0, close |-> 2, on |-> TRUE],
              [day |-> 2, open |-> 1, close |-> 2, on |-> FALSE]}

Init ==
  /\ part \in {"uploads", "sessions", "labels", "connections", "rules", "hours", "collaboration", "inbox"}
  /\ UpInit /\ SessInit /\ LabelInit /\ ConnInit /\ RulesInit /\ HoursInit /\ CollabInit /\ NotInit
  \* A part that does not run starts in one state of those it may start in.
  /\ part /= "labels" => \A t \in Tags : tagRow[t] = NoTag
  /\ part /= "connections" => \A i \in Rows : conn[i] = Unmade
  \* A disabled recipient is passed over as a purged one is: all start active.
  /\ \A a \in Staff : standing[a] = "active"

In(p) == part = p /\ UNCHANGED part

Next ==
  \/ /\ In("uploads") /\ UpNext
     /\ UNCHANGED <<sessVars, labelVars, connVars, ruleVars, hourVars, collabVars, notVars>>
  \/ /\ In("sessions") /\ SessNext
     /\ UNCHANGED <<upVars, labelVars, connVars, ruleVars, hourVars, collabVars, notVars>>
  \/ /\ In("labels") /\ LabelNext
     /\ UNCHANGED <<upVars, sessVars, connVars, ruleVars, hourVars, collabVars, notVars>>
  \/ /\ In("connections") /\ ConnNext
     /\ UNCHANGED <<upVars, sessVars, labelVars, ruleVars, hourVars, collabVars, notVars>>
  \/ /\ In("rules") /\ RulesNext
     /\ UNCHANGED <<upVars, sessVars, labelVars, connVars, hourVars, collabVars, notVars>>
  \/ /\ In("hours") /\ HoursNext
     /\ UNCHANGED <<upVars, sessVars, labelVars, connVars, ruleVars, collabVars, notVars>>
  \/ /\ In("collaboration") /\ CollabNext
     /\ UNCHANGED <<upVars, sessVars, labelVars, connVars, ruleVars, hourVars, notVars>>
  \/ /\ In("inbox") /\ NotNext
     /\ UNCHANGED <<upVars, sessVars, labelVars, connVars, ruleVars, hourVars, collabVars>>

Spec == Init /\ [][Next]_vars

\* The parts share their model values: callers of a kind are interchangeable.
Symmetry == Permutations(Callers) \cup Permutations(Tabs) \cup Permutations(Staff)

\* The auto-reply component: rules and business hours.
AutoReplyInv == RulesInv /\ HoursInv

\* What no step of the workbench does: put a message into a closed session, lapse a fresh
\* sign of presence, or move the moment a notification was first read at.
WorkbenchSteps == MessageInActive /\ FreshStays /\ FirstReadingStands
============================================================================
