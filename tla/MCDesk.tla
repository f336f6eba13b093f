------------------------------- MODULE MCDesk -------------------------------
(* Reminders, reports on demand, report schedules and the installer, for    *)
(* TLC.  They share no state: a behaviour is about one of them.             *)
EXTENDS Reminders, Reports, ReportSchedules, Installer

VARIABLE part

vars == <<part, remVars, repVars, schedVars, installVars>>

MCSteps == <<1, 2, 1>>

Init == /\ part \in {"reminders", "reports", "schedules", "installer"}
        /\ RemInit /\ RepInit /\ SchedInit /\ InstallInit

In(p) == part = p /\ UNCHANGED part
InReminders == In("reminders") /\ UNCHANGED <<repVars, schedVars, installVars>>
InReports == In("reports") /\ UNCHANGED <<remVars, schedVars, installVars>>
InSchedules == In("schedules") /\ UNCHANGED <<remVars, repVars, installVars>>
InInstaller == In("installer") /\ UNCHANGED <<remVars, repVars, schedVars>>

Next == \/ InReminders /\ RemNext
        \/ InReports /\ RepNext
        \/ InSchedules /\ SchedNext
        \/ InInstaller /\ InstallNext

\* The fairness of RemSpec, RepSpec and InstallSpec.
Fairness ==
  /\ WF_vars(InReminders /\ PassStep("loop")) /\ WF_vars(InReminders /\ RemTick)
  /\ \A w \in Writers : WF_vars(InReports /\ Write(w))
  /\ \A r \in Runs : WF_vars(InInstaller /\ TaskStep(r))

Spec == Init /\ [][Next]_vars /\ Fairness

\* Reports made on demand and on schedule agree with what they stand for.
ReportsInv == RepInv /\ SchedInv

\* What is due, generated or provisioned concludes, and an installation's outcome is final.
DeskConcludes == DueIsServed /\ GenerationEnds /\ RunsEnd /\ OutcomeKept
=============================================================================
