----------------------------- MODULE Installer -----------------------------
(***************************************************************************)
(* The installer (bin/installer.rs): a request starts a run, a spawned     *)
(* task takes it through the provisioning steps, each one or more calls to *)
(* the provider, and other requests read or cancel it.  Runs live in a map *)
(* behind a mutex that the task takes anew for every check and every       *)
(* write; the provider's resources outlive whatever the run says of them.  *)
(***************************************************************************)
EXTENDS Naturals, Sequences, FiniteSets

CONSTANTS Runs, Projects,
          STEPS       \* the steps: for each the number of calls it makes

ASSUME InstallerAssumption == STEPS \in Seq(Nat \ {0}) /\ STEPS /= <<>>

VARIABLES
  run,     \* run -> [project, status, current, completed, resources, percent]:
           \* current is 0 for null, completed and resources count steps
  installTask,    \* run -> [at, step, call]
  cloud,   \* what the provider has created, as <<run, step, call>>
  stopped  \* run -> step its task was at when it was cancelled, 0 before

installVars == <<run, installTask, cloud, stopped>>

NoRun == [project |-> "none", status |-> "none", current |-> 0, completed |-> 0,
          resources |-> 0, percent |-> 0]
Ended == [at |-> "none", step |-> 0, call |-> 0]

InstallInit ==
  /\ run = [r \in Runs |-> NoRun] /\ installTask = [r \in Runs |-> Ended]
  /\ cloud = {} /\ stopped = [r \in Runs |-> 0]

Set(r, s) == run' = [run EXCEPT ![r].status = s, ![r].current = 0]
TaskAt(r, a) == installTask[r].at = a
Move(r, a) == installTask' = [installTask EXCEPT ![r].at = a]
Exit(r) == installTask' = [installTask EXCEPT ![r] = Ended]

\* A step is one to three calls; its last is, for the site, the upload of the artifact.
LastCall(t) == t.call = STEPS[t.step]
Provides(r, t) == cloud' = cloud \cup {<<r, t.step, t.call>>}
\* A call that is refused, or whose answer does not arrive or cannot be read.
CallFails(r, t) == Move(r, "fail") /\ (UNCHANGED cloud \/ Provides(r, t))

IsCancelled(r) == run[r].status = "cancelled"

-----------------------------------------------------------------------------
(* deployment_start: the run is listed, then worked on by a task of its own. *)

DeploymentStart(r, p) ==
  /\ run[r] = NoRun
  /\ run' = [run EXCEPT ![r] = [NoRun EXCEPT !.project = p, !.status = "running", !.current = 1]]
  /\ installTask' = [installTask EXCEPT ![r] = [at |-> "verify", step |-> 1, call |-> 1]]
  /\ UNCHANGED <<cloud, stopped>>

Verify(r) ==
  /\ TaskAt(r, "verify")
  /\ \E a \in {"check", "fail"} : Move(r, a)
  /\ UNCHANGED <<run, cloud, stopped>>

\* Before each step, after it, and before the run is called complete.
CheckCancelled(r) ==
  /\ installTask[r].at \in {"check", "after", "last"}
  /\ IF IsCancelled(r) THEN Exit(r)
     ELSE Move(r, CASE TaskAt(r, "check") -> "provision"
                    [] TaskAt(r, "after") -> "record"
                    [] TaskAt(r, "last") -> "complete")
  /\ UNCHANGED <<run, cloud, stopped>>

\* provision_step, one call after the other; the first that fails ends it.
ProvisionCall(r) ==
  /\ TaskAt(r, "provision")
  /\ LET t == installTask[r]
     IN  \/ /\ Provides(r, t)
            /\ IF LastCall(t) THEN Move(r, "after")
               ELSE installTask' = [installTask EXCEPT ![r].call = @ + 1]
         \/ CallFails(r, t)
  /\ UNCHANGED <<run, stopped>>

\* MUTANT of RecordStep: the step's resource is listed with the next one.
RecordStepEarly(r) ==
  /\ TaskAt(r, "record")
  /\ LET i == installTask[r].step
     IN  /\ run' = [run EXCEPT ![r].completed = i, ![r].resources = i - 1,
                               ![r].current = IF i < Len(STEPS) THEN i + 1 ELSE 0,
                               ![r].percent = (i * 100) \div Len(STEPS)]
         /\ installTask' = [installTask EXCEPT ![r] = IF i < Len(STEPS)
                                        THEN [at |-> "check", step |-> i + 1, call |-> 1]
                                        ELSE [at |-> "last", step |-> i, call |-> 1]]
  /\ UNCHANGED <<cloud, stopped>>

RecordStep(r) ==
  /\ TaskAt(r, "record")
  /\ LET i == installTask[r].step
     IN  /\ run' = [run EXCEPT ![r].completed = i, ![r].resources = i,
                               ![r].current = IF i < Len(STEPS) THEN i + 1 ELSE 0,
                               ![r].percent = (i * 100) \div Len(STEPS)]
         /\ installTask' = [installTask EXCEPT ![r] = IF i < Len(STEPS)
                                        THEN [at |-> "check", step |-> i + 1, call |-> 1]
                                        ELSE [at |-> "last", step |-> i, call |-> 1]]
  /\ UNCHANGED <<cloud, stopped>>

MarkCompleted(r) ==
  /\ TaskAt(r, "complete")
  /\ Set(r, "completed")
  /\ Exit(r)
  /\ UNCHANGED <<cloud, stopped>>

\* A failing verification or step, whatever the run's status has become.
MarkFailed(r) ==
  /\ TaskAt(r, "fail")
  /\ Set(r, "failed")
  /\ Exit(r)
  /\ UNCHANGED <<cloud, stopped>>

-----------------------------------------------------------------------------
\* deployment_cancel: of the runs of a project it takes whichever it finds first.
DeploymentCancel(p) ==
  \E r \in Runs :
    /\ run[r].project = p /\ run[r].status = "running"
    /\ Set(r, "cancelled")
    /\ stopped' = [stopped EXCEPT ![r] = installTask[r].step]
    /\ UNCHANGED <<installTask, cloud>>

TaskStep(r) ==
  \/ Verify(r)
  \/ CheckCancelled(r)
  \/ ProvisionCall(r)
  \/ RecordStep(r)
  \/ MarkCompleted(r)
  \/ MarkFailed(r)

InstallNext ==
  \/ \E r \in Runs : TaskStep(r) \/ \E p \in Projects : DeploymentStart(r, p)
  \/ \E p \in Projects : DeploymentCancel(p)

InstallSpec == InstallInit /\ [][InstallNext]_installVars /\ \A r \in Runs : WF_installVars(TaskStep(r))

-----------------------------------------------------------------------------
Finished(r) == {i \in DOMAIN STEPS : \A c \in 1..STEPS[i] : <<r, i, c>> \in cloud}
Percentages == {(n * 100) \div Len(STEPS) : n \in 0..Len(STEPS)}

RunRows == [project : Projects \cup {"none"},
            status : {"none", "running", "completed", "failed", "cancelled"},
            current : 0..Len(STEPS), completed : 0..Len(STEPS), resources : 0..Len(STEPS),
            percent : Percentages]
RunTasks == [at : {"none", "verify", "check", "provision", "fail", "after", "record", "last", "complete"},
             step : Nat, call : Nat]

InstTypeOK ==
  /\ run \in [Runs -> RunRows] /\ installTask \in [Runs -> RunTasks]
  /\ stopped \in [Runs -> 0..Len(STEPS)]
  /\ \A x \in cloud : x \in Runs \X Nat \X Nat /\ x[2] \in DOMAIN STEPS /\ x[3] \in 1..STEPS[x[2]]

\* Whatever a run says it has completed is there, and it lists every resource of it: a
\* completed run has every call of every step behind it.  What the provider has beyond
\* that, a call that failed included, is of the one step that comes next.
ReportedIsThere(r) ==
  /\ 1..run[r].completed \subseteq Finished(r)
  /\ run[r].resources = run[r].completed
  /\ run[r].percent = (run[r].completed * 100) \div Len(STEPS)
  /\ run[r].status = "completed" => Finished(r) = DOMAIN STEPS
  /\ \A i \in DOMAIN STEPS : \A c \in 1..STEPS[i] :
       <<r, i, c>> \in cloud => i <= run[r].completed + 1

\* "stop an active in-memory run": a cancelled run provisions no step but the one that
\* was under way when it was cancelled.
CancelStops(r) ==
  stopped[r] > 0 => \A i \in DOMAIN STEPS : \A c \in 1..STEPS[i] :
                       <<r, i, c>> \in cloud => i <= stopped[r]

\* An outcome is final: a run reported completed or failed is never reported as
\* anything else (one reported cancelled may be, by the last write of its task).
OutcomeKept ==
  [][\A r \in Runs : run[r].status \in {"completed", "failed"} =>
       run'[r].status = run[r].status]_installVars

\* "rollback on failure": a failed run leaves nothing at the provider.
FailureRollsBack == \A r \in Runs : run[r].status = "failed" => \A x \in cloud : x[1] /= r

\* Every run is over some time, provided the provider answers every call.
RunsEnd == []<>(\A r \in Runs : run[r].status /= "running")

-----------------------------------------------------------------------------
(* Why they hold: the inductive invariant.                                  *)

NextCall == {"verify", "check", "provision", "fail"}  \* the task's call is still to be made
StepMade == {"after", "record", "last", "complete"}   \* its step is

TaskIsStaged(r) ==
  LET t == installTask[r]
  IN  t /= Ended =>
        /\ t.at \in NextCall \cup StepMade
        /\ t.step \in DOMAIN STEPS /\ t.call \in 1..STEPS[t.step]
        /\ t.at \in {"last", "complete"} => t.step = Len(STEPS)

\* What the task has behind it: all calls before its next one, and no other, unless the
\* one that failed was served.
Behind(t, i, c) == i < t.step \/ (i = t.step /\ (c < t.call \/ t.at \in StepMade))
CloudIsBehind(r) ==
  LET t == installTask[r]
  IN  t /= Ended =>
        \A i \in DOMAIN STEPS : \A c \in 1..STEPS[i] :
          /\ Behind(t, i, c) => <<r, i, c>> \in cloud
          /\ <<r, i, c>> \in cloud =>
               Behind(t, i, c) \/ (t.at = "fail" /\ i = t.step /\ c = t.call)

\* The run says how far its task is, and a cancelled task gets to the end of its step.
TaskIsOnRecord(r) ==
  LET t == installTask[r]
  IN  /\ t /= Ended =>
           /\ run[r].status \in {"running", "cancelled"}
           /\ run[r].completed = IF t.at \in {"last", "complete"} THEN t.step ELSE t.step - 1
      /\ run[r].status = "running" => t /= Ended /\ stopped[r] = 0
      /\ t /= Ended /\ stopped[r] > 0 =>
           t.step <= stopped[r] \/ (t.at = "check" /\ t.step = stopped[r] + 1)

NothingBeforeTheStart(r) ==
  run[r].status = "none" =>
    /\ run[r] = NoRun /\ installTask[r] = Ended /\ stopped[r] = 0
    /\ \A i \in DOMAIN STEPS : \A c \in 1..STEPS[i] : <<r, i, c>> \notin cloud

\* What a run reports is there, and a cancelled one provisions no further step.
InstInv ==
  /\ InstTypeOK
  /\ \A r \in Runs :
       /\ TaskIsStaged(r) /\ CloudIsBehind(r) /\ TaskIsOnRecord(r) /\ NothingBeforeTheStart(r)
       /\ ReportedIsThere(r) /\ CancelStops(r)
=============================================================================
