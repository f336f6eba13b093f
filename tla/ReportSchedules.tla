-------------------------- MODULE ReportSchedules --------------------------
(***************************************************************************)
(* Report schedules (domain/reports: scheduler.rs run_due and the schedule *)
(* handlers).  A pass takes the due schedules, opens a run row, generates  *)
(* (object, then row), closes the run and advances the schedule, or counts *)
(* the failed runs and gives the schedule up at its retry ceiling.  A      *)
(* statement after the run row that fails is logged, and the pass goes on; *)
(* the process may stop between any two.  next_run_at is in the past (due) *)
(* or ahead.                                                               *)
(***************************************************************************)
EXTENDS Naturals, FiniteSets

CONSTANTS Schedules,
          Ceiling,      \* max_retries
          MaxFailures,    \* bound: failing statements and restarts
          MaxDays       \* bound: times the schedules become due again

ASSUME ReportSchedulesAssumption ==
  Ceiling \in Nat \ {0} /\ {MaxFailures, MaxDays} \subseteq Nat /\ "none" \notin Schedules

VARIABLES
  sched,    \* schedule -> [active, due, ran, deleted]
  runs,     \* schedule -> [success, failed, running]: its scheduled_report_runs
  made,     \* schedule -> [files, rows]: the objects and reports it produced
  rounds,   \* the pass: [at, todo, s]
  failures, days

schedVars == <<sched, runs, made, rounds, failures, days>>

NoRound == [at |-> "idle", todo |-> {}, s |-> "none"]

SchedInit ==
  /\ sched = [s \in Schedules |-> [active |-> TRUE, due |-> FALSE, ran |-> 0, deleted |-> FALSE]]
  /\ runs = [s \in Schedules |-> [success |-> 0, failed |-> 0, running |-> 0]]
  /\ made = [s \in Schedules |-> [files |-> 0, rows |-> 0]]
  /\ rounds = NoRound /\ failures = 0 /\ days = 0

Failure == failures < MaxFailures /\ failures' = failures + 1
NextRound == rounds' = IF rounds.todo = {} THEN NoRound
                       ELSE [at |-> "next", todo |-> rounds.todo, s |-> "none"]

-----------------------------------------------------------------------------
(* The schedule handlers and the clock.                                     *)

UpdateScheduled(s) ==
  /\ ~sched[s].deleted
  /\ sched' = [sched EXCEPT ![s].due = FALSE]
  /\ UNCHANGED <<runs, made, rounds, failures, days>>

DeleteScheduled(s) ==
  /\ ~sched[s].deleted
  /\ sched' = [sched EXCEPT ![s].deleted = TRUE, ![s].active = FALSE]
  /\ UNCHANGED <<runs, made, rounds, failures, days>>

NextDay ==
  /\ days < MaxDays
  /\ days' = days + 1
  /\ sched' = [s \in Schedules |-> [sched[s] EXCEPT !.due = TRUE]]
  /\ UNCHANGED <<runs, made, rounds, failures>>

-----------------------------------------------------------------------------
(* run_due.                                                                 *)

DueSchedules == {s \in Schedules : ~sched[s].deleted /\ sched[s].active /\ sched[s].due}

RunDue ==
  /\ rounds.at = "idle" /\ DueSchedules /= {}
  /\ rounds' = [at |-> "next", todo |-> DueSchedules, s |-> "none"]
  /\ UNCHANGED <<sched, runs, made, failures, days>>

\* The run row is inserted; without it the schedule is skipped.
BeginRun(s) ==
  /\ rounds.at = "next" /\ s \in rounds.todo
  /\ \/ /\ rounds' = [at |-> "write", todo |-> rounds.todo \ {s}, s |-> s]
        /\ runs' = [runs EXCEPT ![s].running = @ + 1]
        /\ UNCHANGED failures
     \/ /\ Failure
        /\ rounds' = IF rounds.todo = {s} THEN NoRound ELSE [rounds EXCEPT !.todo = @ \ {s}]
        /\ runs' \in {runs, [runs EXCEPT ![s].running = @ + 1]}
  /\ UNCHANGED <<sched, made, days>>

\* generate_report_run: not generatable or not writable, or the object.
WriteObject ==
  /\ rounds.at = "write"
  /\ \/ /\ made' = [made EXCEPT ![rounds.s].files = @ + 1]
        /\ rounds' = [rounds EXCEPT !.at = "row"]
     \/ rounds' = [rounds EXCEPT !.at = "failed"] /\ UNCHANGED made
  /\ UNCHANGED <<sched, runs, failures, days>>

\* The creator is looked up and the report inserted.
InsertReport ==
  /\ rounds.at = "row"
  /\ \/ /\ made' = [made EXCEPT ![rounds.s].rows = @ + 1]
        /\ rounds' = [rounds EXCEPT !.at = "success"]
        /\ UNCHANGED failures
     \/ /\ Failure
        /\ made' \in {made, [made EXCEPT ![rounds.s].rows = @ + 1]}
        /\ rounds' = [rounds EXCEPT !.at = "failed"]
  /\ UNCHANGED <<sched, runs, days>>

\* The run row is marked; a write that fails leaves it running, and the pass goes on.
CloseRun(at, after, mark) ==
  /\ rounds.at = at
  /\ \/ /\ runs' = [runs EXCEPT ![rounds.s] = mark]
        /\ UNCHANGED failures
     \/ Failure /\ UNCHANGED runs
  /\ rounds' = [rounds EXCEPT !.at = after]
  /\ UNCHANGED <<sched, made, days>>

RecordSuccess ==
  CloseRun("success", "advance",
           [runs[rounds.s] EXCEPT !.success = @ + 1, !.running = @ - 1])
RecordFailure ==
  CloseRun("failed", "count", [runs[rounds.s] EXCEPT !.failed = @ + 1, !.running = @ - 1])

\* The schedule is written last, or it is not and stays due.
WriteSchedule(at, row) ==
  /\ rounds.at = at
  /\ \/ /\ sched' = [sched EXCEPT ![rounds.s] = row]
        /\ UNCHANGED failures
     \/ Failure /\ UNCHANGED sched
  /\ NextRound
  /\ UNCHANGED <<runs, made, days>>

Advance == WriteSchedule("advance", [sched[rounds.s] EXCEPT !.due = FALSE, !.ran = @ + 1])
GiveUp == WriteSchedule("giveup", [sched[rounds.s] EXCEPT !.active = FALSE])
RetryLater == WriteSchedule("later", [sched[rounds.s] EXCEPT !.due = FALSE])

\* MUTANT of CountFailures: every run that is closed counts, not the failed ones.
CountRuns ==
  /\ rounds.at = "count"
  /\ rounds' = [rounds EXCEPT !.at =
                  IF runs[rounds.s].failed + runs[rounds.s].success >= Ceiling
                  THEN "giveup" ELSE "later"]
  /\ UNCHANGED <<sched, runs, made, failures, days>>

\* The failed runs are counted; a count that fails is none.
CountFailures ==
  /\ rounds.at = "count"
  /\ \E n \in {0, runs[rounds.s].failed} :
       /\ IF n = runs[rounds.s].failed THEN UNCHANGED failures ELSE Failure
       /\ rounds' = [rounds EXCEPT !.at = IF n >= Ceiling THEN "giveup" ELSE "later"]
  /\ UNCHANGED <<sched, runs, made, days>>

SchedRestart ==
  /\ rounds.at /= "idle" /\ Failure
  /\ rounds' = NoRound
  /\ UNCHANGED <<sched, runs, made, days>>

-----------------------------------------------------------------------------
RunStep ==
  (\E s \in rounds.todo : BeginRun(s)) \/ WriteObject \/ InsertReport
    \/ RecordSuccess \/ Advance \/ RecordFailure \/ CountFailures \/ GiveUp \/ RetryLater

SchedNext ==
  \/ \E s \in Schedules : UpdateScheduled(s) \/ DeleteScheduled(s)
  \/ NextDay
  \/ RunDue
  \/ RunStep
  \/ SchedRestart

SchedSpec == SchedInit /\ [][SchedNext]_schedVars

-----------------------------------------------------------------------------
SchedRows == [active : BOOLEAN, due : BOOLEAN, ran : Nat, deleted : BOOLEAN]
RunCounts == [success : Nat, failed : Nat, running : Nat]
MadeCounts == [files : Nat, rows : Nat]
OpenPoints == {"write", "row", "success", "failed"}
Rounds == [at : {"idle", "next", "advance", "count", "giveup", "later"} \cup OpenPoints,
           todo : SUBSET Schedules, s : Schedules \cup {"none"}]

SchedTypeOK ==
  /\ sched \in [Schedules -> SchedRows] /\ runs \in [Schedules -> RunCounts]
  /\ made \in [Schedules -> MadeCounts] /\ rounds \in Rounds
  /\ failures \in 0..MaxFailures /\ days \in 0..MaxDays

\* The pass is at one of these points with this schedule.
AtHand(s, points) == IF rounds.s = s /\ rounds.at \in points THEN 1 ELSE 0

\* The runs of a schedule that came to nothing.
Vain(s) == runs[s].failed + runs[s].running - AtHand(s, OpenPoints)

\* A schedule stops at the ceiling: it has no more runs that came to nothing, beyond
\* one for each statement that failed.
GivesUpAtCeiling(s) == Vain(s) <= Ceiling + failures

\* A schedule is given up (inactive but not deleted) only at the ceiling.
GivenUpForCause(s) == ~sched[s].active /\ ~sched[s].deleted => runs[s].failed >= Ceiling

\* The books agree: every run that succeeded and every one that was counted has its
\* report, and every report its object.  The other way round, what a file, a report or an
\* open run lacks is in the hands of the pass, or a statement failed, one for each.
BooksAgree(s) ==
  /\ runs[s].success <= made[s].rows /\ sched[s].ran <= made[s].rows
  /\ made[s].rows <= made[s].files
  /\ made[s].files <= made[s].rows + failures + AtHand(s, {"row"})
  /\ made[s].rows <= runs[s].success + failures + AtHand(s, {"success"})
  /\ made[s].rows <= sched[s].ran + failures + AtHand(s, {"success", "advance"})
  /\ runs[s].running <= failures + AtHand(s, OpenPoints)

-----------------------------------------------------------------------------
(* Why they hold: the inductive invariant.                                  *)

\* A schedule that may fail once more has not reached the ceiling but by failing statements.
MayStillFail(s) ==
  /\ sched[s].active /\ AtHand(s, {"count", "giveup"}) = 0 => Vain(s) < Ceiling + failures
  /\ s \in rounds.todo \/ AtHand(s, OpenPoints) = 1 => Vain(s) < Ceiling + failures

\* The pass works on one schedule, whose run is open, and which is not to come again.
RoundIsStaged ==
  /\ rounds.s = "none" <=> rounds.at \in {"idle", "next"}
  /\ rounds.s \notin rounds.todo
  /\ rounds.at \in OpenPoints => runs[rounds.s].running > 0
  /\ rounds.at = "row" => made[rounds.s].rows < made[rounds.s].files
  /\ rounds.at = "success" => runs[rounds.s].success < made[rounds.s].rows
  /\ rounds.at \in {"success", "advance"} => sched[rounds.s].ran < made[rounds.s].rows
  /\ rounds.at = "giveup" => runs[rounds.s].failed >= Ceiling
  /\ rounds.at = "later" => Vain(rounds.s) < Ceiling + failures

\* The rows of schedules agree with the runs behind them: given up at the ceiling and for
\* that alone, each success with its report and each report with its object.
SchedInv ==
  /\ SchedTypeOK /\ RoundIsStaged
  /\ \A s \in Schedules :
       GivesUpAtCeiling(s) /\ GivenUpForCause(s) /\ BooksAgree(s) /\ MayStillFail(s)
=============================================================================
