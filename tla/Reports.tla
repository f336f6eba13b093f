------------------------------ MODULE Reports ------------------------------
(***************************************************************************)
(* Reports on demand (domain/reports/handlers.rs): a request generates     *)
(* one, behind a cap on the rows of its author that are generating, and    *)
(* others delete it.  The file and the row of a report are written and     *)
(* removed by separate steps, any of which may fail; a request may be      *)
(* dropped at any of them.                                                 *)
(***************************************************************************)
EXTENDS Naturals, FiniteSets

CONSTANTS ReportIds,    \* reports, numbered in the order they are made
          Writers,      \* requests of one author that may be in flight together
          Cap,          \* MAX_CONCURRENT_GENERATING
          MaxUpsets     \* bound: failing statements and dropped requests

ASSUME ReportsAssumption ==
  /\ ReportIds \subseteq Nat \ {0}
  /\ Cap \in Nat \ {0} /\ MaxUpsets \in Nat

VARIABLES
  report,   \* id -> [status, listed]; "none" before the row exists
  files,    \* ids whose object is stored
  task,     \* writer -> [at, id]
  lost,     \* ids whose request was cut short before its last statement
  given,    \* report ids given out
  upsets

repVars == <<report, files, task, lost, given, upsets>>

NoReport == [status |-> "none", listed |-> FALSE]
NoTask == [at |-> "idle", id |-> 0]

RepInit ==
  /\ report = [i \in ReportIds |-> NoReport] /\ files = {}
  /\ task = [w \in Writers |-> NoTask]
  /\ lost = {} /\ given = 0 /\ upsets = 0

Generating == {i \in ReportIds : report[i].status = "generating" /\ report[i].listed}
Upset == upsets < MaxUpsets /\ upsets' = upsets + 1
SetStatus(i, st) == report' = [report EXCEPT ![i].status = st]
Step(w, a) == task' = [task EXCEPT ![w].at = a]
Leave(w) == task' = [task EXCEPT ![w] = NoTask]

-----------------------------------------------------------------------------
(* generate.                                                                *)

Admit(w) ==
  /\ task[w].at = "idle" /\ Cardinality(Generating) < Cap
  /\ Step(w, "insert")
  /\ UNCHANGED <<report, files, lost, given, upsets>>

InsertPending(w) ==
  /\ task[w].at = "insert" /\ given + 1 \in ReportIds
  /\ given' = given + 1
  /\ report' = [report EXCEPT ![given + 1] = [status |-> "pending", listed |-> TRUE]]
  /\ task' = [task EXCEPT ![w] = [at |-> "begin", id |-> given + 1]]
  /\ UNCHANGED <<files, lost, upsets>>

MarkGenerating(w) ==
  /\ task[w].at = "begin"
  /\ SetStatus(task[w].id, "generating")
  /\ Step(w, "write")
  /\ UNCHANGED <<files, lost, given, upsets>>

PutObject(w) ==
  /\ task[w].at = "write"
  /\ files' = files \cup {task[w].id}
  /\ Step(w, "complete")
  /\ UNCHANGED <<report, lost, given, upsets>>

\* MUTANT of PutFails: the error returns at once.
PutFailsReturns(w) ==
  /\ task[w].at = "write" /\ Upset
  /\ Leave(w)
  /\ UNCHANGED <<report, files, lost, given>>

PutFails(w) ==
  /\ task[w].at = "write" /\ Upset
  /\ Step(w, "fail")
  /\ UNCHANGED <<report, files, lost, given>>

Conclude(w) ==
  /\ task[w].at \in {"complete", "fail"}
  /\ SetStatus(task[w].id, IF task[w].at = "complete" THEN "completed" ELSE "failed")
  /\ Leave(w)
  /\ UNCHANGED <<files, lost, given, upsets>>

\* The client goes away: the handler's future is dropped where it stands.
DropWriter(w) ==
  /\ task[w].at \in {"begin", "write", "complete", "fail", "delete"} /\ Upset
  /\ lost' = lost \cup {task[w].id}
  /\ Leave(w)
  /\ UNCHANGED <<report, files, given>>

-----------------------------------------------------------------------------
(* delete_report removes the object the row names, then the row; the batch  *)
(* action "delete" only the row.                                            *)

BeginDelete(w, i) ==
  /\ task[w].at = "idle" /\ report[i].listed
  /\ files' = IF report[i].status = "completed" THEN files \ {i} ELSE files
  /\ task' = [task EXCEPT ![w] = [at |-> "delete", id |-> i]]
  /\ UNCHANGED <<report, lost, given, upsets>>

FinishDelete(w) ==
  /\ task[w].at = "delete"
  /\ report' = [report EXCEPT ![task[w].id].listed = FALSE]
  /\ Leave(w)
  /\ UNCHANGED <<files, lost, given, upsets>>

DeleteFails(w) ==
  /\ task[w].at = "delete" /\ Upset
  /\ lost' = lost \cup {task[w].id}
  /\ Leave(w)
  /\ UNCHANGED <<report, files, given>>

BatchDelete(i) ==
  /\ report[i].listed
  /\ report' = [report EXCEPT ![i].listed = FALSE]
  /\ UNCHANGED <<files, task, lost, given, upsets>>

-----------------------------------------------------------------------------
Write(w) == InsertPending(w) \/ MarkGenerating(w) \/ PutObject(w) \/ PutFails(w)
              \/ Conclude(w) \/ FinishDelete(w) \/ DeleteFails(w)
RepNext ==
  \/ \E w \in Writers : Admit(w) \/ Write(w) \/ DropWriter(w) \/ \E i \in ReportIds : BeginDelete(w, i)
  \/ \E i \in ReportIds : BatchDelete(i)

RepFairness == \A w \in Writers : WF_repVars(Write(w))
RepSpec == RepInit /\ [][RepNext]_repVars /\ RepFairness

-----------------------------------------------------------------------------
ReportRows == [status : {"none", "pending", "generating", "completed", "failed"}, listed : BOOLEAN]
WriterTasks == [at : {"idle", "insert", "begin", "write", "complete", "fail", "delete"},
                id : ReportIds \cup {0}]

RepTypeOK ==
  /\ report \in [ReportIds -> ReportRows] /\ task \in [Writers -> WriterTasks]
  /\ files \subseteq ReportIds /\ lost \subseteq ReportIds
  /\ given \in ReportIds \cup {0} /\ upsets \in 0..MaxUpsets

\* A report that is listed as completed has its file, except while a deletion
\* stands between the two or after one was cut short there.
CompletedHasFile(i) ==
  report[i].status = "completed" /\ report[i].listed
    => i \in files \cup lost \/ \E w \in Writers : task[w].at = "delete" /\ task[w].id = i

\* A row is "generating" only while its request is, so the cap counts real work:
\* one that was dropped keeps its slot.
SlotsAreWorked(i) ==
  i \in Generating =>
    \/ i \in lost
    \/ \E w \in Writers : task[w].id = i /\ task[w].at \in {"write", "complete", "fail"}

\* Generations do not hold their slots for good: again and again every one that began
\* is completed or failed, but for those whose request was cut short.
GenerationEnds ==
  []<>(\A i \in ReportIds : report[i].status = "generating" => i \in lost)

\* "pending -> generating -> completed | failed".
GenerationConcludes ==
  \A i \in ReportIds : (report[i].status = "generating")
                         ~> (report[i].status \in {"completed", "failed"})

-----------------------------------------------------------------------------
(* Why they hold: the inductive invariant.                                  *)

Writing == {"begin", "write", "complete", "fail"}

IdsAreGivenInOrder(i) ==
  /\ report[i].status = "none" <=> i > given
  /\ report[i].listed => i <= given

\* A request is on a report that was given out; the one that generates it is the only one,
\* and the row says how far it is.
TaskIsOnReport(w) ==
  LET t == task[w]
  IN  /\ t.at \in Writing \cup {"delete"} => t.id \in ReportIds /\ t.id <= given
      /\ t.at = "begin" => report[t.id].status = "pending"
      /\ t.at \in {"write", "complete", "fail"} => report[t.id].status = "generating"
      /\ t.at = "complete" => t.id \in files
OneWriterPerReport ==
  \A w, o \in Writers :
    task[w].at \in Writing /\ task[o].at \in Writing /\ task[o].id = task[w].id => o = w

\* The rows of reports agree with the files and with the requests at work on them.
RepInv ==
  /\ RepTypeOK
  /\ \A i \in ReportIds : IdsAreGivenInOrder(i) /\ CompletedHasFile(i) /\ SlotsAreWorked(i)
  /\ \A w \in Writers : TaskIsOnReport(w)
  /\ OneWriterPerReport
=============================================================================
