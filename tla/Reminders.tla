----------------------------- MODULE Reminders -----------------------------
(***************************************************************************)
(* Task reminders (domain/notifications/reminders.rs): agents create,      *)
(* edit, complete and delete them; a pass, run every minute by the tick    *)
(* loop and on demand by an administrator, notifies the due ones, marks    *)
(* them sent and inserts the next occurrence of a repeating one, each a    *)
(* statement of its own against what the pass read at its start. An edit   *)
(* changes its fields by one statement each, so it is the sequence of the  *)
(* actions Rearm and SetRepeat.                                            *)
(***************************************************************************)
EXTENDS Naturals, FiniteSets

CONSTANTS Ids,        \* reminders, numbered in the order they are inserted
          Repeats,    \* interval of a repeat type; 0 stands for none
          MaxCreates, \* bound: reminders an agent creates, the other ids are for
                      \* next occurrences
          MaxTime,    \* bound: the clock
          MaxArmings, \* bound: times one reminder is re-armed
          MaxMishaps  \* bound: failing statements, restarts and passes an administrator starts

ASSUME RemindersAssumption ==
  /\ Ids \subseteq Nat \ {0} /\ Repeats \subseteq Nat
  /\ {MaxCreates, MaxMishaps} \subseteq Nat /\ {MaxTime, MaxArmings} \subseteq Nat \ {0}

VARIABLES
  clock,
  rem,     \* id -> [due, sent, done, every, parent], or NoReminder
  pass,    \* pass -> [at, todo, cur]: the rows read and not yet processed
  alerts,  \* id -> notifications created for it
  told,    \* ids notified since they were last armed
  armings, \* id -> times armed
  overrun, \* ids edited too late: while a pass held the row it had read, or, for the
           \* repeat type, when already sent
  cut,     \* repeating ids whose next occurrence could not be inserted
  mishaps

remVars == <<clock, rem, pass, alerts, told, armings, overrun, cut, mishaps>>

Passes == {"loop", "manual"}
NoReminder == [due |-> 0, sent |-> FALSE, done |-> FALSE, every |-> 0, parent |-> 0]
NoRow == [id |-> 0, due |-> 0, every |-> 0]
Resting == [at |-> "idle", todo |-> {}, cur |-> NoRow]

Exists(i) == rem[i].due > 0
Armed(i) == Exists(i) /\ ~rem[i].sent /\ ~rem[i].done
Held(i) == \E p \in Passes :
             pass[p].cur.id = i \/ \E r \in pass[p].todo : r.id = i

RemInit ==
  /\ clock = 1 /\ rem = [i \in Ids |-> NoReminder]
  /\ pass = [p \in Passes |-> Resting]
  /\ alerts = [i \in Ids |-> 0] /\ armings = [i \in Ids |-> 0]
  /\ told = {} /\ overrun = {} /\ cut = {} /\ mishaps = 0

\* Ids are taken once: the next one never given out.
Unused(i) == armings[i] = 0 /\ \A j \in Ids : j < i => armings[j] > 0
Insert(i, t, e, q) ==
  /\ rem' = [rem EXCEPT ![i] = [due |-> t, sent |-> FALSE, done |-> FALSE,
                                every |-> e, parent |-> q]]
  /\ armings' = [armings EXCEPT ![i] = 1]

-----------------------------------------------------------------------------
(* Requests.                                                                *)

Create(i, t, e) ==
  /\ Unused(i) /\ i <= MaxCreates /\ t > clock
  /\ Insert(i, t, e, 0)
  /\ UNCHANGED <<clock, pass, alerts, told, overrun, cut, mishaps>>

Rearm(i, t) ==
  /\ Exists(i) /\ armings[i] < MaxArmings
  /\ rem' = [rem EXCEPT ![i].due = t, ![i].sent = FALSE]
  /\ armings' = [armings EXCEPT ![i] = @ + 1]
  /\ told' = told \ {i}
  /\ overrun' = IF Held(i) THEN overrun \cup {i} ELSE overrun
  /\ UNCHANGED <<clock, pass, alerts, cut, mishaps>>

SetRepeat(i, e) ==
  /\ Exists(i) /\ rem[i].every /= e /\ i \notin overrun
  /\ rem' = [rem EXCEPT ![i].every = e]
  /\ overrun' = IF Held(i) \/ rem[i].sent THEN overrun \cup {i} ELSE overrun
  /\ UNCHANGED <<clock, pass, alerts, told, armings, cut, mishaps>>

Complete(i) ==
  /\ Exists(i) /\ ~rem[i].done
  /\ rem' = [rem EXCEPT ![i].done = TRUE]
  /\ UNCHANGED <<clock, pass, alerts, told, armings, overrun, cut, mishaps>>

Delete(i) ==
  /\ Exists(i)
  /\ rem' = [rem EXCEPT ![i] = NoReminder]
  /\ UNCHANGED <<clock, pass, alerts, told, armings, overrun, cut, mishaps>>

-----------------------------------------------------------------------------
(* process_due.                                                             *)

RowOf(i) == [id |-> i, due |-> rem[i].due, every |-> rem[i].every]
Due == {i \in Ids : Armed(i) /\ rem[i].due <= clock}

BeginPass(p) ==
  /\ pass[p].at = "idle" /\ Due /= {}
  /\ pass' = [pass EXCEPT ![p] = [at |-> "next", todo |-> {RowOf(i) : i \in Due},
                                  cur |-> NoRow]]
  /\ IF p = "manual" THEN mishaps < MaxMishaps /\ mishaps' = mishaps + 1 ELSE UNCHANGED mishaps
  /\ UNCHANGED <<clock, rem, alerts, told, armings, overrun, cut>>

Continue(p) ==
  pass' = [pass EXCEPT ![p] = IF @.todo = {} THEN Resting
                              ELSE [@ EXCEPT !.at = "next", !.cur = NoRow]]

Notify(p, r) ==
  /\ pass[p].at = "next" /\ r \in pass[p].todo
  /\ alerts' = [alerts EXCEPT ![r.id] = @ + 1]
  /\ told' = told \cup {r.id}
  /\ pass' = [pass EXCEPT ![p] = [at |-> "mark", todo |-> @.todo \ {r}, cur |-> r]]
  /\ UNCHANGED <<clock, rem, armings, overrun, cut, mishaps>>

\* The INSERT fails: the reminder is left for the next pass.
NotifyFails(p, r) ==
  /\ pass[p].at = "next" /\ r \in pass[p].todo /\ mishaps < MaxMishaps
  /\ mishaps' = mishaps + 1
  /\ pass' = [pass EXCEPT ![p] = IF @.todo = {r} THEN Resting
                                 ELSE [@ EXCEPT !.todo = pass[p].todo \ {r}]]
  /\ UNCHANGED <<clock, rem, alerts, told, armings, overrun, cut>>

\* MUTANT of MarkSent: no next occurrence.
MarkSentOnce(p) ==
  /\ pass[p].at = "mark"
  /\ rem' = IF Exists(pass[p].cur.id) THEN [rem EXCEPT ![pass[p].cur.id].sent = TRUE]
            ELSE rem
  /\ Continue(p)
  /\ UNCHANGED <<clock, alerts, told, armings, overrun, cut, mishaps>>

\* An UPDATE by id alone: it marks whatever the row is by now.
MarkSent(p) ==
  /\ pass[p].at = "mark"
  /\ rem' = IF Exists(pass[p].cur.id) THEN [rem EXCEPT ![pass[p].cur.id].sent = TRUE]
            ELSE rem
  /\ IF pass[p].cur.every = 0 THEN Continue(p)
     ELSE pass' = [pass EXCEPT ![p].at = "spawn"]
  /\ UNCHANGED <<clock, alerts, told, armings, overrun, cut, mishaps>>

MarkFails(p) ==
  /\ pass[p].at = "mark" /\ mishaps < MaxMishaps
  /\ mishaps' = mishaps + 1
  /\ Continue(p)
  /\ UNCHANGED <<clock, rem, alerts, told, armings, overrun, cut>>

SpawnNext(p, i) ==
  /\ pass[p].at = "spawn" /\ Unused(i)
  /\ Insert(i, pass[p].cur.due + pass[p].cur.every, pass[p].cur.every, pass[p].cur.id)
  /\ Continue(p)
  /\ UNCHANGED <<clock, alerts, told, overrun, cut, mishaps>>

\* The INSERT fails, or the bound on reminders is reached.
SpawnFails(p) ==
  /\ pass[p].at = "spawn"
  /\ \/ mishaps < MaxMishaps /\ mishaps' = mishaps + 1
     \/ (\A i \in Ids : ~Unused(i)) /\ UNCHANGED mishaps
  /\ cut' = cut \cup {pass[p].cur.id}
  /\ Continue(p)
  /\ UNCHANGED <<clock, rem, alerts, told, armings, overrun>>

RemRestart ==
  /\ mishaps < MaxMishaps /\ \E p \in Passes : pass[p] /= Resting
  /\ mishaps' = mishaps + 1
  /\ cut' = cut \cup {pass[p].cur.id : p \in {q \in Passes : pass[q].at = "spawn"}}
  /\ pass' = [p \in Passes |-> Resting]
  /\ UNCHANGED <<clock, rem, alerts, told, armings, overrun>>

RemTick ==
  /\ clock < MaxTime
  /\ clock' = clock + 1
  /\ UNCHANGED <<rem, pass, alerts, told, armings, overrun, cut, mishaps>>

-----------------------------------------------------------------------------
PassStep(p) ==
  \/ BeginPass(p)
  \/ \E r \in pass[p].todo : Notify(p, r) \/ NotifyFails(p, r)
  \/ MarkSent(p)
  \/ MarkFails(p)
  \/ \E i \in Ids : SpawnNext(p, i)
  \/ SpawnFails(p)

RemNext ==
  \/ \E i \in Ids, t \in 1..MaxTime :
       (\E e \in Repeats : Create(i, t, e)) \/ Rearm(i, t)
  \/ \E i \in Ids, e \in Repeats : SetRepeat(i, e)
  \/ \E i \in Ids : Complete(i) \/ Delete(i)
  \/ \E p \in Passes : PassStep(p)
  \/ RemRestart
  \/ RemTick

\* The tick loop runs a pass every minute and the clock goes on.
RemFairness == WF_remVars(PassStep("loop")) /\ WF_remVars(RemTick)
RemSpec == RemInit /\ [][RemNext]_remVars /\ RemFairness

-----------------------------------------------------------------------------
ReminderRows == [due : Nat, sent : BOOLEAN, done : BOOLEAN, every : Repeats \cup {0},
                 parent : Ids \cup {0}]
RowsRead == [id : Ids \cup {0}, due : Nat, every : Repeats \cup {0}]
PassStates == [at : {"idle", "next", "mark", "spawn"}, todo : SUBSET RowsRead, cur : RowsRead]

RemTypeOK ==
  /\ clock \in 1..MaxTime /\ mishaps \in 0..MaxMishaps
  /\ rem \in [Ids -> ReminderRows] /\ pass \in [Passes -> PassStates]
  /\ alerts \in [Ids -> Nat] /\ armings \in [Ids -> 0..MaxArmings]
  /\ told \subseteq Ids /\ overrun \subseteq Ids /\ cut \subseteq Ids

\* A reminder marked sent has been notified since it was last armed, unless its
\* edit raced a pass that had already read it.
SentMeansTold(i) == Exists(i) /\ rem[i].sent /\ i \notin overrun => i \in told

\* A reminder is notified once for each time it is armed; beyond that once for a
\* manual pass that overlapped, a statement that failed or a pass cut short.
OncePerArming(i) == alerts[i] <= armings[i] + mishaps

\* The series of a repeating reminder goes on: one that is marked sent has a next
\* occurrence (deleted or not), or a pass is about to insert it, or its INSERT
\* was lost; an edit that came too late does not count.
NextIsMade(i) == \E j \in Ids : j > i /\ armings[j] > 0 /\ (rem[j].parent = i \/ ~Exists(j))
Spawning(i) == \E p \in Passes : pass[p].at = "spawn" /\ pass[p].cur.id = i
SeriesGoesOn(i) ==
  Exists(i) /\ rem[i].sent /\ rem[i].every > 0 /\ i \notin overrun
    => NextIsMade(i) \/ Spawning(i) \/ i \in cut

\* Due reminders do not pile up: again and again none is armed and due, because
\* each is sent, completed, deleted or put off, whatever failed on the way.
DueIsServed ==
  []<>(\A i \in Ids : ~(Armed(i) /\ rem[i].due <= clock))

\* "changing the time re-arms it": a reminder whose time was changed is notified
\* again before it is marked sent.
RearmHolds ==
  \A i \in Ids : Exists(i) /\ rem[i].sent => i \in told

-----------------------------------------------------------------------------
(* Why they hold: the inductive invariant.                                  *)

ToNotify(p, i) == \E r \in pass[p].todo : r.id = i
ToMark(p, i) == pass[p].at = "mark" /\ pass[p].cur.id = i
OneIf(b) == IF b THEN 1 ELSE 0

\* The notifications a reminder still gets are paid for: one by each pass that has read it,
\* and one more by the next pass of the loop while it is armed.
LeftToTheNextPass(i) == Armed(i) /\ ~ToNotify("loop", i) /\ ~ToMark("loop", i)
NotificationsArePaid(i) ==
  alerts[i] + OneIf(ToNotify("loop", i)) + OneIf(ToNotify("manual", i)) + OneIf(LeftToTheNextPass(i))
    <= armings[i] + mishaps

IdsAreTakenInOrder ==
  /\ \A i \in Ids : Exists(i) => armings[i] > 0
  /\ \A i, j \in Ids : armings[i] > 0 /\ j < i => armings[j] > 0

\* What a pass read was there, was due, and is as it was unless it was edited too late.
RowIsRead(r) ==
  /\ r.id \in Ids /\ armings[r.id] > 0 /\ r.due > 0
  /\ Exists(r.id) /\ r.id \notin overrun => r.every = rem[r.id].every

PassIsStaged(p) ==
  /\ pass[p].at = "idle" => pass[p] = Resting
  /\ pass[p].at \notin {"mark", "spawn"} => pass[p].cur = NoRow
  /\ pass[p].at \in {"mark", "spawn"} =>
       RowIsRead(pass[p].cur) /\ pass[p].cur.id \in told \cup overrun
  /\ \A r \in pass[p].todo : RowIsRead(r)
  /\ \A r, q \in pass[p].todo : r.id = q.id => r = q

\* A reminder is told of as often as it is armed, marked only when told of, and its series
\* goes on, whatever passes, edits and failures overlap.
RemInv ==
  /\ RemTypeOK /\ IdsAreTakenInOrder
  /\ \A p \in Passes : PassIsStaged(p)
  /\ \A i \in Ids : /\ NotificationsArePaid(i) /\ OncePerArming(i)
                    /\ SentMeansTold(i) /\ SeriesGoesOn(i)
=============================================================================
