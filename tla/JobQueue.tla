------------------------------- MODULE JobQueue -------------------------------
(***************************************************************************)
(* The in-process queue of outbound LINE deliveries and media downloads    *)
(* (domain/queue).  One consumer takes batches from a channel and runs the *)
(* jobs one after the other; a job that fails sleeps in a task of its own  *)
(* and comes back to the channel, at most MaxRetries tries in all, and     *)
(* then lands among the dead letters.  Everything but the rows and the     *)
(* stored files is in memory.                                              *)
(*                                                                         *)
(* Left out: the length of the delays, the monitoring endpoints (which     *)
(* read the statistics), and the broadcasts.                               *)
(***************************************************************************)
EXTENDS Integers, Sequences, FiniteSets, SequencesExt

CONSTANTS
    JobIds,         \* jobs, in the order of an unbounded channel
    MediaKeys,      \* platform ids of inbound media
    MaxChunks,      \* bound: chunks of BATCH_CAP items in an outbound job
    MaxRetries,     \* MAX_RETRIES (3 in queue/mod.rs)
    MaxBatchSize    \* MAX_BATCH_SIZE (10 in queue/mod.rs)

ASSUME QueueAssumption ==
    /\ IsFiniteSet(JobIds)
    /\ MaxChunks \in Nat
    /\ MaxRetries \in Nat \ {0}
    /\ MaxBatchSize \in Nat \ {0}

VARIABLES
    jobs,       \* jobs[j]: what was accepted as job j
    channel,    \* the channel
    batch,      \* the consumer's batch, the job in hand first
    work,       \* how far the job in hand is
    asleep,     \* jobs whose retry delay runs
    dead,       \* dead_letter
    finished,   \* jobs that succeeded
    stats,      \* QueueStats
    pushed,     \* pushed[j][i]: times the customer received chunk i of job j
    outcome,    \* outcome[j]: messages.delivery_status of job j's message
    unwritten,  \* unwritten[j]: tries of job j whose outcome did not get into the row
    stored,     \* media whose bytes are in the store
    linked,     \* linked[k]: attachment rows of media k
    lost        \* jobs that went with a restart

queueVars == <<jobs, channel, batch, work, asleep, dead, finished, stats, pushed, outcome,
               unwritten, stored, linked, lost>>

-----------------------------------------------------------------------------

NoJob == [kind |-> "none"]
Bodies == [kind : {"outbound"}, chunks : 0 .. MaxChunks] \cup [kind : {"media"}, key : MediaKeys]
Tries == [job : JobIds, attempt : 0 .. MaxRetries - 1]
Idling == [pc |-> "idle"]

QueueTypeOK ==
    /\ jobs \in [JobIds -> Bodies \cup {NoJob}]
    /\ channel \in Seq(Tries) /\ batch \in Seq(Tries) /\ dead \in Seq(Tries)
    /\ work \in {Idling} \cup [pc : {"push"}, next : 1 .. MaxChunks]
                \cup [pc : {"fetch", "insert"}] \cup [pc : {"settle"}, ok : BOOLEAN, hope : BOOLEAN]
    /\ asleep \in SUBSET Tries
    /\ finished \in SUBSET JobIds
    /\ stats \in [processed : Nat, successes : Nat, errors : Nat, retries : Nat]
    /\ pushed \in [JobIds -> [1 .. MaxChunks -> Nat]]
    /\ outcome \in [JobIds -> {"pending", "delivered", "failed"}]
    /\ unwritten \in [JobIds -> Nat]
    /\ stored \in SUBSET MediaKeys
    /\ linked \in [MediaKeys -> Nat]
    /\ lost \in SUBSET JobIds

NoStats == [processed |-> 0, successes |-> 0, errors |-> 0, retries |-> 0]

QueueInit ==
    /\ jobs = [j \in JobIds |-> NoJob]
    /\ channel = <<>> /\ batch = <<>> /\ dead = <<>>
    /\ work = Idling
    /\ asleep = {}
    /\ finished = {}
    /\ stats = NoStats
    /\ pushed = [j \in JobIds |-> [i \in 1 .. MaxChunks |-> 0]]
    /\ outcome = [j \in JobIds |-> "pending"]
    /\ unwritten = [j \in JobIds |-> 0]
    /\ stored = {}
    /\ linked = [k \in MediaKeys |-> 0]
    /\ lost = {}

InHand == Head(batch)
Body == jobs[InHand.job]

-----------------------------------------------------------------------------

\* enqueue_outbound, enqueue_media: accepted whatever the backlog.
Enqueue(j) ==
    /\ jobs[j] = NoJob
    /\ \E body \in Bodies : jobs' = [jobs EXCEPT ![j] = body]
    /\ channel' = Append(channel, [job |-> j, attempt |-> 0])
    /\ UNCHANGED <<batch, work, asleep, dead, finished, stats, pushed, outcome, unwritten, stored, linked, lost>>

\* The first job blocks, those already queued join it up to the cap.
TakeBatch ==
    /\ batch = <<>> /\ channel # <<>>
    /\ \E n \in 1 .. (IF Len(channel) < MaxBatchSize THEN Len(channel) ELSE MaxBatchSize) :
         /\ batch' = SubSeq(channel, 1, n)
         /\ channel' = SubSeq(channel, n + 1, Len(channel))
    /\ UNCHANGED <<jobs, work, asleep, dead, finished, stats, pushed, outcome, unwritten, stored, linked, lost>>

Settle(ok, hope) == work' = [pc |-> "settle", ok |-> ok, hope |-> hope]

\* What a try came to is written into its message, at best: a failed UPDATE is logged, and
\* the try goes on as if it had been written.
MarkMessage(o) ==
    \/ /\ outcome' = [outcome EXCEPT ![InHand.job] = o]
       /\ UNCHANGED unwritten
    \/ /\ unwritten' = [unwritten EXCEPT ![InHand.job] = @ + 1]
       /\ UNCHANGED outcome

\* process_outbound: an empty set of items is a failure that no retry can mend.  A message
\* that fails is marked 'failed' before anyone decides whether to try again.
StartOutbound ==
    /\ batch # <<>> /\ work = Idling
    /\ Body.kind = "outbound"
    /\ IF Body.chunks = 0
       THEN Settle(FALSE, FALSE) /\ MarkMessage("failed")
       ELSE work' = [pc |-> "push", next |-> 1] /\ UNCHANGED <<outcome, unwritten>>
    /\ UNCHANGED <<jobs, channel, batch, asleep, dead, finished, stats, pushed, stored,
                   linked, lost>>

\* One push per chunk.  It may reach the customer although the call reports a failure; the
\* first failure fails the job, and what remains is not tried.  Whether a failure may be
\* retried goes by its kind (categorize, is_retryable).  The row is written last.
PushChunk ==
    LET last == work.next = Body.chunks
    IN  /\ work.pc = "push"
        /\ \E got, ok, hope \in BOOLEAN :
             /\ ok => got /\ hope
             /\ pushed' = IF got THEN [pushed EXCEPT ![InHand.job][work.next] = @ + 1] ELSE pushed
             /\ IF ok /\ ~last
                THEN work' = [work EXCEPT !.next = @ + 1] /\ UNCHANGED <<outcome, unwritten>>
                ELSE Settle(ok, hope) /\ MarkMessage(IF ok THEN "delivered" ELSE "failed")
        /\ UNCHANGED <<jobs, channel, batch, asleep, dead, finished, stats, stored, linked, lost>>

\* MUTANT of StartMedia: no look for the row of an earlier try.
StartMediaBlind ==
    /\ batch # <<>> /\ work = Idling
    /\ Body.kind = "media"
    /\ work' = [pc |-> "fetch"]
    /\ UNCHANGED <<jobs, channel, batch, asleep, dead, finished, stats, pushed, outcome, unwritten, stored,
                   linked, lost>>

\* process_media: an attachment row for the message and the key means that it is done.  The
\* look-up may fail, and the job with it.
StartMedia ==
    /\ batch # <<>> /\ work = Idling
    /\ Body.kind = "media"
    /\ \/ IF linked[Body.key] > 0 THEN Settle(TRUE, TRUE) ELSE work' = [pc |-> "fetch"]
       \/ Settle(FALSE, TRUE)
    /\ UNCHANGED <<jobs, channel, batch, asleep, dead, finished, stats, pushed, outcome, unwritten, stored,
                   linked, lost>>

\* The bytes come from the store or from LINE, and are kept for the next try if they can be.
FetchMedia ==
    /\ work.pc = "fetch"
    /\ \/ /\ \/ Body.key \in stored /\ stored' = stored
             \/ Body.key \notin stored /\ stored' \in {stored, stored \cup {Body.key}}
          /\ work' = [pc |-> "insert"]
       \/ /\ Body.key \notin stored
          /\ Settle(FALSE, TRUE)
          /\ UNCHANGED stored
    /\ UNCHANGED <<jobs, channel, batch, asleep, dead, finished, stats, pushed, outcome, unwritten, linked, lost>>

\* The row is inserted; the statement may fail, also after it took effect.
InsertMedia ==
    /\ work.pc = "insert"
    /\ \E done, ok \in BOOLEAN :
         /\ ok => done
         /\ linked' = IF done THEN [linked EXCEPT ![Body.key] = @ + 1] ELSE linked
         /\ Settle(ok, TRUE)
    /\ UNCHANGED <<jobs, channel, batch, asleep, dead, finished, stats, pushed, outcome, unwritten, stored, lost>>

TriesAgain(t, hope) == t.attempt + 1 < MaxRetries /\ hope

Recorded(ok, retried) ==
    [processed |-> stats.processed + 1,
     successes |-> stats.successes + (IF ok THEN 1 ELSE 0),
     errors    |-> stats.errors + (IF ok THEN 0 ELSE 1),
     retries   |-> stats.retries + (IF retried THEN 1 ELSE 0)]

\* MUTANT of FinishJob: a job that no retry can mend is neither retried nor dead-lettered.
FinishJobForgets ==
    /\ work.pc = "settle"
    /\ LET again == ~work.ok /\ TriesAgain(InHand, work.hope)
       IN  /\ stats' = Recorded(work.ok, again)
           /\ asleep' = IF again THEN asleep \cup {[InHand EXCEPT !.attempt = @ + 1]} ELSE asleep
           /\ dead' = IF ~work.ok /\ work.hope /\ ~again THEN Append(dead, InHand) ELSE dead
    /\ finished' = IF work.ok THEN finished \cup {InHand.job} ELSE finished
    /\ batch' = Tail(batch)
    /\ work' = Idling
    /\ UNCHANGED <<jobs, channel, pushed, outcome, unwritten, stored, linked, lost>>

\* process_job, its end: statistics, and for a failure the retry timer or the dead letters.
FinishJob ==
    LET again == ~work.ok /\ TriesAgain(InHand, work.hope)
    IN  /\ work.pc = "settle"
        /\ stats' = Recorded(work.ok, again)
        /\ finished' = IF work.ok THEN finished \cup {InHand.job} ELSE finished
        /\ asleep' = IF again THEN asleep \cup {[InHand EXCEPT !.attempt = @ + 1]} ELSE asleep
        /\ dead' = IF ~work.ok /\ ~again THEN Append(dead, InHand) ELSE dead
        /\ batch' = Tail(batch)
        /\ work' = Idling
        /\ UNCHANGED <<jobs, channel, pushed, outcome, unwritten, stored, linked, lost>>

Wake(t) ==
    /\ t \in asleep
    /\ asleep' = asleep \ {t}
    /\ channel' = Append(channel, t)
    /\ UNCHANGED <<jobs, batch, work, dead, finished, stats, pushed, outcome, unwritten, stored, linked, lost>>

InFlight == {batch[i].job : i \in DOMAIN batch} \cup {channel[i].job : i \in DOMAIN channel}
                \cup {t.job : t \in asleep} \cup {dead[i].job : i \in DOMAIN dead}

\* A restart forgets the channel, the timers, the dead letters and the statistics.
QueueRestart ==
    /\ lost' = lost \cup InFlight
    /\ channel' = <<>> /\ batch' = <<>> /\ dead' = <<>>
    /\ work' = Idling /\ asleep' = {} /\ stats' = NoStats
    /\ UNCHANGED <<jobs, finished, pushed, outcome, unwritten, stored, linked>>

Consumer ==
    TakeBatch \/ StartOutbound \/ PushChunk \/ StartMedia \/ FetchMedia \/ InsertMedia \/ FinishJob

QueueNext ==
    \/ \E j \in JobIds : Enqueue(j)
    \/ Consumer
    \/ \E t \in asleep : Wake(t)
    \/ QueueRestart

QueueSpec ==
    /\ QueueInit /\ [][QueueNext]_queueVars
    /\ WF_queueVars(Consumer)
    /\ \A t \in Tries : WF_queueVars(Wake(t))
-----------------------------------------------------------------------------
(* Properties                                                                *)

Accepted == {j \in JobIds : jobs[j] # NoJob}

\* The jobs in a place: waiting, in the batch, asleep before a retry, among the dead
\* letters, or done with.
JobsOf(tries) == {t.job : t \in tries}
Place(p) == CASE p = "channel" -> JobsOf(ToSet(channel)) [] p = "batch" -> JobsOf(ToSet(batch))
              [] p = "asleep" -> JobsOf(asleep) [] p = "dead" -> JobsOf(ToSet(dead))
              [] p = "done" -> finished \cup lost
Places == {"channel", "batch", "asleep", "dead", "done"}
OnceEach(s) == \A i, k \in DOMAIN s : s[i].job = s[k].job => i = k

\* A job that was accepted is in one place, and once; no other is anywhere. Only a restart
\* loses one (spawn, process_job, requeue).
EveryJobInOnePlace ==
    /\ OnceEach(channel) /\ OnceEach(batch) /\ OnceEach(dead)
    /\ \A t, u \in asleep : t.job = u.job => t = u
    /\ \A p, q \in Places : p # q => Place(p) \cap Place(q) = {}
    /\ UNION {Place(p) : p \in Places} = Accepted

\* The statistics agree with the dead letters: every error was either retried or
\* dead-lettered, and every job processed either succeeded or erred (QueueStats::record).
StatsAddUp ==
    /\ stats.processed = stats.successes + stats.errors
    /\ stats.errors = stats.retries + Len(dead)

\* A media item has one attachment row, whatever was enqueued twice, retried, or failed
\* after its INSERT took effect (the look-up of process_media).
OneRowPerMedia == \A k \in MediaKeys : linked[k] <= 1

\* A message is marked delivered only when the customer has every chunk, and no chunk is
\* pushed more often than a job may be tried (process_outbound, MAX_RETRIES).
DeliveredMeansEveryChunk ==
    \A j \in Accepted : jobs[j].kind = "outbound" =>
        /\ outcome[j] = "delivered" => \A i \in 1 .. jobs[j].chunks : pushed[j][i] > 0
        /\ \A i \in 1 .. MaxChunks : pushed[j][i] <= MaxRetries

\* What the row of a job tells after n tries that failed, and after one that succeeded: the
\* last write that took effect, if any did.
Failed(j, n) == outcome[j] = "failed" \/ unwritten[j] = n
Succeeded(j) == outcome[j] = "delivered" \/ unwritten[j] > 0

\* A dead letter is a failure that is on the record, and a job that is done a success: its
\* message says so, unless the write was lost, for a failure that of every try.
OutcomeOnRecord ==
    /\ \A i \in DOMAIN dead : jobs[dead[i].job].kind = "outbound" =>
          Failed(dead[i].job, dead[i].attempt + 1)
    /\ \A j \in finished : jobs[j].kind = "outbound" => Succeeded(j)

\* What the job in hand has behind it.
WorkIsSound ==
    /\ work # Idling => batch # <<>>
    /\ work.pc = "push" =>
         /\ Body.kind = "outbound" /\ work.next <= Body.chunks
         /\ \A i \in 1 .. MaxChunks : i < work.next => pushed[InHand.job][i] > 0
    /\ work.pc \in {"fetch", "insert"} => Body.kind = "media" /\ linked[Body.key] = 0

\* A chunk is pushed at most once in each try that has begun.
Under(t, i) ==
    IF batch # <<>> /\ t = InHand /\ (work.pc = "settle" \/ (work.pc = "push" /\ i < work.next))
    THEN t.attempt + 1 ELSE t.attempt
PushesAreTries ==
    /\ \A t \in ToSet(channel) \cup ToSet(batch) \cup asleep, i \in 1 .. MaxChunks :
          pushed[t.job][i] <= Under(t, i)
    /\ \A j \in JobIds, i \in 1 .. MaxChunks : pushed[j][i] <= MaxRetries
    /\ \A j \in JobIds \ Accepted :
          outcome[j] = "pending" /\ unwritten[j] = 0 /\ \A i \in 1 .. MaxChunks : pushed[j][i] = 0

\* The tries before the one that is due, or in hand, all failed; the one that is settled went
\* as its work says.
WorkOnRecord ==
    /\ \A t \in ToSet(channel) \cup ToSet(batch) \cup asleep : jobs[t.job].kind = "outbound" =>
          (batch # <<>> /\ t = InHand /\ work.pc = "settle") \/ Failed(t.job, t.attempt)
    /\ work.pc = "settle" /\ Body.kind = "outbound" =>
          IF work.ok THEN Succeeded(InHand.job) ELSE Failed(InHand.job, InHand.attempt + 1)

\* While the consumer and the timers run, a job is settled after finitely many tries.
\* A settled job stays settled, so it is enough that all are, again and again.
EveryJobSettles ==
    []<>(\A j \in JobIds : jobs[j] # NoJob =>
             j \in finished \cup lost \cup {dead[i].job : i \in DOMAIN dead})

\* The queue's books, the rows its jobs write and what was pushed agree: no job is lost or
\* doubled but by a restart, no media item stored twice, nothing called delivered that was
\* not, and what came of a job on the record unless the write of it was lost.
QueueInv ==
    /\ QueueTypeOK
    /\ EveryJobInOnePlace
    /\ StatsAddUp
    /\ OneRowPerMedia
    /\ OutcomeOnRecord
    /\ DeliveredMeansEveryChunk
    /\ WorkIsSound
    /\ PushesAreTries
    /\ WorkOnRecord
=============================================================================
