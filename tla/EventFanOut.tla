---------------------------- MODULE EventFanOut ----------------------------
(***************************************************************************)
(* Routed delivery (realtime/broadcaster.rs).  An event reaches the        *)
(* sockets of the instance that raised it through its in-memory queues,    *)
(* and the sockets of the other instances through rows of a shared fan-out *)
(* table that each instance polls and acknowledges.                        *)
(*                                                                         *)
(* An event here stands for one audience that needs no lookup followed by  *)
(* one that does: resolving the second may fail after the first was        *)
(* served.                                                                 *)
(***************************************************************************)
EXTENDS Naturals, Sequences, FiniteSets, SequencesExt

CONSTANTS Hosts,        \* server processes sharing the database
          Raisers,      \* bound: the hosts that raise events
          Events,       \* events raised during the run
          Poison,       \* the events whose stored row is not valid JSON
          NormalCap,    \* NORMAL_QUEUE_CAP
          MaxRetries,   \* MAX_RETRIES
          RelayBatch,   \* REMOTE_FANOUT_BATCH
          MaxFaults,    \* bound: restarts, failed lookups and failed statements
          MaxFlushes    \* bound: POST /flush-queue requests

Nothing == "nothing"
NotRaised == [host |-> "nowhere"]

ASSUME FanOutAssumption ==
  /\ Poison \subseteq Events /\ Raisers \subseteq Hosts /\ NormalCap \in Nat \ {0} /\ MaxRetries \in Nat
  /\ RelayBatch \in Nat \ {0} /\ MaxFaults \in Nat /\ MaxFlushes \in Nat
  /\ NotRaised.host \notin Hosts /\ Nothing \notin Events

Queues == {"high", "normal"}
Priorities == {"high", "normal", "low"}
QueueOf(p) == IF p = "high" THEN "high" ELSE "normal"

VARIABLES
  raised,    \* event -> [host, life, prio, direct], or NotRaised
  queue,     \* host -> queue -> sequence of [ev, tries]
  drain,     \* host -> queue -> the processor inside process_queue, or Idle
  fate,      \* event -> what the queues of its host did with it
  unsent,    \* <<host, event>>: raised, its fan-out row not inserted yet
  rows,      \* the fan-out table, oldest first: sequence of [ev, src]
  acks,      \* <<event, instance>>: the acknowledgements
  toRelay,   \* host -> the rows its relay pass still has to deliver
  served,    \* host -> a relayed event delivered and not yet acknowledged
  life,      \* host -> starts so far: an instance id is fresh at each start
  shownAt,   \* <<host, event>> -> times the first audience was served there
  faults,    \* counts MaxFaults
  flushes    \* counts MaxFlushes

fanOutVars == <<raised, queue, drain, fate, unsent, rows, acks, toRelay, served,
                life, shownAt, faults, flushes>>

Idle == [by |-> "nobody", batch |-> <<>>, again |-> <<>>]
Instance(h) == <<h, life[h]>>

FanOutInit ==
  /\ raised = [e \in Events |-> NotRaised]
  /\ queue = [h \in Hosts |-> [q \in Queues |-> <<>>]]
  /\ drain = [h \in Hosts |-> [q \in Queues |-> Idle]]
  /\ fate = [e \in Events |-> "none"]
  /\ unsent = {} /\ rows = <<>> /\ acks = {}
  /\ toRelay = [h \in Hosts |-> <<>>]
  /\ served = [h \in Hosts |-> Nothing]
  /\ life = [h \in Hosts |-> 1]
  /\ shownAt = [x \in Hosts \X Events |-> 0]
  /\ faults = 0 /\ flushes = 0

Show(h, e) == shownAt' = [shownAt EXCEPT ![<<h, e>>] = @ + 1]
Fault == faults < MaxFaults /\ faults' = faults + 1
relayVars == <<rows, acks, toRelay, served>>

-----------------------------------------------------------------------------
(* Raising an event.                                                        *)

\* What enqueue leaves on the normal queue: past the cap the front is evicted.
Overflow(s) == IF Len(s) > NormalCap THEN Len(s) - NormalCap ELSE 0
Raised(h, e, p, direct) ==
  /\ h \in Raisers /\ raised[e] = NotRaised
  /\ raised' = [raised EXCEPT ![e] = [host |-> h, life |-> life[h], prio |-> p,
                                      direct |-> direct]]
  /\ unsent' = unsent \cup {<<h, e>>}

\* POST /queue-event, /broadcast and /system-broadcast.
Enqueue(h, e, p) ==
  LET s == Append(queue[h][QueueOf(p)], [ev |-> e, tries |-> 0])
      n == IF QueueOf(p) = "normal" THEN Overflow(s) ELSE 0
  IN /\ Raised(h, e, p, FALSE)
     /\ queue' = [queue EXCEPT ![h][QueueOf(p)] = SubSeq(s, n + 1, Len(s))]
     /\ fate' = [x \in Events |->
                   IF x = e \/ \E i \in 1..n : s[i].ev = x
                   THEN IF \E i \in 1..n : s[i].ev = x THEN "evicted" ELSE "queued"
                   ELSE fate[x]]
     /\ UNCHANGED <<drain, relayVars, life, shownAt, faults, flushes>>

\* The targeted broadcasts and the domain events deliver in place first.
Broadcast(h, e) ==
  /\ Raised(h, e, "high", TRUE)
  /\ Show(h, e)
  /\ fate' = [fate EXCEPT ![e] = "delivered"]
  /\ UNCHANGED <<queue, drain, relayVars, life, faults, flushes>>

\* deliver_targets fails part-way: the request ends before it publishes.
BroadcastFails(h, e) ==
  /\ h \in Raisers /\ raised[e] = NotRaised
  /\ Fault
  /\ raised' = [raised EXCEPT ![e] = [host |-> h, life |-> life[h], prio |-> "high",
                                      direct |-> TRUE]]
  /\ Show(h, e)
  /\ fate' = [fate EXCEPT ![e] = "failed"]
  /\ UNCHANGED <<queue, drain, unsent, relayVars, life, flushes>>

\* The row is inserted; a failing insert is logged and the event stays local.
Publish(h, e) ==
  /\ <<h, e>> \in unsent
  /\ unsent' = unsent \ {<<h, e>>}
  /\ \/ rows' = Append(rows, [ev |-> e, src |-> Instance(h)]) /\ UNCHANGED faults
     \/ Fault /\ UNCHANGED rows
  /\ UNCHANGED <<raised, queue, drain, fate, acks, toRelay, served, life, shownAt, flushes>>

-----------------------------------------------------------------------------
(* Draining a queue: one of the two loops, or POST /flush-queue.            *)

\* MUTANT of TakeBatch: a queue in another's hands is taken too.
TakeBatchBlind(h, q, by) ==
  /\ drain' = [drain EXCEPT ![h][q] = [by |-> by, batch |-> queue[h][q], again |-> <<>>]]
  /\ queue' = [queue EXCEPT ![h][q] = <<>>]

TakeBatch(h, q, by) ==
  /\ drain[h][q] = Idle
  /\ drain' = [drain EXCEPT ![h][q] = [by |-> by, batch |-> queue[h][q], again |-> <<>>]]
  /\ queue' = [queue EXCEPT ![h][q] = <<>>]

\* A tick over an empty queue takes and returns an empty batch.
BeginDrain(h, q) ==
  /\ queue[h][q] /= <<>>
  /\ TakeBatch(h, q, "loop")
  /\ UNCHANGED <<raised, fate, unsent, relayVars, life, shownAt, faults, flushes>>

BeginFlush(h, q) ==
  /\ flushes < MaxFlushes /\ queue[h][q] /= <<>>
  /\ flushes' = flushes + 1
  /\ TakeBatch(h, q, "flush")
  /\ UNCHANGED <<raised, fate, unsent, relayVars, life, shownAt, faults>>

\* Low priority is abandoned outright, the rest up to the ceiling.
Retried(item) == raised[item.ev].prio /= "low" /\ item.tries < MaxRetries

Deliver(h, q) ==
  LET item == Head(drain[h][q].batch) IN
  /\ drain[h][q].batch /= <<>>
  /\ drain' = [drain EXCEPT ![h][q].batch = Tail(@)]
  /\ Show(h, item.ev)
  /\ fate' = [fate EXCEPT ![item.ev] = "delivered"]
  /\ UNCHANGED <<raised, queue, unsent, relayVars, life, faults, flushes>>

\* A failed lookup, after the first audience or before it. (The bound counts
\* the first failure of an event only: what made it fail may last.)
DeliverFails(h, q) ==
  LET item == Head(drain[h][q].batch) IN
  /\ drain[h][q].batch /= <<>>
  /\ IF item.tries = 0 THEN Fault ELSE UNCHANGED faults
  /\ \/ Show(h, item.ev)
     \/ UNCHANGED shownAt
  /\ IF Retried(item)
     THEN /\ drain' = [drain EXCEPT ![h][q].batch = Tail(@),
                                    ![h][q].again = Append(@, [item EXCEPT !.tries = @ + 1])]
          /\ UNCHANGED fate
     ELSE /\ drain' = [drain EXCEPT ![h][q].batch = Tail(@)]
          /\ fate' = [fate EXCEPT ![item.ev] = "failed"]
  /\ UNCHANGED <<raised, queue, unsent, relayVars, life, flushes>>

\* What failed goes back past the cap, and the flag is cleared.
FinishDrain(h, q) ==
  /\ drain[h][q].by \in {"loop", "flush"} /\ drain[h][q].batch = <<>>
  /\ queue' = [queue EXCEPT ![h][q] = @ \o drain[h][q].again]
  /\ drain' = [drain EXCEPT ![h][q] = Idle]
  /\ UNCHANGED <<raised, fate, unsent, relayVars, life, shownAt, faults, flushes>>

\* The client of a flush hangs up: its handler is dropped at the lookup it
\* awaits, with the batch and what had failed, and nobody clears the flag.
CancelFlush(h, q) ==
  LET held == drain[h][q].batch \o drain[h][q].again IN
  /\ drain[h][q].by = "flush" /\ drain[h][q].batch /= <<>>
  /\ drain' = [drain EXCEPT ![h][q] = [by |-> "gone", batch |-> <<>>, again |-> <<>>]]
  /\ fate' = [e \in Events |-> IF \E i \in DOMAIN held : held[i].ev = e THEN "lost" ELSE fate[e]]
  /\ UNCHANGED <<raised, queue, unsent, relayVars, life, shownAt, faults, flushes>>

-----------------------------------------------------------------------------
(* The relay of the other instances' events.                                *)

\* The rows of the others that h has not acknowledged; a pass takes the oldest.
Pending(h) == {i \in DOMAIN rows : /\ rows[i].src /= Instance(h)
                                   /\ <<rows[i].ev, Instance(h)>> \notin acks}
Oldest(p, n, h) ==
  /\ \A i, j \in 1..n : i < j => p[i] < p[j]
  /\ \A i \in Pending(h) : (\E j \in 1..n : p[j] = i) \/ (n = RelayBatch /\ p[n] < i)

BeginPass(h) ==
  /\ toRelay[h] = <<>> /\ served[h] = Nothing
  /\ \E n \in 1..RelayBatch : \E p \in [1..n -> Pending(h)] :
       /\ Oldest(p, n, h)
       /\ toRelay' = [toRelay EXCEPT ![h] = [i \in 1..n |-> rows[p[i]]]]
  /\ UNCHANGED <<raised, queue, drain, fate, unsent, rows, acks, served, life, shownAt,
                 faults, flushes>>

\* A row that cannot be read and a delivery that fails are logged; the row is
\* acknowledged all the same.
Relay(h) ==
  LET e == Head(toRelay[h]).ev IN
  /\ toRelay[h] /= <<>> /\ served[h] = Nothing
  /\ toRelay' = [toRelay EXCEPT ![h] = Tail(@)]
  /\ served' = [served EXCEPT ![h] = e]
  /\ \/ e \notin Poison /\ Show(h, e) /\ UNCHANGED faults
     \/ e \in Poison /\ UNCHANGED <<shownAt, faults>>
     \/ e \notin Poison /\ Fault /\ UNCHANGED shownAt
  /\ UNCHANGED <<raised, queue, drain, fate, unsent, rows, acks, life, flushes>>

RowKept(e) == \E i \in DOMAIN rows : rows[i].ev = e

\* A failing acknowledgement ends the pass. The foreign key refuses the
\* acknowledgement of a row the retention sweep removed.
Ack(h) ==
  /\ served[h] /= Nothing
  /\ served' = [served EXCEPT ![h] = Nothing]
  /\ \/ /\ RowKept(served[h])
        /\ acks' = acks \cup {<<served[h], Instance(h)>>}
        /\ UNCHANGED <<toRelay, faults>>
     \/ /\ \/ Fault
           \/ ~RowKept(served[h]) /\ UNCHANGED faults
        /\ toRelay' = [toRelay EXCEPT ![h] = <<>>]
        /\ UNCHANGED acks
  /\ UNCHANGED <<raised, queue, drain, fate, unsent, rows, life, shownAt, flushes>>

\* cleanup_remote_broadcast_events: a row a day old goes, its acks with it.
Expire ==
  /\ rows /= <<>>
  /\ Fault
  /\ rows' = Tail(rows)
  /\ acks' = {a \in acks : a[1] /= Head(rows).ev}
  /\ UNCHANGED <<raised, queue, drain, fate, unsent, toRelay, served, life, shownAt, flushes>>

-----------------------------------------------------------------------------
\* A restarted process has empty queues, no drain flag and a new instance id.
FanOutRestart(h) ==
  /\ Fault
  /\ life' = [life EXCEPT ![h] = @ + 1]
  /\ queue' = [queue EXCEPT ![h] = [q \in Queues |-> <<>>]]
  /\ drain' = [drain EXCEPT ![h] = [q \in Queues |-> Idle]]
  /\ toRelay' = [toRelay EXCEPT ![h] = <<>>]
  /\ served' = [served EXCEPT ![h] = Nothing]
  /\ unsent' = {x \in unsent : x[1] /= h}
  /\ fate' = [e \in Events |-> IF raised[e].host = h /\ fate[e] = "queued"
                               THEN "lost" ELSE fate[e]]
  /\ UNCHANGED <<raised, rows, acks, shownAt, flushes>>

FanOutNext ==
  \/ \E h \in Hosts, e \in Events :
       \/ \E p \in Priorities : Enqueue(h, e, p)
       \/ Broadcast(h, e)
       \/ BroadcastFails(h, e)
       \/ Publish(h, e)
  \/ \E h \in Raisers, q \in Queues :
       \/ BeginDrain(h, q)
       \/ BeginFlush(h, q)
       \/ Deliver(h, q)
       \/ DeliverFails(h, q)
       \/ FinishDrain(h, q)
       \/ CancelFlush(h, q)
  \/ \E h \in Hosts :
       \/ BeginPass(h)
       \/ Relay(h)
       \/ Ack(h)
       \/ FanOutRestart(h)
  \/ Expire

\* Each loop is one task that ticks for ever, and a running request runs on.
\* One condition for both loops of a host assumes less than one for each.
QueueTask(h, q) == BeginDrain(h, q) \/ Deliver(h, q) \/ FinishDrain(h, q)
RelayTask(h) == BeginPass(h) \/ Relay(h) \/ Ack(h)
FanOutFairness ==
  /\ \A h \in Raisers : WF_fanOutVars(\E q \in Queues : QueueTask(h, q))
  /\ \A h \in Hosts : WF_fanOutVars(RelayTask(h))

FanOutSpec == FanOutInit /\ [][FanOutNext]_fanOutVars /\ FanOutFairness

-----------------------------------------------------------------------------
ItemSet == [ev : Events, tries : 0..MaxRetries]
FanOutTypeOK ==
  /\ raised \in [Events -> {NotRaised} \cup [host : Hosts, life : 1..MaxFaults + 1,
                                            prio : Priorities, direct : BOOLEAN]]
  /\ queue \in [Hosts -> [Queues -> Seq(ItemSet)]]
  /\ drain \in [Hosts -> [Queues -> [by : {"nobody", "loop", "flush", "gone"},
                                     batch : Seq(ItemSet), again : Seq(ItemSet)]]]
  /\ fate \in [Events -> {"none", "queued", "delivered", "failed", "evicted", "lost"}]
  /\ unsent \subseteq Hosts \X Events
  /\ rows \in Seq([ev : Events, src : Hosts \X (1..MaxFaults + 1)])
  /\ acks \subseteq Events \X (Hosts \X (1..MaxFaults + 1))
  /\ toRelay \in [Hosts -> Seq([ev : Events, src : Hosts \X (1..MaxFaults + 1)])]
  /\ served \in [Hosts -> Events \cup {Nothing}]
  /\ life \in [Hosts -> 1..MaxFaults + 1]
  /\ shownAt \in [Hosts \X Events -> Nat]
  /\ faults \in 0..MaxFaults /\ flushes \in 0..MaxFlushes

Origin(e) == <<raised[e].host, raised[e].life>>
IsRow(r) == raised[r.ev] /= NotRaised /\ r.src = Origin(r.ev)
OncePerEvent(s) == \A i, j \in DOMAIN s : s[i].ev = s[j].ev => i = j
HeldAt(h, q) == ToSet(queue[h][q]) \cup ToSet(drain[h][q].batch) \cup ToSet(drain[h][q].again)

Copies(e, s) == Cardinality({i \in DOMAIN s : s[i].ev = e})
CopiesAt(e, h, q) == Copies(e, queue[h][q] \o drain[h][q].batch \o drain[h][q].again)

\* "Drain one queue and deliver every event to its audiences": an event whose
\* fate is open is in exactly one place, a queue or the hands of one
\* processor, whatever loop, flush and retry are running (take_batch,
\* process_queue, finish_drain); an event with a fate is in none.
EventIsHeldOnce ==
  \A e \in Events, h \in Hosts, q \in Queues :
    CopiesAt(e, h, q) = IF /\ fate[e] = "queued" /\ raised[e].host = h
                           /\ QueueOf(raised[e].prio) = q THEN 1 ELSE 0

\* The retry ceiling bounds what one event does to the sockets of the process
\* that raised it: the first audience is served at most once per attempt, a
\* low-priority event is attempted once, and no instance relays its own row.
ServedPerAttempt ==
  \A e \in Events :
    raised[e] /= NotRaised =>
      LET h == raised[e].host IN
      life[h] = raised[e].life => shownAt[h, e] <= IF raised[e].prio = "low" THEN 1
                                              ELSE MaxRetries + 1

OwnEventOnce ==
  \A e \in Events :
    raised[e] /= NotRaised /\ raised[e].direct /\ life[raised[e].host] = raised[e].life
      => shownAt[raised[e].host, e] = 1

\* Without a fault an event is shown at most once at each process, and what a
\* process acknowledged it has shown, unless it could not be read.
OncePerInstance ==
  faults = 0 =>
    /\ \A x \in Hosts \X Events : shownAt[x] <= 1
    /\ \A a \in acks : a[1] \notin Poison => shownAt[a[2][1], a[1]] = 1

\* "a bad row cannot permanently block a receiver": again and again a process has
\* acknowledged every row of the others, whatever the rows before it hold.
RelayReaches ==
  []<>(\A h \in Hosts, i \in DOMAIN rows :
         rows[i].src[1] /= h => <<rows[i].ev, Instance(h)>> \in acks)

\* Again and again no event waits in a queue: whoever took the drain flag releases
\* it, unless it was a flush whose client hung up (take_batch, finish_drain).
Stuck(e) == drain[raised[e].host][QueueOf(raised[e].prio)].by = "gone"
QueueDrains == []<>(\A e \in Events : fate[e] = "queued" => Stuck(e))

\* The same with no exception, as process_queue's comment has it: "Drain one
\* queue and deliver every event to its audiences".
QueueAlwaysDrains == []<>(\A e \in Events : fate[e] /= "queued")

\* What an event has come to fits the life of its process: one that is queued, or that waits
\* to be published, was raised since the last start, and a direct one is never queued.
EventsFit ==
  \A e \in Events :
    /\ raised[e] = NotRaised =>
         fate[e] = "none" /\ \A h \in Hosts : shownAt[h, e] = 0 /\ <<h, e>> \notin unsent
    /\ raised[e] /= NotRaised =>
         /\ raised[e].life <= life[raised[e].host]
         /\ fate[e] = "queued" => ~raised[e].direct /\ raised[e].life = life[raised[e].host]
         /\ \A h \in Hosts : <<h, e>> \in unsent => Instance(h) = Origin(e)

\* An item's tries bound what its event did to the sockets so far, and a low-priority item,
\* or one that met no failure, is at its first.
TriesFit ==
  \A h \in Hosts, q \in Queues : \A t \in HeldAt(h, q) :
    /\ shownAt[h, t.ev] <= t.tries
    /\ faults = 0 \/ raised[t.ev].prio = "low" => t.tries = 0

\* A row, and what is made of it, stands for an event raised by another instance, once.
RowsFit ==
  /\ \A h \in Hosts : life[h] <= faults + 1
  /\ \A i \in DOMAIN rows : IsRow(rows[i]) /\ \A h \in Hosts : <<h, rows[i].ev>> \notin unsent
  /\ OncePerEvent(rows)
  /\ \A h \in Hosts : \A i \in DOMAIN toRelay[h] :
        IsRow(toRelay[h][i]) /\ toRelay[h][i].src /= Instance(h)
  /\ \A h \in Hosts : served[h] /= Nothing =>
        raised[served[h]] /= NotRaised /\ Origin(served[h]) /= Instance(h)
  /\ \A a \in acks : /\ raised[a[1]] /= NotRaised /\ Origin(a[1]) /= a[2]
                     /\ a[2][2] <= life[a[2][1]]

\* Without a fault a process has shown of the others' events those it acknowledged, and the
\* one in its hands.
RelayFits ==
  faults = 0 =>
    \A h \in Hosts :
      /\ OncePerEvent(toRelay[h])
      /\ \A i \in DOMAIN toRelay[h] : LET e == toRelay[h][i].ev IN
            RowKept(e) /\ e /= served[h] /\ <<e, Instance(h)>> \notin acks
      /\ served[h] /= Nothing => RowKept(served[h])
      /\ \A e \in Events : raised[e] /= NotRaised /\ raised[e].host /= h =>
            shownAt[h, e] = IF /\ served[h] = e \/ <<e, Instance(h)>> \in acks
                               /\ e \notin Poison THEN 1 ELSE 0

\* However loop, flush, retry, relay and restart interleave, an event is held in one place,
\* served within its attempts, never relayed to its own process, and shown once elsewhere.
FanOutInv ==
  /\ FanOutTypeOK /\ EventIsHeldOnce /\ ServedPerAttempt /\ OwnEventOnce /\ OncePerInstance
  /\ EventsFit /\ TriesFit /\ RowsFit /\ RelayFits
=============================================================================
