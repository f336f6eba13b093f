---------------------------- MODULE UploadLimit ----------------------------
(***************************************************************************)
(* The caps on one user's uploads (domain/files/limiter.rs): uploads in    *)
(* flight, uploads per minute and per hour, and bytes per hour.  An upload *)
(* takes a slot under the limiter's mutex and its guard gives it back when *)
(* the request is answered or abandoned.  All the policies count against   *)
(* one record.                                                             *)
(***************************************************************************)
EXTENDS Retain

CONSTANTS Policies,         \* of UploadPolicy: STANDARD_UPLOADS, ADMIN_UPLOADS
          Sizes,            \* bytes of an upload
          Minute, Hour,     \* in instants
          Uploaders,        \* requests that may be in flight together
          MaxMoment,        \* bound: instants
          MaxUploads        \* bound: uploads admitted

ASSUME UploadLimitAssumption ==
  /\ Policies \subseteq [max_concurrent : Nat, per_minute : Nat, per_hour : Nat, bytes_per_hour : Nat]
  /\ Sizes \subseteq Nat /\ {MaxMoment, MaxUploads} \subseteq Nat
  /\ {Minute, Hour} \subseteq Nat \ {0} /\ Minute <= Hour

VARIABLES
  moment,
  slots,     \* UserCounters.concurrent
  events,    \* UserCounters.events, [at, bytes]
  uploading, \* the requests that hold a guard
  uploads    \* every upload ever admitted, [at, bytes, policy]

upldVars == <<moment, slots, events, uploading, uploads>>

UpldInit == moment = 0 /\ slots = 0 /\ events = <<>> /\ uploading = {} /\ uploads = <<>>

\* Positions of what is younger than this at an instant.
Since(s, now, span) == {i \in DOMAIN s : now - s[i].at < span}

\* The bytes at these positions, counted one by one.
Bytes(s, places) == Cardinality(UNION {{<<i, b>> : b \in 1..s[i].bytes} : i \in places})

-----------------------------------------------------------------------------
(* admit, and the guard's drop.                                             *)

\* The events of the last hour leave room for one more of these bytes.
WithinBudget(kept, bytes, policy) ==
  /\ Cardinality(Since(kept, moment, Minute)) < policy.per_minute
  /\ Len(kept) < policy.per_hour
  /\ Bytes(kept, DOMAIN kept) + bytes <= policy.bytes_per_hour

Take(u, bytes, policy, kept) ==
  /\ u \notin uploading /\ Len(uploads) < MaxUploads
  /\ slots < policy.max_concurrent /\ WithinBudget(kept, bytes, policy)
  /\ slots' = slots + 1
  /\ events' = Append(kept, [at |-> moment, bytes |-> bytes])
  /\ uploading' = uploading \cup {u}
  /\ uploads' = Append(uploads, [at |-> moment, bytes |-> bytes, policy |-> policy])
  /\ UNCHANGED moment

OfLastHour == Retained(events, Since(events, moment, Hour))

AdmitUpload(u, bytes, policy) == Take(u, bytes, policy, OfLastHour)

RefuseUpload(bytes, policy) ==
  /\ slots >= policy.max_concurrent \/ ~WithinBudget(OfLastHour, bytes, policy)
  /\ events' = OfLastHour
  /\ UNCHANGED <<moment, slots, uploading, uploads>>

DropGuard(u) ==
  /\ u \in uploading
  /\ uploading' = uploading \ {u}
  /\ slots' = IF slots = 0 THEN 0 ELSE slots - 1
  /\ UNCHANGED <<moment, events, uploads>>

Passes ==
  /\ moment < MaxMoment /\ moment' = moment + 1
  /\ UNCHANGED <<slots, events, uploading, uploads>>

UpldNext ==
  \/ Passes
  \/ \E u \in Uploaders, b \in Sizes, p \in Policies : AdmitUpload(u, b, p)
  \/ \E b \in Sizes, p \in Policies : RefuseUpload(b, p)
  \/ \E u \in Uploaders : DropGuard(u)

UpldSpec == UpldInit /\ [][UpldNext]_upldVars

-----------------------------------------------------------------------------
UpldTypeOK ==
  /\ moment \in 0..MaxMoment /\ slots \in Nat
  /\ uploading \subseteq Uploaders /\ IsFiniteSet(uploading)
  /\ uploads \in Seq([at : 0..moment, bytes : Sizes, policy : Policies])
  /\ events \in Seq([at : 0..moment, bytes : Sizes]) /\ Len(events) <= Len(uploads)

\* The slots taken are the uploads in flight, whichever way each of them ended, and some
\* policy allows as many.
SlotsAreInFlight ==
  /\ slots = Cardinality(uploading)
  /\ slots > 0 => \E p \in Policies : slots <= p.max_concurrent

\* What is kept is the end of what was admitted, in the order of admission, and what was
\* forgotten is more than an hour old.
EventsAreLatest ==
  LET forgotten == Len(uploads) - Len(events)
  IN  /\ \A i \in DOMAIN events :
           /\ events[i].at = uploads[forgotten + i].at
           /\ events[i].bytes = uploads[forgotten + i].bytes
      /\ \A i \in 1..forgotten : moment - uploads[i].at >= Hour
      /\ \A i, j \in DOMAIN uploads : i <= j => uploads[i].at <= uploads[j].at

\* Of what was admitted over one user's history, no upload exceeded its policy's bytes or
\* uploads in the hour, or its uploads in the minute, that it ended.
BudgetsHold ==
  \A i \in DOMAIN uploads :
    LET before(span) == {j \in 1..i : uploads[i].at - uploads[j].at < span}
        policy == uploads[i].policy
    IN  /\ Cardinality(before(Minute)) <= policy.per_minute
        /\ Cardinality(before(Hour)) <= policy.per_hour
        /\ Bytes(uploads, before(Hour)) <= policy.bytes_per_hour

\* Slots and budgets count what is in flight and what was admitted, neither more nor less.
UpldInv == UpldTypeOK /\ SlotsAreInFlight /\ EventsAreLatest /\ BudgetsHold
=============================================================================
