----------------------------- MODULE RateLimit -----------------------------
(***************************************************************************)
(* The sliding window of one policy and one caller                         *)
(* (middleware/rate_limit.rs).  A request reads the clock and then waits   *)
(* for the mutex, so requests may enter out of the order of their          *)
(* readings.  The limiter keeps the readings of those it admitted, in the  *)
(* order of admission, and drops them as they age; the wait a refused      *)
(* caller is told is in whole seconds, an instant is a fraction of one.    *)
(***************************************************************************)
EXTENDS Naturals, Sequences, FiniteSets

CONSTANTS Callers,          \* requests of the caller that may be checked together
          Fraction,         \* instants in a second
          MaxInstant,       \* bound: instants
          MaxHits, Window,  \* a RatePolicy: requests, seconds
          MaxAdmitted       \* bound: requests admitted

ASSUME RateLimitAssumption ==
  {Fraction, Window, MaxHits} \subseteq Nat \ {0} /\ {MaxInstant, MaxAdmitted} \subseteq Nat

VARIABLES
  clock,
  checking,  \* requests before the mutex, [by, at]: who, and its reading of the clock
  admitted,  \* every admission of the caller, [at, entered]: the reading, and the instant
             \* it was pushed at
  hits,      \* the admissions whose reading is kept
  told       \* instants it was told to come back at, since the last admission

rateVars == <<clock, checking, admitted, hits, told>>

RateInit == clock = 0 /\ checking = {} /\ admitted = <<>> /\ hits = {} /\ told = {}

Span == Window * Fraction
Minus(x, y) == IF x > y THEN x - y ELSE 0    \* duration_since, saturating_sub

\* The hits that a check with this reading retains, and the first of them.
Recent(now) == {i \in hits : Minus(now, admitted[i].at) < Span}
Oldest(kept) == CHOOSE i \in kept : \A j \in kept : i <= j

\* The seconds left of the oldest hit, rounded down, and one more.
ResetSecs(now, oldest) == Minus(Span, Minus(now, admitted[oldest].at)) \div Fraction + 1

-----------------------------------------------------------------------------
(* check.                                                                   *)

ReadClock(c) ==
  /\ \A p \in checking : p.by /= c
  /\ checking' = checking \cup {[by |-> c, at |-> clock]}
  /\ UNCHANGED <<clock, admitted, hits, told>>

\* Under the mutex: one more admission, over these hits.
Push(p, kept) ==
  /\ Len(admitted) < MaxAdmitted
  /\ Cardinality(kept) < MaxHits
  /\ admitted' = Append(admitted, [at |-> p.at, entered |-> clock])
  /\ hits' = kept \cup {Len(admitted) + 1}
  /\ checking' = checking \ {p} /\ told' = {} /\ UNCHANGED clock

\* MUTANT of Admit: a hit is forgotten an instant too early.
AdmitShortWindow(p) == Push(p, {i \in Recent(p.at) : Minus(p.at, admitted[i].at) < Span - 1})

Admit(p) == Push(p, Recent(p.at))

Refuse(p) ==
  /\ Cardinality(Recent(p.at)) >= MaxHits
  /\ hits' = Recent(p.at)
  /\ told' = told \cup {clock + Fraction * ResetSecs(p.at, Oldest(Recent(p.at)))}
  /\ checking' = checking \ {p} /\ UNCHANGED <<clock, admitted>>

ClockTick ==
  /\ clock < MaxInstant /\ clock' = clock + 1
  /\ UNCHANGED <<checking, admitted, hits, told>>

RateNext ==
  \/ ClockTick
  \/ \E c \in Callers : ReadClock(c)
  \/ \E p \in checking : Admit(p) \/ Refuse(p)

RateSpec == RateInit /\ [][RateNext]_rateVars

-----------------------------------------------------------------------------
RateTypeOK ==
  /\ clock \in 0..MaxInstant /\ told \subseteq Nat
  /\ checking \subseteq [by : Callers, at : 0..clock]
  /\ admitted \in Seq([at : 0..clock, entered : 0..clock])
  /\ hits \subseteq DOMAIN admitted /\ Cardinality(hits) <= MaxHits

\* What was forgotten has aged.
ForgottenHasAged == \A i \in DOMAIN admitted \ hits : clock - admitted[i].at >= Span

\* However checks overtake each other, no window of the policy's length holds, from their
\* readings to their admissions, more requests of the caller than the policy allows (check).
WindowHolds ==
  \A j \in DOMAIN admitted :
    Cardinality({i \in 1..j : admitted[j].entered - admitted[i].at < Span}) <= MaxHits

\* No caller is told of an instant at which every hit of a full window still counts ...
ToldOfRoom ==
  \A t \in told : Cardinality(hits) = MaxHits => \E i \in hits : t >= admitted[i].at + Span

\* ... so a request that reads the clock after the wait it was told finds room, whatever
\* has been refused since and unless another has been admitted.
RetryAfterHolds ==
  \A t \in told : \A now \in {clock} \cup {p.at : p \in checking} :
    now >= t => Cardinality(Recent(now)) < MaxHits

\* The policy holds over every window, and what a refused caller is told is enough.
RateInv == RateTypeOK /\ ForgottenHasAged /\ WindowHolds /\ ToldOfRoom /\ RetryAfterHolds

-----------------------------------------------------------------------------
(* Stated by Rust_CRD.md:5626, "Counting is enforced over a rolling time    *)
(* window", and refuted.                                                    *)

\* No window of the policy's length holds more readings than the policy allows. A check that
\* has been overtaken finds forgotten what its own window still holds.
ReadingsInWindow ==
  \A i \in DOMAIN admitted :
    Cardinality({j \in DOMAIN admitted :
                   admitted[i].at >= admitted[j].at /\ admitted[i].at - admitted[j].at < Span}) <= MaxHits
=============================================================================
