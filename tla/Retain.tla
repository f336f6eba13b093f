------------------------------- MODULE Retain -------------------------------
(* Vec::retain, as both limiters use it to forget what has aged.             *)
EXTENDS Naturals, Sequences, FiniteSets

\* What is left of s when only these of its positions stay, in their order.
Retained(s, places) ==
  [i \in 1..Cardinality(places) |->
     s[CHOOSE k \in places : Cardinality({j \in places : j <= k}) = i]]
=============================================================================
