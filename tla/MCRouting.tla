------------------------------ MODULE MCRouting ------------------------------
(* Small instances of Routing for TLC. *)
EXTENDS Routing, TLC

\* Conversations, teams and request slots are interchangeable.
Symmetry == Permutations(Convs) \cup Permutations(Teams) \cup Permutations(Requests)

=============================================================================
