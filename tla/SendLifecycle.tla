---------------------------- MODULE SendLifecycle ----------------------------
(***************************************************************************)
(* What the store of scheduled messages really promises about a delayed     *)
(* send, without clock, requests, markers or memory: a message is claimed   *)
(* by a dispatcher only while it is pending, a claim is worth at most one   *)
(* attempt to deliver, and only the holder of a claim may overwrite a       *)
(* status that is already settled.  DelayedMessages implements this.        *)
(***************************************************************************)
EXTENDS Integers

CONSTANTS Items, NoItem, Instances

VARIABLES
    phase,    \* phase[i]: lifecycle state of message i
    claim,    \* claim[p]: the message dispatcher p has taken up, or NoItem
    tried,    \* tried[p]: p has made the attempt its claim is worth
    copies    \* copies[p][i]: copies of i that p handed over

vars == <<phase, claim, tried, copies>>

Init ==
    /\ phase = [i \in Items |-> "absent"]
    /\ claim = [p \in Instances |-> NoItem]
    /\ tried = [p \in Instances |-> FALSE]
    /\ copies = [p \in Instances |-> [i \in Items |-> 0]]

\* Some messages, all in state from, move to state to at once.
Move(from, to) ==
    /\ \E S \in SUBSET {i \in Items : phase[i] = from} :
         phase' = [i \in Items |-> IF i \in S THEN to ELSE phase[i]]
    /\ UNCHANGED <<claim, tried, copies>>

Claim(p, i) ==
    /\ claim[p] = NoItem
    /\ phase[i] = "pending"
    /\ claim' = [claim EXCEPT ![p] = i]
    /\ UNCHANGED <<phase, tried, copies>>

Attempt(p) ==
    /\ claim[p] # NoItem
    /\ ~tried[p]
    /\ tried' = [tried EXCEPT ![p] = TRUE]
    /\ \/ copies' = [copies EXCEPT ![p][claim[p]] = @ + 1]
       \/ UNCHANGED copies
    /\ UNCHANGED <<phase, claim>>

\* The holder gives its claim up and may write an outcome of its attempt.
Release(p) ==
    /\ claim[p] # NoItem
    /\ claim' = [claim EXCEPT ![p] = NoItem]
    /\ tried' = [tried EXCEPT ![p] = FALSE]
    /\ \/ UNCHANGED phase
       \/ /\ tried[p]
          /\ phase[claim[p]] \notin {"absent", "purged"}
          /\ \E outcome \in {"sent", "failed"} :
               phase' = [phase EXCEPT ![claim[p]] = outcome]
    /\ UNCHANGED copies

Next ==
    \/ Move("absent", "pending")
    \/ Move("pending", "cancelled")
    \/ Move("pending", "purged")
    \/ Move("failed", "archived")
    \/ \E p \in Instances, i \in Items : Claim(p, i)
    \/ \E p \in Instances : Attempt(p) \/ Release(p)

Spec == Init /\ [][Next]_vars

=============================================================================
