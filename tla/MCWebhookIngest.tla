--------------------------- MODULE MCWebhookIngest ---------------------------
(* Small instances of WebhookIngest for TLC. *)
EXTENDS WebhookIngest

CONSTANTS m1, f1, amy

\* Everything comes from one customer, so that calls meet on her lock.
MCFrom == [e \in Events |-> amy]

\* A follow and a message in one body.
FollowThenMessage == {<<f1, m1>>}

=============================================================================
