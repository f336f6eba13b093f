-------------------------- MODULE MCDelayedMessages --------------------------
(* Small instances of DelayedMessages for TLC. *)
EXTENDS DelayedMessages

CONSTANTS chat, push, alice, root

\* Two messages of one agent, one webchat and one through a platform gateway.
MCOwner == [i \in Items |-> alice]
MCPlatform == [i \in Items |-> IF i = chat THEN "webchat" ELSE "gateway"]

=============================================================================
