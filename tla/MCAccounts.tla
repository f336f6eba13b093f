---------------------------- MODULE MCAccounts ----------------------------
(* Staff accounts, for TLC: credentials, memberships, profiles, presence,   *)
(* alerts and the two limiters.  They share no state: a behaviour is about  *)
(* one of them.                                                             *)
EXTENDS Credentials, Memberships, AgentProfiles, Presence, Alerts, RateLimit, UploadLimit, TLC

VARIABLE part

vars == <<part, credVars, memberVars, profileVars, presenceVars, alertVars, rateVars, upldVars>>

CONSTANTS x1, x2, y1, y2, y3, z1, z2, b1

\* The fields of a profile that one request names.
MCWishes == {{"email", "team"}, {"level", "description"}}

\* A request names each account, or one of them twice.
MCBatches == {<<z2, z1>>, <<z1, z1>>}

\* default_config, and the destinations' least severities.
MCChannelsOf == [l \in {"info", "critical", "emergency"} |->
  CASE l = "info" -> <<"console">> [] l = "critical" -> <<"webhook", "email">>
    [] l = "emergency" -> <<"console", "email", "chat">>]
MCMinSeverity == [d \in {"email", "chat-webhook", "webhook"} |->
  CASE d = "email" -> 2 [] d = "chat-webhook" -> 1 [] d = "webhook" -> 0]

\* STANDARD_UPLOADS, and ADMIN_UPLOADS with one more of each.
MCPolicies ==
  {[max_concurrent |-> 1 + n, per_minute |-> 2 + n, per_hour |-> 3 + n, bytes_per_hour |-> 4 + n] : n \in {0, 1}}

Init ==
  /\ part \in {"credentials", "memberships", "profiles", "presence", "alerts", "rate", "uploadlimit"}
  /\ CredInit /\ MemberInit /\ ProfileInit /\ PresenceInit /\ AlertInit /\ RateInit /\ UpldInit
  \* A part that does not run starts in one state of those it may start in.
  /\ part /= "memberships" => memberOf = {}
  \* Addresses are interchangeable: one assignment stands for all.
  /\ mailOf = (z1 :> y1 @@ z2 :> y2)

In(p) == part = p /\ UNCHANGED part

Next ==
  \/ /\ In("credentials") /\ CredNext
     /\ UNCHANGED <<memberVars, profileVars, presenceVars, alertVars, rateVars, upldVars>>
  \/ /\ In("memberships") /\ MemberNext
     /\ UNCHANGED <<credVars, profileVars, presenceVars, alertVars, rateVars, upldVars>>
  \/ /\ In("profiles") /\ ProfileNext
     /\ UNCHANGED <<credVars, memberVars, presenceVars, alertVars, rateVars, upldVars>>
  \/ /\ In("presence") /\ PresenceNext
     /\ UNCHANGED <<credVars, memberVars, profileVars, alertVars, rateVars, upldVars>>
  \/ /\ In("alerts") /\ AlertNext
     /\ UNCHANGED <<credVars, memberVars, profileVars, presenceVars, rateVars, upldVars>>
  \/ /\ In("rate") /\ RateNext
     /\ UNCHANGED <<credVars, memberVars, profileVars, presenceVars, alertVars, upldVars>>
  \/ /\ In("uploadlimit") /\ UpldNext
     /\ UNCHANGED <<credVars, memberVars, profileVars, presenceVars, alertVars, rateVars>>

Spec == Init /\ [][Next]_vars

\* The parts share their model values: callers of a kind are interchangeable.
Symmetry == Permutations(Clients)

\* The agents component: profiles and presence.
AgentsInv == ProfileInv /\ PresenceInv

\* The two limiters.
LimitsHold == RateInv /\ UpldInv
===========================================================================
