---------------------------- MODULE Connections ----------------------------
(***************************************************************************)
(* The channel connections of one team to one platform (domain/channels,   *)
(* webhooks/ingest.rs and conversations/channels.rs). A request reads a    *)
(* row, may wait for the platform, and writes what it made of the copy; no *)
(* lock is held and no index keeps a second connection from being enabled. *)
(***************************************************************************)
EXTENDS Naturals, FiniteSets

CONSTANTS Rows,             \* connections that may exist
          Secrets,          \* credentials, as the platform knows them
          Askers,           \* requests
          MaxRevoked,       \* bound: credentials the platform revokes
          MaxRefused        \* bound: failures in a row when a send is refused

ASSUME ConnectionsAssumption == {MaxRevoked, MaxRefused} \subseteq Nat /\ Secrets /= {}

VARIABLES
  conn,      \* row -> [made, on, verified, secret, errors, received]
  accepted,  \* the credentials the platform accepts
  ask,       \* request -> [at, op, row, copy, flag, secret, yes, stale]: the copy it read
             \* and the columns of it that have been written since
  good,      \* the credentials the platform has ever accepted in a verification
  off,       \* rows disabled by a request and not enabled by one since
  fails,     \* row -> failures on record since its last successful verification
  got,       \* row -> messages received
  lost,      \* row -> messages the database did not let be counted
  overwritten  \* a request wrote from a copy that was no longer the row

connVars == <<conn, accepted, ask, good, off, fails, got, lost, overwritten>>

AnySecret == CHOOSE s \in Secrets : TRUE
Unmade == [made |-> FALSE, on |-> FALSE, verified |-> FALSE, secret |-> AnySecret,
           errors |-> 0, received |-> 0]
Created(s) == [Unmade EXCEPT !.made = TRUE, !.on = TRUE, !.secret = s]
Unasked == [at |-> "new", op |-> "none", row |-> 0, copy |-> Unmade, flag |-> "keep",
            secret |-> AnySecret, yes |-> FALSE, stale |-> {}]

\* There is no connection, or one that nobody has verified yet.
ConnInit ==
  /\ \/ conn = [i \in Rows |-> Unmade]
     \/ \E i \in Rows, s \in Secrets :
          /\ \A j \in Rows : i <= j
          /\ conn = [j \in Rows |-> IF j = i THEN Created(s) ELSE Unmade]
  /\ accepted = Secrets /\ good = {} /\ off = {}
  /\ ask = [k \in Askers |-> Unasked]
  /\ fails = [i \in Rows |-> 0] /\ got = [i \in Rows |-> 0] /\ lost = [i \in Rows |-> 0]
  /\ overwritten = FALSE

Revoke(s) ==
  /\ s \in accepted /\ Cardinality(Secrets \ accepted) < MaxRevoked
  /\ accepted' = accepted \ {s}
  /\ UNCHANGED <<conn, ask, good, off, fails, got, lost, overwritten>>

Pending == {k \in Askers : ask[k].at \in {"platform", "write"}}
Done == [Unasked EXCEPT !.at = "done"]
ActiveExists(i) == \E j \in Rows \ {i} : conn[j].on
Reads(op) == CASE op = "create" -> {"on"} [] op = "update" -> {"on", "verified", "secret"}
               [] op = "enable" -> {"on", "verified", "secret"}
               [] op = "verify" -> {"secret", "errors"} [] op = "bump" -> {"received"} [] OTHER -> {}

-----------------------------------------------------------------------------
(* A request reads.                                                          *)

ReadsRow(k, op, i, flag, s) ==
  /\ ask[k].at = "new"
  /\ ask' = [ask EXCEPT ![k] = [Unasked EXCEPT !.at = IF op = "verify" THEN "platform" ELSE "write",
                                !.op = op, !.row = i, !.copy = conn[i], !.flag = flag, !.secret = s]]
  /\ UNCHANGED <<conn, accepted, good, off, fails, got, lost, overwritten>>

\* An INSERT makes a row of its own, whoever else is creating one.
Claimed(i) == conn[i].made \/ \E o \in Pending : ask[o].op = "create" /\ ask[o].row = i
CreateChannel(k, i, s) ==
  /\ ~Claimed(i) /\ (\A j \in Rows : j < i => Claimed(j)) /\ ~ActiveExists(i)
  /\ ReadsRow(k, "create", i, "keep", s)
\* With "isActive": false an update disables as well, like delete_channel.
UpdateChannel(k, i, s) == conn[i].made /\ ReadsRow(k, "update", i, "keep", s)
EnableChannel(k, i) == /\ conn[i].made /\ (conn[i].on \/ ~ActiveExists(i))
                       /\ ReadsRow(k, "enable", i, "on", conn[i].secret)
DeleteChannel(k, i) == conn[i].made /\ ReadsRow(k, "disable", i, "off", conn[i].secret)
VerifyChannel(k, i) == conn[i].made /\ conn[i].on /\ ReadsRow(k, "verify", i, "keep", conn[i].secret)
BumpReceived(k, i) == conn[i].on /\ ReadsRow(k, "bump", i, "keep", conn[i].secret)

\* A SELECT or an UPDATE of bump_received that fails is passed over: the message stands uncounted.
BumpSwallowed(k, i) ==
  /\ \/ ask[k].at = "new" /\ conn[i].on
     \/ ask[k].at = "write" /\ ask[k].op = "bump" /\ ask[k].row = i
  /\ ask' = [ask EXCEPT ![k] = Done]
  /\ got' = [got EXCEPT ![i] = @ + 1] /\ lost' = [lost EXCEPT ![i] = @ + 1]
  /\ UNCHANGED <<conn, accepted, good, off, fails, overwritten>>

\* The platform is asked about the credentials that were read.
PlatformAnswers(k) ==
  /\ ask[k].at = "platform"
  /\ LET yes == ask[k].copy.secret \in accepted IN
       /\ ask' = [ask EXCEPT ![k].at = "write", ![k].yes = yes]
       /\ good' = IF yes THEN good \cup {ask[k].copy.secret} ELSE good
  /\ UNCHANGED <<conn, accepted, off, fails, got, lost, overwritten>>

-----------------------------------------------------------------------------
(* It writes, and what it writes makes the copies of the others stale.       *)

\* MUTANT of Updated: new credentials stay verified.
UpdatedStillVerified(a, r) ==
  [r EXCEPT !.secret = a.secret, !.on = (a.copy.on \/ a.flag = "on"), !.verified = a.copy.verified]

Updated(a, r) ==
  [r EXCEPT !.secret = a.secret, !.on = (a.copy.on \/ a.flag = "on"),
            !.verified = a.copy.verified /\ a.secret = a.copy.secret]
Disabled(r) == [r EXCEPT !.on = FALSE]
Verified(a, r) == IF a.yes THEN [r EXCEPT !.verified = TRUE, !.errors = 0]
                  ELSE [r EXCEPT !.errors = a.copy.errors + 1]
Received(a, r) == [r EXCEPT !.received = a.copy.received + 1]
Written(a, r) == CASE a.op = "create" -> Created(a.secret)
                   [] a.op \in {"update", "enable"} -> Updated(a, r)
                   [] a.op = "disable" -> Disabled(r)
                   [] a.op = "verify" -> Verified(a, r)
                   [] OTHER -> Received(a, r)

Columns == {"on", "verified", "secret", "errors", "received"}
Touched(r, s) == {c \in Columns : r[c] /= s[c]}
Outdated(a, cols) == [a EXCEPT !.stale = a.stale \cup cols]
\* Request k is done; what it wrote to row i outdates what the others have read.
DoneStaling(k, i, cols) ==
  [o \in Askers |-> CASE o = k -> Done
                      [] o \in Pending \ {k} /\ (ask[o].row = i
                           \/ ("on" \in cols /\ ask[o].op \in {"create", "enable"})) ->
                           Outdated(ask[o], cols)
                      [] OTHER -> ask[o]]

WriteRow(k) ==
  /\ ask[k].at = "write"
  /\ LET a == ask[k]
         i == a.row
         r == Written(a, conn[i])
     IN /\ conn' = [conn EXCEPT ![i] = r]
        /\ ask' = DoneStaling(k, i, Touched(conn[i], r))
        /\ overwritten' = (overwritten \/ a.stale \cap Reads(a.op) /= {})
        /\ off' = CASE a.op = "disable" -> off \cup {i}
                    [] a.op \in {"create", "enable"} -> off \ {i}
                    [] OTHER -> off
        /\ fails' = [fails EXCEPT ![i] = IF a.op /= "verify" THEN @ ELSE IF a.yes THEN 0 ELSE @ + 1]
        /\ got' = [got EXCEPT ![i] = IF a.op = "bump" THEN @ + 1 ELSE @]
  /\ UNCHANGED <<accepted, good, lost>>

\* A send the platform refused for its token, of this team, another one or the environment,
\* and however long ago it was resolved: one UPDATE of every enabled connection of the
\* platform. If it fails nothing changes: the failure is only logged.
RecordTokenError ==
  LET hit == {i \in Rows : conn[i].on} IN
       /\ hit /= {} /\ \A i \in hit : fails[i] < MaxRefused
       /\ conn' = [i \in Rows |-> IF i \in hit
                                  THEN [conn[i] EXCEPT !.verified = FALSE, !.errors = @ + 1] ELSE conn[i]]
       /\ fails' = [i \in Rows |-> IF i \in hit THEN fails[i] + 1 ELSE fails[i]]
       /\ ask' = [k \in Askers |-> IF k \in Pending /\ ask[k].row \in hit
                                   THEN Outdated(ask[k], {"verified", "errors"}) ELSE ask[k]]
       /\ UNCHANGED <<accepted, good, off, got, lost, overwritten>>

ConnNext ==
  \/ RecordTokenError \/ \E s \in Secrets : Revoke(s)
  \/ \E k \in Askers :
       \/ \E i \in Rows : \/ \E s \in Secrets : CreateChannel(k, i, s) \/ UpdateChannel(k, i, s)
                          \/ EnableChannel(k, i) \/ DeleteChannel(k, i)
                          \/ VerifyChannel(k, i) \/ BumpReceived(k, i) \/ BumpSwallowed(k, i)
       \/ PlatformAnswers(k) \/ WriteRow(k)

ConnSpec == ConnInit /\ [][ConnNext]_connVars

-----------------------------------------------------------------------------
(* The types; rows are only ever disabled, and what does not exist is off.   *)
ConnRows == [made : BOOLEAN, on : BOOLEAN, verified : BOOLEAN, secret : Secrets,
             errors : Nat, received : Nat]
AskRows == [at : {"new", "platform", "write", "done"},
            op : {"none", "create", "update", "enable", "disable", "verify", "bump"},
            row : Rows \cup {0}, copy : ConnRows, flag : {"keep", "on", "off"},
            secret : Secrets, yes : BOOLEAN, stale : SUBSET Columns]

ConnTypeOK ==
  /\ conn \in [Rows -> ConnRows] /\ ask \in [Askers -> AskRows]
  /\ fails \in [Rows -> Nat] /\ got \in [Rows -> Nat] /\ lost \in [Rows -> Nat] /\ overwritten \in BOOLEAN
  /\ \A i \in Rows : ~conn[i].made => /\ ~conn[i].on /\ ~conn[i].verified
                                      /\ fails[i] = 0 /\ got[i] = 0 /\ lost[i] = 0
  /\ off \subseteq {i \in Rows : conn[i].made} /\ good \subseteq Secrets

\* What a request has read of its row, and of the others' being enabled, is so unless it is
\* known to be outdated.
CopyIsCurrent(k) ==
  LET a == ask[k]
      is == conn[a.row]
  IN  k \in Pending =>
        /\ a.row \in Rows /\ a.op /= "none" /\ (a.op /= "create" => is.made)
        /\ a.op = "update" => a.flag = "keep"
        /\ a.op = "enable" => a.secret = a.copy.secret
        /\ a.op = "verify" /\ a.yes => a.copy.secret \in good
        /\ "on" \notin a.stale => a.copy.on = is.on
        /\ "verified" \notin a.stale => a.copy.verified = is.verified
        /\ "secret" \notin a.stale => a.copy.secret = is.secret
        /\ "errors" \notin a.stale => a.copy.errors = is.errors
        /\ "received" \notin a.stale => a.copy.received = is.received
        /\ a.op = "create" => "on" \in a.stale \/ ~is.made
        /\ a.op = "create" \/ (a.op = "enable" /\ ~a.copy.on) =>
             "on" \in a.stale \/ ~ActiveExists(a.row)

\* Unless a request wrote from an outdated copy, at most one connection is enabled
\* (active_exists before a creation and before enabling one again).
OneEnabledUnlessRaced ==
  ~overwritten => \A i, j \in Rows : conn[i].on /\ conn[j].on => i = j

\* Unless a request wrote from an outdated copy, a connection is only shown as verified
\* for credentials that the platform has accepted (verify_channel, update_channel).
VerifiedWereAccepted ==
  ~overwritten => \A i \in Rows : conn[i].verified => conn[i].secret \in good

\* Unless a request wrote from an outdated copy, a connection that was disabled stays so
\* until a request enables it, whatever else is updated (update_channel writes is_active).
DisabledStaysOff == ~overwritten => \A i \in off : ~conn[i].on

\* Unless a request wrote from an outdated copy, the counters of a connection are the failures
\* on record since its last verification, and the messages it received but for those whose
\* count the database did not take (channel_health, bump_received).
CountersAddUp ==
  ~overwritten => \A i \in Rows : conn[i].errors = fails[i] /\ conn[i].received + lost[i] = got[i]

\* At most one connection is enabled (active_exists: "at most one enabled connection per
\* (team, platform)"). It does not hold: two requests may each find none.
AtMostOneEnabled == Cardinality({i \in Rows : conn[i].on}) <= 1

\* A connection's flags and counters are what its requests come to.
ConnInv ==
  /\ ConnTypeOK
  /\ \A k \in Askers : CopyIsCurrent(k)
  /\ OneEnabledUnlessRaced
  /\ VerifiedWereAccepted
  /\ DisabledStaysOff
  /\ CountersAddUp
=============================================================================
