---------------------------- MODULE Credentials ----------------------------
(***************************************************************************)
(* Sign-in, renewal, sign-out and password changes of one account          *)
(* (domain/auth), with the check every request makes of its credential     *)
(* (middleware/auth.rs). A pair is an access and a renewal token issued    *)
(* together.  Requests are sequences of statements and interleave at each  *)
(* of them. Time runs in fractions of a second: a claim's iat keeps        *)
(* seconds, the account's tokens_valid_after keeps milliseconds.           *)
(***************************************************************************)
EXTENDS Naturals, Sequences, FiniteSets

CONSTANTS Clients,      \* requests that may be in flight together
          MaxPairs,     \* bound: pairs issued
          Grain,        \* instants in a second
          MaxInstants,      \* bound: instants
          MaxBegun,     \* bound: requests
          MaxStmtFaults \* bound: requests that end at a statement

ASSUME CredentialsAssumption ==
  {MaxPairs, MaxInstants, MaxBegun, MaxStmtFaults} \subseteq Nat /\ Grain \in Nat \ {0}

VARIABLES
  now,       \* instants
  pairs,     \* sequence of [iat, born]
  account,   \* [active, validAfter]: validAfter 0 while no change was made
  sessions,  \* pairs whose auth_sessions row exists
  revoked,   \* pairs whose access jti is in revoked_tokens
  consumed, ended,  \* pairs whose refresh_tokens row has consumed_at, revoked_at
  req,       \* client -> [op, at, pair, mark, access]: mark is the time a change took,
             \* or 1 if a renewal's token was given up when it began; a sign-out has
             \* in access and pair the tokens it was presented with
  minted,    \* pair -> pairs issued in exchange for its renewal token
  signedOut, \* [access, renewal]: tokens presented to a sign-out answered with success
  password,  \* [mark, crossed]: the latest mark of a change answered with success, and
             \* whether two stood between their mark and its UPDATE together
  begun, stmtFaults

credVars == <<now, pairs, account, sessions, revoked, consumed, ended, req, minted,
              signedOut, password, begun, stmtFaults>>

Second(t) == t \div Grain
NoReq == [op |-> "none", at |-> "idle", pair |-> 0, mark |-> 0, access |-> {}]
Pairs == 1..Len(pairs)

CredInit ==
  /\ now = 0 /\ pairs = <<>>
  /\ account = [active |-> TRUE, validAfter |-> 0]
  /\ sessions = {} /\ revoked = {} /\ consumed = {} /\ ended = {}
  /\ req = [c \in Clients |-> NoReq]
  /\ minted = [p \in 1..MaxPairs |-> 0]
  /\ signedOut = [access |-> {}, renewal |-> {}]
  /\ password = [mark |-> 0, crossed |-> FALSE]
  /\ begun = 0 /\ stmtFaults = 0

Goto(c, a) == req' = [req EXCEPT ![c].at = a]
Done(c) == req' = [req EXCEPT ![c] = NoReq]
Start(c, o, a, p, mark, access) ==
  /\ req[c].at = "idle" /\ begun < MaxBegun /\ begun' = begun + 1
  /\ req' = [req EXCEPT ![c] = [op |-> o, at |-> a, pair |-> p, mark |-> mark, access |-> access]]
Renewal(c) == {req[c].mark} \ {0}
At(c, o, a) == req[c].op = o /\ req[c].at = a
rows == <<sessions, revoked, consumed, ended>>
answered == <<signedOut, password>>
rest == <<minted, answered>>
bounds == <<begun, stmtFaults>>

\* MUTANT of IssuedBefore: both times in seconds.
IssuedBeforeInSeconds(p) == pairs[p].iat < Second(account.validAfter)

\* token_issued_before_valid_after
IssuedBefore(p) == Grain * pairs[p].iat < account.validAfter

\* authenticate: what a request carrying the pair's access token is answered.
Accepted(p) == account.active /\ p \notin revoked /\ ~IssuedBefore(p)

-----------------------------------------------------------------------------
(* Sign in, and the pair both sign-in and renewal end with.                 *)

VerifyLogin(c) ==
  /\ account.active
  /\ Start(c, "login", "issue", 0, 0, {})
  /\ UNCHANGED <<now, pairs, account, rows, rest, stmtFaults>>

IssuePair(c) ==
  /\ req[c].op \in {"login", "renew"} /\ req[c].at = "issue" /\ Len(pairs) < MaxPairs
  /\ pairs' = Append(pairs, [iat |-> Second(now), born |-> now])
  /\ IF req[c].op = "login"
     THEN /\ req' = [req EXCEPT ![c].at = "session", ![c].pair = Len(pairs) + 1]
          /\ UNCHANGED minted
     ELSE /\ Done(c)
          /\ minted' = [minted EXCEPT ![req[c].pair] = @ + 1]
  /\ UNCHANGED <<now, account, rows, answered, bounds>>

CreateSession(c) ==
  /\ At(c, "login", "session")
  /\ sessions' = sessions \cup {req[c].pair}
  /\ Done(c)
  /\ UNCHANGED <<now, pairs, account, revoked, consumed, ended, rest, bounds>>

-----------------------------------------------------------------------------
(* Renewal: the row is read, the account is read, the row is consumed.      *)

ReadRow(c, p) ==
  /\ Start(c, "renew", IF p \in consumed \cup ended THEN "reuse" ELSE "account", p,
           IF minted[p] > 0 \/ p \in signedOut.renewal THEN 1 ELSE 0, {})
  /\ UNCHANGED <<now, pairs, account, rows, rest, stmtFaults>>

\* Reuse detected: the row is revoked and the caller has to sign in.
RevokeReused(c) ==
  /\ At(c, "renew", "reuse")
  /\ ended' = ended \cup {req[c].pair}
  /\ Done(c)
  /\ UNCHANGED <<now, pairs, account, sessions, revoked, consumed, rest, bounds>>

ReadAccount(c) ==
  /\ At(c, "renew", "account")
  /\ IF account.active /\ ~IssuedBefore(req[c].pair) THEN Goto(c, "consume") ELSE Done(c)
  /\ UNCHANGED <<now, pairs, account, rows, rest, bounds>>

ConsumeRow(c) ==
  /\ At(c, "renew", "consume")
  /\ consumed' = consumed \cup {req[c].pair}
  /\ Goto(c, "issue")
  /\ UNCHANGED <<now, pairs, account, sessions, revoked, ended, rest, bounds>>

-----------------------------------------------------------------------------
(* Sign out: the session row goes first, then each token that came with it. *)
(* They need not be the ones the session began with, nor come at all.       *)

LookupSession(c, p, access, renewal) ==
  /\ p \in sessions /\ Start(c, "logout", "delete", p, renewal, access)
  /\ UNCHANGED <<now, pairs, account, rows, rest, stmtFaults>>

DeleteSession(c) ==
  /\ At(c, "logout", "delete")
  /\ sessions' = sessions \ {req[c].pair}
  /\ Goto(c, "tokens")
  /\ UNCHANGED <<now, pairs, account, revoked, consumed, ended, rest, bounds>>

\* The token of the header and that of the cookie.
RevokeAccess(c) ==
  /\ At(c, "logout", "tokens") /\ ~req[c].access \subseteq revoked
  /\ \E p \in req[c].access \ revoked : revoked' = revoked \cup {p}
  /\ UNCHANGED <<now, pairs, account, sessions, consumed, ended, req, rest, bounds>>

RevokeRenewal(c) ==
  /\ At(c, "logout", "tokens") /\ req[c].access \subseteq revoked
  /\ ended' = ended \cup Renewal(c)
  /\ signedOut' = [access |-> signedOut.access \cup req[c].access,
                   renewal |-> signedOut.renewal \cup Renewal(c)]
  /\ Done(c)
  /\ UNCHANGED <<now, pairs, account, sessions, revoked, consumed, minted, password, bounds>>

-----------------------------------------------------------------------------
(* change_password and reset_member_password: the mark is taken before the  *)
(* statement that stores it, then the old credentials' rows go.             *)

VerifyChange(c) ==
  /\ Start(c, "change", "update", 0, now, {})
  /\ password' = [password EXCEPT !.crossed = @ \/ \E o \in Clients : At(o, "change", "update")]
  /\ UNCHANGED <<now, pairs, account, rows, minted, signedOut, stmtFaults>>

UpdatePassword(c) ==
  /\ At(c, "change", "update")
  /\ account' = [account EXCEPT !.validAfter = req[c].mark]
  /\ Goto(c, "rows")
  /\ UNCHANGED <<now, pairs, rows, rest, bounds>>

RevokeRows(c) ==
  /\ At(c, "change", "rows")
  /\ ended' = ended \cup Pairs
  /\ Goto(c, "sessions")
  /\ UNCHANGED <<now, pairs, account, sessions, revoked, consumed, rest, bounds>>

DropSessions(c) ==
  /\ At(c, "change", "sessions")
  /\ sessions' = {}
  /\ password' = [password EXCEPT !.mark = IF req[c].mark > @ THEN req[c].mark ELSE @]
  /\ Done(c)
  /\ UNCHANGED <<now, pairs, account, revoked, consumed, ended, minted, signedOut, bounds>>

\* The next statement of a request fails, or its caller hangs up: the rest stays undone.
RequestEnds(c) ==
  /\ req[c].at /= "idle" /\ stmtFaults < MaxStmtFaults
  /\ stmtFaults' = stmtFaults + 1
  /\ Done(c)
  /\ UNCHANGED <<now, pairs, account, rows, rest, begun>>

\* An administrator deactivates or reactivates the account.
SetActive ==
  /\ stmtFaults = 0
  /\ account' = [account EXCEPT !.active = ~@]
  /\ UNCHANGED <<now, pairs, rows, req, rest, bounds>>

Tick ==
  /\ now < MaxInstants
  /\ now' = now + 1
  /\ UNCHANGED <<pairs, account, rows, req, rest, bounds>>

-----------------------------------------------------------------------------
CredNext ==
  \/ \E c \in Clients :
       \/ VerifyLogin(c)
       \/ IssuePair(c)
       \/ CreateSession(c)
       \/ \E p \in Pairs : ReadRow(c, p)
       \/ \E p \in Pairs, access \in SUBSET Pairs, renewal \in {0} \cup Pairs :
            LookupSession(c, p, access, renewal)
       \/ RevokeReused(c)
       \/ ReadAccount(c)
       \/ ConsumeRow(c)
       \/ DeleteSession(c)
       \/ RevokeAccess(c)
       \/ RevokeRenewal(c)
       \/ VerifyChange(c)
       \/ UpdatePassword(c)
       \/ RevokeRows(c)
       \/ DropSessions(c)
       \/ RequestEnds(c)
  \/ SetActive
  \/ Tick

CredSpec == CredInit /\ [][CredNext]_credVars

-----------------------------------------------------------------------------
Claims == [iat : 0..MaxInstants, born : 0..MaxInstants]
Requests ==
  [op : {"none", "login", "renew", "logout", "change"},
   at : {"idle", "issue", "session", "reuse", "account", "consume", "delete", "tokens",
         "update", "rows", "sessions"},
   pair : 0..MaxPairs, mark : Nat, access : SUBSET Nat]

CredTypeOK ==
  /\ now \in 0..MaxInstants
  /\ pairs \in Seq(Claims) /\ Len(pairs) <= MaxPairs
  /\ account \in [active : BOOLEAN, validAfter : 0..MaxInstants]
  /\ {sessions, revoked, consumed, ended} \subseteq SUBSET Pairs
  /\ signedOut \in [access : SUBSET Pairs, renewal : SUBSET Pairs]
  /\ password \in [mark : 0..MaxInstants, crossed : BOOLEAN]
  /\ req \in [Clients -> Requests]
  /\ minted \in [1..MaxPairs -> 0..MaxPairs]
  /\ begun \in 0..MaxBegun /\ stmtFaults \in 0..MaxStmtFaults

\* "if it fails, the caller must not receive a success response while a token
\* remains usable": after a sign-out that was answered with success no token it
\* was presented with works again.
SignOutIsFinal ==
  /\ \A p \in signedOut.access : ~Accepted(p)
  /\ signedOut.renewal \subseteq ended

\* "Invalidate already-issued ... tokens after password changes": once a change is
\* answered, what was issued before its mark is refused as an access token and as a
\* renewal token, down to the second in which both fall (iat keeps seconds, the mark
\* milliseconds); but a change that took its mark earlier and stored it later, while
\* another stood in between, sets the account's mark back.
ChangeEndsOldTokens ==
  ~password.crossed =>
    \A p \in Pairs : pairs[p].born < password.mark => IssuedBefore(p) /\ ~Accepted(p)

\* A renewal that began after the token had bought a pair, or was signed out, buys none: two
\* pairs for one token are possible only when both requests were in flight at once.
RenewalBuysOnce ==
  \A c \in Clients : At(c, "renew", "issue") => req[c].mark = 0

-----------------------------------------------------------------------------
(* Why they hold: the inductive invariant.                                  *)

Stages == [none |-> {"idle"}, login |-> {"issue", "session"},
           renew |-> {"reuse", "account", "consume", "issue"},
           logout |-> {"delete", "tokens"},
           change |-> {"update", "rows", "sessions"}]

\* A request is at a stage of its operation, on pairs that were issued.
Staged(c) ==
  /\ req[c].at \in Stages[req[c].op]
  /\ req[c].op = "renew" \/ At(c, "login", "session") => req[c].pair \in Pairs
  /\ req[c].op = "logout" => req[c].access \cup Renewal(c) \subseteq Pairs

\* Only an unspent token gets past the read of its row, and it is spent before it buys.
SpentFirst(c) ==
  req[c].op = "renew" /\ req[c].at /= "reuse" =>
    req[c].mark = 0 /\ (req[c].at = "issue" => req[c].pair \in consumed)
MintedAreSpent ==
  \A p \in 1..MaxPairs : minted[p] <= Len(pairs) /\ (minted[p] > 0 => p \in consumed)

\* Marks are out of the past; those of changes that do not cross are stored in their order.
InTurn(c) ==
  req[c].op = "change" =>
    /\ req[c].mark <= now
    /\ ~password.crossed =>
         IF req[c].at = "update"
         THEN /\ account.validAfter <= req[c].mark
              /\ \A o \in Clients : At(o, "change", "update") => o = c
         ELSE req[c].mark <= account.validAfter
MarkStands ==
  /\ password.mark <= now /\ account.validAfter <= now
  /\ ~password.crossed => password.mark <= account.validAfter

ClaimsAreRounded ==
  \A p \in Pairs : Grain * pairs[p].iat <= pairs[p].born /\ pairs[p].born <= now

\* A credential that was given up is of no use, whichever way it was: signed out, replaced
\* by a password change, or exchanged for another.
CredInv ==
  /\ CredTypeOK
  /\ \A c \in Clients : Staged(c) /\ SpentFirst(c) /\ InTurn(c)
  /\ MintedAreSpent /\ ClaimsAreRounded
  /\ MarkStands /\ signedOut.access \subseteq revoked
  /\ SignOutIsFinal /\ ChangeEndsOldTokens /\ RenewalBuysOnce

-----------------------------------------------------------------------------
(* What the code does not keep.                                             *)

\* "Invalidate already-issued" tokens only: one issued after the mark has to be accepted.
NewSignInWorks ==
  \A p \in Pairs : pairs[p].born > account.validAfter /\ account.active /\ p \notin revoked
                     => Accepted(p)

\* ... and all of them: also those of the first of two changes that crossed.
ChangesAddUp == \A p \in Pairs : pairs[p].born < password.mark => ~Accepted(p)
=============================================================================
