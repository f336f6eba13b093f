--------------------------- MODULE AccountsProofs ----------------------------
(***************************************************************************)
(* Proofs about staff accounts: credentials, team memberships, alerts,     *)
(* presence, profiles and the limiters. The invariants are inductive:      *)
(* they say what a request holds in hand between two statements, and       *)
(* which statements it has left, which is what their conclusions rest on.  *)
(***************************************************************************)
EXTENDS MCAccounts, SequenceTheorems, FiniteSetTheorems, TLAPS

(* Credentials.                                                            *)

\* A JWT's second is not after the instant it was taken at.
LEMMA SecondFacts ==
  ASSUME NEW t \in Nat
  PROVE  Second(t) \in 0..t /\ Grain * Second(t) <= t
<1>1. Grain \in Nat \ {0}
  BY CredentialsAssumption
<1>. QED
  BY <1>1 DEF Second

\* What a request in progress holds in hand.
CredSteady == \A c \in Clients : Staged(c) /\ SpentFirst(c) /\ InTurn(c)
\* A step of one request leaves the others where they are.
CredAlone(c) == req' \in [Clients -> Requests] /\ \A o \in Clients : o /= c => req'[o] = req[o]
\* The points a request may be at.
CredStages == {"idle", "issue", "session", "reuse", "account", "consume", "delete", "tokens",
               "update", "rows", "sessions"}

\* What a step of one request does to the table of requests.
LEMMA CredGoto ==
  ASSUME CredTypeOK, NEW c \in Clients, NEW a \in CredStages, Goto(c, a)
  PROVE  /\ CredAlone(c)
         /\ req'[c].op = req[c].op /\ req'[c].at = a /\ req'[c].pair = req[c].pair
         /\ req'[c].mark = req[c].mark /\ req'[c].access = req[c].access
BY DEF CredTypeOK, Requests, Goto, CredAlone, CredStages

\* A request is answered.
LEMMA CredDone ==
  ASSUME CredTypeOK, NEW c \in Clients, Done(c)
  PROVE  CredAlone(c) /\ req'[c].op = "none" /\ req'[c].at = "idle"
BY CredentialsAssumption DEF CredTypeOK, Requests, Done, NoReq, CredAlone

\* A request begins.
CredBegins(c, r) == req[c].at = "idle" /\ begun < MaxBegun /\ begun' = begun + 1
                    /\ req' = [req EXCEPT ![c] = r]
LEMMA CredStart ==
  ASSUME CredTypeOK, NEW c \in Clients, NEW r \in Requests, CredBegins(c, r)
  PROVE  CredAlone(c) /\ req[c].at = "idle" /\ begun' \in 0..MaxBegun /\ req'[c] = r
<1>1. begun \in 0..MaxBegun /\ MaxBegun \in Nat
  BY CredentialsAssumption DEF CredTypeOK
<1>2. begun' \in 0..MaxBegun
  BY <1>1 DEF CredBegins
<1>. QED
  BY <1>2 DEF CredBegins, CredTypeOK, CredAlone

\* The other requests stand as they stood.
LEMMA CredOthers ==
  ASSUME CredInv, NEW c \in Clients, CredAlone(c),
         Pairs \subseteq Pairs', consumed \subseteq consumed', now' = now,
         account'.validAfter = account.validAfter, password'.crossed = password.crossed,
         At(c, "change", "update")' => At(c, "change", "update"),
         Staged(c)', SpentFirst(c)', InTurn(c)'
  PROVE  CredSteady'
<1>. SUFFICES ASSUME NEW o \in Clients, o /= c PROVE Staged(o)' /\ SpentFirst(o)' /\ InTurn(o)'
  BY DEF CredSteady
<1>1. req'[o] = req[o]
  BY DEF CredAlone
<1>2. Staged(o)' /\ SpentFirst(o)'
  BY <1>1 DEF CredInv, Staged, SpentFirst, At, Renewal
<1>3. \A x \in Clients : At(x, "change", "update")' => At(x, "change", "update")
  BY DEF CredAlone, At
<1>4. InTurn(o)
  BY DEF CredInv
<1>5. InTurn(o)'
  BY <1>1, <1>3, <1>4 DEF InTurn
<1>. QED
  BY <1>2, <1>5

\* What is settled about the credentials when the requests are left aside.
CredRest ==
  /\ MintedAreSpent /\ ClaimsAreRounded
  /\ MarkStands /\ signedOut.access \subseteq revoked /\ signedOut.renewal \subseteq ended

\* The conclusions follow from the rest.
LEMMA CredConclusions ==
  CredTypeOK /\ CredSteady /\ CredRest => CredInv
<1>. SUFFICES ASSUME CredTypeOK, CredSteady, CredRest PROVE CredInv
  OBVIOUS
<1>1. SignOutIsFinal
  BY DEF SignOutIsFinal, CredRest, Accepted
<1>2. ChangeEndsOldTokens
  <2>. SUFFICES ASSUME ~password.crossed, NEW p \in Pairs, pairs[p].born < password.mark
                PROVE  IssuedBefore(p) /\ ~Accepted(p)
    BY DEF ChangeEndsOldTokens
  <2>1. pairs[p] \in Claims /\ Grain \in Nat
    BY CredentialsAssumption DEF CredTypeOK, Pairs
  <2>2. pairs[p].iat \in Nat /\ pairs[p].born \in Nat /\ account.validAfter \in Nat
        /\ password.mark \in Nat
    BY <2>1, CredentialsAssumption DEF CredTypeOK, Claims
  <2>3. Grain * pairs[p].iat \in Nat
    BY <2>1, <2>2
  <2>4. Grain * pairs[p].iat <= pairs[p].born
    BY DEF CredRest, ClaimsAreRounded
  <2>5. password.mark <= account.validAfter
    BY DEF CredRest, MarkStands
  <2>. QED
    BY <2>2, <2>3, <2>4, <2>5 DEF Accepted, IssuedBefore
<1>3. RenewalBuysOnce
  BY DEF RenewalBuysOnce, CredSteady, SpentFirst, At
<1>. QED
  BY <1>1, <1>2, <1>3 DEF CredInv, CredSteady, CredRest

\* No credential has been issued.
LEMMA CredInitially == CredInit => CredInv
<1>. SUFFICES ASSUME CredInit PROVE CredInv
  OBVIOUS
<1>1. CredTypeOK
  BY CredentialsAssumption DEF CredInit, CredTypeOK, NoReq, Requests, Pairs
<1>2. CredSteady
  BY DEF CredInit, CredSteady, Staged, SpentFirst, InTurn, NoReq, Stages, At
<1>3. CredRest
  BY CredentialsAssumption DEF CredInit, CredRest, MintedAreSpent, ClaimsAreRounded,
     MarkStands, Pairs
<1>. QED
  BY <1>1, <1>2, <1>3, CredConclusions

\* Every step of a request, and the clock, keep the invariant.
LEMMA CredStep == CredInv /\ [CredNext]_credVars => CredInv'
<1>. SUFFICES ASSUME CredInv, [CredNext]_credVars PROVE CredInv'
  OBVIOUS
<1>1. CredTypeOK
  BY DEF CredInv
<1>2. ASSUME NEW c \in Clients, VerifyLogin(c) PROVE CredInv'
  <2>1. /\ CredAlone(c) /\ req[c].at = "idle" /\ begun' \in 0..MaxBegun
        /\ req'[c].op = "login" /\ req'[c].at = "issue" /\ req'[c].pair = 0
    <3>. DEFINE r == [op |-> "login", at |-> "issue", pair |-> 0, mark |-> 0, access |-> {}]
    <3>1. r \in Requests
      BY CredentialsAssumption DEF Requests
    <3>2. CredBegins(c, r)
      BY <1>2 DEF VerifyLogin, Start, CredBegins
    <3>. QED
      BY <1>1, <3>1, <3>2, CredStart
  <2>2. CredTypeOK'
    BY <1>2, <1>1, <2>1, CredentialsAssumption
       DEF VerifyLogin, CredTypeOK, CredAlone, Pairs, rows, rest, answered
  <2>3. Staged(c)' /\ SpentFirst(c)' /\ InTurn(c)'
    BY <2>1 DEF Staged, SpentFirst, InTurn, Stages, At
  <2>4. CredSteady'
    BY <1>2, <2>1, <2>3, CredOthers DEF VerifyLogin, At, Pairs, rows, rest, answered
  <2>5. CredRest'
    BY <1>2, <1>1 DEF VerifyLogin, CredInv, CredRest, MintedAreSpent, ClaimsAreRounded,
       MarkStands, SignOutIsFinal, Pairs, rows, rest, answered
  <2>. QED
    BY <2>2, <2>4, <2>5, CredConclusions, PTL
<1>3. ASSUME NEW c \in Clients, CreateSession(c) PROVE CredInv'
  <2>1. CredAlone(c) /\ req'[c].op = "none" /\ req'[c].at = "idle"
    BY <1>3, <1>1, CredDone DEF CreateSession
  <2>2. req[c].pair \in Pairs
    BY <1>3, <1>1 DEF CreateSession, CredInv, Staged, At
  <2>3. CredTypeOK'
    BY <1>3, <1>1, <2>1, <2>2, CredentialsAssumption
       DEF CreateSession, CredTypeOK, CredAlone, Pairs, rows, rest, answered, bounds
  <2>4. Staged(c)' /\ SpentFirst(c)' /\ InTurn(c)'
    BY <1>3, <1>1, <2>1
       DEF CreateSession, CredInv, Staged, SpentFirst, InTurn, Stages, At, Renewal, Pairs, rows, rest, answered, bounds
  <2>5. CredSteady'
    BY <1>3, <1>1, <2>1, <2>4, CredOthers
       DEF CreateSession, CredInv, CredAlone, At, Pairs, rows, rest, answered, bounds
  <2>6. CredRest'
    BY <1>3, <1>1 DEF CreateSession, CredInv, CredRest, MintedAreSpent, ClaimsAreRounded,
       MarkStands, SignOutIsFinal, Pairs, rows, rest, answered, bounds
  <2>. QED
    BY <2>3, <2>5, <2>6, CredConclusions, PTL
<1>4. ASSUME NEW c \in Clients, NEW p \in Pairs, ReadRow(c, p) PROVE CredInv'
  <2>1. p \in 1..MaxPairs /\ p \in 0..MaxPairs /\ minted[p] \in Nat
    BY <1>1, CredentialsAssumption DEF CredTypeOK, Pairs
  <2>2. PICK a \in {"reuse", "account"}, m \in {0, 1} :
          /\ Start(c, "renew", a, p, m, {})
          /\ a = "account" => p \notin consumed /\ p \notin ended
          /\ m = 1 => minted[p] > 0 \/ p \in signedOut.renewal
    BY <1>4 DEF ReadRow
  <2>3. /\ CredAlone(c) /\ req[c].at = "idle" /\ begun' \in 0..MaxBegun
        /\ req'[c].op = "renew" /\ req'[c].at = a /\ req'[c].pair = p /\ req'[c].mark = m
        /\ req'[c].access = {}
    <3>. DEFINE r == [op |-> "renew", at |-> a, pair |-> p, mark |-> m, access |-> {}]
    <3>1. r \in Requests
      BY <2>1 DEF Requests
    <3>2. CredBegins(c, r)
      BY <2>2 DEF Start, CredBegins
    <3>. QED
      BY <1>1, <3>1, <3>2, CredStart
  <2>4. a = "account" => m = 0
    BY <2>1, <2>2 DEF CredInv, MintedAreSpent, SignOutIsFinal
  <2>5. CredTypeOK'
    BY <1>4, <1>1, <2>3, CredentialsAssumption
       DEF ReadRow, CredTypeOK, CredAlone, Pairs, rows, rest, answered
  <2>6. Staged(c)' /\ SpentFirst(c)' /\ InTurn(c)'
    BY <1>4, <2>2, <2>3, <2>4
       DEF ReadRow, Staged, SpentFirst, InTurn, Stages, At, Pairs, rows, rest, answered
  <2>7. CredSteady'
    BY <1>4, <2>3, <2>6, CredOthers DEF ReadRow, At, Pairs, rows, rest, answered
  <2>8. CredRest'
    BY <1>4, <1>1 DEF ReadRow, CredInv, CredRest, MintedAreSpent, ClaimsAreRounded,
       MarkStands, SignOutIsFinal, Pairs, rows, rest, answered
  <2>. QED
    BY <2>5, <2>7, <2>8, CredConclusions, PTL
<1>5. ASSUME NEW c \in Clients, NEW p \in Pairs, NEW access \in SUBSET Pairs,
             NEW renewal \in {0} \cup Pairs, LookupSession(c, p, access, renewal)
      PROVE  CredInv'
  <2>1. p \in 0..MaxPairs /\ renewal \in Nat /\ access \in SUBSET Nat
    BY <1>1, CredentialsAssumption DEF CredTypeOK, Pairs
  <2>2. /\ CredAlone(c) /\ req[c].at = "idle" /\ begun' \in 0..MaxBegun
        /\ req'[c].op = "logout" /\ req'[c].at = "delete" /\ req'[c].pair = p
        /\ req'[c].mark = renewal /\ req'[c].access = access
    <3>. DEFINE r == [op |-> "logout", at |-> "delete", pair |-> p, mark |-> renewal,
                      access |-> access]
    <3>1. r \in Requests
      BY <2>1 DEF Requests
    <3>2. CredBegins(c, r)
      BY <1>5 DEF LookupSession, Start, CredBegins
    <3>. QED
      BY <1>1, <3>1, <3>2, CredStart
  <2>3. CredTypeOK'
    BY <1>5, <1>1, <2>2, CredentialsAssumption
       DEF LookupSession, CredTypeOK, CredAlone, Pairs, rows, rest, answered
  <2>4. Staged(c)' /\ SpentFirst(c)' /\ InTurn(c)'
    <3>1. Pairs' = Pairs
      BY <1>5 DEF LookupSession, Pairs
    <3>. QED
      BY <1>5, <2>2, <3>1 DEF Staged, SpentFirst, InTurn, Stages, At, Renewal
  <2>5. CredSteady'
    BY <1>5, <2>2, <2>4, CredOthers DEF LookupSession, At, Pairs, rows, rest, answered
  <2>6. CredRest'
    BY <1>5, <1>1 DEF LookupSession, CredInv, CredRest, MintedAreSpent, ClaimsAreRounded,
       MarkStands, SignOutIsFinal, Pairs, rows, rest, answered
  <2>. QED
    BY <2>3, <2>5, <2>6, CredConclusions, PTL
<1>6. ASSUME NEW c \in Clients, RevokeReused(c) PROVE CredInv'
  <2>1. CredAlone(c) /\ req'[c].op = "none" /\ req'[c].at = "idle"
    BY <1>6, <1>1, CredDone DEF RevokeReused
  <2>2. req[c].pair \in Pairs
    BY <1>6, <1>1 DEF RevokeReused, CredInv, Staged, At
  <2>3. CredTypeOK'
    BY <1>6, <1>1, <2>1, <2>2, CredentialsAssumption
       DEF RevokeReused, CredTypeOK, CredAlone, Pairs, rows, rest, answered, bounds
  <2>4. Staged(c)' /\ SpentFirst(c)' /\ InTurn(c)'
    BY <1>6, <1>1, <2>1
       DEF RevokeReused, CredInv, Staged, SpentFirst, InTurn, Stages, At, Renewal, Pairs, rows, rest, answered, bounds
  <2>5. CredSteady'
    BY <1>6, <1>1, <2>1, <2>4, CredOthers
       DEF RevokeReused, CredInv, CredAlone, At, Pairs, rows, rest, answered, bounds
  <2>6. CredRest'
    BY <1>6, <1>1 DEF RevokeReused, CredInv, CredRest, MintedAreSpent, ClaimsAreRounded,
       MarkStands, SignOutIsFinal, Pairs, rows, rest, answered, bounds
  <2>. QED
    BY <2>3, <2>5, <2>6, CredConclusions, PTL
<1>7. ASSUME NEW c \in Clients, ReadAccount(c) PROVE CredInv'
  <2>1. \/ CredAlone(c) /\ req'[c].op = req[c].op /\ req'[c].at = "consume"
             /\ req'[c].pair = req[c].pair
           /\ req'[c].mark = req[c].mark
        \/ CredAlone(c) /\ req'[c].op = "none" /\ req'[c].at = "idle"
    BY <1>7, <1>1, CredDone, CredGoto DEF ReadAccount, CredStages
  <2>2. CredTypeOK'
    BY <1>7, <1>1, <2>1, CredentialsAssumption
       DEF ReadAccount, CredTypeOK, CredAlone, Pairs, rows, rest, answered, bounds
  <2>3. Staged(c)' /\ SpentFirst(c)' /\ InTurn(c)'
    BY <1>7, <1>1, <2>1
       DEF ReadAccount, CredInv, Staged, SpentFirst, InTurn, Stages, At, Renewal, Pairs, rows, rest, answered, bounds
  <2>4. CredSteady'
    BY <1>7, <1>1, <2>1, <2>3, CredOthers
       DEF ReadAccount, CredInv, CredAlone, At, Pairs, rows, rest, answered, bounds
  <2>5. CredRest'
    BY <1>7, <1>1 DEF ReadAccount, CredInv, CredRest, MintedAreSpent, ClaimsAreRounded,
       MarkStands, SignOutIsFinal, Pairs, rows, rest, answered, bounds
  <2>. QED
    BY <2>2, <2>4, <2>5, CredConclusions, PTL
<1>8. ASSUME NEW c \in Clients, ConsumeRow(c) PROVE CredInv'
  <2>1. CredAlone(c) /\ req'[c].op = req[c].op /\ req'[c].at = "issue"
        /\ req'[c].pair = req[c].pair
        /\ req'[c].mark = req[c].mark
    BY <1>8, <1>1, CredGoto DEF ConsumeRow, CredStages
  <2>2. req[c].pair \in Pairs
    BY <1>8, <1>1 DEF ConsumeRow, CredInv, Staged, At
  <2>3. CredTypeOK'
    BY <1>8, <1>1, <2>1, <2>2, CredentialsAssumption
       DEF ConsumeRow, CredTypeOK, CredAlone, Pairs, rows, rest, answered, bounds
  <2>4. Staged(c)' /\ SpentFirst(c)' /\ InTurn(c)'
    BY <1>8, <1>1, <2>1 DEF ConsumeRow, CredInv, Staged, SpentFirst, InTurn, Stages, At, Renewal, Pairs, rows, rest, answered, bounds
  <2>5. CredSteady'
    BY <1>8, <1>1, <2>1, <2>4, CredOthers
       DEF ConsumeRow, CredInv, CredAlone, At, Pairs, rows, rest, answered, bounds
  <2>6. CredRest'
    BY <1>8, <1>1 DEF ConsumeRow, CredInv, CredRest, MintedAreSpent, ClaimsAreRounded,
       MarkStands, SignOutIsFinal, Pairs, rows, rest, answered, bounds
  <2>. QED
    BY <2>3, <2>5, <2>6, CredConclusions, PTL
<1>9. ASSUME NEW c \in Clients, DeleteSession(c) PROVE CredInv'
  <2>1. CredAlone(c) /\ req'[c].op = req[c].op /\ req'[c].at = "tokens"
        /\ req'[c].pair = req[c].pair
        /\ req'[c].mark = req[c].mark /\ req'[c].access = req[c].access
    BY <1>9, <1>1, CredGoto DEF DeleteSession, CredStages
  <2>2. CredTypeOK'
    BY <1>9, <1>1, <2>1, CredentialsAssumption
       DEF DeleteSession, CredTypeOK, CredAlone, Pairs, rows, rest, answered, bounds
  <2>3. Staged(c)' /\ SpentFirst(c)' /\ InTurn(c)'
    BY <1>9, <1>1, <2>1
       DEF DeleteSession, CredInv, Staged, SpentFirst, InTurn, Stages, At, Renewal, Pairs, rows, rest, answered, bounds
  <2>4. CredSteady'
    BY <1>9, <1>1, <2>1, <2>3, CredOthers
       DEF DeleteSession, CredInv, CredAlone, At, Pairs, rows, rest, answered, bounds
  <2>5. CredRest'
    BY <1>9, <1>1 DEF DeleteSession, CredInv, CredRest, MintedAreSpent, ClaimsAreRounded,
       MarkStands, SignOutIsFinal, Pairs, rows, rest, answered, bounds
  <2>. QED
    BY <2>2, <2>4, <2>5, CredConclusions, PTL
<1>10. ASSUME NEW c \in Clients, RevokeAccess(c) PROVE CredInv'
  <2>1. PICK p \in req[c].access \ revoked : revoked' = revoked \cup {p}
    BY <1>10 DEF RevokeAccess
  <2>2. p \in Pairs /\ req' = req
    BY <1>10, <2>1 DEF RevokeAccess, CredInv, Staged, At
  <2>3. CredTypeOK'
    BY <1>10, <1>1, <2>1, <2>2, CredentialsAssumption
       DEF RevokeAccess, CredTypeOK, Pairs, rows, rest, answered, bounds
  <2>4. CredSteady'
    BY <1>10, <2>2 DEF RevokeAccess, CredInv, CredSteady, Staged, SpentFirst, InTurn, At, Pairs,
       Renewal, rest, answered
  <2>5. CredRest'
    BY <1>10, <1>1, <2>1 DEF RevokeAccess, CredInv, CredRest, MintedAreSpent, ClaimsAreRounded,
       MarkStands, SignOutIsFinal, Pairs, rows, rest, answered, bounds
  <2>. QED
    BY <2>3, <2>4, <2>5, CredConclusions, PTL
<1>11. ASSUME NEW c \in Clients, RevokeRenewal(c) PROVE CredInv'
  <2>1. CredAlone(c) /\ req'[c].op = "none" /\ req'[c].at = "idle"
    BY <1>11, <1>1, CredDone DEF RevokeRenewal
  <2>2. req[c].access \cup Renewal(c) \subseteq Pairs /\ req[c].access \subseteq revoked
    BY <1>11, <1>1 DEF RevokeRenewal, CredInv, Staged, At
  <2>3. /\ ended' = ended \cup Renewal(c)
        /\ signedOut' \in [access : SUBSET Pairs, renewal : SUBSET Pairs]
        /\ signedOut'.access \subseteq revoked /\ signedOut'.renewal \subseteq ended'
    BY <1>11, <1>1, <2>2 DEF RevokeRenewal, CredTypeOK, CredInv, SignOutIsFinal
  <2>4. CredTypeOK'
    BY <1>11, <1>1, <2>1, <2>2, <2>3, CredentialsAssumption
       DEF RevokeRenewal, CredTypeOK, CredAlone, Pairs, bounds
  <2>5. Staged(c)' /\ SpentFirst(c)' /\ InTurn(c)'
    BY <2>1 DEF Staged, SpentFirst, InTurn, Stages, At
  <2>6. CredSteady'
    BY <1>11, <2>1, <2>5, CredOthers DEF RevokeRenewal, At, Pairs
  <2>7. CredRest'
    BY <1>11, <2>3
       DEF RevokeRenewal, CredInv, CredRest, MintedAreSpent, ClaimsAreRounded, MarkStands, Pairs
  <2>. QED
    BY <2>4, <2>6, <2>7, CredConclusions, PTL
<1>12. ASSUME NEW c \in Clients, RequestEnds(c) PROVE CredInv'
  <2>1. CredAlone(c) /\ req'[c].op = "none" /\ req'[c].at = "idle"
    BY <1>12, <1>1, CredDone DEF RequestEnds
  <2>2. CredTypeOK'
    BY <1>12, <1>1, <2>1, CredentialsAssumption
       DEF RequestEnds, CredTypeOK, CredAlone, Pairs, rows, rest, answered, bounds
  <2>3. Staged(c)' /\ SpentFirst(c)' /\ InTurn(c)'
    BY <1>12, <1>1, <2>1
       DEF RequestEnds, CredInv, Staged, SpentFirst, InTurn, Stages, At, Renewal, Pairs, rows, rest, answered, bounds
  <2>4. CredSteady'
    BY <1>12, <1>1, <2>1, <2>3, CredOthers
       DEF RequestEnds, CredInv, CredAlone, At, Pairs, rows, rest, answered, bounds
  <2>5. CredRest'
    BY <1>12, <1>1 DEF RequestEnds, CredInv, CredRest, MintedAreSpent, ClaimsAreRounded,
       MarkStands, SignOutIsFinal, Pairs, rows, rest, answered, bounds
  <2>. QED
    BY <2>2, <2>4, <2>5, CredConclusions, PTL
<1>13. ASSUME NEW c \in Clients, UpdatePassword(c) PROVE CredInv'
  <2>1. /\ CredAlone(c) /\ req'[c].op = req[c].op /\ req'[c].at = "rows"
        /\ req'[c].pair = req[c].pair /\ req'[c].mark = req[c].mark
    BY <1>13, <1>1, CredGoto DEF UpdatePassword, CredStages
  <2>2. req[c].mark \in 0..now /\ req[c].op = "change" /\ req[c].at = "update"
    BY <1>13, <1>1 DEF UpdatePassword, CredInv, InTurn, At, CredTypeOK, Requests
  <2>3. /\ account' \in [active : BOOLEAN, validAfter : 0..MaxInstants]
        /\ account'.validAfter = req[c].mark /\ password' = password /\ now' = now
        /\ now \in 0..MaxInstants /\ MaxInstants \in Nat
    <3>1. now \in 0..MaxInstants /\ MaxInstants \in Nat
      BY <1>1, CredentialsAssumption DEF CredTypeOK
    <3>2. req[c].mark \in 0..MaxInstants
      BY <2>2, <3>1
    <3>. QED
      BY <1>13, <1>1, <3>1, <3>2 DEF UpdatePassword, CredTypeOK, rest, answered
  <2>4. CredTypeOK'
    BY <1>13, <1>1, <2>1, <2>3
       DEF UpdatePassword, CredTypeOK, CredAlone, Pairs, rows, rest, answered, bounds
  <2>5. ASSUME NEW o \in Clients PROVE Staged(o)' /\ SpentFirst(o)'
    <3>1. req'[o] = req[o] \/ (o = c /\ req'[o].op = "change" /\ req'[o].at = "rows")
      BY <2>1, <2>2 DEF CredAlone
    <3>2. pairs' = pairs /\ consumed' = consumed
      BY <1>13 DEF UpdatePassword, rows
    <3>. QED
      BY <3>1, <3>2 DEF CredInv, Staged, SpentFirst, Stages, At, Pairs, Renewal
  <2>6. ASSUME NEW o \in Clients PROVE InTurn(o)'
    <3>1. CASE o = c
      BY <2>1, <2>2, <2>3, <3>1 DEF InTurn, At
    <3>2. CASE o /= c
      <4>1. req'[o] = req[o] /\ InTurn(o) /\ InTurn(c) /\ At(c, "change", "update")
        BY <2>1, <2>2, <3>2 DEF CredAlone, CredInv, At
      <4>2. req[o].op = "change" /\ ~password.crossed => req[o].at /= "update"
        BY <2>2, <3>2, <4>1 DEF InTurn, At
      <4>3. req[o].op = "change" /\ ~password.crossed => req[o].mark <= req[c].mark
        <5>1. req[o].mark \in Nat /\ account.validAfter \in Nat
          BY <1>1, CredentialsAssumption DEF CredTypeOK, Requests
        <5>. QED
          BY <2>2, <4>1, <4>2, <5>1 DEF InTurn
      <4>. QED
        BY <2>3, <4>1, <4>2, <4>3 DEF InTurn
    <3>. QED
      BY <3>1, <3>2
  <2>7. MarkStands'
    <3>1. password.mark \in Nat /\ account.validAfter \in Nat /\ InTurn(c) /\ MarkStands
      BY <1>1, CredentialsAssumption DEF CredTypeOK, CredInv
    <3>. QED
      BY <2>2, <2>3, <3>1 DEF InTurn, MarkStands
  <2>8. CredRest'
    BY <1>13, <2>7 DEF UpdatePassword, CredInv, CredRest, MintedAreSpent, ClaimsAreRounded,
       SignOutIsFinal, Pairs, rows, rest, answered
  <2>9. CredSteady'
    BY <2>5, <2>6 DEF CredSteady
  <2>. QED
    BY <2>4, <2>8, <2>9, CredConclusions, PTL
<1>14. ASSUME NEW c \in Clients, RevokeRows(c) PROVE CredInv'
  <2>1. CredAlone(c) /\ req'[c].op = req[c].op /\ req'[c].at = "sessions"
        /\ req'[c].pair = req[c].pair
        /\ req'[c].mark = req[c].mark
    BY <1>14, <1>1, CredGoto DEF RevokeRows, CredStages
  <2>2. req[c].op = "change" /\ req[c].mark <= now
    BY <1>14, <1>1 DEF RevokeRows, CredInv, InTurn, At
  <2>3. CredTypeOK'
    BY <1>14, <1>1, <2>1, CredentialsAssumption
       DEF RevokeRows, CredTypeOK, CredAlone, Pairs, rows, rest, answered, bounds
  <2>4. Staged(c)' /\ SpentFirst(c)' /\ InTurn(c)'
    BY <1>14, <1>1, <2>1
       DEF RevokeRows, CredInv, Staged, SpentFirst, InTurn, Stages, At, Renewal, Pairs, rows, rest, answered, bounds
  <2>5. CredSteady'
    BY <1>14, <1>1, <2>1, <2>4, <2>2, CredOthers
       DEF RevokeRows, CredInv, CredAlone, At, Pairs, rows, rest, answered, bounds
  <2>6. CredRest'
    BY <1>14, <1>1 DEF RevokeRows, CredInv, CredRest, MintedAreSpent, ClaimsAreRounded,
       MarkStands, SignOutIsFinal, Pairs, rows, rest, answered, bounds
  <2>. QED
    BY <2>3, <2>5, <2>6, CredConclusions, PTL
<1>15. ASSUME NEW c \in Clients, DropSessions(c) PROVE CredInv'
  <2>1. CredAlone(c) /\ req'[c].op = "none" /\ req'[c].at = "idle"
    BY <1>15, <1>1, CredDone DEF DropSessions
  <2>2. /\ password' \in [mark : 0..MaxInstants, crossed : BOOLEAN]
        /\ password'.crossed = password.crossed
        /\ password'.mark \in {req[c].mark, password.mark}
        /\ req[c].mark <= now /\ (~password.crossed => req[c].mark <= account.validAfter)
    <3>1. req[c].mark <= now /\ (~password.crossed => req[c].mark <= account.validAfter)
      BY <1>15 DEF DropSessions, CredInv, InTurn, At
    <3>2. req[c].mark \in 0..MaxInstants
      BY <1>1, <3>1, CredentialsAssumption DEF CredTypeOK, Requests
    <3>. QED
      BY <1>15, <1>1, <3>1, <3>2 DEF DropSessions, CredTypeOK
  <2>3. CredTypeOK'
    BY <1>15, <1>1, <2>1, <2>2, CredentialsAssumption
       DEF DropSessions, CredTypeOK, CredAlone, Pairs, bounds
  <2>4. Staged(c)' /\ SpentFirst(c)' /\ InTurn(c)'
    BY <2>1 DEF Staged, SpentFirst, InTurn, Stages, At
  <2>5. CredSteady'
    BY <1>15, <2>1, <2>2, <2>4, CredOthers DEF DropSessions, At, Pairs
  <2>6. CredRest'
    BY <1>15, <2>2
       DEF DropSessions, CredInv, CredRest, MintedAreSpent, ClaimsAreRounded, MarkStands,
       SignOutIsFinal, Pairs
  <2>. QED
    BY <2>3, <2>5, <2>6, CredConclusions, PTL
<1>16. ASSUME NEW c \in Clients, IssuePair(c) PROVE CredInv'
  <2>. DEFINE n == Len(pairs) + 1
  <2>1. /\ now \in Nat /\ Second(now) \in 0..now /\ Grain * Second(now) <= now
        /\ [iat |-> Second(now), born |-> now] \in Claims
    <3>1. now \in Nat /\ now <= MaxInstants /\ MaxInstants \in Nat
      BY <1>1, CredentialsAssumption DEF CredTypeOK
    <3>2. Second(now) \in 0..now /\ Grain * Second(now) <= now
      BY <3>1, SecondFacts
    <3>. QED
      BY <3>1, <3>2 DEF Claims
  <2>2. /\ pairs' \in Seq(Claims) /\ Len(pairs') = n /\ n \in 1..MaxPairs
        /\ \A p \in Pairs : pairs'[p] = pairs[p]
        /\ pairs'[n] = [iat |-> Second(now), born |-> now]
        /\ Pairs' = Pairs \cup {n} /\ Pairs \subseteq Pairs'
    <3>. DEFINE v == [iat |-> Second(now), born |-> now]
    <3>1. pairs' = Append(pairs, v) /\ pairs \in Seq(Claims) /\ v \in Claims
          /\ Len(pairs) < MaxPairs /\ Len(pairs) \in Nat
      BY <1>16, <1>1, <2>1 DEF IssuePair, CredTypeOK
    <3>. HIDE DEF v
    <3>2. pairs' \in Seq(Claims) /\ Len(pairs') = n /\ pairs'[n] = v
               /\ \A p \in 1..Len(pairs) : pairs'[p] = pairs[p]
      BY <3>1
    <3>3. n \in 1..MaxPairs
      BY <3>1, CredentialsAssumption
    <3>4. 1..n = (1..Len(pairs)) \cup {n}
      BY <3>1
    <3>. QED
      BY <3>2, <3>3, <3>4 DEF Pairs, v
  <2>3. /\ CredAlone(c) /\ req'[c].op \in {"none", "login"}
        /\ \/ req'[c].op = "none" /\ req'[c].at = "idle"
           \/ req'[c].op = "login" /\ req'[c].at = "session" /\ req'[c].pair = n
    <3>1. CASE req[c].op = "login"
      <4>1. req' = [req EXCEPT ![c].at = "session", ![c].pair = n]
        BY <1>16, <3>1 DEF IssuePair
      <4>2. req \in [Clients -> Requests] /\ n \in 0..MaxPairs
        BY <1>1, <2>2, CredentialsAssumption DEF CredTypeOK
      <4>. HIDE DEF n
      <4>. QED
        BY <3>1, <4>1, <4>2 DEF Requests, CredAlone
    <3>2. CASE req[c].op /= "login"
      BY <1>16, <1>1, <3>2, CredDone DEF IssuePair
    <3>. QED
      BY <3>1, <3>2
  <2>4. /\ minted' \in [1..MaxPairs -> 0..MaxPairs]
        /\ \A p \in 1..MaxPairs : minted'[p] <= n /\ (minted'[p] > 0 => p \in consumed)
    <3>1. \A p \in 1..MaxPairs : minted[p] <= Len(pairs) /\ (minted[p] > 0 => p \in consumed)
      BY DEF CredInv, MintedAreSpent
    <3>2. CASE req[c].op = "login"
      BY <1>16, <1>1, <3>1, <3>2, CredentialsAssumption DEF IssuePair, CredTypeOK
    <3>3. CASE req[c].op /= "login"
      <4>1. req[c].pair \in 1..MaxPairs /\ req[c].pair \in consumed
        BY <1>16, <1>1, <3>3, CredentialsAssumption
           DEF IssuePair, CredTypeOK, CredInv, Staged, SpentFirst, Pairs
      <4>2. minted' = [minted EXCEPT ![req[c].pair] = @ + 1] /\ Len(pairs) < MaxPairs
        BY <1>16, <3>3 DEF IssuePair
      <4>. QED
        <5>1. minted \in [1..MaxPairs -> 0..MaxPairs] /\ Len(pairs) \in Nat /\ MaxPairs \in Nat
          BY <1>1, CredentialsAssumption DEF CredTypeOK
        <5>2. \A p \in 1..MaxPairs : minted'[p] = IF p = req[c].pair THEN minted[p] + 1
                   ELSE minted[p]
          BY <4>1, <4>2, <5>1
        <5>3. \A p \in 1..MaxPairs : minted'[p] \in 0..n
          BY <3>1, <5>1, <5>2
        <5>. QED
          BY <3>1, <4>1, <4>2, <5>1, <5>2, <5>3
    <3>. QED
      BY <3>2, <3>3
  <2>5. CredTypeOK'
    BY <1>16, <1>1, <2>2, <2>3, <2>4, CredentialsAssumption
       DEF IssuePair, CredTypeOK, CredAlone, rows, answered, bounds
  <2>6. Staged(c)' /\ SpentFirst(c)' /\ InTurn(c)'
    BY <2>2, <2>3 DEF Staged, SpentFirst, InTurn, Stages, At, Renewal
  <2>7. CredSteady'
    BY <1>16, <2>2, <2>3, <2>6, CredOthers DEF IssuePair, At, rows, answered
  <2>8. ClaimsAreRounded'
    <3>1. now' = now /\ ClaimsAreRounded
      BY <1>16 DEF IssuePair, CredInv
    <3>. QED
      BY <2>1, <2>2, <3>1 DEF ClaimsAreRounded
  <2>9. CredRest'
    BY <1>16, <2>2, <2>4, <2>8
       DEF IssuePair, CredInv, CredRest, MintedAreSpent, MarkStands, SignOutIsFinal, rows, answered
  <2>. QED
    BY <2>5, <2>7, <2>9, CredConclusions, PTL
<1>17. ASSUME NEW c \in Clients, VerifyChange(c) PROVE CredInv'
  <2>1. now \in Nat /\ 0 \in 0..MaxPairs /\ {} \in SUBSET Nat /\ now \in 0..MaxInstants
    BY <1>1, CredentialsAssumption DEF CredTypeOK
  <2>2. /\ CredAlone(c) /\ req[c].at = "idle" /\ begun' \in 0..MaxBegun
        /\ req'[c].op = "change" /\ req'[c].at = "update" /\ req'[c].mark = now
    <3>. DEFINE r == [op |-> "change", at |-> "update", pair |-> 0, mark |-> now, access |-> {}]
    <3>1. r \in Requests
      BY <2>1 DEF Requests
    <3>2. CredBegins(c, r)
      BY <1>17 DEF VerifyChange, Start, CredBegins
    <3>. QED
      BY <1>1, <3>1, <3>2, CredStart
  <2>3. /\ password' \in [mark : 0..MaxInstants, crossed : BOOLEAN]
        /\ password'.mark = password.mark
        /\ ~password'.crossed => /\ ~password.crossed
                                 /\ \A o \in Clients : ~At(o, "change", "update")
    BY <1>17, <1>1 DEF VerifyChange, CredTypeOK
  <2>4. CredTypeOK'
    BY <1>17, <1>1, <2>2, <2>3
       DEF VerifyChange, CredTypeOK, CredAlone, Pairs, rows, bounds
  <2>5. ASSUME NEW o \in Clients PROVE Staged(o)' /\ SpentFirst(o)'
    <3>1. req'[o] = req[o] \/ (o = c /\ req'[o].op = "change" /\ req'[o].at = "update")
      BY <2>2 DEF CredAlone
    <3>2. pairs' = pairs /\ consumed' = consumed
      BY <1>17 DEF VerifyChange, rows
    <3>. QED
      BY <3>1, <3>2 DEF CredInv, Staged, SpentFirst, Stages, At, Pairs, Renewal
  <2>6. now' = now /\ account' = account /\ MarkStands
    BY <1>17 DEF VerifyChange, CredInv
  <2>7. ASSUME NEW o \in Clients PROVE InTurn(o)'
    <3>1. CASE o = c
      <4>1. ~password'.crossed => \A x \in Clients : At(x, "change", "update")' => x = c
        BY <2>2, <2>3 DEF At, CredAlone
      <4>2. account.validAfter <= now
        BY <2>6 DEF MarkStands
      <4>. QED
        BY <2>1, <2>2, <2>6, <3>1, <4>1, <4>2 DEF InTurn
    <3>2. CASE o /= c
      <4>1. req'[o] = req[o] /\ InTurn(o)
        BY <2>2, <3>2 DEF CredAlone, CredInv
      <4>2. ~password'.crossed => ~password.crossed /\ ~(req[o].op = "change" /\ req[o].at = "update")
        BY <2>3 DEF At
      <4>. QED
        BY <2>6, <4>1, <4>2 DEF InTurn
    <3>. QED
      BY <3>1, <3>2
  <2>8. CredRest'
    BY <1>17, <2>3, <2>6 DEF VerifyChange, CredInv, CredRest, MintedAreSpent, ClaimsAreRounded,
       MarkStands, SignOutIsFinal, Pairs, rows
  <2>9. CredSteady'
    BY <2>5, <2>7 DEF CredSteady
  <2>. QED
    BY <2>4, <2>8, <2>9, CredConclusions, PTL
<1>18. CASE SetActive
  <2>1. /\ account' \in [active : BOOLEAN, validAfter : 0..MaxInstants]
        /\ account'.validAfter = account.validAfter
    BY <1>18, <1>1 DEF SetActive, CredTypeOK
  <2>2. CredTypeOK'
    BY <1>18, <1>1, <2>1 DEF SetActive, CredTypeOK, Pairs, rows, rest, answered, bounds
  <2>3. CredSteady'
    BY <1>18, <2>1 DEF SetActive, CredInv, CredSteady, Staged, SpentFirst, InTurn, At, Pairs,
       Renewal, rows, rest, answered, bounds
  <2>4. CredRest'
    BY <1>18, <2>1 DEF SetActive, CredInv, CredRest, MintedAreSpent, ClaimsAreRounded,
       MarkStands, SignOutIsFinal, Pairs, rows, rest, answered, bounds
  <2>. QED
    BY <2>2, <2>3, <2>4, CredConclusions, PTL
<1>19. CASE Tick
  <2>1. now \in Nat /\ now' \in 0..MaxInstants /\ now < now'
    BY <1>19, <1>1, CredentialsAssumption DEF Tick, CredTypeOK
  <2>2. CredTypeOK'
    BY <1>19, <1>1, <2>1 DEF Tick, CredTypeOK, Pairs, rows, rest, answered, bounds
  <2>3. ASSUME NEW c \in Clients PROVE InTurn(c)'
    <3>1. req[c].mark \in Nat /\ InTurn(c)
      BY <1>1 DEF CredTypeOK, Requests, CredInv
    <3>2. req' = req /\ account' = account /\ password' = password
      BY <1>19 DEF Tick, rest, answered
    <3>. QED
      BY <2>1, <3>1, <3>2 DEF InTurn, At
  <2>4. CredSteady'
    BY <1>19, <2>3 DEF Tick, CredInv, CredSteady, Staged, SpentFirst, At, Pairs, Renewal, rows
  <2>5. \A p \in Pairs : pairs[p].born \in Nat
    <3>1. \A p \in Pairs : pairs[p] \in Claims
      BY <1>1 DEF CredTypeOK, Pairs
    <3>. QED
      BY <3>1, CredentialsAssumption DEF Claims
  <2>6. ClaimsAreRounded'
    BY <1>19, <2>1, <2>5 DEF Tick, CredInv, ClaimsAreRounded, Pairs
  <2>7. MarkStands'
    <3>1. account.validAfter \in Nat /\ password.mark \in Nat /\ MarkStands
      BY <1>1, CredentialsAssumption DEF CredTypeOK, CredInv
    <3>. QED
      BY <1>19, <2>1, <3>1 DEF Tick, MarkStands, rest, answered
  <2>8. CredRest'
    BY <1>19, <2>6, <2>7
       DEF Tick, CredInv, CredRest, MintedAreSpent, SignOutIsFinal, rows, rest, answered
  <2>. QED
    BY <2>2, <2>4, <2>8, CredConclusions, PTL
<1>20. CASE UNCHANGED credVars
  BY <1>20 DEF credVars, CredInv, CredTypeOK, Staged, SpentFirst, InTurn, MintedAreSpent,
     ClaimsAreRounded, MarkStands, SignOutIsFinal, ChangeEndsOldTokens, RenewalBuysOnce, At, Pairs,
     Accepted, IssuedBefore, Renewal
<1>. QED
  BY <1>2, <1>3, <1>4, <1>5, <1>6, <1>7, <1>8, <1>9, <1>10, <1>11, <1>12, <1>13, <1>14, <1>15,
     <1>16, <1>17, <1>18, <1>19, <1>20 DEF CredNext

\* A token presented to an answered sign-out, or issued before an answered password change
\* that no other crossed, is never accepted again, and a renewal that began after its token
\* was given up buys no pair, whichever requests are in flight, changes of the password
\* among them, and whichever of them end at a statement (CredInv).
THEOREM CredentialsAreSound == CredSpec => []CredInv
BY CredInitially, CredStep, PTL DEF CredSpec

-----------------------------------------------------------------------------
(* Memberships.                                                             *)

\* The team that fills the unused fields is a team.
LEMMA AnyTeamIsOne == AnyTeam \in Teams
  BY MembershipsAssumption DEF AnyTeam

\* What the plan of a call says of its next statement and of the ones behind it.
NextDo(o, d, n) ==
  \/ o \in {"join", "role", "primary"} /\ d = "clear" /\ n \in {"insert", "set"}
  \/ o \in {"join", "add", "replace"} /\ d = "insert" /\ n = "invalidate"
  \/ o = "add" /\ d = "first?" /\ n = "invalidate"
  \/ o \in {"leave", "remove", "edit"} /\ d = "delete" /\ n = "find"
  \/ o = "bulk" /\ d = "delete" /\ n = "invalidate"
  \/ o \in {"leave", "remove", "edit"} /\ d \in {"find", "pick", "set"} /\ n = "invalidate"
  \/ o \in {"role", "primary"} /\ d = "set" /\ n = "invalidate"
  \/ o = "transfer" /\ d = "delete" /\ n = "upsert"
  \/ o = "transfer" /\ d = "upsert" /\ n = "invalidate"
  \/ o = "replace" /\ d = "wipe" /\ n = "insert"
  \/ o = "drop" /\ d = "retire" /\ n = "expel"
  \/ o = "reinstate" /\ d \in {"restore", "reinsert"} /\ n = "invalidate"
  \/ o = "edit" /\ d = "ignore" /\ n \in {"delete", "find"}
  \/ o = "edit" /\ d = "invalidate" /\ n = "token"
  \/ o = "undo" /\ d = "wipe" /\ n = "refill"
  \/ o = "undo" /\ d = "refill" /\ n = "invalidate"
\* What its last statement may be.
LastDo(o, d) ==
  \/ o = "request" /\ d = "put"
  \/ o = "edit" /\ d = "token"
  \/ o = "drop" /\ d = "expel"
  \/ o \in Writers \ {"drop", "edit"} /\ d = "invalidate"
\* There is an invalidation among these statements.
OwesIn(todo) == \E i \in DOMAIN todo : todo[i].do = "invalidate"
\* What is so of the statements that a call has left.
Fits(o, todo) ==
  LET s == Head(todo)
      after == Tail(todo)
  IN  /\ s.team \in Teams
      /\ after = <<>> <=> Len(todo) = 1
      /\ after = <<>> => LastDo(o, s.do)
      /\ after /= <<>> => after \in Plans(o) /\ NextDo(o, s.do, Head(after).do)
           /\ Head(after) = todo[2]
      /\ s.do = "first?" => \A f \in BOOLEAN :
           [todo EXCEPT ![1] = S("insert", s.team, f)] \in Plans(o)
      /\ s.do = "find" => [todo EXCEPT ![1] = Do("pick")] \in Plans(o)
      /\ s.do = "pick" => \A t \in Teams : [todo EXCEPT ![1] = Mark(t)] \in Plans(o)
      /\ s.do \notin {"put", "token", "expel", "retire"} => OwesIn(todo)
      /\ s.do \notin {"put", "token", "expel", "retire", "invalidate"} => OwesIn(after)
      /\ s.do \in {"put", "token", "expel", "retire"} => ~OwesIn(todo)

\* What the plans' tuples are made of.
LEMMA One ==
  ASSUME NEW a
  PROVE  Head(<<a>>) = a /\ Tail(<<a>>) = <<>> /\ Len(<<a>>) = 1 /\ <<a>> /= <<>>
  OBVIOUS

\* So are those of two.
LEMMA Two ==
  ASSUME NEW a, NEW b
  PROVE  /\ Head(<<a, b>>) = a /\ Tail(<<a, b>>) = <<b>> /\ Len(<<a, b>>) = 2
         /\ Head(<<b>>) = b /\ <<a, b>>[2] = b
         /\ \A x : [<<a, b>> EXCEPT ![1] = x] = <<x, b>>
  OBVIOUS

\* Of three.
LEMMA Three ==
  ASSUME NEW a, NEW b, NEW c
  PROVE  /\ Head(<<a, b, c>>) = a /\ Tail(<<a, b, c>>) = <<b, c>> /\ Len(<<a, b, c>>) = 3
         /\ Head(<<b, c>>) = b /\ <<a, b, c>>[2] = b
         /\ \A x : [<<a, b, c>> EXCEPT ![1] = x] = <<x, b, c>>
  OBVIOUS

\* Of four.
LEMMA Four ==
  ASSUME NEW a, NEW b, NEW c, NEW d
  PROVE  /\ Head(<<a, b, c, d>>) = a /\ Tail(<<a, b, c, d>>) = <<b, c, d>>
         /\ Len(<<a, b, c, d>>) = 4 /\ Head(<<b, c, d>>) = b /\ <<a, b, c, d>>[2] = b
  OBVIOUS

\* And of five.
LEMMA Five ==
  ASSUME NEW a, NEW b, NEW c, NEW d, NEW e
  PROVE  /\ Head(<<a, b, c, d, e>>) = a /\ Tail(<<a, b, c, d, e>>) = <<b, c, d, e>>
         /\ Len(<<a, b, c, d, e>>) = 5 /\ Head(<<b, c, d, e>>) = b /\ <<a, b, c, d, e>>[2] = b
  OBVIOUS

\* Where the invalidation of a plan may be.
LEMMA Owe ==
  ASSUME NEW a, NEW b, NEW c, NEW d, NEW e
  PROVE  /\ a.do = "invalidate" => OwesIn(<<a>>) /\ OwesIn(<<a, b>>)
         /\ b.do = "invalidate" => OwesIn(<<a, b>>) /\ OwesIn(<<a, b, c>>)
         /\ c.do = "invalidate" => OwesIn(<<a, b, c>>) /\ OwesIn(<<a, b, c, d>>)
         /\ d.do = "invalidate" => OwesIn(<<a, b, c, d>>) /\ OwesIn(<<a, b, c, d, e>>)
<1>1. a.do = "invalidate" => OwesIn(<<a>>)
  <2>1. 1 \in DOMAIN <<a>> /\ <<a>>[1] = a
    OBVIOUS
  <2>. QED
    BY <2>1 DEF OwesIn
<1>2. a.do = "invalidate" => OwesIn(<<a, b>>)
  <2>1. 1 \in DOMAIN <<a, b>> /\ <<a, b>>[1] = a
    OBVIOUS
  <2>. QED
    BY <2>1 DEF OwesIn
<1>3. b.do = "invalidate" => OwesIn(<<a, b, c>>)
  <2>1. 2 \in DOMAIN <<a, b, c>> /\ <<a, b, c>>[2] = b
    OBVIOUS
  <2>. QED
    BY <2>1 DEF OwesIn
<1>4. b.do = "invalidate" => OwesIn(<<a, b>>)
  <2>1. 2 \in DOMAIN <<a, b>> /\ <<a, b>>[2] = b
    OBVIOUS
  <2>. QED
    BY <2>1 DEF OwesIn
<1>5. c.do = "invalidate" => OwesIn(<<a, b, c, d>>)
  <2>1. 3 \in DOMAIN <<a, b, c, d>> /\ <<a, b, c, d>>[3] = c
    OBVIOUS
  <2>. QED
    BY <2>1 DEF OwesIn
<1>6. c.do = "invalidate" => OwesIn(<<a, b, c>>)
  <2>1. 3 \in DOMAIN <<a, b, c>> /\ <<a, b, c>>[3] = c
    OBVIOUS
  <2>. QED
    BY <2>1 DEF OwesIn
<1>7. d.do = "invalidate" => OwesIn(<<a, b, c, d, e>>)
  <2>1. 4 \in DOMAIN <<a, b, c, d, e>> /\ <<a, b, c, d, e>>[4] = d
    OBVIOUS
  <2>. QED
    BY <2>1 DEF OwesIn
<1>8. d.do = "invalidate" => OwesIn(<<a, b, c, d>>)
  <2>1. 4 \in DOMAIN <<a, b, c, d>> /\ <<a, b, c, d>>[4] = d
    OBVIOUS
  <2>. QED
    BY <2>1 DEF OwesIn
<1>. QED
  BY <1>1, <1>2, <1>3, <1>4, <1>5, <1>6, <1>7, <1>8

\* Plans without one.
LEMMA OweNot ==
  ASSUME NEW a, NEW b, a.do /= "invalidate"
  PROVE  ~OwesIn(<<a>>) /\ (b.do /= "invalidate" => ~OwesIn(<<a, b>>))
BY DEF OwesIn

\* The fields of statements.
LEMMA Said ==
  /\ \A d, f : \A s \in Some(d, f) : s.do = d /\ s.team \in Teams
  /\ \A d : Do(d).do = d /\ Do(d).team \in Teams
  /\ Last1.do = "invalidate" /\ Last1.team \in Teams
  /\ \A d, t, f : S(d, t, f).do = d /\ S(d, t, f).team = t
  /\ \A t : Mark(t).do = "set" /\ Mark(t).team = t
  BY AnyTeamIsOne DEF Some, S, Do, Last1, Mark

\* A statement with a given flag is one with some flag.
LEMMA Flags ==
  \A d : Some(d, {TRUE}) \subseteq Some(d, BOOLEAN) /\ Some(d, {FALSE}) \subseteq Some(d, BOOLEAN)
<1>1. ASSUME NEW d, NEW F, F \subseteq BOOLEAN
      PROVE  Some(d, F) \subseteq Some(d, BOOLEAN)
  BY <1>1 DEF Some
<1>2. {TRUE} \subseteq BOOLEAN /\ {FALSE} \subseteq BOOLEAN
  BY Zenon
<1>. QED
  BY <1>1, <1>2

\* The statement that marks a team is a set.
LEMMA Marks == \A t \in Teams : Mark(t) \in Some("set", BOOLEAN)
<1>1. ASSUME NEW t \in Teams, NEW f \in BOOLEAN
      PROVE  S("set", t, f) \in Some("set", BOOLEAN)
  BY DEF Some
<1>2. TRUE \in BOOLEAN
  BY Zenon
<1>. QED
  BY <1>1, <1>2, Zenon DEF Mark

\* A plan whose next statement looks at nothing first.
LEMMA PlainFits ==
  ASSUME NEW o, NEW todo, NEW s, NEW u,
         Head(todo) = s, Tail(todo) = u, Len(todo) /= 1, u /= <<>>, Head(u) = todo[2],
         s.team \in Teams, u \in Plans(o), NextDo(o, s.do, Head(u).do),
         s.do /= "first?", s.do /= "find", s.do /= "pick",
         s.do = "retire" \/ OwesIn(todo), s.do = "retire" \/ s.do = "invalidate" \/ OwesIn(u),
         s.do = "retire" => ~OwesIn(todo)
  PROVE  Fits(o, todo)
<1>1. s.do /= "put" /\ s.do /= "token" /\ s.do /= "expel"
  BY DEF NextDo
<1>. QED
  BY <1>1 DEF Fits

\* A plan whose next statement may be replaced by what it has found.
LEMMA LookingFits ==
  ASSUME NEW o, NEW todo, NEW s, NEW u,
         Head(todo) = s, Tail(todo) = u, Len(todo) /= 1, u /= <<>>, Head(u) = todo[2],
         s.team \in Teams, u \in Plans(o), NextDo(o, s.do, Head(u).do),
         s.do = "first?" \/ s.do = "find" \/ s.do = "pick",
         s.do = "first?"
              => \A f \in BOOLEAN : [todo EXCEPT ![1] = S("insert", s.team, f)] \in Plans(o),
         s.do = "find" => [todo EXCEPT ![1] = Do("pick")] \in Plans(o),
         s.do = "pick" => \A t \in Teams : [todo EXCEPT ![1] = Mark(t)] \in Plans(o),
         OwesIn(todo), OwesIn(u)
  PROVE  Fits(o, todo)
<1>1. s.do /= "put" /\ s.do /= "token" /\ s.do /= "expel" /\ s.do /= "retire"
  OBVIOUS
<1>. QED
  BY <1>1 DEF Fits

\* A plan with one statement left.
LEMMA LastFits ==
  ASSUME NEW o, NEW todo, NEW s,
         Head(todo) = s, Tail(todo) = <<>>, Len(todo) = 1, s.team \in Teams, LastDo(o, s.do),
         s.do = "invalidate" <=> OwesIn(todo)
  PROVE  Fits(o, todo)
<1>1. /\ s.do /= "first?" /\ s.do /= "find" /\ s.do /= "pick"
      /\ s.do = "invalidate" \/ s.do = "put" \/ s.do = "token" \/ s.do = "expel"
  BY DEF LastDo
<1>. QED
  BY <1>1 DEF Fits

\* The plans of an authenticated request.
LEMMA RequestFits ==
  ASSUME NEW todo \in Plans("request")
  PROVE  Fits("request", todo)
<1>1. ASSUME todo = <<Do("put")>>
      PROVE  Fits("request", todo)
  <2>1. Do("put").do = "put" /\ Do("put").team \in Teams
    BY <1>1, Said
  <2>2. Head(todo) = Do("put") /\ Tail(todo) = <<>> /\ Len(todo) = 1
    BY <1>1, One
  <2>3. LastDo("request", "put")
    BY DEF LastDo, Writers
  <2>4. ~OwesIn(todo)
    BY <1>1, <2>1, OweNot
  <2>. QED
    BY <2>1, <2>2, <2>3, <2>4, LastFits
<1>. QED
  BY <1>1 DEF Plans

\* The plans of join_team.
LEMMA JoinFits ==
  ASSUME NEW todo \in Plans("join")
  PROVE  Fits("join", todo)
<1>1. ASSUME NEW s \in Some("insert", {TRUE}), todo = <<Do("clear"), s, Last1>>
      PROVE  Fits("join", todo)
  <2>1. Do("clear").do = "clear" /\ Do("clear").team \in Teams /\ s.do = "insert"
        /\ Last1.do = "invalidate"
    BY <1>1, Said
  <2>2. /\ Head(todo) = Do("clear") /\ Tail(todo) = <<s, Last1>> /\ Len(todo) /= 1
        /\ <<s, Last1>> /= <<>> /\ Head(<<s, Last1>>) = s /\ todo[2] = s
    BY <1>1, Three
  <2>3. <<s, Last1>> \in Plans("join")
    BY <1>1, Flags DEF Plans
  <2>4. NextDo("join", "clear", "insert")
    BY DEF NextDo
  <2>5. OwesIn(todo) /\ OwesIn(<<s, Last1>>)
    BY <1>1, <2>1, Owe
  <2>. QED
    BY <2>1, <2>2, <2>3, <2>4, <2>5, PlainFits
<1>2. ASSUME NEW s \in Some("insert", BOOLEAN), todo = <<s, Last1>>
      PROVE  Fits("join", todo)
  <2>1. s.do = "insert" /\ s.team \in Teams /\ Last1.do = "invalidate"
    BY <1>2, Said
  <2>2. /\ Head(todo) = s /\ Tail(todo) = <<Last1>> /\ Len(todo) /= 1
        /\ <<Last1>> /= <<>> /\ Head(<<Last1>>) = Last1 /\ todo[2] = Last1
    BY <1>2, Two
  <2>3. <<Last1>> \in Plans("join")
    BY <1>2 DEF Plans
  <2>4. NextDo("join", "insert", "invalidate")
    BY DEF NextDo
  <2>5. OwesIn(todo) /\ OwesIn(<<Last1>>)
    BY <1>2, <2>1, Owe
  <2>. QED
    BY <2>1, <2>2, <2>3, <2>4, <2>5, PlainFits
<1>3. ASSUME todo = <<Last1>>
      PROVE  Fits("join", todo)
  <2>1. Last1.do = "invalidate" /\ Last1.team \in Teams
    BY <1>3, Said
  <2>2. Head(todo) = Last1 /\ Tail(todo) = <<>> /\ Len(todo) = 1
    BY <1>3, One
  <2>3. LastDo("join", "invalidate")
    BY DEF LastDo, Writers
  <2>4. OwesIn(todo)
    BY <1>3, <2>1, Owe
  <2>. QED
    BY <2>1, <2>2, <2>3, <2>4, LastFits
<1>. QED
  BY <1>1, <1>2, <1>3 DEF Plans

\* The plans of add_member.
LEMMA AddFits ==
  ASSUME NEW todo \in Plans("add")
  PROVE  Fits("add", todo)
<1>1. ASSUME NEW s \in Some("first?", {FALSE}), todo = <<s, Last1>>
      PROVE  Fits("add", todo)
  <2>1. s.do = "first?" /\ s.team \in Teams /\ Last1.do = "invalidate"
    BY <1>1, Said
  <2>2. /\ Head(todo) = s /\ Tail(todo) = <<Last1>> /\ Len(todo) /= 1
        /\ <<Last1>> /= <<>> /\ Head(<<Last1>>) = Last1 /\ todo[2] = Last1
    BY <1>1, Two
  <2>3. <<Last1>> \in Plans("add")
    BY <1>1, Flags DEF Plans
  <2>4. NextDo("add", "first?", "invalidate")
    BY DEF NextDo
  <2>5. OwesIn(todo) /\ OwesIn(<<Last1>>)
    BY <1>1, <2>1, Owe
  <2>6. \A f \in BOOLEAN : [todo EXCEPT ![1] = S("insert", s.team, f)] \in Plans("add")
    <3>1. SUFFICES ASSUME NEW f \in BOOLEAN
                   PROVE  <<S("insert", s.team, f), Last1>> \in Plans("add")
      BY <1>1, Two
    <3>2. S("insert", s.team, f) \in Some("insert", BOOLEAN)
      BY <2>1 DEF Some
    <3>. QED
      BY <3>2 DEF Plans
  <2>. QED
    BY <2>1, <2>2, <2>3, <2>4, <2>5, <2>6, LookingFits
<1>2. ASSUME NEW s \in Some("insert", BOOLEAN), todo = <<s, Last1>>
      PROVE  Fits("add", todo)
  <2>1. s.do = "insert" /\ s.team \in Teams /\ Last1.do = "invalidate"
    BY <1>2, Said
  <2>2. /\ Head(todo) = s /\ Tail(todo) = <<Last1>> /\ Len(todo) /= 1
        /\ <<Last1>> /= <<>> /\ Head(<<Last1>>) = Last1 /\ todo[2] = Last1
    BY <1>2, Two
  <2>3. <<Last1>> \in Plans("add")
    BY <1>2 DEF Plans
  <2>4. NextDo("add", "insert", "invalidate")
    BY DEF NextDo
  <2>5. OwesIn(todo) /\ OwesIn(<<Last1>>)
    BY <1>2, <2>1, Owe
  <2>. QED
    BY <2>1, <2>2, <2>3, <2>4, <2>5, PlainFits
<1>3. ASSUME todo = <<Last1>>
      PROVE  Fits("add", todo)
  <2>1. Last1.do = "invalidate" /\ Last1.team \in Teams
    BY <1>3, Said
  <2>2. Head(todo) = Last1 /\ Tail(todo) = <<>> /\ Len(todo) = 1
    BY <1>3, One
  <2>3. LastDo("add", "invalidate")
    BY DEF LastDo, Writers
  <2>4. OwesIn(todo)
    BY <1>3, <2>1, Owe
  <2>. QED
    BY <2>1, <2>2, <2>3, <2>4, LastFits
<1>. QED
  BY <1>1, <1>2, <1>3 DEF Plans

\* The plans of leave_team and remove_team_member.
LEMMA LeaveFits ==
  ASSUME NEW o \in {"leave", "remove"}, NEW todo \in Plans(o)
  PROVE  Fits(o, todo)
<1>1. ASSUME NEW s \in Some("delete", {FALSE}), todo = <<s, Do("find"), Last1>>
      PROVE  Fits(o, todo)
  <2>1. s.do = "delete" /\ s.team \in Teams /\ Do("find").do = "find" /\ Last1.do = "invalidate"
    BY <1>1, Said
  <2>2. /\ Head(todo) = s /\ Tail(todo) = <<Do("find"), Last1>> /\ Len(todo) /= 1
        /\ <<Do("find"), Last1>> /= <<>> /\ Head(<<Do("find"), Last1>>) = Do("find")
        /\ todo[2] = Do("find")
    BY <1>1, Three
  <2>3. <<Do("find"), Last1>> \in Plans(o)
    BY <1>1, Flags DEF Plans, Promoting
  <2>4. NextDo(o, "delete", "find")
    BY DEF NextDo
  <2>5. OwesIn(todo) /\ OwesIn(<<Do("find"), Last1>>)
    BY <1>1, <2>1, Owe
  <2>. QED
    BY <2>1, <2>2, <2>3, <2>4, <2>5, PlainFits
<1>2. ASSUME todo = <<Do("find"), Last1>>
      PROVE  Fits(o, todo)
  <2>1. Do("find").do = "find" /\ Do("find").team \in Teams /\ Last1.do = "invalidate"
    BY <1>2, Said
  <2>2. /\ Head(todo) = Do("find") /\ Tail(todo) = <<Last1>> /\ Len(todo) /= 1
        /\ <<Last1>> /= <<>> /\ Head(<<Last1>>) = Last1 /\ todo[2] = Last1
    BY <1>2, Two
  <2>3. <<Last1>> \in Plans(o)
    BY <1>2 DEF Plans, Promoting
  <2>4. NextDo(o, "find", "invalidate")
    BY DEF NextDo
  <2>5. OwesIn(todo) /\ OwesIn(<<Last1>>)
    BY <1>2, <2>1, Owe
  <2>6. [todo EXCEPT ![1] = Do("pick")] \in Plans(o)
    <3>1. [todo EXCEPT ![1] = Do("pick")] = <<Do("pick"), Last1>>
      BY <1>2, Two
    <3>2. Do("pick") \in Promoting
      BY DEF Promoting
    <3>3. <<Do("pick"), Last1>> \in Plans(o)
      BY <3>2 DEF Plans
    <3>. QED
      BY <3>1, <3>3
  <2>. QED
    BY <2>1, <2>2, <2>3, <2>4, <2>5, <2>6, LookingFits
<1>3. ASSUME todo = <<Do("pick"), Last1>>
      PROVE  Fits(o, todo)
  <2>1. Do("pick").do = "pick" /\ Do("pick").team \in Teams /\ Last1.do = "invalidate"
    BY <1>3, Said
  <2>2. /\ Head(todo) = Do("pick") /\ Tail(todo) = <<Last1>> /\ Len(todo) /= 1
        /\ <<Last1>> /= <<>> /\ Head(<<Last1>>) = Last1 /\ todo[2] = Last1
    BY <1>3, Two
  <2>3. <<Last1>> \in Plans(o)
    BY <1>3 DEF Plans, Promoting
  <2>4. NextDo(o, "pick", "invalidate")
    BY DEF NextDo
  <2>5. OwesIn(todo) /\ OwesIn(<<Last1>>)
    BY <1>3, <2>1, Owe
  <2>6. \A t \in Teams : [todo EXCEPT ![1] = Mark(t)] \in Plans(o)
    <3>1. SUFFICES ASSUME NEW t \in Teams
                   PROVE  <<Mark(t), Last1>> \in Plans(o)
      BY <1>3, Two
    <3>. QED
      BY DEF Plans, Promoting
  <2>. QED
    BY <2>1, <2>2, <2>3, <2>4, <2>5, <2>6, LookingFits
<1>4. ASSUME NEW t \in Teams, todo = <<Mark(t), Last1>>
      PROVE  Fits(o, todo)
  <2>1. Mark(t).do = "set" /\ Mark(t).team \in Teams /\ Last1.do = "invalidate"
    BY <1>4, Said
  <2>2. /\ Head(todo) = Mark(t) /\ Tail(todo) = <<Last1>> /\ Len(todo) /= 1
        /\ <<Last1>> /= <<>> /\ Head(<<Last1>>) = Last1 /\ todo[2] = Last1
    BY <1>4, Two
  <2>3. <<Last1>> \in Plans(o)
    BY <1>4 DEF Plans, Promoting
  <2>4. NextDo(o, "set", "invalidate")
    BY DEF NextDo
  <2>5. OwesIn(todo) /\ OwesIn(<<Last1>>)
    BY <1>4, <2>1, Owe
  <2>. QED
    BY <2>1, <2>2, <2>3, <2>4, <2>5, PlainFits
<1>5. ASSUME todo = <<Last1>>
      PROVE  Fits(o, todo)
  <2>1. Last1.do = "invalidate" /\ Last1.team \in Teams
    BY <1>5, Said
  <2>2. Head(todo) = Last1 /\ Tail(todo) = <<>> /\ Len(todo) = 1
    BY <1>5, One
  <2>3. LastDo(o, "invalidate")
    BY DEF LastDo, Writers
  <2>4. OwesIn(todo)
    BY <1>5, <2>1, Owe
  <2>. QED
    BY <2>1, <2>2, <2>3, <2>4, LastFits
<1>. QED
  BY <1>1, <1>2, <1>3, <1>4, <1>5 DEF Plans, Promoting

\* The plans of bulk_remove_members.
LEMMA BulkFits ==
  ASSUME NEW todo \in Plans("bulk")
  PROVE  Fits("bulk", todo)
<1>1. ASSUME NEW s \in Some("delete", {FALSE}), todo = <<s, Last1>>
      PROVE  Fits("bulk", todo)
  <2>1. s.do = "delete" /\ s.team \in Teams /\ Last1.do = "invalidate"
    BY <1>1, Said
  <2>2. /\ Head(todo) = s /\ Tail(todo) = <<Last1>> /\ Len(todo) /= 1
        /\ <<Last1>> /= <<>> /\ Head(<<Last1>>) = Last1 /\ todo[2] = Last1
    BY <1>1, Two
  <2>3. <<Last1>> \in Plans("bulk")
    BY <1>1 DEF Plans
  <2>4. NextDo("bulk", "delete", "invalidate")
    BY DEF NextDo
  <2>5. OwesIn(todo) /\ OwesIn(<<Last1>>)
    BY <1>1, <2>1, Owe
  <2>. QED
    BY <2>1, <2>2, <2>3, <2>4, <2>5, PlainFits
<1>2. ASSUME todo = <<Last1>>
      PROVE  Fits("bulk", todo)
  <2>1. Last1.do = "invalidate" /\ Last1.team \in Teams
    BY <1>2, Said
  <2>2. Head(todo) = Last1 /\ Tail(todo) = <<>> /\ Len(todo) = 1
    BY <1>2, One
  <2>3. LastDo("bulk", "invalidate")
    BY DEF LastDo, Writers
  <2>4. OwesIn(todo)
    BY <1>2, <2>1, Owe
  <2>. QED
    BY <2>1, <2>2, <2>3, <2>4, LastFits
<1>. QED
  BY <1>1, <1>2 DEF Plans

\* The plans of update_membership_role and set_primary_team.
LEMMA RoleFits ==
  ASSUME NEW o \in {"role", "primary"}, NEW todo \in Plans(o)
  PROVE  Fits(o, todo)
<1>1. ASSUME NEW t \in Teams, todo = <<Do("clear"), Mark(t), Last1>>
      PROVE  Fits(o, todo)
  <2>1. Do("clear").do = "clear" /\ Do("clear").team \in Teams /\ Mark(t).do = "set"
        /\ Last1.do = "invalidate"
    BY <1>1, Said
  <2>2. /\ Head(todo) = Do("clear") /\ Tail(todo) = <<Mark(t), Last1>> /\ Len(todo) /= 1
        /\ <<Mark(t), Last1>> /= <<>> /\ Head(<<Mark(t), Last1>>) = Mark(t) /\ todo[2] = Mark(t)
    BY <1>1, Three
  <2>3. <<Mark(t), Last1>> \in Plans(o)
    BY <1>1, Marks DEF Plans
  <2>4. NextDo(o, "clear", "set")
    BY DEF NextDo
  <2>5. OwesIn(todo) /\ OwesIn(<<Mark(t), Last1>>)
    BY <1>1, <2>1, Owe
  <2>. QED
    BY <2>1, <2>2, <2>3, <2>4, <2>5, PlainFits
<1>2. ASSUME NEW s \in Some("set", BOOLEAN), todo = <<s, Last1>>
      PROVE  Fits(o, todo)
  <2>1. s.do = "set" /\ s.team \in Teams /\ Last1.do = "invalidate"
    BY <1>2, Said
  <2>2. /\ Head(todo) = s /\ Tail(todo) = <<Last1>> /\ Len(todo) /= 1
        /\ <<Last1>> /= <<>> /\ Head(<<Last1>>) = Last1 /\ todo[2] = Last1
    BY <1>2, Two
  <2>3. <<Last1>> \in Plans(o)
    BY <1>2 DEF Plans
  <2>4. NextDo(o, "set", "invalidate")
    BY DEF NextDo
  <2>5. OwesIn(todo) /\ OwesIn(<<Last1>>)
    BY <1>2, <2>1, Owe
  <2>. QED
    BY <2>1, <2>2, <2>3, <2>4, <2>5, PlainFits
<1>3. ASSUME todo = <<Last1>>
      PROVE  Fits(o, todo)
  <2>1. Last1.do = "invalidate" /\ Last1.team \in Teams
    BY <1>3, Said
  <2>2. Head(todo) = Last1 /\ Tail(todo) = <<>> /\ Len(todo) = 1
    BY <1>3, One
  <2>3. LastDo(o, "invalidate")
    BY DEF LastDo, Writers
  <2>4. OwesIn(todo)
    BY <1>3, <2>1, Owe
  <2>. QED
    BY <2>1, <2>2, <2>3, <2>4, LastFits
<1>. QED
  BY <1>1, <1>2, <1>3 DEF Plans

\* The plans of transfer_agents.
LEMMA TransferFits ==
  ASSUME NEW todo \in Plans("transfer")
  PROVE  Fits("transfer", todo)
<1>1. ASSUME NEW s \in Some("delete", {FALSE}), NEW u \in Some("upsert", BOOLEAN),
             todo = <<s, u, Last1>>
      PROVE  Fits("transfer", todo)
  <2>1. s.do = "delete" /\ s.team \in Teams /\ u.do = "upsert" /\ Last1.do = "invalidate"
    BY <1>1, Said
  <2>2. /\ Head(todo) = s /\ Tail(todo) = <<u, Last1>> /\ Len(todo) /= 1
        /\ <<u, Last1>> /= <<>> /\ Head(<<u, Last1>>) = u /\ todo[2] = u
    BY <1>1, Three
  <2>3. <<u, Last1>> \in Plans("transfer")
    BY <1>1, Flags DEF Plans
  <2>4. NextDo("transfer", "delete", "upsert")
    BY DEF NextDo
  <2>5. OwesIn(todo) /\ OwesIn(<<u, Last1>>)
    BY <1>1, <2>1, Owe
  <2>. QED
    BY <2>1, <2>2, <2>3, <2>4, <2>5, PlainFits
<1>2. ASSUME NEW u \in Some("upsert", BOOLEAN), todo = <<u, Last1>>
      PROVE  Fits("transfer", todo)
  <2>1. u.do = "upsert" /\ u.team \in Teams /\ Last1.do = "invalidate"
    BY <1>2, Said
  <2>2. /\ Head(todo) = u /\ Tail(todo) = <<Last1>> /\ Len(todo) /= 1
        /\ <<Last1>> /= <<>> /\ Head(<<Last1>>) = Last1 /\ todo[2] = Last1
    BY <1>2, Two
  <2>3. <<Last1>> \in Plans("transfer")
    BY <1>2 DEF Plans
  <2>4. NextDo("transfer", "upsert", "invalidate")
    BY DEF NextDo
  <2>5. OwesIn(todo) /\ OwesIn(<<Last1>>)
    BY <1>2, <2>1, Owe
  <2>. QED
    BY <2>1, <2>2, <2>3, <2>4, <2>5, PlainFits
<1>3. ASSUME todo = <<Last1>>
      PROVE  Fits("transfer", todo)
  <2>1. Last1.do = "invalidate" /\ Last1.team \in Teams
    BY <1>3, Said
  <2>2. Head(todo) = Last1 /\ Tail(todo) = <<>> /\ Len(todo) = 1
    BY <1>3, One
  <2>3. LastDo("transfer", "invalidate")
    BY DEF LastDo, Writers
  <2>4. OwesIn(todo)
    BY <1>3, <2>1, Owe
  <2>. QED
    BY <2>1, <2>2, <2>3, <2>4, LastFits
<1>. QED
  BY <1>1, <1>2, <1>3 DEF Plans

\* The plans of replace_memberships.
LEMMA ReplaceFits ==
  ASSUME NEW todo \in Plans("replace")
  PROVE  Fits("replace", todo)
<1>1. ASSUME NEW s \in Some("insert", {TRUE}), todo = <<Do("wipe"), s, Last1>>
      PROVE  Fits("replace", todo)
  <2>1. Do("wipe").do = "wipe" /\ Do("wipe").team \in Teams /\ s.do = "insert"
        /\ Last1.do = "invalidate"
    BY <1>1, Said
  <2>2. /\ Head(todo) = Do("wipe") /\ Tail(todo) = <<s, Last1>> /\ Len(todo) /= 1
        /\ <<s, Last1>> /= <<>> /\ Head(<<s, Last1>>) = s /\ todo[2] = s
    BY <1>1, Three
  <2>3. <<s, Last1>> \in Plans("replace")
    BY <1>1, Flags DEF Plans
  <2>4. NextDo("replace", "wipe", "insert")
    BY DEF NextDo
  <2>5. OwesIn(todo) /\ OwesIn(<<s, Last1>>)
    BY <1>1, <2>1, Owe
  <2>. QED
    BY <2>1, <2>2, <2>3, <2>4, <2>5, PlainFits
<1>2. ASSUME NEW s \in Some("insert", {TRUE}), todo = <<s, Last1>>
      PROVE  Fits("replace", todo)
  <2>1. s.do = "insert" /\ s.team \in Teams /\ Last1.do = "invalidate"
    BY <1>2, Said
  <2>2. /\ Head(todo) = s /\ Tail(todo) = <<Last1>> /\ Len(todo) /= 1
        /\ <<Last1>> /= <<>> /\ Head(<<Last1>>) = Last1 /\ todo[2] = Last1
    BY <1>2, Two
  <2>3. <<Last1>> \in Plans("replace")
    BY <1>2, Flags DEF Plans
  <2>4. NextDo("replace", "insert", "invalidate")
    BY DEF NextDo
  <2>5. OwesIn(todo) /\ OwesIn(<<Last1>>)
    BY <1>2, <2>1, Owe
  <2>. QED
    BY <2>1, <2>2, <2>3, <2>4, <2>5, PlainFits
<1>3. ASSUME todo = <<Last1>>
      PROVE  Fits("replace", todo)
  <2>1. Last1.do = "invalidate" /\ Last1.team \in Teams
    BY <1>3, Said
  <2>2. Head(todo) = Last1 /\ Tail(todo) = <<>> /\ Len(todo) = 1
    BY <1>3, One
  <2>3. LastDo("replace", "invalidate")
    BY DEF LastDo, Writers
  <2>4. OwesIn(todo)
    BY <1>3, <2>1, Owe
  <2>. QED
    BY <2>1, <2>2, <2>3, <2>4, LastFits
<1>. QED
  BY <1>1, <1>2, <1>3 DEF Plans

\* The plans of delete_team.
LEMMA DropFits ==
  ASSUME NEW todo \in Plans("drop")
  PROVE  Fits("drop", todo)
<1>1. ASSUME NEW s \in Some("retire", {FALSE}), NEW u \in Some("expel", {FALSE}), todo = <<s, u>>
      PROVE  Fits("drop", todo)
  <2>1. s.do = "retire" /\ s.team \in Teams /\ u.do = "expel"
    BY <1>1, Said
  <2>2. /\ Head(todo) = s /\ Tail(todo) = <<u>> /\ Len(todo) /= 1
        /\ <<u>> /= <<>> /\ Head(<<u>>) = u /\ todo[2] = u
    BY <1>1, Two
  <2>3. <<u>> \in Plans("drop")
    BY <1>1, Flags DEF Plans
  <2>4. NextDo("drop", "retire", "expel")
    BY DEF NextDo
  <2>5. ~OwesIn(todo)
    BY <1>1, <2>1, OweNot
  <2>. QED
    BY <2>1, <2>2, <2>3, <2>4, <2>5, PlainFits
<1>2. ASSUME NEW u \in Some("expel", {FALSE}), todo = <<u>>
      PROVE  Fits("drop", todo)
  <2>1. u.do = "expel" /\ u.team \in Teams
    BY <1>2, Said
  <2>2. Head(todo) = u /\ Tail(todo) = <<>> /\ Len(todo) = 1
    BY <1>2, One
  <2>3. LastDo("drop", "expel")
    BY DEF LastDo, Writers
  <2>4. ~OwesIn(todo)
    BY <1>2, <2>1, OweNot
  <2>. QED
    BY <2>1, <2>2, <2>3, <2>4, LastFits
<1>. QED
  BY <1>1, <1>2 DEF Plans

\* The plans of a reinstated membership.
LEMMA ReinstateFits ==
  ASSUME NEW todo \in Plans("reinstate")
  PROVE  Fits("reinstate", todo)
<1>1. ASSUME NEW s \in Some("restore", BOOLEAN), todo = <<s, Last1>>
      PROVE  Fits("reinstate", todo)
  <2>1. s.do = "restore" /\ s.team \in Teams /\ Last1.do = "invalidate"
    BY <1>1, Said
  <2>2. /\ Head(todo) = s /\ Tail(todo) = <<Last1>> /\ Len(todo) /= 1
        /\ <<Last1>> /= <<>> /\ Head(<<Last1>>) = Last1 /\ todo[2] = Last1
    BY <1>1, Two
  <2>3. <<Last1>> \in Plans("reinstate")
    BY <1>1 DEF Plans
  <2>4. NextDo("reinstate", "restore", "invalidate")
    BY DEF NextDo
  <2>5. OwesIn(todo) /\ OwesIn(<<Last1>>)
    BY <1>1, <2>1, Owe
  <2>. QED
    BY <2>1, <2>2, <2>3, <2>4, <2>5, PlainFits
<1>2. ASSUME NEW s \in Some("reinsert", BOOLEAN), todo = <<s, Last1>>
      PROVE  Fits("reinstate", todo)
  <2>1. s.do = "reinsert" /\ s.team \in Teams /\ Last1.do = "invalidate"
    BY <1>2, Said
  <2>2. /\ Head(todo) = s /\ Tail(todo) = <<Last1>> /\ Len(todo) /= 1
        /\ <<Last1>> /= <<>> /\ Head(<<Last1>>) = Last1 /\ todo[2] = Last1
    BY <1>2, Two
  <2>3. <<Last1>> \in Plans("reinstate")
    BY <1>2 DEF Plans
  <2>4. NextDo("reinstate", "reinsert", "invalidate")
    BY DEF NextDo
  <2>5. OwesIn(todo) /\ OwesIn(<<Last1>>)
    BY <1>2, <2>1, Owe
  <2>. QED
    BY <2>1, <2>2, <2>3, <2>4, <2>5, PlainFits
<1>3. ASSUME todo = <<Last1>>
      PROVE  Fits("reinstate", todo)
  <2>1. Last1.do = "invalidate" /\ Last1.team \in Teams
    BY <1>3, Said
  <2>2. Head(todo) = Last1 /\ Tail(todo) = <<>> /\ Len(todo) = 1
    BY <1>3, One
  <2>3. LastDo("reinstate", "invalidate")
    BY DEF LastDo, Writers
  <2>4. OwesIn(todo)
    BY <1>3, <2>1, Owe
  <2>. QED
    BY <2>1, <2>2, <2>3, <2>4, LastFits
<1>. QED
  BY <1>1, <1>2, <1>3 DEF Plans

\* The plans of batch_edit_members.
LEMMA EditFits ==
  ASSUME NEW todo \in Plans("edit")
  PROVE  Fits("edit", todo)
<1>1. ASSUME NEW s \in Some("ignore", {FALSE}), NEW u \in Some("delete", {FALSE}),
             todo = <<s, u, Do("find"), Last1, Do("token")>>
      PROVE  Fits("edit", todo)
  <2>1. s.do = "ignore" /\ s.team \in Teams /\ u.do = "delete" /\ Last1.do = "invalidate"
    BY <1>1, Said
  <2>2. /\ Head(todo) = s /\ Tail(todo) = <<u, Do("find"), Last1, Do("token")>> /\ Len(todo) /= 1
        /\ <<u, Do("find"), Last1, Do("token")>> /= <<>>
        /\ Head(<<u, Do("find"), Last1, Do("token")>>) = u /\ todo[2] = u
    BY <1>1, Five
  <2>3. <<u, Do("find"), Last1, Do("token")>> \in Plans("edit")
    BY <1>1, Flags DEF Plans, Promoting
  <2>4. NextDo("edit", "ignore", "delete")
    BY DEF NextDo
  <2>5. OwesIn(todo) /\ OwesIn(<<u, Do("find"), Last1, Do("token")>>)
    BY <1>1, <2>1, Owe
  <2>. QED
    BY <2>1, <2>2, <2>3, <2>4, <2>5, PlainFits
<1>2. ASSUME NEW s \in Some("ignore", {FALSE}), todo = <<s, Do("find"), Last1, Do("token")>>
      PROVE  Fits("edit", todo)
  <2>1. s.do = "ignore" /\ s.team \in Teams /\ Do("find").do = "find" /\ Last1.do = "invalidate"
    BY <1>2, Said
  <2>2. /\ Head(todo) = s /\ Tail(todo) = <<Do("find"), Last1, Do("token")>> /\ Len(todo) /= 1
        /\ <<Do("find"), Last1, Do("token")>> /= <<>>
        /\ Head(<<Do("find"), Last1, Do("token")>>) = Do("find") /\ todo[2] = Do("find")
    BY <1>2, Four
  <2>3. <<Do("find"), Last1, Do("token")>> \in Plans("edit")
    BY <1>2, Flags DEF Plans, Promoting
  <2>4. NextDo("edit", "ignore", "find")
    BY DEF NextDo
  <2>5. OwesIn(todo) /\ OwesIn(<<Do("find"), Last1, Do("token")>>)
    BY <1>2, <2>1, Owe
  <2>. QED
    BY <2>1, <2>2, <2>3, <2>4, <2>5, PlainFits
<1>3. ASSUME NEW s \in Some("delete", {FALSE}), todo = <<s, Do("find"), Last1, Do("token")>>
      PROVE  Fits("edit", todo)
  <2>1. s.do = "delete" /\ s.team \in Teams /\ Do("find").do = "find" /\ Last1.do = "invalidate"
    BY <1>3, Said
  <2>2. /\ Head(todo) = s /\ Tail(todo) = <<Do("find"), Last1, Do("token")>> /\ Len(todo) /= 1
        /\ <<Do("find"), Last1, Do("token")>> /= <<>>
        /\ Head(<<Do("find"), Last1, Do("token")>>) = Do("find") /\ todo[2] = Do("find")
    BY <1>3, Four
  <2>3. <<Do("find"), Last1, Do("token")>> \in Plans("edit")
    BY <1>3, Flags DEF Plans, Promoting
  <2>4. NextDo("edit", "delete", "find")
    BY DEF NextDo
  <2>5. OwesIn(todo) /\ OwesIn(<<Do("find"), Last1, Do("token")>>)
    BY <1>3, <2>1, Owe
  <2>. QED
    BY <2>1, <2>2, <2>3, <2>4, <2>5, PlainFits
<1>4. ASSUME todo = <<Do("find"), Last1, Do("token")>>
      PROVE  Fits("edit", todo)
  <2>1. Do("find").do = "find" /\ Do("find").team \in Teams /\ Last1.do = "invalidate"
    BY <1>4, Said
  <2>2. /\ Head(todo) = Do("find") /\ Tail(todo) = <<Last1, Do("token")>> /\ Len(todo) /= 1
        /\ <<Last1, Do("token")>> /= <<>> /\ Head(<<Last1, Do("token")>>) = Last1
        /\ todo[2] = Last1
    BY <1>4, Three
  <2>3. <<Last1, Do("token")>> \in Plans("edit")
    BY <1>4 DEF Plans, Promoting
  <2>4. NextDo("edit", "find", "invalidate")
    BY DEF NextDo
  <2>5. OwesIn(todo) /\ OwesIn(<<Last1, Do("token")>>)
    BY <1>4, <2>1, Owe
  <2>6. [todo EXCEPT ![1] = Do("pick")] \in Plans("edit")
    <3>1. [todo EXCEPT ![1] = Do("pick")] = <<Do("pick"), Last1, Do("token")>>
      BY <1>4, Three
    <3>. QED
      BY <3>1 DEF Plans, Promoting
  <2>. QED
    BY <2>1, <2>2, <2>3, <2>4, <2>5, <2>6, LookingFits
<1>5. ASSUME todo = <<Do("pick"), Last1, Do("token")>>
      PROVE  Fits("edit", todo)
  <2>1. Do("pick").do = "pick" /\ Do("pick").team \in Teams /\ Last1.do = "invalidate"
    BY <1>5, Said
  <2>2. /\ Head(todo) = Do("pick") /\ Tail(todo) = <<Last1, Do("token")>> /\ Len(todo) /= 1
        /\ <<Last1, Do("token")>> /= <<>> /\ Head(<<Last1, Do("token")>>) = Last1
        /\ todo[2] = Last1
    BY <1>5, Three
  <2>3. <<Last1, Do("token")>> \in Plans("edit")
    BY <1>5 DEF Plans, Promoting
  <2>4. NextDo("edit", "pick", "invalidate")
    BY DEF NextDo
  <2>5. OwesIn(todo) /\ OwesIn(<<Last1, Do("token")>>)
    BY <1>5, <2>1, Owe
  <2>6. \A t \in Teams : [todo EXCEPT ![1] = Mark(t)] \in Plans("edit")
    <3>1. SUFFICES ASSUME NEW t \in Teams
                   PROVE  <<Mark(t), Last1, Do("token")>> \in Plans("edit")
      BY <1>5, Three
    <3>. QED
      BY DEF Plans, Promoting
  <2>. QED
    BY <2>1, <2>2, <2>3, <2>4, <2>5, <2>6, LookingFits
<1>6. ASSUME NEW t \in Teams, todo = <<Mark(t), Last1, Do("token")>>
      PROVE  Fits("edit", todo)
  <2>1. Mark(t).do = "set" /\ Mark(t).team \in Teams /\ Last1.do = "invalidate"
    BY <1>6, Said
  <2>2. /\ Head(todo) = Mark(t) /\ Tail(todo) = <<Last1, Do("token")>> /\ Len(todo) /= 1
        /\ <<Last1, Do("token")>> /= <<>> /\ Head(<<Last1, Do("token")>>) = Last1
        /\ todo[2] = Last1
    BY <1>6, Three
  <2>3. <<Last1, Do("token")>> \in Plans("edit")
    BY <1>6 DEF Plans, Promoting
  <2>4. NextDo("edit", "set", "invalidate")
    BY DEF NextDo
  <2>5. OwesIn(todo) /\ OwesIn(<<Last1, Do("token")>>)
    BY <1>6, <2>1, Owe
  <2>. QED
    BY <2>1, <2>2, <2>3, <2>4, <2>5, PlainFits
<1>7. ASSUME todo = <<Last1, Do("token")>>
      PROVE  Fits("edit", todo)
  <2>1. Last1.do = "invalidate" /\ Last1.team \in Teams /\ Do("token").do = "token"
    BY <1>7, Said
  <2>2. /\ Head(todo) = Last1 /\ Tail(todo) = <<Do("token")>> /\ Len(todo) /= 1
        /\ <<Do("token")>> /= <<>> /\ Head(<<Do("token")>>) = Do("token") /\ todo[2] = Do("token")
    BY <1>7, Two
  <2>3. <<Do("token")>> \in Plans("edit")
    BY <1>7 DEF Plans, Promoting
  <2>4. NextDo("edit", "invalidate", "token")
    BY DEF NextDo
  <2>5. OwesIn(todo)
    BY <1>7, <2>1, Owe
  <2>. QED
    BY <2>1, <2>2, <2>3, <2>4, <2>5, PlainFits
<1>8. ASSUME todo = <<Do("token")>>
      PROVE  Fits("edit", todo)
  <2>1. Do("token").do = "token" /\ Do("token").team \in Teams
    BY <1>8, Said
  <2>2. Head(todo) = Do("token") /\ Tail(todo) = <<>> /\ Len(todo) = 1
    BY <1>8, One
  <2>3. LastDo("edit", "token")
    BY DEF LastDo, Writers
  <2>4. ~OwesIn(todo)
    BY <1>8, <2>1, OweNot
  <2>. QED
    BY <2>1, <2>2, <2>3, <2>4, LastFits
<1>. QED
  BY <1>1, <1>2, <1>3, <1>4, <1>5, <1>6, <1>7, <1>8 DEF Plans, Promoting

\* The plans of undo_batch_edit.
LEMMA UndoFits ==
  ASSUME NEW todo \in Plans("undo")
  PROVE  Fits("undo", todo)
<1>1. ASSUME todo = <<Do("wipe"), Do("refill"), Last1>>
      PROVE  Fits("undo", todo)
  <2>1. Do("wipe").do = "wipe" /\ Do("wipe").team \in Teams /\ Do("refill").do = "refill"
        /\ Last1.do = "invalidate"
    BY <1>1, Said
  <2>2. /\ Head(todo) = Do("wipe") /\ Tail(todo) = <<Do("refill"), Last1>> /\ Len(todo) /= 1
        /\ <<Do("refill"), Last1>> /= <<>> /\ Head(<<Do("refill"), Last1>>) = Do("refill")
        /\ todo[2] = Do("refill")
    BY <1>1, Three
  <2>3. <<Do("refill"), Last1>> \in Plans("undo")
    BY <1>1 DEF Plans
  <2>4. NextDo("undo", "wipe", "refill")
    BY DEF NextDo
  <2>5. OwesIn(todo) /\ OwesIn(<<Do("refill"), Last1>>)
    BY <1>1, <2>1, Owe
  <2>. QED
    BY <2>1, <2>2, <2>3, <2>4, <2>5, PlainFits
<1>2. ASSUME todo = <<Do("refill"), Last1>>
      PROVE  Fits("undo", todo)
  <2>1. Do("refill").do = "refill" /\ Do("refill").team \in Teams /\ Last1.do = "invalidate"
    BY <1>2, Said
  <2>2. /\ Head(todo) = Do("refill") /\ Tail(todo) = <<Last1>> /\ Len(todo) /= 1
        /\ <<Last1>> /= <<>> /\ Head(<<Last1>>) = Last1 /\ todo[2] = Last1
    BY <1>2, Two
  <2>3. <<Last1>> \in Plans("undo")
    BY <1>2 DEF Plans
  <2>4. NextDo("undo", "refill", "invalidate")
    BY DEF NextDo
  <2>5. OwesIn(todo) /\ OwesIn(<<Last1>>)
    BY <1>2, <2>1, Owe
  <2>. QED
    BY <2>1, <2>2, <2>3, <2>4, <2>5, PlainFits
<1>3. ASSUME todo = <<Last1>>
      PROVE  Fits("undo", todo)
  <2>1. Last1.do = "invalidate" /\ Last1.team \in Teams
    BY <1>3, Said
  <2>2. Head(todo) = Last1 /\ Tail(todo) = <<>> /\ Len(todo) = 1
    BY <1>3, One
  <2>3. LastDo("undo", "invalidate")
    BY DEF LastDo, Writers
  <2>4. OwesIn(todo)
    BY <1>3, <2>1, Owe
  <2>. QED
    BY <2>1, <2>2, <2>3, <2>4, LastFits
<1>. QED
  BY <1>1, <1>2, <1>3 DEF Plans

\* What a plan says, for a call of any kind but a free one.
LEMMA PlanFits ==
  ASSUME NEW o \in Ops, o /= "free", NEW todo \in Plans(o)
  PROVE  Fits(o, todo)
BY RequestFits, JoinFits, AddFits, LeaveFits, BulkFits, RoleFits, TransferFits,
   ReplaceFits, DropFits, ReinstateFits, EditFits, UndoFits DEF Ops, Writers

\* No call but a free one has nothing left to do.
LEMMA PlansLast ==
  ASSUME NEW o \in Ops, o /= "free"
  PROVE  <<>> \notin Plans(o)
<1>1. \A a, b, c, d, e : /\ <<>> /= <<a>> /\ <<>> /= <<a, b>> /\ <<>> /= <<a, b, c>>
                         /\ <<>> /= <<a, b, c, d>> /\ <<>> /= <<a, b, c, d, e>>
  OBVIOUS
<1>. QED
  BY <1>1 DEF Plans, Ops, Writers

\* A free call is one.
LEMMA FreeIsACall == Free \in Calls /\ Plans("free") = {<<>>}
<1>1. Nothing \in Snapshots
  BY DEF Nothing, Snapshots
<1>2. Plans("free") = {<<>>}
  BY DEF Plans
<1>3. Free \in CallRows
  BY <1>1, <1>2 DEF Free, CallRows, Ops
<1>. QED
  BY <1>2, <1>3 DEF Free, Calls

\* A free call has nothing left to do, and only it.
LEMMA CallFacts ==
  ASSUME MemberTypeOK, NEW h \in Handlers
  PROVE  /\ call[h] \in Calls /\ call[h].op \in Ops /\ call[h].todo \in Plans(call[h].op)
         /\ call[h].seen \in Snapshots
         /\ call[h].op = "free" <=> call[h].todo = <<>>
         /\ call[h].op /= "free" => Fits(call[h].op, call[h].todo)
         /\ h \in Writing <=> call[h].op \in Writers
         /\ Owes(h) <=> OwesIn(call[h].todo)
<1>1. call[h] \in Calls /\ call[h] \in CallRows
  BY DEF MemberTypeOK, Calls
<1>2. call[h].op \in Ops /\ call[h].todo \in Plans(call[h].op) /\ call[h].seen \in Snapshots
  BY <1>1 DEF Calls, CallRows
<1>3. call[h].op = "free" <=> call[h].todo = <<>>
  BY <1>2, PlansLast, FreeIsACall
<1>4. call[h].op /= "free" => Fits(call[h].op, call[h].todo)
  BY <1>2, PlanFits
<1>5. h \in Writing <=> call[h].op \in Writers
  BY <1>2 DEF Writing, Ops, Writers
<1>. QED
  BY <1>1, <1>2, <1>3, <1>4, <1>5 DEF Owes, OwesIn

\* Call k is left as it is, or told that what it has read is late.
Untouched(k) ==
  /\ call'[k].op = call[k].op /\ call'[k].todo = call[k].todo
  /\ call'[k].seen = call[k].seen /\ (call'[k].alone <=> call[k].alone)
\* Nothing happens to the others.
OthersUntouched(h) == \A k \in Handlers \ {h} : Untouched(k) /\ (call'[k].late <=> call[k].late)
\* Who reads is told that it is late.
OthersLate(h) ==
  \A k \in Handlers \ {h} : Untouched(k) /\ (call'[k].late <=> call[k].op = "request")

\* A call goes on to its next statement, or is over.
GoesOn(h) ==
  /\ call'[h].op = call[h].op /\ call'[h].seen = call[h].seen
  /\ (call'[h].alone <=> call[h].alone) /\ (call'[h].late <=> call[h].late)

\* Other statements of the same kind may be left.
LEMMA TodoSet ==
  ASSUME MemberTypeOK, NEW h \in Handlers, NEW todo \in Plans(call[h].op)
  PROVE  [call[h] EXCEPT !.todo = todo] \in Calls
<1>1. PICK c : c = call[h]
  OBVIOUS
<1>2. c \in CallRows /\ todo \in Plans(c.op)
  BY <1>1, CallFacts DEF Calls
<1>3. [c EXCEPT !.todo = todo] \in CallRows
  BY <1>2 DEF CallRows
<1>4. [c EXCEPT !.todo = todo].op = c.op /\ [c EXCEPT !.todo = todo].todo = todo
  BY <1>2 DEF CallRows
<1>. QED
  BY <1>1, <1>2, <1>3, <1>4 DEF Calls

\* What it is to advance.
LEMMA Advances ==
  ASSUME MemberTypeOK, NEW h \in Handlers, call[h].op /= "free", Advance(h)
  PROVE  /\ call' \in [Handlers -> Calls] /\ OthersUntouched(h)
         /\ Tail(call[h].todo) = <<>> => call'[h] = Free
         /\ Tail(call[h].todo) /= <<>> => GoesOn(h) /\ call'[h].todo = Tail(call[h].todo)
<1>1. call \in [Handlers -> Calls]
  BY DEF MemberTypeOK
<1>2. CASE Tail(call[h].todo) = <<>>
  <2>1. call' = [call EXCEPT ![h] = Free]
    BY <1>2 DEF Advance
  <2>. QED
    BY <1>1, <1>2, <2>1, FreeIsACall DEF OthersUntouched, Untouched
<1>3. CASE Tail(call[h].todo) /= <<>>
  <2>1. Tail(call[h].todo) \in Plans(call[h].op)
    BY <1>3, CallFacts DEF Fits
  <2>2. PICK c : c = [call[h] EXCEPT !.todo = Tail(call[h].todo)]
    OBVIOUS
  <2>3. c \in Calls
    BY <2>1, <2>2, TodoSet
  <2>4. call' = [call EXCEPT ![h] = c]
    BY <1>3, <2>2 DEF Advance
  <2>5. call' \in [Handlers -> Calls] /\ call'[h] = c /\ OthersUntouched(h)
    BY <1>1, <2>3, <2>4 DEF OthersUntouched, Untouched
  <2>6. call[h] \in CallRows
    BY CallFacts DEF Calls
  <2>7. /\ c.op = call[h].op /\ c.seen = call[h].seen /\ (c.alone <=> call[h].alone)
        /\ (c.late <=> call[h].late) /\ c.todo = Tail(call[h].todo)
    BY <2>2, <2>6 DEF CallRows
  <2>. QED
    BY <1>3, <2>5, <2>7 DEF GoesOn
<1>. QED
  BY <1>2, <1>3

\* What it is to put another statement in the place of the next.
LEMMA Replaces ==
  ASSUME MemberTypeOK, NEW h \in Handlers, call[h].op /= "free", NEW s, Instead(h, s),
         [call[h].todo EXCEPT ![1] = s] \in Plans(call[h].op)
  PROVE  /\ call' \in [Handlers -> Calls] /\ OthersUntouched(h)
         /\ GoesOn(h) /\ call'[h].todo = [call[h].todo EXCEPT ![1] = s]
<1>1. call \in [Handlers -> Calls] /\ call[h] \in CallRows
  BY CallFacts DEF MemberTypeOK, Calls
<1>2. PICK t : t = [call[h].todo EXCEPT ![1] = s]
  OBVIOUS
<1>3. PICK c : c = [call[h] EXCEPT !.todo = t]
  OBVIOUS
<1>4. c \in Calls
  BY <1>2, <1>3, TodoSet
<1>5. call' = [call EXCEPT ![h] = c]
  BY <1>1, <1>2, <1>3 DEF Instead, CallRows
<1>6. call' \in [Handlers -> Calls] /\ call'[h] = c /\ OthersUntouched(h)
  BY <1>1, <1>4, <1>5 DEF OthersUntouched, Untouched
<1>7. /\ c.op = call[h].op /\ c.seen = call[h].seen /\ (c.alone <=> call[h].alone)
      /\ (c.late <=> call[h].late) /\ c.todo = t
  BY <1>1, <1>3 DEF CallRows
<1>. QED
  BY <1>2, <1>6, <1>7 DEF GoesOn

\* Whoever reads is told that it is late.
LEMMA LateFacts ==
  ASSUME MemberTypeOK
  PROVE  /\ LateReaders \in [Handlers -> Calls]
         /\ \A k \in Handlers :
              /\ LateReaders[k].op = call[k].op /\ LateReaders[k].todo = call[k].todo
              /\ LateReaders[k].seen = call[k].seen /\ (LateReaders[k].alone <=> call[k].alone)
              /\ LateReaders[k].late <=> call[k].op = "request"
<1>1. ASSUME NEW k \in Handlers
      PROVE  /\ LateReaders[k] \in Calls
             /\ LateReaders[k].op = call[k].op /\ LateReaders[k].todo = call[k].todo
             /\ LateReaders[k].seen = call[k].seen /\ (LateReaders[k].alone <=> call[k].alone)
             /\ LateReaders[k].late <=> call[k].op = "request"
  <2>1. PICK l \in BOOLEAN : l <=> call[k].op = "request"
    OBVIOUS
  <2>2. PICK c : c = [call[k] EXCEPT !.late = l]
    OBVIOUS
  <2>3. call[k] \in CallRows /\ call[k].todo \in Plans(call[k].op)
    BY CallFacts DEF Calls
  <2>4. c \in CallRows /\ c.op = call[k].op /\ c.todo = call[k].todo /\ c.seen = call[k].seen
        /\ (c.alone <=> call[k].alone) /\ (c.late <=> l)
    BY <2>2, <2>3 DEF CallRows
  <2>5. LateReaders[k] = [call[k] EXCEPT !.late = (call[k].op = "request")]
    BY DEF LateReaders
  <2>6. LateReaders[k] = c
    BY <2>1, <2>2, <2>5
  <2>. QED
    BY <2>1, <2>3, <2>4, <2>6 DEF Calls
<1>. QED
  BY <1>1 DEF LateReaders

\* What it is to fail.
LEMMA CallFails ==
  ASSUME MemberTypeOK, NEW h \in Handlers, call' = [LateReaders EXCEPT ![h] = Free]
  PROVE  call' \in [Handlers -> Calls] /\ OthersLate(h) /\ call'[h] = Free
BY LateFacts, FreeIsACall DEF OthersLate, Untouched

\* A step keeps the types it has not touched.
LEMMA MemberTyped ==
  ASSUME MemberTypeOK, call' \in [Handlers -> Calls], UNCHANGED <<raced, token, removed, calls>>,
         cache' \in [held : BOOLEAN, teams : SUBSET Teams], stale' \in BOOLEAN,
         aborts' \in 0..MaxAborts, live' \subseteq Teams, memberOf' \subseteq Teams,
         primary' \subseteq memberOf'
  PROVE  MemberTypeOK'
<1>1. raced' \in BOOLEAN
  BY DEF MemberTypeOK
<1>2. token' \in [held : BOOLEAN, snap : Snapshots, clean : BOOLEAN, undos : 0..1,
           before : Snapshots]
      /\ removed' \subseteq [team : Teams, flag : BOOLEAN] /\ calls' \in 0..MaxCalls
  BY DEF MemberTypeOK
<1>. QED
  BY <1>1, <1>2 DEF MemberTypeOK

\* The types of the variables.
LEMMA MemberTypes ==
  ASSUME MemberTypeOK
  PROVE  /\ cache \in [held : BOOLEAN, teams : SUBSET Teams] /\ stale \in BOOLEAN
         /\ aborts \in 0..MaxAborts /\ live \subseteq Teams /\ memberOf \subseteq Teams
         /\ primary \subseteq memberOf /\ call \in [Handlers -> Calls]
         /\ token \in [held : BOOLEAN, snap : Snapshots, clean : BOOLEAN, undos : 0..1,
              before : Snapshots]
         /\ removed \subseteq [team : Teams, flag : BOOLEAN] /\ calls \in 0..MaxCalls
              /\ raced \in BOOLEAN
<1>1. cache \in [held : BOOLEAN, teams : SUBSET Teams] /\ stale \in BOOLEAN
  BY DEF MemberTypeOK
<1>2. aborts \in 0..MaxAborts /\ live \subseteq Teams /\ memberOf \subseteq Teams
      /\ calls \in 0..MaxCalls
  BY DEF MemberTypeOK
<1>3. primary \subseteq memberOf /\ call \in [Handlers -> Calls] /\ raced \in BOOLEAN
  BY DEF MemberTypeOK
<1>4. token \in [held : BOOLEAN, snap : Snapshots, clean : BOOLEAN, undos : 0..1,
           before : Snapshots]
         /\ removed \subseteq [team : Teams, flag : BOOLEAN]
  BY DEF MemberTypeOK
<1>. QED
  BY <1>1, <1>2, <1>3, <1>4

\* A set whose elements are all the same has one at most.
LEMMA OneIsOne ==
  ASSUME NEW x, AtMostOne(x)
  PROVE  ~(Cardinality(x) > 1)
<1>1. CASE x = {}
  BY <1>1, FS_EmptySet
<1>2. CASE x /= {}
  <2>1. PICK a : a \in x
    BY <1>2
  <2>2. x = {a}
    BY <2>1 DEF AtMostOne
  <2>. QED
    BY <2>2, FS_Singleton
<1>. QED
  BY <1>1, <1>2

\* What a free call holds.
LEMMA FreeFacts ==
  /\ Free.op = "free" /\ Free.todo = <<>> /\ Free.seen = Nothing
  /\ Nothing.of = {} /\ Nothing.first = {}
BY DEF Free, Nothing

\* A step of writer h leaves what is said of the others standing.
Moves(h) ==
  /\ call' \in [Handlers -> Calls]
  /\ OthersUntouched(h) \/ OthersLate(h)
  /\ GoesOn(h) \/ call'[h] = Free

\* Who writes after a step of one request.
LEMMA WritingStays ==
  ASSUME MemberTypeOK, MemberTypeOK', NEW h \in Handlers, Moves(h)
  PROVE  /\ \A k \in Handlers \ {h} : k \in Writing' <=> k \in Writing
         /\ h \in Writing' => h \in Writing
         /\ h \in Writing /\ GoesOn(h) => h \in Writing'
<1>1. \A k \in Handlers \ {h} : k \in Writing' <=> k \in Writing
  BY DEF Moves, OthersUntouched, OthersLate, Untouched, Writing
<1>2. GoesOn(h) => (h \in Writing' <=> h \in Writing)
  BY DEF GoesOn, Writing
<1>3. call'[h] = Free => h \notin Writing'
  BY FreeFacts DEF Writing
<1>. QED
  BY <1>1, <1>2, <1>3 DEF Moves

\* What is said of the others stands.
LEMMA OthersStand ==
  ASSUME MemberInv, MemberTypeOK', NEW h \in Handlers, h \in Writing, Moves(h), raced' = raced
  PROVE  /\ AloneIsSole'
         /\ \A k \in Handlers \ {h} : IsStaged(k)' /\ SnapshotIsBefore(k)'
         /\ \A k \in Handlers : call'[k].seen = call[k].seen \/ call'[k].seen = Nothing
<1>1. Writing' \subseteq Writing
  BY WritingStays DEF MemberInv, Writing
<1>2. \A k \in Handlers \ {h} : call'[k].op = call[k].op /\ (call'[k].alone <=> call[k].alone)
                                /\ call'[k].seen = call[k].seen
  BY DEF Moves, OthersUntouched, OthersLate, Untouched
<1>3. h \in Writing' => (call'[h].alone <=> call[h].alone)
  BY FreeFacts DEF Moves, GoesOn, Writing
<1>4. ASSUME NEW k \in Handlers \ {h}, k \in Writing PROVE ~call[k].alone
  BY <1>4 DEF MemberInv, AloneIsSole
<1>5. AloneIsSole'
  <2>1. SUFFICES ASSUME NEW k \in Writing'
                 PROVE  /\ call'[k].alone => Writing' = {k}
                        /\ ~raced' => call'[k].alone
    BY DEF AloneIsSole
  <2>2. k \in Writing /\ k \in Handlers /\ (call'[k].alone <=> call[k].alone)
    BY <1>1, <1>2, <1>3, <2>1 DEF Writing
  <2>3. call[k].alone => Writing' = {k}
    BY <1>1, <2>1, <2>2 DEF MemberInv, AloneIsSole
  <2>4. ~raced => call[k].alone
    BY <2>2 DEF MemberInv, AloneIsSole
  <2>. QED
    BY <2>2, <2>3, <2>4
<1>6. ASSUME NEW k \in Handlers \ {h}
      PROVE  IsStaged(k)' /\ SnapshotIsBefore(k)'
  <2>1. k \in Writing' => ~call'[k].alone
    BY <1>1, <1>2, <1>4, <1>6
  <2>2. k \notin Writing' => call'[k].op /= "edit" /\ call'[k].op /= "undo"
    BY DEF Writing
  <2>. QED
    BY <2>1, <2>2 DEF IsStaged, SnapshotIsBefore
<1>7. call'[h].seen = call[h].seen \/ call'[h].seen = Nothing
  BY FreeFacts DEF Moves, GoesOn
<1>. QED
  BY <1>2, <1>5, <1>6, <1>7

\* What a writer's step has to show of the rows and the token it leaves.
LEMMA RowsStand ==
  ASSUME MemberInv, MemberTypeOK', NEW h \in Handlers, h \in Writing, Moves(h), raced' = raced,
         ~raced => AtMostOne(primary') /\ AtMostOne(token'.snap.first), IsStaged(h)'
  PROVE  /\ AloneIsSole' /\ OneEach' /\ OnePrimaryWithoutRace'
         /\ \A k \in Handlers : IsStaged(k)'
         /\ \A k \in Handlers \ {h} : SnapshotIsBefore(k)'
<1>1. /\ AloneIsSole'
      /\ \A k \in Handlers \ {h} : IsStaged(k)' /\ SnapshotIsBefore(k)'
      /\ \A k \in Handlers : call'[k].seen = call[k].seen \/ call'[k].seen = Nothing
  BY OthersStand
<1>2. OneEach'
  <2>1. SUFFICES ASSUME ~raced
                 PROVE  /\ AtMostOne(primary') /\ AtMostOne(token'.snap.first)
                        /\ \A k \in Handlers : AtMostOne(call'[k].seen.first)
    BY DEF OneEach
  <2>2. AtMostOne(Nothing.first)
    BY FreeFacts DEF AtMostOne
  <2>3. \A k \in Handlers : AtMostOne(call[k].seen.first)
    BY <2>1 DEF MemberInv, OneEach
  <2>. QED
    BY <1>1, <2>1, <2>2, <2>3
<1>3. OnePrimaryWithoutRace'
  <2>1. AtMostOne(primary') => ~(Cardinality(primary') > 1)
    BY OneIsOne
  <2>. QED
    BY <2>1 DEF OnePrimaryWithoutRace
<1>. QED
  BY <1>1, <1>2, <1>3

\* What a step of writer h that is neither an invalidation nor the gift of a token has to show.
LEMMA WriterKeeps ==
  ASSUME MemberInv, NEW h \in Handlers, h \in Writing, Moves(h), raced' = raced,
         UNCHANGED <<token, removed, calls, cache>>, live' \subseteq Teams,
         memberOf' \subseteq Teams, primary' \subseteq memberOf',
         stale' \in BOOLEAN, aborts' \in 0..MaxAborts,
         ~raced => AtMostOne(primary'),
         \/ Owing' /\ OthersUntouched(h) /\ (stale' <=> stale)
         \/ memberOf' = memberOf /\ (Owing => Owing') /\ OthersUntouched(h) /\ (stale' <=> stale)
         \/ stale' /\ OthersLate(h),
         IsStaged(h)'
  PROVE  MemberInv'
<1>1. MemberTypeOK'
  <2>1. call' \in [Handlers -> Calls] /\ cache' \in [held : BOOLEAN, teams : SUBSET Teams]
    BY MemberTypes DEF MemberInv, Moves
  <2>. QED
    BY <2>1, MemberTyped DEF MemberInv
<1>2. ~raced => AtMostOne(primary') /\ AtMostOne(token'.snap.first)
  BY DEF MemberInv, OneEach
<1>3. /\ AloneIsSole' /\ OneEach' /\ OnePrimaryWithoutRace'
      /\ \A k \in Handlers : IsStaged(k)'
      /\ \A k \in Handlers \ {h} : SnapshotIsBefore(k)'
  BY <1>1, <1>2, RowsStand
<1>4. SnapshotIsBefore(h)'
  BY FreeFacts DEF MemberInv, SnapshotIsBefore, Moves, GoesOn
<1>5. TokenIsBefore' /\ UndoneOnce'
  BY DEF MemberInv, TokenIsBefore, UndoneOnce
<1>6. CacheIsCurrent'
  BY DEF MemberInv, CacheIsCurrent
<1>7. ASSUME NEW k \in Handlers PROVE ReadingIsCurrent(k)'
  <2>1. CASE k = h
    <3>1. call'[h].op /= "request"
      BY FreeFacts DEF Moves, GoesOn, Writing
    <3>. QED
      BY <2>1, <3>1 DEF ReadingIsCurrent
  <2>2. CASE k /= h
    <3>1. OthersLate(h) => ReadingIsCurrent(k)'
      BY <2>2 DEF OthersLate, ReadingIsCurrent, Untouched
    <3>2. OthersUntouched(h) => /\ call'[k].op = call[k].op /\ (call'[k].late <=> call[k].late)
                                /\ call'[k].seen = call[k].seen
      BY <2>2 DEF OthersUntouched, Untouched
    <3>3. ReadingIsCurrent(k)
      BY DEF MemberInv
    <3>. QED
      BY <3>1, <3>2, <3>3 DEF ReadingIsCurrent
  <2>. QED
    BY <2>1, <2>2
<1>. QED
  BY <1>1, <1>3, <1>4, <1>5, <1>6, <1>7 DEF MemberInv

\* A writer that still owes an invalidation, and the others' debts.
LEMMA Owed ==
  ASSUME MemberInv, MemberTypeOK', NEW h \in Handlers, h \in Writing, Moves(h),
         GoesOn(h), OwesIn(call'[h].todo)
  PROVE  Owing'
<1>1. h \in Writing'
  BY WritingStays DEF MemberInv
<1>2. Owes(h)'
  BY DEF Owes, OwesIn
<1>. QED
  BY <1>1, <1>2 DEF Owing

\* Nor does a step pay another's debt.
LEMMA DebtsStand ==
  ASSUME MemberInv, MemberTypeOK', NEW h \in Handlers, Moves(h), ~OwesIn(call[h].todo)
  PROVE  Owing => Owing'
<1>1. SUFFICES ASSUME NEW k \in Writing, Owes(k)
               PROVE  Owing'
  BY DEF Owing
<1>2. k \in Handlers
  BY DEF Writing
<1>3. k /= h
  BY <1>1 DEF Owes, OwesIn
<1>4. k \in Writing'
  BY <1>2, <1>3, WritingStays DEF MemberInv
<1>5. call'[k].todo = call[k].todo
  BY <1>2, <1>3 DEF Moves, OthersUntouched, OthersLate, Untouched
<1>. QED
  BY <1>1, <1>4, <1>5 DEF Owing, Owes

\* The statement a writer comes to, and the next one.
LEMMA AtStatement ==
  ASSUME MemberTypeOK, NEW h \in Handlers, call[h].todo /= <<>>
  PROVE  LET s == Head(call[h].todo)
             after == Tail(call[h].todo)
         IN  /\ call[h].op /= "free" /\ s.team \in Teams
             /\ after = <<>> => LastDo(call[h].op, s.do)
             /\ after /= <<>> => NextDo(call[h].op, s.do, Head(after).do)
                  /\ Head(after) = call[h].todo[2]
             /\ s.do \notin {"put", "token", "expel", "retire", "invalidate"} => OwesIn(after)
             /\ s.do \in {"put", "token", "expel", "retire"} => ~OwesIn(call[h].todo)
             /\ s.do /= "put" <=> h \in Writing
<1>1. call[h].op /= "free" /\ Fits(call[h].op, call[h].todo)
  BY CallFacts
<1>2. Head(call[h].todo).do = "put" <=> call[h].op = "request"
  BY <1>1, CallFacts DEF Fits, LastDo, NextDo, Ops, Writers
<1>3. call[h].op = "request" <=> h \notin Writing
  BY <1>1 DEF Writing
<1>. QED
  BY <1>1, <1>2, <1>3 DEF Fits

\* Who promotes a team after a departure marks it.
LEMMA MarkedLeaving ==
  ASSUME NEW o \in {"leave", "remove"}, NEW todo \in Plans(o), Head(todo).do = "set"
  PROVE  Head(todo).flag
<1>1. \E t \in Teams : Head(todo) = Mark(t)
  <2>1. ASSUME NEW s \in Some("delete", {FALSE}), todo = <<s, Do("find"), Last1>>
        PROVE  FALSE
    BY <2>1, Three, Said
  <2>2. ASSUME NEW s \in Promoting, todo = <<s, Last1>>
        PROVE  \E t \in Teams : Head(todo) = Mark(t)
    BY <2>2, Two, Said DEF Promoting
  <2>3. ASSUME todo = <<Last1>>
        PROVE  FALSE
    BY <2>3, One, Said
  <2>. QED
    BY <2>1, <2>2, <2>3 DEF Plans
<1>. QED
  BY <1>1 DEF Mark, S

\* A statement that changes rows and is followed by others, the invalidation among them.
LEMMA OwingStatement ==
  ASSUME MemberInv, NEW h \in Handlers, call[h].todo /= <<>>, Advance(h),
         Head(call[h].todo).do \notin {"put", "token", "expel", "retire", "invalidate"},
         raced' = raced, UNCHANGED <<token, removed, calls, cache, stale, aborts, live>>,
         memberOf' \subseteq Teams, primary' \subseteq memberOf',
         ~raced => AtMostOne(primary'),
         GoesOn(h) /\ call'[h].todo = Tail(call[h].todo)
           /\ NextDo(call[h].op, Head(call[h].todo).do, Head(call'[h].todo).do)
           /\ Head(call'[h].todo) = call[h].todo[2] => IsStaged(h)'
  PROVE  MemberInv'
<1>1. /\ call[h].op /= "free" /\ h \in Writing
      /\ OwesIn(Tail(call[h].todo))
      /\ Tail(call[h].todo) /= <<>>
           => /\ NextDo(call[h].op, Head(call[h].todo).do, Head(Tail(call[h].todo)).do)
              /\ Head(Tail(call[h].todo)) = call[h].todo[2]
      /\ Tail(call[h].todo) = <<>> => LastDo(call[h].op, Head(call[h].todo).do)
  BY AtStatement DEF MemberInv
<1>2. Tail(call[h].todo) /= <<>>
  BY <1>1 DEF LastDo
<1>3. /\ call' \in [Handlers -> Calls] /\ OthersUntouched(h)
      /\ GoesOn(h) /\ call'[h].todo = Tail(call[h].todo)
  BY <1>1, <1>2, Advances DEF MemberInv
<1>4. Moves(h)
  BY <1>3 DEF Moves
<1>5. MemberTypeOK' /\ stale' \in BOOLEAN /\ aborts' \in 0..MaxAborts /\ live' \subseteq Teams
  BY <1>3, MemberTyped, MemberTypes DEF MemberInv
<1>6. Owing'
  BY <1>1, <1>3, <1>4, <1>5, Owed
<1>7. IsStaged(h)'
  BY <1>1, <1>2, <1>3
<1>. QED
  BY <1>1, <1>3, <1>4, <1>6, <1>5, <1>7, WriterKeeps

\* The primary flag is cleared: clear_primary.
LEMMA ClearKeeps ==
  ASSUME MemberInv, NEW h \in Handlers, Change(h), Head(call[h].todo).do = "clear"
  PROVE  MemberInv'
<1>1. /\ call[h].todo /= <<>> /\ Advance(h)
      /\ memberOf' = memberOf /\ primary' = {} /\ live' = live
      /\ UNCHANGED <<cache, token, removed, raced, stale, calls, aborts>>
  BY DEF Change
<1>2. memberOf' \subseteq Teams /\ primary' \subseteq memberOf' /\ AtMostOne(primary')
  BY <1>1 DEF MemberInv, MemberTypeOK, AtMostOne
<1>3. ASSUME GoesOn(h), NextDo(call[h].op, "clear", Head(call'[h].todo).do)
      PROVE  IsStaged(h)'
  <2>1. call'[h].op \in {"join", "role", "primary"}
        /\ Head(call'[h].todo).do \in {"insert", "set"}
    BY <1>3 DEF NextDo, GoesOn
  <2>. QED
    BY <1>1, <2>1 DEF IsStaged
<1>. QED
  BY <1>1, <1>2, <1>3, OwingStatement

\* The memberships are deleted.
LEMMA WipeKeeps ==
  ASSUME MemberInv, NEW h \in Handlers, Change(h), Head(call[h].todo).do = "wipe"
  PROVE  MemberInv'
<1>1. /\ call[h].todo /= <<>> /\ Advance(h)
      /\ memberOf' = {} /\ primary' = {} /\ live' = live
      /\ UNCHANGED <<cache, token, removed, raced, stale, calls, aborts>>
  BY DEF Change
<1>2. memberOf' \subseteq Teams /\ primary' \subseteq memberOf' /\ AtMostOne(primary')
  BY <1>1 DEF MemberInv, MemberTypeOK, AtMostOne
<1>3. ASSUME GoesOn(h), NextDo(call[h].op, "wipe", Head(call'[h].todo).do)
      PROVE  IsStaged(h)'
  <2>1. call'[h].op \in {"replace", "undo"} /\ Head(call'[h].todo).do \in {"insert", "refill"}
    BY <1>3 DEF NextDo, GoesOn
  <2>. QED
    BY <1>1, <2>1 DEF IsStaged
<1>. QED
  BY <1>1, <1>2, <1>3, OwingStatement

\* One is.
LEMMA DeleteKeeps ==
  ASSUME MemberInv, NEW h \in Handlers, Change(h), Head(call[h].todo).do = "delete"
  PROVE  MemberInv'
<1>. DEFINE t == Head(call[h].todo).team
<1>1. /\ call[h].todo /= <<>> /\ Advance(h)
      /\ memberOf' = memberOf \ {t} /\ primary' = primary \ {t} /\ live' = live
      /\ UNCHANGED <<cache, token, removed, raced, stale, calls, aborts>>
  BY DEF Change
<1>2. memberOf' \subseteq Teams /\ primary' \subseteq memberOf' /\ (~raced => AtMostOne(primary'))
  BY <1>1 DEF MemberInv, MemberTypeOK, AtMostOne, OneEach
<1>3. ASSUME GoesOn(h), NextDo(call[h].op, "delete", Head(call'[h].todo).do),
             Head(call'[h].todo) = call[h].todo[2]
      PROVE  IsStaged(h)'
  <2>1. \/ call[h].op \in {"leave", "remove", "edit"} /\ Head(call'[h].todo).do = "find"
        \/ call[h].op = "bulk" /\ Head(call'[h].todo).do = "invalidate"
        \/ call[h].op = "transfer" /\ Head(call'[h].todo).do = "upsert"
    BY <1>3 DEF NextDo
  <2>2. CASE call[h].op \in {"leave", "remove", "edit"} /\ Head(call'[h].todo).do = "find"
    BY <1>3, <2>2 DEF IsStaged, GoesOn
  <2>3. CASE call[h].op = "transfer" /\ Head(call'[h].todo).do = "upsert"
    <3>1. h \in Writing
      BY <2>3, CallFacts DEF MemberInv, Writers
    <3>2. call[h].alone /\ ~raced /\ call[h].todo[2].flag => primary \subseteq {t}
      BY <2>3, <3>1 DEF MemberInv, IsStaged
    <3>3. call'[h].alone /\ ~raced' /\ Head(call'[h].todo).flag => primary' = {}
      BY <1>1, <1>3, <3>2 DEF GoesOn
    <3>. QED
      BY <1>3, <2>3, <3>3 DEF IsStaged, GoesOn
  <2>4. CASE call[h].op = "bulk" /\ Head(call'[h].todo).do = "invalidate"
    BY <1>3, <2>4 DEF IsStaged, GoesOn
  <2>. QED
    BY <2>1, <2>2, <2>3, <2>4
<1>. QED
  BY <1>1, <1>2, <1>3, OwingStatement

\* INSERT OR IGNORE.
LEMMA IgnoreKeeps ==
  ASSUME MemberInv, NEW h \in Handlers, Change(h), Head(call[h].todo).do = "ignore"
  PROVE  MemberInv'
<1>. DEFINE t == Head(call[h].todo).team
<1>1. /\ call[h].todo /= <<>> /\ Advance(h)
      /\ memberOf' = memberOf \cup {t} /\ primary' = primary /\ live' = live
      /\ UNCHANGED <<cache, token, removed, raced, stale, calls, aborts>>
  BY DEF Change
<1>2. t \in Teams
  BY <1>1, AtStatement DEF MemberInv
<1>3. memberOf' \subseteq Teams /\ primary' \subseteq memberOf' /\ (~raced => AtMostOne(primary'))
  BY <1>1, <1>2 DEF MemberInv, MemberTypeOK, AtMostOne, OneEach
<1>4. ASSUME GoesOn(h), NextDo(call[h].op, "ignore", Head(call'[h].todo).do)
      PROVE  IsStaged(h)'
  <2>1. call'[h].op = "edit" /\ Head(call'[h].todo).do \in {"delete", "find"}
    BY <1>4 DEF NextDo, GoesOn
  <2>. QED
    BY <1>1, <2>1 DEF IsStaged
<1>. QED
  BY <1>1, <1>3, <1>4, OwingStatement

\* INSERT, or UPDATE where the row exists.
LEMMA UpsertKeeps ==
  ASSUME MemberInv, NEW h \in Handlers, Change(h), Head(call[h].todo).do = "upsert"
  PROVE  MemberInv'
<1>. DEFINE s == Head(call[h].todo)
<1>1. /\ call[h].todo /= <<>> /\ Advance(h)
      /\ memberOf' = memberOf \cup {s.team} /\ live' = live
      /\ primary' = IF s.flag THEN primary \cup {s.team} ELSE primary
      /\ UNCHANGED <<cache, token, removed, raced, stale, calls, aborts>>
  BY DEF Change
<1>2. s.team \in Teams /\ h \in Writing
  BY <1>1, AtStatement DEF MemberInv
<1>3. ~raced /\ s.flag => primary = {}
  BY <1>2 DEF MemberInv, IsStaged, AloneIsSole
<1>4. memberOf' \subseteq Teams /\ primary' \subseteq memberOf' /\ (~raced => AtMostOne(primary'))
  BY <1>1, <1>2, <1>3 DEF MemberInv, MemberTypeOK, AtMostOne, OneEach
<1>5. ASSUME GoesOn(h), NextDo(call[h].op, "upsert", Head(call'[h].todo).do)
      PROVE  IsStaged(h)'
  <2>1. call'[h].op = "transfer" /\ Head(call'[h].todo).do = "invalidate"
    BY <1>5 DEF NextDo, GoesOn
  <2>. QED
    BY <1>1, <2>1 DEF IsStaged
<1>. QED
  BY <1>1, <1>4, <1>5, OwingStatement

\* The flag of one is written.
LEMMA SetKeeps ==
  ASSUME MemberInv, NEW h \in Handlers, Change(h), Head(call[h].todo).do = "set"
  PROVE  MemberInv'
<1>. DEFINE s == Head(call[h].todo)
<1>1. /\ call[h].todo /= <<>> /\ Advance(h)
      /\ memberOf' = memberOf /\ live' = live
      /\ primary' = IF s.flag THEN primary \cup ({s.team} \cap memberOf) ELSE primary \ {s.team}
      /\ UNCHANGED <<cache, token, removed, raced, stale, calls, aborts>>
  BY DEF Change
<1>2. s.team \in Teams /\ h \in Writing
  BY <1>1, AtStatement DEF MemberInv
<1>3. call[h].alone /\ s.flag => primary = {}
  BY <1>2 DEF MemberInv, IsStaged
<1>4. memberOf' \subseteq Teams /\ primary' \subseteq memberOf' /\ (~raced => AtMostOne(primary'))
  BY <1>1, <1>2, <1>3 DEF MemberInv, MemberTypeOK, AtMostOne, OneEach, AloneIsSole
<1>5. ASSUME GoesOn(h), NextDo(call[h].op, "set", Head(call'[h].todo).do)
      PROVE  IsStaged(h)'
  <2>1. Head(call'[h].todo).do = "invalidate" /\ call'[h].op /= "undo"
    BY <1>5 DEF NextDo, GoesOn
  <2>2. call[h].op \in {"leave", "remove"} => s.flag
    BY <1>1, CallFacts, MarkedLeaving DEF MemberInv
  <2>3. call[h].op \in {"leave", "remove"} /\ call[h].alone => s.team \in memberOf
    BY <1>2 DEF MemberInv, IsStaged
  <2>4. call'[h].op \in {"leave", "remove"} /\ call'[h].alone => memberOf' = {} \/ primary' /= {}
    BY <1>1, <1>5, <2>2, <2>3 DEF GoesOn
  <2>. QED
    BY <1>1, <2>1, <2>4 DEF IsStaged
<1>. QED
  BY <1>1, <1>4, <1>5, OwingStatement

\* The flag of a membership that still exists is restored.
LEMMA RestoreKeeps ==
  ASSUME MemberInv, NEW h \in Handlers, Change(h), Head(call[h].todo).do = "restore"
  PROVE  MemberInv'
<1>. DEFINE s == Head(call[h].todo)
<1>1. /\ call[h].todo /= <<>> /\ Advance(h)
      /\ memberOf' = memberOf /\ live' = live
      /\ primary' = IF s.flag THEN {s.team} \cap memberOf ELSE primary \ {s.team}
      /\ UNCHANGED <<cache, token, removed, raced, stale, calls, aborts>>
  BY DEF Change
<1>2. memberOf' \subseteq Teams /\ primary' \subseteq memberOf' /\ (~raced => AtMostOne(primary'))
  BY <1>1 DEF MemberInv, MemberTypeOK, AtMostOne, OneEach
<1>3. ASSUME GoesOn(h), NextDo(call[h].op, "restore", Head(call'[h].todo).do)
      PROVE  IsStaged(h)'
  <2>1. call'[h].op = "reinstate" /\ Head(call'[h].todo).do = "invalidate"
    BY <1>3 DEF NextDo, GoesOn
  <2>. QED
    BY <1>1, <2>1 DEF IsStaged
<1>. QED
  BY <1>1, <1>2, <1>3, OwingStatement

\* The snapshot is inserted.
LEMMA RefillKeeps ==
  ASSUME MemberInv, NEW h \in Handlers, Refill(h)
  PROVE  MemberInv'
<1>. DEFINE n == call[h].seen
<1>1. /\ call[h].todo /= <<>> /\ Head(call[h].todo).do = "refill" /\ Advance(h)
      /\ memberOf' = memberOf \cup n.of /\ primary' = primary \cup (n.first \ memberOf)
      /\ UNCHANGED <<live, cache, token, removed, raced, stale, calls, aborts>>
  BY DEF Refill, Head1
<1>2. h \in Writing /\ n \in Snapshots
  BY <1>1, AtStatement, CallFacts DEF MemberInv
<1>3. n.of \subseteq Teams /\ n.first \subseteq n.of
  BY <1>2 DEF Snapshots
<1>4. call[h].alone => memberOf = {} /\ primary = {}
  BY <1>1, <1>2 DEF MemberInv, IsStaged, MemberTypeOK
<1>5. memberOf' \subseteq Teams /\ primary' \subseteq memberOf'
  BY <1>1, <1>3 DEF MemberInv, MemberTypeOK
<1>6. ~raced => AtMostOne(primary')
  <2>1. ~raced => AtMostOne(n.first) /\ call[h].alone
    BY <1>2 DEF MemberInv, OneEach, AloneIsSole
  <2>. QED
    BY <1>1, <1>4, <2>1 DEF AtMostOne
<1>7. ASSUME GoesOn(h), NextDo(call[h].op, "refill", Head(call'[h].todo).do)
      PROVE  IsStaged(h)'
  <2>1. call'[h].op = "undo" /\ Head(call'[h].todo).do = "invalidate"
    BY <1>7 DEF NextDo, GoesOn
  <2>2. call'[h].alone => memberOf' = call'[h].seen.of /\ primary' = call'[h].seen.first
    BY <1>1, <1>4, <1>7 DEF GoesOn
  <2>. QED
    BY <2>1, <2>2 DEF IsStaged
<1>. QED
  BY <1>1, <1>5, <1>6, <1>7, OwingStatement

\* A team is deleted.
LEMMA RetireKeeps ==
  ASSUME MemberInv, NEW h \in Handlers, Change(h), Head(call[h].todo).do = "retire"
  PROVE  MemberInv'
<1>1. /\ call[h].todo /= <<>> /\ Advance(h)
      /\ memberOf' = memberOf /\ live' \subseteq live /\ primary' = primary
      /\ UNCHANGED <<cache, token, removed, raced, stale, calls, aborts>>
  BY DEF Change
<1>2. /\ call[h].op /= "free" /\ h \in Writing /\ ~OwesIn(call[h].todo)
      /\ Tail(call[h].todo) /= <<>> => NextDo(call[h].op, "retire", Head(Tail(call[h].todo)).do)
  BY <1>1, AtStatement DEF MemberInv
<1>3. /\ call' \in [Handlers -> Calls] /\ OthersUntouched(h)
      /\ Tail(call[h].todo) = <<>> => call'[h] = Free
      /\ Tail(call[h].todo) /= <<>> => GoesOn(h) /\ call'[h].todo = Tail(call[h].todo)
  BY <1>1, <1>2, Advances DEF MemberInv
<1>4. Moves(h)
  BY <1>3 DEF Moves
<1>5. MemberTypeOK'
  BY <1>1, <1>3, MemberTyped, MemberTypes DEF MemberInv
<1>6. Owing => Owing'
  BY <1>2, <1>4, <1>5, DebtsStand
<1>7. IsStaged(h)'
  <2>1. call'[h] = Free => h \notin Writing'
    BY FreeFacts DEF Writing
  <2>2. GoesOn(h) /\ call'[h].todo = Tail(call[h].todo) /\ Tail(call[h].todo) /= <<>>
          => call'[h].op = "drop" /\ Head(call'[h].todo).do = "expel"
    BY <1>2 DEF NextDo, GoesOn
  <2>3. call'[h].op = "drop" /\ Head(call'[h].todo).do = "expel" => IsStaged(h)'
    BY DEF IsStaged
  <2>4. h \notin Writing' => IsStaged(h)'
    BY DEF IsStaged
  <2>. QED
    BY <1>3, <2>1, <2>2, <2>3, <2>4
<1>8. ~raced => AtMostOne(primary')
  BY <1>1 DEF MemberInv, OneEach
<1>9. live' \subseteq Teams /\ memberOf' \subseteq Teams /\ primary' \subseteq memberOf'
      /\ stale' \in BOOLEAN
      /\ aborts' \in 0..MaxAborts
  BY <1>1, MemberTypes DEF MemberInv
<1>. QED
  BY <1>1, <1>2, <1>3, <1>4, <1>6, <1>7, <1>8, <1>9, WriterKeeps

\* Every UPDATE or DELETE keeps the invariant.
LEMMA ChangeKeeps ==
  ASSUME MemberInv, NEW h \in Handlers, Change(h)
  PROVE  MemberInv'
<1>1. Head(call[h].todo).do \in {"clear", "delete", "set", "wipe", "retire", "restore", "ignore", "upsert"}
  BY DEF Change
<1>. QED
  BY <1>1, ClearKeeps, WipeKeeps, DeleteKeeps, IgnoreKeeps, UpsertKeeps, SetKeeps, RestoreKeeps,
     RetireKeeps

\* A request that ends without having invalidated.
LEMMA FailKeeps ==
  ASSUME MemberInv, NEW h \in Handlers, h \in Writing, call' = [LateReaders EXCEPT ![h] = Free],
         stale', stale' \in BOOLEAN, UNCHANGED <<token, removed, raced, calls, cache, live,
              aborts>>,
         memberOf' \subseteq Teams, primary' \subseteq memberOf', ~raced => AtMostOne(primary')
  PROVE  MemberInv'
<1>1. call' \in [Handlers -> Calls] /\ OthersLate(h) /\ call'[h] = Free
  BY CallFails DEF MemberInv
<1>2. Moves(h)
  BY <1>1 DEF Moves
<1>3. IsStaged(h)'
  BY <1>1, FreeFacts DEF IsStaged, Writing
<1>4. live' \subseteq Teams /\ aborts' \in 0..MaxAborts
  BY MemberTypes DEF MemberInv
<1>. QED
  BY <1>1, <1>2, <1>3, <1>4, WriterKeeps

\* An INSERT, or its refusal.
LEMMA InsertKeeps ==
  ASSUME MemberInv, NEW h \in Handlers, InsertMember(h)
  PROVE  MemberInv'
<1>. DEFINE s == Head(call[h].todo)
<1>1. call[h].todo /= <<>> /\ s.do \in {"insert", "reinsert"}
  BY DEF InsertMember, Head1
<1>2. s.team \in Teams /\ h \in Writing
  BY <1>1, AtStatement DEF MemberInv
<1>3. CASE s.team \in memberOf
  <2>1. /\ call' = [LateReaders EXCEPT ![h] = Free] /\ stale' = TRUE
        /\ UNCHANGED <<token, removed, raced, calls, cache, live, aborts, memberOf, primary>>
    BY <1>3 DEF InsertMember, CallFailed
  <2>2. memberOf' \subseteq Teams /\ primary' \subseteq memberOf' /\ (~raced
             => AtMostOne(primary'))
    BY <2>1 DEF MemberInv, MemberTypeOK, OneEach
  <2>. QED
    BY <1>2, <2>1, <2>2, FailKeeps
<1>4. CASE s.team \notin memberOf
  <2>1. /\ memberOf' = memberOf \cup {s.team} /\ Advance(h)
        /\ primary' = (IF s.do = "reinsert" /\ s.flag THEN {} ELSE primary)
                        \cup (IF s.flag THEN {s.team} ELSE {})
        /\ UNCHANGED <<live, cache, token, removed, raced, stale, calls, aborts>>
    BY <1>4 DEF InsertMember
  <2>2. memberOf' \subseteq Teams /\ primary' \subseteq memberOf'
    BY <1>2, <2>1 DEF MemberInv, MemberTypeOK
  <2>3. ~raced /\ s.do = "insert" /\ s.flag => primary = {}
    BY <1>2 DEF MemberInv, IsStaged, AloneIsSole
  <2>4. ~raced => AtMostOne(primary')
    BY <1>1, <2>1, <2>3 DEF MemberInv, OneEach, AtMostOne
  <2>5. ASSUME GoesOn(h), NextDo(call[h].op, s.do, Head(call'[h].todo).do)
        PROVE  IsStaged(h)'
    <3>1. call'[h].op \in {"join", "add", "replace", "reinstate"}
          /\ Head(call'[h].todo).do = "invalidate"
      BY <1>1, <2>5 DEF NextDo, GoesOn
    <3>. QED
      BY <3>1 DEF IsStaged
  <2>6. s.do \notin {"put", "token", "expel", "retire", "invalidate"}
    BY <1>1
  <2>. QED
    BY <1>1, <2>1, <2>2, <2>4, <2>5, <2>6, OwingStatement
<1>. QED
  BY <1>3, <1>4

\* The memberships of a deleted team go.
LEMMA ExpelKeeps ==
  ASSUME MemberInv, NEW h \in Handlers, Expel(h)
  PROVE  MemberInv'
<1>. DEFINE t == Head(call[h].todo).team
<1>1. /\ call[h].todo /= <<>> /\ Head(call[h].todo).do = "expel"
      /\ memberOf' = memberOf \ {t} /\ primary' = primary \ {t}
      /\ call' = [LateReaders EXCEPT ![h] = Free] /\ stale' = TRUE
      /\ UNCHANGED <<live, cache, token, removed, raced, calls, aborts>>
  BY DEF Expel, Head1
<1>2. h \in Writing
  BY <1>1, AtStatement DEF MemberInv
<1>3. memberOf' \subseteq Teams /\ primary' \subseteq memberOf' /\ (~raced => AtMostOne(primary'))
  BY <1>1 DEF MemberInv, MemberTypeOK, OneEach, AtMostOne
<1>. QED
  BY <1>1, <1>2, <1>3, FailKeeps

\* The statement put in the place of the next is the next.
LEMMA Headed ==
  ASSUME NEW o \in Ops, NEW todo \in Plans(o), todo /= <<>>, NEW x
  PROVE  Head([todo EXCEPT ![1] = x]) = x
<1>1. \A a, b, c, d, e :
        /\ Head([<<a>> EXCEPT ![1] = x]) = x /\ Head([<<a, b>> EXCEPT ![1] = x]) = x
        /\ Head([<<a, b, c>> EXCEPT ![1] = x]) = x /\ Head([<<a, b, c, d>> EXCEPT ![1] = x]) = x
        /\ Head([<<a, b, c, d, e>> EXCEPT ![1] = x]) = x
  OBVIOUS
<1>2. \E a, b, c, d, e : todo \in {<<a>>, <<a, b>>, <<a, b, c>>, <<a, b, c, d>>, <<a, b, c, d, e>>}
  BY DEF Plans, Ops, Writers
<1>. QED
  BY <1>1, <1>2

\* A statement that another one takes the place of.
LEMMA ReplacedStatement ==
  ASSUME MemberInv, NEW h \in Handlers, NEW s, call[h].todo /= <<>>, Instead(h, s),
         Head(call[h].todo).do /= "put",
         [call[h].todo EXCEPT ![1] = s] \in Plans(call[h].op),
         s.do \notin {"put", "token", "expel", "retire"},
         UNCHANGED <<live, memberOf, primary, cache, token, removed, raced, stale, calls,
              aborts>>,
         GoesOn(h) /\ Head(call'[h].todo) = s => IsStaged(h)'
  PROVE  MemberInv'
<1>1. call[h].op /= "free" /\ h \in Writing /\ call[h].op \in Ops
  BY AtStatement, CallFacts DEF MemberInv
<1>2. /\ call' \in [Handlers -> Calls] /\ OthersUntouched(h)
      /\ GoesOn(h) /\ call'[h].todo = [call[h].todo EXCEPT ![1] = s]
  BY <1>1, Replaces DEF MemberInv
<1>3. Head(call'[h].todo) = s
  <2>1. call[h].todo \in Plans(call[h].op)
    BY CallFacts DEF MemberInv
  <2>2. Head([call[h].todo EXCEPT ![1] = s]) = s
    BY <1>1, <2>1, Headed
  <2>. QED
    BY <1>2, <2>2
<1>4. OwesIn(call'[h].todo)
  BY <1>1, <1>2, <1>3, PlanFits DEF Fits
<1>5. Moves(h)
  BY <1>2 DEF Moves
<1>6. live' \subseteq Teams /\ memberOf' \subseteq Teams /\ primary' \subseteq memberOf'
      /\ stale' \in BOOLEAN
      /\ aborts' \in 0..MaxAborts /\ cache' \in [held : BOOLEAN, teams : SUBSET Teams]
  BY MemberTypes DEF MemberInv
<1>7. MemberTypeOK'
  BY <1>2, <1>6, MemberTyped DEF MemberInv
<1>8. Owing'
  BY <1>1, <1>2, <1>4, <1>5, <1>7, Owed
<1>9. ~raced => AtMostOne(primary')
  BY DEF MemberInv, OneEach
<1>10. IsStaged(h)'
  BY <1>2, <1>3
<1>. QED
  BY <1>1, <1>2, <1>5, <1>6, <1>8, <1>9, <1>10, WriterKeeps

\* Whether the membership is the agent's first is asked.
LEMMA AskFirstKeeps ==
  ASSUME MemberInv, NEW h \in Handlers, AskFirst(h)
  PROVE  MemberInv'
<1>. DEFINE t == Head(call[h].todo).team
<1>1. /\ call[h].todo /= <<>> /\ Head(call[h].todo).do = "first?"
      /\ UNCHANGED <<live, memberOf, primary, cache, token, removed, raced, stale, calls, aborts>>
  BY DEF AskFirst, Head1
<1>2. PICK s : s = S("insert", t, memberOf = {})
  OBVIOUS
<1>3. PICK f \in BOOLEAN : f <=> memberOf = {}
  OBVIOUS
<1>4. s = S("insert", t, f)
  BY <1>2, <1>3
<1>5. Fits(call[h].op, call[h].todo) /\ call[h].op /= "free"
  BY <1>1, AtStatement, CallFacts DEF MemberInv
<1>6. [call[h].todo EXCEPT ![1] = s] \in Plans(call[h].op)
  BY <1>1, <1>4, <1>5 DEF Fits
<1>7. s.do = "insert" /\ (s.flag => memberOf = {})
  BY <1>3, <1>4 DEF S
<1>8. Instead(h, s)
  BY <1>2 DEF AskFirst
<1>9. s.do = "insert" /\ s.flag => primary = {}
  BY <1>7 DEF MemberInv, MemberTypeOK
<1>10. ASSUME GoesOn(h), Head(call'[h].todo) = s
       PROVE  IsStaged(h)'
  BY <1>1, <1>7, <1>9, <1>10 DEF IsStaged
<1>11. s.do \notin {"put", "token", "expel", "retire"} /\ Head(call[h].todo).do /= "put"
  BY <1>1, <1>7
<1>. QED
  BY <1>1, <1>6, <1>8, <1>10, <1>11, ReplacedStatement

\* promote_primary_if_needed looks for a primary team.
LEMMA FindPrimaryKeeps ==
  ASSUME MemberInv, NEW h \in Handlers, FindPrimary(h)
  PROVE  MemberInv'
<1>1. /\ call[h].todo /= <<>> /\ Head(call[h].todo).do = "find"
      /\ UNCHANGED <<live, memberOf, primary, cache, token, removed, raced, stale, calls, aborts>>
  BY DEF FindPrimary, Head1
<1>2. CASE primary = {}
  <2>1. PICK s : s = Do("pick")
    OBVIOUS
  <2>2. s.do = "pick"
    BY <2>1 DEF Do, S
  <2>3. Instead(h, s)
    BY <1>2, <2>1 DEF FindPrimary
  <2>4. [call[h].todo EXCEPT ![1] = s] \in Plans(call[h].op)
    BY <1>1, <2>1, AtStatement, CallFacts DEF MemberInv, Fits
  <2>5. ASSUME GoesOn(h), Head(call'[h].todo) = s
        PROVE  IsStaged(h)'
    BY <1>1, <1>2, <2>2, <2>5 DEF IsStaged
  <2>6. s.do \notin {"put", "token", "expel", "retire"} /\ Head(call[h].todo).do /= "put"
    BY <1>1, <2>2
  <2>. QED
    BY <1>1, <2>3, <2>4, <2>5, <2>6, ReplacedStatement
<1>3. CASE primary /= {}
  <2>1. Advance(h)
    BY <1>3 DEF FindPrimary
  <2>2. ASSUME GoesOn(h), NextDo(call[h].op, "find", Head(call'[h].todo).do)
        PROVE  IsStaged(h)'
    <3>1. call'[h].op /= "undo" /\ Head(call'[h].todo).do = "invalidate"
      BY <2>2 DEF NextDo, GoesOn
    <3>. QED
      BY <1>1, <1>3, <3>1 DEF IsStaged
  <2>3. memberOf' \subseteq Teams /\ primary' \subseteq memberOf' /\ (~raced
             => AtMostOne(primary'))
    BY <1>1 DEF MemberInv, MemberTypeOK, OneEach
  <2>4. Head(call[h].todo).do \notin {"put", "token", "expel", "retire", "invalidate"}
    BY <1>1
  <2>. QED
    BY <1>1, <2>1, <2>2, <2>3, <2>4, OwingStatement
<1>. QED
  BY <1>2, <1>3

\* And for a team to promote.
LEMMA PickNextKeeps ==
  ASSUME MemberInv, NEW h \in Handlers, PickNext(h)
  PROVE  MemberInv'
<1>1. /\ call[h].todo /= <<>> /\ Head(call[h].todo).do = "pick"
      /\ UNCHANGED <<live, memberOf, primary, cache, token, removed, raced, stale, calls, aborts>>
  BY DEF PickNext, Head1
<1>2. CASE memberOf = {}
  <2>1. Advance(h)
    BY <1>2 DEF PickNext
  <2>2. ASSUME GoesOn(h), NextDo(call[h].op, "pick", Head(call'[h].todo).do)
        PROVE  IsStaged(h)'
    <3>1. call'[h].op /= "undo" /\ Head(call'[h].todo).do = "invalidate"
      BY <2>2 DEF NextDo, GoesOn
    <3>. QED
      BY <1>1, <1>2, <3>1 DEF IsStaged
  <2>3. memberOf' \subseteq Teams /\ primary' \subseteq memberOf' /\ (~raced
             => AtMostOne(primary'))
    BY <1>1 DEF MemberInv, MemberTypeOK, OneEach
  <2>4. Head(call[h].todo).do \notin {"put", "token", "expel", "retire", "invalidate"}
    BY <1>1
  <2>. QED
    BY <1>1, <2>1, <2>2, <2>3, <2>4, OwingStatement
<1>3. CASE memberOf /= {}
  <2>1. PICK t \in memberOf : Instead(h, Mark(t))
    BY <1>3 DEF PickNext
  <2>2. PICK s : s = Mark(t)
    OBVIOUS
  <2>3. s.do = "set" /\ s.team = t /\ t \in Teams
    BY <2>1, <2>2 DEF Mark, S, MemberInv, MemberTypeOK
  <2>4. [call[h].todo EXCEPT ![1] = s] \in Plans(call[h].op)
    BY <1>1, <2>2, <2>3, AtStatement, CallFacts DEF MemberInv, Fits
  <2>5. h \in Writing /\ (call[h].alone => primary = {})
    BY <1>1, AtStatement DEF MemberInv, IsStaged
  <2>6. ASSUME GoesOn(h), Head(call'[h].todo) = s
        PROVE  IsStaged(h)'
    <3>1. call'[h].alone => primary' = {} /\ s.team \in memberOf'
      BY <1>1, <2>1, <2>3, <2>5, <2>6 DEF GoesOn
    <3>. QED
      BY <2>3, <2>6, <3>1 DEF IsStaged
  <2>7. s.do \notin {"put", "token", "expel", "retire"} /\ Head(call[h].todo).do /= "put"
    BY <1>1, <2>3
  <2>. QED
    BY <1>1, <2>1, <2>2, <2>4, <2>6, <2>7, ReplacedStatement
<1>. QED
  BY <1>2, <1>3

\* A reader's step leaves the writers alone.
LEMMA ReaderStands ==
  ASSUME MemberInv, MemberTypeOK', NEW h \in Handlers, h \notin Writing,
         call'[h].op \in {"free", "request"}, OthersUntouched(h) \/ OthersLate(h),
         AtMostOne(call'[h].seen.first) \/ raced,
         UNCHANGED <<memberOf, primary, raced>>, token'.snap = token.snap,
         token'.before = token.before, token'.clean => token.clean
  PROVE  /\ AloneIsSole' /\ OneEach' /\ OnePrimaryWithoutRace'
         /\ \A k \in Handlers : IsStaged(k)' /\ SnapshotIsBefore(k)'
         /\ Owing' <=> Owing
<1>1. \A k \in Handlers \ {h} : /\ call'[k].op = call[k].op /\ (call'[k].alone <=> call[k].alone)
                                /\ call'[k].seen = call[k].seen /\ call'[k].todo = call[k].todo
  BY DEF OthersUntouched, OthersLate, Untouched
<1>2. Writing' = Writing /\ h \notin Writing'
  BY <1>1 DEF Writing
<1>3. \A k \in Writing : /\ k \in Handlers /\ k /= h
  BY <1>2 DEF Writing
<1>4. AloneIsSole'
  BY <1>1, <1>2, <1>3 DEF MemberInv, AloneIsSole
<1>5. OneEach'
  BY <1>1 DEF MemberInv, OneEach
<1>6. OnePrimaryWithoutRace'
  BY DEF MemberInv, OnePrimaryWithoutRace
<1>7. ASSUME NEW k \in Handlers PROVE IsStaged(k)' /\ SnapshotIsBefore(k)'
  <2>1. CASE k = h
    BY <1>2, <2>1 DEF IsStaged, SnapshotIsBefore
  <2>2. CASE k /= h
    <3>1. IsStaged(k) /\ SnapshotIsBefore(k)
      BY DEF MemberInv
    <3>2. IsStaged(k)'
      BY <1>1, <1>2, <2>2, <3>1 DEF IsStaged
    <3>3. SnapshotIsBefore(k)'
      BY <1>1, <2>2, <3>1 DEF SnapshotIsBefore
    <3>. QED
      BY <3>2, <3>3
  <2>. QED
    BY <2>1, <2>2
<1>8. Owing' <=> Owing
  BY <1>1, <1>2, <1>3 DEF Owing, Owes
<1>. QED
  BY <1>4, <1>5, <1>6, <1>7, <1>8

\* The cache is invalidated.
LEMMA InvalidateKeeps ==
  ASSUME MemberInv, NEW h \in Handlers, InvalidateTeams(h)
  PROVE  MemberInv'
<1>1. /\ call[h].todo /= <<>> /\ Head(call[h].todo).do = "invalidate"
      /\ cache' = NoCache /\ stale' = FALSE
      /\ UNCHANGED <<live, memberOf, primary, token, removed, raced, calls, aborts>>
  BY DEF InvalidateTeams, Head1
<1>2. /\ call[h].op /= "free" /\ h \in Writing
      /\ Tail(call[h].todo) /= <<>>
           => NextDo(call[h].op, "invalidate", Head(Tail(call[h].todo)).do)
      /\ Tail(call[h].todo) = <<>> <=> Len(call[h].todo) = 1
  BY <1>1, AtStatement, CallFacts DEF MemberInv, Fits
<1>3. ASSUME NEW k \in Handlers, k /= h
      PROVE  call'[k] = LateReaders[k]
  BY <1>3 DEF InvalidateTeams
<1>4. OthersLate(h) /\ \A k \in Handlers \ {h} : call'[k] \in Calls
  BY <1>3, LateFacts DEF OthersLate, Untouched, MemberInv
<1>5. /\ call'[h] \in Calls /\ (GoesOn(h) \/ call'[h] = Free) /\ call'[h].op /= "request"
      /\ IsStaged(h)' /\ SnapshotIsBefore(h)'
  <2>1. CASE Tail(call[h].todo) = <<>>
    <3>1. call'[h] = Free
      BY <1>2, <2>1 DEF InvalidateTeams
    <3>. QED
      BY <3>1, FreeIsACall, FreeFacts DEF IsStaged, SnapshotIsBefore, Writing
  <2>2. CASE Tail(call[h].todo) /= <<>>
    <3>1. PICK c : c = [call[h] EXCEPT !.todo = Tail(call[h].todo)]
      OBVIOUS
    <3>2. call'[h] = c
      BY <1>2, <2>2, <3>1 DEF InvalidateTeams
    <3>3. Tail(call[h].todo) \in Plans(call[h].op)
      BY <1>2, <2>2, CallFacts DEF MemberInv, Fits
    <3>4. c \in Calls
      BY <3>1, <3>3, TodoSet DEF MemberInv
    <3>5. call[h] \in CallRows
      BY CallFacts DEF Calls, MemberInv
    <3>6. /\ c.op = call[h].op /\ c.seen = call[h].seen /\ (c.alone <=> call[h].alone)
          /\ (c.late <=> call[h].late) /\ c.todo = Tail(call[h].todo)
      BY <3>1, <3>5 DEF CallRows
    <3>7. GoesOn(h) /\ call'[h].op = "edit" /\ Head(call'[h].todo).do = "token"
      BY <1>2, <2>2, <3>2, <3>6 DEF GoesOn, NextDo
    <3>8. IsStaged(h)'
      BY <3>7 DEF IsStaged
    <3>9. SnapshotIsBefore(h)'
      BY <1>1, <3>7 DEF SnapshotIsBefore, MemberInv, GoesOn
    <3>. QED
      BY <3>2, <3>4, <3>7, <3>8, <3>9
  <2>. QED
    BY <2>1, <2>2
<1>6. call' \in [Handlers -> Calls]
  BY <1>4, <1>5 DEF InvalidateTeams
<1>7. Moves(h)
  BY <1>4, <1>5, <1>6 DEF Moves
<1>8. NoCache \in [held : BOOLEAN, teams : SUBSET Teams] /\ ~NoCache.held
  BY DEF NoCache
<1>9. MemberTypeOK'
  BY <1>1, <1>6, <1>8, MemberTyped, MemberTypes DEF MemberInv
<1>10. ~raced => AtMostOne(primary') /\ AtMostOne(token'.snap.first)
  BY <1>1 DEF MemberInv, OneEach
<1>11. /\ AloneIsSole' /\ OneEach' /\ OnePrimaryWithoutRace'
       /\ \A k \in Handlers : IsStaged(k)'
       /\ \A k \in Handlers \ {h} : SnapshotIsBefore(k)'
  BY <1>1, <1>2, <1>5, <1>7, <1>9, <1>10, RowsStand
<1>12. CacheIsCurrent' /\ UndoneOnce' /\ TokenIsBefore'
  BY <1>1, <1>8 DEF CacheIsCurrent, MemberInv, UndoneOnce, TokenIsBefore
<1>13. \A k \in Handlers : ReadingIsCurrent(k)'
  BY <1>4, <1>5 DEF ReadingIsCurrent, OthersLate, Untouched
<1>. QED
  BY <1>5, <1>9, <1>11, <1>12, <1>13 DEF MemberInv

\* The undo token is stored.
LEMMA GiveTokenKeeps ==
  ASSUME MemberInv, NEW h \in Handlers, GiveToken(h)
  PROVE  MemberInv'
<1>1. /\ call[h].todo /= <<>> /\ Head(call[h].todo).do = "token" /\ Advance(h)
      /\ token' = [token EXCEPT !.held = TRUE, !.snap = call[h].seen, !.clean = call[h].alone,
           !.undos = 0]
      /\ UNCHANGED <<live, memberOf, primary, cache, removed, raced, stale, calls, aborts>>
  BY DEF GiveToken, Head1
<1>2. /\ call[h].op /= "free" /\ h \in Writing /\ ~OwesIn(call[h].todo)
      /\ Tail(call[h].todo) /= <<>> => NextDo(call[h].op, "token", Head(Tail(call[h].todo)).do)
      /\ Tail(call[h].todo) = <<>> => LastDo(call[h].op, "token")
  BY <1>1, AtStatement DEF MemberInv
<1>3. Tail(call[h].todo) = <<>> /\ call[h].op = "edit"
  BY <1>2 DEF NextDo, LastDo
<1>4. call' \in [Handlers -> Calls] /\ OthersUntouched(h) /\ call'[h] = Free
  BY <1>1, <1>2, <1>3, Advances DEF MemberInv
<1>5. Moves(h)
  BY <1>4 DEF Moves
<1>6. call[h].seen \in Snapshots /\ call[h].alone \in BOOLEAN
  BY CallFacts DEF MemberInv, Calls, CallRows
<1>7. /\ token' \in [held : BOOLEAN, snap : Snapshots, clean : BOOLEAN, undos : 0..1,
           before : Snapshots]
      /\ token'.snap = call[h].seen /\ (token'.clean => call[h].alone) /\ token'.undos = 0
      /\ token'.before = token.before
  <2>1. token \in [held : BOOLEAN, snap : Snapshots, clean : BOOLEAN, undos : 0..1,
             before : Snapshots]
    BY MemberTypes DEF MemberInv
  <2>2. PICK n \in Snapshots : n = call[h].seen
    BY <1>6
  <2>3. PICK a \in BOOLEAN : a = call[h].alone
    BY <1>6
  <2>4. PICK t : t = [token EXCEPT !.held = TRUE, !.snap = n, !.clean = a, !.undos = 0]
    OBVIOUS
  <2>5. token' = t
    BY <1>1, <2>2, <2>3, <2>4
  <2>6. PICK x : x = TRUE
    OBVIOUS
  <2>7. t = [token EXCEPT !.held = x, !.snap = n, !.clean = a, !.undos = 0]
    BY <2>4, <2>6
  <2>8. x \in BOOLEAN /\ 0 \in 0..1
    BY <2>6
  <2>9. t \in [held : BOOLEAN, snap : Snapshots, clean : BOOLEAN, undos : 0..1,
             before : Snapshots]
    BY <2>1, <2>7, <2>8
  <2>10. t.snap = n /\ t.undos = 0 /\ t.before = token.before
    BY <2>1, <2>7
  <2>11. t.clean = a
    BY <2>1, <2>7
  <2>12. a => call[h].alone
    BY <2>3
  <2>. QED
    BY <2>2, <2>5, <2>12, <2>9, <2>10, <2>11
<1>8. MemberTypeOK'
  BY <1>1, <1>4, <1>7, MemberTypes DEF MemberTypeOK, MemberInv
<1>9. ~raced => AtMostOne(primary') /\ AtMostOne(token'.snap.first)
  BY <1>1, <1>7 DEF MemberInv, OneEach
<1>10. IsStaged(h)' /\ SnapshotIsBefore(h)'
  BY <1>4, FreeFacts DEF IsStaged, SnapshotIsBefore, Writing
<1>11. /\ AloneIsSole' /\ OneEach' /\ OnePrimaryWithoutRace'
       /\ \A k \in Handlers : IsStaged(k)'
       /\ \A k \in Handlers \ {h} : SnapshotIsBefore(k)'
  BY <1>1, <1>2, <1>5, <1>8, <1>9, <1>10, RowsStand
<1>12. TokenIsBefore' /\ UndoneOnce'
  <2>1. call[h].alone => call[h].seen = token.before
    BY <1>3 DEF MemberInv, SnapshotIsBefore
  <2>. QED
    BY <1>7, <2>1 DEF TokenIsBefore, UndoneOnce
<1>13. Owing => Owing'
  BY <1>2, <1>5, <1>8, DebtsStand
<1>14. CacheIsCurrent'
  BY <1>1, <1>13 DEF CacheIsCurrent, MemberInv
<1>15. \A k \in Handlers : ReadingIsCurrent(k)'
  BY <1>1, <1>4, <1>13, FreeFacts DEF ReadingIsCurrent, OthersUntouched, Untouched, MemberInv
<1>. QED
  BY <1>8, <1>10, <1>11, <1>12, <1>14, <1>15 DEF MemberInv

\* A request puts what it has read in the cache.
LEMMA PutKeeps ==
  ASSUME MemberInv, NEW h \in Handlers, PutTeams(h)
  PROVE  MemberInv'
<1>1. /\ call[h].todo /= <<>> /\ Head(call[h].todo).do = "put" /\ Advance(h)
      /\ cache' = [held |-> TRUE, teams |-> call[h].seen.of]
      /\ stale' = (call[h].late \/ (stale /\ cache.held))
      /\ UNCHANGED <<live, memberOf, primary, token, removed, raced, calls, aborts>>
  BY DEF PutTeams, Head1
<1>2. /\ call[h].op /= "free" /\ h \notin Writing
      /\ Tail(call[h].todo) /= <<>> => NextDo(call[h].op, "put", Head(Tail(call[h].todo)).do)
  BY <1>1, AtStatement DEF MemberInv
<1>3. Tail(call[h].todo) = <<>> /\ call[h].op = "request"
  BY <1>2 DEF NextDo, Writing
<1>4. call' \in [Handlers -> Calls] /\ OthersUntouched(h) /\ call'[h] = Free
  BY <1>1, <1>2, <1>3, Advances DEF MemberInv
<1>5. call[h].seen \in Snapshots /\ call[h].late \in BOOLEAN
  BY CallFacts DEF MemberInv, Calls, CallRows
<1>6. cache' \in [held : BOOLEAN, teams : SUBSET Teams] /\ cache'.teams = call[h].seen.of
  BY <1>1, <1>5 DEF Snapshots
<1>7. stale' \in BOOLEAN /\ (call[h].late => stale')
  BY <1>1, <1>5, MemberTypes DEF MemberInv
<1>8. MemberTypeOK'
  BY <1>1, <1>4, <1>6, <1>7, MemberTyped, MemberTypes DEF MemberInv
<1>9. AtMostOne(call'[h].seen.first)
  BY <1>4, FreeFacts DEF AtMostOne
<1>10. /\ AloneIsSole' /\ OneEach' /\ OnePrimaryWithoutRace'
       /\ \A k \in Handlers : IsStaged(k)' /\ SnapshotIsBefore(k)'
       /\ Owing' <=> Owing
  BY <1>1, <1>2, <1>4, <1>8, <1>9, FreeFacts, ReaderStands
<1>11. CacheIsCurrent'
  <2>1. ~call[h].late => call[h].seen.of = memberOf \/ Owing
    BY <1>3 DEF MemberInv, ReadingIsCurrent
  <2>. QED
    BY <1>1, <1>6, <1>7, <1>10, <2>1 DEF CacheIsCurrent
<1>12. \A k \in Handlers : ReadingIsCurrent(k)'
  BY <1>1, <1>4, <1>10, FreeFacts DEF ReadingIsCurrent, OthersUntouched, Untouched, MemberInv
<1>13. TokenIsBefore' /\ UndoneOnce'
  BY <1>1 DEF TokenIsBefore, UndoneOnce, MemberInv
<1>. QED
  BY <1>8, <1>10, <1>11, <1>12, <1>13 DEF MemberInv

\* A statement fails.
LEMMA AbortKeeps ==
  ASSUME MemberInv, NEW h \in Handlers, Abort(h)
  PROVE  MemberInv'
<1>1. /\ call[h].op /= "free" /\ aborts < MaxAborts /\ aborts' = aborts + 1
      /\ call' = [LateReaders EXCEPT ![h] = Free] /\ stale' = TRUE
      /\ token' = [token EXCEPT !.clean = FALSE]
      /\ UNCHANGED <<live, memberOf, primary, cache, removed, raced, calls>>
  BY DEF Abort, CallFailed
<1>2. call' \in [Handlers -> Calls] /\ OthersLate(h) /\ call'[h] = Free
  BY <1>1, CallFails DEF MemberInv
<1>3. Moves(h)
  BY <1>2 DEF Moves
<1>4. /\ token' \in [held : BOOLEAN, snap : Snapshots, clean : BOOLEAN, undos : 0..1,
           before : Snapshots]
      /\ token'.snap = token.snap /\ ~token'.clean /\ token'.before = token.before
      /\ token'.undos = token.undos /\ (token'.held <=> token.held)
  <2>1. token \in [held : BOOLEAN, snap : Snapshots, clean : BOOLEAN, undos : 0..1,
             before : Snapshots]
    BY MemberTypes DEF MemberInv
  <2>. QED
    BY <1>1, <2>1
<1>5. aborts' \in 0..MaxAborts /\ stale' \in BOOLEAN
  <2>1. aborts \in 0..MaxAborts /\ MaxAborts \in Nat
    BY MemberTypes, MembershipsAssumption DEF MemberInv
  <2>. QED
    BY <1>1, <2>1
<1>6. MemberTypeOK'
  BY <1>1, <1>2, <1>4, <1>5, MemberTypes DEF MemberTypeOK, MemberInv
<1>7. ~raced => AtMostOne(primary') /\ AtMostOne(token'.snap.first)
  BY <1>1, <1>4 DEF MemberInv, OneEach
<1>8. IsStaged(h)' /\ SnapshotIsBefore(h)'
  BY <1>2, FreeFacts DEF IsStaged, SnapshotIsBefore, Writing
<1>9. h \in Writing => /\ AloneIsSole' /\ OneEach' /\ OnePrimaryWithoutRace'
                       /\ \A k \in Handlers : IsStaged(k)'
                       /\ \A k \in Handlers \ {h} : SnapshotIsBefore(k)'
  BY <1>1, <1>3, <1>6, <1>7, <1>8, RowsStand
<1>10. AtMostOne(call'[h].seen.first) /\ call'[h].op = "free"
  BY <1>2, FreeFacts DEF AtMostOne
<1>11. h \notin Writing => /\ AloneIsSole' /\ OneEach' /\ OnePrimaryWithoutRace'
                           /\ \A k \in Handlers : IsStaged(k)' /\ SnapshotIsBefore(k)'
  BY <1>1, <1>2, <1>4, <1>6, <1>10, ReaderStands
<1>12. CacheIsCurrent'
  BY <1>1 DEF CacheIsCurrent
<1>13. \A k \in Handlers : ReadingIsCurrent(k)'
  BY <1>2, <1>10 DEF ReadingIsCurrent, OthersLate, Untouched
<1>14. TokenIsBefore' /\ UndoneOnce'
  BY <1>4 DEF TokenIsBefore, UndoneOnce, MemberInv
<1>. QED
  BY <1>6, <1>8, <1>9, <1>11, <1>12, <1>13, <1>14 DEF MemberInv

\* The cached teams expire.
LEMMA ExpiryKeeps ==
  ASSUME MemberInv, CacheExpires
  PROVE  MemberInv'
<1>1. /\ cache' = NoCache /\ stale' = FALSE
      /\ UNCHANGED <<live, memberOf, primary, call, token, removed, raced, calls, aborts>>
  BY DEF CacheExpires
<1>2. NoCache \in [held : BOOLEAN, teams : SUBSET Teams] /\ ~NoCache.held
  BY DEF NoCache
<1>3. MemberTypeOK'
  BY <1>1, <1>2, MemberTyped, MemberTypes DEF MemberInv
<1>4. CacheIsCurrent'
  BY <1>1, <1>2 DEF CacheIsCurrent
<1>5. AloneIsSole' /\ OneEach' /\ OnePrimaryWithoutRace'
  BY <1>1 DEF MemberInv, AloneIsSole, Writing, OneEach, OnePrimaryWithoutRace
<1>6. TokenIsBefore' /\ UndoneOnce'
  BY <1>1 DEF TokenIsBefore, UndoneOnce, MemberInv
<1>7. ASSUME NEW k \in Handlers PROVE IsStaged(k)' /\ SnapshotIsBefore(k)' /\ ReadingIsCurrent(k)'
  <2>1. IsStaged(k) /\ SnapshotIsBefore(k) /\ ReadingIsCurrent(k)
    BY DEF MemberInv
  <2>. QED
    BY <1>1, <2>1 DEF IsStaged, SnapshotIsBefore, ReadingIsCurrent, Owing, Owes, Writing
<1>. QED
  BY <1>3, <1>4, <1>5, <1>6, <1>7 DEF MemberInv

\* A request that misses the cache reads the memberships.
LEMMA AuthenticateKeeps ==
  ASSUME MemberInv, NEW h \in Handlers, Authenticate(h)
  PROVE  MemberInv'
<1>1. /\ call[h].op = "free" /\ calls < MaxCalls /\ calls' = calls + 1
      /\ call' = [call EXCEPT ![h] = [Free EXCEPT !.op = "request", !.todo = <<Do("put")>>,
                                              !.seen = Snapshot]]
      /\ UNCHANGED <<live, memberOf, primary, cache, token, removed, raced, stale, aborts>>
  BY DEF Authenticate, Arrive
<1>2. PICK c : c = [Free EXCEPT !.op = "request", !.todo = <<Do("put")>>, !.seen = Snapshot]
  OBVIOUS
<1>3. Snapshot \in Snapshots
  BY MemberTypes DEF Snapshot, Snapshots, MemberInv
<1>4. <<Do("put")>> \in Plans("request")
  BY DEF Plans
<1>5. /\ c = [op |-> "request", todo |-> <<Do("put")>>, seen |-> Snapshot, late |-> FALSE,
           alone |-> TRUE]
  BY <1>2 DEF Free
<1>6. c \in Calls /\ c.op = "request" /\ c.seen = Snapshot
  <2>1. "request" \in Ops
    BY DEF Ops
  <2>2. c \in CallRows
    BY <1>3, <1>4, <1>5, <2>1 DEF CallRows
  <2>. QED
    BY <1>4, <1>5, <2>2 DEF Calls
<1>7. call' \in [Handlers -> Calls] /\ call'[h] = c /\ OthersUntouched(h)
  <2>1. call \in [Handlers -> Calls]
    BY MemberTypes DEF MemberInv
  <2>. QED
    BY <1>1, <1>2, <1>6, <2>1 DEF OthersUntouched, Untouched
<1>8. calls' \in 0..MaxCalls
  <2>1. calls \in 0..MaxCalls /\ MaxCalls \in Nat
    BY MemberTypes, MembershipsAssumption DEF MemberInv
  <2>. QED
    BY <1>1, <2>1
<1>9. MemberTypeOK'
  BY <1>1, <1>7, <1>8, MemberTypes DEF MemberTypeOK, MemberInv
<1>10. AtMostOne(call'[h].seen.first) \/ raced
  BY <1>6, <1>7 DEF MemberInv, OneEach, Snapshot
<1>11. h \notin Writing
  BY <1>1 DEF Writing
<1>12. /\ AloneIsSole' /\ OneEach' /\ OnePrimaryWithoutRace'
       /\ \A k \in Handlers : IsStaged(k)' /\ SnapshotIsBefore(k)'
       /\ Owing' <=> Owing
  BY <1>1, <1>6, <1>7, <1>9, <1>10, <1>11, ReaderStands
<1>13. CacheIsCurrent' /\ TokenIsBefore' /\ UndoneOnce'
  BY <1>1, <1>12 DEF CacheIsCurrent, TokenIsBefore, UndoneOnce, MemberInv
<1>14. ASSUME NEW k \in Handlers PROVE ReadingIsCurrent(k)'
  <2>1. CASE k = h
    <3>1. call'[h].seen.of = memberOf
      BY <1>6, <1>7 DEF Snapshot
    <3>. QED
      BY <1>1, <2>1, <3>1 DEF ReadingIsCurrent
  <2>2. CASE k /= h
    BY <1>1, <1>7, <1>12, <2>2 DEF ReadingIsCurrent, OthersUntouched, Untouched, MemberInv
  <2>. QED
    BY <2>1, <2>2
<1>. QED
  BY <1>9, <1>12, <1>13, <1>14 DEF MemberInv

\* Plans put together: one statement and two.
LEMMA OneAndTwo ==
  ASSUME NEW a, NEW b, NEW c
  PROVE  <<a>> \o <<b, c>> = <<a, b, c>>
<1>1. PICK X : X = {a, b, c}
  OBVIOUS
<1>2. <<a>> \in Seq(X) /\ <<b, c>> \in Seq(X) /\ <<a, b, c>> \in Seq(X)
  BY <1>1
<1>3. PICK s : s = <<a>> \o <<b, c>>
  OBVIOUS
<1>4. /\ s \in Seq(X) /\ Len(s) = 1 + 2
      /\ \A i \in 1..1 + 2 : s[i] = IF i <= 1 THEN <<a>>[i] ELSE <<b, c>>[i - 1]
  BY <1>2, <1>3, ConcatProperties
<1>5. Len(s) = 3 /\ \A i \in 1..3 : s[i] = <<a, b, c>>[i]
  BY <1>4
<1>6. s = <<a, b, c>>
  BY <1>2, <1>4, <1>5, SeqEqual
<1>. QED
  BY <1>3, <1>6

\* One and three.
LEMMA OneAndThree ==
  ASSUME NEW a, NEW b, NEW c, NEW d
  PROVE  <<a>> \o <<b, c, d>> = <<a, b, c, d>>
<1>1. PICK X : X = {a, b, c, d}
  OBVIOUS
<1>2. <<a>> \in Seq(X) /\ <<b, c, d>> \in Seq(X) /\ <<a, b, c, d>> \in Seq(X)
  BY <1>1
<1>3. PICK s : s = <<a>> \o <<b, c, d>>
  OBVIOUS
<1>4. /\ s \in Seq(X) /\ Len(s) = 1 + 3
      /\ \A i \in 1..1 + 3 : s[i] = IF i <= 1 THEN <<a>>[i] ELSE <<b, c, d>>[i - 1]
  BY <1>2, <1>3, ConcatProperties
<1>5. Len(s) = 4 /\ \A i \in 1..4 : s[i] = <<a, b, c, d>>[i]
  BY <1>4
<1>6. s = <<a, b, c, d>>
  BY <1>2, <1>4, <1>5, SeqEqual
<1>. QED
  BY <1>3, <1>6

\* Two and three.
LEMMA TwoAndThree ==
  ASSUME NEW a, NEW b, NEW c, NEW d, NEW e
  PROVE  (<<a>> \o <<b>>) \o <<c, d, e>> = <<a, b, c, d, e>>
<1>1. PICK X : X = {a, b, c, d, e}
  OBVIOUS
<1>2. <<a>> \in Seq(X) /\ <<b>> \in Seq(X) /\ <<c, d, e>> \in Seq(X)
      /\ <<a, b, c, d, e>> \in Seq(X)
      /\ <<a, b>> \in Seq(X)
  BY <1>1
<1>3. PICK r : r = <<a>> \o <<b>>
  OBVIOUS
<1>4. /\ r \in Seq(X) /\ Len(r) = 1 + 1
      /\ \A i \in 1..1 + 1 : r[i] = IF i <= 1 THEN <<a>>[i] ELSE <<b>>[i - 1]
  BY <1>2, <1>3, ConcatProperties
<1>5. r = <<a, b>>
  <2>1. \A i \in 1..2 : r[i] = <<a, b>>[i]
    BY <1>4
  <2>. QED
    BY <1>2, <1>4, <2>1, SeqEqual
<1>6. PICK s : s = <<a, b>> \o <<c, d, e>>
  OBVIOUS
<1>7. /\ s \in Seq(X) /\ Len(s) = 2 + 3
      /\ \A i \in 1..2 + 3 : s[i] = IF i <= 2 THEN <<a, b>>[i] ELSE <<c, d, e>>[i - 2]
  BY <1>2, <1>6, ConcatProperties
<1>8. \A i \in 1..5 : s[i] = <<a, b, c, d, e>>[i]
  BY <1>7
<1>9. s = <<a, b, c, d, e>>
  BY <1>2, <1>7, <1>8, SeqEqual
<1>. QED
  BY <1>3, <1>5, <1>6, <1>9

\* Or none where there might be one.
LEMMA NoneFirst ==
  ASSUME NEW a, NEW c, NEW d, NEW e
  PROVE  /\ (<<>> \o <<a>>) \o <<c, d, e>> = <<a>> \o <<c, d, e>>
         /\ (<<a>> \o <<>>) \o <<c, d, e>> = <<a>> \o <<c, d, e>>
<1>1. <<a>> \in Seq({a})
  OBVIOUS
<1>. QED
  BY <1>1, ConcatEmptySeq

\* What the beginning of a writer does to the calls.
LEMMA BeginFacts ==
  ASSUME MemberTypeOK, NEW h \in Handlers, NEW o \in Writers, NEW stmts \in Plans(o),
         NEW snap \in Snapshots, BeginWith(h, o, stmts, snap)
  PROVE  /\ call[h].op = "free" /\ h \notin Writing /\ calls' \in 0..MaxCalls
         /\ call' \in [Handlers -> Calls]
         /\ call'[h].op = o /\ call'[h].todo = stmts /\ call'[h].seen = snap
         /\ call'[h].alone => Writing = {}
         /\ Writing = {} => call'[h].alone
         /\ \A k \in Handlers \ {h} :
              /\ call'[k].op = call[k].op /\ call'[k].todo = call[k].todo
              /\ call'[k].seen = call[k].seen /\ (call'[k].late <=> call[k].late)
              /\ k \in Writing => ~call'[k].alone
<1>1. call[h].op = "free" /\ calls < MaxCalls /\ calls' = calls + 1
  BY DEF BeginWith, Arrive
<1>2. calls' \in 0..MaxCalls
  <2>1. calls \in 0..MaxCalls /\ MaxCalls \in Nat
    BY MemberTypes, MembershipsAssumption
  <2>. QED
    BY <1>1, <2>1
<1>3. PICK a \in BOOLEAN : a <=> Writing = {}
  OBVIOUS
<1>4. PICK c : c = [op |-> o, todo |-> stmts, seen |-> snap, late |-> FALSE,
           alone |-> Writing = {}]
  OBVIOUS
<1>5. c = [op |-> o, todo |-> stmts, seen |-> snap, late |-> FALSE, alone |-> a]
  BY <1>3, <1>4
<1>6. c \in Calls
  <2>1. o \in Ops
    BY DEF Ops
  <2>2. c \in CallRows
    BY <1>5, <2>1 DEF CallRows
  <2>. QED
    BY <1>5, <2>2 DEF Calls
<1>7. call'[h] = c
  BY <1>4 DEF BeginWith
<1>8. ASSUME NEW k \in Handlers, k /= h
      PROVE  /\ call'[k] \in Calls
             /\ call'[k].op = call[k].op /\ call'[k].todo = call[k].todo
             /\ call'[k].seen = call[k].seen /\ (call'[k].late <=> call[k].late)
             /\ k \in Writing => ~call'[k].alone
  <2>1. call'[k] = [call[k] EXCEPT !.alone = call[k].alone /\ k \notin Writing]
    BY <1>8 DEF BeginWith
  <2>2. PICK l \in BOOLEAN : l <=> call[k].alone /\ k \notin Writing
    OBVIOUS
  <2>3. PICK d : d = [call[k] EXCEPT !.alone = l]
    OBVIOUS
  <2>4. call'[k] = d
    BY <2>1, <2>2, <2>3
  <2>5. call[k] \in CallRows /\ call[k].todo \in Plans(call[k].op)
    BY CallFacts DEF Calls
  <2>6. d \in CallRows /\ d.op = call[k].op /\ d.todo = call[k].todo /\ d.seen = call[k].seen
        /\ (d.late <=> call[k].late) /\ (d.alone <=> l)
    BY <2>3, <2>5 DEF CallRows
  <2>. QED
    BY <2>2, <2>4, <2>5, <2>6 DEF Calls
<1>9. call' \in [Handlers -> Calls]
  BY <1>6, <1>7, <1>8 DEF BeginWith
<1>10. c.op = o /\ c.todo = stmts /\ c.seen = snap /\ (c.alone <=> Writing = {})
  BY <1>4
<1>. QED
  BY <1>1, <1>2, <1>7, <1>8, <1>9, <1>10 DEF Writing

\* A writer begins.
LEMMA BeginKeeps ==
  ASSUME MemberInv, NEW h \in Handlers, NEW o \in Writers, NEW stmts \in Plans(o),
         NEW snap \in Snapshots, BeginWith(h, o, stmts, snap), ~raced => AtMostOne(snap.first),
         token' \in [held : BOOLEAN, snap : Snapshots, clean : BOOLEAN, undos : 0..1,
              before : Snapshots],
         token'.snap = token.snap, TokenIsBefore',
         o = "edit" => snap = token'.before,
         o = "undo" /\ token'.clean => snap = token'.before,
         removed' \subseteq [team : Teams, flag : BOOLEAN],
         /\ Head(stmts).do \notin {"pick", "upsert", "refill", "invalidate"}
         /\ Head(stmts).do \in {"insert", "set"} => ~Head(stmts).flag
              /\ o \notin {"leave", "remove"}
         /\ ~raced /\ o = "transfer" /\ Head(stmts).do = "delete" /\ stmts[2].flag
              => primary \subseteq {Head(stmts).team}
  PROVE  MemberInv'
<1>1. /\ call[h].op = "free" /\ h \notin Writing /\ calls' \in 0..MaxCalls
      /\ call' \in [Handlers -> Calls]
      /\ call'[h].op = o /\ call'[h].todo = stmts /\ call'[h].seen = snap
      /\ call'[h].alone => Writing = {}
      /\ Writing = {} => call'[h].alone
      /\ \A k \in Handlers \ {h} :
           /\ call'[k].op = call[k].op /\ call'[k].todo = call[k].todo
           /\ call'[k].seen = call[k].seen /\ (call'[k].late <=> call[k].late)
           /\ k \in Writing => ~call'[k].alone
  BY BeginFacts DEF MemberInv
<1>2. /\ raced' = (raced \/ Writing /= {})
      /\ UNCHANGED <<live, memberOf, primary, cache, stale, aborts>>
  BY DEF BeginWith
<1>3. raced' \in BOOLEAN
  BY <1>2
<1>4. MemberTypeOK'
  BY <1>1, <1>2, <1>3, MemberTypes DEF MemberTypeOK, MemberInv
<1>5. Writing' = Writing \cup {h} /\ o \notin {"free", "request"}
  BY <1>1 DEF Writing, Writers
<1>6. AloneIsSole'
  <2>1. SUFFICES ASSUME NEW k \in Writing'
                 PROVE  /\ call'[k].alone => Writing' = {k}
                        /\ ~raced' => call'[k].alone
    BY DEF AloneIsSole
  <2>2. CASE k = h
    BY <1>1, <1>2, <1>5, <2>2
  <2>3. CASE k /= h
    <3>1. k \in Writing /\ k \in Handlers
      BY <1>5, <2>3 DEF Writing
    <3>. QED
      BY <1>1, <1>2, <2>3, <3>1
  <2>. QED
    BY <2>2, <2>3
<1>7. OneEach'
  <2>1. ~raced' => ~raced
    BY <1>2
  <2>. QED
    BY <1>1, <1>2, <2>1 DEF MemberInv, OneEach
<1>8. OnePrimaryWithoutRace'
  BY <1>2 DEF MemberInv, OnePrimaryWithoutRace
<1>9. ASSUME NEW k \in Handlers PROVE IsStaged(k)' /\ SnapshotIsBefore(k)'
  <2>1. CASE k = h
    <3>1. SnapshotIsBefore(k)'
      BY <1>1, <2>1 DEF SnapshotIsBefore
    <3>2. IsStaged(k)'
      <4>1. ~raced' => ~raced
        BY <1>2
      <4>. QED
        BY <1>1, <1>2, <2>1, <4>1 DEF IsStaged
    <3>. QED
      BY <3>1, <3>2
  <2>2. CASE k /= h
    <3>1. k \in Writing' => ~call'[k].alone
      BY <1>1, <1>5, <2>2
    <3>2. k \notin Writing' => call'[k].op \notin {"edit", "undo"}
      BY DEF Writing
    <3>. QED
      BY <3>1, <3>2 DEF IsStaged, SnapshotIsBefore
  <2>. QED
    BY <2>1, <2>2
<1>10. Owing => Owing'
  <2>1. SUFFICES ASSUME NEW k \in Writing, Owes(k)
                 PROVE  Owing'
    BY DEF Owing
  <2>2. k \in Handlers \ {h} /\ k \in Writing'
    BY <1>1, <1>5 DEF Writing
  <2>. QED
    BY <1>1, <2>1, <2>2 DEF Owing, Owes
<1>11. CacheIsCurrent'
  BY <1>2, <1>10 DEF CacheIsCurrent, MemberInv
<1>12. ASSUME NEW k \in Handlers PROVE ReadingIsCurrent(k)'
  <2>1. ReadingIsCurrent(k)
    BY DEF MemberInv
  <2>2. CASE k = h
    BY <1>1, <1>5, <2>2 DEF ReadingIsCurrent
  <2>3. CASE k /= h
    <3>1. call'[k].op = call[k].op /\ call'[k].seen = call[k].seen
               /\ (call'[k].late <=> call[k].late)
      BY <1>1, <2>3
    <3>. QED
      BY <1>2, <1>10, <2>1, <3>1 DEF ReadingIsCurrent
  <2>. QED
    BY <2>2, <2>3
<1>13. UndoneOnce'
  <2>1. token'.undos \in 0..1
    OBVIOUS
  <2>. QED
    BY <2>1 DEF UndoneOnce
<1>. QED
  BY <1>4, <1>6, <1>7, <1>8, <1>9, <1>11, <1>12, <1>13 DEF MemberInv

\* A statement is one of its kind.
LEMMA StatementKinds ==
  ASSUME NEW d, NEW t \in Teams
  PROVE  /\ \A f \in BOOLEAN : S(d, t, f) \in Some(d, BOOLEAN)
         /\ S(d, t, FALSE) \in Some(d, {FALSE}) /\ S(d, t, TRUE) \in Some(d, {TRUE})
<1>1. ASSUME NEW F, NEW f \in F
      PROVE  S(d, t, f) \in Some(d, F)
  BY DEF Some
<1>2. FALSE \in {FALSE} /\ TRUE \in {TRUE}
  BY Zenon
<1>. QED
  BY <1>1, <1>2, Zenon

\* The first statement needs nothing that is not so yet.
StartsWell(o, stmts) ==
  /\ Head(stmts).do \notin {"pick", "upsert", "refill", "invalidate"}
  /\ Head(stmts).do \in {"insert", "set"} => ~Head(stmts).flag /\ o \notin {"leave", "remove"}
  /\ o /= "transfer"

\* A snapshot is one, and has one primary team while nobody has raced.
LEMMA SnapshotFacts ==
  ASSUME MemberInv
  PROVE  Snapshot \in Snapshots /\ (~raced => AtMostOne(Snapshot.first))
BY MemberTypes DEF Snapshot, Snapshots, MemberInv, OneEach

\* A writer takes the cleanness of the token away.
LEMMA Disturbs ==
  ASSUME MemberInv, Disturbed
  PROVE  /\ token' \in [held : BOOLEAN, snap : Snapshots, clean : BOOLEAN, undos : 0..1,
              before : Snapshots]
         /\ token'.snap = token.snap /\ TokenIsBefore'
<1>1. token \in [held : BOOLEAN, snap : Snapshots, clean : BOOLEAN, undos : 0..1,
           before : Snapshots]
  BY MemberTypes DEF MemberInv
<1>2. /\ token' \in [held : BOOLEAN, snap : Snapshots, clean : BOOLEAN, undos : 0..1,
           before : Snapshots]
      /\ token'.snap = token.snap /\ ~token'.clean /\ token'.undos = token.undos
      /\ (token'.held <=> token.held)
  BY <1>1 DEF Disturbed
<1>. QED
  BY <1>2 DEF TokenIsBefore, MemberInv

\* A writer begins that has nothing to do with the undo token.
LEMMA WriteKeeps ==
  ASSUME MemberInv, NEW h \in Handlers, NEW o \in Writers, o /= "edit", o /= "undo",
         NEW stmts \in Plans(o), BeginCall(h, o, stmts), Disturbed,
         removed' \subseteq [team : Teams, flag : BOOLEAN], StartsWell(o, stmts)
  PROVE  MemberInv'
<1>1. Snapshot \in Snapshots /\ (~raced => AtMostOne(Snapshot.first))
  BY SnapshotFacts
<1>2. /\ token' \in [held : BOOLEAN, snap : Snapshots, clean : BOOLEAN, undos : 0..1,
           before : Snapshots]
      /\ token'.snap = token.snap /\ TokenIsBefore'
  BY Disturbs
<1>3. BeginWith(h, o, stmts, Snapshot)
  BY DEF BeginCall
<1>. QED
  BY <1>1, <1>2, <1>3, BeginKeeps DEF StartsWell

\* The statements with and without the clearing first.
LEMMA ClearFirst ==
  ASSUME NEW a, NEW b
  PROVE  Clearing(TRUE, <<a, b>>) = <<Do("clear"), a, b>> /\ Clearing(FALSE, <<a, b>>) = <<a, b>>
BY OneAndTwo DEF Clearing

\* join_team begins.
LEMMA JoinKeeps ==
  ASSUME MemberInv, NEW h \in Handlers, NEW t \in Teams, NEW f \in BOOLEAN, JoinTeam(h, t, f)
  PROVE  MemberInv'
<1>1. /\ BeginCall(h, "join", Clearing(f, <<S("insert", t, f), Last1>>))
      /\ Disturbed /\ UNCHANGED removed
  BY DEF JoinTeam, WriteMembers, Last1
<1>2. removed' \subseteq [team : Teams, flag : BOOLEAN] /\ "join" \in Writers
  BY <1>1, MemberTypes DEF MemberInv, Writers
<1>3. CASE f
  <2>1. f = TRUE
    BY <1>3
  <2>2. PICK s : s = S("insert", t, TRUE)
    OBVIOUS
  <2>3. BeginCall(h, "join", <<Do("clear"), s, Last1>>)
    BY <1>1, <2>1, <2>2, ClearFirst, Zenon
  <2>4. s \in Some("insert", {TRUE})
    BY <2>2, StatementKinds, Zenon
  <2>5. <<Do("clear"), s, Last1>> \in Plans("join")
    BY <2>4 DEF Plans
  <2>6. StartsWell("join", <<Do("clear"), s, Last1>>)
    BY Said, Three DEF StartsWell
  <2>. QED
    BY <1>1, <1>2, <2>3, <2>5, <2>6, WriteKeeps
<1>4. CASE ~f
  <2>1. f = FALSE
    BY <1>4
  <2>2. PICK s : s = S("insert", t, FALSE)
    OBVIOUS
  <2>3. BeginCall(h, "join", <<s, Last1>>)
    BY <1>1, <2>1, <2>2, ClearFirst, Zenon
  <2>4. s \in Some("insert", BOOLEAN)
    BY <2>2, StatementKinds, Flags, Zenon
  <2>5. s.do = "insert" /\ ~s.flag
    BY <2>2 DEF S
  <2>6. <<s, Last1>> \in Plans("join")
    BY <2>4 DEF Plans
  <2>7. StartsWell("join", <<s, Last1>>)
    BY <2>5, Two DEF StartsWell
  <2>. QED
    BY <1>1, <1>2, <2>3, <2>6, <2>7, WriteKeeps
<1>. QED
  BY <1>3, <1>4

\* update_membership_role begins.
LEMMA RoleKeeps ==
  ASSUME MemberInv, NEW h \in Handlers, NEW t \in Teams, NEW f \in BOOLEAN,
         UpdateMembershipRole(h, t, f)
  PROVE  MemberInv'
<1>1. /\ BeginCall(h, "role", Clearing(f, <<S("set", t, f), Last1>>))
      /\ Disturbed /\ UNCHANGED removed
  BY DEF UpdateMembershipRole, WriteMembers, Last1
<1>2. removed' \subseteq [team : Teams, flag : BOOLEAN] /\ "role" \in Writers
  BY <1>1, MemberTypes DEF MemberInv, Writers
<1>3. CASE f
  <2>1. f = TRUE
    BY <1>3
  <2>2. BeginCall(h, "role", <<Do("clear"), Mark(t), Last1>>)
    BY <1>1, <2>1, ClearFirst, Zenon DEF Mark
  <2>3. <<Do("clear"), Mark(t), Last1>> \in Plans("role")
    BY DEF Plans
  <2>4. StartsWell("role", <<Do("clear"), Mark(t), Last1>>)
    BY Said, Three DEF StartsWell
  <2>. QED
    BY <1>1, <1>2, <2>2, <2>3, <2>4, WriteKeeps
<1>4. CASE ~f
  <2>1. f = FALSE
    BY <1>4
  <2>2. PICK s : s = S("set", t, FALSE)
    OBVIOUS
  <2>3. BeginCall(h, "role", <<s, Last1>>)
    BY <1>1, <2>1, <2>2, ClearFirst, Zenon
  <2>4. s \in Some("set", BOOLEAN)
    BY <2>2, StatementKinds, Flags, Zenon
  <2>5. s.do = "set" /\ ~s.flag
    BY <2>2 DEF S
  <2>6. <<s, Last1>> \in Plans("role")
    BY <2>4 DEF Plans
  <2>7. StartsWell("role", <<s, Last1>>)
    BY <2>5, Two DEF StartsWell
  <2>. QED
    BY <1>1, <1>2, <2>3, <2>6, <2>7, WriteKeeps
<1>. QED
  BY <1>3, <1>4

\* add_member begins.
LEMMA AddKeeps ==
  ASSUME MemberInv, NEW h \in Handlers, NEW t \in Teams, AddMember(h, t)
  PROVE  MemberInv'
<1>1. BeginCall(h, "add", <<S("first?", t, FALSE), Last1>>) /\ Disturbed /\ UNCHANGED removed
  BY DEF AddMember, WriteMembers, Last1
<1>2. PICK s : s = S("first?", t, FALSE)
  OBVIOUS
<1>3. s \in Some("first?", {FALSE}) /\ s.do = "first?"
  BY <1>2, StatementKinds, Said, Zenon
<1>4. BeginCall(h, "add", <<s, Last1>>)
  BY <1>1, <1>2, Zenon
<1>5. removed' \subseteq [team : Teams, flag : BOOLEAN] /\ "add" \in Writers
  BY <1>1, MemberTypes DEF MemberInv, Writers
<1>6. <<s, Last1>> \in Plans("add")
  BY <1>3 DEF Plans
<1>7. StartsWell("add", <<s, Last1>>)
  BY <1>3, Said, Two DEF StartsWell
<1>. QED
  BY <1>1, <1>5, <1>6, <1>7, <1>4, WriteKeeps

\* leave_team begins.
LEMMA LeaveKeeps ==
  ASSUME MemberInv, NEW h \in Handlers, NEW t \in Teams, LeaveTeam(h, t)
  PROVE  MemberInv'
<1>1. BeginCall(h, "leave", <<S("delete", t, FALSE), Do("find"), Last1>>) /\ Disturbed
      /\ UNCHANGED removed
  BY DEF LeaveTeam, WriteMembers, Leaving, Last1
<1>2. PICK s : s = S("delete", t, FALSE)
  OBVIOUS
<1>3. s \in Some("delete", {FALSE}) /\ s.do = "delete"
  BY <1>2, StatementKinds, Said, Zenon
<1>4. BeginCall(h, "leave", <<s, Do("find"), Last1>>)
  BY <1>1, <1>2, Zenon
<1>5. removed' \subseteq [team : Teams, flag : BOOLEAN] /\ "leave" \in Writers
  BY <1>1, MemberTypes DEF MemberInv, Writers
<1>6. <<s, Do("find"), Last1>> \in Plans("leave")
  BY <1>3 DEF Plans
<1>7. StartsWell("leave", <<s, Do("find"), Last1>>)
  BY <1>3, Said, Three DEF StartsWell
<1>. QED
  BY <1>1, <1>5, <1>6, <1>7, <1>4, WriteKeeps

\* remove_team_member begins.
LEMMA RemoveKeeps ==
  ASSUME MemberInv, NEW h \in Handlers, NEW t \in Teams, RemoveTeamMember(h, t)
  PROVE  MemberInv'
<1>1. /\ BeginCall(h, "remove", <<S("delete", t, FALSE), Do("find"), Last1>>) /\ Disturbed
      /\ removed' = removed \cup {[team |-> t, flag |-> t \in primary]}
  BY DEF RemoveTeamMember, Leaving, Last1
<1>2. PICK s : s = S("delete", t, FALSE)
  OBVIOUS
<1>3. s \in Some("delete", {FALSE}) /\ s.do = "delete"
  BY <1>2, StatementKinds, Said, Zenon
<1>4. BeginCall(h, "remove", <<s, Do("find"), Last1>>)
  BY <1>1, <1>2, Zenon
<1>5. removed' \subseteq [team : Teams, flag : BOOLEAN] /\ "remove" \in Writers
  <2>1. removed \subseteq [team : Teams, flag : BOOLEAN]
    BY MemberTypes DEF MemberInv
  <2>2. PICK f \in BOOLEAN : f <=> t \in primary
    OBVIOUS
  <2>3. PICK e : e = [team |-> t, flag |-> t \in primary]
    OBVIOUS
  <2>4. e = [team |-> t, flag |-> f]
    BY <2>2, <2>3
  <2>5. e \in [team : Teams, flag : BOOLEAN]
    BY <2>4
  <2>6. removed' = removed \cup {e}
    BY <1>1, <2>3
  <2>. QED
    BY <2>1, <2>5, <2>6 DEF Writers
<1>6. <<s, Do("find"), Last1>> \in Plans("remove")
  BY <1>3 DEF Plans
<1>7. StartsWell("remove", <<s, Do("find"), Last1>>)
  BY <1>3, Said, Three DEF StartsWell
<1>. QED
  BY <1>1, <1>5, <1>6, <1>7, <1>4, WriteKeeps

\* bulk_remove_members begins.
LEMMA BulkKeeps ==
  ASSUME MemberInv, NEW h \in Handlers, NEW t \in Teams, BulkRemoveMembers(h, t)
  PROVE  MemberInv'
<1>1. BeginCall(h, "bulk", <<S("delete", t, FALSE), Last1>>) /\ Disturbed /\ UNCHANGED removed
  BY DEF BulkRemoveMembers, WriteMembers, Removing, Last1
<1>2. PICK s : s = S("delete", t, FALSE)
  OBVIOUS
<1>3. s \in Some("delete", {FALSE}) /\ s.do = "delete"
  BY <1>2, StatementKinds, Said, Zenon
<1>4. BeginCall(h, "bulk", <<s, Last1>>)
  BY <1>1, <1>2, Zenon
<1>5. removed' \subseteq [team : Teams, flag : BOOLEAN] /\ "bulk" \in Writers
  BY <1>1, MemberTypes DEF MemberInv, Writers
<1>6. <<s, Last1>> \in Plans("bulk")
  BY <1>3 DEF Plans
<1>7. StartsWell("bulk", <<s, Last1>>)
  BY <1>3, Said, Two DEF StartsWell
<1>. QED
  BY <1>1, <1>5, <1>6, <1>7, <1>4, WriteKeeps

\* set_primary_team begins.
LEMMA PrimaryKeeps ==
  ASSUME MemberInv, NEW h \in Handlers, NEW t \in Teams, SetPrimaryTeam(h, t)
  PROVE  MemberInv'
<1>1. BeginCall(h, "primary", <<Do("clear"), Mark(t), Last1>>) /\ Disturbed /\ UNCHANGED removed
  BY DEF SetPrimaryTeam, WriteMembers, Last1
<1>2. removed' \subseteq [team : Teams, flag : BOOLEAN] /\ "primary" \in Writers
  BY <1>1, MemberTypes DEF MemberInv, Writers
<1>3. <<Do("clear"), Mark(t), Last1>> \in Plans("primary")
  BY DEF Plans
<1>4. StartsWell("primary", <<Do("clear"), Mark(t), Last1>>)
  BY Said, Three DEF StartsWell
<1>. QED
  BY <1>1, <1>2, <1>3, <1>4, WriteKeeps

\* replace_memberships begins.
LEMMA ReplaceKeeps ==
  ASSUME MemberInv, NEW h \in Handlers, NEW t \in Teams, ReplaceMemberships(h, t)
  PROVE  MemberInv'
<1>1. BeginCall(h, "replace", <<Do("wipe"), S("insert", t, TRUE), Last1>>) /\ Disturbed
      /\ UNCHANGED removed
  BY DEF ReplaceMemberships, WriteMembers, Last1
<1>2. PICK s : s = S("insert", t, TRUE)
  OBVIOUS
<1>3. s \in Some("insert", {TRUE}) /\ s.do = "insert"
  BY <1>2, StatementKinds, Said, Zenon
<1>4. BeginCall(h, "replace", <<Do("wipe"), s, Last1>>)
  BY <1>1, <1>2, Zenon
<1>5. removed' \subseteq [team : Teams, flag : BOOLEAN] /\ "replace" \in Writers
  BY <1>1, MemberTypes DEF MemberInv, Writers
<1>6. <<Do("wipe"), s, Last1>> \in Plans("replace")
  BY <1>3 DEF Plans
<1>7. StartsWell("replace", <<Do("wipe"), s, Last1>>)
  BY <1>3, Said, Three DEF StartsWell
<1>. QED
  BY <1>1, <1>5, <1>6, <1>7, <1>4, WriteKeeps

\* delete_team begins.
LEMMA DropKeeps ==
  ASSUME MemberInv, NEW h \in Handlers, NEW t \in Teams, DeleteTeam(h, t)
  PROVE  MemberInv'
<1>1. BeginCall(h, "drop", <<S("retire", t, FALSE), S("expel", t, FALSE)>>) /\ Disturbed
      /\ UNCHANGED removed
  BY DEF DeleteTeam, WriteMembers
<1>2. PICK s : s = S("retire", t, FALSE)
  OBVIOUS
<1>3. PICK u : u = S("expel", t, FALSE)
  OBVIOUS
<1>4. s \in Some("retire", {FALSE}) /\ s.do = "retire" /\ u \in Some("expel", {FALSE})
  BY <1>2, <1>3, StatementKinds, Said, Zenon
<1>5. BeginCall(h, "drop", <<s, u>>)
  BY <1>1, <1>2, <1>3, Zenon
<1>6. removed' \subseteq [team : Teams, flag : BOOLEAN] /\ "drop" \in Writers
  BY <1>1, MemberTypes DEF MemberInv, Writers
<1>7. <<s, u>> \in Plans("drop")
  BY <1>4 DEF Plans
<1>8. StartsWell("drop", <<s, u>>)
  BY <1>4, Two DEF StartsWell
<1>. QED
  BY <1>1, <1>5, <1>6, <1>7, <1>8, WriteKeeps

\* The restore of a removed membership begins.
LEMMA ReinstateKeeps ==
  ASSUME MemberInv, NEW h \in Handlers, NEW e \in removed, ReinstateMembership(h, e)
  PROVE  MemberInv'
<1>. DEFINE d == IF e.team \in memberOf THEN "restore" ELSE "reinsert"
<1>1. /\ BeginCall(h, "reinstate", <<S(d, e.team, e.flag), Last1>>) /\ Disturbed
      /\ removed' = removed \ {e}
  BY DEF ReinstateMembership, Last1
<1>2. removed' \subseteq [team : Teams, flag : BOOLEAN] /\ "reinstate" \in Writers
  BY <1>1, MemberTypes DEF MemberInv, Writers
<1>3. e.team \in Teams /\ e.flag \in BOOLEAN
  BY MemberTypes DEF MemberInv
<1>4. PICK s : s = S(d, e.team, e.flag)
  OBVIOUS
<1>5. s \in Some("restore", BOOLEAN) \cup Some("reinsert", BOOLEAN)
  BY <1>3, <1>4, StatementKinds
<1>6. <<s, Last1>> \in Plans("reinstate")
  BY <1>5 DEF Plans
<1>7. StartsWell("reinstate", <<s, Last1>>)
  <2>1. s.do \in {"restore", "reinsert"}
    BY <1>4, Said
  <2>. QED
    BY <2>1, Two DEF StartsWell
<1>. QED
  BY <1>1, <1>2, <1>4, <1>6, <1>7, WriteKeeps

\* transfer_agents begins.
LEMMA TransferKeeps ==
  ASSUME MemberInv, NEW h \in Handlers, NEW t \in Teams, NEW u \in Teams, TransferAgents(h, t, u)
  PROVE  MemberInv'
<1>1. /\ BeginCall(h, "transfer", <<S("delete", t, FALSE), S("upsert", u, t \in primary), Last1>>)
      /\ Disturbed /\ UNCHANGED removed
  BY DEF TransferAgents, WriteMembers, Last1
<1>2. removed' \subseteq [team : Teams, flag : BOOLEAN] /\ "transfer" \in Writers
  BY <1>1, MemberTypes DEF MemberInv, Writers
<1>3. PICK f \in BOOLEAN : f <=> t \in primary
  OBVIOUS
<1>4. PICK s : s = S("upsert", u, t \in primary)
  OBVIOUS
<1>5. s = S("upsert", u, f)
  BY <1>3, <1>4
<1>6. s \in Some("upsert", BOOLEAN) /\ s.flag = f
  BY <1>5, StatementKinds DEF S
<1>7. PICK r : r = S("delete", t, FALSE)
  OBVIOUS
<1>8. r \in Some("delete", {FALSE}) /\ r.do = "delete" /\ r.team = t
  <2>1. r \in Some("delete", {FALSE})
    BY <1>7, StatementKinds, Zenon
  <2>. QED
    BY <1>7, <2>1 DEF S
<1>9. PICK stmts : stmts = <<r, s, Last1>>
  OBVIOUS
<1>10. stmts \in Plans("transfer")
  BY <1>6, <1>8, <1>9 DEF Plans
<1>11. Head(stmts) = r /\ stmts[2] = s
  BY <1>9, Three
<1>12. BeginWith(h, "transfer", stmts, Snapshot)
  BY <1>1, <1>4, <1>7, <1>9 DEF BeginCall
<1>13. ~raced /\ s.flag => primary \subseteq {t}
  BY <1>3, <1>6 DEF MemberInv, OneEach, AtMostOne
<1>14. Snapshot \in Snapshots /\ (~raced => AtMostOne(Snapshot.first))
  BY SnapshotFacts
<1>15. /\ token' \in [held : BOOLEAN, snap : Snapshots, clean : BOOLEAN, undos : 0..1,
            before : Snapshots]
       /\ token'.snap = token.snap /\ TokenIsBefore'
  BY <1>1, Disturbs
<1>. QED
  BY <1>2, <1>8, <1>10, <1>11, <1>12, <1>13, <1>14, <1>15, BeginKeeps

\* batch_edit_members begins.
LEMMA EditKeeps ==
  ASSUME MemberInv, NEW h \in Handlers, NEW add \in SUBSET Teams, NEW drop \in SUBSET Teams,
         BatchEditMembers(h, add, drop)
  PROVE  MemberInv'
<1>1. PICK a : a = IF add = {} THEN <<>> ELSE <<S("ignore", CHOOSE t \in add : TRUE, FALSE)>>
  OBVIOUS
<1>2. PICK b : b = IF drop = {} THEN <<>> ELSE <<S("delete", CHOOSE t \in drop : TRUE, FALSE)>>
  OBVIOUS
<1>3. PICK stmts : stmts = (a \o b) \o <<Do("find"), Last1, Do("token")>>
  OBVIOUS
<1>4. /\ add \cup drop /= {} /\ BeginWith(h, "edit", stmts, Snapshot)
      /\ token' = [token EXCEPT !.clean = FALSE, !.before = Snapshot] /\ UNCHANGED removed
  BY <1>1, <1>2, <1>3 DEF BatchEditMembers, BeginCall, Last1
<1>5. add /= {} => \E s \in Some("ignore", {FALSE}) : a = <<s>>
  BY <1>1, StatementKinds
<1>6. drop /= {} => \E s \in Some("delete", {FALSE}) : b = <<s>>
  BY <1>2, StatementKinds
<1>7. (add = {} => a = <<>>) /\ (drop = {} => b = <<>>)
  BY <1>1, <1>2
<1>8. stmts \in Plans("edit") /\ Head(stmts).do \in {"ignore", "delete"}
  <2>1. CASE add /= {} /\ drop /= {}
    <3>1. PICK s \in Some("ignore", {FALSE}) : a = <<s>>
      BY <1>5, <2>1
    <3>2. PICK u \in Some("delete", {FALSE}) : b = <<u>>
      BY <1>6, <2>1
    <3>3. stmts = <<s, u, Do("find"), Last1, Do("token")>>
      BY <1>3, <3>1, <3>2, TwoAndThree
    <3>4. stmts \in Plans("edit")
      BY <3>3 DEF Plans
    <3>. QED
      BY <3>3, <3>4, Five, Said
  <2>2. CASE add /= {} /\ drop = {}
    <3>1. PICK s \in Some("ignore", {FALSE}) : a = <<s>>
      BY <1>5, <2>2
    <3>2. stmts = <<s, Do("find"), Last1, Do("token")>>
      BY <1>3, <1>7, <2>2, <3>1, OneAndThree, NoneFirst
    <3>3. stmts \in Plans("edit")
      BY <3>2 DEF Plans
    <3>. QED
      BY <3>2, <3>3, Four, Said
  <2>3. CASE add = {} /\ drop /= {}
    <3>1. PICK s \in Some("delete", {FALSE}) : b = <<s>>
      BY <1>6, <2>3
    <3>2. stmts = <<s, Do("find"), Last1, Do("token")>>
      BY <1>3, <1>7, <2>3, <3>1, OneAndThree, NoneFirst
    <3>3. stmts \in Plans("edit")
      BY <3>2 DEF Plans
    <3>. QED
      BY <3>2, <3>3, Four, Said
  <2>. QED
    BY <1>4, <2>1, <2>2, <2>3
<1>9. Snapshot \in Snapshots /\ (~raced => AtMostOne(Snapshot.first))
  BY SnapshotFacts
<1>10. /\ token' \in [held : BOOLEAN, snap : Snapshots, clean : BOOLEAN, undos : 0..1,
            before : Snapshots]
       /\ token'.snap = token.snap /\ TokenIsBefore' /\ token'.before = Snapshot
  <2>1. token \in [held : BOOLEAN, snap : Snapshots, clean : BOOLEAN, undos : 0..1,
             before : Snapshots]
    BY MemberTypes DEF MemberInv
  <2>2. PICK n \in Snapshots : n = Snapshot
    BY <1>9
  <2>3. token' = [token EXCEPT !.clean = FALSE, !.before = n]
    BY <1>4, <2>2
  <2>4. /\ token' \in [held : BOOLEAN, snap : Snapshots, clean : BOOLEAN, undos : 0..1,
             before : Snapshots]
        /\ token'.snap = token.snap /\ ~token'.clean /\ token'.undos = token.undos
        /\ (token'.held <=> token.held) /\ token'.before = n
    BY <2>1, <2>3
  <2>. QED
    BY <2>2, <2>4 DEF TokenIsBefore, MemberInv
<1>11. removed' \subseteq [team : Teams, flag : BOOLEAN] /\ "edit" \in Writers
  BY <1>4, MemberTypes DEF MemberInv, Writers
<1>. QED
  BY <1>4, <1>8, <1>9, <1>10, <1>11, BeginKeeps

\* undo_batch_edit begins.
LEMMA UndoKeeps ==
  ASSUME MemberInv, NEW h \in Handlers, UndoBatchEdit(h)
  PROVE  MemberInv'
<1>1. /\ token.held /\ BeginWith(h, "undo", <<Do("wipe"), Do("refill"), Last1>>, token.snap)
      /\ token' = [token EXCEPT !.held = FALSE, !.undos = token.undos + 1]
      /\ UNCHANGED removed
  BY DEF UndoBatchEdit, Undo, Last1
<1>2. token \in [held : BOOLEAN, snap : Snapshots, clean : BOOLEAN, undos : 0..1,
           before : Snapshots]
  BY MemberTypes DEF MemberInv
<1>3. token.undos = 0 /\ (token.clean => token.snap = token.before)
  BY <1>1 DEF MemberInv, TokenIsBefore
<1>4. token' = [token EXCEPT !.held = FALSE, !.undos = 1]
  BY <1>1, <1>3
<1>5. /\ token' \in [held : BOOLEAN, snap : Snapshots, clean : BOOLEAN, undos : 0..1,
           before : Snapshots]
      /\ token'.snap = token.snap /\ (token'.clean <=> token.clean)
           /\ token'.before = token.before
      /\ ~token'.held
  <2>1. PICK x : x = FALSE
    OBVIOUS
  <2>2. PICK v : v = [token EXCEPT !.held = FALSE, !.undos = 1]
    OBVIOUS
  <2>3. v = [token EXCEPT !.held = x, !.undos = 1]
    BY <2>1, <2>2
  <2>4. x \in BOOLEAN /\ 1 \in 0..1 /\ token' = v
    <3>1. token' = v
      BY <1>4, <2>2, Zenon
    <3>2. x \in BOOLEAN
      BY <2>1, Zenon
    <3>. QED
      BY <3>1, <3>2
  <2>5. token' \in [held : BOOLEAN, snap : Snapshots, clean : BOOLEAN, undos : 0..1,
             before : Snapshots]
    BY <1>2, <2>3, <2>4
  <2>6. token'.snap = token.snap /\ (token'.clean <=> token.clean) /\ token'.before = token.before
    BY <1>2, <2>3, <2>4
  <2>7. token'.held = x
    BY <1>2, <2>3, <2>4
  <2>. QED
    BY <2>1, <2>5, <2>6, <2>7
<1>6. TokenIsBefore'
  BY <1>5 DEF TokenIsBefore
<1>7. token.snap \in Snapshots /\ (~raced => AtMostOne(token.snap.first))
  BY <1>2 DEF MemberInv, OneEach
<1>8. PICK stmts : stmts = <<Do("wipe"), Do("refill"), Last1>>
  OBVIOUS
<1>9. stmts \in Plans("undo") /\ Head(stmts).do = "wipe"
  BY <1>8, Three, Said DEF Plans
<1>10. removed' \subseteq [team : Teams, flag : BOOLEAN] /\ "undo" \in Writers
  BY <1>1, MemberTypes DEF MemberInv, Writers
<1>. QED
  BY <1>1, <1>3, <1>5, <1>6, <1>7, <1>8, <1>9, <1>10, BeginKeeps

\* Nobody has asked for anything.
LEMMA MemberInitially == MemberInit => MemberInv
<1>. SUFFICES ASSUME MemberInit
              PROVE  MemberInv
  OBVIOUS
<1>1. /\ live = Teams /\ memberOf \subseteq {AnyTeam} /\ primary = memberOf
      /\ cache = NoCache /\ token = NoToken /\ removed = {}
      /\ call = [h \in Handlers |-> Free]
      /\ raced = FALSE /\ stale = FALSE /\ calls = 0 /\ aborts = 0
  BY DEF MemberInit
<1>2. \A h \in Handlers : call[h] = Free
  BY <1>1
<1>3. Writing = {}
  BY <1>2, FreeFacts DEF Writing
<1>4. ~NoCache.held /\ NoCache \in [held : BOOLEAN, teams : SUBSET Teams]
  BY DEF NoCache
<1>5. Nothing \in Snapshots
  BY DEF Nothing, Snapshots
<1>6. /\ NoToken \in [held : BOOLEAN, snap : Snapshots, clean : BOOLEAN, undos : 0..1,
           before : Snapshots]
      /\ ~NoToken.held /\ NoToken.snap = Nothing /\ NoToken.undos = 0
  BY <1>5 DEF NoToken
<1>7. MemberTypeOK
  <2>1. memberOf \subseteq Teams
    BY <1>1, AnyTeamIsOne
  <2>2. call \in [Handlers -> Calls]
    BY <1>1, FreeIsACall
  <2>3. calls \in 0..MaxCalls /\ aborts \in 0..MaxAborts
    BY <1>1, MembershipsAssumption
  <2>4. raced \in BOOLEAN /\ stale \in BOOLEAN
    BY <1>1
  <2>. QED
    BY <1>1, <1>4, <1>6, <2>1, <2>2, <2>3, <2>4 DEF MemberTypeOK
<1>8. AtMostOne(primary) /\ AtMostOne(Nothing.first)
  BY <1>1, FreeFacts DEF AtMostOne
<1>9. OnePrimaryWithoutRace
  BY <1>8, OneIsOne DEF OnePrimaryWithoutRace
<1>10. CacheIsCurrent /\ UndoneOnce /\ TokenIsBefore /\ AloneIsSole
  BY <1>1, <1>3, <1>4, <1>6 DEF CacheIsCurrent, UndoneOnce, TokenIsBefore, AloneIsSole
<1>11. OneEach
  BY <1>1, <1>2, <1>6, <1>8, FreeFacts DEF OneEach
<1>12. \A h \in Handlers : IsStaged(h) /\ SnapshotIsBefore(h) /\ ReadingIsCurrent(h)
  BY <1>2, <1>3, FreeFacts DEF IsStaged, SnapshotIsBefore, ReadingIsCurrent
<1>. QED
  BY <1>7, <1>9, <1>10, <1>11, <1>12 DEF MemberInv

\* Nothing happens.
LEMMA MembersStill ==
  ASSUME MemberInv, UNCHANGED memberVars
  PROVE  MemberInv'
<1>1. UNCHANGED <<live, memberOf, primary, cache, call, token, removed, raced, stale, calls,
           aborts>>
  BY DEF memberVars
<1>2. MemberTypeOK'
  BY <1>1 DEF MemberInv, MemberTypeOK
<1>3. CacheIsCurrent' /\ UndoneOnce' /\ TokenIsBefore' /\ AloneIsSole' /\ OneEach'
      /\ OnePrimaryWithoutRace'
  BY <1>1 DEF MemberInv, CacheIsCurrent, UndoneOnce, TokenIsBefore, AloneIsSole, OneEach,
              OnePrimaryWithoutRace, Owing, Owes, Writing
<1>4. \A h \in Handlers : IsStaged(h)' /\ SnapshotIsBefore(h)' /\ ReadingIsCurrent(h)'
  BY <1>1 DEF MemberInv, IsStaged, SnapshotIsBefore, ReadingIsCurrent, Owing, Owes, Writing
<1>. QED
  BY <1>2, <1>3, <1>4 DEF MemberInv

\* Every statement keeps the invariant.
LEMMA StatementKeeps ==
  ASSUME MemberInv, NEW h \in Handlers, Statement(h)
  PROVE  MemberInv'
BY ChangeKeeps, InsertKeeps, AskFirstKeeps, FindPrimaryKeeps, PickNextKeeps, RefillKeeps,
   ExpelKeeps,
   InvalidateKeeps, GiveTokenKeeps, PutKeeps DEF Statement

\* Every step keeps the invariant.
LEMMA MemberStep ==
  ASSUME MemberInv, MemberNext
  PROVE  MemberInv'
BY JoinKeeps, RoleKeeps, AddKeeps, LeaveKeeps, RemoveKeeps, BulkKeeps, PrimaryKeeps, TransferKeeps,
   ReplaceKeeps,
   DropKeeps, ReinstateKeeps, EditKeeps, UndoKeeps, AuthenticateKeeps, StatementKeeps, AbortKeeps,
   ExpiryKeeps DEF MemberNext

\* Two primary teams, a cache that nobody will correct, or a batch edit undone twice take a race,
\* a failed request, a late put or a deleted team, whichever requests are in flight and whatever
\* the teams (MemberInv).
THEOREM MembershipsAreSound == MemberSpec => []MemberInv
<1>1. MemberInv /\ [MemberNext]_memberVars => MemberInv'
  BY MemberStep, MembersStill
<1>. QED
  BY <1>1, MemberInitially, PTL DEF MemberSpec

\* What one request does leaves the others under way.
LEMMA OthersGoOn ==
  ASSUME MemberTypeOK, NEW h \in Handlers, call[h].op /= "free", NEW k \in Handlers, k /= h,
         \/ Statement(k) \/ CallFailed(k)
  PROVE  call'[h].op = call[h].op
<1>1. LateReaders[h].op = call[h].op /\ call \in [Handlers -> Calls]
  BY LateFacts, MemberTypes
<1>2. CASE CallFailed(k)
  BY <1>1, <1>2, LateFacts DEF CallFailed
<1>3. CASE Advance(k)
  BY <1>1, <1>3 DEF Advance
<1>4. ASSUME NEW s, Instead(k, s) PROVE call'[h].op = call[h].op
  BY <1>1, <1>4 DEF Instead
<1>5. CASE Expel(k)
  BY <1>1, <1>5, LateFacts DEF Expel
<1>6. CASE InvalidateTeams(k)
  BY <1>1, <1>6 DEF InvalidateTeams
<1>7. CASE InsertMember(k)
  BY <1>2, <1>3, <1>7 DEF InsertMember
<1>. QED
  BY <1>2, <1>3, <1>4, <1>5, <1>6, <1>7
     DEF Statement, Change, AskFirst, FindPrimary, PickNext, Refill, GiveToken, PutTeams

\* A request that begins leaves the others under way.
LEMMA BeginsAlone ==
  ASSUME MemberTypeOK, NEW h \in Handlers, call[h].op /= "free", NEW k \in Handlers,
         NEW o, NEW stmts, NEW snap, BeginWith(k, o, stmts, snap)
  PROVE  call'[h].op = call[h].op
<1>1. k /= h
  BY DEF BeginWith, Arrive
<1>2. call'[h] = [call[h] EXCEPT !.alone = call[h].alone /\ h \notin Writing]
  BY <1>1 DEF BeginWith
<1>3. call[h] \in CallRows
  BY CallFacts DEF Calls
<1>. QED
  BY <1>2, <1>3 DEF CallRows

\* A call that ends does so by a statement of its own.
LEMMA EndsByItself ==
  ASSUME MemberTypeOK, MemberNext, NEW h \in Handlers, call[h].op /= "free",
         call'[h] = Free, aborts' = aborts
  PROVE  Statement(h)
<1>1. call'[h].op /= call[h].op /\ aborts \in Nat
  BY FreeFacts, MemberTypes
<1>2. \A o, stmts, snap : \A k \in Handlers : ~BeginWith(k, o, stmts, snap)
  BY <1>1, BeginsAlone
<1>3. \A o, stmts : \A k \in Handlers : ~BeginCall(k, o, stmts) /\ ~WriteMembers(k, o, stmts)
  BY <1>2 DEF BeginCall, WriteMembers
<1>4. \A k \in Handlers : ~Abort(k)
  BY <1>1 DEF Abort
<1>5. ASSUME NEW k \in Handlers PROVE ~Authenticate(k)
  <2>1. call \in [Handlers -> Calls]
    BY MemberTypes
  <2>. QED
    BY <1>1, <2>1 DEF Authenticate, Arrive
<1>6. ~CacheExpires
  BY <1>1 DEF CacheExpires
<1>7. \E k \in Handlers : Statement(k)
  BY <1>2, <1>3, <1>4, <1>5, <1>6
     DEF MemberNext, JoinTeam, UpdateMembershipRole, AddMember, LeaveTeam, RemoveTeamMember,
          BulkRemoveMembers, SetPrimaryTeam,
         TransferAgents, ReplaceMemberships, DeleteTeam, ReinstateMembership, BatchEditMembers,
              UndoBatchEdit,
         Undo
<1>. QED
  BY <1>1, <1>7, OthersGoOn

\* Its last statement is the invalidation.
LEMMA EndsByInvalidating ==
  ASSUME MemberInv, MemberNext, NEW h \in Handlers, Ends(h, {"leave", "remove", "undo"})
  PROVE  /\ Head(call[h].todo).do = "invalidate" /\ h \in Writing /\ call[h].alone
         /\ UNCHANGED <<memberOf, primary>>
<1>1. /\ call[h].op \in {"leave", "remove", "undo"} /\ call[h].alone
      /\ Len(call[h].todo) = 1 /\ call'[h] = Free /\ aborts' = aborts
  BY DEF Ends
<1>2. Statement(h)
  BY <1>1, EndsByItself DEF MemberInv
<1>3. call[h].op /= "free" /\ Fits(call[h].op, call[h].todo) /\ h \in Writing
  BY <1>1, CallFacts DEF MemberInv, Writers
<1>4. LastDo(call[h].op, Head(call[h].todo).do)
  BY <1>1, <1>3 DEF Fits
<1>5. Head(call[h].todo).do = "invalidate"
  BY <1>1, <1>4 DEF LastDo
<1>6. InvalidateTeams(h)
  BY <1>2, <1>5
     DEF Statement, Change, InsertMember, AskFirst, FindPrimary, PickNext, Refill, Expel,
          GiveToken,
                    PutTeams, Head1
<1>. QED
  BY <1>1, <1>3, <1>5, <1>6 DEF InvalidateTeams

\* Every step keeps a primary team for who leaves a team.
LEMMA LeavingStep ==
  ASSUME MemberInv, MemberNext, NEW h \in Handlers
  PROVE  KeepsAPrimary(h)
<1>. SUFFICES ASSUME Ends(h, {"leave", "remove"})
              PROVE  memberOf' = {} \/ primary' /= {}
  BY DEF KeepsAPrimary
<1>1. Ends(h, {"leave", "remove", "undo"}) /\ call[h].op \in {"leave", "remove"}
  BY DEF Ends
<1>2. /\ Head(call[h].todo).do = "invalidate" /\ h \in Writing /\ call[h].alone
      /\ UNCHANGED <<memberOf, primary>>
  BY <1>1, EndsByInvalidating
<1>3. IsStaged(h)
  BY DEF MemberInv
<1>. QED
  BY <1>1, <1>2, <1>3 DEF IsStaged

\* Every step has an undo give back what was there.
LEMMA UndoingStep ==
  ASSUME MemberInv, MemberNext, NEW h \in Handlers
  PROVE  Restores(h)
<1>. SUFFICES ASSUME Ends(h, {"undo"}), token.clean
              PROVE  memberOf' = token.before.of /\ primary' = token.before.first
  BY DEF Restores
<1>1. Ends(h, {"leave", "remove", "undo"}) /\ call[h].op = "undo"
  BY DEF Ends
<1>2. /\ Head(call[h].todo).do = "invalidate" /\ h \in Writing /\ call[h].alone
      /\ UNCHANGED <<memberOf, primary>>
  BY <1>1, EndsByInvalidating
<1>3. IsStaged(h) /\ SnapshotIsBefore(h)
  BY DEF MemberInv
<1>4. memberOf = call[h].seen.of /\ primary = call[h].seen.first
  BY <1>1, <1>2, <1>3 DEF IsStaged
<1>5. call[h].seen = token.before
  BY <1>1, <1>2, <1>3 DEF SnapshotIsBefore
<1>. QED
  BY <1>2, <1>4, <1>5

\* A departure that nothing interferes with ends with a primary team if any membership is left,
\* and an undo with the memberships of before (MemberSteps).
THEOREM MembershipsStepSoundly == MemberSpec => MemberSteps
<1>1. MemberInv /\ [MemberNext]_memberVars => [\A h \in Handlers : KeepsAPrimary(h)]_memberVars
  BY LeavingStep
<1>2. MemberInv /\ [MemberNext]_memberVars => [\A h \in Handlers : Restores(h)]_memberVars
  BY UndoingStep
<1>. QED
  BY <1>1, <1>2, MembershipsAreSound, PTL
     DEF MemberSpec, MemberSteps, LeavingKeepsAPrimary, UndoRestores

-----------------------------------------------------------------------------
(* Alerts.                                                                  *)

\* The bounds and the configuration are numbers.
LEMMA AlertNumbers ==
  /\ MaxPerHour \in Nat /\ AlertHour \in Nat /\ Recipients \in Nat
  /\ MaxTick \in Nat /\ MaxAlertLost \in Nat
BY AlertsAssumption

\* What a row says that a channel has been dealt with.
LEMMA TailOfChannels ==
  ASSUME NEW q \in Seq(Channels), q /= <<>>
  PROVE  /\ Head(q) \in Channels /\ Tail(q) \in Seq(Channels)
         /\ Items(q) = {Head(q)} \cup Items(Tail(q))
         /\ EachOnce(q) => EachOnce(Tail(q)) /\ Head(q) \notin Items(Tail(q))
<1>1. Head(q) \in Channels /\ Tail(q) \in Seq(Channels) /\ Len(q) \in Nat /\ Len(q) > 0
      /\ DOMAIN q = 1..Len(q) /\ Head(q) = q[1]
  OBVIOUS
<1>2. DOMAIN Tail(q) = 1..(Len(q) - 1) /\ \A i \in 1..(Len(q) - 1) : Tail(q)[i] = q[i + 1]
  OBVIOUS
<1>3. Items(q) \subseteq {Head(q)} \cup Items(Tail(q))
  <2>. SUFFICES ASSUME NEW i \in DOMAIN q PROVE q[i] = Head(q) \/ q[i] \in Items(Tail(q))
    BY DEF Items
  <2>1. CASE i = 1
    BY <2>1, <1>1
  <2>2. CASE i /= 1
    <3>1. i - 1 \in DOMAIN Tail(q) /\ Tail(q)[i - 1] = q[i]
      BY <2>2, <1>1, <1>2
    <3>. QED  BY <3>1 DEF Items
  <2>. QED  BY <2>1, <2>2
<1>4. {Head(q)} \cup Items(Tail(q)) \subseteq Items(q)
  <2>1. Head(q) \in Items(q)
    BY <1>1 DEF Items
  <2>2. ASSUME NEW i \in DOMAIN Tail(q) PROVE Tail(q)[i] \in Items(q)
    BY <1>1, <1>2 DEF Items
  <2>. QED  BY <2>1, <2>2 DEF Items
<1>5. EachOnce(q) => EachOnce(Tail(q)) /\ Head(q) \notin Items(Tail(q))
  <2>. SUFFICES ASSUME EachOnce(q) PROVE EachOnce(Tail(q)) /\ Head(q) \notin Items(Tail(q))
    OBVIOUS
  <2>1. \A i, j \in 1..Len(q) : q[i] = q[j] => i = j
    BY <1>1 DEF EachOnce
  <2>2. EachOnce(Tail(q))
    <3>. SUFFICES ASSUME NEW i \in 1..(Len(q) - 1), NEW j \in 1..(Len(q) - 1), q[i + 1] = q[j + 1]
                  PROVE  i = j
      BY <1>2 DEF EachOnce
    <3>. QED  BY <2>1, <1>1
  <2>3. Head(q) \notin Items(Tail(q))
    <3>. SUFFICES ASSUME NEW i \in 1..(Len(q) - 1), q[i + 1] = q[1] PROVE FALSE
      BY <1>1, <1>2 DEF Items
    <3>. QED  BY <2>1, <1>1
  <2>. QED  BY <2>2, <2>3
<1>. QED  BY <1>1, <1>3, <1>4, <1>5

\* No channel is left in the empty list.
LEMMA NoChannels == Items(<<>>) = {} /\ EachOnce(<<>>) /\ <<>> \in Seq(Channels)
BY DEF Items, EachOnce

\* An alert not yet raised.
LEMMA NoAlertFields ==
  /\ NoAlert.at = "idle" /\ NoAlert.level = "" /\ NoAlert.born = 0
  /\ NoAlert.todo = <<>> /\ NoAlert.sent = {} /\ NoAlert.failed = {}
  /\ NoAlert.stage = "" /\ NoAlert.rcpt = 0
BY DEF NoAlert

\* It is a row.
LEMMA NoAlertTyped == NoAlert \in AlertRows
BY AlertNumbers, NoChannels DEF NoAlert, AlertRows

\* The next channel took the alert.
LEMMA SentRow ==
  ASSUME NEW a \in AlertRows, a.todo /= <<>>
  PROVE  LET r == ChannelSent(a)
         IN  /\ r \in AlertRows
             /\ r.at = a.at /\ r.level = a.level /\ r.born = a.born /\ (r.limited <=> a.limited)
             /\ r.todo = Tail(a.todo) /\ r.sent = a.sent \cup {Head(a.todo)}
             /\ r.failed = a.failed
             /\ r.stage = "" /\ r.rcpt = 0
<1>1. Head(a.todo) \in Channels /\ Tail(a.todo) \in Seq(Channels)
  BY TailOfChannels DEF AlertRows
<1>2. 0 \in 0..Recipients /\ a.sent \cup {Head(a.todo)} \in SUBSET Channels
  <2>1. 0 \in 0..Recipients
    BY AlertNumbers
  <2>2. a.sent \subseteq Channels
    BY DEF AlertRows
  <2>. QED  BY <1>1, <2>1, <2>2
<1>3. ChannelSent(a) \in AlertRows
  BY <1>1, <1>2 DEF ChannelSent, AlertRows
<1>. QED  BY <1>3 DEF ChannelSent, AlertRows

\* The next channel failed.
LEMMA FailedRow ==
  ASSUME NEW a \in AlertRows, a.todo /= <<>>
  PROVE  LET r == ChannelFailed(a)
         IN  /\ r \in AlertRows
             /\ r.at = a.at /\ r.level = a.level /\ r.born = a.born /\ (r.limited <=> a.limited)
             /\ r.todo = Tail(a.todo) /\ r.sent = a.sent
             /\ r.failed = a.failed \cup {Head(a.todo)}
             /\ r.stage = "" /\ r.rcpt = 0
<1>1. Head(a.todo) \in Channels /\ Tail(a.todo) \in Seq(Channels)
  BY TailOfChannels DEF AlertRows
<1>2. 0 \in 0..Recipients /\ a.failed \cup {Head(a.todo)} \in SUBSET Channels
  <2>1. 0 \in 0..Recipients
    BY AlertNumbers
  <2>2. a.failed \subseteq Channels
    BY DEF AlertRows
  <2>. QED  BY <1>1, <2>1, <2>2
<1>3. ChannelFailed(a) \in AlertRows
  BY <1>1, <1>2 DEF ChannelFailed, AlertRows
<1>. QED  BY <1>3 DEF ChannelFailed, AlertRows

\* The channels told, with the severities' destinations.
LEMMA SelectedIsSeq == \A severity : Selected(severity) \in Seq(Channels)
<1>1. \A d \in Channels : <<d>> \in Seq(Channels)
  OBVIOUS
<1>2. \A d \in Channels : \A severity : Told(d, severity) \in Seq(Channels)
  BY <1>1, NoChannels DEF Told
<1>3. "email" \in Channels /\ "chat-webhook" \in Channels /\ "webhook" \in Channels
  BY AlertsAssumption
<1>4. \A p, q \in Seq(Channels) : p \o q \in Seq(Channels)
  OBVIOUS
<1>. QED  BY <1>2, <1>3, <1>4 DEF Selected

-----------------------------------------------------------------------------
(* One sender at a time.                                                    *)
SenderOK(s) == AlertIsStaged(s) /\ IsAccounted(s) /\ RowIsOfTheOver(s) /\ MailArrived(s)
EverySender == \A s \in Senders : SenderOK(s)
AlertParts == AlertTypeOK /\ HourlyCap /\ IsFiniteSet(Raised) /\ EverySender

\* Every sender has a row.
LEMMA AlertRowOf ==
  ASSUME AlertTypeOK, NEW s \in Senders
  PROVE  alert[s] \in AlertRows
BY DEF AlertTypeOK

\* What one sender does leaves the account of the others.
LEMMA SendersStand ==
  ASSUME NEW q \in Senders, alert'[q] = alert[q], mailbox'[q] = mailbox[q],
         q \in recorded' <=> q \in recorded, alertOverlap => alertOverlap',
         tick \in Nat, tick' \in Nat, tick <= tick', alert[q] \in AlertRows, SenderOK(q)
  PROVE  SenderOK(q)'
<1>1. AlertIsStaged(q)'
  <2>1. alert[q].born \in Nat /\ alert[q].born <= tick
    <3>1. alert[q].born \in 0..MaxTick
      BY DEF AlertRows
    <3>2. alert[q].born <= tick
      BY DEF SenderOK, AlertIsStaged
    <3>. QED  BY <3>1, <3>2, AlertNumbers
  <2>2. alert[q].born <= tick'
    BY <2>1
  <2>3. alert'[q].born <= tick'
    BY <2>2
  <2>. QED  BY <2>3 DEF SenderOK, AlertIsStaged, Dialogue, Phase
<1>2. IsAccounted(q)'
  BY DEF SenderOK, IsAccounted
<1>3. RowIsOfTheOver(q)'
  BY DEF SenderOK, RowIsOfTheOver
<1>4. MailArrived(q)'
  BY DEF SenderOK, MailArrived
<1>. QED  BY <1>1, <1>2, <1>3, <1>4 DEF SenderOK

\* What is recorded accounts for its channels.
LEMMA RowsAccount == AlertTypeOK /\ EverySender => RecordedAccounts
<1>. SUFFICES ASSUME AlertTypeOK, \A s \in Senders : SenderOK(s), NEW s \in recorded
              PROVE  IF alert[s].limited
                     THEN alert[s].level /= "emergency" /\ alert[s].sent \cup alert[s].failed = {}
                     ELSE /\ alert[s].sent \cup alert[s].failed = Items(ChannelsOf[alert[s].level])
                          /\ EachOnce(ChannelsOf[alert[s].level])
                               => alert[s].sent \cap alert[s].failed = {}
  BY DEF RecordedAccounts, EverySender
<1>1. s \in Senders /\ SenderOK(s)
  BY DEF AlertTypeOK
<1>2. alert[s].at = "done" /\ alert[s].level \in Levels
  BY <1>1 DEF SenderOK, RowIsOfTheOver
<1>3. alert[s].todo = <<>> /\ Items(alert[s].todo) = {}
  BY <1>1, <1>2, NoChannels DEF SenderOK, AlertIsStaged
<1>. QED  BY <1>1, <1>2, <1>3 DEF SenderOK, IsAccounted

\* The invariant, one sender at a time.
LEMMA AlertsByParts == AlertInv <=> AlertParts
BY RowsAccount DEF AlertInv, AlertParts, EverySender, SenderOK, SentMailArrived

-----------------------------------------------------------------------------
\* What a step of s leaves of the hour's account when it raises nothing.
LEMMA SameDeliveries ==
  ASSUME AlertTypeOK, AlertTypeOK', NEW s \in Senders, NEW r \in AlertRows,
         alert' = [alert EXCEPT ![s] = r], alert[s].at /= "idle", r.at /= "idle",
         r.level = alert[s].level, r.born = alert[s].born, r.limited <=> alert[s].limited
  PROVE  Raised' = Raised /\ \A t : DeliveredFrom(t)' = DeliveredFrom(t)
<1>1. \A q \in Senders : alert'[q] = IF q = s THEN r ELSE alert[q]
  BY DEF AlertTypeOK
<1>2. Raised' = Raised
  BY <1>1 DEF Raised
<1>3. ASSUME NEW t PROVE DeliveredFrom(t)' = DeliveredFrom(t)
  BY <1>1 DEF DeliveredFrom
<1>. QED  BY <1>2, <1>3

\* A sender that goes on with its alert and raises none keeps the invariant.
LEMMA AlertGoes ==
  ASSUME AlertInv, NEW s \in Senders, NEW r \in AlertRows,
         alert' = [alert EXCEPT ![s] = r], alert[s].at /= "idle", r.at /= "idle",
         r.level = alert[s].level, r.born = alert[s].born, r.limited <=> alert[s].limited,
         tick' = tick, alertLost' \in 0..MaxAlertLost,
         alertOverlap' \in BOOLEAN, alertOverlap => alertOverlap',
         recorded' = recorded \/ recorded' = recorded \cup {s},
         mailbox' = mailbox \/ mailbox' = [mailbox EXCEPT ![s] = Recipients],
         SenderOK(s)'
  PROVE  AlertInv'
<1>1. AlertTypeOK /\ HourlyCap /\ IsFiniteSet(Raised) /\ \A q \in Senders : SenderOK(q)
  BY AlertsByParts DEF AlertParts, EverySender
<1>2. AlertTypeOK'
  <2>1. tick' \in 0..MaxTick /\ recorded' \subseteq Senders
        /\ mailbox' \in [Senders -> 0..Recipients]
    BY <1>1, AlertNumbers DEF AlertTypeOK
  <2>2. alert' \in [Senders -> AlertRows]
    BY <1>1 DEF AlertTypeOK
  <2>. QED  BY <2>1, <2>2 DEF AlertTypeOK
<1>3. Raised' = Raised /\ \A t : DeliveredFrom(t)' = DeliveredFrom(t)
  BY <1>1, <1>2, SameDeliveries
<1>4. HourlyCap'
  BY <1>1, <1>3 DEF HourlyCap
<1>5. ASSUME NEW q \in Senders PROVE SenderOK(q)'
  <2>1. CASE q = s
    BY <2>1
  <2>2. CASE q /= s
    <3>1. alert'[q] = alert[q] /\ mailbox'[q] = mailbox[q] /\ (q \in recorded' <=> q \in recorded)
      BY <2>2, <1>1 DEF AlertTypeOK
    <3>2. tick \in Nat /\ tick' \in Nat /\ tick <= tick' /\ alert[q] \in AlertRows /\ SenderOK(q)
      BY <1>1, AlertNumbers DEF AlertTypeOK
    <3>. QED  BY <3>1, <3>2, SendersStand
  <2>. QED  BY <2>1, <2>2
<1>6. IsFiniteSet(Raised)'
  BY <1>1, <1>3
<1>7. AlertParts'
  BY <1>2, <1>4, <1>5, <1>6 DEF AlertParts, EverySender
<1>. QED  BY <1>7, AlertsByParts, PTL

\* A channel has been dealt with, whichever way.
LEMMA DealtWith ==
  ASSUME AlertInv, NEW s \in Senders, alert[s].todo /= <<>>, NEW r,
         r = ChannelSent(alert[s]) \/ r = ChannelFailed(alert[s]),
         alert' = [alert EXCEPT ![s] = r], tick' = tick
  PROVE  /\ r \in AlertRows /\ alert'[s] = r /\ alert[s].at \in {"send", "warn"}
         /\ r.at = alert[s].at
         /\ r.level = alert[s].level /\ r.born = alert[s].born /\ (r.limited <=> alert[s].limited)
         /\ r.sent \cup r.failed = alert[s].sent \cup alert[s].failed \cup {Head(alert[s].todo)}
         /\ AlertIsStaged(s)' /\ IsAccounted(s)'
<1>. DEFINE a == alert[s]
<1>1. AlertTypeOK /\ SenderOK(s) /\ a \in AlertRows
  BY AlertsByParts, AlertRowOf DEF AlertParts, EverySender
<1>2. /\ r \in AlertRows /\ r.at = a.at /\ r.level = a.level /\ r.born = a.born
           /\ (r.limited <=> a.limited)
      /\ r.todo = Tail(a.todo) /\ r.stage = "" /\ r.rcpt = 0
      /\ \/ r.sent = a.sent \cup {Head(a.todo)} /\ r.failed = a.failed
         \/ r.sent = a.sent /\ r.failed = a.failed \cup {Head(a.todo)}
  <2>1. CASE r = ChannelSent(a)
    BY <1>1, <2>1, SentRow
  <2>2. CASE r = ChannelFailed(a)
    BY <1>1, <2>2, FailedRow
  <2>. QED  BY <2>1, <2>2
<1>3. alert'[s] = r
  BY <1>1 DEF AlertTypeOK
<1>4. a.at \in {"send", "warn"}
  <2>1. a.at /= "idle"
    BY <1>1, NoAlertFields DEF SenderOK, AlertIsStaged
  <2>2. a.at /= "done"
    BY <1>1 DEF SenderOK, AlertIsStaged
  <2>. QED  BY <1>1, <2>1, <2>2 DEF AlertRows
<1>5. AlertIsStaged(s)'
  <2>1. r.born <= tick'
    BY <1>1, <1>2 DEF SenderOK, AlertIsStaged
  <2>2. (r.at = "send" => r.level \in Levels) /\ (r.at = "warn" => r.level = "")
    BY <1>1, <1>2 DEF SenderOK, AlertIsStaged
  <2>. QED  BY <1>2, <1>3, <1>4, <2>1, <2>2 DEF AlertIsStaged
<1>6. /\ Items(a.todo) = {Head(a.todo)} \cup Items(r.todo)
      /\ EachOnce(a.todo) => EachOnce(r.todo) /\ Head(a.todo) \notin Items(r.todo)
  <2>1. a.todo \in Seq(Channels)
    BY <1>1 DEF AlertRows
  <2>. QED  BY <1>2, <2>1, TailOfChannels
<1>7. IsAccounted(s)'
  <2>. SUFFICES ASSUME r.level \in Levels
                PROVE  IF r.limited THEN r.level /= "emergency" /\ r.todo = <<>>
                       /\ r.sent \cup r.failed = {}
                       ELSE /\ Items(r.todo) \cup r.sent \cup r.failed = Items(ChannelsOf[r.level])
                            /\ EachOnce(ChannelsOf[r.level]) =>
                                 /\ EachOnce(r.todo) /\ r.sent \cap r.failed = {}
                                 /\ Items(r.todo) \cap (r.sent \cup r.failed) = {}
    BY <1>3 DEF IsAccounted
  <2>1. ~a.limited /\ ~r.limited
    BY <1>1, <1>2 DEF SenderOK, IsAccounted
  <2>2. /\ Items(a.todo) \cup a.sent \cup a.failed = Items(ChannelsOf[a.level])
        /\ EachOnce(ChannelsOf[a.level]) =>
             /\ EachOnce(a.todo) /\ a.sent \cap a.failed = {}
             /\ Items(a.todo) \cap (a.sent \cup a.failed) = {}
    BY <1>1, <1>2, <2>1 DEF SenderOK, IsAccounted
  <2>3. Items(r.todo) \cup r.sent \cup r.failed = Items(ChannelsOf[r.level])
    BY <1>2, <1>6, <2>2
  <2>4. ASSUME EachOnce(ChannelsOf[r.level])
        PROVE  /\ EachOnce(r.todo) /\ r.sent \cap r.failed = {}
               /\ Items(r.todo) \cap (r.sent \cup r.failed) = {}
    BY <1>2, <1>6, <2>2, <2>4
  <2>. QED  BY <2>1, <2>3, <2>4
<1>. QED  BY <1>2, <1>3, <1>4, <1>5, <1>7

-----------------------------------------------------------------------------
(* The steps.                                                               *)

\* The row of s is of nobody's record before and after, and its mail is where it was.
LEMMA StillUnderWay ==
  ASSUME AlertInv, NEW s \in Senders, NEW r, alert'[s] = r, alert[s].at \in {"send", "warn"},
         r.at = alert[s].at, recorded' = recorded
  PROVE  RowIsOfTheOver(s)'
<1>1. SenderOK(s)
  BY AlertsByParts DEF AlertParts, EverySender
<1>2. s \notin recorded /\ r.at /= "done"
  BY <1>1 DEF SenderOK, RowIsOfTheOver
<1>. QED  BY <1>2 DEF RowIsOfTheOver

\* A channel other than mail is asked to take the alert.
LEMMA PostKeeps ==
  ASSUME AlertInv, NEW s \in Senders, Post(s)
  PROVE  AlertInv'
<1>. DEFINE a == alert[s]
            c == Head(alert[s].todo)
<1>1. AlertTypeOK /\ SenderOK(s) /\ a \in AlertRows
  BY AlertsByParts, AlertRowOf DEF AlertParts, EverySender
<1>2. a.todo /= <<>> /\ ~Dialogue(s) /\ tick' = tick /\ recorded' = recorded /\ mailbox' = mailbox
      /\ alertOverlap' = alertOverlap
  BY DEF Post
<1>3. PICK r : /\ r = ChannelSent(a) \/ r = ChannelFailed(a)
               /\ alert' = [alert EXCEPT ![s] = r]
  <2>1. \/ alert' = [alert EXCEPT ![s] = ChannelSent(@)]
        \/ alert' = [alert EXCEPT ![s] = ChannelFailed(@)]
    BY DEF Post
  <2>2. alert' = [alert EXCEPT ![s] = ChannelSent(a)]
             \/ alert' = [alert EXCEPT ![s] = ChannelFailed(a)]
    BY <2>1
  <2>. QED  BY <2>2
<1>4. alertLost' \in 0..MaxAlertLost
  BY <1>1, AlertNumbers DEF Post, AlertTypeOK
<1>5. /\ r \in AlertRows /\ alert'[s] = r /\ alert[s].at \in {"send", "warn"}
      /\ r.at = alert[s].at
      /\ r.level = alert[s].level /\ r.born = alert[s].born /\ (r.limited <=> alert[s].limited)
      /\ r.sent \cup r.failed = alert[s].sent \cup alert[s].failed \cup {Head(alert[s].todo)}
      /\ AlertIsStaged(s)' /\ IsAccounted(s)'
  BY <1>2, <1>3, DealtWith
<1>6. RowIsOfTheOver(s)'
  BY <1>2, <1>5, StillUnderWay
<1>7. MailArrived(s)'
  <2>1. "email" \in r.sent /\ r.level \in Levels => "email" \in a.sent
    <3>. SUFFICES ASSUME r.level \in Levels PROVE "email" \in r.sent => "email" \in a.sent
      OBVIOUS
    <3>1. a.at = "send"
      BY <1>1, <1>5, AlertsAssumption DEF SenderOK, AlertIsStaged
    <3>2. c /= "email"
      BY <1>2, <3>1 DEF Dialogue, Phase
    <3>3. r.sent \subseteq a.sent \cup {c}
      BY <1>1, <1>2, <1>3, SentRow, FailedRow
    <3>. QED  BY <3>2, <3>3
  <2>. QED  BY <1>1, <1>2, <1>5, <2>1 DEF SenderOK, MailArrived
<1>8. SenderOK(s)'
  BY <1>5, <1>6, <1>7 DEF SenderOK
<1>9. alertOverlap' \in BOOLEAN /\ (alertOverlap => alertOverlap')
  BY <1>1, <1>2 DEF AlertTypeOK
<1>. QED  BY <1>2, <1>3, <1>4, <1>5, <1>8, <1>9, AlertGoes

\* One recipient more, until there are all.
LEMMA UpToAll == \A n \in Nat : \A m \in 0..n : IF m < n THEN m + 1 \in 0..n ELSE m = n
OBVIOUS

\* The rows the dialogue goes through.
LEMMA NextDelivery ==
  ASSUME NEW a \in AlertRows, a.stage /= "text", a.stage \in {"", "mail"} => a.rcpt = 0,
         a.stage = "data" => a.rcpt = Recipients
  PROVE  LET r == NextStage(a)
         IN  /\ r \in AlertRows
             /\ r.at = a.at /\ r.level = a.level /\ r.born = a.born /\ (r.limited <=> a.limited)
             /\ r.todo = a.todo /\ r.sent = a.sent /\ r.failed = a.failed
             /\ r.stage /= "" /\ (r.stage = "mail" => r.rcpt = 0)
             /\ r.stage \in {"data", "text"} => r.rcpt = Recipients
<1>1. a.rcpt \in 0..Recipients /\ Recipients \in Nat
      /\ a.stage \in {"", "mail", "rcpt", "data", "text"}
  BY AlertNumbers DEF AlertRows
<1>2. CASE a.stage = ""
  <2>1. NextStage(a) = [a EXCEPT !.stage = "mail"]
    BY <1>2 DEF NextStage
  <2>. QED  BY <1>1, <1>2, <2>1 DEF AlertRows
<1>3. CASE a.stage \in {"mail", "rcpt"} /\ a.rcpt < Recipients
  <2>1. NextStage(a) = [a EXCEPT !.stage = "rcpt", !.rcpt = @ + 1]
    BY <1>3 DEF NextStage
  <2>2. NextStage(a) = [a EXCEPT !.stage = "rcpt", !.rcpt = a.rcpt + 1]
        /\ a.rcpt + 1 \in 0..Recipients
    <3>1. a.rcpt + 1 \in 0..Recipients
      BY <1>1, <1>3, UpToAll
    <3>. QED  BY <2>1, <3>1
  <2>3. NextStage(a) \in AlertRows
    BY <2>2 DEF AlertRows
  <2>. QED  BY <1>1, <2>2, <2>3 DEF AlertRows
<1>4. CASE a.stage \in {"mail", "rcpt"} /\ ~(a.rcpt < Recipients)
  <2>1. NextStage(a) = [a EXCEPT !.stage = "data"]
    BY <1>4 DEF NextStage
  <2>2. a.rcpt = Recipients
    BY <1>1, <1>4, UpToAll
  <2>. QED  BY <1>1, <2>1, <2>2 DEF AlertRows
<1>5. CASE a.stage = "data"
  <2>1. NextStage(a) = [a EXCEPT !.stage = "text"]
    BY <1>5 DEF NextStage
  <2>. QED  BY <1>1, <1>5, <2>1 DEF AlertRows
<1>. QED  BY <1>1, <1>2, <1>3, <1>4, <1>5

\* The mail server accepts the next line of the dialogue.
LEMMA SmtpAcceptsKeeps ==
  ASSUME AlertInv, NEW s \in Senders, SmtpAccepts(s)
  PROVE  AlertInv'
<1>. DEFINE a == alert[s]
<1>1. AlertTypeOK /\ SenderOK(s) /\ a \in AlertRows
  BY AlertsByParts, AlertRowOf DEF AlertParts, EverySender
<1>2. /\ Dialogue(s) /\ a.stage /= "text" /\ tick' = tick /\ recorded' = recorded
      /\ mailbox' = mailbox
      /\ alertOverlap' = alertOverlap /\ alertLost' = alertLost
  BY DEF SmtpAccepts
<1>3. PICK r : r = NextStage(a)
  OBVIOUS
<1>4. alert' = [alert EXCEPT ![s] = r] /\ alert'[s] = r
  BY <1>1, <1>3 DEF SmtpAccepts, AlertTypeOK
<1>5. /\ r \in AlertRows
      /\ r.at = a.at /\ r.level = a.level /\ r.born = a.born /\ (r.limited <=> a.limited)
      /\ r.todo = a.todo /\ r.sent = a.sent /\ r.failed = a.failed
      /\ r.stage /= "" /\ (r.stage = "mail" => r.rcpt = 0)
      /\ r.stage \in {"data", "text"} => r.rcpt = Recipients
  <2>1. (a.stage \in {"", "mail"} => a.rcpt = 0) /\ (a.stage = "data" => a.rcpt = Recipients)
    BY <1>1 DEF SenderOK, AlertIsStaged
  <2>. QED  BY <1>1, <1>2, <1>3, <2>1, NextDelivery
<1>6. a.at = "send" /\ a.level \in Levels /\ Dialogue(s)'
  BY <1>1, <1>2, <1>4, <1>5 DEF Dialogue, Phase, SenderOK, AlertIsStaged
<1>7. AlertIsStaged(s)'
  <2>1. r.born <= tick'
    BY <1>1, <1>2, <1>5 DEF SenderOK, AlertIsStaged
  <2>. QED  BY <1>4, <1>5, <1>6, <2>1 DEF AlertIsStaged
<1>8. IsAccounted(s)'
  BY <1>1, <1>4, <1>5 DEF SenderOK, IsAccounted
<1>9. RowIsOfTheOver(s)' /\ MailArrived(s)'
  <2>1. RowIsOfTheOver(s)'
    BY <1>2, <1>4, <1>5, <1>6, StillUnderWay
  <2>2. MailArrived(s)'
    BY <1>1, <1>2, <1>4, <1>5 DEF SenderOK, MailArrived
  <2>. QED  BY <2>1, <2>2
<1>10. SenderOK(s)'
  BY <1>7, <1>8, <1>9 DEF SenderOK
<1>11. alertOverlap' \in BOOLEAN /\ (alertOverlap => alertOverlap')
            /\ alertLost' \in 0..MaxAlertLost
  BY <1>1, <1>2 DEF AlertTypeOK
<1>. QED  BY <1>2, <1>4, <1>5, <1>6, <1>10, <1>11, AlertGoes

\* The message is taken, whether or not its reply comes.
LEMMA SmtpDeliversKeeps ==
  ASSUME AlertInv, NEW s \in Senders, SmtpDelivers(s)
  PROVE  AlertInv'
<1>. DEFINE a == alert[s]
<1>1. AlertTypeOK /\ SenderOK(s) /\ a \in AlertRows
  BY AlertsByParts, AlertRowOf DEF AlertParts, EverySender
<1>2. /\ Dialogue(s) /\ a.stage = "text" /\ tick' = tick /\ recorded' = recorded
      /\ mailbox' = [mailbox EXCEPT ![s] = a.rcpt] /\ alertOverlap' = alertOverlap
  BY DEF SmtpDelivers
<1>3. a.rcpt = Recipients /\ mailbox' = [mailbox EXCEPT ![s] = Recipients]
      /\ mailbox'[s] = Recipients
  <2>1. a.rcpt = Recipients
    BY <1>1, <1>2 DEF SenderOK, AlertIsStaged
  <2>. QED  BY <1>1, <1>2, <2>1 DEF AlertTypeOK
<1>4. PICK r : /\ r = ChannelSent(a) \/ r = ChannelFailed(a)
               /\ alert' = [alert EXCEPT ![s] = r]
  <2>1. \/ alert' = [alert EXCEPT ![s] = ChannelSent(@)]
        \/ alert' = [alert EXCEPT ![s] = ChannelFailed(@)]
    BY DEF SmtpDelivers
  <2>2. alert' = [alert EXCEPT ![s] = ChannelSent(a)]
             \/ alert' = [alert EXCEPT ![s] = ChannelFailed(a)]
    BY <2>1
  <2>. QED  BY <2>2
<1>5. alertLost' \in 0..MaxAlertLost
  BY <1>1, AlertNumbers DEF SmtpDelivers, AlertTypeOK
<1>6. a.todo /= <<>> /\ Head(a.todo) = "email"
  BY <1>2 DEF Dialogue
<1>7. /\ r \in AlertRows /\ alert'[s] = r /\ alert[s].at \in {"send", "warn"}
      /\ r.at = alert[s].at
      /\ r.level = alert[s].level /\ r.born = alert[s].born /\ (r.limited <=> alert[s].limited)
      /\ r.sent \cup r.failed = alert[s].sent \cup alert[s].failed \cup {Head(alert[s].todo)}
      /\ AlertIsStaged(s)' /\ IsAccounted(s)'
  BY <1>2, <1>4, <1>6, DealtWith
<1>8. RowIsOfTheOver(s)'
  BY <1>2, <1>7, StillUnderWay
<1>9. MailArrived(s)'
  BY <1>3, <1>6, <1>7 DEF MailArrived
<1>10. SenderOK(s)'
  BY <1>7, <1>8, <1>9 DEF SenderOK
<1>11. alertOverlap' \in BOOLEAN /\ (alertOverlap => alertOverlap')
  BY <1>1, <1>2 DEF AlertTypeOK
<1>. QED  BY <1>2, <1>3, <1>4, <1>5, <1>7, <1>10, <1>11, AlertGoes

\* Or refuses it.
LEMMA SmtpRefusesKeeps ==
  ASSUME AlertInv, NEW s \in Senders, SmtpRefuses(s)
  PROVE  AlertInv'
<1>. DEFINE a == alert[s]
<1>1. AlertTypeOK /\ SenderOK(s) /\ a \in AlertRows
  BY AlertsByParts, AlertRowOf DEF AlertParts, EverySender
<1>2. /\ Dialogue(s) /\ tick' = tick /\ recorded' = recorded
      /\ mailbox' = mailbox /\ alertOverlap' = alertOverlap
  BY DEF SmtpRefuses
<1>3. PICK r : r = ChannelFailed(a)
  OBVIOUS
<1>4. alert' = [alert EXCEPT ![s] = r] /\ alertLost' \in 0..MaxAlertLost
  BY <1>1, <1>3, AlertNumbers DEF SmtpRefuses, AlertTypeOK
<1>5. a.todo /= <<>>
  BY <1>2 DEF Dialogue
<1>6. /\ r \in AlertRows /\ alert'[s] = r /\ alert[s].at \in {"send", "warn"}
      /\ r.at = alert[s].at
      /\ r.level = alert[s].level /\ r.born = alert[s].born /\ (r.limited <=> alert[s].limited)
      /\ r.sent \cup r.failed = alert[s].sent \cup alert[s].failed \cup {Head(alert[s].todo)}
      /\ AlertIsStaged(s)' /\ IsAccounted(s)'
  BY <1>2, <1>3, <1>4, <1>5, DealtWith
<1>7. RowIsOfTheOver(s)'
  BY <1>2, <1>6, StillUnderWay
<1>8. MailArrived(s)'
  <2>1. r.sent = a.sent
    BY <1>1, <1>3, <1>5, FailedRow
  <2>. QED  BY <1>1, <1>2, <1>6, <2>1 DEF SenderOK, MailArrived
<1>9. SenderOK(s)'
  BY <1>6, <1>7, <1>8 DEF SenderOK
<1>10. alertOverlap' \in BOOLEAN /\ (alertOverlap => alertOverlap')
  BY <1>1, <1>2 DEF AlertTypeOK
<1>. QED  BY <1>2, <1>4, <1>6, <1>9, <1>10, AlertGoes

\* An alert that has been to all its channels is over.
LEMMA OverRow ==
  ASSUME NEW a \in AlertRows
  PROVE  LET r == [a EXCEPT !.at = "done"]
         IN  /\ r \in AlertRows
             /\ r.at = "done" /\ r.level = a.level /\ r.born = a.born /\ (r.limited <=> a.limited)
             /\ r.todo = a.todo /\ r.sent = a.sent /\ r.failed = a.failed
             /\ r.stage = a.stage /\ r.rcpt = a.rcpt
BY DEF AlertRows

\* An alert ends.
LEMMA AlertIsOver ==
  ASSUME AlertInv, NEW s \in Senders, alert[s].at \in {"send", "warn"}, alert[s].todo = <<>>,
         alert' = [alert EXCEPT ![s].at = "done"], tick' = tick, mailbox' = mailbox,
         alertLost' \in 0..MaxAlertLost, alertOverlap' \in BOOLEAN, alertOverlap => alertOverlap',
         recorded' = recorded \/ recorded' = recorded \cup {s},
         s \in recorded' => alert[s].level \in Levels,
         ~alertOverlap' /\ alert[s].level \in Levels => s \in recorded'
  PROVE  AlertInv'
<1>. DEFINE a == alert[s]
<1>1. AlertTypeOK /\ SenderOK(s) /\ a \in AlertRows
  BY AlertsByParts, AlertRowOf DEF AlertParts, EverySender
<1>2. PICK r : r = [a EXCEPT !.at = "done"]
  OBVIOUS
<1>3. alert' = [alert EXCEPT ![s] = r] /\ alert'[s] = r
  BY <1>1, <1>2 DEF AlertTypeOK
<1>4. /\ r \in AlertRows
      /\ r.at = "done" /\ r.level = a.level /\ r.born = a.born /\ (r.limited <=> a.limited)
      /\ r.todo = a.todo /\ r.sent = a.sent /\ r.failed = a.failed
      /\ r.stage = a.stage /\ r.rcpt = a.rcpt
  BY <1>1, <1>2, OverRow
<1>5. AlertIsStaged(s)'
  <2>1. r.born <= tick'
    BY <1>1, <1>4 DEF SenderOK, AlertIsStaged
  <2>2. a.stage = "" /\ a.rcpt = 0
    BY <1>1 DEF SenderOK, AlertIsStaged, Dialogue
  <2>. QED  BY <1>3, <1>4, <2>1, <2>2 DEF AlertIsStaged
<1>6. IsAccounted(s)' /\ MailArrived(s)'
  BY <1>1, <1>3, <1>4 DEF SenderOK, IsAccounted, MailArrived
<1>7. RowIsOfTheOver(s)'
  BY <1>3, <1>4 DEF RowIsOfTheOver
<1>8. SenderOK(s)'
  BY <1>5, <1>6, <1>7 DEF SenderOK
<1>. QED  BY <1>3, <1>4, <1>8, AlertGoes

\* A monitoring alert is recorded when its channels are done.
LEMMA RecordKeeps ==
  ASSUME AlertInv, NEW s \in Senders, Record(s)
  PROVE  AlertInv'
<1>1. AlertTypeOK /\ SenderOK(s)
  BY AlertsByParts DEF AlertParts, EverySender
<1>2. /\ alert[s].at = "send" /\ alert[s].todo = <<>> /\ alert[s].level \in Levels
      /\ alert' = [alert EXCEPT ![s].at = "done"] /\ tick' = tick /\ mailbox' = mailbox
  BY <1>1 DEF Record, Phase, SenderOK, AlertIsStaged
<1>3. CASE recorded' = recorded \cup {s} /\ UNCHANGED <<alertOverlap, alertLost>>
  <2>1. alertOverlap' \in BOOLEAN /\ (alertOverlap => alertOverlap')
             /\ alertLost' \in 0..MaxAlertLost
    BY <1>1, <1>3 DEF AlertTypeOK
  <2>. QED  BY <1>2, <1>3, <2>1, AlertIsOver
<1>4. CASE /\ alertLost < MaxAlertLost /\ alertLost' = alertLost + 1
           /\ alertOverlap' = TRUE /\ UNCHANGED recorded
  <2>1. alertLost' \in 0..MaxAlertLost
    BY <1>1, <1>4, AlertNumbers DEF AlertTypeOK
  <2>2. alertOverlap' \in BOOLEAN /\ (alertOverlap => alertOverlap') /\ (~alertOverlap' => FALSE)
    BY <1>4
  <2>3. s \in recorded' => alert[s].level \in Levels
    BY <1>2
  <2>. QED  BY <1>2, <1>4, <2>1, <2>2, <2>3, AlertIsOver
<1>. QED  BY <1>3, <1>4 DEF Record

\* A security warning is not recorded.
LEMMA WarningSentKeeps ==
  ASSUME AlertInv, NEW s \in Senders, WarningSent(s)
  PROVE  AlertInv'
<1>1. AlertTypeOK /\ SenderOK(s)
  BY AlertsByParts DEF AlertParts, EverySender
<1>2. /\ alert[s].at = "warn" /\ alert[s].todo = <<>> /\ alert[s].level \notin Levels
      /\ alert' = [alert EXCEPT ![s].at = "done"] /\ tick' = tick /\ mailbox' = mailbox
      /\ recorded' = recorded /\ alertOverlap' = alertOverlap /\ alertLost' = alertLost
  BY <1>1, AlertsAssumption DEF WarningSent, Phase, SenderOK, AlertIsStaged
<1>3. alertOverlap' \in BOOLEAN /\ (alertOverlap => alertOverlap')
           /\ alertLost' \in 0..MaxAlertLost
  BY <1>1, <1>2 DEF AlertTypeOK
<1>4. s \notin recorded'
  BY <1>1, <1>2 DEF SenderOK, RowIsOfTheOver
<1>. QED  BY <1>2, <1>3, <1>4, AlertIsOver

-----------------------------------------------------------------------------
(* What is raised.                                                          *)

\* What raising an alert leaves of the account of the others.
LEMMA Raises ==
  ASSUME AlertInv, NEW s \in Senders, NEW r \in AlertRows, alert[s].at = "idle",
         alert' = [alert EXCEPT ![s] = r], r.at \in {"send", "warn"}, r.sent = {}, r.born <= tick,
         tick' = tick, recorded' = recorded, mailbox' = mailbox, alertLost' \in 0..MaxAlertLost,
         alertOverlap' \in BOOLEAN, alertOverlap => alertOverlap',
         AlertIsStaged(s)', IsAccounted(s)', HourlyCap'
  PROVE  AlertInv'
<1>1. AlertTypeOK /\ HourlyCap /\ IsFiniteSet(Raised) /\ (\A q \in Senders : SenderOK(q))
           /\ SenderOK(s)
  BY AlertsByParts DEF AlertParts, EverySender
<1>2. \A q \in Senders : alert'[q] = IF q = s THEN r ELSE alert[q]
  BY <1>1 DEF AlertTypeOK
<1>3. AlertTypeOK'
  <2>1. alert' \in [Senders -> AlertRows]
    BY <1>1 DEF AlertTypeOK
  <2>. QED  BY <1>1, <2>1 DEF AlertTypeOK
<1>4. IsFiniteSet(Raised)'
  <2>1. Raised' = Raised \cup {s}
    BY <1>2 DEF Raised
  <2>2. IsFiniteSet(Raised')
    BY <1>1, <2>1, FS_AddElement
  <2>. QED  BY <2>2
<1>5. RowIsOfTheOver(s)'
  <2>1. s \notin recorded
    BY <1>1 DEF SenderOK, RowIsOfTheOver
  <2>. QED  BY <1>2, <2>1 DEF RowIsOfTheOver
<1>6. MailArrived(s)'
  <2>1. mailbox[s] = 0
    <3>1. alert[s].sent = {} /\ alert[s].failed = {}
      BY <1>1, NoAlertFields DEF SenderOK, AlertIsStaged
    <3>2. mailbox[s] \in 0..Recipients
      BY <1>1 DEF AlertTypeOK
    <3>3. ~(mailbox[s] > 0)
      BY <1>1, <3>1 DEF SenderOK, MailArrived
    <3>. QED  BY <3>2, <3>3, AlertNumbers
  <2>2. alert'[s] = r /\ mailbox'[s] = 0
    BY <1>2, <2>1
  <2>. QED  BY <2>2 DEF MailArrived
<1>7. ASSUME NEW q \in Senders PROVE SenderOK(q)'
  <2>1. CASE q = s
    BY <1>5, <1>6, <2>1 DEF SenderOK
  <2>2. CASE q /= s
    <3>1. alert'[q] = alert[q] /\ alert[q] \in AlertRows
      BY <1>1, <1>2, <2>2 DEF AlertTypeOK
    <3>2. tick \in Nat /\ tick' \in Nat /\ tick <= tick'
      BY <1>1, AlertNumbers DEF AlertTypeOK
    <3>. QED  BY <1>1, <3>1, <3>2, SendersStand
  <2>. QED  BY <2>1, <2>2
<1>8. AlertParts'
  BY <1>3, <1>4, <1>7 DEF AlertParts, EverySender
<1>. QED  BY <1>8, AlertsByParts, PTL

\* An alert is raised at a tick of the clock.
LEMMA BornIsNat == \A a \in AlertRows : a.born \in Nat
<1>1. \A a \in AlertRows : a.born \in 0..MaxTick
  BY DEF AlertRows
<1>. QED  BY <1>1, AlertNumbers

\* Alerts of one hour, one of them raised last, are recent when it is.
LEMMA HourIsRecent == \A t, b, n, h \in Nat : t <= b /\ n < t + h => n < b + h
OBVIOUS

\* A set of deliveries that gains one alert under the limit.
LEMMA CountedRaise ==
  ASSUME AlertInv, NEW s \in Senders, NEW r \in AlertRows, alert[s].at = "idle",
         alert' = [alert EXCEPT ![s] = r], r.at /= "idle", r.born = tick,
         tick' = tick, ~alertOverlap, \A q \in Senders : ~Busy(q),
         r.level \in Levels \ {"emergency"} /\ ~r.limited
              => Cardinality(RecentAlerts) < MaxPerHour
  PROVE  \A t \in 0..tick : Cardinality(DeliveredFrom(t)') <= MaxPerHour
<1>1. AlertTypeOK /\ HourlyCap /\ IsFiniteSet(Raised) /\ \A q \in Senders : SenderOK(q)
  BY AlertsByParts DEF AlertParts, EverySender
<1>. TAKE t \in 0..tick
<1>2. \A q \in Senders : alert'[q] = IF q = s THEN r ELSE alert[q]
  BY <1>1 DEF AlertTypeOK
<1>3. /\ tick \in Nat /\ t \in Nat /\ t <= tick /\ AlertHour \in Nat /\ MaxPerHour \in Nat
      /\ \A q \in Senders : alert[q] \in AlertRows /\ alert[q].born \in Nat
  <2>1. tick \in Nat /\ t \in Nat /\ t <= tick
    BY <1>1, AlertNumbers DEF AlertTypeOK
  <2>2. ASSUME NEW q \in Senders PROVE alert[q] \in AlertRows /\ alert[q].born \in Nat
    BY <1>1, BornIsNat, AlertRowOf
  <2>. QED  BY <2>1, <2>2, AlertNumbers
<1>4. CASE r.level \in Levels \ {"emergency"} /\ ~r.limited /\ tick < t + AlertHour
  <2>1. DeliveredFrom(t)' \subseteq RecentAlerts \cup {s}
    <3>. SUFFICES ASSUME NEW q \in Senders, q /= s, q \in DeliveredFrom(t)'
                  PROVE  q \in RecentAlerts
      BY DEF DeliveredFrom
    <3>1. /\ alert[q].at /= "idle" /\ alert[q].level \in Levels /\ t <= alert[q].born
      BY <1>2 DEF DeliveredFrom
    <3>2. alert[q].at = "done"
      BY <3>1 DEF Busy
    <3>3. q \in recorded
      BY <1>1, <3>1, <3>2 DEF SenderOK, RowIsOfTheOver
    <3>4. tick < alert[q].born + AlertHour
      BY <1>3, <1>4, <3>1, HourIsRecent
    <3>. QED  BY <3>3, <3>4 DEF RecentAlerts
  <2>2. IsFiniteSet(RecentAlerts)
    <3>1. RecentAlerts \subseteq Raised
      BY <1>1 DEF RecentAlerts, Raised, SenderOK, RowIsOfTheOver, AlertTypeOK
    <3>. QED  BY <1>1, <3>1, FS_Subset
  <2>3. IsFiniteSet(RecentAlerts \cup {s})
        /\ Cardinality(RecentAlerts \cup {s}) <= Cardinality(RecentAlerts) + 1
        /\ Cardinality(RecentAlerts) \in Nat
    <3>1. IsFiniteSet(RecentAlerts \cup {s}) /\ Cardinality(RecentAlerts) \in Nat
      BY <2>2, FS_AddElement, FS_CardinalityType
    <3>2. Cardinality(RecentAlerts \cup {s}) = IF s \in RecentAlerts THEN Cardinality(RecentAlerts)
                                              ELSE Cardinality(RecentAlerts) + 1
      BY <2>2, FS_AddElement
    <3>. QED  BY <3>1, <3>2
  <2>4. Cardinality(DeliveredFrom(t)') <= Cardinality(RecentAlerts \cup {s})
        /\ Cardinality(DeliveredFrom(t)') \in Nat /\ Cardinality(RecentAlerts \cup {s}) \in Nat
    BY <2>1, <2>3, FS_Subset, FS_CardinalityType
  <2>5. Cardinality(RecentAlerts) < MaxPerHour
    BY <1>4
  <2>. QED  BY <1>3, <2>3, <2>4, <2>5
<1>5. CASE ~(r.level \in Levels \ {"emergency"} /\ ~r.limited /\ tick < t + AlertHour)
  <2>1. DeliveredFrom(t)' = DeliveredFrom(t)
    BY <1>2, <1>3, <1>5 DEF DeliveredFrom
  <2>2. Cardinality(DeliveredFrom(t)) <= MaxPerHour
    BY <1>1 DEF HourlyCap
  <2>. QED  BY <2>1, <2>2
<1>. QED  BY <1>4, <1>5

\* send_monitoring_alert begins.
LEMMA SendMonitoringAlertKeeps ==
  ASSUME AlertInv, NEW s \in Senders, NEW level \in Levels, SendMonitoringAlert(s, level)
  PROVE  AlertInv'
<1>1. AlertTypeOK /\ SenderOK(s) /\ alert[s] \in AlertRows
  BY AlertsByParts, AlertRowOf DEF AlertParts, EverySender
<1>2. PICK counted \in BOOLEAN :
        /\ IF counted THEN UNCHANGED alertLost
             ELSE alertLost < MaxAlertLost /\ alertLost' = alertLost + 1
        /\ alert' = [alert EXCEPT ![s] =
             [NoAlert EXCEPT !.at = "send", !.level = level, !.born = tick,
                             !.limited = counted /\ Limited(level),
                             !.todo = IF counted /\ Limited(level) THEN <<>>
                                  ELSE ChannelsOf[level]]]
        /\ alertOverlap' = (alertOverlap \/ ~counted \/ \E q \in Senders : Busy(q))
  BY DEF SendMonitoringAlert
<1>3. alert[s].at = "idle" /\ tick' = tick /\ recorded' = recorded /\ mailbox' = mailbox
  BY DEF SendMonitoringAlert, Phase
<1>4. PICK over \in BOOLEAN : over <=> counted /\ Limited(level)
  OBVIOUS
<1>5. PICK q : q = IF over THEN <<>> ELSE ChannelsOf[level]
  OBVIOUS
<1>6. q \in Seq(Channels)
  BY <1>5, NoChannels, AlertsAssumption
<1>7. tick \in 0..MaxTick /\ tick \in Nat
  BY <1>1, AlertNumbers DEF AlertTypeOK
<1>8. PICK r : r = [NoAlert EXCEPT !.at = "send", !.level = level, !.born = tick,
           !.limited = over, !.todo = q]
  OBVIOUS
<1>9. /\ r \in AlertRows
      /\ r.at = "send" /\ r.level = level /\ r.born = tick /\ (r.limited <=> over) /\ r.todo = q
      /\ r.sent = {} /\ r.failed = {} /\ r.stage = "" /\ r.rcpt = 0
  <2>1. r \in AlertRows
    BY <1>6, <1>7, <1>8, NoAlertTyped DEF AlertRows
  <2>2. /\ r.at = "send" /\ r.level = level /\ r.born = tick /\ (r.limited <=> over) /\ r.todo = q
        /\ r.sent = NoAlert.sent /\ r.failed = NoAlert.failed /\ r.stage = NoAlert.stage
        /\ r.rcpt = NoAlert.rcpt
    BY <1>8, NoAlertTyped DEF AlertRows
  <2>. QED  BY <2>1, <2>2, NoAlertFields
<1>10. alert' = [alert EXCEPT ![s] = r] /\ alert'[s] = r
  <2>1. (counted /\ Limited(level)) = over
    BY <1>4
  <2>2. alert' = [alert EXCEPT ![s] = r]
    BY <1>2, <1>5, <1>8, <2>1
  <2>. QED  BY <1>1, <2>2 DEF AlertTypeOK
<1>11. r.born <= tick
  <2>1. r.born = tick
    BY <1>9
  <2>. QED  BY <1>7, <2>1
<1>12. AlertIsStaged(s)'
  <2>1. r.born <= tick'
    BY <1>3, <1>11
  <2>. QED  BY <1>9, <1>10, <2>1 DEF AlertIsStaged
<1>13. IsAccounted(s)'
  <2>1. over => level /= "emergency"
    BY <1>4 DEF Limited
  <2>2. CASE over
    <3>1. q = <<>>
      BY <1>5, <2>2
    <3>. QED  BY <1>9, <1>10, <2>1, <2>2, <3>1 DEF IsAccounted
  <2>3. CASE ~over
    <3>1. q = ChannelsOf[level]
      BY <1>5, <2>3
    <3>. QED  BY <1>9, <1>10, <2>3, <3>1 DEF IsAccounted
  <2>. QED  BY <2>2, <2>3
<1>14. alertOverlap' \in BOOLEAN /\ (alertOverlap => alertOverlap')
            /\ alertLost' \in 0..MaxAlertLost
  <2>1. alertOverlap' \in BOOLEAN
    BY <1>2
  <2>2. alertOverlap => alertOverlap'
    BY <1>2
  <2>3. alertLost' \in 0..MaxAlertLost
    BY <1>1, <1>2, AlertNumbers DEF AlertTypeOK
  <2>. QED  BY <2>1, <2>2, <2>3
<1>15. HourlyCap'
  <2>. SUFFICES ASSUME ~alertOverlap'
                PROVE  \A t \in 0..tick : Cardinality(DeliveredFrom(t)') <= MaxPerHour
    BY <1>3 DEF HourlyCap
  <2>1. ~alertOverlap /\ counted /\ \A p \in Senders : ~Busy(p)
    BY <1>2
  <2>2. r.level \in Levels \ {"emergency"} /\ ~r.limited => Cardinality(RecentAlerts) < MaxPerHour
    <3>. SUFFICES ASSUME level /= "emergency", ~over PROVE Cardinality(RecentAlerts) < MaxPerHour
      BY <1>9
    <3>1. ~(Cardinality(RecentAlerts) >= MaxPerHour)
      BY <1>4, <2>1 DEF Limited
    <3>2. Cardinality(RecentAlerts) \in Nat
      <4>1. IsFiniteSet(Raised) /\ \A p \in Senders : SenderOK(p)
        BY AlertsByParts DEF AlertParts, EverySender
      <4>2. RecentAlerts \subseteq Raised
        BY <1>1, <4>1 DEF RecentAlerts, Raised, SenderOK, RowIsOfTheOver, AlertTypeOK
      <4>. QED  BY <4>1, <4>2, FS_Subset, FS_CardinalityType
    <3>. QED  BY <3>1, <3>2, AlertNumbers
  <2>. QED  BY <1>3, <1>9, <1>10, <2>1, <2>2, CountedRaise
<1>. QED  BY <1>3, <1>9, <1>10, <1>12, <1>13, <1>14, <1>15, <1>11, Raises

\* send_security_alert begins.
LEMMA SendSecurityAlertKeeps ==
  ASSUME AlertInv, NEW s \in Senders, NEW severity, SendSecurityAlert(s, severity)
  PROVE  AlertInv'
<1>1. AlertTypeOK /\ SenderOK(s) /\ alert[s] \in AlertRows /\ HourlyCap
  BY AlertsByParts, AlertRowOf DEF AlertParts, EverySender
<1>2. alert[s].at = "idle" /\ tick' = tick /\ recorded' = recorded /\ mailbox' = mailbox
      /\ alertOverlap' = alertOverlap /\ alertLost' = alertLost
  BY DEF SendSecurityAlert, Phase
<1>3. PICK r : r = [NoAlert EXCEPT !.at = "warn", !.todo = Selected(severity)]
  OBVIOUS
<1>4. 0 \in 0..MaxTick /\ 0 <= tick
  BY <1>1, AlertNumbers DEF AlertTypeOK
<1>5. PICK q : q = Selected(severity)
  OBVIOUS
<1>6. /\ r \in AlertRows
      /\ r.at = "warn" /\ r.level = "" /\ r.born = 0 /\ r.todo = q
      /\ r.sent = {} /\ r.failed = {} /\ r.stage = "" /\ r.rcpt = 0
  <2>1. r = [NoAlert EXCEPT !.at = "warn", !.todo = q] /\ q \in Seq(Channels)
    BY <1>3, <1>5, SelectedIsSeq
  <2>2. r \in AlertRows
    BY <2>1, NoAlertTyped DEF AlertRows
  <2>3. /\ r.at = "warn" /\ r.level = NoAlert.level /\ r.born = NoAlert.born /\ r.todo = q
        /\ r.sent = NoAlert.sent /\ r.failed = NoAlert.failed /\ r.stage = NoAlert.stage
        /\ r.rcpt = NoAlert.rcpt
    BY <2>1, NoAlertTyped DEF AlertRows
  <2>. QED  BY <2>2, <2>3, NoAlertFields
<1>7. alert' = [alert EXCEPT ![s] = r] /\ alert'[s] = r
  BY <1>1, <1>3 DEF SendSecurityAlert, AlertTypeOK
<1>8. AlertIsStaged(s)' /\ IsAccounted(s)'
  <2>1. r.born <= tick'
    <3>1. r.born = 0
      BY <1>6
    <3>. QED  BY <1>2, <1>4, <3>1
  <2>2. AlertIsStaged(s)'
    BY <1>6, <1>7, <2>1 DEF AlertIsStaged
  <2>3. IsAccounted(s)'
    BY <1>6, <1>7, AlertsAssumption DEF IsAccounted
  <2>. QED  BY <2>2, <2>3
<1>9. HourlyCap'
  <2>1. r.level \notin Levels
    BY <1>6, AlertsAssumption
  <2>2. \A d \in Senders : alert'[d] = IF d = s THEN r ELSE alert[d]
    BY <1>1, <1>7 DEF AlertTypeOK
  <2>3. \A t : DeliveredFrom(t)' = DeliveredFrom(t)
    BY <1>2, <2>1, <2>2 DEF DeliveredFrom
  <2>. QED  BY <1>1, <1>2, <2>3 DEF HourlyCap
<1>10. alertOverlap' \in BOOLEAN /\ (alertOverlap => alertOverlap')
            /\ alertLost' \in 0..MaxAlertLost
  BY <1>1, <1>2 DEF AlertTypeOK
<1>11. r.born <= tick /\ r.at \in {"send", "warn"}
  <2>1. r.born = 0
    BY <1>6
  <2>. QED  BY <1>4, <1>6, <2>1
<1>. QED  BY <1>2, <1>6, <1>7, <1>8, <1>9, <1>10, <1>11, Raises

\* An hour that has just begun has delivered nothing.
LEMMA AlertTickKeeps ==
  ASSUME AlertInv, AlertTick
  PROVE  AlertInv'
<1>1. AlertTypeOK /\ HourlyCap /\ IsFiniteSet(Raised) /\ \A q \in Senders : SenderOK(q)
  BY AlertsByParts DEF AlertParts, EverySender
<1>2. tick < MaxTick /\ tick' = tick + 1 /\ UNCHANGED <<alert, recorded, mailbox, alertOverlap,
           alertLost>>
  BY DEF AlertTick
<1>3. tick \in Nat /\ tick' \in Nat /\ tick <= tick' /\ tick' \in 0..MaxTick
  BY <1>1, <1>2, AlertNumbers DEF AlertTypeOK
<1>4. AlertTypeOK'
  BY <1>1, <1>2, <1>3 DEF AlertTypeOK
<1>5. IsFiniteSet(Raised)'
  <2>1. Raised' = Raised
    BY <1>2 DEF Raised
  <2>. QED  BY <1>1, <2>1
<1>6. HourlyCap'
  <2>. SUFFICES ASSUME ~alertOverlap', NEW t \in 0..tick'
                PROVE  Cardinality(DeliveredFrom(t)') <= MaxPerHour
    BY DEF HourlyCap
  <2>1. DeliveredFrom(t)' = DeliveredFrom(t)
    BY <1>2 DEF DeliveredFrom
  <2>2. CASE t \in 0..tick
    BY <1>1, <1>2, <2>1, <2>2 DEF HourlyCap
  <2>3. CASE t \notin 0..tick
    <3>1. t = tick + 1
      BY <1>2, <1>3, <2>3
    <3>2. ASSUME NEW q \in Senders PROVE ~(t <= alert[q].born)
      <4>1. alert[q].born \in Nat /\ alert[q].born <= tick
        <5>1. alert[q].born \in Nat
          BY <1>1, BornIsNat, AlertRowOf
        <5>. QED  BY <1>1, <5>1 DEF SenderOK, AlertIsStaged
      <4>. QED  BY <1>3, <3>1, <4>1
    <3>3. DeliveredFrom(t) = {}
      BY <3>2 DEF DeliveredFrom
    <3>. QED  BY <2>1, <3>3, FS_EmptySet, AlertNumbers
  <2>. QED  BY <2>2, <2>3
<1>7. ASSUME NEW q \in Senders PROVE SenderOK(q)'
  <2>1. alert[q] \in AlertRows
    BY <1>1, AlertRowOf
  <2>. QED  BY <1>1, <1>2, <1>3, <2>1, SendersStand
<1>8. AlertParts'
  BY <1>4, <1>5, <1>6, <1>7 DEF AlertParts, EverySender
<1>. QED  BY <1>8, AlertsByParts, PTL

\* Nothing happens.
LEMMA AlertsStill ==
  ASSUME AlertInv, UNCHANGED alertVars
  PROVE  AlertInv'
<1>1. AlertTypeOK /\ HourlyCap /\ IsFiniteSet(Raised) /\ \A q \in Senders : SenderOK(q)
  BY AlertsByParts DEF AlertParts, EverySender
<1>2. UNCHANGED <<tick, alert, recorded, mailbox, alertOverlap, alertLost>>
  BY DEF alertVars
<1>3. AlertTypeOK'
  BY <1>1, <1>2 DEF AlertTypeOK
<1>4. IsFiniteSet(Raised)' /\ HourlyCap'
  <2>1. Raised' = Raised /\ \A t : DeliveredFrom(t)' = DeliveredFrom(t)
    BY <1>2 DEF Raised, DeliveredFrom
  <2>. QED  BY <1>1, <1>2, <2>1 DEF HourlyCap
<1>5. ASSUME NEW q \in Senders PROVE SenderOK(q)'
  <2>1. alert[q] \in AlertRows
    BY <1>1, AlertRowOf
  <2>2. tick \in Nat /\ tick' \in Nat /\ tick <= tick'
    BY <1>1, <1>2, AlertNumbers DEF AlertTypeOK
  <2>. QED  BY <1>1, <1>2, <2>1, <2>2, SendersStand
<1>6. AlertParts'
  BY <1>3, <1>4, <1>5 DEF AlertParts, EverySender
<1>. QED  BY <1>6, AlertsByParts, PTL

\* No alert has been raised.
LEMMA AlertInitially == AlertInit => AlertInv
<1>. SUFFICES ASSUME AlertInit PROVE AlertInv
  OBVIOUS
<1>1. /\ tick = 0 /\ alertLost = 0 /\ recorded = {} /\ alertOverlap = FALSE
      /\ alert = [s \in Senders |-> NoAlert] /\ mailbox = [s \in Senders |-> 0]
  BY DEF AlertInit
<1>2. AlertTypeOK
  <2>1. 0 \in 0..MaxTick /\ 0 \in 0..MaxAlertLost /\ mailbox \in [Senders -> 0..Recipients]
    BY <1>1, AlertNumbers
  <2>2. alert \in [Senders -> AlertRows]
    BY <1>1, NoAlertTyped
  <2>. QED  BY <1>1, <2>1, <2>2 DEF AlertTypeOK
<1>3. Raised = {} /\ IsFiniteSet(Raised)
  <2>1. Raised = {}
    BY <1>1, NoAlertFields DEF Raised
  <2>. QED  BY <2>1, FS_EmptySet
<1>4. HourlyCap
  <2>1. \A t : DeliveredFrom(t) = {}
    BY <1>1, NoAlertFields DEF DeliveredFrom
  <2>. QED  BY <2>1, FS_EmptySet, AlertNumbers DEF HourlyCap
<1>5. ASSUME NEW s \in Senders PROVE SenderOK(s)
  <2>1. alert[s] = NoAlert /\ mailbox[s] = 0 /\ tick = 0 /\ s \notin recorded
    BY <1>1
  <2>2. AlertIsStaged(s)
    <3>1. alert[s].born <= tick
      <4>1. alert[s].born = 0 /\ tick = 0
        BY <2>1, NoAlertFields
      <4>2. 0 <= 0
        OBVIOUS
      <4>. QED  BY <4>1, <4>2, Zenon
    <3>. QED  BY <2>1, <3>1, NoAlertFields DEF AlertIsStaged
  <2>3. IsAccounted(s)
    BY <2>1, NoAlertFields, AlertsAssumption DEF IsAccounted
  <2>4. RowIsOfTheOver(s) /\ MailArrived(s)
    <3>1. alert[s].at = "idle" /\ alert[s].sent = {}
      BY <2>1, NoAlertFields
    <3>2. ~(mailbox[s] > 0) /\ mailbox[s] \in {0, Recipients}
      BY <2>1
    <3>. QED  BY <2>1, <3>1, <3>2 DEF RowIsOfTheOver, MailArrived
  <2>. QED  BY <2>2, <2>3, <2>4 DEF SenderOK
<1>6. AlertParts
  BY <1>2, <1>3, <1>4, <1>5 DEF AlertParts, EverySender
<1>. QED  BY <1>6, AlertsByParts

\* Every step keeps the invariant.
LEMMA AlertStep == AlertInv /\ [AlertNext]_alertVars => AlertInv'
<1>. SUFFICES ASSUME AlertInv, [AlertNext]_alertVars PROVE AlertInv'
  OBVIOUS
<1>1. CASE UNCHANGED alertVars
  BY <1>1, AlertsStill
<1>2. CASE AlertTick
  BY <1>2, AlertTickKeeps
<1>3. ASSUME NEW s \in Senders, NEW level \in Levels, SendMonitoringAlert(s, level)
      PROVE  AlertInv'
  BY <1>3, SendMonitoringAlertKeeps
<1>4. ASSUME NEW s \in Senders, NEW severity \in 0..3, SendSecurityAlert(s, severity)
      PROVE  AlertInv'
  BY <1>4, SendSecurityAlertKeeps
<1>5. ASSUME NEW s \in Senders, Post(s) PROVE AlertInv'
  BY <1>5, PostKeeps
<1>6. ASSUME NEW s \in Senders, SmtpAccepts(s) PROVE AlertInv'
  BY <1>6, SmtpAcceptsKeeps
<1>7. ASSUME NEW s \in Senders, SmtpDelivers(s) PROVE AlertInv'
  BY <1>7, SmtpDeliversKeeps
<1>8. ASSUME NEW s \in Senders, SmtpRefuses(s) PROVE AlertInv'
  BY <1>8, SmtpRefusesKeeps
<1>9. ASSUME NEW s \in Senders, Record(s) PROVE AlertInv'
  BY <1>9, RecordKeeps
<1>10. ASSUME NEW s \in Senders, WarningSent(s) PROVE AlertInv'
  BY <1>10, WarningSentKeeps
<1>. QED  BY <1>1, <1>2, <1>3, <1>4, <1>5, <1>6, <1>7, <1>8, <1>9, <1>10 DEF AlertNext

\* The hour's limit holds, a recorded alert accounts for every channel of its level, and mail
\* that is reported as sent has reached every recipient.
THEOREM AlertsAreAccounted == AlertSpec => []AlertInv
BY AlertInitially, AlertStep, PTL DEF AlertSpec

-----------------------------------------------------------------------------
(* Presence.                                                                *)

\* The bounds are numbers, and no visit is the absent one.
LEMMA PresenceNumbers ==
  /\ HISTORY_CAP \in Nat /\ HISTORY_CAP >= 1 /\ LastHour \in Nat /\ MaxLost \in Nat
  /\ NoVisit \notin Visits /\ Never \in Nat /\ Never \in 1..Never
BY PresenceAssumption DEF NoVisit, Never

\* A visit moves on.
LEMMA VisitMoves ==
  ASSUME PresenceTypeOK, NEW v \in Visits, NEW r \in VisitRows, r.at /= "new",
         visit' = [visit EXCEPT ![v] = r]
  PROVE  /\ visit' \in [Visits -> VisitRows]
              /\ \A u \in Visits : visit'[u] = IF u = v THEN r ELSE visit[u]
         /\ IsFiniteSet({u \in Visits : visit[u].at /= "new"}')
         /\ Setting' = IF r.at \in {"write", "record", "trim", "tell"} THEN Setting \cup {v} ELSE Setting \ {v}
         /\ Cardinality(Untrimmed) \in Nat /\ Cardinality(Untrimmed') \in Nat
         /\ r.at \in {"trim", "lost"} => Cardinality(Untrimmed') >= Cardinality(Untrimmed)
         /\ r.at \in {"trim", "lost"} /\ visit[v].at \notin {"trim", "lost"} =>
              Cardinality(Untrimmed') = Cardinality(Untrimmed) + 1
         /\ r.at \notin {"trim", "lost"} /\ visit[v].at \notin {"trim", "lost"}
              => Untrimmed' = Untrimmed
<1>1. visit' \in [Visits -> VisitRows] /\ \A u \in Visits : visit'[u] = IF u = v THEN r
           ELSE visit[u]
  BY DEF PresenceTypeOK
<1>2. IsFiniteSet({u \in Visits : visit[u].at /= "new"}')
  <2>1. {u \in Visits : visit[u].at /= "new"}' \subseteq {u \in Visits : visit[u].at /= "new"} \cup {v}
    BY <1>1
  <2>2. IsFiniteSet({u \in Visits : visit[u].at /= "new"} \cup {v})
    BY FS_AddElement DEF PresenceTypeOK
  <2>. QED  BY <2>1, <2>2, FS_Subset
<1>3. Setting' = IF r.at \in {"write", "record", "trim", "tell"} THEN Setting \cup {v}
           ELSE Setting \ {v}
  BY <1>1 DEF Setting
<1>4. Untrimmed' = IF r.at \in {"trim", "lost"} THEN Untrimmed \cup {v} ELSE Untrimmed \ {v}
  BY <1>1 DEF Untrimmed
<1>5. IsFiniteSet(Untrimmed) /\ (v \in Untrimmed <=> visit[v].at \in {"trim", "lost"})
  <2>1. Untrimmed \subseteq {u \in Visits : visit[u].at /= "new"}
    BY DEF Untrimmed
  <2>2. IsFiniteSet(Untrimmed)
    BY <2>1, FS_Subset DEF PresenceTypeOK
  <2>. QED  BY <2>2 DEF Untrimmed
<1>6. Cardinality(Untrimmed) \in Nat /\ Cardinality(Untrimmed') \in Nat
  <2>1. IsFiniteSet(Untrimmed \cup {v}) /\ IsFiniteSet(Untrimmed \ {v})
    BY <1>5, FS_AddElement, FS_RemoveElement
  <2>. QED  BY <1>4, <1>5, <2>1, FS_CardinalityType
<1>7. /\ r.at \in {"trim", "lost"} => Cardinality(Untrimmed') >= Cardinality(Untrimmed)
      /\ r.at \in {"trim", "lost"} /\ visit[v].at \notin {"trim", "lost"} =>
              Cardinality(Untrimmed') = Cardinality(Untrimmed) + 1
  <2>1. Cardinality(Untrimmed \cup {v}) = IF v \in Untrimmed THEN Cardinality(Untrimmed)
                                          ELSE Cardinality(Untrimmed) + 1
    BY <1>5, FS_AddElement
  <2>. QED  BY <1>4, <1>5, <1>6, <2>1
<1>8. r.at \notin {"trim", "lost"} /\ visit[v].at \notin {"trim", "lost"}
           => Untrimmed' = Untrimmed
  BY <1>4, <1>5
<1>. QED  BY <1>1, <1>2, <1>3, <1>6, <1>7, <1>8

\* The types of the variables.
LEMMA VisitTypes ==
  ASSUME PresenceTypeOK, NEW v \in Visits
  PROVE  /\ visit[v] \in VisitRows /\ visit[v].sets \in States /\ visit[v].until \in 1..Never
         /\ hour \in Nat /\ lost \in Nat /\ Len(history) \in Nat
<1>1. visit[v] \in VisitRows
  BY DEF PresenceTypeOK
<1>. QED  BY <1>1, PresenceNumbers DEF PresenceTypeOK, VisitRows

\* A row with another state.
LEMMA VisitAt ==
  ASSUME PresenceTypeOK, NEW v \in Visits,
         NEW a \in {"new", "write", "record", "trim", "tell", "done", "lost"}, Steps(v, a)
  PROVE  \E r \in VisitRows :
           /\ visit' = [visit EXCEPT ![v] = r]
           /\ r.at = a /\ r.sets = visit[v].sets /\ (r.auto <=> visit[v].auto)
                /\ (r.past <=> visit[v].past)
<1>1. PICK r : r = [visit[v] EXCEPT !.at = a]
  OBVIOUS
<1>2. visit[v] \in VisitRows
  BY VisitTypes
<1>3. r \in VisitRows /\ visit' = [visit EXCEPT ![v] = r]
  BY <1>1, <1>2 DEF VisitRows, Steps
<1>4. r.at = a /\ r.sets = visit[v].sets /\ (r.auto <=> visit[v].auto)
           /\ (r.past <=> visit[v].past)
  BY <1>1, <1>2 DEF VisitRows
<1>. QED  BY <1>3, <1>4

\* A visit begins.
LEMMA EntersKeeps ==
  ASSUME PresenceInv, NEW v \in Visits, visit[v].at = "new",
         NEW r \in VisitRows, r.at = "write", r.past, r.auto => Lapsed, Enters(v, r),
         UNCHANGED <<presence, history, hour, toldAs, onAir, lost>>
  PROVE  PresenceInv'
<1>. USE VisitTypes DEF PresenceInv
<1>1. visit' = [visit EXCEPT ![v] = r] /\ overlap' = (overlap \/ Setting /= {})
  BY DEF Enters
<1>2. /\ visit' \in [Visits -> VisitRows]
           /\ \A u \in Visits : visit'[u] = IF u = v THEN r ELSE visit[u]
      /\ IsFiniteSet({u \in Visits : visit[u].at /= "new"}')
      /\ Setting' = Setting \cup {v} /\ Untrimmed' = Untrimmed
  BY <1>1, VisitMoves
<1>3. PresenceTypeOK'
  <2>1. overlap' \in BOOLEAN
    BY <1>1
  <2>. QED  BY <1>2, <2>1 DEF PresenceTypeOK
<1>4. HistoryEndsWithPresence'
  BY <1>1, <1>2 DEF HistoryEndsWithPresence, PresenceTypeOK
<1>5. ExpiryHasCause'
  BY <1>1, <1>2 DEF ExpiryHasCause
<1>6. ToldUnlessExpired'
  BY <1>2 DEF ToldUnlessExpired
<1>7. ASSUME NEW u \in Visits PROVE VisitIsAlone(u)'
  <2>. SUFFICES ASSUME ~overlap', u \in Setting'
                PROVE  /\ Setting' = {u}
                       /\ visit'[u].at = "write" /\ visit'[u].auto => Lapsed'
                       /\ visit'[u].at /= "write" => presence'.by = u
                            /\ presence'.is = visit'[u].sets
    BY DEF VisitIsAlone
  <2>1. Setting = {} /\ u = v
    BY <1>1, <1>2
  <2>2. Lapsed' <=> Lapsed
    BY DEF Lapsed
  <2>. QED  BY <1>2, <2>1, <2>2
<1>. QED  BY <1>3, <1>4, <1>5, <1>6, <1>7

\* The row of the presence is written.
LEMMA StatusIsSet ==
  ASSUME PresenceInv, NEW v \in Visits, Upsert(v)
  PROVE  PresenceInv'
<1>. USE VisitTypes DEF PresenceInv
<1>1. /\ visit[v].at = "write" /\ UNCHANGED <<history, hour, toldAs, onAir, overlap, lost>>
      /\ presence' = [is |-> visit[v].sets, until |-> visit[v].until, by |-> v]
      /\ visit' = [visit EXCEPT ![v].at = "record", ![v].past = visit[v].auto => Lapsed]
  BY DEF Upsert
<1>2. PICK p \in BOOLEAN : p <=> (visit[v].auto => Lapsed)
  OBVIOUS
<1>3. PICK r : r = [visit[v] EXCEPT !.at = "record", !.past = p]
  OBVIOUS
<1>4. visit' = [visit EXCEPT ![v] = r]
  <2>1. p = (visit[v].auto => Lapsed)
    BY <1>2
  <2>2. visit' = [visit EXCEPT ![v].at = "record", ![v].past = p]
    BY <1>1, <2>1
  <2>3. visit' = [visit EXCEPT ![v] = [visit[v] EXCEPT !.at = "record", !.past = p]]
    BY <2>2 DEF PresenceTypeOK, VisitRows
  <2>. QED  BY <1>3, <2>3
<1>5. r \in VisitRows /\ r.at = "record" /\ r.sets = visit[v].sets /\ (r.past <=> p)
  BY <1>3 DEF VisitRows
<1>6. /\ visit' \in [Visits -> VisitRows]
           /\ \A u \in Visits : visit'[u] = IF u = v THEN r ELSE visit[u]
      /\ IsFiniteSet({u \in Visits : visit[u].at /= "new"}')
      /\ Setting' = Setting \cup {v} /\ Untrimmed' = Untrimmed
  BY <1>1, <1>4, <1>5, VisitMoves
<1>7. presence'.by = v /\ presence'.is = visit[v].sets
  BY <1>1
<1>8. PresenceTypeOK'
  <2>1. presence' \in [is : States, until : 1..Never, by : Visits \cup {NoVisit}]
    BY <1>1
  <2>. QED  BY <1>1, <1>6, <2>1 DEF PresenceTypeOK
<1>9. v \in Setting /\ (~overlap => Setting = {v} /\ (visit[v].auto => Lapsed))
  BY <1>1 DEF Setting, VisitIsAlone
<1>10. HistoryEndsWithPresence'
  BY <1>5, <1>6, <1>7 DEF HistoryEndsWithPresence
<1>11. ExpiryHasCause'
  BY <1>1, <1>2, <1>5, <1>6, <1>9 DEF ExpiryHasCause
<1>12. ToldUnlessExpired'
  BY <1>6 DEF ToldUnlessExpired
<1>13. ASSUME NEW u \in Visits PROVE VisitIsAlone(u)'
  BY <1>1, <1>5, <1>6, <1>7, <1>9 DEF VisitIsAlone
<1>. QED  BY <1>8, <1>10, <1>11, <1>12, <1>13

\* Its entry is appended to the history.
LEMMA RecordHistoryKeeps ==
  ASSUME PresenceInv, NEW v \in Visits, RecordHistory(v)
  PROVE  PresenceInv'
<1>. USE VisitTypes DEF PresenceInv
<1>1. /\ visit[v].at = "record" /\ UNCHANGED <<presence, hour, toldAs, onAir, overlap, lost>>
      /\ history' = Append(history, [is |-> visit[v].sets, by |-> v]) /\ Steps(v, "trim")
  BY DEF RecordHistory
<1>2. PICK r \in VisitRows :
        /\ visit' = [visit EXCEPT ![v] = r]
        /\ r.at = "trim" /\ r.sets = visit[v].sets /\ (r.auto <=> visit[v].auto)
             /\ (r.past <=> visit[v].past)
  BY <1>1, VisitAt
<1>3. /\ visit' \in [Visits -> VisitRows]
           /\ \A u \in Visits : visit'[u] = IF u = v THEN r ELSE visit[u]
      /\ IsFiniteSet({u \in Visits : visit[u].at /= "new"}')
      /\ Setting' = Setting \cup {v} /\ Cardinality(Untrimmed) \in Nat
      /\ Cardinality(Untrimmed') = Cardinality(Untrimmed) + 1
  BY <1>1, <1>2, VisitMoves
<1>4. PICK n : n = [is |-> visit[v].sets, by |-> v]
  OBVIOUS
<1>5. n \in [is : States, by : Visits]
  BY <1>4
<1>6. history' \in Seq([is : States, by : Visits]) /\ Len(history') = Len(history) + 1
      /\ history'[Len(history')] = n
  <2>1. history \in Seq([is : States, by : Visits]) /\ history' = Append(history, n)
    BY <1>1, <1>4 DEF PresenceTypeOK
  <2>. QED  BY <1>5, <2>1, AppendProperties
<1>7. PresenceTypeOK'
  <2>1. Len(history') <= HISTORY_CAP + Cardinality(Untrimmed')
    <3>1. Len(history) <= HISTORY_CAP + Cardinality(Untrimmed)
      BY DEF PresenceTypeOK
    <3>. QED  BY <1>3, <1>6, <3>1, PresenceNumbers
  <2>. QED  BY <1>1, <1>3, <1>6, <2>1 DEF PresenceTypeOK
<1>8. v \in Setting /\ (~overlap => Setting = {v} /\ presence.by = v
           /\ presence.is = visit[v].sets)
  BY <1>1 DEF Setting, VisitIsAlone
<1>9. HistoryEndsWithPresence'
  <2>. SUFFICES ASSUME ~overlap
                PROVE  history' /= <<>> /\ history'[Len(history')] = [is |-> presence.is,
                       by |-> presence.by]
    BY <1>1 DEF HistoryEndsWithPresence
  <2>1. history' /= <<>>
    BY <1>6
  <2>. QED  BY <1>4, <1>6, <1>8, <2>1
<1>10. ExpiryHasCause'
  BY <1>1, <1>2, <1>3 DEF ExpiryHasCause
<1>11. ToldUnlessExpired'
  BY <1>3 DEF ToldUnlessExpired
<1>12. ASSUME NEW u \in Visits PROVE VisitIsAlone(u)'
  BY <1>1, <1>2, <1>3, <1>8 DEF VisitIsAlone
<1>. QED  BY <1>7, <1>9, <1>10, <1>11, <1>12

\* The newest entries of a history are kept, the last among them.
LEMMA TailKept ==
  ASSUME NEW A, NEW q \in Seq(A), NEW k \in Nat, k >= 1, Len(q) > k
  PROVE  LET t == SubSeq(q, Len(q) - k + 1, Len(q))
         IN  t \in Seq(A) /\ Len(t) = k /\ t[Len(t)] = q[Len(q)]
<1>1. Len(q) \in Nat /\ Len(q) - k + 1 \in 1..(Len(q) + 1)
  OBVIOUS
<1>2. SubSeq(q, Len(q) - k + 1, Len(q)) \in Seq(A)
  BY <1>1
<1>3. Len(SubSeq(q, Len(q) - k + 1, Len(q))) = k
  BY <1>1
<1>4. SubSeq(q, Len(q) - k + 1, Len(q))[k] = q[Len(q)]
  BY <1>1
<1>. QED  BY <1>2, <1>3, <1>4

\* The history is cut to its cap.
LEMMA TrimKeeps ==
  ASSUME PresenceInv, NEW v \in Visits, Trim(v)
  PROVE  PresenceInv'
<1>. USE VisitTypes DEF PresenceInv
<1>1. /\ visit[v].at = "trim" /\ UNCHANGED <<presence, hour, toldAs, onAir, overlap, lost>>
      /\ history' = IF Len(history) > HISTORY_CAP
                    THEN SubSeq(history, Len(history) - HISTORY_CAP + 1, Len(history))
                         ELSE history
      /\ Steps(v, IF visit[v].auto THEN "done" ELSE "tell")
  BY DEF Trim
<1>2. PICK r \in VisitRows :
        /\ visit' = [visit EXCEPT ![v] = r]
        /\ r.at = IF visit[v].auto THEN "done" ELSE "tell"
        /\ r.sets = visit[v].sets /\ (r.auto <=> visit[v].auto) /\ (r.past <=> visit[v].past)
  BY <1>1, VisitAt
<1>3. /\ visit' \in [Visits -> VisitRows]
           /\ \A u \in Visits : visit'[u] = IF u = v THEN r ELSE visit[u]
      /\ IsFiniteSet({u \in Visits : visit[u].at /= "new"}')
      /\ Setting' = IF r.at = "tell" THEN Setting \cup {v} ELSE Setting \ {v}
      /\ Cardinality(Untrimmed') \in Nat
  BY <1>1, <1>2, VisitMoves
<1>4. history \in Seq([is : States, by : Visits])
  BY DEF PresenceTypeOK
<1>5. /\ history' \in Seq([is : States, by : Visits]) /\ Len(history') <= HISTORY_CAP
      /\ history /= <<>> => history' /= <<>> /\ history'[Len(history')] = history[Len(history)]
  <2>1. CASE Len(history) > HISTORY_CAP
    <3>1. history' \in Seq([is : States, by : Visits]) /\ Len(history') = HISTORY_CAP
          /\ history'[Len(history')] = history[Len(history)]
      BY <1>1, <1>4, <2>1, TailKept, PresenceNumbers, ZenonT(40)
    <3>2. history' /= <<>>
      BY <3>1, PresenceNumbers
    <3>. QED  BY <3>1, <3>2, PresenceNumbers
  <2>2. CASE ~(Len(history) > HISTORY_CAP)
    <3>1. history' = history
      BY <1>1, <2>2
    <3>. QED  BY <1>4, <2>2, <3>1, PresenceNumbers
  <2>. QED  BY <2>1, <2>2
<1>6. PresenceTypeOK'
  <2>1. Len(history') <= HISTORY_CAP + Cardinality(Untrimmed')
    <3>1. Len(history') \in Nat
      BY <1>5
    <3>. QED  BY <1>3, <1>5, <3>1, PresenceNumbers
  <2>. QED  BY <1>1, <1>3, <1>5, <2>1 DEF PresenceTypeOK
<1>7. v \in Setting /\ (~overlap => Setting = {v} /\ presence.by = v
           /\ presence.is = visit[v].sets)
  BY <1>1 DEF Setting, VisitIsAlone
<1>8. HistoryEndsWithPresence'
  <2>. SUFFICES ASSUME ~overlap, lost = 0
                PROVE history' /= <<>> /\ history'[Len(history')] = [is |-> presence.is,
                      by |-> presence.by]
    BY <1>1 DEF HistoryEndsWithPresence
  <2>1. history /= <<>> /\ history[Len(history)] = [is |-> presence.is, by |-> presence.by]
    BY <1>1, <1>7, PresenceNumbers DEF HistoryEndsWithPresence
  <2>. QED  BY <1>5, <2>1
<1>9. ExpiryHasCause'
  BY <1>1, <1>2, <1>3 DEF ExpiryHasCause
<1>10. ToldUnlessExpired'
  <2>. SUFFICES ASSUME ~overlap, Setting' = {}
                PROVE  presence.by \in Visits /\ visit'[presence.by].auto
    BY <1>1 DEF ToldUnlessExpired
  <2>1. r.at /= "tell"
    BY <1>3
  <2>2. visit[v].auto
    BY <1>2, <2>1
  <2>. QED  BY <1>2, <1>3, <1>7, <2>2
<1>11. ASSUME NEW u \in Visits PROVE VisitIsAlone(u)'
  BY <1>1, <1>2, <1>3, <1>7 DEF VisitIsAlone
<1>. QED  BY <1>6, <1>8, <1>9, <1>10, <1>11

\* Who listens is told.
LEMMA TellPresenceKeeps ==
  ASSUME PresenceInv, NEW v \in Visits, TellPresence(v)
  PROVE  PresenceInv'
<1>. USE VisitTypes DEF PresenceInv
<1>1. visit[v].at = "tell" /\ UNCHANGED <<presence, history, hour, onAir, overlap, lost>>
  BY DEF TellPresence
<1>2. PICK to \in SUBSET Listeners :
        /\ toldAs' = [l \in Listeners |-> IF l \in to THEN visit[v].sets ELSE toldAs[l]]
        /\ visit' = [visit EXCEPT ![v].at = "done", ![v].missed = Listeners \ to]
  BY DEF TellPresence, Listeners
<1>3. PICK r : r = [visit[v] EXCEPT !.at = "done", !.missed = Listeners \ to]
  OBVIOUS
<1>4. visit[v] \in VisitRows /\ visit' = [visit EXCEPT ![v] = r]
  BY <1>2, <1>3 DEF PresenceTypeOK, VisitRows
<1>5. /\ r \in VisitRows /\ r.at = "done" /\ r.sets = visit[v].sets /\ r.missed = Listeners \ to
      /\ (r.auto <=> visit[v].auto) /\ (r.past <=> visit[v].past)
  BY <1>3, <1>4 DEF VisitRows
<1>6. /\ visit' \in [Visits -> VisitRows]
           /\ \A u \in Visits : visit'[u] = IF u = v THEN r ELSE visit[u]
      /\ IsFiniteSet({u \in Visits : visit[u].at /= "new"}')
      /\ Setting' = Setting \ {v} /\ Untrimmed' = Untrimmed
  BY <1>1, <1>4, <1>5, VisitMoves
<1>7. PresenceTypeOK'
  <2>1. toldAs' \in [Listeners -> States]
    BY <1>2 DEF PresenceTypeOK
  <2>. QED  BY <1>1, <1>6, <2>1 DEF PresenceTypeOK
<1>8. v \in Setting /\ (~overlap => Setting = {v} /\ presence.by = v
           /\ presence.is = visit[v].sets)
  BY <1>1 DEF Setting, VisitIsAlone
<1>9. HistoryEndsWithPresence'
  <2>. SUFFICES ASSUME ~overlap, lost = 0
                PROVE history /= <<>> /\ history[Len(history)] = [is |-> presence.is,
                      by |-> presence.by]
    BY <1>1 DEF HistoryEndsWithPresence
  <2>. QED  BY <1>1, <1>8, PresenceNumbers DEF HistoryEndsWithPresence
<1>10. ExpiryHasCause'
  BY <1>1, <1>5, <1>6 DEF ExpiryHasCause
<1>11. ToldUnlessExpired'
  <2>. SUFFICES ASSUME ~overlap, NEW l \in Listeners
                PROVE  toldAs'[l] = presence.is \/ l \in visit'[v].missed
    BY <1>1, <1>8 DEF ToldUnlessExpired
  <2>1. CASE l \in to
    BY <1>2, <1>8, <2>1
  <2>2. CASE l \notin to
    <3>1. visit'[v] = r /\ l \in r.missed
      BY <1>5, <1>6, <2>2
    <3>. QED  BY <3>1
  <2>. QED  BY <2>1, <2>2
<1>12. ASSUME NEW u \in Visits PROVE VisitIsAlone(u)'
  BY <1>1, <1>6, <1>8 DEF VisitIsAlone
<1>. QED  BY <1>7, <1>9, <1>10, <1>11, <1>12

\* A visit is lost.
LEMMA LoseKeeps ==
  ASSUME PresenceInv, NEW v \in Visits, Lose(v)
  PROVE  PresenceInv'
<1>. USE VisitTypes DEF PresenceInv
<1>1. /\ visit[v].at \in {"write", "record", "trim", "tell"} /\ lost < MaxLost
      /\ lost' = lost + 1 /\ UNCHANGED <<presence, history, hour, toldAs, onAir, overlap>>
      /\ Steps(v, "lost")
  BY DEF Lose
<1>2. PICK r \in VisitRows :
        /\ visit' = [visit EXCEPT ![v] = r]
        /\ r.at = "lost" /\ r.sets = visit[v].sets /\ (r.auto <=> visit[v].auto)
             /\ (r.past <=> visit[v].past)
  BY <1>1, VisitAt
<1>3. /\ visit' \in [Visits -> VisitRows]
           /\ \A u \in Visits : visit'[u] = IF u = v THEN r ELSE visit[u]
      /\ IsFiniteSet({u \in Visits : visit[u].at /= "new"}')
      /\ Setting' = Setting \ {v}
      /\ Cardinality(Untrimmed) \in Nat /\ Cardinality(Untrimmed') \in Nat
      /\ Cardinality(Untrimmed') >= Cardinality(Untrimmed)
  BY <1>1, <1>2, VisitMoves
<1>4. lost' \in 0..MaxLost /\ lost' /= 0
  BY <1>1, PresenceNumbers
<1>5. PresenceTypeOK'
  <2>1. Len(history') <= HISTORY_CAP + Cardinality(Untrimmed')
    <3>1. Len(history) <= HISTORY_CAP + Cardinality(Untrimmed)
      BY DEF PresenceTypeOK
    <3>. QED  BY <1>1, <1>3, <3>1, PresenceNumbers
  <2>. QED  BY <1>1, <1>3, <1>4, <2>1 DEF PresenceTypeOK
<1>6. HistoryEndsWithPresence' /\ ToldUnlessExpired'
  BY <1>4 DEF HistoryEndsWithPresence, ToldUnlessExpired
<1>7. ExpiryHasCause'
  BY <1>1, <1>2, <1>3 DEF ExpiryHasCause
<1>8. ASSUME NEW u \in Visits PROVE VisitIsAlone(u)'
  <2>1. v \in Setting /\ (~overlap => Setting = {v})
    BY <1>1 DEF Setting, VisitIsAlone
  <2>. QED  BY <1>1, <1>3, <2>1 DEF VisitIsAlone
<1>. QED  BY <1>5, <1>6, <1>7, <1>8

\* The clock goes on.
LEMMA HourPassesKeeps ==
  ASSUME PresenceInv, HourPasses
  PROVE  PresenceInv'
<1>. USE DEF PresenceInv
<1>1. hour < LastHour /\ hour' = hour + 1 /\ UNCHANGED <<presence, history, visit, toldAs,
           onAir, overlap, lost>>
  BY DEF HourPasses
<1>2. PresenceTypeOK'
  <2>1. hour' \in 0..LastHour
    BY <1>1, PresenceNumbers DEF PresenceTypeOK
  <2>2. Untrimmed' = Untrimmed
    BY <1>1 DEF Untrimmed
  <2>. QED  BY <1>1, <2>1, <2>2 DEF PresenceTypeOK
<1>3. HistoryEndsWithPresence' /\ ToldUnlessExpired' /\ ExpiryHasCause'
  BY <1>1 DEF HistoryEndsWithPresence, ToldUnlessExpired, ExpiryHasCause, Setting
<1>4. Lapsed => Lapsed'
  <2>1. hour \in Nat /\ presence.until \in Nat
    BY PresenceNumbers DEF PresenceTypeOK
  <2>. QED  BY <1>1, <2>1 DEF Lapsed
<1>5. ASSUME NEW u \in Visits PROVE VisitIsAlone(u)'
  BY <1>1, <1>4 DEF VisitIsAlone, Setting
<1>. QED  BY <1>2, <1>3, <1>5

\* The broadcasts are switched on or off.
LEMMA SwitchKeeps ==
  ASSUME PresenceInv, SwitchBroadcasts
  PROVE  PresenceInv'
<1>. USE DEF PresenceInv
<1>1. onAir' = ~onAir /\ UNCHANGED <<presence, history, hour, visit, toldAs, overlap, lost>>
  BY DEF SwitchBroadcasts
<1>2. PresenceTypeOK'
  <2>1. onAir' \in BOOLEAN
    BY <1>1, Zenon
  <2>. QED  BY <1>1, <2>1 DEF PresenceTypeOK, Untrimmed
<1>3. HistoryEndsWithPresence' /\ ToldUnlessExpired' /\ ExpiryHasCause'
  BY <1>1 DEF HistoryEndsWithPresence, ToldUnlessExpired, ExpiryHasCause, Setting
<1>4. ASSUME NEW u \in Visits PROVE VisitIsAlone(u)'
  BY <1>1 DEF VisitIsAlone, Setting, Lapsed
<1>. QED  BY <1>2, <1>3, <1>4

\* Nothing happens.
LEMMA PresenceStill ==
  ASSUME PresenceInv, UNCHANGED presenceVars
  PROVE  PresenceInv'
<1>. USE DEF PresenceInv
<1>1. UNCHANGED <<presence, history, hour, visit, toldAs, onAir, overlap, lost>>
  BY DEF presenceVars
<1>2. PresenceTypeOK'
  BY <1>1 DEF PresenceTypeOK, Untrimmed
<1>3. HistoryEndsWithPresence' /\ ToldUnlessExpired' /\ ExpiryHasCause'
  BY <1>1 DEF HistoryEndsWithPresence, ToldUnlessExpired, ExpiryHasCause, Setting
<1>4. ASSUME NEW u \in Visits PROVE VisitIsAlone(u)'
  BY <1>1 DEF VisitIsAlone, Setting, Lapsed
<1>. QED  BY <1>2, <1>3, <1>4

\* Nobody has visited.
LEMMA PresenceInitially == PresenceInit => PresenceInv
<1>. SUFFICES ASSUME PresenceInit PROVE PresenceInv
  OBVIOUS
<1>1. /\ presence = Unseen /\ history = <<>>
      /\ toldAs = [l \in Listeners |-> "offline"] /\ onAir = TRUE
      /\ hour = 0 /\ lost = 0 /\ overlap = FALSE /\ visit = [v \in Visits |-> Waiting]
  BY DEF PresenceInit
<1>2. Waiting \in VisitRows /\ Waiting.at = "new" /\ Waiting.past
  <2>1. Waiting.at = "new"
    BY DEF Waiting
  <2>2. Waiting.past
    BY DEF Waiting
  <2>3. Waiting \in VisitRows
    BY PresenceNumbers DEF Waiting, VisitRows, States
  <2>. QED  BY <2>1, <2>2, <2>3
<1>3. \A v \in Visits : visit[v].at = "new"
  BY <1>1, <1>2
<1>4. Untrimmed = {} /\ Setting = {} /\ {v \in Visits : visit[v].at /= "new"} = {}
  BY <1>3 DEF Untrimmed, Setting
<1>5. PresenceTypeOK
  <2>1. presence \in [is : States, until : 1..Never, by : Visits \cup {NoVisit}]
    BY <1>1, PresenceNumbers DEF Unseen, States
  <2>2. history \in Seq([is : States, by : Visits]) /\ Len(history) = 0
    BY <1>1
  <2>3. Len(history) <= HISTORY_CAP + Cardinality(Untrimmed)
    BY <1>4, <2>2, FS_EmptySet, PresenceNumbers
  <2>4. hour \in 0..LastHour /\ lost \in 0..MaxLost /\ overlap \in BOOLEAN
             /\ toldAs \in [Listeners -> States] /\ onAir \in BOOLEAN
    <3>1. hour \in 0..LastHour /\ lost \in 0..MaxLost
      BY <1>1, PresenceNumbers
    <3>2. toldAs \in [Listeners -> States]
      BY <1>1 DEF States
    <3>3. overlap \in BOOLEAN /\ onAir \in BOOLEAN
      BY <1>1
    <3>. QED  BY <3>1, <3>2, <3>3
  <2>5. visit \in [Visits -> VisitRows]
    BY <1>1, <1>2
  <2>6. IsFiniteSet({v \in Visits : visit[v].at /= "new"})
    BY <1>4, FS_EmptySet
  <2>. QED  BY <2>1, <2>2, <2>3, <2>4, <2>5, <2>6 DEF PresenceTypeOK
<1>6. HistoryEndsWithPresence /\ ToldUnlessExpired
  <2>1. presence.by = NoVisit /\ presence.is = "offline"
    BY <1>1 DEF Unseen
  <2>. QED  BY <1>1, <2>1 DEF HistoryEndsWithPresence, ToldUnlessExpired
<1>7. ExpiryHasCause
  BY <1>1, <1>2 DEF ExpiryHasCause
<1>8. \A v \in Visits : VisitIsAlone(v)
  BY <1>4 DEF VisitIsAlone
<1>. QED  BY <1>5, <1>6, <1>7, <1>8 DEF PresenceInv

\* Every step keeps the invariant.
LEMMA PresenceStep == PresenceInv /\ [PresenceNext]_presenceVars => PresenceInv'
<1>. SUFFICES ASSUME PresenceInv, [PresenceNext]_presenceVars PROVE PresenceInv'
  OBVIOUS
<1>1. CASE UNCHANGED presenceVars
  BY <1>1, PresenceStill
<1>2. CASE HourPasses
  BY <1>2, HourPassesKeeps
<1>10. CASE SwitchBroadcasts
  BY <1>10, SwitchKeeps
<1>3. ASSUME NEW v \in Visits, NEW s \in Shown, NEW u \in 1..Never, UpdateStatus(v, s, u)
      PROVE  PresenceInv'
  <2>1. PICK r : r = [at |-> "write", sets |-> s, until |-> u, auto |-> FALSE, past |-> TRUE,
             missed |-> {}]
    OBVIOUS
  <2>2. r \in VisitRows /\ r.at = "write" /\ ~r.auto
    BY <2>1 DEF VisitRows, States
  <2>3. r.past
    BY <2>1
  <2>4. visit[v].at = "new" /\ Enters(v, r) /\ UNCHANGED <<presence, history, hour, toldAs, onAir, lost>>
    BY <1>3, <2>1 DEF UpdateStatus
  <2>. QED  BY <2>2, <2>3, <2>4, EntersKeeps
<1>4. ASSUME NEW v \in Visits, Notice(v) PROVE PresenceInv'
  <2>1. PICK r : r = [at |-> "write", sets |-> "offline", until |-> Never, auto |-> TRUE,
             past |-> TRUE, missed |-> {}]
    OBVIOUS
  <2>2. r \in VisitRows /\ r.at = "write"
    BY <2>1, PresenceNumbers DEF VisitRows, States
  <2>3. r.past
    BY <2>1
  <2>4. visit[v].at = "new" /\ Enters(v, r) /\ Lapsed /\ UNCHANGED <<presence, history, hour,
             toldAs, onAir, lost>>
    BY <1>4, <2>1 DEF Notice
  <2>. QED  BY <2>2, <2>3, <2>4, EntersKeeps
<1>5. ASSUME NEW v \in Visits, Upsert(v) PROVE PresenceInv'
  BY <1>5, StatusIsSet
<1>6. ASSUME NEW v \in Visits, RecordHistory(v) PROVE PresenceInv'
  BY <1>6, RecordHistoryKeeps
<1>7. ASSUME NEW v \in Visits, Trim(v) PROVE PresenceInv'
  BY <1>7, TrimKeeps
<1>8. ASSUME NEW v \in Visits, TellPresence(v) PROVE PresenceInv'
  BY <1>8, TellPresenceKeeps
<1>9. ASSUME NEW v \in Visits, Lose(v) PROVE PresenceInv'
  BY <1>9, LoseKeeps
<1>. QED  BY <1>1, <1>2, <1>3, <1>4, <1>5, <1>6, <1>7, <1>8, <1>9, <1>10
          DEF PresenceNext

\* The presence, its history and what the listeners were told agree, unless visits overlapped.
THEOREM PresenceIsTold == PresenceSpec => []PresenceInv
BY PresenceInitially, PresenceStep, PTL DEF PresenceSpec

-----------------------------------------------------------------------------
(* Profiles and skills.                                                     *)

\* The bounds, and the lists of accounts.
LEMMA ProfileNumbers == MaxSlips \in Nat /\ Gone \notin Emails /\ {} \notin Wishes
     /\ Batches \subseteq Seq(Accounts) \ {<<>>}
BY AgentProfilesAssumption

-----------------------------------------------------------------------------
(* The order of the fields.                                                 *)

\* The fields come in an order without repetitions.
LEMMA Orders ==
  \A k \in Kinds : /\ \E n \in {3, 4} : DOMAIN Order(k) = 1..n
                   /\ \A i, j \in DOMAIN Order(k) : Order(k)[i] = Order(k)[j] => i = j
<1>1. DOMAIN ProfileOrder = 1..4 /\ \A i, j \in 1..4 : ProfileOrder[i] = ProfileOrder[j] => i = j
  BY DEF ProfileOrder
<1>2. DOMAIN SkillOrder = 1..3 /\ \A i, j \in 1..3 : SkillOrder[i] = SkillOrder[j] => i = j
  BY DEF SkillOrder
<1>. QED  BY <1>1, <1>2 DEF Order

\* A skill has no e-mail address.
LEMMA EmailIsOfProfiles == \A k \in Kinds : "email" \in Fields(k) => k /= "skill"
<1>1. \A i \in 1..3 : SkillOrder[i] /= "email"
  BY DEF SkillOrder
<1>2. DOMAIN SkillOrder = 1..3
  BY DEF SkillOrder
<1>. QED  BY <1>1, <1>2 DEF Fields, Order

\* The fields of a kind are fields.
LEMMA FieldsAreFields == (\A k \in Kinds : Fields(k) \subseteq AllFields)
     /\ Fields("one") = Fields("batch")
BY DEF AllFields, Fields, Order

\* The first of four places that are left.
LEMMA LeastOfFour == \A L \in SUBSET (1..4) : L /= {} => \E i \in L : \A j \in L : i <= j
<1>. SUFFICES ASSUME NEW L \in SUBSET (1..4), L /= {} PROVE \E i \in L : \A j \in L : i <= j
  OBVIOUS
<1>1. CASE 1 \in L
  BY <1>1
<1>2. CASE 1 \notin L /\ 2 \in L
  BY <1>2
<1>3. CASE 1 \notin L /\ 2 \notin L /\ 3 \in L
  BY <1>3
<1>4. CASE 1 \notin L /\ 2 \notin L /\ 3 \notin L
  <2>1. \A j \in 1..4 : j = 1 \/ j = 2 \/ j = 3 \/ j = 4
    OBVIOUS
  <2>2. \A j \in L : j = 4
    BY <1>4, <2>1
  <2>3. PICK i \in L : TRUE
    OBVIOUS
  <2>4. i = 4 /\ 4 <= 4
    BY <2>2
  <2>. QED  BY <2>2, <2>3, <2>4
<1>. QED  BY <1>1, <1>2, <1>3, <1>4

\* While a field is left there is a next one.
LEMMA NextIs ==
  ASSUME NEW r, r.kind \in Kinds, r.left \subseteq Fields(r.kind), r.left /= {}
  PROVE  \E i \in DOMAIN Order(r.kind) :
           /\ NextField(r) = Order(r.kind)[i] /\ NextField(r) \in r.left
           /\ \A j \in DOMAIN Order(r.kind) : Order(r.kind)[j] \in r.left => i <= j
<1>. DEFINE o == Order(r.kind)
            L == {i \in DOMAIN o : o[i] \in r.left}
<1>1. L /= {} /\ L \in SUBSET (1..4)
  <2>1. L /= {}
    BY DEF Fields
  <2>2. DOMAIN o \subseteq 1..4
    <3>1. PICK n \in {3, 4} : DOMAIN o = 1..n
      BY Orders
    <3>. QED  BY <3>1
  <2>. QED  BY <2>1, <2>2
<1>2. PICK i \in L : \A j \in L : i <= j
  BY <1>1, LeastOfFour
<1>3. IsNext(r, i)
  BY <1>2 DEF IsNext
<1>4. PICK k : k = CHOOSE n \in DOMAIN o : IsNext(r, n)
  OBVIOUS
<1>5. k \in DOMAIN o /\ IsNext(r, k) /\ NextField(r) = o[k]
  BY <1>3, <1>4 DEF NextField, IsNext
<1>. QED  BY <1>5 DEF IsNext

-----------------------------------------------------------------------------
(* One request at a time.                                                   *)
EditOK(e) == EditIsStaged(e) /\ WrittenSoFar(e)
EveryEdit == \A e \in Edits : EditOK(e)
ProfileParts == ProfileTypeOK /\ NoTwoAlike /\ SkillsAreOfTheDone /\ EveryEdit
Ahead == {"find", "write", "email", "insert"}
Whole(e, a) == \A f \in edit[e].want : <<a, f>> \in edit[e].wrote

\* Every request has a row, and an account in hand while any is left.
LEMMA EditRowOf ==
  ASSUME ProfileTypeOK, NEW e \in Edits
  PROVE  /\ edit[e] \in EditRows /\ edit[e].kind \in Kinds /\ edit[e].todo \in Seq(Accounts)
         /\ edit[e].todo /= <<>> => Target(e) \in Accounts
<1>1. edit[e] \in EditRows
  BY DEF ProfileTypeOK
<1>2. edit[e].kind \in Kinds /\ edit[e].todo \in Seq(Accounts)
  BY <1>1 DEF EditRows
<1>3. edit[e].todo /= <<>> => Head(edit[e].todo) \in Accounts
  BY <1>2
<1>. QED  BY <1>1, <1>2, <1>3 DEF Target

\* What the requests hold in hand bears out what they report.
LEMMA ReportsAreWhole == EveryEdit => ReportedIsWhole
<1>. SUFFICES ASSUME EveryEdit, NEW e \in Edits, edit[e].at \in {"done", "refused"},
                     NEW a \in Accounts
              PROVE  LET whole == \A f \in edit[e].want : <<a, f>> \in edit[e].wrote
                     IN  /\ a \in answer[e] => whole
                         /\ whole /\ edit[e].want /= {} => a \in answer[e]
                              \/ mailOf[a] = Gone \/ slips > 0
                                                           \/ edit[e].kind = "skill"
  BY DEF ReportedIsWhole
<1>. QED  BY DEF EveryEdit, EditOK, WrittenSoFar

\* The invariant, one request at a time.
LEMMA ProfileByParts == ProfileInv <=> ProfileParts
BY ReportsAreWhole DEF ProfileInv, ProfileParts, EveryEdit, EditOK

\* What steps of others may do to what a request is about.
Lasting ==
  /\ \A k \in Edits : edit[k].at = "done" => edit'[k].at = "done"
  /\ \A a \in Accounts : mailOf[a] = Gone => mailOf'[a] = Gone
  /\ \A s \in skills' : s \in skills \/ edit[s.id].at /= "done"
  /\ slips > 0 => slips' > 0

\* A row that is gone does not come back.
LEMMA GoneStays ==
  ASSUME ProfileTypeOK, NEW e \in Edits, EditOK(e), Lasting,
         edit[e].at \in {"find", "write", "email"},
         edit'[e].kind = edit[e].kind, edit'[e].key = edit[e].key, edit'[e].todo = edit[e].todo,
              Exists(e)'
  PROVE  Exists(e)
<1>1. edit[e].todo /= <<>> /\ Target(e) \in Accounts /\ Target(e)' = Target(e)
  BY EditRowOf DEF EditOK, EditIsStaged, Target
<1>2. CASE edit[e].kind = "skill"
  <2>1. PICK s \in skills' : s.id = edit[e].key
    BY <1>2 DEF Exists
  <2>2. edit[s.id].at = "done"
    BY <1>2, <2>1 DEF EditOK, EditIsStaged
  <2>. QED  BY <1>2, <2>1, <2>2 DEF Exists, Lasting
<1>3. CASE edit[e].kind /= "skill"
  BY <1>1, <1>3 DEF Exists, Lasting
<1>. QED  BY <1>2, <1>3

\* What one step does leaves the account of the requests it does not write.
LEMMA OtherEditsStand ==
  ASSUME ProfileTypeOK, NEW d \in Edits, EditOK(d), Lasting, edit'[d] = edit[d],
         answer'[d] = answer[d]
  PROVE  EditOK(d)'
<1>1. EditIsStaged(d)'
  BY DEF EditOK, EditIsStaged, Lasting
<1>2. edit[d].at \in {"write", "email"} /\ Exists(d)' => Exists(d) /\ Target(d)' = Target(d)
  BY GoneStays DEF Target
<1>3. Target(d)' = Target(d)
  BY DEF Target
<1>4. WrittenSoFar(d)'
  BY <1>2, <1>3 DEF EditOK, WrittenSoFar, Lasting
<1>. QED  BY <1>1, <1>4 DEF EditOK

\* A step that writes the row of one request.
LEMMA EditGoes ==
  ASSUME ProfileInv, NEW e \in Edits, NEW r \in EditRows, edit' = [edit EXCEPT ![e] = r],
         edit[e].at /= "done", Lasting, \A d \in Edits \ {e} : answer'[d] = answer[d],
         ProfileTypeOK', NoTwoAlike', \A s \in skills' : s \in skills
              \/ edit'[s.id].at = "done", EditOK(e)'
  PROVE  ProfileInv'
<1>1. ProfileTypeOK /\ SkillsAreOfTheDone /\ EveryEdit
  BY ProfileByParts DEF ProfileParts
<1>2. ASSUME NEW d \in Edits PROVE EditOK(d)'
  <2>1. CASE d = e
    BY <2>1
  <2>2. CASE d /= e
    <3>1. edit'[d] = edit[d] /\ answer'[d] = answer[d]
      BY <1>1, <2>2 DEF ProfileTypeOK
    <3>. QED  BY <1>1, <3>1, OtherEditsStand DEF EveryEdit
  <2>. QED  BY <2>1, <2>2
<1>3. SkillsAreOfTheDone'
  <2>. SUFFICES ASSUME NEW s \in skills' PROVE edit'[s.id].at = "done"
    BY DEF SkillsAreOfTheDone
  <2>1. CASE s \in skills
    <3>1. s.id \in Edits /\ edit[s.id].at = "done"
      BY <1>1, <2>1 DEF ProfileTypeOK, SkillsAreOfTheDone
    <3>. QED  BY <3>1 DEF Lasting
  <2>. QED  BY <2>1
<1>4. ProfileParts'
  BY <1>2, <1>3 DEF ProfileParts, EveryEdit
<1>. QED  BY <1>4, ProfileByParts, PTL

\* The step of a request that writes its own row only.
LEMMA EditOnly ==
  ASSUME ProfileInv, NEW e \in Edits, NEW r \in EditRows, edit' = [edit EXCEPT ![e] = r],
         edit[e].at /= "done", UNCHANGED <<mailOf, skills, teamLive, answer>>,
         slips' \in 0..MaxSlips, slips > 0 => slips' > 0, EditOK(e)'
  PROVE  ProfileInv'
<1>1. ProfileTypeOK /\ NoTwoAlike /\ SkillsAreOfTheDone
  BY ProfileByParts DEF ProfileParts
<1>2. ProfileTypeOK' /\ NoTwoAlike'
  BY <1>1 DEF ProfileTypeOK, NoTwoAlike
<1>3. Lasting
  BY <1>1 DEF Lasting, ProfileTypeOK
<1>. QED  BY <1>1, <1>2, <1>3, EditGoes

\* What is so of a request.
LEMMA ProfileFacts ==
  ASSUME ProfileInv, NEW e \in Edits
  PROVE  /\ ProfileTypeOK /\ NoTwoAlike /\ SkillsAreOfTheDone /\ EditOK(e) /\ edit[e] \in EditRows
         /\ edit[e].kind \in Kinds /\ edit[e].todo \in Seq(Accounts)
         /\ edit[e].at \in Ahead => edit[e].todo /= <<>> /\ Target(e) \in Accounts
<1>1. ProfileTypeOK /\ NoTwoAlike /\ SkillsAreOfTheDone /\ EditOK(e)
  BY ProfileByParts DEF ProfileParts, EveryEdit
<1>2. edit[e].at \in Ahead => edit[e].todo /= <<>>
  BY <1>1 DEF EditOK, EditIsStaged, Ahead
<1>. QED  BY <1>1, <1>2, EditRowOf

-----------------------------------------------------------------------------
(* A request that leaves its account, or ends.                              *)
LeavesAs(e, q) ==
  /\ q.at \in {"done", "refused", "find"}
  /\ q.kind = edit[e].kind /\ q.want = edit[e].want /\ q.key = edit[e].key
  /\ q.wrote = edit[e].wrote
  /\ q.left \subseteq edit[e].left
  /\ q.at = "find" => q.todo /= <<>> /\ edit[e].at /= "insert"

\* The rows of a request that leaves its account.
LEMMA RowLeaves ==
  ASSUME NEW r \in EditRows, NEW todo \in Seq(Accounts), NEW left \in SUBSET AllFields
  PROVE  /\ [r EXCEPT !.at = "done", !.todo = todo] \in EditRows
         /\ [r EXCEPT !.at = "refused", !.todo = todo, !.left = left] \in EditRows
         /\ [r EXCEPT !.at = "find", !.todo = todo, !.left = left] \in EditRows
BY DEF EditRows

\* The next account of a batch, or the end.
LEMMA NextTargetRow ==
  ASSUME ProfileInv, NEW e \in Edits, edit[e].at \in Ahead, NextTarget(e, edit[e])
  PROVE  \E q \in EditRows : LeavesAs(e, q) /\ edit' = [edit EXCEPT ![e] = q]
<1>. DEFINE r == edit[e]
<1>1. r \in EditRows /\ r.todo \in Seq(Accounts) /\ r.todo /= <<>> /\ EditIsStaged(e)
  BY ProfileFacts DEF EditOK
<1>2. CASE Len(r.todo) = 1
  <2>. DEFINE q == [r EXCEPT !.at = "done", !.todo = <<>>]
  <2>1. q \in EditRows
    <3>1. <<>> \in Seq(Accounts)
      OBVIOUS
    <3>. HIDE DEF r
    <3>. QED  BY <1>1, <3>1, RowLeaves
  <2>2. LeavesAs(e, q)
    BY <1>1 DEF EditRows, LeavesAs
  <2>. QED  BY <1>2, <2>1, <2>2 DEF NextTarget, Put
<1>3. CASE Len(r.todo) /= 1
  <2>. DEFINE q == [r EXCEPT !.at = "find", !.todo = Tail(r.todo), !.left = {}]
  <2>1. Tail(r.todo) \in Seq(Accounts) /\ Tail(r.todo) /= <<>>
    <3>1. \A t \in Seq(Accounts) : t /= <<>> /\ Len(t) /= 1 => Tail(t) \in Seq(Accounts)
               /\ Tail(t) /= <<>>
      <4>. SUFFICES ASSUME NEW t \in Seq(Accounts), t /= <<>>, Len(t) /= 1
                    PROVE  Tail(t) \in Seq(Accounts) /\ Tail(t) /= <<>>
        OBVIOUS
      <4>1. Tail(t) \in Seq(Accounts) /\ Len(Tail(t)) = Len(t) - 1 /\ Len(t) \in Nat
            /\ Len(t) /= 0
        OBVIOUS
      <4>2. Len(<<>>) = 0
        OBVIOUS
      <4>3. \A n, m \in Nat : n /= 0 /\ n /= 1 /\ m = n - 1 => m /= 0
        OBVIOUS
      <4>4. Len(Tail(t)) \in Nat
        BY <4>1
      <4>5. Len(Tail(t)) /= 0
        BY <4>1, <4>3, <4>4
      <4>. QED  BY <4>1, <4>2, <4>5, Zenon
    <3>. HIDE DEF r
    <3>. QED  BY <1>1, <1>3, <3>1
  <2>2. q \in EditRows
    <3>. HIDE DEF r
    <3>. QED  BY <1>1, <2>1, RowLeaves
  <2>3. LeavesAs(e, q)
    <3>1. r.at /= "insert"
      BY <1>1, <1>3 DEF EditIsStaged
    <3>. QED  BY <1>1, <2>1, <3>1 DEF EditRows, LeavesAs
  <2>. QED  BY <1>3, <2>2, <2>3 DEF NextTarget, Put
<1>. QED  BY <1>2, <1>3

\* A refusal ends the request, or goes on with the batch.
LEMMA RefusedRow ==
  ASSUME ProfileInv, NEW e \in Edits, edit[e].at \in Ahead, Refused(e)
  PROVE  \E q \in EditRows : LeavesAs(e, q) /\ edit' = [edit EXCEPT ![e] = q]
<1>1. CASE edit[e].kind = "batch"
  BY <1>1, NextTargetRow DEF Refused
<1>2. CASE edit[e].kind /= "batch"
  <2>. DEFINE q == [edit[e] EXCEPT !.at = "refused", !.todo = <<>>, !.left = {}]
  <2>1. edit[e] \in EditRows
    BY ProfileFacts
  <2>2. q \in EditRows
    <3>1. <<>> \in Seq(Accounts)
      OBVIOUS
    <3>. QED  BY <2>1, <3>1, RowLeaves
  <2>3. LeavesAs(e, q)
    BY <2>1 DEF EditRows, LeavesAs
  <2>. QED  BY <1>2, <2>2, <2>3 DEF Refused, Put
<1>. QED  BY <1>1, <1>2

\* Nothing is owed to an account that is left: it has been reported, it is gone, a
\* statement has failed, or it is not written to the last field.
LEMMA LeavesOff ==
  ASSUME ProfileInv, NEW e \in Edits, edit[e].at \in Ahead,
         NEW q \in EditRows, LeavesAs(e, q), edit' = [edit EXCEPT ![e] = q],
         answer'[e] = answer[e] \/ (answer'[e] = answer[e] \cup {Target(e)}
              /\ Whole(e, Target(e))),
         \A a \in Accounts : mailOf[a] = Gone => mailOf'[a] = Gone,
         slips > 0 => slips' > 0,
         edit[e].at = "write" /\ edit[e].left = {} /\ edit[e].kind /= "skill" =>
           mailOf'[Target(e)] = Gone \/ slips' > 0 \/ Target(e) \in answer'[e]
  PROVE  EditOK(e)'
<1>1. ProfileTypeOK /\ EditIsStaged(e) /\ WrittenSoFar(e) /\ edit'[e] = q
  BY ProfileFacts DEF EditOK, ProfileTypeOK
<1>2. EditIsStaged(e)'
  <2>1. ASSUME q.at = "find" PROVE edit[e].at \in {"find", "write", "email"}
    BY <2>1 DEF Ahead, LeavesAs
  <2>2. ASSUME NEW k \in Edits, edit[k].at = "done" PROVE edit'[k].at = "done"
    BY <1>1, <2>2 DEF Ahead, ProfileTypeOK
  <2>. QED  BY <1>1, <2>1, <2>2 DEF EditIsStaged, LeavesAs
<1>3. q.at \notin {"write", "email"} /\ q.kind = edit[e].kind /\ q.want = edit[e].want
      /\ q.wrote = edit[e].wrote
  BY DEF LeavesAs
<1>4. ASSUME NEW a \in Accounts, a \in answer'[e] PROVE \A f \in q.want : <<a, f>> \in q.wrote
  BY <1>1, <1>3, <1>4 DEF WrittenSoFar, Whole
<1>5. ASSUME NEW a \in Accounts, q.want /= {}, \A f \in q.want : <<a, f>> \in q.wrote,
             q.kind /= "skill"
      PROVE  a \in answer'[e] \/ mailOf'[a] = Gone \/ slips' > 0
  <2>1. \/ a \in answer[e] \/ mailOf[a] = Gone \/ slips > 0
        \/ edit[e].at = "write" /\ edit[e].left = {} /\ a = Target(e)
    BY <1>1, <1>3, <1>5 DEF WrittenSoFar
  <2>. QED  BY <1>3, <1>5, <2>1
<1>6. WrittenSoFar(e)'
  <2>1. \A a \in Accounts, i, j \in DOMAIN Order(q.kind) :
          i <= j /\ {Order(q.kind)[i], Order(q.kind)[j]} \subseteq q.want
          /\ <<a, Order(q.kind)[j]>> \in q.wrote
            => <<a, Order(q.kind)[i]>> \in q.wrote
    BY <1>1, <1>3 DEF WrittenSoFar
  <2>. QED  BY <1>1, <1>3, <1>4, <1>5, <2>1 DEF WrittenSoFar
<1>. QED  BY <1>2, <1>6 DEF EditOK

-----------------------------------------------------------------------------
(* A request that writes the next field of its account.                     *)

\* The next field is one that was asked for.
LEMMA WrittenRow ==
  ASSUME ProfileInv, NEW e \in Edits, edit[e].at \in {"write", "email"}, edit[e].left /= {}
  PROVE  /\ edit[e].left \subseteq edit[e].want /\ edit[e].want \subseteq Fields(edit[e].kind)
         /\ NextField(edit[e]) \in edit[e].left /\ NextField(edit[e]) \in AllFields
         /\ Written(e, NextField(edit[e])) \in EditRows
<1>. DEFINE r == edit[e]
            f == NextField(r)
<1>1. r \in EditRows /\ EditIsStaged(e) /\ Target(e) \in Accounts /\ r.kind \in Kinds
  BY ProfileFacts DEF EditOK, Ahead
<1>2. r.left \subseteq r.want /\ r.want \subseteq Fields(r.kind)
  BY <1>1 DEF EditIsStaged
<1>3. f \in r.left
  BY <1>1, <1>2, NextIs
<1>4. f \in AllFields
  BY <1>1, <1>2, <1>3, FieldsAreFields
<1>5. Written(e, f) \in EditRows
  <2>1. PICK l : l = r.left \ {f}
    OBVIOUS
  <2>2. PICK w : w = IF Exists(e) THEN r.wrote \cup {<<Target(e), f>>} ELSE r.wrote
    OBVIOUS
  <2>3. l \in SUBSET AllFields /\ w \in SUBSET (Accounts \X AllFields)
    BY <1>1, <1>4, <2>1, <2>2 DEF EditRows
  <2>4. [r EXCEPT !.at = "write", !.left = l, !.wrote = w] \in EditRows
    BY <1>1, <2>3 DEF EditRows
  <2>5. Written(e, f) = [r EXCEPT !.at = "write", !.left = l, !.wrote = w]
    BY <2>1, <2>2, Zenon DEF Written
  <2>. QED  BY <2>4, <2>5, Zenon
<1>. QED  BY <1>2, <1>3, <1>4, <1>5

\* What writing a field changes.
LEMMA WrittenFields ==
  ASSUME NEW e, edit[e] \in EditRows, NEW f
  PROVE  LET q == Written(e, f) IN
           /\ q.at = "write" /\ q.kind = edit[e].kind /\ q.want = edit[e].want
           /\ q.key = edit[e].key
           /\ q.todo = edit[e].todo /\ q.left = edit[e].left \ {f}
           /\ q.wrote = IF Exists(e) THEN edit[e].wrote \cup {<<Target(e), f>>} ELSE edit[e].wrote
BY DEF Written, EditRows

\* The fields are written in their order: what is written before the next field is
\* written already, and when the last comes none is left.
LEMMA WritesOn ==
  ASSUME ProfileInv, NEW e \in Edits, edit[e].at \in {"write", "email"}, edit[e].left /= {},
         edit' = [edit EXCEPT ![e] = Written(e, NextField(edit[e]))],
         \A a \in Accounts : mailOf'[a] = Gone <=> mailOf[a] = Gone,
         UNCHANGED <<skills, answer, slips>>
  PROVE  EditOK(e)'
<1>. DEFINE r == edit[e]
            f == NextField(r)
            o == Order(r.kind)
            T == Target(e)
<1>1. /\ ProfileTypeOK /\ EditIsStaged(e) /\ WrittenSoFar(e) /\ T \in Accounts /\ r.kind \in Kinds
      /\ r \in EditRows /\ r.todo /= <<>>
  BY ProfileFacts DEF EditOK, Ahead
<1>2. r.left \subseteq r.want /\ r.want \subseteq Fields(r.kind) /\ f \in r.left
  BY WrittenRow
<1>3. PICK q : q = Written(e, f)
  OBVIOUS
<1>4. /\ q.at = "write" /\ q.kind = r.kind /\ q.want = r.want /\ q.key = r.key
      /\ q.todo = r.todo /\ q.left = r.left \ {f}
      /\ q.wrote = IF Exists(e) THEN r.wrote \cup {<<T, f>>} ELSE r.wrote
  BY <1>1, <1>3, WrittenFields, ZenonT(40)
<1>5. edit'[e] = q /\ T' = T
  BY <1>1, <1>3, <1>4 DEF ProfileTypeOK, Target
<1>6. PICK k \in DOMAIN o : f = o[k] /\ \A j \in DOMAIN o : o[j] \in r.left => k <= j
  BY <1>1, <1>2, NextIs
<1>7. DOMAIN o \subseteq Nat /\ \A i, j \in DOMAIN o : o[i] = o[j] => i = j
  <2>1. PICK n \in {3, 4} : DOMAIN o = 1..n
    BY <1>1, Orders
  <2>2. \A i, j \in DOMAIN o : o[i] = o[j] => i = j
    BY <1>1, Orders
  <2>. QED  BY <2>1, <2>2
<1>8. Exists(e)' => Exists(e)
  BY <1>1, <1>4, <1>5 DEF Exists
<1>9. Exists(e) => \A g \in r.want \ r.left : <<T, g>> \in r.wrote
  BY <1>1 DEF WrittenSoFar
<1>10. \A a \in Accounts, i, j \in DOMAIN o :
          i <= j /\ o[i] \in r.want /\ o[j] \in r.want /\ <<a, o[j]>> \in r.wrote
               => <<a, o[i]>> \in r.wrote
  BY <1>1 DEF WrittenSoFar
<1>11. EditIsStaged(e)'
  <2>1. ASSUME NEW d \in Edits, edit[d].at = "done" PROVE edit'[d].at = "done"
    BY <1>1, <2>1 DEF ProfileTypeOK
  <2>. QED  BY <1>1, <1>2, <1>4, <1>5, <2>1 DEF EditIsStaged
<1>12. Exists(e)' => \A g \in q.want \ q.left : <<T, g>> \in q.wrote
  BY <1>4, <1>8, <1>9
<1>13. ASSUME NEW a \in Accounts, NEW i \in DOMAIN o, NEW j \in DOMAIN o,
              i <= j, o[i] \in r.want, o[j] \in r.want, <<a, o[j]>> \in q.wrote
       PROVE  <<a, o[i]>> \in q.wrote
  <2>1. CASE <<a, o[j]>> \in r.wrote
    BY <1>4, <1>10, <1>13, <2>1
  <2>2. CASE <<a, o[j]>> \notin r.wrote
    <3>1. Exists(e) /\ a = T /\ o[j] = f
      BY <1>4, <1>13, <2>2
    <3>2. j = k
      BY <1>6, <1>7, <3>1
    <3>3. CASE i = k
      BY <1>13, <3>2, <3>3
    <3>4. CASE i /= k
      <4>1. ~ (k <= i)
        BY <1>7, <1>13, <3>2, <3>4
      <4>2. o[i] \notin r.left
        BY <1>6, <4>1
      <4>. QED  BY <1>4, <1>9, <1>13, <3>1, <4>2
    <3>. QED  BY <3>3, <3>4
  <2>. QED  BY <2>1, <2>2
<1>14. ASSUME NEW a \in Accounts, a \in answer[e] PROVE \A g \in q.want : <<a, g>> \in q.wrote
  BY <1>1, <1>4, <1>14 DEF WrittenSoFar
<1>15. ASSUME NEW a \in Accounts, q.want /= {}, \A g \in q.want : <<a, g>> \in q.wrote,
              q.kind /= "skill"
       PROVE  a \in answer[e] \/ mailOf'[a] = Gone \/ slips > 0 \/ (q.left = {} /\ a = T)
  <2>1. CASE \A g \in r.want : <<a, g>> \in r.wrote
    <3>1. a \in answer[e] \/ mailOf[a] = Gone \/ slips > 0
      BY <1>1, <1>2, <1>4, <1>15, <2>1 DEF WrittenSoFar
    <3>. QED  BY <3>1
  <2>2. CASE ~ \A g \in r.want : <<a, g>> \in r.wrote
    <3>1. a = T /\ <<T, f>> \notin r.wrote
      BY <1>4, <1>15, <2>2
    <3>2. ASSUME NEW h \in r.left, h /= f PROVE FALSE
      <4>1. PICK m \in DOMAIN o : h = o[m]
        BY <1>2 DEF Fields
      <4>2. k <= m /\ o[k] \in r.want /\ o[m] \in r.want
        BY <1>2, <1>6, <3>2, <4>1
      <4>3. <<T, h>> \in r.wrote
        BY <1>2, <1>4, <1>15, <3>1, <3>2
      <4>. QED  BY <1>1, <1>6, <1>10, <3>1, <4>1, <4>2, <4>3
    <3>. QED  BY <1>4, <3>1, <3>2
  <2>. QED  BY <2>1, <2>2
<1>16. WrittenSoFar(e)'
  <2>. HIDE DEF r, f, o, T
  <2>1. /\ Order(edit[e].kind)' = o /\ (edit[e].want)' = q.want /\ (edit[e].wrote)' = q.wrote
        /\ (edit[e].left)' = q.left /\ (edit[e].at)' = "write" /\ (edit[e].kind)' = q.kind
    BY <1>4, <1>5 DEF Order, o
  <2>. QED  BY <1>4, <1>5, <1>12, <1>13, <1>14, <1>15, <2>1 DEF WrittenSoFar, T
<1>. QED  BY <1>11, <1>16 DEF EditOK

-----------------------------------------------------------------------------
(* The steps, one by one.                                                   *)

\* A request not yet made.
LEMMA FirstRow ==
  NoProfileEdit \in EditRows /\ NoProfileEdit.left = {} /\ NoProfileEdit.wrote = {}
  /\ NoProfileEdit.want = {}
<1>1. <<>> \in Seq(Accounts) /\ "one" \in Kinds
  BY DEF Kinds
<1>. QED  BY <1>1 DEF NoProfileEdit, EditRows

\* A request begins with nothing written.
LEMMA ARequestStarts ==
  ASSUME ProfileInv, NEW e \in Edits, NEW kind \in {"one", "batch", "skill"},
         NEW who \in Seq(Accounts), who /= <<>>,
         NEW want \in SUBSET Fields(kind), NEW bad \in SUBSET AllFields, NEW key,
         kind /= "skill" => key \in Emails, kind = "skill" => key \in Edits
              /\ edit[key].at = "done",
         Arrives(e, kind, who, want, bad, key)
  PROVE  ProfileInv'
<1>1. /\ edit[e].at = "new" /\ UNCHANGED <<mailOf, skills, teamLive, answer, slips>>
      /\ ProfileTypeOK /\ answer[e] = {}
  BY ProfileFacts DEF Arrives, EditOK, EditIsStaged
<1>2. PICK q : q = [NoProfileEdit EXCEPT !.at = "find", !.kind = kind, !.todo = who,
           !.want = want,
                                         !.bad = bad, !.key = key]
  OBVIOUS
<1>3. /\ q \in EditRows /\ q.at = "find" /\ q.kind = kind /\ q.todo = who /\ q.want = want
      /\ q.key = key
      /\ q.left = {} /\ q.wrote = {}
  <2>1. kind \in Kinds /\ want \in SUBSET AllFields /\ key \in Emails \cup SkillNames \cup Edits
    BY FieldsAreFields DEF Kinds
  <2>2. PICK z : z = NoProfileEdit
    OBVIOUS
  <2>3. q = [z EXCEPT !.at = "find", !.kind = kind, !.todo = who, !.want = want, !.bad = bad,
             !.key = key]
    BY <1>2, <2>2, Zenon
  <2>4. z \in EditRows /\ z.left = {} /\ z.wrote = {}
    BY <2>2, FirstRow, Zenon
  <2>. QED  BY <2>1, <2>3, <2>4 DEF EditRows
<1>4. edit' = [edit EXCEPT ![e] = q]
  BY <1>2, Zenon DEF Arrives, Put
<1>5. edit'[e] = q
  BY <1>1, <1>4 DEF ProfileTypeOK
<1>6. EditIsStaged(e)'
  <2>1. kind = "skill" => edit'[key].at = "done"
    BY <1>1, <1>4 DEF ProfileTypeOK
  <2>. QED  BY <1>3, <1>5, <2>1 DEF EditIsStaged
<1>7. WrittenSoFar(e)'
  BY <1>1, <1>3, <1>5 DEF WrittenSoFar
<1>8. slips \in 0..MaxSlips
  BY <1>1 DEF ProfileTypeOK
<1>. QED  BY <1>1, <1>3, <1>4, <1>6, <1>7, <1>8, EditOnly DEF EditOK

\* update_agent begins.
LEMMA UpdateAgentOK ==
  ASSUME ProfileInv, NEW e \in Edits, NEW a \in Accounts, NEW want \in SUBSET Fields("one"),
         NEW m \in Emails,
         UpdateAgent(e, a, want, m)
  PROVE  ProfileInv'
<1>1. <<a>> \in Seq(Accounts) /\ <<a>> /= <<>>
  OBVIOUS
<1>2. Arrives(e, "one", <<a>>, want, {}, m)
  BY DEF UpdateAgent
<1>3. "one" \in {"one", "batch", "skill"} /\ {} \in SUBSET AllFields
  OBVIOUS
<1>. QED  BY <1>1, <1>2, <1>3, ARequestStarts

\* batch_update begins.
LEMMA BatchUpdateOK ==
  ASSUME ProfileInv, NEW e \in Edits, NEW who \in Batches, NEW want \in SUBSET Fields("one"),
         NEW m \in Emails,
         BatchUpdate(e, who, want, m)
  PROVE  ProfileInv'
<1>1. who \in Seq(Accounts) /\ who /= <<>>
  BY ProfileNumbers
<1>2. Arrives(e, "batch", who, want, {}, m)
  BY DEF BatchUpdate
<1>3. "batch" \in {"one", "batch", "skill"} /\ {} \in SUBSET AllFields
      /\ want \in SUBSET Fields("batch")
  BY FieldsAreFields
<1>. QED  BY <1>1, <1>2, <1>3, ARequestStarts

\* update_skill begins.
LEMMA UpdateSkillOK ==
  ASSUME ProfileInv, NEW e \in Edits, NEW s \in skills, NEW want, NEW bad \in SUBSET want,
         UpdateSkill(e, s, want, bad)
  PROVE  ProfileInv'
<1>1. s.of \in Accounts /\ s.id \in Edits /\ edit[s.id].at = "done"
  BY ProfileFacts DEF ProfileTypeOK, SkillsAreOfTheDone
<1>2. <<s.of>> \in Seq(Accounts) /\ <<s.of>> /= <<>>
  BY <1>1
<1>3. want \in SUBSET Fields("skill") /\ Arrives(e, "skill", <<s.of>>, want, bad, s.id)
  BY DEF UpdateSkill
<1>4. bad \in SUBSET AllFields
  BY <1>3, FieldsAreFields DEF Kinds
<1>5. "skill" \in {"one", "batch", "skill"}
  OBVIOUS
<1>. QED  BY <1>1, <1>2, <1>3, <1>4, <1>5, ARequestStarts

\* add_skill begins.
LEMMA AddSkillOK ==
  ASSUME ProfileInv, NEW e \in Edits, NEW a \in Accounts, NEW n \in SkillNames, AddSkill(e, a, n)
  PROVE  ProfileInv'
<1>1. /\ edit[e].at = "new" /\ UNCHANGED <<mailOf, skills, teamLive, answer, slips>>
      /\ ProfileTypeOK /\ answer[e] = {}
  BY ProfileFacts DEF AddSkill, EditOK, EditIsStaged
<1>2. PICK q : q = [NoProfileEdit EXCEPT !.at = "insert", !.kind = "add", !.todo = <<a>>,
           !.key = n]
  OBVIOUS
<1>3. /\ q \in EditRows /\ q.at = "insert" /\ q.kind = "add" /\ q.todo = <<a>>
      /\ q.want = {} /\ q.key = n
      /\ q.left = {} /\ q.wrote = {}
  <2>1. "add" \in Kinds /\ {} \in SUBSET AllFields
        /\ n \in Emails \cup SkillNames \cup Edits /\ <<a>> \in Seq(Accounts)
    BY DEF Kinds
  <2>2. PICK z : z = NoProfileEdit
    OBVIOUS
  <2>3. q = [z EXCEPT !.at = "insert", !.kind = "add", !.todo = <<a>>, !.key = n]
    BY <1>2, <2>2, Zenon
  <2>4. z \in EditRows /\ z.left = {} /\ z.wrote = {} /\ z.want = {}
    BY <2>2, FirstRow, Zenon
  <2>. QED  BY <2>1, <2>3, <2>4 DEF EditRows
<1>4. edit' = [edit EXCEPT ![e] = q]
  BY <1>2, Zenon DEF AddSkill, Put
<1>5. edit'[e] = q
  BY <1>1, <1>4 DEF ProfileTypeOK
<1>6. EditIsStaged(e)'
  <2>1. q.todo /= <<>> /\ Len(q.todo) = 1
    BY <1>3
  <2>. QED  BY <1>3, <1>5, <2>1 DEF EditIsStaged
<1>7. WrittenSoFar(e)'
  BY <1>1, <1>3, <1>5 DEF WrittenSoFar
<1>8. slips \in 0..MaxSlips
  BY <1>1 DEF ProfileTypeOK
<1>. QED  BY <1>1, <1>3, <1>4, <1>6, <1>7, <1>8, EditOnly DEF EditOK

\* A request that is refused writes its own row only.
LEMMA RefusedOK ==
  ASSUME ProfileInv, NEW e \in Edits, edit[e].at \in Ahead, Refused(e), UNCHANGED <<mailOf,
         skills, teamLive, answer>>,
         slips' \in 0..MaxSlips, slips > 0 => slips' > 0,
         edit[e].at = "write" /\ edit[e].left = {} /\ edit[e].kind /= "skill"
              => mailOf[Target(e)] = Gone \/ slips' > 0
  PROVE  ProfileInv'
<1>1. PICK q \in EditRows : LeavesAs(e, q) /\ edit' = [edit EXCEPT ![e] = q]
  BY RefusedRow
<1>2. EditOK(e)'
  BY <1>1, LeavesOff
<1>3. edit[e].at /= "done"
  BY DEF Ahead
<1>. QED  BY <1>1, <1>2, <1>3, EditOnly

\* The count of failed statements is within its bound.
LEMMA SlipsStay == ASSUME ProfileInv, NEW e \in Edits PROVE slips \in 0..MaxSlips
BY ProfileFacts DEF ProfileTypeOK

\* The account, or the skill, is looked for.
LEMMA FindTargetOK == ASSUME ProfileInv, NEW e \in Edits, FindTarget(e) PROVE ProfileInv'
<1>1. edit[e].at = "find" /\ edit[e].at \in Ahead /\ UNCHANGED <<mailOf, skills, teamLive,
           answer, slips>>
  BY DEF FindTarget, Ahead
<1>2. CASE Exists(e)
  <2>1. PICK q : q = [edit[e] EXCEPT !.at = "write", !.left = edit[e].want]
    OBVIOUS
  <2>2. ProfileTypeOK /\ EditIsStaged(e) /\ WrittenSoFar(e) /\ edit[e] \in EditRows
    BY ProfileFacts DEF EditOK
  <2>3. /\ q \in EditRows /\ q.at = "write" /\ q.kind = edit[e].kind
        /\ q.todo = edit[e].todo /\ q.left = edit[e].want
        /\ q.want = edit[e].want /\ q.key = edit[e].key /\ q.wrote = edit[e].wrote
    BY <2>1, <2>2 DEF EditRows
  <2>4. edit' = [edit EXCEPT ![e] = q]
    BY <1>2, <2>1, Zenon DEF FindTarget, Put
  <2>5. edit'[e] = q
    BY <2>2, <2>4 DEF ProfileTypeOK
  <2>6. EditIsStaged(e)'
    <3>1. ASSUME NEW d \in Edits, edit[d].at = "done" PROVE edit'[d].at = "done"
      BY <1>1, <2>2, <2>4, <3>1 DEF ProfileTypeOK
    <3>. QED  BY <1>1, <2>2, <2>3, <2>5, <3>1 DEF EditIsStaged
  <2>7. WrittenSoFar(e)'
    BY <1>1, <2>2, <2>3, <2>5 DEF WrittenSoFar
  <2>. QED  BY <1>1, <2>3, <2>4, <2>6, <2>7, SlipsStay, EditOnly DEF EditOK
<1>3. CASE ~ Exists(e)
  <2>1. Refused(e)
    BY <1>3 DEF FindTarget
  <2>. QED  BY <1>1, <2>1, SlipsStay, RefusedOK
<1>. QED  BY <1>2, <1>3

\* The e-mail address is looked up.
LEMMA CheckEmailOK == ASSUME ProfileInv, NEW e \in Edits, CheckEmail(e) PROVE ProfileInv'
<1>1. /\ edit[e].at = "write" /\ edit[e].at \in Ahead /\ edit[e].left /= {}
      /\ NextField(edit[e]) = "email"
      /\ UNCHANGED <<mailOf, skills, teamLive, answer, slips>>
  BY DEF CheckEmail, AtField, Ahead
<1>2. CASE ~ Held(edit[e].key, Target(e))
  <2>1. PICK q : q = [edit[e] EXCEPT !.at = "email"]
    OBVIOUS
  <2>2. ProfileTypeOK /\ EditIsStaged(e) /\ WrittenSoFar(e) /\ edit[e] \in EditRows
        /\ edit[e].kind \in Kinds
    BY ProfileFacts DEF EditOK
  <2>3. /\ q \in EditRows /\ q.at = "email" /\ q.kind = edit[e].kind
        /\ q.todo = edit[e].todo /\ q.left = edit[e].left
        /\ q.want = edit[e].want /\ q.key = edit[e].key /\ q.wrote = edit[e].wrote
    BY <2>1, <2>2 DEF EditRows
  <2>4. edit' = [edit EXCEPT ![e] = q]
    BY <1>2, <2>1, Zenon DEF CheckEmail, Put
  <2>5. edit'[e] = q
    BY <2>2, <2>4 DEF ProfileTypeOK
  <2>6. NextField(q) = "email" /\ "email" \in q.left /\ q.kind \in {"one", "batch"}
    <3>1. NextField(q) = NextField(edit[e])
      BY <2>3 DEF NextField, IsNext
    <3>2. "email" \in edit[e].left /\ "email" \in Fields(edit[e].kind)
      BY <1>1, WrittenRow
    <3>3. edit[e].kind \notin {"skill", "add"}
      BY <1>1, <2>2, <3>2, EmailIsOfProfiles DEF EditIsStaged
    <3>. QED  BY <1>1, <2>2, <2>3, <3>1, <3>2, <3>3 DEF Kinds
  <2>7. EditIsStaged(e)'
    BY <1>1, <2>2, <2>3, <2>5, <2>6 DEF EditIsStaged
  <2>8. WrittenSoFar(e)'
    <3>1. /\ Order(edit[e].kind)' = Order(edit[e].kind) /\ Exists(e)' = Exists(e)
          /\ Target(e)' = Target(e)
      BY <1>1, <2>3, <2>5 DEF Order, Exists, Target
    <3>. QED  BY <1>1, <2>2, <2>3, <2>5, <3>1 DEF WrittenSoFar
  <2>. QED  BY <1>1, <2>3, <2>4, <2>7, <2>8, SlipsStay, EditOnly DEF EditOK
<1>3. CASE Held(edit[e].key, Target(e))
  <2>1. Refused(e)
    BY <1>3 DEF CheckEmail
  <2>. QED  BY <1>1, <2>1, SlipsStay, RefusedOK
<1>. QED  BY <1>2, <1>3

\* A field is written, or refused.
LEMMA WriteFieldOK == ASSUME ProfileInv, NEW e \in Edits, WriteField(e) PROVE ProfileInv'
<1>1. /\ edit[e].at = "write" /\ edit[e].at \in Ahead /\ edit[e].left /= {}
      /\ UNCHANGED <<mailOf, skills, teamLive, answer, slips>>
  BY DEF WriteField, AtField, Ahead
<1>2. CASE Refused(e)
  BY <1>1, <1>2, SlipsStay, RefusedOK
<1>3. CASE ~ Refused(e)
  <2>1. edit' = [edit EXCEPT ![e] = Written(e, NextField(edit[e]))]
    BY <1>3 DEF WriteField, Put
  <2>2. EditOK(e)'
    BY <1>1, <2>1, WritesOn
  <2>3. Written(e, NextField(edit[e])) \in EditRows
    BY <1>1, WrittenRow
  <2>. QED  BY <1>1, <2>1, <2>2, <2>3, SlipsStay, EditOnly
<1>. QED  BY <1>2, <1>3

\* A statement fails.
LEMMA StatementSlipsOK == ASSUME ProfileInv, NEW e \in Edits, StatementSlips(e) PROVE ProfileInv'
<1>1. edit[e].at \in Ahead
  BY ProfileFacts DEF StatementSlips, EditRows, Ahead
<1>2. slips' \in 0..MaxSlips /\ slips' > 0 /\ Refused(e) /\ UNCHANGED <<mailOf, skills,
           teamLive, answer>>
  <2>1. \A n \in 0..MaxSlips : n < MaxSlips => n + 1 \in 0..MaxSlips /\ n + 1 > 0
    BY ProfileNumbers
  <2>. QED  BY <2>1, SlipsStay DEF StatementSlips
<1>. QED  BY <1>1, <1>2, RefusedOK

\* The e-mail address is written, or the unique index refuses it.
LEMMA WriteEmailOK == ASSUME ProfileInv, NEW e \in Edits, WriteEmail(e) PROVE ProfileInv'
<1>. DEFINE T == Target(e)
            m == edit[e].key
<1>1. /\ ProfileTypeOK /\ NoTwoAlike /\ edit[e] \in EditRows /\ T \in Accounts
      /\ edit[e].at = "email"
      /\ edit[e].at \in Ahead /\ edit[e].kind \in {"one", "batch"} /\ m \in Emails
      /\ edit[e].left /= {}
      /\ NextField(edit[e]) = "email" /\ UNCHANGED <<skills, teamLive, answer, slips>>
  BY ProfileFacts DEF WriteEmail, Ahead, EditOK, EditIsStaged
<1>2. CASE Held(m, T) /\ Exists(e)
  BY <1>1, <1>2, SlipsStay, RefusedOK DEF WriteEmail
<1>3. CASE ~ (Held(m, T) /\ Exists(e))
  <2>1. /\ mailOf' = [mailOf EXCEPT ![T] = IF Exists(e) THEN m ELSE @]
        /\ edit' = [edit EXCEPT ![e] = Written(e, NextField(edit[e]))]
    BY <1>1, <1>3 DEF WriteEmail, Put
  <2>2. m /= Gone
    BY <1>1, ProfileNumbers
  <2>3. /\ mailOf' \in [Accounts -> Emails \cup {Gone}]
        /\ \A a \in Accounts : mailOf'[a] = Gone <=> mailOf[a] = Gone
    BY <1>1, <2>1, <2>2 DEF ProfileTypeOK, Exists
  <2>4. EditOK(e)' /\ Written(e, NextField(edit[e])) \in EditRows
    BY <1>1, <2>1, <2>3, WritesOn, WrittenRow
  <2>5. NoTwoAlike'
    <3>1. ASSUME NEW a \in Accounts, NEW b \in Accounts, a /= b, mailOf'[a] = mailOf'[b]
          PROVE  mailOf'[a] = Gone
      <4>1. CASE Exists(e)
        BY <1>1, <1>3, <2>1, <3>1, <4>1 DEF NoTwoAlike, ProfileTypeOK, Held
      <4>2. CASE ~ Exists(e)
        BY <1>1, <2>1, <3>1, <4>2 DEF NoTwoAlike, ProfileTypeOK
      <4>. QED  BY <4>1, <4>2
    <3>. QED  BY <1>1, <3>1 DEF NoTwoAlike
  <2>6. ProfileTypeOK'
    <3>1. edit' \in [Edits -> EditRows]
      BY <1>1, <2>1, <2>4 DEF ProfileTypeOK
    <3>2. skills \subseteq [of : Accounts, id : Edits, name : SkillNames]
               /\ \A s \in skills : s.of \in Accounts
      BY <1>1 DEF ProfileTypeOK
    <3>. QED  BY <1>1, <2>3, <3>1, <3>2 DEF ProfileTypeOK
  <2>7. Lasting
    BY <1>1, <2>1, <2>3 DEF Lasting, ProfileTypeOK
  <2>. QED  BY <1>1, <2>1, <2>4, <2>5, <2>6, <2>7, EditGoes
<1>. QED  BY <1>2, <1>3

\* The account is read again and reported.
LEMMA ReloadOK == ASSUME ProfileInv, NEW e \in Edits, Reload(e) PROVE ProfileInv'
<1>1. /\ ProfileTypeOK /\ NoTwoAlike /\ WrittenSoFar(e) /\ edit[e].at = "write"
      /\ edit[e].at \in Ahead /\ edit[e].left = {}
      /\ Target(e) \in Accounts /\ UNCHANGED <<mailOf, skills, teamLive, slips>>
  BY ProfileFacts DEF Reload, Ahead, EditOK
<1>2. CASE Exists(e)
  <2>1. answer' = [answer EXCEPT ![e] = @ \cup {Target(e)}] /\ NextTarget(e, edit[e])
    BY <1>2 DEF Reload
  <2>2. PICK q \in EditRows : LeavesAs(e, q) /\ edit' = [edit EXCEPT ![e] = q]
    BY <1>1, <2>1, NextTargetRow
  <2>3. Whole(e, Target(e))
    BY <1>1, <1>2 DEF WrittenSoFar, Whole
  <2>4. answer'[e] = answer[e] \cup {Target(e)} /\ \A d \in Edits \ {e} : answer'[d] = answer[d]
    BY <1>1, <2>1 DEF ProfileTypeOK
  <2>5. EditOK(e)'
    BY <1>1, <2>2, <2>3, <2>4, LeavesOff
  <2>6. ProfileTypeOK'
    <3>1. edit' \in [Edits -> EditRows] /\ answer' \in [Edits -> SUBSET Accounts]
      BY <1>1, <2>1, <2>2 DEF ProfileTypeOK
    <3>. QED  BY <1>1, <3>1 DEF ProfileTypeOK
  <2>7. NoTwoAlike' /\ Lasting
    BY <1>1, <2>2 DEF Lasting, ProfileTypeOK, NoTwoAlike
  <2>. QED  BY <1>1, <2>2, <2>4, <2>5, <2>6, <2>7, EditGoes
<1>3. CASE ~ Exists(e)
  <2>1. Refused(e) /\ UNCHANGED answer
    BY <1>3 DEF Reload
  <2>2. edit[e].kind /= "skill" => mailOf[Target(e)] = Gone
    BY <1>3 DEF Exists
  <2>. QED  BY <1>1, <2>1, <2>2, SlipsStay, RefusedOK
<1>. QED  BY <1>2, <1>3

\* A skill is inserted, or refused.
LEMMA InsertSkillOK == ASSUME ProfileInv, NEW e \in Edits, InsertSkill(e) PROVE ProfileInv'
<1>. DEFINE a == Target(e)
            n == edit[e].key
<1>1. /\ ProfileTypeOK /\ NoTwoAlike /\ SkillsAreOfTheDone /\ edit[e].at = "insert"
      /\ edit[e].at \in Ahead
      /\ a \in Accounts /\ n \in SkillNames /\ Len(edit[e].todo) = 1 /\ UNCHANGED <<mailOf,
           teamLive, answer, slips>>
  BY ProfileFacts DEF InsertSkill, Ahead, EditOK, EditIsStaged
<1>2. CASE mailOf[a] = Gone \/ \E s \in skills : s.of = a /\ s.name = n
  BY <1>1, <1>2, SlipsStay, RefusedOK DEF InsertSkill
<1>3. CASE mailOf[a] /= Gone /\ ~ \E s \in skills : s.of = a /\ s.name = n
  <2>1. skills' = skills \cup {[of |-> a, id |-> e, name |-> n]} /\ NextTarget(e, edit[e])
    BY <1>3 DEF InsertSkill
  <2>2. PICK q \in EditRows : LeavesAs(e, q) /\ edit' = [edit EXCEPT ![e] = q]
    BY <1>1, <2>1, NextTargetRow
  <2>3. EditOK(e)'
    BY <1>1, <2>2, LeavesOff
  <2>4. edit'[e].at = "done"
    <3>1. PICK r : r = edit[e]
      OBVIOUS
    <3>2. edit' = [edit EXCEPT ![e] = [r EXCEPT !.at = "done", !.todo = <<>>]]
      BY <1>1, <2>1, <3>1 DEF NextTarget, Put
    <3>3. edit \in [Edits -> EditRows] /\ r \in EditRows
      BY <1>1, <3>1 DEF ProfileTypeOK
    <3>. QED  BY <3>2, <3>3 DEF EditRows
  <2>5. PICK s : s = [of |-> a, id |-> e, name |-> n]
    OBVIOUS
  <2>6. s \in [of : Accounts, id : Edits, name : SkillNames] /\ s.of = a /\ s.id = e /\ s.name = n
    BY <1>1, <2>5
  <2>7. skills' = skills \cup {s}
    BY <2>1, <2>5
  <2>8. ProfileTypeOK'
    <3>1. edit' \in [Edits -> EditRows]
      BY <1>1, <2>2 DEF ProfileTypeOK
    <3>2. skills' \subseteq [of : Accounts, id : Edits, name : SkillNames]
               /\ \A t \in skills' : mailOf[t.of] /= Gone
      BY <1>1, <1>3, <2>6, <2>7 DEF ProfileTypeOK
    <3>. QED  BY <1>1, <3>1, <3>2 DEF ProfileTypeOK
  <2>9. NoTwoAlike'
    <3>1. \A t, u \in skills' : t.of = u.of /\ t.name = u.name => t = u
      BY <1>1, <1>3, <2>6, <2>7 DEF NoTwoAlike
    <3>. QED  BY <1>1, <3>1 DEF NoTwoAlike
  <2>10. Lasting
    <3>1. \A k \in Edits : edit[k].at = "done" => edit'[k].at = "done"
      BY <1>1, <2>2 DEF ProfileTypeOK
    <3>2. \A t \in skills' : t \in skills \/ edit[t.id].at /= "done"
      BY <1>1, <2>6, <2>7
    <3>. QED  BY <1>1, <3>1, <3>2 DEF Lasting
  <2>11. \A t \in skills' : t \in skills \/ edit'[t.id].at = "done"
    BY <2>4, <2>6, <2>7
  <2>. QED  BY <1>1, <2>2, <2>3, <2>8, <2>9, <2>10, <2>11, EditGoes
<1>. QED  BY <1>2, <1>3

\* A step that writes no request.
LEMMA EditsStand ==
  ASSUME ProfileInv, edit' = edit, answer' = answer, slips' = slips, skills' \subseteq skills,
         \A a \in Accounts : mailOf[a] = Gone => mailOf'[a] = Gone, ProfileTypeOK', NoTwoAlike'
  PROVE  ProfileInv'
<1>1. ProfileTypeOK /\ SkillsAreOfTheDone /\ EveryEdit
  BY ProfileByParts DEF ProfileParts
<1>2. Lasting
  BY DEF Lasting
<1>3. EveryEdit'
  BY <1>1, <1>2, OtherEditsStand DEF EveryEdit
<1>4. SkillsAreOfTheDone'
  BY <1>1 DEF SkillsAreOfTheDone
<1>5. ProfileParts'
  BY <1>3, <1>4 DEF ProfileParts
<1>. QED  BY <1>5, ProfileByParts, PTL

\* A skill is deleted.
LEMMA DeleteSkillOK == ASSUME ProfileInv, NEW s \in skills, DeleteSkill(s) PROVE ProfileInv'
<1>1. ProfileTypeOK /\ NoTwoAlike
  BY ProfileByParts DEF ProfileParts
<1>2. skills' = skills \ {s} /\ UNCHANGED <<mailOf, teamLive, edit, answer, slips>>
  BY DEF DeleteSkill
<1>3. ProfileTypeOK' /\ NoTwoAlike'
  BY <1>1, <1>2 DEF ProfileTypeOK, NoTwoAlike
<1>. QED  BY <1>2, <1>3, EditsStand

\* An account is deleted with its skills.
LEMMA DeleteAgentOK == ASSUME ProfileInv, NEW a \in Accounts, DeleteAgent(a) PROVE ProfileInv'
<1>1. ProfileTypeOK /\ NoTwoAlike
  BY ProfileByParts DEF ProfileParts
<1>2. /\ mailOf' = [mailOf EXCEPT ![a] = Gone] /\ skills' = {s \in skills : s.of /= a}
      /\ UNCHANGED <<teamLive, edit, answer, slips>>
  BY DEF DeleteAgent
<1>3. mailOf' \in [Accounts -> Emails \cup {Gone}]
           /\ \A b \in Accounts : mailOf'[b] = IF b = a THEN Gone ELSE mailOf[b]
  BY <1>1, <1>2 DEF ProfileTypeOK
<1>4. NoTwoAlike'
  <2>1. \A b, c \in Accounts : b /= c /\ mailOf'[b] = mailOf'[c] => mailOf'[b] = Gone
    BY <1>1, <1>3 DEF NoTwoAlike
  <2>2. \A s, t \in skills' : s.of = t.of /\ s.name = t.name => s = t
    BY <1>1, <1>2 DEF NoTwoAlike
  <2>. QED  BY <2>1, <2>2 DEF NoTwoAlike
<1>5. ProfileTypeOK'
  <2>1. skills' \subseteq [of : Accounts, id : Edits, name : SkillNames]
    BY <1>1, <1>2 DEF ProfileTypeOK
  <2>2. \A s \in skills' : mailOf'[s.of] /= Gone
    <3>1. \A s \in skills : s.of \in Accounts /\ mailOf[s.of] /= Gone
      BY <1>1 DEF ProfileTypeOK
    <3>. QED  BY <1>2, <1>3, <3>1
  <2>. QED  BY <1>1, <1>2, <1>3, <2>1, <2>2 DEF ProfileTypeOK
<1>. QED  BY <1>2, <1>3, <1>4, <1>5, EditsStand

\* The team is deleted.
LEMMA LoseTeamOK == ASSUME ProfileInv, LoseTeam PROVE ProfileInv'
<1>1. ProfileTypeOK /\ NoTwoAlike
  BY ProfileByParts DEF ProfileParts
<1>2. teamLive' = FALSE /\ UNCHANGED <<mailOf, skills, edit, answer, slips>>
  BY DEF LoseTeam
<1>3. ProfileTypeOK'
  <2>1. teamLive' \in BOOLEAN
    BY <1>2, Zenon
  <2>. QED  BY <1>1, <1>2, <2>1 DEF ProfileTypeOK
<1>4. NoTwoAlike'
  BY <1>1, <1>2 DEF NoTwoAlike
<1>. QED  BY <1>2, <1>3, <1>4, EditsStand

\* Nothing happens.
LEMMA ProfilesStill == ASSUME ProfileInv, UNCHANGED profileVars PROVE ProfileInv'
<1>1. ProfileTypeOK /\ NoTwoAlike
  BY ProfileByParts DEF ProfileParts
<1>2. UNCHANGED <<mailOf, skills, teamLive, edit, answer, slips>>
  BY DEF profileVars
<1>3. ProfileTypeOK' /\ NoTwoAlike'
  BY <1>1, <1>2 DEF ProfileTypeOK, NoTwoAlike
<1>. QED  BY <1>2, <1>3, EditsStand

\* Nobody has asked for anything.
LEMMA ProfileStarts == ProfileInit => ProfileInv
<1>. SUFFICES ASSUME ProfileInit PROVE ProfileInv
  OBVIOUS
<1>1. /\ mailOf \in [Accounts -> Emails] /\ IsInjective(mailOf) /\ skills = {}
      /\ teamLive = TRUE /\ slips = 0
      /\ edit = [e \in Edits |-> NoProfileEdit] /\ answer = [e \in Edits |-> {}]
  BY DEF ProfileInit
<1>2. ProfileTypeOK
  <2>1. teamLive \in BOOLEAN
    BY <1>1, Zenon
  <2>2. 0 \in 0..MaxSlips
    BY ProfileNumbers
  <2>3. mailOf \in [Accounts -> Emails \cup {Gone}]
    BY <1>1
  <2>. QED  BY <1>1, <2>1, <2>2, <2>3, FirstRow DEF ProfileTypeOK
<1>3. NoTwoAlike
  <2>1. \A a, b \in Accounts : mailOf[a] = mailOf[b] => a = b
    BY <1>1 DEF IsInjective
  <2>. QED  BY <1>1, <2>1 DEF NoTwoAlike
<1>4. SkillsAreOfTheDone
  BY <1>1 DEF SkillsAreOfTheDone
<1>5. ASSUME NEW e \in Edits PROVE EditOK(e)
  <2>1. edit[e] = NoProfileEdit /\ answer[e] = {}
    BY <1>1
  <2>2. PICK r : r = NoProfileEdit
    OBVIOUS
  <2>3. r.at = "new" /\ r.left = {} /\ r.wrote = {}
    BY <2>2 DEF NoProfileEdit
  <2>4. EditIsStaged(e)
    BY <2>1, <2>2, <2>3 DEF EditIsStaged
  <2>5. WrittenSoFar(e)
    BY <2>1, <2>2, <2>3 DEF WrittenSoFar
  <2>. QED  BY <2>4, <2>5 DEF EditOK
<1>. QED  BY <1>2, <1>3, <1>4, <1>5, ProfileByParts DEF ProfileParts, EveryEdit

\* Every step keeps the invariant.
LEMMA ProfileStep == ASSUME ProfileInv, ProfileNext PROVE ProfileInv'
<1>1. ASSUME NEW a \in Accounts, DeleteAgent(a) PROVE ProfileInv'
  BY <1>1, DeleteAgentOK
<1>2. ASSUME NEW s \in skills, DeleteSkill(s) PROVE ProfileInv'
  BY <1>2, DeleteSkillOK
<1>3. ASSUME LoseTeam PROVE ProfileInv'
  BY <1>3, LoseTeamOK
<1>4. ASSUME NEW e \in Edits, NEW want \in Wishes, want \subseteq Fields("one"), NEW m \in Emails,
             NEW a \in Accounts, UpdateAgent(e, a, want, m)
      PROVE  ProfileInv'
  BY <1>4, UpdateAgentOK
<1>5. ASSUME NEW e \in Edits, NEW want \in Wishes, want \subseteq Fields("one"), NEW m \in Emails,
             NEW who \in Batches, BatchUpdate(e, who, want, m)
      PROVE  ProfileInv'
  BY <1>5, BatchUpdateOK
<1>6. ASSUME NEW e \in Edits, NEW s \in skills, NEW want \in Wishes, NEW bad \in SUBSET want,
             UpdateSkill(e, s, want, bad)
      PROVE  ProfileInv'
  BY <1>6, UpdateSkillOK
<1>7. ASSUME NEW e \in Edits, NEW a \in Accounts, NEW n \in SkillNames, AddSkill(e, a, n)
      PROVE  ProfileInv'
  BY <1>7, AddSkillOK
<1>8. ASSUME NEW e \in Edits,
             FindTarget(e) \/ CheckEmail(e) \/ WriteEmail(e) \/ WriteField(e) \/ Reload(e)
                  \/ InsertSkill(e)
               \/ StatementSlips(e)
      PROVE  ProfileInv'
  BY <1>8, FindTargetOK, CheckEmailOK, WriteEmailOK, WriteFieldOK, ReloadOK, InsertSkillOK,
     StatementSlipsOK
<1>. QED  BY <1>1, <1>2, <1>3, <1>4, <1>5, <1>6, <1>7, <1>8 DEF ProfileNext

\* However the edits of operators interleave, what an edit reports is what it wrote.
THEOREM EditsAreWhole == ProfileSpec => []ProfileInv
<1>1. ProfileInv /\ [ProfileNext]_profileVars => ProfileInv'
  BY ProfileStep, ProfilesStill
<1>. QED  BY <1>1, ProfileStarts, PTL DEF ProfileSpec

-----------------------------------------------------------------------------
(* The rate limiter.                                                        *)

\* The whole seconds that a caller is told of last at least as long as its oldest hit counts.
LEMMA SecondsAreEnough ==
  ASSUME NEW f \in Nat \ {0}, NEW x \in Nat
  PROVE  f * (x \div f + 1) \in Nat /\ f * (x \div f + 1) >= x
<1>1. PICK q : q = x \div f
  OBVIOUS
<1>2. q \in Nat /\ f * q <= x /\ x < f * q + f
  BY <1>1
<1>3. f * (q + 1) = f * q + f /\ f * q \in Nat
  BY <1>2
<1>. QED  BY <1>1, <1>2, <1>3

\* The window is a number of instants.
LEMMA SpanIsNat ==
  /\ Span \in Nat \ {0} /\ MaxHits \in Nat \ {0} /\ Fraction \in Nat \ {0} /\ MaxInstant \in Nat
<1>1. /\ Window \in Nat /\ Window > 0 /\ Fraction \in Nat /\ Fraction > 0
      /\ MaxHits \in Nat \ {0} /\ MaxInstant \in Nat
  BY RateLimitAssumption
<1>2. Window * Fraction \in Nat /\ Window * Fraction > 0
  BY <1>1
<1>. QED  BY <1>1, <1>2 DEF Span

\* The instants of checks and admissions, and the sizes of what is kept.
LEMMA RateFacts ==
  ASSUME RateTypeOK
  PROVE  /\ clock \in Nat /\ Len(admitted) \in Nat /\ DOMAIN admitted = 1..Len(admitted)
         /\ \A i \in 1..Len(admitted) : admitted[i].at \in 0..clock /\ admitted[i].entered \in 0..clock
         /\ \A p \in checking : p.at \in 0..clock
         /\ IsFiniteSet(hits) /\ Cardinality(hits) \in Nat
<1>1. clock \in Nat /\ admitted \in Seq([at : 0..clock, entered : 0..clock])
  BY SpanIsNat DEF RateTypeOK
<1>2. /\ Len(admitted) \in Nat /\ DOMAIN admitted = 1..Len(admitted)
      /\ \A i \in 1..Len(admitted) : admitted[i] \in [at : 0..clock, entered : 0..clock]
  <2>1. PICK X : X = [at : 0..clock, entered : 0..clock]
    OBVIOUS
  <2>2. admitted \in Seq(X)
    BY <1>1, <2>1
  <2>3. \A i \in 1..Len(admitted) : admitted[i] \in X
    BY <2>2, ElementOfSeq
  <2>. QED  BY <2>1, <2>2, <2>3
<1>3. IsFiniteSet(1..Len(admitted))
  BY <1>2, FS_Interval
<1>4. IsFiniteSet(hits) /\ Cardinality(hits) \in Nat
  BY <1>2, <1>3, FS_Subset, FS_CardinalityType DEF RateTypeOK
<1>. QED  BY <1>1, <1>2, <1>4 DEF RateTypeOK

\* What a check retains is some of the hits, and all of them if it is as many.
LEMMA RecentAreHits ==
  ASSUME RateTypeOK, NEW n
  PROVE  /\ Recent(n) \subseteq hits /\ IsFiniteSet(Recent(n)) /\ Cardinality(Recent(n)) \in Nat
         /\ Cardinality(Recent(n)) <= Cardinality(hits) /\ Cardinality(Recent(n)) <= MaxHits
         /\ Cardinality(Recent(n)) = Cardinality(hits) => Recent(n) = hits
<1>1. PICK R : R = Recent(n)
  OBVIOUS
<1>2. R \subseteq hits /\ IsFiniteSet(hits) /\ Cardinality(hits) \in Nat
  BY <1>1, RateFacts DEF Recent
<1>3. /\ IsFiniteSet(R) /\ Cardinality(R) <= Cardinality(hits)
      /\ Cardinality(R) = Cardinality(hits) => R = hits
  BY <1>2, FS_Subset
<1>4. Cardinality(R) \in Nat
  BY <1>3, FS_CardinalityType
<1>5. Cardinality(hits) <= MaxHits
  BY DEF RateTypeOK
<1>. QED  BY <1>1, <1>2, <1>3, <1>4, <1>5, SpanIsNat

\* What a check forgets has aged.
LEMMA ForgottenByCheck ==
  ASSUME RateTypeOK, ForgottenHasAged, NEW n \in 0..clock
  PROVE  \A i \in (1..Len(admitted)) \ Recent(n) : clock - admitted[i].at >= Span
<1>1. TAKE i \in (1..Len(admitted)) \ Recent(n)
<1>2. /\ clock \in Nat /\ admitted[i].at \in 0..clock /\ DOMAIN admitted = 1..Len(admitted)
      /\ i \in 1..Len(admitted)
  BY RateFacts
<1>3. CASE i \notin hits
  BY <1>2, <1>3 DEF ForgottenHasAged
<1>4. CASE i \in hits
  <2>1. ~(Minus(n, admitted[i].at) < Span)
    BY <1>1, <1>4 DEF Recent
  <2>. QED  BY <1>2, <2>1, SpanIsNat DEF Minus
<1>. QED  BY <1>3, <1>4

\* A check waits for the mutex.
LEMMA ReadClockKeeps == ASSUME RateInv, NEW c \in Callers, ReadClock(c) PROVE RateInv'
<1>1. PICK p : p = [by |-> c, at |-> clock]
  OBVIOUS
<1>2. checking' = checking \cup {p} /\ UNCHANGED <<clock, admitted, hits, told>>
  BY <1>1 DEF ReadClock
<1>3. p \in [by : Callers, at : 0..clock] /\ p.at = clock
  BY <1>1, RateFacts DEF RateInv
<1>4. RateTypeOK'
  BY <1>2, <1>3 DEF RateInv, RateTypeOK
<1>5. ForgottenHasAged' /\ WindowHolds' /\ ToldOfRoom'
  BY <1>2 DEF RateInv, ForgottenHasAged, WindowHolds, ToldOfRoom
<1>6. RetryAfterHolds'
  <2>1. ASSUME NEW t \in told, NEW n \in {clock} \cup {q.at : q \in checking}, n >= t
        PROVE  Cardinality(Recent(n)) < MaxHits
    BY <2>1 DEF RateInv, RetryAfterHolds
  <2>2. \A n : Recent(n)' = Recent(n)
    BY <1>2 DEF Recent
  <2>3. \A n \in ({clock} \cup {q.at : q \in checking})' : n \in {clock} \cup {q.at : q \in checking}
    BY <1>2, <1>3
  <2>. QED  BY <1>2, <2>1, <2>2, <2>3 DEF RetryAfterHolds
<1>. QED  BY <1>4, <1>5, <1>6 DEF RateInv

\* An admission keeps the policy.
LEMMA AdmitKeeps == ASSUME RateInv, NEW p \in checking, Admit(p) PROVE RateInv'
<1>. DEFINE n == Len(admitted)
            kept == Recent(p.at)
<1>1. PICK a : a = [at |-> p.at, entered |-> clock]
  OBVIOUS
<1>2. /\ RateTypeOK /\ ForgottenHasAged /\ clock \in Nat /\ n \in Nat /\ p.at \in 0..clock
      /\ DOMAIN admitted = 1..n /\ \A i \in 1..n : admitted[i].at \in 0..clock
  BY RateFacts DEF RateInv
<1>3. /\ Cardinality(kept) < MaxHits /\ admitted' = Append(admitted, a)
      /\ hits' = kept \cup {n + 1} /\ checking' = checking \ {p} /\ told' = {} /\ clock' = clock
  BY <1>1 DEF Admit, Push
<1>4. a \in [at : 0..clock, entered : 0..clock] /\ a.at = p.at /\ a.entered = clock
  BY <1>1, <1>2
<1>5. /\ admitted' \in Seq([at : 0..clock, entered : 0..clock]) /\ Len(admitted') = n + 1
      /\ DOMAIN admitted' = 1..(n + 1) /\ admitted'[n + 1] = a
      /\ \A i \in 1..n : admitted'[i] = admitted[i]
  <2>1. admitted \in Seq([at : 0..clock, entered : 0..clock])
    BY <1>2 DEF RateTypeOK
  <2>. QED  BY <1>3, <1>4, <2>1
<1>6. /\ kept \subseteq 1..n /\ IsFiniteSet(kept) /\ Cardinality(kept) \in Nat
      /\ \A i \in (1..n) \ kept : clock - admitted[i].at >= Span
  BY <1>2, RecentAreHits, ForgottenByCheck DEF RateTypeOK
<1>7. IsFiniteSet(hits') /\ Cardinality(hits') = Cardinality(kept) + 1
  <2>1. n + 1 \notin kept
    BY <1>2, <1>6
  <2>. QED  BY <1>3, <1>6, <2>1, FS_AddElement
<1>8. RateTypeOK'
  <2>1. hits' \subseteq 1..(n + 1) /\ Cardinality(hits') <= MaxHits
    BY <1>2, <1>3, <1>6, <1>7, SpanIsNat
  <2>. QED  BY <1>2, <1>3, <1>5, <2>1 DEF RateTypeOK
<1>9. ForgottenHasAged'
  <2>1. \A i \in (1..(n + 1)) \ hits' : i \in (1..n) \ kept
    BY <1>2, <1>3
  <2>2. \A i \in (1..(n + 1)) \ hits' : clock - admitted'[i].at >= Span
    BY <1>5, <1>6, <2>1
  <2>. QED  BY <1>3, <1>5, <2>2 DEF ForgottenHasAged
<1>10. WindowHolds'
  <2>1. ASSUME NEW j \in 1..(n + 1)
        PROVE  Cardinality({i \in 1..j : admitted'[j].entered - admitted'[i].at < Span}) <= MaxHits
    <3>1. CASE j = n + 1
      <4>1. ASSUME NEW i \in 1..j, admitted'[j].entered - admitted'[i].at < Span PROVE i \in hits'
        <5>1. admitted'[j].entered = clock
          BY <1>4, <1>5, <3>1
        <5>2. i \in 1..(n + 1) /\ clock - admitted'[i].at < Span
          BY <3>1, <4>1, <5>1
        <5>3. CASE i = n + 1
          BY <1>3, <5>3
        <5>4. CASE i /= n + 1
          <6>1. i \in 1..n /\ clock - admitted[i].at < Span /\ admitted[i].at \in 0..clock
            BY <1>2, <1>5, <5>2, <5>4
          <6>2. ~(clock - admitted[i].at >= Span)
            BY <1>2, <6>1, SpanIsNat
          <6>3. i \in kept
            BY <1>6, <6>1, <6>2
          <6>4. hits' = kept \cup {n + 1}
            BY <1>3
          <6>. QED  BY <6>3, <6>4
        <5>. QED  BY <5>3, <5>4
      <4>2. PICK N : N = {i \in 1..j : admitted'[j].entered - admitted'[i].at < Span}
        OBVIOUS
      <4>3. IsFiniteSet(N) /\ Cardinality(N) <= Cardinality(hits')
        <5>1. N \subseteq hits'
          BY <4>1, <4>2
        <5>. QED  BY <1>7, <5>1, FS_Subset
      <4>4. Cardinality(N) \in Nat
        BY <4>3, FS_CardinalityType
      <4>5. PICK k : k = Cardinality(kept)
        OBVIOUS
      <4>6. k \in Nat /\ k < MaxHits /\ Cardinality(N) <= k + 1
        BY <1>3, <1>6, <1>7, <4>3, <4>5
      <4>7. Cardinality(N) <= MaxHits
        BY <4>4, <4>6, SpanIsNat
      <4>. QED  BY <4>2, <4>7
    <3>2. CASE j /= n + 1
      <4>1. j \in 1..n /\ \A i \in 1..j : i \in 1..n
        BY <1>2, <3>2
      <4>2. {i \in 1..j : admitted'[j].entered - admitted'[i].at < Span} =
            {i \in 1..j : admitted[j].entered - admitted[i].at < Span}
        BY <1>5, <4>1
      <4>3. Cardinality({i \in 1..j : admitted[j].entered - admitted[i].at < Span}) <= MaxHits
        BY <1>2, <4>1 DEF RateInv, WindowHolds
      <4>. QED  BY <4>2, <4>3
    <3>. QED  BY <3>1, <3>2
  <2>. QED  BY <1>5, <2>1 DEF WindowHolds
<1>11. ToldOfRoom' /\ RetryAfterHolds'
  BY <1>3 DEF ToldOfRoom, RetryAfterHolds
<1>. QED  BY <1>8, <1>9, <1>10, <1>11 DEF RateInv

\* Who was told of an instant finds room from then on.
LEMMA ToldFindRoom == RateTypeOK /\ ForgottenHasAged /\ ToldOfRoom => RetryAfterHolds
<1>. SUFFICES ASSUME RateTypeOK, ToldOfRoom, NEW t \in told,
                     NEW n \in {clock} \cup {p.at : p \in checking}, n >= t
              PROVE  Cardinality(Recent(n)) < MaxHits
  BY DEF RetryAfterHolds
<1>1. /\ clock \in Nat /\ n \in Nat /\ t \in Nat
      /\ Cardinality(Recent(n)) \in Nat /\ Cardinality(Recent(n)) <= MaxHits
      /\ Cardinality(Recent(n)) <= Cardinality(hits)
      /\ Cardinality(hits) \in Nat /\ Cardinality(hits) <= MaxHits
  BY RateFacts, RecentAreHits DEF RateTypeOK
<1>2. CASE Cardinality(Recent(n)) < MaxHits
  BY <1>2
<1>3. CASE ~(Cardinality(Recent(n)) < MaxHits)
  <2>1. Cardinality(hits) = MaxHits /\ Recent(n) = hits
    BY <1>1, <1>3, RecentAreHits, SpanIsNat
  <2>2. PICK i \in hits : t >= admitted[i].at + Span
    BY <2>1 DEF ToldOfRoom
  <2>3. admitted[i].at \in Nat /\ Minus(n, admitted[i].at) < Span
    BY <2>1, RateFacts DEF RateTypeOK, Recent
  <2>. QED  BY <1>1, <2>2, <2>3, SpanIsNat DEF Minus
<1>. QED  BY <1>2, <1>3

\* After a step as well.
LEMMA ToldFindRoomNext == (RateTypeOK /\ ForgottenHasAged /\ ToldOfRoom)' => RetryAfterHolds'
BY ToldFindRoom, PTL

\* The first of the hits is one of them.
LEMMA OldestIsHit == ASSUME NEW K \in SUBSET Nat, K /= {} PROVE Oldest(K) \in K
<1>1. \E x \in K : \A y \in K : ~(<<y, x>> \in OpToRel(<, Nat))
  BY NatLessThanWellFounded, WFMin
<1>2. PICK x \in K : \A y \in K : ~(y < x)
  BY <1>1 DEF OpToRel
<1>3. \A y \in K : x <= y
  BY <1>2
<1>. QED  BY <1>3 DEF Oldest

\* A refusal, and what it tells.
LEMMA RefuseKeeps == ASSUME RateInv, NEW p \in checking, Refuse(p) PROVE RateInv'
<1>. DEFINE kept == Recent(p.at)
<1>1. PICK t : t = clock + Fraction * ResetSecs(p.at, Oldest(kept))
  OBVIOUS
<1>2. /\ RateTypeOK /\ ForgottenHasAged /\ clock \in Nat /\ p.at \in 0..clock
      /\ DOMAIN admitted = 1..Len(admitted) /\ hits \subseteq 1..Len(admitted) /\ told \subseteq Nat
  BY RateFacts DEF RateInv, RateTypeOK
<1>3. /\ Cardinality(kept) >= MaxHits /\ hits' = kept /\ told' = told \cup {t}
      /\ checking' = checking \ {p} /\ UNCHANGED <<clock, admitted>>
  BY <1>1 DEF Refuse
<1>4. kept = hits /\ Cardinality(hits) = MaxHits
  <2>1. Cardinality(hits) \in Nat /\ Cardinality(hits) <= MaxHits
    BY <1>2, RateFacts DEF RateTypeOK
  <2>. QED  BY <1>2, <1>3, <2>1, RecentAreHits, SpanIsNat
<1>5. PICK o : o = Oldest(kept)
  OBVIOUS
<1>6. o \in hits /\ admitted[o].at \in 0..clock /\ Minus(p.at, admitted[o].at) < Span
  <2>1. kept /= {}
    BY <1>4, FS_EmptySet, SpanIsNat
  <2>2. kept \subseteq Nat
    BY <1>2, <1>4
  <2>3. o \in kept
    BY <1>5, <2>1, <2>2, OldestIsHit
  <2>. QED  BY <1>2, <1>4, <2>3, RateFacts DEF Recent
<1>7. PICK x : x = Minus(Span, Minus(p.at, admitted[o].at))
  OBVIOUS
<1>8. x \in Nat /\ clock + x >= admitted[o].at + Span
  <2>1. PICK r : r = admitted[o].at
    OBVIOUS
  <2>2. PICK w : w = Span
    OBVIOUS
  <2>3. PICK y : y = Minus(p.at, r)
    OBVIOUS
  <2>4. PICK a : a = p.at
    OBVIOUS
  <2>5. /\ r \in Nat /\ r <= clock /\ w \in Nat /\ a \in Nat /\ a <= clock
        /\ y = (IF a > r THEN a - r ELSE 0) /\ y < w
    BY <1>2, <1>6, <2>1, <2>2, <2>3, <2>4, SpanIsNat DEF Minus
  <2>6. x = w - y
    BY <1>7, <2>1, <2>2, <2>3, <2>4, <2>5 DEF Minus
  <2>7. x \in Nat /\ clock + x >= r + w
    BY <1>2, <2>5, <2>6
  <2>. QED  BY <2>1, <2>2, <2>7
<1>9. t \in Nat /\ t >= admitted[o].at + Span
  <2>1. Fraction * (x \div Fraction + 1) \in Nat /\ Fraction * (x \div Fraction + 1) >= x
    BY <1>8, SecondsAreEnough, SpanIsNat
  <2>2. t = clock + Fraction * (x \div Fraction + 1)
    BY <1>1, <1>5, <1>7 DEF ResetSecs
  <2>3. PICK y : y = Fraction * (x \div Fraction + 1)
    OBVIOUS
  <2>. QED  BY <1>2, <1>6, <1>8, <2>1, <2>2, <2>3, SpanIsNat
<1>10. RateTypeOK' /\ ForgottenHasAged' /\ WindowHolds'
  <2>1. UNCHANGED <<clock, hits, admitted>> /\ checking' \subseteq checking
    BY <1>3, <1>4
  <2>2. told' \subseteq Nat
    BY <1>2, <1>3, <1>9
  <2>. QED  BY <2>1, <2>2 DEF RateInv, RateTypeOK, ForgottenHasAged, WindowHolds
<1>11. ToldOfRoom'
  <2>1. \A u \in told : \E i \in hits : u >= admitted[i].at + Span
    BY <1>4 DEF RateInv, ToldOfRoom
  <2>2. \A u \in told' : \E i \in hits' : u >= admitted'[i].at + Span
    BY <1>3, <1>4, <1>6, <1>9, <2>1
  <2>. QED  BY <2>2 DEF ToldOfRoom
<1>. QED  BY <1>10, <1>11, ToldFindRoomNext DEF RateInv

\* The clock goes on.
LEMMA ClockTickKeeps == ASSUME RateInv, ClockTick PROVE RateInv'
<1>1. /\ clock' = clock + 1 /\ clock' \in 0..MaxInstant /\ clock \in Nat
      /\ UNCHANGED <<checking, hits, admitted, told>>
  BY SpanIsNat DEF RateInv, RateTypeOK, ClockTick
<1>2. 0..clock \subseteq 0..clock'
  BY <1>1
<1>3. admitted' \in Seq([at : 0..clock', entered : 0..clock'])
  <2>1. [at : 0..clock, entered : 0..clock] \subseteq [at : 0..clock', entered : 0..clock']
    BY <1>2
  <2>2. PICK X : X = [at : 0..clock, entered : 0..clock]
    OBVIOUS
  <2>3. PICK Y : Y = [at : 0..clock', entered : 0..clock']
    OBVIOUS
  <2>4. X \subseteq Y /\ admitted \in Seq(X)
    BY <2>1, <2>2, <2>3 DEF RateInv, RateTypeOK
  <2>5. admitted \in Seq(Y)
    BY <2>4
  <2>. QED  BY <1>1, <2>3, <2>5
<1>4. checking' \subseteq [by : Callers, at : 0..clock']
  BY <1>1, <1>2 DEF RateInv, RateTypeOK
<1>5. RateTypeOK'
  BY <1>1, <1>3, <1>4 DEF RateInv, RateTypeOK
<1>6. ForgottenHasAged'
  <2>1. ASSUME NEW i \in DOMAIN admitted \ hits PROVE clock' - admitted[i].at >= Span
    <3>1. clock - admitted[i].at >= Span /\ admitted[i].at \in Nat
      BY RateFacts DEF RateInv, ForgottenHasAged
    <3>. QED  BY <1>1, <3>1, SpanIsNat
  <2>. QED  BY <1>1, <2>1 DEF ForgottenHasAged
<1>7. WindowHolds' /\ ToldOfRoom'
  BY <1>1 DEF RateInv, WindowHolds, ToldOfRoom
<1>. QED  BY <1>5, <1>6, <1>7, ToldFindRoomNext DEF RateInv

\* No request has been admitted.
LEMMA RateInitially == RateInit => RateInv
<1>. SUFFICES ASSUME RateInit PROVE RateInv
  OBVIOUS
<1>1. hits = {} /\ admitted = <<>> /\ clock = 0 /\ told = {} /\ checking = {}
  BY DEF RateInit
<1>2. RateTypeOK
  <2>1. Cardinality(hits) = 0
    BY <1>1, FS_EmptySet
  <2>. QED  BY <1>1, <2>1, SpanIsNat DEF RateTypeOK
<1>3. ForgottenHasAged /\ WindowHolds /\ ToldOfRoom /\ RetryAfterHolds
  BY <1>1 DEF ForgottenHasAged, WindowHolds, ToldOfRoom, RetryAfterHolds
<1>. QED  BY <1>2, <1>3 DEF RateInv

\* Every step keeps the policy.
LEMMA RateStep == RateInv /\ [RateNext]_rateVars => RateInv'
<1>. SUFFICES ASSUME RateInv, [RateNext]_rateVars PROVE RateInv'
  OBVIOUS
<1>1. ASSUME NEW p \in checking, Admit(p) PROVE RateInv'
  BY <1>1, AdmitKeeps
<1>2. ASSUME NEW p \in checking, Refuse(p) PROVE RateInv'
  BY <1>2, RefuseKeeps
<1>3. ASSUME NEW c \in Callers, ReadClock(c) PROVE RateInv'
  BY <1>3, ReadClockKeeps
<1>4. CASE ClockTick
  BY <1>4, ClockTickKeeps
<1>5. CASE UNCHANGED rateVars
  <2>1. RateTypeOK' /\ ForgottenHasAged' /\ WindowHolds' /\ ToldOfRoom'
    BY <1>5 DEF rateVars, RateInv, RateTypeOK, ForgottenHasAged, WindowHolds, ToldOfRoom
  <2>. QED  BY <2>1, ToldFindRoomNext DEF RateInv
<1>. QED  BY <1>1, <1>2, <1>3, <1>4, <1>5 DEF RateNext

\* No window of a policy holds, from reading to admission, more requests of a caller than it
\* allows, and a refused caller who waits for as long as it is told finds room (RateInv), for
\* every policy and however the requests overtake each other.
THEOREM WindowsHold == RateSpec => []RateInv
BY RateInitially, RateStep, PTL DEF RateSpec

-----------------------------------------------------------------------------
(* The upload limiter.                                                      *)

\* A set of positions with all that come after each of them is an end of the list.
LEMMA EndOfList ==
  ASSUME NEW n \in Nat, NEW Z \in SUBSET (1..n), \A i \in Z, j \in 1..n : i <= j => j \in Z
  PROVE  \E d \in 0..n : Z = (d + 1)..n
<1>1. CASE Z = {}
  <2>1. Z = (n + 1)..n
    BY <1>1
  <2>. QED  BY <2>1
<1>2. CASE Z # {}
  <2>1. Z \subseteq Nat
    OBVIOUS
  <2>2. \E x \in Z : \A y \in Z : ~(<<y, x>> \in OpToRel(<, Nat))
    BY <1>2, <2>1, NatLessThanWellFounded, WFMin
  <2>3. PICK x \in Z : \A y \in Z : ~(y < x)
    BY <2>1, <2>2 DEF OpToRel
  <2>4. x \in 1..n
    OBVIOUS
  <2>5. \A j \in 1..n : j \in Z <=> x <= j
    BY <2>3, <2>4
  <2>6. Z = x..n
    <3>1. \A j : j \in Z <=> j \in x..n
      <4>1. \A j : j \in Z => j \in 1..n /\ x <= j
        BY <2>5
      <4>2. \A j : j \in x..n => j \in 1..n /\ x <= j
        BY <2>4
      <4>. QED  BY <2>4, <2>5, <4>1, <4>2
    <3>. QED  BY <3>1
  <2>7. x - 1 \in 0..n /\ Z = ((x - 1) + 1)..n
    BY <2>4, <2>6
  <2>. QED  BY <2>7
<1>. QED  BY <1>1, <1>2

\* What is retained when an end of the list is: that end, in its order.
LEMMA RetainedEnd ==
  ASSUME NEW X, NEW s \in Seq(X), NEW n \in Nat, n = Len(s), NEW d \in 0..n,
         NEW Z, Z = (d + 1)..n
  PROVE  /\ Retained(s, Z) \in Seq(X) /\ Len(Retained(s, Z)) = n - d
         /\ Cardinality(Z) = n - d
         /\ \A i \in 1..(n - d) : Retained(s, Z)[i] = s[d + i]
<1>1. n \in Nat /\ d \in 0..n /\ Z = (d + 1)..n /\ \A i \in 1..n : s[i] \in X
  BY ElementOfSeq
<1>2. Cardinality(Z) = n - d
  <2>1. PICK a : a = d + 1
    OBVIOUS
  <2>2. a \in Int /\ n \in Int /\ Z = a..n
    BY <1>1, <2>1
  <2>3. Cardinality(Z) = IF a > n THEN 0 ELSE n - a + 1
    BY <2>2, FS_Interval
  <2>. QED  BY <1>1, <2>1, <2>2, <2>3
<1>3. \A k \in Z : Cardinality({j \in Z : j <= k}) = k - d
  <2>1. TAKE k \in Z
  <2>2. {j \in Z : j <= k} = (d + 1)..k
    BY <1>1
  <2>3. PICK a : a = d + 1
    OBVIOUS
  <2>4. a \in Int /\ k \in Int /\ k >= a /\ k - a + 1 = k - d
    BY <1>1, <2>3
  <2>5. Cardinality(a..k) = IF a > k THEN 0 ELSE k - a + 1
    BY <2>4, FS_Interval
  <2>6. Cardinality(a..k) = k - d
    BY <2>4, <2>5
  <2>. QED  BY <2>2, <2>3, <2>6
<1>4. \A i \in 1..(n - d) : (CHOOSE k \in Z : Cardinality({j \in Z : j <= k}) = i) = d + i
  <2>1. TAKE i \in 1..(n - d)
  <2>2. d + i \in Z /\ Cardinality({j \in Z : j <= d + i}) = i
    BY <1>1, <1>3
  <2>3. PICK k : k = CHOOSE k0 \in Z : Cardinality({j \in Z : j <= k0}) = i
    OBVIOUS
  <2>4. k \in Z /\ Cardinality({j \in Z : j <= k}) = i
    BY <2>2, <2>3
  <2>5. k = d + i
    BY <1>1, <1>3, <2>4
  <2>. QED  BY <2>3, <2>5
<1>5. Retained(s, Z) = [i \in 1..(n - d) |-> s[d + i]]
  <2>1. Retained(s, Z) =
          [i \in 1..(n - d) |-> s[CHOOSE k \in Z : Cardinality({j \in Z : j <= k}) = i]]
    BY <1>2, Zenon DEF Retained
  <2>. QED  BY <1>4, <2>1, Zenon
<1>6. \A i \in 1..(n - d) : d + i \in 1..n
  BY <1>1
<1>7. n - d \in Nat
  BY <1>1
<1>8. PICK r : r = [i \in 1..(n - d) |-> s[d + i]]
  OBVIOUS
<1>9. r \in [1..(n - d) -> X]
  BY <1>1, <1>6, <1>8
<1>10. r \in Seq(X) /\ Len(r) = n - d
  BY <1>7, <1>9
<1>. QED  BY <1>2, <1>5, <1>8, <1>10

\* A list that an element is added to.
LEMMA ElementAdded ==
  ASSUME NEW X, NEW s \in Seq(X), NEW x \in X
  PROVE  /\ Append(s, x) \in Seq(X) /\ Len(Append(s, x)) = Len(s) + 1
         /\ Append(s, x)[Len(s) + 1] = x
         /\ \A i \in 1..Len(s) : Append(s, x)[i] = s[i]
  OBVIOUS

\* The bounds are numbers.
LEMMA UpldNumbers ==
  /\ Minute \in Nat \ {0} /\ Hour \in Nat \ {0} /\ Minute <= Hour /\ MaxMoment \in Nat
  /\ Sizes \subseteq Nat
  /\ \A p \in Policies : /\ p.max_concurrent \in Nat /\ p.per_minute \in Nat
                         /\ p.per_hour \in Nat /\ p.bytes_per_hour \in Nat
BY UploadLimitAssumption

\* What the records of uploads and of events hold.
Took == [at : 0..moment, bytes : Sizes, policy : Policies]
Event == [at : 0..moment, bytes : Sizes]

\* The types of the lists, element by element.
LEMMA UpldFacts ==
  ASSUME UpldTypeOK
  PROVE  /\ moment \in Nat /\ uploads \in Seq(Took) /\ events \in Seq(Event)
         /\ Len(uploads) \in Nat /\ Len(events) \in Nat /\ Len(events) <= Len(uploads)
         /\ DOMAIN uploads = 1..Len(uploads) /\ DOMAIN events = 1..Len(events)
         /\ \A i \in 1..Len(uploads) :
              uploads[i].at \in 0..moment /\ uploads[i].bytes \in Nat
              /\ uploads[i].policy \in Policies
         /\ \A i \in 1..Len(events) : events[i].at \in 0..moment /\ events[i].bytes \in Nat
<1>1. moment \in Nat /\ uploads \in Seq(Took) /\ events \in Seq(Event)
      /\ Len(events) <= Len(uploads)
  BY UpldNumbers DEF UpldTypeOK, Took, Event
<1>2. /\ Len(uploads) \in Nat /\ Len(events) \in Nat
      /\ DOMAIN uploads = 1..Len(uploads) /\ DOMAIN events = 1..Len(events)
  BY <1>1
<1>3. ASSUME NEW i \in 1..Len(uploads)
      PROVE  uploads[i].at \in 0..moment /\ uploads[i].bytes \in Nat
             /\ uploads[i].policy \in Policies
  <2>1. uploads[i] \in Took
    BY <1>1, ElementOfSeq
  <2>. QED  BY <2>1, UpldNumbers DEF Took
<1>4. ASSUME NEW i \in 1..Len(events) PROVE events[i].at \in 0..moment /\ events[i].bytes \in Nat
  <2>1. events[i] \in Event
    BY <1>1, ElementOfSeq
  <2>. QED  BY <2>1, UpldNumbers DEF Event
<1>. QED  BY <1>1, <1>2, <1>3, <1>4

\* The order of admission, and which of n uploads each of m events is.
Latest(n, m) ==
  /\ \A i \in 1..m : /\ events[i].at = uploads[(n - m) + i].at
                     /\ events[i].bytes = uploads[(n - m) + i].bytes
  /\ \A i \in 1..(n - m) : moment - uploads[i].at >= Hour
  /\ \A i, j \in 1..n : i <= j => uploads[i].at <= uploads[j].at

\* The events are the latest of the uploads.
LEMMA LatestFacts ==
  ASSUME UpldTypeOK, EventsAreLatest, NEW n, n = Len(uploads), NEW m, m = Len(events)
  PROVE  Latest(n, m)
BY UpldFacts DEF EventsAreLatest, Latest

\* The events of the last hour are the latest of the uploads, and every other upload is
\* older than an hour.
LEMMA LastHourIsLatest ==
  ASSUME UpldTypeOK, EventsAreLatest
  PROVE  LET kept == OfLastHour
             gone == Len(uploads) - Len(kept)
         IN  /\ kept \in Seq(Event) /\ Len(kept) <= Len(events)
             /\ \A i \in 1..Len(kept) : /\ kept[i].at = uploads[gone + i].at
                                        /\ kept[i].bytes = uploads[gone + i].bytes
             /\ \A i \in 1..gone : moment - uploads[i].at >= Hour
<1>1. PICK m : m = Len(events)
  OBVIOUS
<1>2. PICK n : n = Len(uploads)
  OBVIOUS
<1>3. /\ m \in Nat /\ n \in Nat /\ m <= n /\ moment \in Nat
      /\ DOMAIN events = 1..m /\ DOMAIN uploads = 1..n
      /\ \A i \in 1..m : events[i].at \in 0..moment
      /\ \A i \in 1..n : uploads[i].at \in 0..moment
      /\ events \in Seq(Event)
  BY <1>1, <1>2, UpldFacts
<1>4. PICK e : e = [i \in 1..m |-> events[i].at]
  OBVIOUS
<1>5. PICK u : u = [i \in 1..n |-> uploads[i].at]
  OBVIOUS
<1>6. /\ \A i \in 1..m : e[i] = events[i].at /\ e[i] \in 0..moment
      /\ \A i \in 1..n : u[i] = uploads[i].at /\ u[i] \in 0..moment
  BY <1>3, <1>4, <1>5
<1>7. \A i \in 1..m : (n - m) + i \in 1..n
  BY <1>3
<1>8. /\ \A i \in 1..m : e[i] = u[(n - m) + i] /\ events[i].bytes = uploads[(n - m) + i].bytes
      /\ \A i \in 1..(n - m) : i \in 1..n /\ moment - u[i] >= Hour
      /\ \A i, j \in 1..n : i <= j => u[i] <= u[j]
  <2>1. \A i \in 1..(n - m) : i \in 1..n
    BY <1>3
  <2>2. /\ \A i \in 1..m : /\ events[i].at = uploads[(n - m) + i].at
                             /\ events[i].bytes = uploads[(n - m) + i].bytes
        /\ \A i \in 1..(n - m) : moment - uploads[i].at >= Hour
        /\ \A i, j \in 1..n : i <= j => uploads[i].at <= uploads[j].at
    <3>1. Latest(n, m)
      BY <1>1, <1>2, LatestFacts
    <3>. QED  BY <3>1 DEF Latest
  <2>3. \A i \in 1..m : e[i] = u[(n - m) + i]
    BY <1>6, <1>7, <2>2
  <2>4. \A i \in 1..(n - m) : moment - u[i] >= Hour
    BY <1>6, <2>1, <2>2
  <2>. QED  BY <1>6, <2>1, <2>2, <2>3, <2>4
<1>9. PICK Z : Z = Since(events, moment, Hour)
  OBVIOUS
<1>10. Z \subseteq 1..m /\ \A i \in 1..m : i \in Z <=> moment - e[i] < Hour
  BY <1>3, <1>6, <1>9 DEF Since
<1>11. \A i \in Z, j \in 1..m : i <= j => j \in Z
  <2>1. TAKE i \in Z, j \in 1..m
  <2>2. HAVE i <= j
  <2>3. i \in 1..m /\ moment - e[i] < Hour
    BY <1>10
  <2>4. e[i] <= e[j]
    <3>1. (n - m) + i <= (n - m) + j
      BY <1>3, <2>2, <2>3
    <3>. QED  BY <1>7, <1>8, <2>3, <3>1
  <2>5. moment - e[j] < Hour
    BY <1>3, <1>6, <2>3, <2>4, UpldNumbers
  <2>. QED  BY <1>10, <2>5
<1>12. PICK d \in 0..m : Z = (d + 1)..m
  BY <1>3, <1>10, <1>11, EndOfList
<1>13. PICK kept : kept = OfLastHour
  OBVIOUS
<1>14. /\ kept \in Seq(Event) /\ Len(kept) = m - d
       /\ \A i \in 1..(m - d) : kept[i] = events[d + i]
  <2>1. kept = Retained(events, Z)
    BY <1>9, <1>13 DEF OfLastHour
  <2>. QED  BY <1>1, <1>3, <1>12, <2>1, RetainedEnd
<1>15. PICK gone : gone = n - (m - d)
  OBVIOUS
<1>16. gone = (n - m) + d /\ gone \in Nat /\ m - d \in Nat /\ gone <= n
  BY <1>3, <1>12, <1>15
<1>17. ASSUME NEW i \in 1..(m - d)
       PROVE  kept[i].at = uploads[gone + i].at /\ kept[i].bytes = uploads[gone + i].bytes
  <2>1. d + i \in 1..m /\ gone + i = (n - m) + (d + i)
    BY <1>3, <1>12, <1>16
  <2>2. gone + i \in 1..n
    BY <1>7, <2>1
  <2>3. kept[i] = events[d + i]
    BY <1>14
  <2>4. e[d + i] = u[gone + i] /\ events[d + i].bytes = uploads[gone + i].bytes
    BY <1>8, <2>1
  <2>. QED  BY <1>6, <2>1, <2>2, <2>3, <2>4
<1>18. ASSUME NEW i \in 1..gone PROVE moment - uploads[i].at >= Hour
  <2>1. CASE i <= n - m
    <3>1. i \in 1..(n - m)
      BY <1>3, <1>16, <2>1
    <3>. QED  BY <1>6, <1>8, <3>1
  <2>2. CASE ~(i <= n - m)
    <3>1. PICK j : j = i - (n - m)
      OBVIOUS
    <3>2. j \in 1..m /\ j \notin Z /\ (n - m) + j = i /\ i \in 1..n
      BY <1>3, <1>12, <1>16, <2>2, <3>1
    <3>3. ~(moment - e[j] < Hour) /\ e[j] = u[i]
      BY <1>8, <1>10, <3>2
    <3>4. moment - u[i] >= Hour
      BY <1>3, <1>6, <3>2, <3>3, UpldNumbers
    <3>. QED  BY <1>6, <3>2, <3>4
  <2>. QED  BY <2>1, <2>2
<1>. QED  BY <1>1, <1>2, <1>3, <1>12, <1>13, <1>14, <1>15, <1>17, <1>18

\* One pair for each byte at these positions.
Units(s, places) == UNION {{<<i, b>> : b \in 1..s[i].bytes} : i \in places}

\* Which pairs these are.
LEMMA UnitsAre ==
  ASSUME NEW s, NEW P, NEW z
  PROVE  z \in Units(s, P) <=> \E i \in P : \E b \in 1..s[i].bytes : z = <<i, b>>
BY DEF Units

\* There are finitely many.
LEMMA UnitsFinite ==
  ASSUME NEW s, NEW P, IsFiniteSet(P), \A i \in P : s[i].bytes \in Nat
  PROVE  IsFiniteSet(Units(s, P)) /\ Bytes(s, P) = Cardinality(Units(s, P)) /\ Bytes(s, P) \in Nat
<1>1. PICK f : f = [i \in P |-> {<<i, b>> : b \in 1..s[i].bytes}]
  OBVIOUS
<1>2. PICK T : T = {{<<i, b>> : b \in 1..s[i].bytes} : i \in P}
  OBVIOUS
<1>3. f \in [P -> T] /\ \A t \in T : \E i \in P : f[i] = t
  BY <1>1, <1>2
<1>4. f \in Surjection(P, T)
  BY <1>3 DEF Surjection
<1>5. IsFiniteSet(T)
  BY <1>4, FS_Surjection
<1>6. ASSUME NEW t \in T PROVE IsFiniteSet(t)
  <2>1. PICK i \in P : t = {<<i, b>> : b \in 1..s[i].bytes}
    BY <1>2
  <2>2. PICK k : k = s[i].bytes
    OBVIOUS
  <2>3. k \in Nat
    BY <2>2
  <2>4. PICK U : U = 1..k
    OBVIOUS
  <2>5. IsFiniteSet(U)
    BY <2>3, <2>4, FS_Interval
  <2>6. PICK V : V = P \X U
    OBVIOUS
  <2>7. IsFiniteSet(V)
    BY <2>5, <2>6, FS_Product
  <2>8. t \subseteq V
    BY <2>1, <2>2, <2>4, <2>6
  <2>. QED  BY <2>7, <2>8, FS_Subset
<1>7. IsFiniteSet(UNION T)
  BY <1>5, <1>6, FS_UNION
<1>8. Units(s, P) = UNION T /\ Bytes(s, P) = Cardinality(UNION T)
  BY <1>2, Zenon DEF Units, Bytes
<1>. QED  BY <1>7, <1>8, FS_CardinalityType

\* Two lists with the same bytes at these positions.
LEMMA SameBytes ==
  ASSUME NEW s, NEW t, NEW P, \A i \in P : s[i].bytes = t[i].bytes
  PROVE  Bytes(s, P) = Bytes(t, P)
<1>1. {{<<i, b>> : b \in 1..s[i].bytes} : i \in P} = {{<<i, b>> : b \in 1..t[i].bytes} : i \in P}
  OBVIOUS
<1>. QED  BY <1>1, Zenon DEF Bytes

\* The bytes of the latest uploads and of one more are at most those of the events they were,
\* and its own.
LEMMA BytesOfLatest ==
  ASSUME NEW s, NEW t, NEW g \in Nat, NEW k \in Nat, NEW x \in Nat,
         \A i \in 1..k : t[i].bytes \in Nat /\ s[g + i].bytes = t[i].bytes,
         NEW l, l = g + k + 1, s[l].bytes = x,
         NEW P, P \subseteq (g + 1)..l
  PROVE  Bytes(s, P) <= Bytes(t, 1..k) + x
<1>1. PICK K : K = 1..k
  OBVIOUS
<1>2. PICK L : L = (g + 1)..(g + k)
  OBVIOUS
<1>3. IsFiniteSet(K) /\ IsFiniteSet(L) /\ IsFiniteSet(P)
  <2>1. k \in Int /\ g + 1 \in Int /\ g + k \in Int /\ l \in Int
    OBVIOUS
  <2>2. IsFiniteSet(1..k) /\ IsFiniteSet((g + 1)..(g + k)) /\ IsFiniteSet((g + 1)..l)
    BY <2>1, FS_Interval
  <2>. QED  BY <1>1, <1>2, <2>2, FS_Subset
<1>4. \A j \in L : j - g \in K /\ s[j].bytes = t[j - g].bytes /\ s[j].bytes \in Nat
  <2>1. TAKE j \in L
  <2>2. PICK i : i = j - g
    OBVIOUS
  <2>3. i \in 1..k /\ g + i = j
    BY <1>2, <2>2
  <2>. QED  BY <1>1, <2>2, <2>3
<1>5. \A j \in P : j \in L \/ j = l
  BY <1>2
<1>6. \A j \in P : s[j].bytes \in Nat
  BY <1>4, <1>5
<1>7. PICK A : A = Units(s, P)
  OBVIOUS
<1>8. PICK Q : Q = Units(s, L)
  OBVIOUS
<1>9. PICK R : R = Units(s, {l})
  OBVIOUS
<1>10. PICK B : B = Units(t, K)
  OBVIOUS
<1>11. /\ IsFiniteSet(A) /\ Bytes(s, P) = Cardinality(A)
       /\ IsFiniteSet(B) /\ Bytes(t, K) = Cardinality(B)
       /\ IsFiniteSet(Q) /\ IsFiniteSet(R)
  <2>1. IsFiniteSet(A) /\ Bytes(s, P) = Cardinality(A)
    BY <1>3, <1>6, <1>7, UnitsFinite
  <2>2. IsFiniteSet(B) /\ Bytes(t, K) = Cardinality(B)
    BY <1>1, <1>3, <1>10, UnitsFinite
  <2>3. IsFiniteSet(Q)
    BY <1>3, <1>4, <1>8, UnitsFinite
  <2>4. IsFiniteSet({l}) /\ \A j \in {l} : s[j].bytes \in Nat
    BY FS_Singleton
  <2>5. IsFiniteSet(R)
    BY <1>9, <2>4, UnitsFinite
  <2>. QED  BY <2>1, <2>2, <2>3, <2>5
<1>12. A \subseteq Q \cup R
  <2>1. ASSUME NEW z \in A PROVE z \in Q \cup R
    <3>1. PICK i \in P : \E b \in 1..s[i].bytes : z = <<i, b>>
      BY <1>7, <2>1 DEF Units
    <3>2. CASE i \in L
      <4>1. z \in Q
        BY <1>8, <3>1, <3>2, UnitsAre
      <4>. QED  BY <4>1
    <3>3. CASE i = l
      <4>1. i \in {l}
        BY <3>3
      <4>2. z \in R
        BY <1>9, <3>1, <4>1, UnitsAre
      <4>. QED  BY <4>2
    <3>. QED  BY <1>5, <3>2, <3>3
  <2>. QED  BY <2>1
<1>13. Cardinality(Q) <= Cardinality(B)
  <2>1. PICK F : F = [z \in Q |-> <<z[1] - g, z[2]>>]
    OBVIOUS
  <2>2. \A z \in Q : \E i \in L : \E b \in 1..s[i].bytes : z = <<i, b>>
    BY <1>8, UnitsAre
  <2>3. ASSUME NEW z \in Q PROVE F[z] \in B
    <3>1. PICK i \in L : \E b \in 1..s[i].bytes : z = <<i, b>>
      BY <2>2
    <3>2. PICK b \in 1..s[i].bytes : z = <<i, b>>
      BY <3>1
    <3>3. PICK j : j = i - g
      OBVIOUS
    <3>4. j \in K /\ b \in 1..t[j].bytes /\ F[z] = <<j, b>>
      BY <1>4, <2>1, <3>2, <3>3
    <3>. QED  BY <1>10, <3>4, UnitsAre
  <2>4. ASSUME NEW y \in Q, NEW z \in Q, F[y] = F[z] PROVE y = z
    <3>1. PICK i \in L : \E b \in 1..s[i].bytes : y = <<i, b>>
      BY <2>2
    <3>2. PICK b \in 1..s[i].bytes : y = <<i, b>>
      BY <3>1
    <3>3. PICK j \in L : \E c \in 1..s[j].bytes : z = <<j, c>>
      BY <2>2
    <3>4. PICK c \in 1..s[j].bytes : z = <<j, c>>
      BY <3>3
    <3>5. i - g = j - g /\ b = c
      BY <2>1, <2>4, <3>2, <3>4
    <3>6. i \in Nat /\ j \in Nat
      BY <1>2
    <3>. QED  BY <3>2, <3>4, <3>5, <3>6
  <2>5. F \in [Q -> B] /\ \A y, z \in Q : F[y] = F[z] => y = z
    BY <2>1, <2>3, <2>4
  <2>6. F \in Injection(Q, B)
    BY <2>5 DEF Injection, IsInjective
  <2>. QED  BY <1>11, <2>6, FS_Injection
<1>14. Cardinality(R) <= x
  <2>1. PICK X : X = 1..x
    OBVIOUS
  <2>2. IsFiniteSet(X) /\ Cardinality(X) = x
    <3>1. x \in Int /\ IsFiniteSet(1..x) /\ Cardinality(1..x) = IF 1 > x THEN 0 ELSE x - 1 + 1
      BY FS_Interval
    <3>. QED  BY <2>1, <3>1
  <2>3. PICK F : F = [z \in R |-> z[2]]
    OBVIOUS
  <2>4. ASSUME NEW z \in R PROVE \E b \in X : z = <<l, b>>
    <3>1. PICK i \in {l} : \E b \in 1..s[i].bytes : z = <<i, b>>
      BY <1>9, <2>4, UnitsAre
    <3>. QED  BY <2>1, <3>1
  <2>5. F \in [R -> X] /\ \A y, z \in R : F[y] = F[z] => y = z
    BY <2>3, <2>4
  <2>6. F \in Injection(R, X)
    BY <2>5 DEF Injection, IsInjective
  <2>. QED  BY <2>2, <2>6, FS_Injection
<1>15. PICK V : V = Q \cup R
  OBVIOUS
<1>16. /\ IsFiniteSet(V)
       /\ Cardinality(V) = Cardinality(Q) + Cardinality(R) - Cardinality(Q \cap R)
  BY <1>11, <1>15, FS_Union
<1>17. IsFiniteSet(Q \cap R)
  BY <1>11, FS_Intersection
<1>18. Cardinality(A) <= Cardinality(V)
  BY <1>12, <1>15, <1>16, FS_Subset
<1>19. /\ Cardinality(A) \in Nat /\ Cardinality(B) \in Nat /\ Cardinality(Q) \in Nat
       /\ Cardinality(R) \in Nat /\ Cardinality(V) \in Nat /\ Cardinality(Q \cap R) \in Nat
  BY <1>11, <1>16, <1>17, FS_CardinalityType
<1>20. Cardinality(A) <= Cardinality(B) + x
  BY <1>13, <1>14, <1>16, <1>18, <1>19
<1>. QED  BY <1>1, <1>11, <1>20

\* A list of uploads that is longer.
LEMMA UploadAdded ==
  ASSUME NEW n \in Nat, n = Len(uploads), NEW s, s = uploads', NEW i \in 1..n,
         i \in DOMAIN uploads,
         \A j \in 1..n : s[j] = uploads[j], BudgetsHold
  PROVE  LET before(span) == {j \in 1..i : s[i].at - s[j].at < span}
             policy == s[i].policy
         IN  /\ Cardinality(before(Minute)) <= policy.per_minute
             /\ Cardinality(before(Hour)) <= policy.per_hour
             /\ Bytes(s, before(Hour)) <= policy.bytes_per_hour
<1>1. \A j \in 1..i : j \in 1..n
  OBVIOUS
<1>2. PICK M : M = {j \in 1..i : uploads[i].at - uploads[j].at < Minute}
  OBVIOUS
<1>3. PICK H : H = {j \in 1..i : uploads[i].at - uploads[j].at < Hour}
  OBVIOUS
<1>4. M = {j \in 1..i : s[i].at - s[j].at < Minute} /\ H = {j \in 1..i : s[i].at - s[j].at < Hour}
  BY <1>1, <1>2, <1>3
<1>5. /\ Cardinality(M) <= uploads[i].policy.per_minute
      /\ Cardinality(H) <= uploads[i].policy.per_hour
      /\ Bytes(uploads, H) <= uploads[i].policy.bytes_per_hour
  BY <1>2, <1>3, Zenon DEF BudgetsHold
<1>6. Bytes(s, H) = Bytes(uploads, H)
  <2>1. \A j \in H : s[j].bytes = uploads[j].bytes
    BY <1>1, <1>3
  <2>. QED  BY <2>1, SameBytes
<1>. QED  BY <1>4, <1>5, <1>6

\* An upload that is admitted, within its policy.
LEMMA AdmitUploadKeeps ==
  ASSUME UpldInv, NEW u \in Uploaders, NEW b \in Sizes, NEW p \in Policies, AdmitUpload(u, b, p)
  PROVE  UpldInv'
<1>1. PICK kept : kept = OfLastHour
  OBVIOUS
<1>2. PICK k : k = Len(kept)
  OBVIOUS
<1>3. PICK n : n = Len(uploads)
  OBVIOUS
<1>4. PICK x : x = [at |-> moment, bytes |-> b, policy |-> p]
  OBVIOUS
<1>5. PICK e : e = [at |-> moment, bytes |-> b]
  OBVIOUS
<1>6. /\ u \notin uploading /\ slots < p.max_concurrent
      /\ Cardinality(Since(kept, moment, Minute)) < p.per_minute /\ k < p.per_hour
      /\ Bytes(kept, DOMAIN kept) + b <= p.bytes_per_hour
      /\ slots' = slots + 1 /\ events' = Append(kept, e) /\ uploading' = uploading \cup {u}
      /\ uploads' = Append(uploads, x) /\ moment' = moment
  BY <1>1, <1>2, <1>4, <1>5, Zenon DEF AdmitUpload, Take, WithinBudget
<1>7. UpldTypeOK /\ SlotsAreInFlight /\ EventsAreLatest /\ BudgetsHold
  BY DEF UpldInv
<1>8. PICK g : g = n - k
  OBVIOUS
<1>9. /\ kept \in Seq(Event) /\ k <= Len(events)
      /\ \A i \in 1..k : kept[i].at = uploads[g + i].at /\ kept[i].bytes = uploads[g + i].bytes
      /\ \A i \in 1..g : moment - uploads[i].at >= Hour
  BY <1>1, <1>2, <1>3, <1>7, <1>8, LastHourIsLatest
<1>10. /\ k \in Nat /\ n \in Nat /\ k <= n /\ g \in Nat /\ g + k = n
       /\ uploads \in Seq(Took) /\ DOMAIN uploads = 1..n /\ moment \in Nat
       /\ DOMAIN kept = 1..k
  <2>1. k \in Nat /\ DOMAIN kept = 1..k
    BY <1>2, <1>9
  <2>. QED  BY <1>3, <1>7, <1>8, <1>9, <2>1, UpldFacts
<1>11. /\ \A i \in 1..n : uploads[i].at \in 0..moment /\ uploads[i].bytes \in Nat
       /\ \A i, j \in 1..n : i <= j => uploads[i].at <= uploads[j].at
  <2>1. Latest(n, Len(events))
    BY <1>3, <1>7, LatestFacts
  <2>2. \A i, j \in 1..n : i <= j => uploads[i].at <= uploads[j].at
    BY <2>1 DEF Latest
  <2>. QED  BY <1>3, <1>7, <2>2, UpldFacts
<1>12. x \in Took /\ e \in Event /\ b \in Nat /\ x.at = moment /\ x.bytes = b /\ x.policy = p
       /\ e.at = moment /\ e.bytes = b
  BY <1>4, <1>5, <1>10, UpldNumbers DEF Took, Event
<1>13. PICK s : s = uploads'
  OBVIOUS
<1>14. PICK h : h = events'
  OBVIOUS
<1>15. s \in Seq(Took) /\ Len(s) = n + 1 /\ s[n + 1] = x /\ \A i \in 1..n : s[i] = uploads[i]
  BY <1>3, <1>6, <1>10, <1>12, <1>13, ElementAdded
<1>16. h \in Seq(Event) /\ Len(h) = k + 1 /\ h[k + 1] = e /\ \A i \in 1..k : h[i] = kept[i]
  BY <1>2, <1>6, <1>9, <1>12, <1>14, ElementAdded
<1>17. DOMAIN s = 1..(n + 1) /\ DOMAIN h = 1..(k + 1)
  BY <1>10, <1>15, <1>16
<1>18. slots \in Nat /\ IsFiniteSet(uploading) /\ uploading \subseteq Uploaders
       /\ slots = Cardinality(uploading)
  BY <1>7 DEF UpldTypeOK, SlotsAreInFlight
<1>19. UpldTypeOK'
  <2>1. IsFiniteSet(uploading') /\ uploading' \subseteq Uploaders /\ slots' \in Nat
    BY <1>6, <1>18, FS_AddElement
  <2>2. k + 1 <= n + 1
    BY <1>10
  <2>3. moment \in 0..MaxMoment
    BY <1>7 DEF UpldTypeOK
  <2>. QED  BY <1>6, <1>13, <1>14, <1>15, <1>16, <2>1, <2>2, <2>3 DEF UpldTypeOK, Took, Event
<1>20. SlotsAreInFlight'
  <2>1. Cardinality(uploading') = Cardinality(uploading) + 1
    BY <1>6, <1>18, FS_AddElement
  <2>2. slots' = Cardinality(uploading')
    BY <1>6, <1>18, <2>1
  <2>3. slots' <= p.max_concurrent
    BY <1>6, <1>18, UpldNumbers
  <2>. QED  BY <2>2, <2>3 DEF SlotsAreInFlight
<1>21. EventsAreLatest'
  <2>1. Len(s) - Len(h) = g
    BY <1>8, <1>10, <1>15, <1>16
  <2>2. ASSUME NEW i \in 1..(k + 1) PROVE h[i].at = s[g + i].at /\ h[i].bytes = s[g + i].bytes
    <3>1. CASE i = k + 1
      <4>1. g + i = n + 1
        BY <1>10, <3>1
      <4>. QED  BY <1>12, <1>15, <1>16, <3>1, <4>1
    <3>2. CASE i # k + 1
      <4>1. i \in 1..k /\ g + i \in 1..n
        BY <1>10, <3>2
      <4>. QED  BY <1>9, <1>15, <1>16, <4>1
    <3>. QED  BY <3>1, <3>2
  <2>3. ASSUME NEW i \in 1..g PROVE moment - s[i].at >= Hour
    <3>1. i \in 1..n
      BY <1>10
    <3>. QED  BY <1>9, <1>15, <3>1
  <2>4. ASSUME NEW i \in 1..(n + 1), NEW j \in 1..(n + 1), i <= j PROVE s[i].at <= s[j].at
    <3>1. CASE j = n + 1
      <4>1. i = n + 1 \/ i \in 1..n
        BY <1>10
      <4>2. s[i].at \in 0..moment
        BY <1>10, <1>11, <1>12, <1>15, <4>1
      <4>. QED  BY <1>10, <1>12, <1>15, <3>1, <4>2
    <3>2. CASE j # n + 1
      <4>1. i \in 1..n /\ j \in 1..n
        BY <1>10, <2>4, <3>2
      <4>. QED  BY <1>11, <1>15, <2>4, <4>1
    <3>. QED  BY <3>1, <3>2
  <2>. QED  BY <1>6, <1>13, <1>14, <1>17, <2>1, <2>2, <2>3, <2>4 DEF EventsAreLatest
<1>22. PICK M : M = {j \in 1..(n + 1) : moment - s[j].at < Minute}
  OBVIOUS
<1>23. PICK H : H = {j \in 1..(n + 1) : moment - s[j].at < Hour}
  OBVIOUS
<1>24. M \subseteq H /\ H \subseteq (g + 1)..(n + 1)
  <2>1. \A j \in 1..(n + 1) : s[j].at \in 0..moment
    <3>1. TAKE j \in 1..(n + 1)
    <3>2. j = n + 1 \/ j \in 1..n
      BY <1>10
    <3>. QED  BY <1>10, <1>11, <1>12, <1>15, <3>2
  <2>2. \A j \in M : j \in H
    BY <1>10, <1>22, <1>23, <2>1, UpldNumbers
  <2>3. ASSUME NEW j \in H PROVE j \in (g + 1)..(n + 1)
    <3>1. j \in 1..(n + 1) /\ moment - s[j].at < Hour /\ s[j].at \in 0..moment
      BY <1>23, <2>1
    <3>2. ~(j \in 1..g)
      <4>1. ASSUME j \in 1..g PROVE FALSE
        <5>1. j \in 1..n
          BY <1>10, <4>1
        <5>2. moment - s[j].at >= Hour
          BY <1>9, <1>15, <4>1, <5>1
        <5>. QED  BY <1>10, <3>1, <5>2, UpldNumbers
      <4>. QED  BY <4>1
    <3>. QED  BY <1>10, <3>1, <3>2
  <2>. QED  BY <2>2, <2>3
<1>25. Cardinality(H) <= p.per_hour
  <2>1. PICK I : I = (g + 1)..(n + 1)
    OBVIOUS
  <2>2. IsFiniteSet(I) /\ Cardinality(I) = k + 1
    <3>1. PICK a : a = g + 1
      OBVIOUS
    <3>2. PICK z : z = n + 1
      OBVIOUS
    <3>3. a \in Int /\ z \in Int /\ I = a..z /\ a <= z /\ z - a + 1 = k + 1
      BY <1>10, <2>1, <3>1, <3>2
    <3>4. IsFiniteSet(a..z) /\ Cardinality(a..z) = IF a > z THEN 0 ELSE z - a + 1
      BY <3>3, FS_Interval
    <3>. QED  BY <3>3, <3>4
  <2>3. IsFiniteSet(H) /\ Cardinality(H) <= Cardinality(I)
    BY <1>24, <2>1, <2>2, FS_Subset
  <2>4. Cardinality(H) \in Nat
    BY <2>3, FS_CardinalityType
  <2>. QED  BY <1>6, <1>10, <2>2, <2>3, <2>4, UpldNumbers
<1>26. Cardinality(M) <= p.per_minute
  <2>1. PICK Z : Z = Since(kept, moment, Minute)
    OBVIOUS
  <2>2. Z \subseteq 1..k /\ \A i \in 1..k : i \in Z <=> moment - kept[i].at < Minute
    BY <1>10, <2>1 DEF Since
  <2>3. PICK T : T = Z \cup {k + 1}
    OBVIOUS
  <2>4. IsFiniteSet(T) /\ Cardinality(T) <= Cardinality(Z) + 1 /\ Cardinality(Z) \in Nat
    <3>1. IsFiniteSet(1..k)
      BY <1>10, FS_Interval
    <3>2. IsFiniteSet(Z)
      BY <2>2, <3>1, FS_Subset
    <3>3. IsFiniteSet(T) /\ Cardinality(T) = IF k + 1 \in Z THEN Cardinality(Z)
               ELSE Cardinality(Z) + 1
      BY <2>3, <3>2, FS_AddElement
    <3>4. Cardinality(Z) \in Nat
      BY <3>2, FS_CardinalityType
    <3>. QED  BY <3>3, <3>4
  <2>5. PICK F : F = [j \in M |-> j - g]
    OBVIOUS
  <2>6. ASSUME NEW j \in M PROVE j - g \in T
    <3>1. j \in (g + 1)..(n + 1) /\ moment - s[j].at < Minute
      BY <1>22, <1>24
    <3>2. CASE j = n + 1
      <4>1. j - g = k + 1
        BY <1>10, <3>2
      <4>. QED  BY <2>3, <4>1
    <3>3. CASE j # n + 1
      <4>1. PICK i : i = j - g
        OBVIOUS
      <4>2. i \in 1..k /\ j \in 1..n /\ g + i = j
        BY <1>10, <3>1, <3>3, <4>1
      <4>3. kept[i].at = s[j].at
        BY <1>9, <1>15, <4>2
      <4>4. i \in Z
        BY <2>2, <3>1, <4>2, <4>3
      <4>. QED  BY <2>3, <4>1, <4>4
    <3>. QED  BY <3>2, <3>3
  <2>7. F \in [M -> T] /\ \A i, j \in M : F[i] = F[j] => i = j
    <3>1. \A j \in M : j \in Nat
      BY <1>10, <1>22
    <3>2. \A i, j \in M : i - g = j - g => i = j
      BY <1>10, <3>1
    <3>. QED  BY <2>5, <2>6, <3>2
  <2>8. F \in Injection(M, T)
    BY <2>7 DEF Injection, IsInjective
  <2>9. IsFiniteSet(M) /\ Cardinality(M) <= Cardinality(T)
    BY <2>4, <2>8, FS_Injection
  <2>10. Cardinality(M) \in Nat /\ Cardinality(T) \in Nat
    BY <2>4, <2>9, FS_CardinalityType
  <2>11. Cardinality(Z) < p.per_minute
    BY <1>6, <2>1
  <2>. QED  BY <2>4, <2>9, <2>10, <2>11, UpldNumbers
<1>27. Bytes(s, H) <= p.bytes_per_hour
  <2>1. PICK l : l = n + 1
    OBVIOUS
  <2>2. l = g + k + 1 /\ s[l].bytes = b /\ H \subseteq (g + 1)..l
    BY <1>10, <1>12, <1>15, <1>24, <2>1
  <2>3. \A i \in 1..k : kept[i].bytes \in Nat /\ s[g + i].bytes = kept[i].bytes
    <3>1. TAKE i \in 1..k
    <3>2. g + i \in 1..n
      BY <1>10
    <3>. QED  BY <1>9, <1>11, <1>15, <3>2
  <2>4. Bytes(s, H) <= Bytes(kept, 1..k) + b
    BY <1>10, <1>12, <2>2, <2>3, BytesOfLatest
  <2>5. Bytes(s, H) \in Nat /\ Bytes(kept, 1..k) \in Nat
    <3>1. IsFiniteSet(1..k) /\ IsFiniteSet(1..l)
      BY <1>10, <2>1, FS_Interval
    <3>2. H \subseteq 1..l
      BY <1>23, <2>1
    <3>3. IsFiniteSet(H)
      BY <3>1, <3>2, FS_Subset
    <3>4. \A j \in H : s[j].bytes \in Nat
      <4>1. TAKE j \in H
      <4>2. j = l \/ j \in 1..n
        BY <1>10, <2>1, <3>2
      <4>. QED  BY <1>11, <1>12, <1>15, <2>2, <4>2
    <3>. QED  BY <2>3, <3>1, <3>3, <3>4, UnitsFinite
  <2>6. Bytes(kept, 1..k) + b <= p.bytes_per_hour
    BY <1>6, <1>10
  <2>. QED  BY <1>12, <2>4, <2>5, <2>6, UpldNumbers
<1>28. BudgetsHold'
  <2>1. ASSUME NEW i \in 1..(n + 1)
        PROVE  /\ Cardinality({j \in 1..i : s[i].at - s[j].at < Minute}) <= s[i].policy.per_minute
               /\ Cardinality({j \in 1..i : s[i].at - s[j].at < Hour}) <= s[i].policy.per_hour
               /\ Bytes(s, {j \in 1..i : s[i].at - s[j].at < Hour}) <= s[i].policy.bytes_per_hour
    <3>1. CASE i = n + 1
      <4>1. s[i].at = moment /\ s[i].policy = p
        BY <1>12, <1>15, <3>1
      <4>2. M = {j \in 1..i : s[i].at - s[j].at < Minute}
                 /\ H = {j \in 1..i : s[i].at - s[j].at < Hour}
        BY <1>22, <1>23, <3>1, <4>1
      <4>. QED  BY <1>25, <1>26, <1>27, <4>1, <4>2
    <3>2. CASE i # n + 1
      <4>1. i \in 1..n /\ i \in DOMAIN uploads
        BY <1>10, <3>2
      <4>. QED  BY <1>3, <1>7, <1>10, <1>13, <1>15, <4>1, UploadAdded
    <3>. QED  BY <3>1, <3>2
  <2>. QED  BY <1>13, <1>17, <2>1, Zenon DEF BudgetsHold
<1>. QED  BY <1>19, <1>20, <1>21, <1>28 DEF UpldInv

\* A refusal forgets what is older than an hour all the same.
LEMMA RefuseUploadKeeps ==
  ASSUME UpldInv, NEW b \in Sizes, NEW p \in Policies, RefuseUpload(b, p)
  PROVE  UpldInv'
<1>1. PICK kept : kept = OfLastHour
  OBVIOUS
<1>2. PICK k : k = Len(kept)
  OBVIOUS
<1>3. PICK n : n = Len(uploads)
  OBVIOUS
<1>4. events' = kept /\ UNCHANGED <<moment, slots, uploading, uploads>>
  BY <1>1, Zenon DEF RefuseUpload
<1>5. UpldTypeOK /\ SlotsAreInFlight /\ EventsAreLatest /\ BudgetsHold
  BY DEF UpldInv
<1>6. /\ kept \in Seq(Event) /\ k <= Len(events)
      /\ \A i \in 1..k : kept[i].at = uploads[(n - k) + i].at
           /\ kept[i].bytes = uploads[(n - k) + i].bytes
      /\ \A i \in 1..(n - k) : moment - uploads[i].at >= Hour
  BY <1>1, <1>2, <1>3, <1>5, LastHourIsLatest
<1>7. n \in Nat /\ k \in Nat /\ k <= n /\ DOMAIN uploads = 1..n /\ DOMAIN kept = 1..k
  <2>1. k \in Nat /\ DOMAIN kept = 1..k
    BY <1>2, <1>6
  <2>. QED  BY <1>3, <1>5, <1>6, <2>1, UpldFacts
<1>8. \A i, j \in DOMAIN uploads : i <= j => uploads[i].at <= uploads[j].at
  BY <1>5 DEF EventsAreLatest
<1>9. UpldTypeOK'
  BY <1>2, <1>3, <1>4, <1>5, <1>6, <1>7 DEF UpldTypeOK, Event
<1>10. EventsAreLatest'
  BY <1>2, <1>3, <1>4, <1>6, <1>7, <1>8 DEF EventsAreLatest
<1>11. SlotsAreInFlight' /\ BudgetsHold'
  BY <1>4, <1>5 DEF SlotsAreInFlight, BudgetsHold
<1>. QED  BY <1>9, <1>10, <1>11 DEF UpldInv

\* A guard is dropped.
LEMMA DropGuardKeeps ==
  ASSUME UpldInv, NEW u \in Uploaders, DropGuard(u)
  PROVE  UpldInv'
<1>1. /\ u \in uploading /\ uploading' = uploading \ {u}
      /\ slots' = (IF slots = 0 THEN 0 ELSE slots - 1) /\ UNCHANGED <<moment, events, uploads>>
  BY DEF DropGuard
<1>2. UpldTypeOK /\ SlotsAreInFlight /\ EventsAreLatest /\ BudgetsHold
  BY DEF UpldInv
<1>3. /\ slots \in Nat /\ IsFiniteSet(uploading) /\ uploading \subseteq Uploaders
      /\ slots = Cardinality(uploading) /\ (slots > 0
           => \E p \in Policies : slots <= p.max_concurrent)
  BY <1>2 DEF UpldTypeOK, SlotsAreInFlight
<1>4. slots # 0
  BY <1>1, <1>3, FS_EmptySet
<1>5. /\ IsFiniteSet(uploading') /\ Cardinality(uploading') = slots - 1
      /\ slots' = slots - 1 /\ slots' \in Nat /\ uploading' \subseteq Uploaders
  BY <1>1, <1>3, <1>4, FS_RemoveElement
<1>6. UpldTypeOK'
  BY <1>1, <1>2, <1>5 DEF UpldTypeOK
<1>7. SlotsAreInFlight'
  <2>1. PICK p \in Policies : slots <= p.max_concurrent
    BY <1>3, <1>4
  <2>2. slots' <= p.max_concurrent
    BY <1>3, <1>5, <2>1, UpldNumbers
  <2>. QED  BY <1>5, <2>2 DEF SlotsAreInFlight
<1>8. EventsAreLatest' /\ BudgetsHold'
  BY <1>1, <1>2 DEF EventsAreLatest, BudgetsHold
<1>. QED  BY <1>6, <1>7, <1>8 DEF UpldInv

\* Time passes.
LEMMA PassesKeeps ==
  ASSUME UpldInv, Passes
  PROVE  UpldInv'
<1>1. /\ moment < MaxMoment /\ moment' = moment + 1
      /\ UNCHANGED <<slots, events, uploading, uploads>>
  BY DEF Passes
<1>2. UpldTypeOK /\ SlotsAreInFlight /\ EventsAreLatest /\ BudgetsHold
  BY DEF UpldInv
<1>3. moment \in Nat /\ moment' \in 0..MaxMoment
  BY <1>1, <1>2, UpldNumbers DEF UpldTypeOK
<1>4. 0..moment \subseteq 0..moment'
  BY <1>1, <1>3
<1>5. /\ uploads \in Seq([at : 0..moment', bytes : Sizes, policy : Policies])
      /\ events \in Seq([at : 0..moment', bytes : Sizes])
  <2>1. PICK T : T = [at : 0..moment', bytes : Sizes, policy : Policies]
    OBVIOUS
  <2>2. PICK E : E = [at : 0..moment', bytes : Sizes]
    OBVIOUS
  <2>3. Took \subseteq T /\ Event \subseteq E
    BY <1>4, <2>1, <2>2 DEF Took, Event
  <2>4. uploads \in Seq(Took) /\ events \in Seq(Event)
    BY <1>2, UpldFacts
  <2>5. uploads \in Seq(T) /\ events \in Seq(E)
    BY <2>3, <2>4
  <2>. QED  BY <2>1, <2>2, <2>5
<1>6. UpldTypeOK'
  BY <1>1, <1>2, <1>3, <1>5 DEF UpldTypeOK
<1>7. EventsAreLatest'
  <2>1. PICK g : g = Len(uploads) - Len(events)
    OBVIOUS
  <2>2. \A i \in 1..g : moment - uploads[i].at >= Hour
    BY <1>2, <2>1 DEF EventsAreLatest
  <2>3. \A i \in 1..g : uploads[i].at \in 0..moment
    <3>1. \A i \in 1..g : i \in 1..Len(uploads)
      BY <1>2, <2>1, UpldFacts
    <3>. QED  BY <1>2, <3>1, UpldFacts
  <2>4. \A i \in 1..g : moment' - uploads[i].at >= Hour
    BY <1>1, <1>3, <2>2, <2>3, UpldNumbers
  <2>. QED  BY <1>1, <1>2, <2>1, <2>4 DEF EventsAreLatest
<1>8. SlotsAreInFlight' /\ BudgetsHold'
  BY <1>1, <1>2 DEF SlotsAreInFlight, BudgetsHold
<1>. QED  BY <1>6, <1>7, <1>8 DEF UpldInv

\* Nothing has been uploaded.
LEMMA UpldInitially == UpldInit => UpldInv
<1>. SUFFICES ASSUME UpldInit PROVE UpldInv
  OBVIOUS
<1>1. moment = 0 /\ slots = 0 /\ events = <<>> /\ uploading = {} /\ uploads = <<>>
  BY DEF UpldInit
<1>2. UpldTypeOK /\ SlotsAreInFlight
  BY <1>1, FS_EmptySet, UpldNumbers DEF UpldTypeOK, SlotsAreInFlight
<1>3. EventsAreLatest /\ BudgetsHold
  BY <1>1 DEF EventsAreLatest, BudgetsHold
<1>. QED  BY <1>2, <1>3 DEF UpldInv

\* Every step keeps the caps.
LEMMA UpldStep == UpldInv /\ [UpldNext]_upldVars => UpldInv'
<1>. SUFFICES ASSUME UpldInv, [UpldNext]_upldVars PROVE UpldInv'
  OBVIOUS
<1>1. CASE Passes
  BY <1>1, PassesKeeps
<1>2. ASSUME NEW u \in Uploaders, NEW b \in Sizes, NEW p \in Policies, AdmitUpload(u, b, p)
      PROVE  UpldInv'
  BY <1>2, AdmitUploadKeeps
<1>3. ASSUME NEW b \in Sizes, NEW p \in Policies, RefuseUpload(b, p) PROVE UpldInv'
  BY <1>3, RefuseUploadKeeps
<1>4. ASSUME NEW u \in Uploaders, DropGuard(u) PROVE UpldInv'
  BY <1>4, DropGuardKeeps
<1>5. CASE UNCHANGED upldVars
  BY <1>5 DEF upldVars, UpldInv, UpldTypeOK, SlotsAreInFlight, EventsAreLatest, BudgetsHold
<1>. QED  BY <1>1, <1>2, <1>3, <1>4, <1>5 DEF UpldNext

\* The slots taken are the uploads in flight, and no upload exceeds the uploads per minute, the
\* uploads per hour or the bytes per hour of its policy, for every set of policies (UpldInv).
THEOREM CapsHold == UpldSpec => []UpldInv
BY UpldInitially, UpldStep, PTL DEF UpldSpec

-----------------------------------------------------------------------------
(* Staff accounts together.                                                 *)

\* Each part runs by its own specification.
LEMMA PartsRun ==
  [Next]_vars => /\ [CredNext]_credVars /\ [MemberNext]_memberVars /\ [ProfileNext]_profileVars
                 /\ [PresenceNext]_presenceVars /\ [AlertNext]_alertVars
                 /\ [RateNext]_rateVars /\ [UpldNext]_upldVars
<1>1. ASSUME Next
      PROVE  /\ [CredNext]_credVars /\ [MemberNext]_memberVars /\ [ProfileNext]_profileVars
             /\ [PresenceNext]_presenceVars /\ [AlertNext]_alertVars
             /\ [RateNext]_rateVars /\ [UpldNext]_upldVars
  BY <1>1 DEF Next
<1>2. ASSUME UNCHANGED vars
      PROVE  UNCHANGED <<credVars, memberVars, profileVars, presenceVars, alertVars, rateVars,
                          upldVars>>
  BY <1>2 DEF vars
<1>. QED  BY <1>1, <1>2

\* Credentials, memberships, profiles, presence and alerts keep their invariants for every set of
\* teams, accounts, requests, visits and alerts (CredInv, MemberInv, AgentsInv, AlertInv), and a
\* departure or an undo ends as it should (MemberSteps).
THEOREM AccountsKeepTheirBooks ==
  Spec => [](CredInv /\ MemberInv /\ AgentsInv /\ AlertInv) /\ MemberSteps
<1>1. Init => CredInit /\ MemberInit /\ ProfileInit /\ PresenceInit /\ AlertInit
  BY DEF Init
<1>2. Spec => CredSpec /\ MemberSpec /\ ProfileSpec /\ PresenceSpec /\ AlertSpec
  BY <1>1, PartsRun, PTL DEF Spec, CredSpec, MemberSpec, ProfileSpec, PresenceSpec, AlertSpec
<1>3. ProfileInv /\ PresenceInv => AgentsInv
  BY DEF AgentsInv
<1>. QED
  BY <1>2, <1>3, CredentialsAreSound, MembershipsAreSound, MembershipsStepSoundly, EditsAreWhole,
     PresenceIsTold, AlertsAreAccounted, PTL

\* Nor does either limiter admit more than its policies allow, beside the rest (LimitsHold).
THEOREM LimitsAreKept == Spec => []LimitsHold
<1>1. Init => RateInit /\ UpldInit
  BY DEF Init
<1>2. Spec => RateSpec /\ UpldSpec
  BY <1>1, PartsRun, PTL DEF Spec, RateSpec, UpldSpec
<1>3. RateInv /\ UpldInv => LimitsHold
  BY DEF LimitsHold
<1>. QED
  BY <1>2, <1>3, WindowsHold, CapsHold, PTL
==============================================================================
