--------------------------- MODULE AutoReplyRules ---------------------------
(***************************************************************************)
(* The automatic replies' rules (domain/auto_reply).  A rule is a row with *)
(* conditions and actions in tables of their own, which the operators'     *)
(* handlers write one statement after the other; the engine reads a        *)
(* scope's rules, again statement by statement, and keeps what it read in  *)
(* a cache until its time is up or a handler throws it away.               *)
(***************************************************************************)
EXTENDS Naturals

CONSTANTS Rules,     \* the rules of one scope
          Editors,   \* requests that may be in flight together
          Messages,  \* inbound messages under evaluation together
          Parts,     \* conditions a request brings
          MaxEdits, MaxBroken   \* bounds: requests begun, statements that fail

ASSUME RulesAssumption ==
  /\ Rules \subseteq Nat \ {0} /\ Parts \subseteq Nat /\ Parts /= {}
  /\ MaxEdits \in Nat /\ MaxBroken \in Nat

VARIABLES
  rule,    \* r -> [state, active, conds, acts]: what is stored, each condition and
           \* action with the request it came with
  editing, \* e -> [rule, todo]: the statements a request still has to make
  cached,  \* [full, rules]: the scope's entry in RuleCache
  loading, \* m -> [at, todo, read, rules, late]: an evaluation that found no entry;
           \* late: a handler has thrown the entry away since
  late,    \* the entry was put by an evaluation that was late
  dirty,   \* a request has failed since the entry was last thrown away
  mixed,   \* rules two requests edited at once, or one left half written
  edits, broken

ruleVars == <<rule, editing, cached, loading, late, dirty, mixed, edits, broken>>

Unwritten == [state |-> "none", active |-> FALSE, conds |-> {}, acts |-> {}]
NoEdit == [rule |-> 0, todo |-> {}]
NotCached == [full |-> FALSE, rules |-> {}]
NotLoading == [at |-> "idle", todo |-> {}, read |-> 0, conds |-> {}, rules |-> {}, late |-> FALSE]

RulesInit ==
  /\ rule = [r \in Rules |-> Unwritten]
  /\ editing = [e \in Editors |-> NoEdit]
  /\ cached = NotCached /\ loading = [m \in Messages |-> NotLoading]
  /\ late = FALSE /\ dirty = FALSE /\ mixed = {} /\ edits = 0 /\ broken = 0

Editing(r) == {e \in Editors : editing[e].rule = r}

-----------------------------------------------------------------------------
(* The handlers.  A request makes its statements in the order of their     *)
(* numbers: the row, the conditions, the actions, and the cache last.      *)

SetActive(b) == <<1, IF b THEN 1 ELSE 0>>
ClearConds == <<2, 0>>
InsertCond(i) == <<3, i>>
ClearActs == <<4, 0>>
InsertAct == <<5, 0>>
Retire == <<6, 0>>
ThrowAway == <<7, 0>>

Conditions == {InsertCond(i) : i \in Parts}
Before(s, u) == s[1] < u[1] \/ (s[1] = u[1] /\ s[2] < u[2])

EditAsked(e, r, todo) ==
  /\ editing[e] = NoEdit /\ edits < MaxEdits /\ edits' = edits + 1
  /\ editing' = [editing EXCEPT ![e] = [rule |-> r, todo |-> todo \cup {ThrowAway}]]
  /\ mixed' = IF Editing(r) = {} THEN mixed ELSE mixed \cup {r}
  /\ UNCHANGED <<cached, loading, late, dirty, broken>>

CreateRule(e, r) ==
  /\ rule[r].state = "none"
  /\ \E active \in BOOLEAN :
       rule' = [rule EXCEPT ![r] = [state |-> "live", active |-> active, conds |-> {}, acts |-> {}]]
  /\ EditAsked(e, r, Conditions \cup {InsertAct})

\* An array that is given replaces the whole set; what is not given is left alone.
ReplaceConds == {ClearConds} \cup Conditions
ReplaceActs == {ClearActs, InsertAct}
UpdateRule(e, r, fields) ==
  /\ rule[r].state = "live"
  /\ \E active \in BOOLEAN :
       EditAsked(e, r, (IF "active" \in fields THEN {SetActive(active)} ELSE {})
                       \cup (IF "conds" \in fields THEN ReplaceConds ELSE {})
                       \cup (IF "acts" \in fields THEN ReplaceActs ELSE {}))
  /\ UNCHANGED rule

DeleteRule(e, r) ==
  /\ rule[r].state = "live"
  /\ EditAsked(e, r, {Retire})
  /\ UNCHANGED rule

\* What one statement of request e makes of the rule.
RuleWritten(e, s, x) ==
  CASE s[1] = 1 -> [x EXCEPT !.active = (s = SetActive(TRUE))]
    [] s = ClearConds -> [x EXCEPT !.conds = {}]
    [] s[1] = 3 -> [x EXCEPT !.conds = @ \cup {<<e, s[2]>>}]
    [] s = ClearActs -> [x EXCEPT !.acts = {}]
    [] s = InsertAct -> [x EXCEPT !.acts = @ \cup {e}]
    [] s = Retire -> [x EXCEPT !.state = "deleted", !.active = FALSE]

IsNext(e, s) == \A u \in editing[e].todo : ~Before(u, s)

WriteRule(e) ==
  \E s \in editing[e].todo \ {ThrowAway} :
    /\ IsNext(e, s)
    /\ rule' = [rule EXCEPT ![editing[e].rule] = RuleWritten(e, s, @)]
    /\ editing' = [editing EXCEPT ![e].todo = @ \ {s}]
    /\ UNCHANGED <<cached, loading, late, dirty, mixed, edits, broken>>

\* MUTANT of Invalidate: nothing is thrown away.
InvalidateNothing(e) ==
  /\ editing[e].todo = {ThrowAway}
  /\ editing' = [editing EXCEPT ![e] = NoEdit]
  /\ late' = FALSE /\ dirty' = FALSE
  /\ UNCHANGED <<rule, cached, loading, mixed, edits, broken>>

\* RuleCache::invalidate, and the answer: the request is over.
Invalidate(e) ==
  /\ editing[e].todo = {ThrowAway}
  /\ editing' = [editing EXCEPT ![e] = NoEdit]
  /\ cached' = NotCached /\ late' = FALSE /\ dirty' = FALSE
  /\ loading' = [m \in Messages |-> IF loading[m].at = "idle" THEN NotLoading
                                    ELSE [loading[m] EXCEPT !.late = TRUE]]
  /\ UNCHANGED <<rule, mixed, edits, broken>>

\* A statement fails: the ones before it stay, and nothing is thrown away.
WriteFails(e) ==
  /\ editing[e].todo \ {ThrowAway} /= {}
  /\ broken < MaxBroken /\ broken' = broken + 1
  /\ editing' = [editing EXCEPT ![e] = NoEdit]
  /\ dirty' = TRUE /\ mixed' = mixed \cup {editing[e].rule}
  /\ UNCHANGED <<rule, cached, loading, late, edits>>

-----------------------------------------------------------------------------
(* The engine: applicable_rules for a message.                             *)

Applicable == {r \in Rules : rule[r].state = "live" /\ rule[r].active}

\* load_scope: the rows, then each rule's conditions and its actions.
ReadRows(m) ==
  /\ ~cached.full /\ loading[m].at = "idle"
  /\ loading' = [loading EXCEPT ![m] = [NotLoading EXCEPT !.at = "rule", !.todo = Applicable]]
  /\ UNCHANGED <<rule, editing, cached, late, dirty, mixed, edits, broken>>

ReadConds(m) ==
  /\ loading[m].at = "rule"
  /\ \E r \in loading[m].todo :
       /\ \A q \in loading[m].todo : r <= q
       /\ loading' = [loading EXCEPT ![m] =
            [loading[m] EXCEPT !.at = "acts", !.read = r, !.conds = rule[r].conds]]
  /\ UNCHANGED <<rule, editing, cached, late, dirty, mixed, edits, broken>>

ReadActs(m) ==
  /\ loading[m].at = "acts"
  /\ LET l == loading[m]
         copy == [rule |-> l.read, conds |-> l.conds, acts |-> rule[l.read].acts]
     IN  loading' = [loading EXCEPT ![m] =
           [NotLoading EXCEPT !.at = "rule", !.todo = l.todo \ {l.read},
                              !.rules = l.rules \cup {copy}, !.late = l.late]]
  /\ UNCHANGED <<rule, editing, cached, late, dirty, mixed, edits, broken>>

PutRules(m) ==
  /\ loading[m].at = "rule" /\ loading[m].todo = {}
  /\ cached' = [full |-> TRUE, rules |-> loading[m].rules]
  /\ late' = loading[m].late
  /\ loading' = [loading EXCEPT ![m] = NotLoading]
  /\ UNCHANGED <<rule, editing, dirty, mixed, edits, broken>>

LoadFails(m) ==
  /\ loading[m].at /= "idle" /\ broken < MaxBroken /\ broken' = broken + 1
  /\ loading' = [loading EXCEPT ![m] = NotLoading]
  /\ UNCHANGED <<rule, editing, cached, late, dirty, mixed, edits>>

\* CACHE_TTL has passed since the entry was put.
EntryExpires ==
  /\ cached.full /\ cached' = NotCached /\ late' = FALSE
  /\ UNCHANGED <<rule, editing, loading, dirty, mixed, edits, broken>>

-----------------------------------------------------------------------------
RulesNext ==
  \/ \E e \in Editors :
       \/ \E r \in Rules :
            \/ CreateRule(e, r)
            \/ \E fields \in SUBSET {"active", "conds", "acts"} : UpdateRule(e, r, fields)
            \/ DeleteRule(e, r)
       \/ WriteRule(e)
       \/ Invalidate(e)
       \/ WriteFails(e)
  \/ \E m \in Messages :
       \/ ReadRows(m)
       \/ ReadConds(m)
       \/ ReadActs(m)
       \/ PutRules(m)
       \/ LoadFails(m)
  \/ EntryExpires

RulesSpec == RulesInit /\ [][RulesNext]_ruleVars

-----------------------------------------------------------------------------
RuleRows == [state : {"none", "live", "deleted"}, active : BOOLEAN,
             conds : SUBSET (Editors \X Parts), acts : SUBSET Editors]
Statements == {SetActive(b) : b \in BOOLEAN} \cup ReplaceConds \cup ReplaceActs \cup {Retire, ThrowAway}
Edits == {NoEdit} \cup [rule : Rules, todo : {t \in SUBSET Statements : ThrowAway \in t}]
Copies == [rule : Rules, conds : SUBSET (Editors \X Parts), acts : SUBSET Editors]
LoadRows == [at : {"idle", "rule", "acts"}, todo : SUBSET Rules, read : Rules \cup {0},
             conds : SUBSET (Editors \X Parts), rules : SUBSET Copies, late : BOOLEAN]
Loads == {l \in LoadRows : l.at = "acts" => l.read \in Rules}

RulesTypeOK ==
  /\ rule \in [Rules -> RuleRows] /\ editing \in [Editors -> Edits]
  /\ cached \in [full : BOOLEAN, rules : SUBSET Copies] /\ loading \in [Messages -> Loads]
  /\ late \in BOOLEAN /\ dirty \in BOOLEAN /\ mixed \subseteq Rules
  /\ edits \in 0..MaxEdits /\ broken \in 0..MaxBroken

\* A rule that is not live is switched off, and whoever edits it has nothing left to
\* write; a request that deletes writes nothing else.
RetiredIsOff(r) ==
  /\ rule[r].state /= "live" =>
       ~rule[r].active /\ \A e \in Editing(r) : editing[e].todo = {ThrowAway}
  /\ \A e \in Editing(r) : Retire \in editing[e].todo => editing[e].todo = {Retire, ThrowAway}

\* The conditions of a live rule: those of one request, or those its only editor has
\* written so far, the old ones being gone.
CondsOfOne(r) ==
  \/ /\ \A e \in Editing(r) : \A i \in Parts :
          InsertCond(i) \in editing[e].todo <=> ClearConds \in editing[e].todo
     /\ \E e \in Editors : rule[r].conds = {e} \X Parts
  \/ \E e \in Editing(r) :
       /\ ClearConds \notin editing[e].todo
       /\ rule[r].conds = {e} \X {i \in Parts : InsertCond(i) \notin editing[e].todo}

ActsOfOne(r) ==
  \/ /\ \A e \in Editing(r) : InsertAct \in editing[e].todo <=> ClearActs \in editing[e].todo
     /\ \E e \in Editors : rule[r].acts = {e}
  \/ \E e \in Editing(r) :
       ClearActs \notin editing[e].todo /\ InsertAct \in editing[e].todo /\ rule[r].acts = {}

\* "A supplied array is a wholesale replace, not a merge": a rule has the conditions of
\* one request and the action of one, or those its only editor has written so far,
\* unless two requests wrote it at once or one failed on the way.
RuleIsWhole ==
  \A r \in Rules \ mixed :
    /\ \A e, f \in Editing(r) : e = f
    /\ RetiredIsOff(r)
    /\ rule[r].state = "live" => CondsOfOne(r) /\ ActsOfOne(r)

Settled == ~dirty /\ \A e \in Editors : editing[e] = NoEdit
CopiesOf(S) == {[rule |-> r, conds |-> rule[r].conds, acts |-> rule[r].acts] : r \in S}

\* "Per-scope rule cache with explicit invalidation": once every edit is answered the
\* engine's rules are the stored ones, however reading and writing them interleaved, but
\* for an entry put by an evaluation that was reading when its predecessor was thrown
\* away, and for what a failed request wrote.
CachedIsCurrent == cached.full /\ ~late /\ Settled => cached.rules = CopiesOf(Applicable)

\* What an evaluation has read by then is what is stored.
LoadIsCurrent(m) ==
  LET l == loading[m]
  IN  Settled /\ l.at /= "idle" /\ ~l.late =>
        /\ l.todo \subseteq Applicable /\ l.rules = CopiesOf(Applicable \ l.todo)
        /\ l.at = "acts" => l.read \in l.todo /\ l.conds = rule[l.read].conds

\* A stored rule is of one making, and the engine's copy of the rules is current.
RulesInv ==
  RulesTypeOK /\ RuleIsWhole /\ CachedIsCurrent /\ \A m \in Messages : LoadIsCurrent(m)
=============================================================================
