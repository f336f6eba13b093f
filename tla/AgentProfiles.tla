--------------------------- MODULE AgentProfiles ---------------------------
(***************************************************************************)
(* The profiles and the skills of operators (domain/agents/handlers.rs).   *)
(* An update writes its fields by one UPDATE each, in a fixed order, and   *)
(* stops at the first that is refused or fails; nothing is taken back. A   *)
(* batch goes on to the next account and leaves the failed one out of its *)
(* answer. A new team is replace_memberships (Memberships).                *)
(***************************************************************************)
EXTENDS Naturals, Sequences, Functions, FiniteSets

CONSTANTS Accounts,         \* operators that exist at first
          Emails, SkillNames,
          Gone,             \* in place of the address of a deleted account
          Edits,            \* requests
          Wishes,           \* bound: the sets of fields requests ask for
          Batches,          \* bound: the lists of accounts they name, with repetitions
          MaxSlips          \* bound: failing statements

ASSUME AgentProfilesAssumption ==
  /\ Cardinality(Emails) > Cardinality(Accounts) /\ MaxSlips \in Nat
  /\ {} \notin Wishes /\ Gone \notin Emails /\ Batches \subseteq Seq(Accounts) \ {<<>>}

VARIABLES
  mailOf,    \* account -> its e-mail address, or Gone once deleted
  skills,    \* skill rows: [of, id, name]; the id is the request that added it
  teamLive,  \* the team that updates name exists
  edit,      \* request -> [at, kind, todo, left, want, bad, key, wrote]: the accounts left
             \* and the fields left for the first, the fields wanted, those that are invalid,
             \* the e-mail address or the skill, the <<account, field>> pairs written
  answer,    \* request -> the accounts it reports as updated
  slips

profileVars == <<mailOf, skills, teamLive, edit, answer, slips>>

ProfileOrder == <<"email", "fields", "team", "position">>
SkillOrder == <<"level", "description", "certified">>
Order(kind) == IF kind = "skill" THEN SkillOrder ELSE ProfileOrder
Fields(kind) == {Order(kind)[i] : i \in DOMAIN Order(kind)}
\* The place of the field that comes next.
IsNext(r, i) == /\ i \in DOMAIN Order(r.kind) /\ Order(r.kind)[i] \in r.left
                /\ \A j \in DOMAIN Order(r.kind) : Order(r.kind)[j] \in r.left => i <= j
NextField(r) == Order(r.kind)[CHOOSE i \in DOMAIN Order(r.kind) : IsNext(r, i)]
NoProfileEdit == [at |-> "new", kind |-> "one", todo |-> <<>>, left |-> {}, want |-> {}, bad |-> {},
                  key |-> Gone, wrote |-> {}]

ProfileInit ==
  /\ mailOf \in [Accounts -> Emails] /\ IsInjective(mailOf)
  /\ skills = {} /\ teamLive = TRUE /\ slips = 0
  /\ edit = [e \in Edits |-> NoProfileEdit] /\ answer = [e \in Edits |-> {}]

Put(e, r) == edit' = [edit EXCEPT ![e] = r]
Target(e) == Head(edit[e].todo)
Exists(e) == IF edit[e].kind = "skill" THEN \E s \in skills : s.id = edit[e].key
             ELSE mailOf[Target(e)] /= Gone
Held(m, a) == \E b \in Accounts \ {a} : mailOf[b] = m

-----------------------------------------------------------------------------
(* The requests, begun.                                                      *)

Arrives(e, kind, who, want, bad, key) ==
  /\ edit[e].at = "new"
  /\ Put(e, [NoProfileEdit EXCEPT !.at = "find", !.kind = kind, !.todo = who, !.want = want,
                           !.bad = bad, !.key = key])
  /\ UNCHANGED <<mailOf, skills, teamLive, answer, slips>>

UpdateAgent(e, a, want, m) == Arrives(e, "one", <<a>>, want, {}, m)
BatchUpdate(e, who, want, m) == Arrives(e, "batch", who, want, {}, m)
UpdateSkill(e, s, want, bad) ==
  /\ want \subseteq Fields("skill")
  /\ Arrives(e, "skill", <<s.of>>, want, bad, s.id)

\* A name taken by another skill is refused; the INSERT comes later.
AddSkill(e, a, n) ==
  /\ mailOf[a] /= Gone /\ ~ \E s \in skills : s.of = a /\ s.name = n
  /\ edit[e].at = "new"
  /\ Put(e, [NoProfileEdit EXCEPT !.at = "insert", !.kind = "add", !.todo = <<a>>, !.key = n])
  /\ UNCHANGED <<mailOf, skills, teamLive, answer, slips>>

-----------------------------------------------------------------------------
(* Their statements. A refusal ends the request, or goes on with the batch.  *)

NextTarget(e, r) ==
  Put(e, IF Len(r.todo) = 1 THEN [r EXCEPT !.at = "done", !.todo = <<>>]
         ELSE [r EXCEPT !.at = "find", !.todo = Tail(@), !.left = {}])
Refused(e) ==
  IF edit[e].kind = "batch" THEN NextTarget(e, edit[e])
  ELSE Put(e, [edit[e] EXCEPT !.at = "refused", !.todo = <<>>, !.left = {}])

FindTarget(e) ==
  /\ edit[e].at = "find"
  /\ IF Exists(e) THEN Put(e, [edit[e] EXCEPT !.at = "write", !.left = edit[e].want])
     ELSE Refused(e)
  /\ UNCHANGED <<mailOf, skills, teamLive, answer, slips>>

AtField(e) == edit[e].at = "write" /\ edit[e].left /= {}
\* UPDATE ... WHERE id: a row that is gone is passed over.
Written(e, f) ==
  [edit[e] EXCEPT !.at = "write", !.left = @ \ {f},
                  !.wrote = IF Exists(e) THEN @ \cup {<<Target(e), f>>} ELSE @]

\* The address is looked up, then written; the unique index has the last word.
CheckEmail(e) ==
  /\ AtField(e) /\ NextField(edit[e]) = "email"
  /\ IF Held(edit[e].key, Target(e)) THEN Refused(e)
     ELSE Put(e, [edit[e] EXCEPT !.at = "email"])
  /\ UNCHANGED <<mailOf, skills, teamLive, answer, slips>>
WriteEmail(e) ==
  /\ edit[e].at = "email"
  /\ IF Held(edit[e].key, Target(e)) /\ Exists(e)
     THEN Refused(e) /\ UNCHANGED mailOf
     ELSE /\ mailOf' = [mailOf EXCEPT ![Target(e)] = IF Exists(e) THEN edit[e].key ELSE @]
          /\ Put(e, Written(e, "email"))
  /\ UNCHANGED <<skills, teamLive, answer, slips>>

Unacceptable(e, f) == f \in edit[e].bad \/ (f = "team" /\ ~teamLive)

\* MUTANT of WriteField: an unacceptable field is passed over.
WriteFieldLenient(e) ==
  /\ AtField(e) /\ NextField(edit[e]) /= "email"
  /\ LET f == NextField(edit[e])
     IN  IF Unacceptable(e, f) THEN Put(e, [edit[e] EXCEPT !.left = @ \ {f}])
         ELSE Put(e, Written(e, f))
  /\ UNCHANGED <<mailOf, skills, teamLive, answer, slips>>

WriteField(e) ==
  /\ AtField(e) /\ NextField(edit[e]) /= "email"
  /\ LET f == NextField(edit[e])
     IN  IF Unacceptable(e, f) THEN Refused(e) ELSE Put(e, Written(e, f))
  /\ UNCHANGED <<mailOf, skills, teamLive, answer, slips>>

\* The row is read again and reported.
Reload(e) ==
  /\ edit[e].at = "write" /\ edit[e].left = {}
  /\ IF Exists(e)
     THEN /\ answer' = [answer EXCEPT ![e] = @ \cup {Target(e)}]
          /\ NextTarget(e, edit[e])
     ELSE Refused(e) /\ UNCHANGED answer
  /\ UNCHANGED <<mailOf, skills, teamLive, slips>>

\* UNIQUE(agent_id, name) and the reference to the account.
InsertSkill(e) ==
  /\ edit[e].at = "insert"
  /\ LET a == Target(e) IN
       IF mailOf[a] = Gone \/ \E s \in skills : s.of = a /\ s.name = edit[e].key
       THEN Refused(e) /\ UNCHANGED skills
       ELSE /\ skills' = skills \cup {[of |-> a, id |-> e, name |-> edit[e].key]}
            /\ NextTarget(e, edit[e])
  /\ UNCHANGED <<mailOf, teamLive, answer, slips>>

StatementSlips(e) ==
  /\ edit[e].at \notin {"new", "done", "refused"} /\ slips < MaxSlips
  /\ slips' = slips + 1 /\ Refused(e)
  /\ UNCHANGED <<mailOf, skills, teamLive, answer>>

DeleteSkill(s) == /\ skills' = skills \ {s}
                  /\ UNCHANGED <<mailOf, teamLive, edit, answer, slips>>

\* purge_member in one transaction: the rows of the account cascade.
DeleteAgent(a) ==
  /\ mailOf[a] /= Gone /\ mailOf' = [mailOf EXCEPT ![a] = Gone]
  /\ skills' = {s \in skills : s.of /= a}
  /\ UNCHANGED <<teamLive, edit, answer, slips>>

LoseTeam == teamLive /\ teamLive' = FALSE /\ UNCHANGED <<mailOf, skills, edit, answer, slips>>

ProfileNext ==
  \/ \E a \in Accounts : DeleteAgent(a)
  \/ \E s \in skills : DeleteSkill(s)
  \/ LoseTeam
  \/ \E e \in Edits :
       \/ \E want \in {w \in Wishes : w \subseteq Fields("one")}, m \in Emails :
            \/ \E a \in Accounts : UpdateAgent(e, a, want, m)
            \/ \E who \in Batches : BatchUpdate(e, who, want, m)
       \/ \E s \in skills, want \in Wishes : \E bad \in SUBSET want : UpdateSkill(e, s, want, bad)
       \/ \E a \in Accounts, n \in SkillNames : AddSkill(e, a, n)
       \/ FindTarget(e) \/ CheckEmail(e) \/ WriteEmail(e) \/ WriteField(e) \/ Reload(e)
       \/ InsertSkill(e) \/ StatementSlips(e)

ProfileSpec == ProfileInit /\ [][ProfileNext]_profileVars

-----------------------------------------------------------------------------
(* The types; a skill belongs to an account that exists (ON DELETE CASCADE).*)
Kinds == {"one", "batch", "skill", "add"}
AllFields == UNION {Fields(k) : k \in Kinds}
EditRows == [at : {"new", "find", "write", "email", "insert", "done", "refused"}, kind : Kinds,
             todo : Seq(Accounts), left : SUBSET AllFields, want : SUBSET AllFields, bad : SUBSET AllFields,
             key : Emails \cup SkillNames \cup Edits \cup {Gone}, wrote : SUBSET (Accounts \X AllFields)]
ProfileTypeOK ==
  /\ mailOf \in [Accounts -> Emails \cup {Gone}]
  /\ skills \subseteq [of : Accounts, id : Edits, name : SkillNames]
  /\ \A s \in skills : mailOf[s.of] /= Gone
  /\ edit \in [Edits -> EditRows] /\ answer \in [Edits -> SUBSET Accounts]
  /\ teamLive \in BOOLEAN /\ slips \in 0..MaxSlips

\* What a request asks for, by its kind, and what it has in hand in each state; a skill
\* comes from a request that is done, so one that is gone does not come back.
EditIsStaged(e) ==
  LET r == edit[e]
  IN  /\ r.at = "new" => r = NoProfileEdit /\ answer[e] = {}
      /\ r.at \in {"find", "write", "email", "insert"} => r.todo /= <<>>
      /\ r.at \in {"find", "write", "email"} =>
           /\ r.want \subseteq Fields(r.kind)
           /\ r.kind \in {"one", "batch"} => r.key \in Emails
           /\ r.kind = "skill" => r.key \in Edits /\ edit[r.key].at = "done"
           /\ r.kind /= "add"
      /\ r.at = "insert" => r.kind = "add" /\ r.key \in SkillNames /\ Len(r.todo) = 1
      /\ r.left \subseteq r.want
      /\ r.at = "email" => r.kind \in {"one", "batch"} /\ "email" \in r.left /\ NextField(r) = "email"
SkillsAreOfTheDone == \A s \in skills : edit[s.id].at = "done"

\* The fields of an account are written in their order, and those before the one at hand
\* have been, unless the row is gone; the account is reported with the last of them.
WrittenSoFar(e) ==
  LET r == edit[e]
      o == Order(r.kind)
      Has(a, f) == <<a, f>> \in r.wrote
  IN  /\ r.at \in {"write", "email"} /\ Exists(e) => \A f \in r.want \ r.left : Has(Target(e), f)
      /\ \A a \in Accounts, i, j \in DOMAIN o :
           i <= j /\ {o[i], o[j]} \subseteq r.want /\ Has(a, o[j]) => Has(a, o[i])
      /\ \A a \in Accounts :
           /\ a \in answer[e] => \A f \in r.want : Has(a, f)
           /\ r.want /= {} /\ (\A f \in r.want : Has(a, f)) /\ r.kind /= "skill" =>
                \/ a \in answer[e] \/ mailOf[a] = Gone \/ slips > 0
                \/ r.at = "write" /\ r.left = {} /\ a = Target(e)

\* However requests interleave, no two accounts have one e-mail address and no operator
\* has two skills of one name (the look-up before the write, and the index behind it).
NoTwoAlike ==
  /\ \A a, b \in Accounts : a /= b /\ mailOf[a] = mailOf[b] => mailOf[a] = Gone
  /\ \A s, t \in skills : s.of = t.of /\ s.name = t.name => s = t

\* An account is reported as updated exactly when every field asked for was written to
\* it; one that was deleted meanwhile or hit by a failing statement may be left out
\* (apply_profile_updates, batch_update, update_skill).
ReportedIsWhole ==
  \A e \in Edits : edit[e].at \in {"done", "refused"} /\ edit[e].kind /= "add" =>
    \A a \in Accounts :
      LET whole == \A f \in edit[e].want : <<a, f>> \in edit[e].wrote IN
        /\ a \in answer[e] => whole
        /\ whole /\ edit[e].want /= {} => a \in answer[e] \/ mailOf[a] = Gone \/ slips > 0
                                           \/ edit[e].kind = "skill"

\* Addresses and skills stay distinct, and an edit is reported as it was written.
ProfileInv ==
  /\ ProfileTypeOK /\ NoTwoAlike /\ ReportedIsWhole /\ SkillsAreOfTheDone
  /\ \A e \in Edits : EditIsStaged(e) /\ WrittenSoFar(e)
=============================================================================
