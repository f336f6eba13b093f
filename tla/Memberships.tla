---------------------------- MODULE Memberships ----------------------------
(***************************************************************************)
(* The team memberships of one agent (domain/teams, domain/agents and the  *)
(* restore of a removed membership). A handler checks, then runs a         *)
(* sequence of statements of its own, each its own step, then invalidates  *)
(* the cache that requests of the agent read; a failing statement ends it. *)
(* Which remaining team is promoted (the one joined first) is any of them. *)
(***************************************************************************)
EXTENDS Naturals, Sequences, FiniteSets

CONSTANTS Teams,
          Handlers,         \* requests that may be in flight together
          MaxCalls,         \* bound: requests begun
          MaxAborts         \* bound: failing statements

ASSUME MembershipsAssumption ==
  Teams # {} /\ {MaxCalls, MaxAborts} \subseteq Nat

VARIABLES
  live,      \* teams that are not (soft-)deleted
  memberOf,  \* the agent's rows of team_members
  primary,   \* those with is_primary = 1
  cache,     \* TeamCache: [held, teams]
  call,      \* handler -> [op, todo, seen, late, alone]: the statements left, the teams
             \* or the snapshot it read, whether the cache was invalidated since, and
             \* whether no other writer has been in flight with it
  token,     \* the undo token of the last batch edit: [held, snap, clean, undos],
             \* and what it had been before
  removed,   \* reversible entries of remove_team_member: [team, flag]
  raced,     \* two writers have been in flight together
  stale,     \* why the cache may be wrong: a late put, a deleted team, a failed request
  calls, aborts

memberVars == <<live, memberOf, primary, cache, call, token, removed, raced, stale, calls, aborts>>

AnyTeam == CHOOSE t \in Teams : TRUE
S(d, t, f) == [do |-> d, team |-> t, flag |-> f]
Do(d) == S(d, AnyTeam, FALSE)
Mark(t) == S("set", t, TRUE)
Snapshot == [of |-> memberOf, first |-> primary]
Nothing == [of |-> {}, first |-> {}]
Free == [op |-> "free", todo |-> <<>>, seen |-> Nothing, late |-> FALSE, alone |-> TRUE]
NoCache == [held |-> FALSE, teams |-> {}]
NoToken == [held |-> FALSE, snap |-> Nothing, clean |-> TRUE, undos |-> 0,
            before |-> Nothing]
Writing == {h \in Handlers : call[h].op \notin {"free", "request"}}

MemberInit ==
  /\ live = Teams
  /\ memberOf \in {{}, {AnyTeam}} /\ primary = memberOf
  /\ cache = NoCache /\ token = NoToken /\ removed = {}
  /\ call = [h \in Handlers |-> Free]
  /\ raced = FALSE /\ stale = FALSE /\ calls = 0 /\ aborts = 0

-----------------------------------------------------------------------------
(* The handlers: what each checks, and the statements it then runs.         *)

Arrive(h) == call[h].op = "free" /\ calls < MaxCalls /\ calls' = calls + 1

\* A writer disturbs the other writers and whatever an undo would go back to.
BeginWith(h, o, stmts, snap) ==
  /\ Arrive(h)
  /\ call' = [k \in Handlers |->
                IF k = h THEN [op |-> o, todo |-> stmts, seen |-> snap, late |-> FALSE,
                               alone |-> Writing = {}]
                ELSE [call[k] EXCEPT !.alone = @ /\ k \notin Writing]]
  /\ raced' = (raced \/ Writing /= {})
  /\ UNCHANGED <<live, memberOf, primary, cache, stale, aborts>>
BeginCall(h, o, stmts) == BeginWith(h, o, stmts, Snapshot)
Disturbed == token' = [token EXCEPT !.clean = FALSE]
WriteMembers(h, o, stmts) == BeginCall(h, o, stmts) /\ Disturbed /\ UNCHANGED removed

Clearing(f, stmts) == IF f THEN <<Do("clear")>> \o stmts ELSE stmts
\* leave_team and remove_team_member promote another team; bulk_remove_members does not.
Leaving(t) == <<S("delete", t, FALSE), Do("find"), Do("invalidate")>>
Removing(t) == <<S("delete", t, FALSE), Do("invalidate")>>
LeavingEarly(t) == <<Do("find"), S("delete", t, FALSE), Do("invalidate")>>

\* join_team; join_multiple and batch_add_members are joins with flag FALSE, and
\* create_member and register one into an empty account.
JoinTeam(h, t, f) ==
  /\ t \in live \ memberOf
  /\ WriteMembers(h, "join", Clearing(f, <<S("insert", t, f), Do("invalidate")>>))

\* The first membership becomes the primary one: read, then inserted.
AddMember(h, t) ==
  /\ t \in live \ memberOf
  /\ WriteMembers(h, "add", <<S("first?", t, FALSE), Do("invalidate")>>)

\* MUTANT of LeaveTeam: the promotion comes before the DELETE.
LeaveTeamPromotesFirst(h, t) ==
  /\ t \in live \cap memberOf
  /\ WriteMembers(h, "leave", LeavingEarly(t))

LeaveTeam(h, t) ==
  /\ t \in live \cap memberOf
  /\ WriteMembers(h, "leave", Leaving(t))

RemoveTeamMember(h, t) ==
  /\ t \in memberOf
  /\ BeginCall(h, "remove", Leaving(t)) /\ Disturbed
  /\ removed' = removed \cup {[team |-> t, flag |-> t \in primary]}

\* "This bulk path does not perform primary-team promotion."
BulkRemoveMembers(h, t) ==
  /\ t \in memberOf
  /\ WriteMembers(h, "bulk", Removing(t))

UpdateMembershipRole(h, t, f) ==
  /\ t \in memberOf
  /\ WriteMembers(h, "role", Clearing(f, <<S("set", t, f), Do("invalidate")>>))

\* MUTANT of SetPrimaryTeam: clear_primary is left out.
SetPrimaryTeamKeepsOld(h, t) ==
  /\ t \in memberOf
  /\ WriteMembers(h, "primary", <<Mark(t), Do("invalidate")>>)

SetPrimaryTeam(h, t) ==
  /\ t \in memberOf
  /\ WriteMembers(h, "primary", <<Do("clear"), Mark(t), Do("invalidate")>>)

TransferAgents(h, t, u) ==
  /\ t \in memberOf
  /\ WriteMembers(h, "transfer", <<S("delete", t, FALSE), S("upsert", u, t \in primary), Do("invalidate")>>)

\* batch_transfer and a profile's new team: replace_memberships.
ReplaceMemberships(h, t) ==
  /\ t \in live
  /\ WriteMembers(h, "replace", <<Do("wipe"), S("insert", t, TRUE), Do("invalidate")>>)

\* No promotion, and no invalidation.
DeleteTeam(h, t) ==
  /\ t \in live
  /\ WriteMembers(h, "drop", <<S("retire", t, FALSE), S("expel", t, FALSE)>>)

\* The membership of a reversible entry, in one transaction; unforced, it must be absent.
ReinstateMembership(h, e) ==
  /\ e \in removed
  /\ BeginCall(h, "reinstate", <<S(IF e.team \in memberOf THEN "restore" ELSE "reinsert", e.team, e.flag),
                             Do("invalidate")>>)
  /\ Disturbed
  /\ removed' = removed \ {e}

\* batch_edit_members: the snapshot, the changes, and a token to undo them.
BatchEditMembers(h, add, drop) ==
  /\ add \subseteq live /\ Cardinality(add) <= 1 /\ Cardinality(drop) <= 1 /\ add \cup drop /= {}
  /\ BeginCall(h, "edit",
           (IF add = {} THEN <<>> ELSE <<S("ignore", CHOOSE t \in add : TRUE, FALSE)>>)
           \o (IF drop = {} THEN <<>> ELSE <<S("delete", CHOOSE t \in drop : TRUE, FALSE)>>)
           \o <<Do("find"), Do("invalidate"), Do("token")>>)
  /\ token' = [token EXCEPT !.clean = FALSE, !.before = Snapshot]
  /\ UNCHANGED removed

\* undo_batch_edit takes the token before it works.
Undo(h, held) ==
  /\ token.held
  /\ BeginWith(h, "undo", <<Do("wipe"), Do("refill"), Do("invalidate")>>, token.snap)
  /\ token' = [token EXCEPT !.held = held, !.undos = @ + 1]
  /\ UNCHANGED removed
UndoBatchEdit(h) == Undo(h, FALSE)

\* An authenticated request of the agent that misses the cache.
Authenticate(h) ==
  /\ Arrive(h) /\ ~cache.held
  /\ call' = [call EXCEPT ![h] = [Free EXCEPT !.op = "request", !.todo = <<Do("put")>>,
                                              !.seen = Snapshot]]
  /\ UNCHANGED <<live, memberOf, primary, cache, token, removed, raced, stale, aborts>>

-----------------------------------------------------------------------------
(* The statements.                                                          *)

Head1(h, d) == call[h].todo /= <<>> /\ Head(call[h].todo).do = d
Advance(h) ==
  LET rest == Tail(call[h].todo)
  IN  call' = [call EXCEPT ![h] = IF rest = <<>> THEN Free ELSE [@ EXCEPT !.todo = rest]]
Instead(h, s) == call' = [call EXCEPT ![h].todo = [@ EXCEPT ![1] = s]]
LateReaders == [k \in Handlers |-> [call[k] EXCEPT !.late = call[k].op = "request"]]
CallFailed(h) ==
  /\ call' = [LateReaders EXCEPT ![h] = Free]
  /\ stale' = TRUE

\* UPDATEs and DELETEs that touch whatever rows are there.
Change(h) ==
  /\ call[h].todo /= <<>>
  /\ LET s == Head(call[h].todo)
     IN  /\ s.do \in {"clear", "delete", "set", "wipe", "retire", "restore", "ignore", "upsert"}
         /\ memberOf' = CASE s.do = "delete" -> memberOf \ {s.team}
                          [] s.do = "wipe" -> {}
                          [] s.do \in {"ignore", "upsert"} -> memberOf \cup {s.team}
                          [] OTHER -> memberOf
         /\ primary' = CASE s.do = "clear" -> {}
                         [] s.do = "wipe" -> {}
                         [] s.do = "delete" -> primary \ {s.team}
                         [] s.do = "upsert" /\ s.flag -> primary \cup {s.team}
                         [] s.do = "set" -> IF s.flag THEN primary \cup ({s.team} \cap memberOf)
                                            ELSE primary \ {s.team}
                         [] s.do = "restore" -> IF s.flag THEN {s.team} \cap memberOf
                                                ELSE primary \ {s.team}
                         [] OTHER -> primary
         /\ live' = IF s.do = "retire" THEN live \ {s.team} ELSE live
  /\ Advance(h)
  /\ UNCHANGED <<cache, token, removed, raced, stale, calls, aborts>>

\* INSERTs that the unique key on (agent, team) may refuse. A reinstated primary
\* membership first clears the flag of the others, in the same transaction.
InsertMember(h) ==
  /\ Head1(h, "insert") \/ Head1(h, "reinsert")
  /\ LET s == Head(call[h].todo)
     IN  IF s.team \in memberOf
         THEN CallFailed(h) /\ UNCHANGED <<memberOf, primary>>
         ELSE /\ memberOf' = memberOf \cup {s.team}
              /\ primary' = (IF s.do = "reinsert" /\ s.flag THEN {} ELSE primary)
                              \cup (IF s.flag THEN {s.team} ELSE {})
              /\ Advance(h) /\ UNCHANGED stale
  /\ UNCHANGED <<live, cache, token, removed, raced, calls, aborts>>

AskFirst(h) ==
  /\ Head1(h, "first?")
  /\ Instead(h, S("insert", Head(call[h].todo).team, memberOf = {}))
  /\ UNCHANGED <<live, memberOf, primary, cache, token, removed, raced, stale, calls, aborts>>

\* promote_primary_if_needed: two reads and an update.
FindPrimary(h) ==
  /\ Head1(h, "find")
  /\ IF primary = {} THEN Instead(h, Do("pick")) ELSE Advance(h)
  /\ UNCHANGED <<live, memberOf, primary, cache, token, removed, raced, stale, calls, aborts>>

PickNext(h) ==
  /\ Head1(h, "pick")
  /\ IF memberOf = {} THEN Advance(h)
     ELSE \E t \in memberOf : Instead(h, Mark(t))
  /\ UNCHANGED <<live, memberOf, primary, cache, token, removed, raced, stale, calls, aborts>>

Refill(h) ==
  /\ Head1(h, "refill")
  /\ memberOf' = memberOf \cup call[h].seen.of
  /\ primary' = primary \cup (call[h].seen.first \ memberOf)
  /\ Advance(h)
  /\ UNCHANGED <<live, cache, token, removed, raced, stale, calls, aborts>>

Expel(h) ==
  /\ Head1(h, "expel")
  /\ memberOf' = memberOf \ {Head(call[h].todo).team}
  /\ primary' = primary \ {Head(call[h].todo).team}
  /\ call' = [LateReaders EXCEPT ![h] = Free]
  /\ stale' = TRUE
  /\ UNCHANGED <<live, cache, token, removed, raced, calls, aborts>>

InvalidateTeams(h) ==
  /\ Head1(h, "invalidate")
  /\ cache' = NoCache /\ stale' = FALSE
  /\ call' = [k \in Handlers |->
                IF k = h THEN IF Len(call[h].todo) = 1 THEN Free
                              ELSE [call[h] EXCEPT !.todo = Tail(@)]
                ELSE LateReaders[k]]
  /\ UNCHANGED <<live, memberOf, primary, token, removed, raced, calls, aborts>>

GiveToken(h) ==
  /\ Head1(h, "token")
  /\ token' = [token EXCEPT !.held = TRUE, !.snap = call[h].seen, !.clean = call[h].alone, !.undos = 0]
  /\ Advance(h)
  /\ UNCHANGED <<live, memberOf, primary, cache, removed, raced, stale, calls, aborts>>

PutTeams(h) ==
  /\ Head1(h, "put")
  /\ cache' = [held |-> TRUE, teams |-> call[h].seen.of]
  /\ stale' = (call[h].late \/ (stale /\ cache.held))
  /\ Advance(h)
  /\ UNCHANGED <<live, memberOf, primary, token, removed, raced, calls, aborts>>

Abort(h) ==
  /\ call[h].op /= "free" /\ aborts < MaxAborts
  /\ aborts' = aborts + 1
  /\ CallFailed(h)
  /\ token' = [token EXCEPT !.clean = FALSE]
  /\ UNCHANGED <<live, memberOf, primary, cache, removed, raced, calls>>

\* TEAM_CACHE_TTL.
CacheExpires ==
  /\ cache.held
  /\ cache' = NoCache /\ stale' = FALSE
  /\ UNCHANGED <<live, memberOf, primary, call, token, removed, raced, calls, aborts>>

-----------------------------------------------------------------------------
Statement(h) ==
  \/ Change(h) \/ InsertMember(h) \/ AskFirst(h) \/ FindPrimary(h) \/ PickNext(h)
  \/ Refill(h) \/ Expel(h) \/ InvalidateTeams(h) \/ GiveToken(h) \/ PutTeams(h)

MemberNext ==
  \/ \E h \in Handlers, t \in Teams :
       \/ \E f \in BOOLEAN : JoinTeam(h, t, f) \/ UpdateMembershipRole(h, t, f)
       \/ AddMember(h, t)
       \/ LeaveTeam(h, t)
       \/ RemoveTeamMember(h, t)
       \/ BulkRemoveMembers(h, t)
       \/ SetPrimaryTeam(h, t)
       \/ \E u \in Teams \ {t} : TransferAgents(h, t, u)
       \/ ReplaceMemberships(h, t)
       \/ DeleteTeam(h, t)
  \/ \E h \in Handlers :
       \/ \E e \in removed : ReinstateMembership(h, e)
       \/ \E add, drop \in SUBSET Teams : BatchEditMembers(h, add, drop)
       \/ UndoBatchEdit(h)
       \/ Authenticate(h)
       \/ Statement(h)
       \/ Abort(h)
  \/ CacheExpires

MemberSpec == MemberInit /\ [][MemberNext]_memberVars

-----------------------------------------------------------------------------
\* The statements a call of each kind may have left.
Last1 == Do("invalidate")
Some(d, flags) == {S(d, t, f) : t \in Teams, f \in flags}
Promoting == {Do("find"), Do("pick")} \cup {Mark(t) : t \in Teams}
Plans(o) ==
  CASE o = "free" -> {<<>>}
    [] o = "request" -> {<<Do("put")>>}
    [] o = "join" -> {<<Do("clear"), s, Last1>> : s \in Some("insert", {TRUE})}
                       \cup {<<s, Last1>> : s \in Some("insert", BOOLEAN)} \cup {<<Last1>>}
    [] o = "add" -> {<<s, Last1>> : s \in Some("first?", {FALSE}) \cup Some("insert", BOOLEAN)}
                      \cup {<<Last1>>}
    [] o \in {"leave", "remove"} ->
         {<<s, Do("find"), Last1>> : s \in Some("delete", {FALSE})}
           \cup {<<s, Last1>> : s \in Promoting} \cup {<<Last1>>}
    [] o = "bulk" -> {<<s, Last1>> : s \in Some("delete", {FALSE})} \cup {<<Last1>>}
    [] o \in {"role", "primary"} ->
         {<<Do("clear"), Mark(t), Last1>> : t \in Teams}
           \cup {<<s, Last1>> : s \in Some("set", BOOLEAN)} \cup {<<Last1>>}
    [] o = "transfer" -> {<<s, u, Last1>> : s \in Some("delete", {FALSE}), u \in Some("upsert", BOOLEAN)}
                           \cup {<<u, Last1>> : u \in Some("upsert", BOOLEAN)} \cup {<<Last1>>}
    [] o = "replace" -> {<<Do("wipe"), s, Last1>> : s \in Some("insert", {TRUE})}
                          \cup {<<s, Last1>> : s \in Some("insert", {TRUE})} \cup {<<Last1>>}
    [] o = "drop" -> {<<s, u>> : s \in Some("retire", {FALSE}), u \in Some("expel", {FALSE})}
                       \cup {<<u>> : u \in Some("expel", {FALSE})}
    [] o = "reinstate" -> {<<s, Last1>> : s \in Some("restore", BOOLEAN) \cup Some("reinsert", BOOLEAN)}
                            \cup {<<Last1>>}
    [] o = "edit" -> {<<s, u, Do("find"), Last1, Do("token")>> :
                        s \in Some("ignore", {FALSE}), u \in Some("delete", {FALSE})}
                       \cup {<<s, Do("find"), Last1, Do("token")>> :
                               s \in Some("ignore", {FALSE}) \cup Some("delete", {FALSE})}
                       \cup {<<s, Last1, Do("token")>> : s \in Promoting}
                       \cup {<<Last1, Do("token")>>, <<Do("token")>>}
    [] o = "undo" -> {<<Do("wipe"), Do("refill"), Last1>>, <<Do("refill"), Last1>>, <<Last1>>}

Writers == {"join", "add", "leave", "remove", "bulk", "role", "primary", "transfer", "replace",
            "drop", "reinstate", "edit", "undo"}
Ops == {"free", "request"} \cup Writers
Snapshots == {n \in [of : SUBSET Teams, first : SUBSET Teams] : n.first \subseteq n.of}
CallRows == [op : Ops, todo : UNION {Plans(o) : o \in Ops}, seen : Snapshots, late : BOOLEAN,
             alone : BOOLEAN]
Calls == {c \in CallRows : c.todo \in Plans(c.op)}

MemberTypeOK ==
  /\ live \subseteq Teams /\ memberOf \subseteq Teams /\ primary \subseteq memberOf
  /\ cache \in [held : BOOLEAN, teams : SUBSET Teams]
  /\ call \in [Handlers -> Calls]
  /\ token \in [held : BOOLEAN, snap : Snapshots, clean : BOOLEAN, undos : 0..1, before : Snapshots]
  /\ removed \subseteq [team : Teams, flag : BOOLEAN]
  /\ raced \in BOOLEAN /\ stale \in BOOLEAN /\ calls \in 0..MaxCalls /\ aborts \in 0..MaxAborts

\* Writers that have met no other are the only ones; without a race none has met another.
AloneIsSole ==
  \A h \in Writing :
    /\ call[h].alone => Writing = {h}
    /\ ~raced => call[h].alone

\* What has been read without a race had one primary team.
AtMostOne(x) == \A a, b \in x : a = b
OneEach == ~raced => /\ AtMostOne(primary) /\ AtMostOne(token.snap.first)
                     /\ \A h \in Handlers : AtMostOne(call[h].seen.first)

\* What a request that nobody disturbs has behind it at its next statement: no primary team
\* where it is about to mark one, no membership where it is about to refill them, and at
\* its end what it set out for.
IsStaged(h) ==
  LET todo == call[h].todo
      s == Head(todo)
      o == call[h].op
  IN  h \in Writing /\ call[h].alone =>
        /\ s.do \in {"insert", "set", "pick"} /\ (s.do = "pick" \/ s.flag) => primary = {}
        /\ ~raced /\ s.do = "upsert" /\ s.flag => primary = {}
        /\ ~raced /\ o = "transfer" /\ s.do = "delete" /\ todo[2].flag => primary \subseteq {s.team}
        /\ s.do = "refill" => memberOf = {}
        /\ o \in {"leave", "remove"} /\ s.do = "set" => s.team \in memberOf
        /\ o \in {"leave", "remove"} /\ s.do = "invalidate" => memberOf = {} \/ primary /= {}
        /\ o = "undo" /\ s.do = "invalidate" => memberOf = call[h].seen.of /\ primary = call[h].seen.first

\* The snapshots of a batch edit and of its undo are those of before, while nothing else writes.
SnapshotIsBefore(h) ==
  call[h].alone => /\ call[h].op = "edit" => call[h].seen = token.before
                   /\ call[h].op = "undo" /\ token.clean => call[h].seen = token.before
TokenIsBefore == token.held => /\ token.undos = 0
                               /\ token.clean => token.snap = token.before

\* An agent has one primary team at most, whatever sequence of joins, moves, edits,
\* undos and restores made it so: a second one takes two requests at the same time.
OnePrimaryWithoutRace == Cardinality(primary) > 1 => raced

\* "exactly one team can then be marked primary" (clear_primary).
OnePrimary == Cardinality(primary) <= 1

\* h's request ends with its last statement, undisturbed by other writers.
Ends(h, ops) ==
  /\ call[h].op \in ops /\ call[h].alone
  /\ Len(call[h].todo) = 1 /\ call'[h] = Free /\ aborts' = aborts

\* An agent who leaves or is removed from a team keeps a primary team while any
\* membership is left, unless another request interfered or the removal was a bulk one.
KeepsAPrimary(h) == Ends(h, {"leave", "remove"}) => memberOf' = {} \/ primary' /= {}
LeavingKeepsAPrimary == [][\A h \in Handlers : KeepsAPrimary(h)]_memberVars

\* A writer that has yet to invalidate.
Owes(h) == \E i \in DOMAIN call[h].todo : call[h].todo[i].do = "invalidate"
Owing == \E h \in Writing : Owes(h)

\* The cached teams are the agent's, but while a request has yet to invalidate, after
\* a put that an invalidation had overtaken, a deleted team or a failed request.
CacheIsCurrent == cache.held /\ ~stale => cache.teams = memberOf \/ Owing
ReadingIsCurrent(h) ==
  call[h].op = "request" /\ ~call[h].late => call[h].seen.of = memberOf \/ Owing

\* Undoing a batch edit gives back the memberships and the primary team of before,
\* when nothing else touched them since.
Restores(h) ==
  Ends(h, {"undo"}) /\ token.clean => memberOf' = token.before.of /\ primary' = token.before.first
UndoRestores == [][\A h \in Handlers : Restores(h)]_memberVars

\* A batch edit is undone once: of two requests with its token one is refused.
UndoneOnce == token.undos <= 1

\* The rows, the cache and the undo tokens of memberships agree, whatever requests do.
MemberInv ==
  /\ MemberTypeOK /\ OnePrimaryWithoutRace /\ CacheIsCurrent /\ UndoneOnce
  /\ AloneIsSole /\ OneEach /\ TokenIsBefore
  /\ \A h \in Handlers : IsStaged(h) /\ SnapshotIsBefore(h) /\ ReadingIsCurrent(h)

\* What a request that nothing interferes with comes to.
MemberSteps == LeavingKeepsAPrimary /\ UndoRestores
=============================================================================
