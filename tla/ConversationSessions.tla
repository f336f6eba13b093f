------------------------ MODULE ConversationSessions ------------------------
(***************************************************************************)
(* The sessions a conversation is divided into (domain/sessions).  For     *)
(* each message get_or_create reads the conversation's latest active       *)
(* session, decides whether the message starts a new one, and closes and   *)
(* opens, or touches it, in statements of their own; agents create, edit,  *)
(* close, reopen, tag and delete sessions meanwhile.                       *)
(***************************************************************************)
EXTENDS Naturals, FiniteSets

CONSTANTS SessionIds,   \* sessions, numbered in the order they are made
          Agents,       \* requests that may be in flight together
          Labels,       \* tags
          Gap, Longest, \* INACTIVITY_THRESHOLD, MAX_DURATION
          MaxHour,      \* bound: instants
          MaxMessages   \* bound: requests begun

ASSUME SessionsAssumption ==
  /\ SessionIds \subseteq Nat \ {0} /\ Labels /= {}
  /\ {Gap, Longest, MaxHour, MaxMessages} \subseteq Nat

VARIABLES
  sessHour,
  session,  \* id -> [live, active, ended, started, last, tags]; live: the row exists
  sessAsk,  \* agent -> [at, id, read, tag, add]: the session that was read (0 for none)
            \* and its tags, the tag to add or to remove
  opened,   \* ids given out
  forced,   \* an agent created a session or made one active again
  edited,   \* ids whose is_active or ended_at were set one without the other
  sessCrossed,  \* two requests have been in flight together
  wanted,   \* id -> the tags its completed requests leave
  messages

sessVars == <<sessHour, session, sessAsk, opened, forced, edited, sessCrossed, wanted, messages>>

NoSession == [live |-> FALSE, active |-> FALSE, ended |-> FALSE, started |-> 0, last |-> 0,
              tags |-> {}]
AnyLabel == CHOOSE t \in Labels : TRUE
NoAsk == [at |-> "idle", id |-> 0, read |-> {}, tag |-> AnyLabel, add |-> FALSE]

SessInit ==
  /\ sessHour = 0 /\ opened = 0 /\ messages = 0
  /\ session = [i \in SessionIds |-> NoSession]
  /\ sessAsk = [a \in Agents |-> NoAsk]
  /\ forced = FALSE /\ edited = {} /\ sessCrossed = FALSE
  /\ wanted = [i \in SessionIds |-> {}]

LiveSession == {i \in SessionIds : session[i].live}
ActiveSessions == {i \in LiveSession : session[i].active}

\* MUTANT of LatestActive: closed sessions are looked at too.
LatestAny(i) ==
  /\ i \in LiveSession
  /\ \A j \in LiveSession : session[j].last <= session[i].last

\* latest_active: by last activity, then by creation.
LatestActive(i) ==
  /\ i \in ActiveSessions
  /\ \A j \in ActiveSessions : session[j].last <= session[i].last

\* detect_boundary; a message may also bring a new topic.
Outlived(i) == sessHour - session[i].last > Gap \/ sessHour - session[i].started > Longest

ArrivesInSession ==
  /\ messages < MaxMessages /\ messages' = messages + 1
  /\ sessCrossed' = (sessCrossed \/ \E b \in Agents : sessAsk[b].at /= "idle")
Ask(a, r) == ArrivesInSession /\ sessAsk[a].at = "idle" /\ sessAsk' = [sessAsk EXCEPT ![a] = r]
Answer(a) == sessAsk' = [sessAsk EXCEPT ![a] = NoAsk]
Go(a, s) == sessAsk' = [sessAsk EXCEPT ![a].at = s]

\* A statement of its own that nothing is read for.
AtOnce == ArrivesInSession /\ UNCHANGED sessAsk
Row(i, r) == session' = [session EXCEPT ![i] = r]
FreshSession == [live |-> TRUE, active |-> TRUE, ended |-> FALSE, started |-> sessHour, last |-> sessHour,
          tags |-> {}]

-----------------------------------------------------------------------------
(* get_or_create.                                                           *)

\* MUTANT of DetectBoundary: the session left behind is not closed.
DetectBoundaryLeavesPrior(a) ==
  /\ \/ ActiveSessions = {} /\ Ask(a, [NoAsk EXCEPT !.at = "create"])
     \/ \E i \in SessionIds, topic \in BOOLEAN :
          /\ LatestActive(i)
          /\ Ask(a, [NoAsk EXCEPT !.at = IF Outlived(i) \/ topic THEN "create" ELSE "touch",
                                 !.id = i])
  /\ UNCHANGED <<sessHour, session, opened, forced, edited, wanted>>

DetectBoundary(a) ==
  /\ \/ ActiveSessions = {} /\ Ask(a, [NoAsk EXCEPT !.at = "create"])
     \/ \E i \in SessionIds, topic \in BOOLEAN :
          /\ LatestActive(i)
          /\ Ask(a, [NoAsk EXCEPT !.at = IF Outlived(i) \/ topic THEN "close" ELSE "touch",
                                 !.id = i])
  /\ UNCHANGED <<sessHour, session, opened, forced, edited, wanted>>

ClosePrior(a) ==
  /\ sessAsk[a].at = "close"
  /\ LET s == session[sessAsk[a].id]
     IN  session' = IF s.live /\ s.active
                    THEN [session EXCEPT ![sessAsk[a].id] = [s EXCEPT !.active = FALSE, !.ended = TRUE]]
                    ELSE session
  /\ Go(a, "create")
  /\ UNCHANGED <<sessHour, opened, forced, edited, sessCrossed, wanted, messages>>

CreateNext(a) ==
  /\ sessAsk[a].at = "create" /\ opened + 1 \in SessionIds
  /\ opened' = opened + 1
  /\ Row(opened + 1, FreshSession)
  /\ Answer(a)
  /\ UNCHANGED <<sessHour, forced, edited, sessCrossed, wanted, messages>>

\* By id: a session closed since it was read is touched as well.
Touch(a) ==
  /\ sessAsk[a].at = "touch"
  /\ session' = IF session[sessAsk[a].id].live
                THEN [session EXCEPT ![sessAsk[a].id].last = sessHour] ELSE session
  /\ Answer(a)
  /\ UNCHANGED <<sessHour, opened, forced, edited, sessCrossed, wanted, messages>>

-----------------------------------------------------------------------------
(* What agents ask of a session.                                                *)

NewSession ==
  /\ AtOnce /\ opened + 1 \in SessionIds
  /\ opened' = opened + 1
  /\ Row(opened + 1, FreshSession)
  /\ forced' = TRUE
  /\ UNCHANGED <<sessHour, edited, wanted>>

CloseSession(i) ==
  /\ AtOnce /\ i \in ActiveSessions
  /\ Row(i, [session[i] EXCEPT !.active = FALSE, !.ended = TRUE])
  /\ UNCHANGED <<sessHour, opened, forced, edited, wanted>>

ReopenSession(i) ==
  /\ AtOnce /\ i \in LiveSession \ ActiveSessions
  /\ Row(i, [session[i] EXCEPT !.active = TRUE, !.ended = FALSE, !.last = sessHour])
  /\ forced' = TRUE
  /\ UNCHANGED <<sessHour, opened, edited, wanted>>

\* update_session sets is_active and endTime each on its own.
UpdateSession(i, act, end, tags) ==
  /\ AtOnce /\ i \in LiveSession
  /\ Row(i, [session[i] EXCEPT !.active = act, !.ended = end, !.tags = tags])
  /\ edited' = IF act = ~end THEN edited \ {i} ELSE edited \cup {i}
  /\ wanted' = [wanted EXCEPT ![i] = tags]
  /\ forced' = (forced \/ (act /\ ~session[i].active))
  /\ UNCHANGED <<sessHour, opened>>

DropSession(i) ==
  /\ AtOnce /\ i \in LiveSession
  /\ Row(i, NoSession)
  /\ edited' = edited \ {i}
  /\ wanted' = [wanted EXCEPT ![i] = {}]
  /\ UNCHANGED <<sessHour, opened, forced>>

\* batch: the session's tags are read, and the whole list is written back.
ReadTags(a, i, t, add) ==
  /\ i \in LiveSession
  /\ Ask(a, [at |-> "tag", id |-> i, read |-> session[i].tags, tag |-> t, add |-> add])
  /\ UNCHANGED <<sessHour, session, opened, forced, edited, wanted>>

Tagged(tags, a) == IF sessAsk[a].add THEN tags \cup {sessAsk[a].tag} ELSE tags \ {sessAsk[a].tag}
WriteTags(a) ==
  /\ sessAsk[a].at = "tag"
  /\ LET i == sessAsk[a].id
     IN  IF session[i].live
         THEN /\ Row(i, [session[i] EXCEPT !.tags = Tagged(sessAsk[a].read, a)])
              /\ wanted' = [wanted EXCEPT ![i] = Tagged(wanted[i], a)]
         ELSE UNCHANGED <<session, wanted>>
  /\ Answer(a)
  /\ UNCHANGED <<sessHour, opened, forced, edited, sessCrossed, messages>>

\* A statement fails; a message whose prior session was closed leaves none open.
AskFails(a) ==
  /\ sessAsk[a].at /= "idle"
  /\ Answer(a)
  /\ UNCHANGED <<sessHour, session, opened, forced, edited, sessCrossed, wanted, messages>>

SessionHourPasses ==
  /\ sessHour < MaxHour /\ sessHour' = sessHour + 1
  /\ UNCHANGED <<session, sessAsk, opened, forced, edited, sessCrossed, wanted, messages>>

-----------------------------------------------------------------------------
SessNext ==
  \/ \E a \in Agents :
       \/ DetectBoundary(a)
       \/ ClosePrior(a)
       \/ CreateNext(a)
       \/ Touch(a)
       \/ \E i \in SessionIds, t \in Labels, add \in BOOLEAN : ReadTags(a, i, t, add)
       \/ WriteTags(a)
       \/ AskFails(a)
  \/ NewSession
  \/ \E i \in SessionIds :
       \/ CloseSession(i)
       \/ ReopenSession(i)
       \/ \E act, end \in BOOLEAN, tags \in SUBSET Labels : UpdateSession(i, act, end, tags)
       \/ DropSession(i)
  \/ SessionHourPasses

SessSpec == SessInit /\ [][SessNext]_sessVars

-----------------------------------------------------------------------------
SessionRows == [live : BOOLEAN, active : BOOLEAN, ended : BOOLEAN,
                started : 0..MaxHour, last : 0..MaxHour, tags : SUBSET Labels]
SessionAsks == [at : {"idle", "close", "create", "touch", "tag"}, id : Nat,
                read : SUBSET Labels, tag : Labels, add : BOOLEAN]

\* The types; sessions are numbered as they are made, and what is gone has no tags.
SessTypeOK ==
  /\ sessHour \in 0..MaxHour /\ opened \in Nat /\ 1..opened \subseteq SessionIds
  /\ session \in [SessionIds -> SessionRows] /\ wanted \in [SessionIds -> SUBSET Labels]
  /\ \A i \in LiveSession :
       i <= opened /\ session[i].started <= session[i].last /\ session[i].last <= sessHour
  /\ \A i \in SessionIds \ LiveSession : wanted[i] = {}
  /\ sessAsk \in [Agents -> SessionAsks]
  /\ forced \in BOOLEAN /\ sessCrossed \in BOOLEAN /\ edited \subseteq SessionIds

\* What a request has read of the sessions is still so if no other one was in flight with it.
AskIsCurrent(a) ==
  LET k == sessAsk[a] IN
  /\ k.at \in {"close", "touch", "tag"} => k.id \in SessionIds
  /\ k.at /= "idle" /\ ~sessCrossed =>
       /\ \A b \in Agents \ {a} : sessAsk[b].at = "idle"
       /\ k.at \in {"close", "touch"} => k.id \in ActiveSessions
       /\ k.at = "create" => forced \/ ActiveSessions = {}
       /\ k.at = "tag" => k.id \in LiveSession /\ k.read = session[k.id].tags

\* "Decide whether the incoming message extends the current active session or starts a
\* new segment": messages alone never leave two sessions of a conversation active; it
\* takes an agent's creating or reopening one, or two requests at once.
OneActive == \A i, j \in ActiveSessions : i /= j => forced \/ sessCrossed

\* A session is active as long as it has no end, unless update_session set one of the two.
ActiveHasNoEnd == \A i \in LiveSession \ edited : session[i].active <=> ~session[i].ended

\* Every tag a request added is there and every one it removed is gone, unless two
\* requests overlapped: the list is read, changed and written back as a whole.
TagsAddUp == ~sessCrossed => \A i \in LiveSession : session[i].tags = wanted[i]

\* A message that no other request overlaps never goes into a closed session.
MessageInActive ==
  [][\A a \in Agents : Touch(a) /\ ~sessCrossed /\ session' /= session =>
       session[sessAsk[a].id].active]_sessVars

\* Segments follow one another, and the tags of each are those asked for.
SessInv ==
  /\ SessTypeOK /\ OneActive /\ ActiveHasNoEnd /\ TagsAddUp
  /\ \A a \in Agents : AskIsCurrent(a)
=============================================================================
