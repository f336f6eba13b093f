------------------------------ MODULE Presence ------------------------------
(***************************************************************************)
(* The presence of one operator (domain/agents): the row of agent_status,  *)
(* its capped history, and the presence broadcast. set_status is three     *)
(* statements of their own; an availability that has passed is only        *)
(* noticed by a request that reads it, which then sets "offline". Whom it  *)
(* is told are the sockets of this process, of administrators and of the   *)
(* operator's teams, in kind; other processes are never told.              *)
(***************************************************************************)
EXTENDS Naturals, Sequences, FiniteSets

CONSTANTS Shown,            \* the states an operator sets
          Visits,           \* requests
          HISTORY_CAP,
          LastHour,         \* bound: the clock
          MaxLost           \* bound: failing statements and requests dropped half-way

ASSUME PresenceAssumption ==
  /\ "offline" \notin Shown /\ "none" \notin Visits
  /\ HISTORY_CAP \in Nat \ {0} /\ {LastHour, MaxLost} \subseteq Nat

VARIABLES
  presence,  \* the row: [is, until, by], by the visit that wrote it
  history,   \* agent_status_history, newest last: [is, by]
  hour,
  visit,     \* visit -> [at, sets, until, auto, past, missed]: past, unless it was an
             \* automatic "offline" over a presence that had not expired; missed, the
             \* listeners its telling passed over
  toldAs,    \* listener -> the state of the last presence event it was sent
  onAir,     \* the hub's broadcasts are enabled
  overlap,   \* two visits were setting the presence together
  lost

presenceVars == <<presence, history, hour, visit, toldAs, onAir, overlap, lost>>

Never == LastHour + 1
NoVisit == "none"
Listeners == {"admin", "team"}
Unseen == [is |-> "offline", until |-> Never, by |-> NoVisit]   \* no row: a default
Waiting == [at |-> "new", sets |-> "offline", until |-> Never, auto |-> FALSE, past |-> TRUE,
            missed |-> {}]
Setting == {v \in Visits : visit[v].at \in {"write", "record", "trim", "tell"}}

PresenceInit ==
  /\ presence = Unseen /\ history = <<>>
  /\ toldAs = [l \in Listeners |-> "offline"] /\ onAir = TRUE
  /\ hour = 0 /\ lost = 0 /\ overlap = FALSE
  /\ visit = [v \in Visits |-> Waiting]

HourPasses == /\ hour < LastHour /\ hour' = hour + 1
              /\ UNCHANGED <<presence, history, visit, toldAs, onAir, overlap, lost>>

\* The settings of the hub are written (set_config).
SwitchBroadcasts == /\ onAir' = ~onAir
                    /\ UNCHANGED <<presence, history, hour, visit, toldAs, overlap, lost>>

Lapsed == presence.until <= hour
Enters(v, r) == visit' = [visit EXCEPT ![v] = r] /\ overlap' = (overlap \/ Setting /= {})
Steps(v, a) == visit' = [visit EXCEPT ![v].at = a]

\* update_status: an availability must lie in the future.
UpdateStatus(v, s, u) ==
  /\ visit[v].at = "new" /\ u > hour
  /\ Enters(v, [at |-> "write", sets |-> s, until |-> u, auto |-> FALSE, past |-> TRUE,
                 missed |-> {}])
  /\ UNCHANGED <<presence, history, hour, toldAs, onAir, lost>>

\* status_with_expiry, or the list of status_statistics: offline if it has passed.
Notice(v) ==
  /\ visit[v].at = "new" /\ Lapsed
  /\ Enters(v, [at |-> "write", sets |-> "offline", until |-> Never, auto |-> TRUE, past |-> TRUE,
                 missed |-> {}])
  /\ UNCHANGED <<presence, history, hour, toldAs, onAir, lost>>

-----------------------------------------------------------------------------
(* set_status                                                                *)

Upsert(v) ==
  /\ visit[v].at = "write"
  /\ presence' = [is |-> visit[v].sets, until |-> visit[v].until, by |-> v]
  /\ visit' = [visit EXCEPT ![v].at = "record", ![v].past = visit[v].auto => Lapsed]
  /\ UNCHANGED <<history, hour, toldAs, onAir, overlap, lost>>

RecordHistory(v) ==
  /\ visit[v].at = "record"
  /\ history' = Append(history, [is |-> visit[v].sets, by |-> v])
  /\ Steps(v, "trim")
  /\ UNCHANGED <<presence, hour, toldAs, onAir, overlap, lost>>

\* Only update_status broadcasts what it set.
Trim(v) ==
  /\ visit[v].at = "trim"
  /\ history' = IF Len(history) > HISTORY_CAP
                THEN SubSeq(history, Len(history) - HISTORY_CAP + 1, Len(history)) ELSE history
  /\ Steps(v, IF visit[v].auto THEN "done" ELSE "tell")
  /\ UNCHANGED <<presence, hour, toldAs, onAir, overlap, lost>>

\* hub.presence: nobody while broadcasts are off, and the administrators alone when the
\* look-up of the teams failed (unwrap_or_default).
TellPresence(v) ==
  /\ visit[v].at = "tell"
  /\ \E to \in IF onAir THEN {Listeners, {"admin"}} ELSE {{}} :
       /\ toldAs' = [l \in Listeners |-> IF l \in to THEN visit[v].sets ELSE toldAs[l]]
       /\ visit' = [visit EXCEPT ![v].at = "done", ![v].missed = Listeners \ to]
  /\ UNCHANGED <<presence, history, hour, onAir, overlap, lost>>

\* A statement fails, or the request is dropped: nothing is undone.
Lose(v) ==
  /\ visit[v].at \in {"write", "record", "trim", "tell"} /\ lost < MaxLost
  /\ lost' = lost + 1 /\ Steps(v, "lost")
  /\ UNCHANGED <<presence, history, hour, toldAs, onAir, overlap>>

PresenceNext ==
  \/ HourPasses \/ SwitchBroadcasts
  \/ \E v \in Visits :
       \/ \E s \in Shown, u \in 1..Never : UpdateStatus(v, s, u)
       \/ Notice(v) \/ Upsert(v) \/ RecordHistory(v) \/ Trim(v) \/ TellPresence(v) \/ Lose(v)

PresenceSpec == PresenceInit /\ [][PresenceNext]_presenceVars

-----------------------------------------------------------------------------
(* The types; the history outgrows its cap by at most the entries whose     *)
(* visit has not trimmed it yet or never will.                               *)
States == Shown \cup {"offline"}
VisitRows == [at : {"new", "write", "record", "trim", "tell", "done", "lost"}, sets : States,
              until : 1..Never, auto : BOOLEAN, past : BOOLEAN,
              missed : SUBSET Listeners]
Untrimmed == {v \in Visits : visit[v].at \in {"trim", "lost"}}
PresenceTypeOK ==
  /\ presence \in [is : States, until : 1..Never, by : Visits \cup {NoVisit}]
  /\ history \in Seq([is : States, by : Visits])
  /\ hour \in 0..LastHour /\ lost \in 0..MaxLost /\ overlap \in BOOLEAN
  /\ toldAs \in [Listeners -> States] /\ onAir \in BOOLEAN
  /\ visit \in [Visits -> VisitRows] /\ IsFiniteSet({v \in Visits : visit[v].at /= "new"})
  /\ Len(history) <= HISTORY_CAP + Cardinality(Untrimmed)

\* A visit that has met no other finds the presence as it saw it, and then as it set it.
VisitIsAlone(v) ==
  ~overlap /\ v \in Setting =>
    /\ Setting = {v}
    /\ visit[v].at = "write" /\ visit[v].auto => Lapsed
    /\ visit[v].at /= "write" => presence.by = v /\ presence.is = visit[v].sets

\* Unless two visits set it together or one was lost, the newest entry of the history
\* is the presence itself (set_status: the row, then its entry).
HistoryEndsWithPresence ==
  ~overlap /\ lost = 0 /\ presence.by /= NoVisit /\ visit[presence.by].at \in {"trim", "tell", "done"}
  => history /= <<>> /\ history[Len(history)] = [is |-> presence.is, by |-> presence.by]

\* Unless visits overlapped, an automatic "offline" replaces a presence whose availability
\* has passed, and no other (status_with_expiry).
ExpiryHasCause == ~overlap => \A v \in Visits : visit[v].past

\* Unless visits overlapped or one was lost, a listener was last told of the presence, or of
\* the one that has expired since, or the telling of the presence passed it over
\* (update_status, hub.presence).
ToldUnlessExpired ==
  ~overlap /\ lost = 0 /\ Setting = {} =>
    \A l \in Listeners :
      \/ toldAs[l] = presence.is
      \/ presence.by \in Visits /\ (visit[presence.by].auto \/ l \in visit[presence.by].missed)

\* The presence, its history and what the listeners were told of it agree.
PresenceInv ==
  /\ PresenceTypeOK /\ HistoryEndsWithPresence /\ ExpiryHasCause /\ ToldUnlessExpired
  /\ \A v \in Visits : VisitIsAlone(v)
=============================================================================
