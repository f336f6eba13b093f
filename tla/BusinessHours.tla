---------------------------- MODULE BusinessHours ----------------------------
(***************************************************************************)
(* A team's business hours (domain/auto_reply): replace_schedules deletes  *)
(* the team's rows and inserts the new ones, each in a statement of its    *)
(* own, and within_business_hours decides from the rows of that instant    *)
(* whether the off-hours rules are silent.                                 *)
(***************************************************************************)
EXTENDS Integers, Sequences

CONSTANTS Week,      \* days of a week
          Midnight,  \* minutes of a day
          Entries,   \* what a request may list: [day, open, close, on]
          Posters, MaxEntries   \* requests in flight, and the entries of one

Days == 0..(Week - 1)
Minutes == 0..(Midnight - 1)

ASSUME HoursAssumption ==
  /\ {Week, Midnight} \subseteq Nat \ {0} /\ MaxEntries \in Nat
  /\ Entries \subseteq [day : Days, open : Minutes, close : Minutes, on : BOOLEAN]

VARIABLES
  hourRows, \* auto_reply_business_hours of the team
  posting,  \* request -> [at, asked, done]: what it listed, and how much is inserted
  overlaid, \* two requests have been in flight together, or one has failed
  settled   \* what the request that was answered last listed

hourVars == <<hourRows, posting, overlaid, settled>>

NotPosting == [at |-> "idle", asked |-> <<>>, done |-> 0]

HoursInit ==
  /\ hourRows = {} /\ settled = {} /\ overlaid = FALSE
  /\ posting = [q \in Posters |-> NotPosting]

Listed(s, n) == {s[i] : i \in 1..n}   \* the first n of a list

-----------------------------------------------------------------------------
(* replace_schedules.                                                      *)

ReplaceSchedules(q, s) ==
  /\ posting[q].at = "idle" /\ s /= <<>>
  /\ hourRows' = {}
  /\ posting' = [posting EXCEPT ![q] = [at |-> "insert", asked |-> s, done |-> 0]]
  /\ overlaid' = (overlaid \/ \E p \in Posters : posting[p].at /= "idle")
  /\ UNCHANGED settled

\* A day has one row: a second one for it is refused, and the request ends there.
InsertRow(q) ==
  /\ posting[q].done < Len(posting[q].asked)
  /\ LET x == posting[q].asked[posting[q].done + 1]
     IN  IF \E y \in hourRows : y.day = x.day
         THEN posting' = [posting EXCEPT ![q] = NotPosting] /\ overlaid' = TRUE /\ UNCHANGED hourRows
         ELSE /\ hourRows' = hourRows \cup {x}
              /\ posting' = [posting EXCEPT ![q].done = @ + 1]
              /\ UNCHANGED overlaid
  /\ UNCHANGED settled

AnswerReplaced(q) ==
  /\ posting[q].at = "insert" /\ posting[q].done = Len(posting[q].asked)
  /\ settled' = Listed(posting[q].asked, posting[q].done)
  /\ posting' = [posting EXCEPT ![q] = NotPosting]
  /\ UNCHANGED <<hourRows, overlaid>>

InsertFails(q) ==
  /\ posting[q].done < Len(posting[q].asked)
  /\ posting' = [posting EXCEPT ![q] = NotPosting]
  /\ overlaid' = TRUE
  /\ UNCHANGED <<hourRows, settled>>

HoursNext ==
  \E q \in Posters :
    \/ \E n \in 1..MaxEntries : \E s \in [1..n -> Entries] : ReplaceSchedules(q, s)
    \/ InsertRow(q)
    \/ AnswerReplaced(q)
    \/ InsertFails(q)

HoursSpec == HoursInit /\ [][HoursNext]_hourVars

-----------------------------------------------------------------------------
(* within_business_hours, at minute m of day d.                            *)

Active == {x \in hourRows : x.on}
PastMidnight(x) == x.close <= x.open
Yesterday(d) == (d + Week - 1) % Week

InsideToday(x, m) ==
  IF PastMidnight(x) THEN m >= x.open \/ m < x.close ELSE m >= x.open /\ m < x.close
StillOpen(x, m) == PastMidnight(x) /\ m < x.close

WithinBusinessHours(d, m) ==
  \/ Active = {}
  \/ \E x \in Active : x.day = d /\ InsideToday(x, m)
  \/ \E x \in Active : x.day = Yesterday(d) /\ StillOpen(x, m)

\* The hours as they are meant: a window opens on its day and runs to its closing time,
\* past midnight when that is not later.
Runs(x) == IF PastMidnight(x) THEN Midnight - x.open + x.close ELSE x.close - x.open
Since(x, d, m) == (d * Midnight + m + Week * Midnight - (x.day * Midnight + x.open)) % (Week * Midnight)
HoursRunning(d, m) == \E x \in Active : Since(x, d, m) < Runs(x)

-----------------------------------------------------------------------------
Requested == [at : {"insert"}, asked : Seq(Entries), done : Nat]
HoursTypeOK ==
  /\ hourRows \subseteq Entries /\ settled \subseteq Entries /\ overlaid \in BOOLEAN
  /\ \A x, y \in hourRows : x.day = y.day => x = y
  /\ posting \in [Posters -> {NotPosting} \cup {p \in Requested : p.done <= Len(p.asked)}]

\* "A wholesale replace per team": after each answer the stored hours are those of the
\* request answered, and on the way to it what it has listed so far, unless another one
\* ran beside it or one failed between its statements, a day listed twice included: the
\* old hours are gone by then.
HoursAreThoseAsked ==
  ~overlaid =>
    \/ (\A q \in Posters : posting[q] = NotPosting) /\ hourRows = settled
    \/ \E q \in Posters :
         /\ \A p \in Posters \ {q} : posting[p] = NotPosting
         /\ hourRows = Listed(posting[q].asked, posting[q].done)

\* Whatever the windows are, no instant inside one counts as off hours, the morning after
\* a window that runs past midnight included; and while no window runs past midnight the
\* decision is exactly that one is open, or that there are no hours at all.
OpenAsScheduled ==
  \A d \in Days, m \in Minutes :
    /\ HoursRunning(d, m) => WithinBusinessHours(d, m)
    /\ WithinBusinessHours(d, m) /\ (\A x \in Active : ~PastMidnight(x)) =>
         HoursRunning(d, m) \/ Active = {}

\* "interpreted as an overnight window that crosses midnight": the hours are open only
\* while a window is running, or when there are none.
OpenOnlyWhileRunning ==
  \A d \in Days, m \in Minutes : WithinBusinessHours(d, m) => HoursRunning(d, m) \/ Active = {}

\* The hours are those last asked for, and decide as they are written.
HoursInv == HoursTypeOK /\ HoursAreThoseAsked /\ OpenAsScheduled
=============================================================================
