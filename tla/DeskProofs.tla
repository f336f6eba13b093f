----------------------------- MODULE DeskProofs ------------------------------
(***************************************************************************)
(* Proofs about the desk: reminders, reports on demand, report schedules   *)
(* and the installer, for any number of each.  Every invariant the runs    *)
(* check is inductive as it stands: it carries what a pass, a writer, a    *)
(* round or an installation task holds in hand between two steps.  Each    *)
(* action touches one row or one actor; a frame lemma says that what the   *)
(* others hold stands, so an action's own lemma looks only at its row and  *)
(* at its actor.                                                           *)
(***************************************************************************)
EXTENDS MCDesk, TLAPS

(* Reminders.                                                              *)

\* The types of the reminders' state, and the assumptions on the constants.
RemFacts ==
  /\ Ids \subseteq Nat \ {0} /\ Repeats \subseteq Nat /\ Passes = {"loop", "manual"}
  /\ MaxMishaps \in Nat /\ MaxTime \in Nat \ {0} /\ MaxArmings \in Nat \ {0}
  /\ clock \in 1..MaxTime /\ mishaps \in 0..MaxMishaps /\ mishaps \in Nat /\ clock \in Nat
  /\ rem \in [Ids -> ReminderRows] /\ pass \in [Passes -> PassStates]
  /\ alerts \in [Ids -> Nat] /\ armings \in [Ids -> 0..MaxArmings]
  /\ \A i \in Ids : armings[i] \in Nat /\ rem[i].due \in Nat
  /\ told \subseteq Ids /\ overrun \subseteq Ids /\ cut \subseteq Ids

\* They are what the type invariant says.
LEMMA RemTypes == RemTypeOK => RemFacts
BY RemindersAssumption DEF RemTypeOK, RemFacts, Passes, ReminderRows

\* What is promised of one reminder.
Settled(i) == NotificationsArePaid(i) /\ OncePerArming(i) /\ SentMeansTold(i) /\ SeriesGoesOn(i)

\* Paid notifications are at most one for each arming and mishap.
LEMMA PaidMeansOnce ==
  \A i \in Ids : RemTypeOK /\ NotificationsArePaid(i) => OncePerArming(i)
<1>. SUFFICES ASSUME NEW i \in Ids, RemTypeOK, NotificationsArePaid(i) PROVE OncePerArming(i)
  OBVIOUS
<1>1. alerts[i] \in Nat /\ armings[i] \in Nat /\ mishaps \in Nat
  BY RemTypes DEF RemFacts
<1>. QED
  BY <1>1 DEF NotificationsArePaid, OncePerArming, OneIf

\* What is left to show once the types are known.
RemRest ==
  /\ IdsAreTakenInOrder /\ \A p \in Passes : PassIsStaged(p)
  /\ \A i \in Ids : NotificationsArePaid(i) /\ SentMeansTold(i) /\ SeriesGoesOn(i)

\* The invariant is the types and the rest.
LEMMA RemConcludes == RemTypeOK /\ RemRest => RemInv
BY PaidMeansOnce DEF RemInv, RemRest

\* Nothing is notified, and what is spared by d covers what comes to be owed.
LEMMA PaidStays ==
  ASSUME RemInv, RemTypeOK', NEW i \in Ids, NEW d \in {0, 1},
         alerts'[i] = alerts[i], armings'[i] + mishaps' >= armings[i] + mishaps + d,
         \A p \in Passes : ToNotify(p, i)' => ToNotify(p, i),
         LeftToTheNextPass(i)' => LeftToTheNextPass(i) \/ d = 1
  PROVE  NotificationsArePaid(i)'
<1>1. /\ alerts[i] \in Nat /\ armings[i] \in Nat /\ mishaps \in Nat
      /\ armings'[i] \in Nat /\ mishaps' \in Nat /\ "loop" \in Passes /\ "manual" \in Passes
  <2>1. RemFacts /\ RemFacts'
    BY RemTypes, PTL DEF RemInv
  <2>. QED
    BY <2>1 DEF RemFacts
<1>2. NotificationsArePaid(i)
  BY DEF RemInv
<1>. QED
  BY <1>1, <1>2 DEF NotificationsArePaid, OneIf

\* No reminder has been made.
LEMMA RemInitially == RemInit => RemInv
<1>. SUFFICES ASSUME RemInit PROVE RemInv
  OBVIOUS
<1>1. RemTypeOK
  BY RemindersAssumption
     DEF RemInit, RemTypeOK, NoReminder, Resting, NoRow, ReminderRows, RowsRead, PassStates
<1>2. IdsAreTakenInOrder
  BY DEF RemInit, IdsAreTakenInOrder, Exists, NoReminder
<1>3. \A p \in Passes : PassIsStaged(p)
  BY DEF RemInit, PassIsStaged, Resting
<1>4. ASSUME NEW i \in Ids PROVE NotificationsArePaid(i) /\ SentMeansTold(i) /\ SeriesGoesOn(i)
  <2>1. ~ToNotify("loop", i) /\ ~ToNotify("manual", i) /\ ~Exists(i)
    BY DEF RemInit, ToNotify, Exists, NoReminder, Resting, Passes
  <2>2. ~LeftToTheNextPass(i)
    BY <2>1 DEF LeftToTheNextPass, Armed
  <2>. QED
    BY <2>1, <2>2 DEF RemInit, NotificationsArePaid, OneIf, SentMeansTold, SeriesGoesOn
<1>. QED
  BY <1>1, <1>2, <1>3, <1>4, RemConcludes DEF RemRest

\* A row that was read reads as it did.
LEMMA RowStays ==
  ASSUME RemFacts, NEW r, RowIsRead(r), armings'[r.id] > 0,
         overrun \subseteq overrun',
         Exists(r.id)' /\ r.id \notin overrun' => Exists(r.id)
              /\ rem'[r.id].every = rem[r.id].every
  PROVE  RowIsRead(r)'
BY DEF RowIsRead

\* The passes stand as they stood: the step is a request or the clock's.
LEMMA PassesStand ==
  ASSUME RemInv, UNCHANGED pass, \A i \in Ids : armings[i] > 0 => armings'[i] > 0,
         overrun \subseteq overrun', told \cup overrun \subseteq told' \cup overrun',
         \A i \in Ids : armings[i] > 0 /\ Exists(i)' /\ i \notin overrun' /\ Held(i)
                          => Exists(i) /\ rem'[i].every = rem[i].every
  PROVE  \A p \in Passes : PassIsStaged(p)'
<1>. SUFFICES ASSUME NEW p \in Passes PROVE PassIsStaged(p)'
  OBVIOUS
<1>1. RemFacts /\ PassIsStaged(p) /\ pass'[p] = pass[p]
  BY RemTypes DEF RemInv
<1>2. ASSUME NEW r, RowIsRead(r), Held(r.id) PROVE RowIsRead(r)'
  BY <1>1, <1>2, RowStays DEF RowIsRead
<1>3. \A r \in pass[p].todo : RowIsRead(r)'
  BY <1>1, <1>2 DEF PassIsStaged, Held
<1>4. pass[p].at \in {"mark", "spawn"} => RowIsRead(pass[p].cur)'
  BY <1>1, <1>2 DEF PassIsStaged, Held
<1>. QED
  BY <1>1, <1>3, <1>4 DEF PassIsStaged

\* Of the fields of a reminder its row keeps those that were not written.
LEMMA RemWrites ==
  ASSUME RemFacts, NEW i \in Ids, NEW row \in ReminderRows, rem' = [rem EXCEPT ![i] = row]
  PROVE  /\ rem' \in [Ids -> ReminderRows] /\ rem'[i] = row
         /\ \A j \in Ids : j /= i => rem'[j] = rem[j]
BY DEF RemFacts

\* A row is inserted under the next id.
LEMMA RemInserts ==
  ASSUME RemInv, NEW i \in Ids, Unused(i), NEW t \in Nat \ {0}, NEW e \in Repeats \cup {0},
         NEW q \in Ids \cup {0}, Insert(i, t, e, q), UNCHANGED <<alerts, told, overrun, mishaps>>
  PROVE  /\ rem' \in [Ids -> ReminderRows] /\ armings' \in [Ids -> 0..MaxArmings]
         /\ armings[i] = 0 /\ armings'[i] = 1 /\ ~Exists(i) /\ Exists(i)'
         /\ ~rem'[i].sent /\ rem'[i].parent = q
         /\ \A j \in Ids : j /= i => rem'[j] = rem[j] /\ armings'[j] = armings[j]
         /\ \A j \in Ids : j /= i => (Exists(j)' <=> Exists(j))
         /\ IdsAreTakenInOrder'
         /\ \A j \in Ids : SentMeansTold(j)'
<1>1. RemFacts /\ IdsAreTakenInOrder
  BY RemTypes DEF RemInv
<1>. DEFINE row == [due |-> t, sent |-> FALSE, done |-> FALSE, every |-> e, parent |-> q]
<1>2. row \in ReminderRows /\ row.due > 0 /\ ~row.sent /\ row.parent = q
  BY <1>1 DEF ReminderRows, RemFacts
<1>3. rem' = [rem EXCEPT ![i] = row] /\ armings' = [armings EXCEPT ![i] = 1]
  BY DEF Insert
<1>. HIDE DEF row
<1>4. /\ rem' \in [Ids -> ReminderRows] /\ rem'[i] = row
      /\ \A j \in Ids : j /= i => rem'[j] = rem[j]
  BY <1>1, <1>2, <1>3, RemWrites
<1>5. /\ armings' \in [Ids -> 0..MaxArmings] /\ armings'[i] = 1
      /\ \A j \in Ids : j /= i => armings'[j] = armings[j]
  BY <1>1, <1>3 DEF RemFacts
<1>6. armings[i] = 0 /\ ~Exists(i) /\ Exists(i)'
  BY <1>1, <1>2, <1>4 DEF Unused, IdsAreTakenInOrder, Exists
<1>7. \A j \in Ids : j /= i => (Exists(j)' <=> Exists(j))
  BY <1>4 DEF Exists
<1>8. IdsAreTakenInOrder'
  <2>1. \A j \in Ids : Exists(j)' => armings'[j] > 0
    BY <1>1, <1>5, <1>7 DEF IdsAreTakenInOrder
  <2>2. ASSUME NEW j \in Ids, NEW k \in Ids, armings'[j] > 0, k < j PROVE armings'[k] > 0
    <3>1. CASE j = i
      BY <1>5, <2>2, <3>1 DEF Unused
    <3>2. CASE j /= i
      BY <1>1, <1>5, <2>2, <3>2 DEF IdsAreTakenInOrder
    <3>. QED
      BY <3>1, <3>2
  <2>. QED
    BY <2>1, <2>2 DEF IdsAreTakenInOrder
<1>9. ASSUME NEW j \in Ids PROVE SentMeansTold(j)'
  BY <1>2, <1>4, <1>7 DEF RemInv, SentMeansTold
<1>. QED
  BY <1>2, <1>4, <1>5, <1>6, <1>7, <1>8, <1>9

\* The next occurrence of a series stays made.
LEMMA NextStays ==
  ASSUME \A j \in Ids : armings[j] > 0 =>
           /\ armings'[j] > 0 /\ (~Exists(j) => ~Exists(j)')
           /\ rem'[j].parent = rem[j].parent \/ ~Exists(j)'
  PROVE  \A i \in Ids : NextIsMade(i) => NextIsMade(i)'
BY DEF NextIsMade

\* An agent creates a reminder.
LEMMA RemCreate ==
  ASSUME RemInv, NEW i \in Ids, NEW t \in 1..MaxTime, NEW e \in Repeats, Create(i, t, e)
  PROVE  RemInv'
<1>1. RemFacts /\ PassIsStaged("loop") /\ PassIsStaged("manual")
  BY RemTypes DEF RemInv, Passes
<1>2. /\ Unused(i) /\ Insert(i, t, e, 0) /\ t \in Nat \ {0}
      /\ UNCHANGED <<clock, pass, alerts, told, overrun, cut, mishaps>>
  BY <1>1 DEF Create, RemFacts
<1>3. /\ rem' \in [Ids -> ReminderRows] /\ armings' \in [Ids -> 0..MaxArmings]
      /\ armings[i] = 0 /\ armings'[i] = 1 /\ ~Exists(i) /\ Exists(i)' /\ ~rem'[i].sent
      /\ \A j \in Ids : j /= i => rem'[j] = rem[j] /\ armings'[j] = armings[j]
      /\ \A j \in Ids : j /= i => (Exists(j)' <=> Exists(j))
      /\ IdsAreTakenInOrder' /\ \A j \in Ids : SentMeansTold(j)'
  BY <1>1, <1>2, RemInserts
<1>4. RemTypeOK'
  BY <1>2, <1>3 DEF RemInv, RemTypeOK
<1>5. \A p \in Passes : PassIsStaged(p)'
  BY <1>1, <1>2, <1>3, PassesStand
<1>6. ASSUME NEW j \in Ids PROVE NotificationsArePaid(j)'
  <2>1. \A p \in Passes : ToNotify(p, j)' => ToNotify(p, j)
    BY <1>2 DEF ToNotify
  <2>2. j /= i => (LeftToTheNextPass(j)' => LeftToTheNextPass(j))
    BY <1>2, <1>3 DEF LeftToTheNextPass, Armed, ToNotify, ToMark
  <2>3. alerts'[j] = alerts[j] /\ mishaps' = mishaps
    BY <1>2
  <2>4. CASE j = i
    <3>1. armings'[j] + mishaps' >= armings[j] + mishaps + 1
      BY <1>1, <1>3, <2>3, <2>4 DEF RemFacts
    <3>. QED
      BY <1>4, <2>1, <2>3, <3>1, PaidStays
  <2>5. CASE j /= i
    <3>1. armings'[j] + mishaps' >= armings[j] + mishaps + 0
      BY <1>1, <1>3, <2>3, <2>5 DEF RemFacts
    <3>. QED
      BY <1>4, <2>1, <2>2, <2>3, <2>5, <3>1, PaidStays
  <2>. QED
    BY <2>4, <2>5
<1>7. ASSUME NEW j \in Ids PROVE SeriesGoesOn(j)'
  <2>1. NextIsMade(j) => NextIsMade(j)'
    BY <1>3, NextStays
  <2>2. Spawning(j) => Spawning(j)'
    BY <1>2 DEF Spawning
  <2>. QED
    BY <1>2, <1>3, <2>1, <2>2 DEF RemInv, SeriesGoesOn
<1>8. RemRest'
  BY <1>3, <1>5, <1>6, <1>7 DEF RemRest
<1>. QED
  BY <1>4, <1>8, RemConcludes, PTL

\* A request rewrites one reminder that there is.
LEMMA RemRewrites ==
  ASSUME RemInv, NEW i \in Ids, Exists(i), UNCHANGED <<clock, pass, alerts, cut, mishaps>>,
         NEW row \in ReminderRows, rem' = [rem EXCEPT ![i] = row],
         NEW d \in {0, 1}, armings' \in [Ids -> 0..MaxArmings], armings'[i] = armings[i] + d,
         \A j \in Ids : j /= i => armings'[j] = armings[j],
         told' \subseteq Ids, overrun' \subseteq Ids, overrun \subseteq overrun',
         told \cup overrun \subseteq told' \cup overrun' \cup {i},
         \A j \in Ids : j /= i => (j \in told' <=> j \in told)
              /\ (j \in overrun' <=> j \in overrun),
         row.due = 0 \/ row.parent = rem[i].parent,
         Held(i) => i \in told' \cup overrun' \/ i \notin told \cup overrun,
         Held(i) => row.due = 0 \/ row.every = rem[i].every \/ i \in overrun',
         row.due > 0 /\ ~row.sent /\ ~row.done => Armed(i) \/ d = 1,
         row.due > 0 /\ row.sent /\ i \notin overrun' =>
           rem[i].sent /\ row.every = rem[i].every /\ (i \in told => i \in told')
  PROVE  RemInv'
<1>1. RemFacts /\ IdsAreTakenInOrder /\ rem[i].due \in Nat /\ row.due \in Nat
  BY RemTypes DEF RemInv, RemFacts, ReminderRows
<1>2. /\ rem' \in [Ids -> ReminderRows] /\ rem'[i] = row
      /\ \A j \in Ids : j /= i => rem'[j] = rem[j]
  BY <1>1, RemWrites
<1>3. armings[i] > 0 /\ \A j \in Ids : armings[j] > 0 <=> armings'[j] > 0
  <2>1. armings[i] > 0 /\ \A j \in Ids : armings[j] \in Nat
    BY <1>1 DEF IdsAreTakenInOrder, RemFacts
  <2>2. armings'[i] > 0
    BY <2>1
  <2>. QED
    BY <2>1, <2>2
<1>4. \A j \in Ids : Exists(j)' => Exists(j)
  BY <1>2 DEF Exists
<1>5. RemTypeOK'
  BY <1>2 DEF RemInv, RemTypeOK
<1>6. IdsAreTakenInOrder'
  BY <1>1, <1>3, <1>4 DEF IdsAreTakenInOrder
<1>7. \A p \in Passes : PassIsStaged(p)'
  <2>1. ASSUME NEW p \in Passes PROVE PassIsStaged(p)'
    <3>1. PassIsStaged(p) /\ pass'[p] = pass[p]
      BY DEF RemInv
    <3>2. ASSUME NEW r, RowIsRead(r), Held(r.id) PROVE RowIsRead(r)'
      <4>1. Exists(r.id)' /\ r.id \notin overrun' => rem'[r.id].every = rem[r.id].every
        BY <1>1, <1>2, <3>2 DEF RowIsRead, Exists
      <4>. QED
        BY <1>1, <1>3, <1>4, <3>2, <4>1, RowStays DEF RowIsRead
    <3>3. \A r \in pass[p].todo : RowIsRead(r)'
      BY <3>1, <3>2 DEF PassIsStaged, Held
    <3>4. pass[p].at \in {"mark", "spawn"} =>
            RowIsRead(pass[p].cur)' /\ pass[p].cur.id \in told' \cup overrun'
      BY <3>1, <3>2 DEF PassIsStaged, Held, RowIsRead
    <3>. QED
      BY <3>1, <3>3, <3>4 DEF PassIsStaged
  <2>. QED
    BY <2>1
<1>8. ASSUME NEW j \in Ids PROVE NotificationsArePaid(j)'
  <2>1. \A p \in Passes : ToNotify(p, j)' => ToNotify(p, j)
    BY DEF ToNotify
  <2>2. j /= i => (LeftToTheNextPass(j)' => LeftToTheNextPass(j))
    BY <1>2 DEF LeftToTheNextPass, Armed, Exists, ToNotify, ToMark
  <2>3. CASE j = i
    <3>1. armings'[j] + mishaps' >= armings[j] + mishaps + d
      BY <1>1, <2>3 DEF RemFacts
    <3>2. LeftToTheNextPass(j)' => LeftToTheNextPass(j) \/ d = 1
      BY <1>2, <2>3 DEF LeftToTheNextPass, Armed, Exists, ToNotify, ToMark
    <3>. QED
      BY <1>5, <2>1, <3>1, <3>2, PaidStays
  <2>4. CASE j /= i
    <3>1. armings'[j] + mishaps' >= armings[j] + mishaps + 0
      BY <1>1, <2>4 DEF RemFacts
    <3>. QED
      BY <1>5, <2>1, <2>2, <2>4, <3>1, PaidStays
  <2>. QED
    BY <2>3, <2>4
<1>9. ASSUME NEW j \in Ids PROVE SentMeansTold(j)'
  <2>1. SentMeansTold(j)
    BY DEF RemInv
  <2>. QED
    BY <1>2, <1>4, <2>1 DEF SentMeansTold, Exists
<1>10. ASSUME NEW j \in Ids PROVE SeriesGoesOn(j)'
  <2>1. NextIsMade(j) => NextIsMade(j)'
    <3>1. \A k \in Ids : rem'[k].parent = rem[k].parent \/ ~Exists(k)'
      BY <1>2 DEF Exists
    <3>. QED
      BY <1>3, <1>4, <3>1, NextStays
  <2>2. Spawning(j) => Spawning(j)'
    BY DEF Spawning
  <2>3. SeriesGoesOn(j)
    BY DEF RemInv
  <2>. QED
    BY <1>2, <1>4, <2>1, <2>2, <2>3 DEF SeriesGoesOn, Exists
<1>11. RemRest'
  BY <1>6, <1>7, <1>8, <1>9, <1>10 DEF RemRest
<1>. QED
  BY <1>5, <1>11, RemConcludes, PTL

\* An agent moves, repeats, completes or deletes a reminder.
LEMMA RemRequests ==
  ASSUME RemInv, NEW i \in Ids,
         \/ \E t \in 1..MaxTime : Rearm(i, t)
         \/ \E e \in Repeats : SetRepeat(i, e)
         \/ Complete(i) \/ Delete(i)
  PROVE  RemInv'
<1>1. RemFacts /\ rem[i] \in ReminderRows /\ SentMeansTold(i)
  BY RemTypes DEF RemInv, RemFacts
<1>2. ASSUME NEW t \in 1..MaxTime, Rearm(i, t) PROVE RemInv'
  <2>. DEFINE row == [rem[i] EXCEPT !.due = t, !.sent = FALSE]
  <2>1. t \in Nat \ {0}
    BY <1>1 DEF RemFacts
  <2>2. row \in ReminderRows /\ row.due = t /\ row.sent = FALSE /\ row.parent = rem[i].parent
        /\ row.every = rem[i].every
    BY <1>1, <2>1 DEF ReminderRows
  <2>3. rem' = [rem EXCEPT ![i] = row]
    BY <1>1, <1>2 DEF Rearm, RemFacts
  <2>. HIDE DEF row
  <2>4. /\ armings' \in [Ids -> 0..MaxArmings] /\ armings'[i] = armings[i] + 1
        /\ \A j \in Ids : j /= i => armings'[j] = armings[j]
    <3>1. armings[i] + 1 \in 0..MaxArmings /\ armings' = [armings EXCEPT ![i] = armings[i] + 1]
      <4>1. armings[i] \in 0..MaxArmings /\ MaxArmings \in Nat
        BY <1>1 DEF RemFacts
      <4>2. armings[i] < MaxArmings /\ armings' = [armings EXCEPT ![i] = armings[i] + 1]
        BY <1>2 DEF Rearm
      <4>. QED
        BY <4>1, <4>2
    <3>. QED
      BY <1>1, <3>1 DEF RemFacts
  <2>5. /\ told' = told \ {i} /\ overrun' \subseteq overrun \cup {i} /\ overrun \subseteq overrun'
        /\ Held(i) => i \in overrun'
    BY <1>2 DEF Rearm
  <2>6. Exists(i) /\ UNCHANGED <<clock, pass, alerts, cut, mishaps>>
    BY <1>2 DEF Rearm
  <2>. QED
    BY <1>1, <2>1, <2>2, <2>3, <2>4, <2>5, <2>6, RemRewrites DEF RemFacts
<1>3. ASSUME NEW e \in Repeats, SetRepeat(i, e) PROVE RemInv'
  <2>. DEFINE row == [rem[i] EXCEPT !.every = e]
  <2>1. row \in ReminderRows /\ row.due = rem[i].due /\ row.sent = rem[i].sent
        /\ row.done = rem[i].done /\ row.parent = rem[i].parent
    BY <1>1 DEF ReminderRows
  <2>2. rem' = [rem EXCEPT ![i] = row]
    BY <1>1, <1>3 DEF SetRepeat, RemFacts
  <2>. HIDE DEF row
  <2>3. /\ overrun' \subseteq overrun \cup {i} /\ overrun \subseteq overrun'
        /\ Held(i) \/ rem[i].sent => i \in overrun'
    BY <1>3 DEF SetRepeat
  <2>4. Exists(i) /\ UNCHANGED <<clock, pass, alerts, told, armings, cut, mishaps>>
    BY <1>3 DEF SetRepeat
  <2>5. armings'[i] = armings[i] + 0 /\ armings' \in [Ids -> 0..MaxArmings]
    BY <1>1, <2>4 DEF RemFacts
  <2>6. row.due > 0 /\ ~row.sent /\ ~row.done => Armed(i)
    BY <2>1 DEF Armed, Exists
  <2>. QED
    BY <1>1, <2>1, <2>2, <2>3, <2>4, <2>5, <2>6, RemRewrites DEF RemFacts
<1>4. ASSUME Complete(i) PROVE RemInv'
  <2>. DEFINE row == [rem[i] EXCEPT !.done = TRUE]
  <2>1. row \in ReminderRows /\ row.due = rem[i].due /\ row.sent = rem[i].sent
        /\ row.done = TRUE /\ row.parent = rem[i].parent /\ row.every = rem[i].every
    BY <1>1 DEF ReminderRows
  <2>2. rem' = [rem EXCEPT ![i] = row]
    BY <1>1, <1>4 DEF Complete, RemFacts
  <2>. HIDE DEF row
  <2>3. Exists(i) /\ UNCHANGED <<clock, pass, alerts, told, armings, overrun, cut, mishaps>>
    BY <1>4 DEF Complete
  <2>4. armings'[i] = armings[i] + 0 /\ armings' \in [Ids -> 0..MaxArmings]
    BY <1>1, <2>3 DEF RemFacts
  <2>. QED
    BY <1>1, <2>1, <2>2, <2>3, <2>4, RemRewrites DEF RemFacts
<1>5. ASSUME Delete(i) PROVE RemInv'
  <2>. DEFINE row == NoReminder
  <2>1. row \in ReminderRows /\ row.due = 0
    BY DEF NoReminder, ReminderRows
  <2>2. rem' = [rem EXCEPT ![i] = row]
    BY <1>5 DEF Delete
  <2>. HIDE DEF row
  <2>3. Exists(i) /\ UNCHANGED <<clock, pass, alerts, told, armings, overrun, cut, mishaps>>
    BY <1>5 DEF Delete
  <2>4. armings'[i] = armings[i] + 0 /\ armings' \in [Ids -> 0..MaxArmings]
    BY <1>1, <2>3 DEF RemFacts
  <2>5. ~(row.due > 0)
    BY <2>1
  <2>. QED
    BY <1>1, <2>1, <2>2, <2>3, <2>4, <2>5, RemRewrites DEF RemFacts
<1>. QED
  BY <1>2, <1>3, <1>4, <1>5

-----------------------------------------------------------------------------
(* The passes.                                                              *)

\* A pass is written.
LEMMA PassMoves ==
  ASSUME RemFacts, NEW p \in Passes, NEW st \in PassStates, pass' = [pass EXCEPT ![p] = st]
  PROVE  /\ pass' \in [Passes -> PassStates] /\ pass'[p] = st
         /\ \A q \in Passes : q /= p => pass'[q] = pass[q]
BY DEF RemFacts

\* What a resting pass, and any pass, holds.
LEMMA PassStateFacts ==
  ASSUME RemFacts
  PROVE  /\ NoRow \in RowsRead /\ NoRow.id = 0 /\ 0 \notin Ids
         /\ Resting \in PassStates /\ Resting.at = "idle" /\ Resting.todo = {}
              /\ Resting.cur = NoRow
         /\ \A p \in Passes : /\ pass[p] \in PassStates /\ pass[p].todo \subseteq RowsRead
                              /\ pass[p].cur \in RowsRead
<1>1. NoRow \in RowsRead /\ NoRow.id = 0
  BY DEF NoRow, RowsRead
<1>2. Resting \in PassStates /\ Resting.at = "idle" /\ Resting.todo = {} /\ Resting.cur = NoRow
  BY <1>1 DEF Resting, PassStates
<1>. QED
  BY <1>1, <1>2 DEF RemFacts, PassStates

\* A pass goes on to its next row, or rests.
LEMMA ContinueFacts ==
  ASSUME RemFacts, NEW p \in Passes, Continue(p)
  PROVE  /\ pass' \in [Passes -> PassStates]
         /\ pass'[p].todo = pass[p].todo /\ pass'[p].cur = NoRow
         /\ pass'[p].at \in {"idle", "next"} /\ (pass'[p].at = "idle" => pass'[p] = Resting)
         /\ \A q \in Passes : q /= p => pass'[q] = pass[q]
<1>. DEFINE st == IF pass[p].todo = {} THEN Resting
            ELSE [pass[p] EXCEPT !.at = "next", !.cur = NoRow]
<1>1. pass' = [pass EXCEPT ![p] = st]
  BY DEF Continue, RemFacts
<1>2. /\ st \in PassStates /\ st.todo = pass[p].todo /\ st.cur = NoRow
      /\ st.at \in {"idle", "next"} /\ (st.at = "idle" => st = Resting)
  <2>1. CASE pass[p].todo = {}
    BY <2>1, PassStateFacts
  <2>2. CASE pass[p].todo /= {}
    BY <2>2, PassStateFacts DEF PassStates
  <2>. QED
    BY <2>1, <2>2
<1>. HIDE DEF st
<1>. QED
  BY <1>1, <1>2, PassMoves

\* A step of pass p leaves the other pass alone and reads no new rows.
LEMMA PassGoesOn ==
  ASSUME RemInv, NEW p \in Passes, \A q \in Passes : q /= p => pass'[q] = pass[q],
         \A r : RowIsRead(r) => RowIsRead(r)',
         told \subseteq told', overrun \subseteq overrun',
         pass'[p].todo \subseteq pass[p].todo,
         pass'[p].at = "idle" => pass'[p] = Resting,
         pass'[p].at \notin {"mark", "spawn"} => pass'[p].cur = NoRow,
         pass'[p].at \in {"mark", "spawn"} =>
           RowIsRead(pass[p].cur)' /\ pass'[p].cur.id \in told' \cup overrun'
  PROVE  \A q \in Passes : PassIsStaged(q)'
<1>1. \A q \in Passes : PassIsStaged(q)
  BY DEF RemInv
<1>2. PassIsStaged(p)'
  BY <1>1 DEF PassIsStaged
<1>3. ASSUME NEW q \in Passes, q /= p PROVE PassIsStaged(q)'
  BY <1>1, <1>3 DEF PassIsStaged
<1>. QED
  BY <1>2, <1>3

\* Rows read stay read while the rows they were read from stand.
LEMMA RowsStay ==
  ASSUME UNCHANGED armings, overrun \subseteq overrun',
         \A i \in Ids : Exists(i)' => Exists(i) /\ rem'[i].every = rem[i].every
  PROVE  \A r : RowIsRead(r) => RowIsRead(r)'
BY DEF RowIsRead

\* A pass reads what is due.
LEMMA RemBegins ==
  ASSUME RemInv, NEW p \in Passes, BeginPass(p)
  PROVE  RemInv'
<1>1. RemFacts /\ IdsAreTakenInOrder
  BY RemTypes DEF RemInv
<1>. DEFINE rows == {RowOf(i) : i \in Due}
            st == [at |-> "next", todo |-> rows, cur |-> NoRow]
<1>2. /\ pass[p].at = "idle" /\ pass' = [pass EXCEPT ![p] = st]
      /\ p = "manual" => mishaps' = mishaps + 1
      /\ p /= "manual" => mishaps' = mishaps
      /\ mishaps' \in 0..MaxMishaps
      /\ UNCHANGED <<clock, rem, alerts, told, armings, overrun, cut>>
  BY <1>1 DEF BeginPass, RemFacts
<1>3. ASSUME NEW i \in Due
      PROVE  i \in Ids /\ Armed(i) /\ RowOf(i) \in RowsRead /\ RowOf(i).id = i
             /\ RowIsRead(RowOf(i))
  <2>1. i \in Ids /\ Armed(i) /\ rem[i] \in ReminderRows
    BY <1>1, <1>3 DEF Due, RemFacts
  <2>2. RowOf(i).id = i /\ RowOf(i).due = rem[i].due /\ RowOf(i).every = rem[i].every
    BY DEF RowOf
  <2>3. RowOf(i) \in RowsRead
    BY <2>1 DEF RowOf, RowsRead, ReminderRows
  <2>. QED
    BY <1>1, <2>1, <2>2, <2>3 DEF RowIsRead, IdsAreTakenInOrder, Armed, Exists
<1>4. st \in PassStates
  BY <1>1, <1>3, PassStateFacts DEF PassStates
<1>. HIDE DEF rows
<1>5. st.at = "next" /\ st.todo = rows /\ st.cur = NoRow
  OBVIOUS
<1>6. /\ \A r \in rows : RowIsRead(r) /\ r.id \in Due
      /\ \A r, q \in rows : r.id = q.id => r = q
      /\ \A i \in Due : \E r \in rows : r.id = i
  BY <1>3 DEF rows
<1>. HIDE DEF st
<1>7. /\ pass' \in [Passes -> PassStates] /\ pass'[p] = st
      /\ \A q \in Passes : q /= p => pass'[q] = pass[q]
  BY <1>1, <1>2, <1>4, PassMoves
<1>8. RemTypeOK'
  BY <1>2, <1>7 DEF RemInv, RemTypeOK
<1>9. \A q \in Passes : PassIsStaged(q)'
  <2>1. \A r : RowIsRead(r) => RowIsRead(r)'
    BY <1>2, RowsStay DEF Exists
  <2>2. PassIsStaged(p)'
    BY <1>5, <1>6, <1>7, <2>1 DEF PassIsStaged
  <2>3. ASSUME NEW q \in Passes, q /= p PROVE PassIsStaged(q)'
    BY <1>2, <1>7, <2>1, <2>3 DEF RemInv, PassIsStaged
  <2>. QED
    BY <2>2, <2>3
<1>10. ASSUME NEW i \in Ids PROVE NotificationsArePaid(i)'
  <2>1. ~ToNotify(p, i) /\ ~ToMark(p, i) /\ ~ToMark(p, i)'
    <3>1. PassIsStaged(p)
      BY DEF RemInv
    <3>. QED
      BY <1>1, <1>2, <1>5, <1>7, <3>1, PassStateFacts DEF ToNotify, ToMark, PassIsStaged
  <2>2. ToNotify(p, i)' <=> i \in Due
    BY <1>5, <1>6, <1>7 DEF ToNotify
  <2>3. \A q \in Passes : q /= p => (ToNotify(q, i)' <=> ToNotify(q, i)) /\ (ToMark(q,
             i)' <=> ToMark(q, i))
    BY <1>7 DEF ToNotify, ToMark
  <2>4. (Armed(i)' <=> Armed(i)) /\ (i \in Due => Armed(i))
    BY <1>2, <1>3 DEF Armed, Exists
  <2>5. /\ alerts[i] \in Nat /\ armings[i] \in Nat /\ mishaps \in Nat /\ NotificationsArePaid(i)
        /\ Passes = {"loop", "manual"}
    BY <1>1 DEF RemFacts, RemInv
  <2>6. CASE p = "loop"
    BY <1>2, <2>1, <2>2, <2>3, <2>4, <2>5, <2>6 DEF NotificationsArePaid, LeftToTheNextPass, OneIf
  <2>7. CASE p = "manual"
    BY <1>2, <2>1, <2>2, <2>3, <2>4, <2>5, <2>7 DEF NotificationsArePaid, LeftToTheNextPass, OneIf
  <2>. QED
    BY <2>5, <2>6, <2>7
<1>11. ASSUME NEW i \in Ids PROVE SentMeansTold(i)' /\ SeriesGoesOn(i)'
  <2>1. NextIsMade(i) => NextIsMade(i)'
    BY <1>2 DEF NextIsMade, Exists
  <2>2. Spawning(i) => Spawning(i)'
    BY <1>2, <1>7 DEF Spawning
  <2>. QED
    BY <1>2, <2>1, <2>2 DEF RemInv, SentMeansTold, SeriesGoesOn, Exists
<1>12. RemRest'
  BY <1>1, <1>2, <1>9, <1>10, <1>11 DEF RemRest, IdsAreTakenInOrder, Exists
<1>. QED
  BY <1>8, <1>12, RemConcludes, PTL

\* A pass notifies of a row.
LEMMA RemNotifies ==
  ASSUME RemInv, NEW p \in Passes, NEW r \in pass[p].todo, Notify(p, r)
  PROVE  RemInv'
<1>1. RemFacts /\ IdsAreTakenInOrder /\ PassIsStaged(p)
  BY RemTypes DEF RemInv
<1>. DEFINE st == [at |-> "mark", todo |-> pass[p].todo \ {r}, cur |-> r]
<1>2. /\ pass[p].at = "next" /\ alerts' = [alerts EXCEPT ![r.id] = @ + 1]
           /\ told' = told \cup {r.id}
      /\ pass' = [pass EXCEPT ![p] = st]
      /\ UNCHANGED <<clock, rem, armings, overrun, cut, mishaps>>
  BY <1>1 DEF Notify, RemFacts
<1>3. r.id \in Ids /\ RowIsRead(r) /\ r \in RowsRead
  BY <1>1, PassStateFacts DEF PassIsStaged, RowIsRead
<1>4. st \in PassStates
  BY <1>1, <1>3, PassStateFacts DEF PassStates
<1>5. st.at = "mark" /\ st.todo = pass[p].todo \ {r} /\ st.cur = r
  OBVIOUS
<1>. HIDE DEF st
<1>6. /\ pass' \in [Passes -> PassStates] /\ pass'[p] = st
      /\ \A q \in Passes : q /= p => pass'[q] = pass[q]
  BY <1>1, <1>2, <1>4, PassMoves
<1>7. /\ alerts' \in [Ids -> Nat] /\ alerts'[r.id] = alerts[r.id] + 1
      /\ \A i \in Ids : i /= r.id => alerts'[i] = alerts[i]
  <2>1. alerts \in [Ids -> Nat] /\ alerts[r.id] \in Nat
    BY <1>1, <1>3 DEF RemFacts
  <2>2. alerts' = [alerts EXCEPT ![r.id] = alerts[r.id] + 1]
    BY <1>2
  <2>. QED
    BY <1>3, <2>1, <2>2
<1>8. RemTypeOK'
  BY <1>2, <1>3, <1>6, <1>7 DEF RemInv, RemTypeOK
<1>9. \A q \in Passes : PassIsStaged(q)'
  <2>1. \A x : RowIsRead(x) => RowIsRead(x)'
    BY <1>2, RowsStay DEF Exists
  <2>2. pass'[p].cur = r /\ pass'[p].at = "mark" /\ pass'[p].todo \subseteq pass[p].todo
    BY <1>5, <1>6
  <2>. QED
    <3>1. RowIsRead(pass[p].cur)'
      BY <1>3, <2>1, <2>2
    <3>. QED
      BY <1>2, <1>3, <1>6, <2>1, <2>2, <3>1, PassGoesOn
<1>10. ASSUME NEW i \in Ids PROVE NotificationsArePaid(i)'
  <2>1. ~ToMark(p, i) /\ (ToMark(p, i)' <=> i = r.id)
    BY <1>2, <1>5, <1>6 DEF ToMark
  <2>2. ToNotify(p, i)' <=> ToNotify(p, i) /\ i /= r.id
    BY <1>1, <1>5, <1>6 DEF ToNotify, PassIsStaged
  <2>3. ToNotify(p, r.id)
    BY DEF ToNotify
  <2>4. \A q \in Passes : q /= p => (ToNotify(q, i)' <=> ToNotify(q, i)) /\ (ToMark(q,
             i)' <=> ToMark(q, i))
    BY <1>6 DEF ToNotify, ToMark
  <2>5. Armed(i)' <=> Armed(i)
    BY <1>2 DEF Armed, Exists
  <2>6. /\ alerts[i] \in Nat /\ armings[i] \in Nat /\ mishaps \in Nat /\ NotificationsArePaid(i)
        /\ Passes = {"loop", "manual"} /\ armings' = armings /\ mishaps' = mishaps
        /\ alerts'[i] = IF i = r.id THEN alerts[i] + 1 ELSE alerts[i]
    BY <1>1, <1>2, <1>7 DEF RemFacts, RemInv
  <2>7. CASE p = "loop"
    BY <2>1, <2>2, <2>3, <2>4, <2>5, <2>6, <2>7 DEF NotificationsArePaid, LeftToTheNextPass, OneIf
  <2>8. CASE p = "manual"
    BY <2>1, <2>2, <2>3, <2>4, <2>5, <2>6, <2>8 DEF NotificationsArePaid, LeftToTheNextPass, OneIf
  <2>. QED
    BY <2>6, <2>7, <2>8
<1>11. ASSUME NEW i \in Ids PROVE SentMeansTold(i)' /\ SeriesGoesOn(i)'
  <2>1. NextIsMade(i) => NextIsMade(i)'
    BY <1>2 DEF NextIsMade, Exists
  <2>2. Spawning(i) => Spawning(i)'
    BY <1>2, <1>6 DEF Spawning
  <2>. QED
    BY <1>2, <2>1, <2>2 DEF RemInv, SentMeansTold, SeriesGoesOn, Exists
<1>12. RemRest'
  BY <1>1, <1>2, <1>9, <1>10, <1>11 DEF RemRest, IdsAreTakenInOrder, Exists
<1>. QED
  BY <1>8, <1>12, RemConcludes, PTL

\* A notification could not be stored.
LEMMA RemNotifyFails ==
  ASSUME RemInv, NEW p \in Passes, NEW r \in pass[p].todo, NotifyFails(p, r)
  PROVE  RemInv'
<1>1. RemFacts /\ IdsAreTakenInOrder /\ PassIsStaged(p)
  BY RemTypes DEF RemInv
<1>. DEFINE st == IF pass[p].todo = {r} THEN Resting
            ELSE [pass[p] EXCEPT !.todo = pass[p].todo \ {r}]
<1>2. /\ pass[p].at = "next" /\ mishaps' = mishaps + 1 /\ mishaps' \in 0..MaxMishaps
      /\ pass' = [pass EXCEPT ![p] = st]
      /\ UNCHANGED <<clock, rem, alerts, told, armings, overrun, cut>>
  <2>1. mishaps \in Nat /\ MaxMishaps \in Nat /\ pass \in [Passes -> PassStates]
    BY <1>1 DEF RemFacts
  <2>2. mishaps' = mishaps + 1 /\ mishaps < MaxMishaps /\ pass[p].at = "next"
        /\ UNCHANGED <<clock, rem, alerts, told, armings, overrun, cut>>
    BY DEF NotifyFails
  <2>3. pass' = [pass EXCEPT ![p] = st]
    <3>1. CASE pass[p].todo = {r}
      BY <2>1, <3>1 DEF NotifyFails
    <3>2. CASE pass[p].todo /= {r}
      BY <2>1, <3>2 DEF NotifyFails
    <3>. QED
      BY <3>1, <3>2
  <2>. QED
    BY <2>1, <2>2, <2>3
<1>3. /\ st \in PassStates /\ st.todo = pass[p].todo \ {r} /\ st.cur = NoRow
      /\ st.at \in {"idle", "next"} /\ (st.at = "idle" => st = Resting)
  <2>1. pass[p].cur = NoRow
    BY <1>1, <1>2 DEF PassIsStaged
  <2>2. CASE pass[p].todo = {r}
    BY <2>2, <1>1, PassStateFacts
  <2>3. CASE pass[p].todo /= {r}
    BY <2>1, <2>3, <1>1, <1>2, PassStateFacts DEF PassStates
  <2>. QED
    BY <2>2, <2>3
<1>. HIDE DEF st
<1>4. /\ pass' \in [Passes -> PassStates] /\ pass'[p] = st
      /\ \A q \in Passes : q /= p => pass'[q] = pass[q]
  BY <1>1, <1>2, <1>3, PassMoves
<1>5. RemTypeOK'
  BY <1>2, <1>4 DEF RemInv, RemTypeOK
<1>6. \A q \in Passes : PassIsStaged(q)'
  <2>1. \A x : RowIsRead(x) => RowIsRead(x)'
    BY <1>2, RowsStay DEF Exists
  <2>. QED
    BY <1>2, <1>3, <1>4, <2>1, PassGoesOn
<1>7. ASSUME NEW i \in Ids PROVE NotificationsArePaid(i)'
  <2>1. \A q \in Passes : ToNotify(q, i)' => ToNotify(q, i)
    BY <1>3, <1>4 DEF ToNotify
  <2>2. armings'[i] + mishaps' >= armings[i] + mishaps + 1 /\ alerts'[i] = alerts[i]
    BY <1>1, <1>2 DEF RemFacts
  <2>. QED
    BY <1>5, <2>1, <2>2, PaidStays
<1>8. ASSUME NEW i \in Ids PROVE SentMeansTold(i)' /\ SeriesGoesOn(i)'
  <2>1. NextIsMade(i) => NextIsMade(i)'
    BY <1>2 DEF NextIsMade, Exists
  <2>2. Spawning(i) => Spawning(i)'
    BY <1>2, <1>4 DEF Spawning
  <2>. QED
    BY <1>2, <2>1, <2>2 DEF RemInv, SentMeansTold, SeriesGoesOn, Exists
<1>9. RemRest'
  BY <1>1, <1>2, <1>6, <1>7, <1>8 DEF RemRest, IdsAreTakenInOrder, Exists
<1>. QED
  BY <1>5, <1>9, RemConcludes, PTL

\* A pass marks the reminder it notified of, and may go on to its series.
LEMMA RemMarks ==
  ASSUME RemInv, NEW p \in Passes, MarkSent(p)
  PROVE  RemInv'
<1>1. RemFacts /\ IdsAreTakenInOrder /\ PassIsStaged(p)
  BY RemTypes DEF RemInv
<1>2. PICK i : i = pass[p].cur.id
  OBVIOUS
<1>3. /\ pass[p].at = "mark" /\ i \in Ids /\ RowIsRead(pass[p].cur) /\ i \in told \cup overrun
      /\ UNCHANGED <<clock, alerts, told, armings, overrun, cut, mishaps>>
      /\ pass[p].cur.every \in Nat
  <2>1. pass[p].cur.every \in Nat
    <3>1. pass[p].cur \in RowsRead /\ \A x \in Repeats : x \in Nat
      BY <1>1, PassStateFacts DEF RemFacts
    <3>2. pass[p].cur.every \in Repeats \cup {0}
      BY <3>1 DEF RowsRead
    <3>. QED
      BY <3>1, <3>2
  <2>. QED
    BY <1>1, <1>2, <2>1 DEF MarkSent, PassIsStaged, RowIsRead
<1>4. /\ rem' \in [Ids -> ReminderRows]
      /\ \A j \in Ids : /\ rem'[j].due = rem[j].due /\ rem'[j].every = rem[j].every
                        /\ rem'[j].parent = rem[j].parent /\ rem'[j].done = rem[j].done
                        /\ rem'[j].sent => rem[j].sent \/ j = i
                        /\ rem[j].sent => rem'[j].sent
      /\ Exists(i) => rem'[i].sent
      /\ \A j \in Ids : Exists(j)' <=> Exists(j)
  <2>1. CASE Exists(i)
    <3>. DEFINE row == [rem[i] EXCEPT !.sent = TRUE]
    <3>1. rem[i] \in ReminderRows
      BY <1>1, <1>3 DEF RemFacts
    <3>2. /\ row \in ReminderRows /\ row.due = rem[i].due /\ row.every = rem[i].every /\ row.sent
          /\ row.parent = rem[i].parent /\ row.done = rem[i].done
      BY <3>1 DEF ReminderRows
    <3>3. rem' = [rem EXCEPT ![i] = row]
      BY <1>1, <1>2, <1>3, <2>1 DEF MarkSent, RemFacts
    <3>. HIDE DEF row
    <3>4. /\ rem' \in [Ids -> ReminderRows] /\ rem'[i] = row
          /\ \A j \in Ids : j /= i => rem'[j] = rem[j]
      BY <1>1, <1>3, <3>2, <3>3, RemWrites
    <3>. QED
      BY <3>2, <3>4 DEF Exists
  <2>2. CASE ~Exists(i)
    <3>1. rem' = rem
      BY <1>2, <2>2 DEF MarkSent
    <3>. QED
      BY <1>1, <2>2, <3>1 DEF Exists, RemFacts
  <2>. QED
    BY <2>1, <2>2
<1>5. /\ pass' \in [Passes -> PassStates] /\ pass'[p].todo = pass[p].todo
      /\ \A q \in Passes : q /= p => pass'[q] = pass[q]
      /\ \/ pass'[p].at = "spawn" /\ pass'[p].cur = pass[p].cur
         \/ /\ pass[p].cur.every = 0 /\ pass'[p].cur = NoRow
            /\ pass'[p].at \in {"idle", "next"} /\ (pass'[p].at = "idle" => pass'[p] = Resting)
  <2>1. CASE pass[p].cur.every = 0
    <3>1. Continue(p)
      BY <2>1 DEF MarkSent
    <3>. QED
      BY <1>1, <2>1, <3>1, ContinueFacts
  <2>2. CASE pass[p].cur.every /= 0
    <3>. DEFINE st == [pass[p] EXCEPT !.at = "spawn"]
    <3>1. pass' = [pass EXCEPT ![p] = st]
      BY <1>1, <2>2 DEF MarkSent, RemFacts
    <3>2. st \in PassStates /\ st.at = "spawn" /\ st.todo = pass[p].todo /\ st.cur = pass[p].cur
      BY <1>1, PassStateFacts DEF PassStates
    <3>. HIDE DEF st
    <3>. QED
      BY <1>1, <3>1, <3>2, PassMoves
  <2>. QED
    BY <2>1, <2>2
<1>6. RemTypeOK'
  BY <1>3, <1>4, <1>5 DEF RemInv, RemTypeOK
<1>7. \A q \in Passes : PassIsStaged(q)'
  <2>1. \A x : RowIsRead(x) => RowIsRead(x)'
    <3>1. \A j \in Ids : Exists(j)' => Exists(j) /\ rem'[j].every = rem[j].every
      BY <1>4
    <3>. QED
      BY <1>3, <3>1, RowStays, <1>1 DEF RowIsRead
  <2>2. RowIsRead(pass[p].cur)' \/ pass'[p].at /= "spawn"
    BY <1>3, <1>5, <2>1
  <2>. QED
    BY <1>2, <1>3, <1>5, <2>1, <2>2, PassGoesOn
<1>8. ASSUME NEW j \in Ids PROVE NotificationsArePaid(j)'
  <2>1. \A q \in Passes : ToNotify(q, j)' <=> ToNotify(q, j)
    BY <1>5 DEF ToNotify
  <2>2. Armed(j)' => Armed(j) /\ j /= i
    BY <1>4 DEF Armed
  <2>3. \A q \in Passes : ToMark(q, j) => ToMark(q, j)' \/ j = i
    BY <1>2, <1>5 DEF ToMark
  <2>4. LeftToTheNextPass(j)' => LeftToTheNextPass(j)
    BY <2>1, <2>2, <2>3 DEF LeftToTheNextPass, Passes
  <2>5. armings'[j] + mishaps' >= armings[j] + mishaps + 0 /\ alerts'[j] = alerts[j]
    BY <1>1, <1>3 DEF RemFacts
  <2>. QED
    BY <1>6, <2>1, <2>4, <2>5, PaidStays
<1>9. ASSUME NEW j \in Ids PROVE SentMeansTold(j)'
  <2>1. SentMeansTold(j)
    BY DEF RemInv
  <2>. QED
    BY <1>3, <1>4, <2>1 DEF SentMeansTold
<1>10. ASSUME NEW j \in Ids PROVE SeriesGoesOn(j)'
  <2>1. NextIsMade(j) => NextIsMade(j)'
    BY <1>3, <1>4 DEF NextIsMade
  <2>2. Spawning(j) => Spawning(j)'
    BY <1>3, <1>5 DEF Spawning
  <2>3. SeriesGoesOn(j)
    BY DEF RemInv
  <2>4. CASE j = i
    <3>1. Exists(i) /\ i \notin overrun /\ rem[i].every > 0 => Spawning(i)'
      BY <1>2, <1>3, <1>5, <2>3, <2>4 DEF RowIsRead, Spawning
    <3>. QED
      BY <1>3, <1>4, <2>4, <3>1 DEF SeriesGoesOn
  <2>5. CASE j /= i
    BY <1>3, <1>4, <2>1, <2>2, <2>3, <2>5 DEF SeriesGoesOn
  <2>. QED
    BY <2>4, <2>5
<1>11. RemRest'
  BY <1>1, <1>3, <1>4, <1>7, <1>8, <1>9, <1>10 DEF RemRest, IdsAreTakenInOrder
<1>. QED
  BY <1>6, <1>11, RemConcludes, PTL

\* A pass goes on after a row whose mark, or whose next occurrence, could not be written.
LEMMA RemFails ==
  ASSUME RemInv, NEW p \in Passes, MarkFails(p) \/ SpawnFails(p)
  PROVE  RemInv'
<1>1. RemFacts /\ IdsAreTakenInOrder /\ PassIsStaged(p)
  BY RemTypes DEF RemInv
<1>2. PICK i : i = pass[p].cur.id
  OBVIOUS
<1>3. /\ pass[p].at \in {"mark", "spawn"} /\ i \in Ids /\ mishaps' \in 0..MaxMishaps
      /\ UNCHANGED <<clock, rem, alerts, told, armings, overrun>>
      /\ pass[p].at = "mark" => mishaps' = mishaps + 1 /\ cut' = cut
      /\ pass[p].at = "spawn" => mishaps' >= mishaps /\ cut' = cut \cup {i}
      /\ Continue(p)
  BY <1>1, <1>2 DEF MarkFails, SpawnFails, PassIsStaged, RowIsRead, RemFacts
<1>4. /\ pass' \in [Passes -> PassStates]
      /\ pass'[p].todo = pass[p].todo /\ pass'[p].cur = NoRow
      /\ pass'[p].at \in {"idle", "next"} /\ (pass'[p].at = "idle" => pass'[p] = Resting)
      /\ \A q \in Passes : q /= p => pass'[q] = pass[q]
  BY <1>1, <1>3, ContinueFacts
<1>5. RemTypeOK'
  BY <1>3, <1>4 DEF RemInv, RemTypeOK
<1>6. \A q \in Passes : PassIsStaged(q)'
  <2>1. \A x : RowIsRead(x) => RowIsRead(x)'
    BY <1>3, RowsStay DEF Exists
  <2>. QED
    BY <1>3, <1>4, <2>1, PassGoesOn
<1>7. ASSUME NEW j \in Ids PROVE NotificationsArePaid(j)'
  <2>1. \A q \in Passes : ToNotify(q, j)' <=> ToNotify(q, j)
    BY <1>4 DEF ToNotify
  <2>2. Armed(j)' <=> Armed(j)
    BY <1>3 DEF Armed, Exists
  <2>3. CASE pass[p].at = "mark"
    <3>1. armings'[j] + mishaps' >= armings[j] + mishaps + 1 /\ alerts'[j] = alerts[j]
      BY <1>1, <1>3, <2>3 DEF RemFacts
    <3>. QED
      BY <1>5, <2>1, <3>1, PaidStays
  <2>4. CASE pass[p].at = "spawn"
    <3>1. armings'[j] + mishaps' >= armings[j] + mishaps + 0 /\ alerts'[j] = alerts[j]
      BY <1>1, <1>3, <2>4 DEF RemFacts
    <3>2. \A q \in Passes : ToMark(q, j) => ToMark(q, j)'
      BY <1>4, <2>4 DEF ToMark
    <3>3. LeftToTheNextPass(j)' => LeftToTheNextPass(j)
      BY <2>1, <2>2, <3>2 DEF LeftToTheNextPass, Passes
    <3>. QED
      BY <1>5, <2>1, <3>1, <3>3, PaidStays
  <2>. QED
    BY <1>3, <2>3, <2>4
<1>8. ASSUME NEW j \in Ids PROVE SentMeansTold(j)' /\ SeriesGoesOn(j)'
  <2>1. NextIsMade(j) => NextIsMade(j)'
    BY <1>3 DEF NextIsMade, Exists
  <2>2. Spawning(j) => Spawning(j)' \/ j \in cut'
    BY <1>2, <1>3, <1>4 DEF Spawning
  <2>3. cut \subseteq cut'
    BY <1>3
  <2>. QED
    BY <1>3, <2>1, <2>2, <2>3 DEF RemInv, SentMeansTold, SeriesGoesOn, Exists
<1>9. RemRest'
  BY <1>1, <1>3, <1>6, <1>7, <1>8 DEF RemRest, IdsAreTakenInOrder, Exists
<1>. QED
  BY <1>5, <1>9, RemConcludes, PTL

\* A pass inserts the next occurrence.
LEMMA RemSpawns ==
  ASSUME RemInv, NEW p \in Passes, NEW k \in Ids, SpawnNext(p, k)
  PROVE  RemInv'
<1>1. RemFacts /\ IdsAreTakenInOrder /\ PassIsStaged(p)
  BY RemTypes DEF RemInv
<1>2. PICK i : i = pass[p].cur.id
  OBVIOUS
<1>. DEFINE t == pass[p].cur.due + pass[p].cur.every
            e == pass[p].cur.every
<1>3. /\ pass[p].at = "spawn" /\ i \in Ids /\ armings[i] > 0 /\ Unused(k)
      /\ t \in Nat \ {0} /\ e \in Repeats \cup {0}
  <2>1. RowIsRead(pass[p].cur) /\ pass[p].cur \in RowsRead /\ pass[p].at = "spawn"
    BY <1>1, PassStateFacts DEF SpawnNext, PassIsStaged
  <2>2. e \in Nat /\ e \in Repeats \cup {0} /\ pass[p].cur.due \in Nat /\ pass[p].cur.due > 0
    <3>1. \A x \in Repeats : x \in Nat
      BY <1>1 DEF RemFacts
    <3>2. e \in Repeats \cup {0} /\ pass[p].cur.due \in Nat /\ pass[p].cur.due > 0
      BY <2>1 DEF RowsRead, RowIsRead
    <3>. QED
      BY <3>1, <3>2
  <2>3. t \in Nat \ {0}
    BY <2>2
  <2>. QED
    BY <1>2, <2>1, <2>2, <2>3 DEF SpawnNext, RowIsRead
<1>4. /\ Insert(k, t, e, i) /\ UNCHANGED <<clock, alerts, told, overrun, cut, mishaps>>
      /\ Continue(p)
  BY <1>2 DEF SpawnNext
<1>. HIDE DEF t, e
<1>5. /\ rem' \in [Ids -> ReminderRows] /\ armings' \in [Ids -> 0..MaxArmings]
      /\ armings[k] = 0 /\ armings'[k] = 1 /\ ~Exists(k) /\ Exists(k)'
      /\ ~rem'[k].sent /\ rem'[k].parent = i
      /\ \A j \in Ids : j /= k => rem'[j] = rem[j] /\ armings'[j] = armings[j]
      /\ \A j \in Ids : j /= k => (Exists(j)' <=> Exists(j))
      /\ IdsAreTakenInOrder'
      /\ \A j \in Ids : SentMeansTold(j)'
  BY <1>3, <1>4, RemInserts
<1>6. /\ pass' \in [Passes -> PassStates]
      /\ pass'[p].todo = pass[p].todo /\ pass'[p].cur = NoRow
      /\ pass'[p].at \in {"idle", "next"} /\ (pass'[p].at = "idle" => pass'[p] = Resting)
      /\ \A q \in Passes : q /= p => pass'[q] = pass[q]
  BY <1>1, <1>4, ContinueFacts
<1>7. RemTypeOK'
  BY <1>4, <1>5, <1>6 DEF RemInv, RemTypeOK
<1>8. \A q \in Passes : PassIsStaged(q)'
  <2>1. \A r : RowIsRead(r) => RowIsRead(r)'
    BY <1>4, <1>5 DEF RowIsRead
  <2>. QED
    BY <1>4, <1>6, <2>1, PassGoesOn
<1>9. ASSUME NEW j \in Ids PROVE NotificationsArePaid(j)'
  <2>1. \A q \in Passes : ToNotify(q, j)' <=> ToNotify(q, j)
    BY <1>6 DEF ToNotify
  <2>2. \A q \in Passes : ToMark(q, j) => ToMark(q, j)'
    BY <1>3, <1>6 DEF ToMark
  <2>3. CASE j = k
    <3>1. armings'[j] + mishaps' >= armings[j] + mishaps + 1 /\ alerts'[j] = alerts[j]
      BY <1>1, <1>4, <1>5, <2>3 DEF RemFacts
    <3>. QED
      BY <1>7, <2>1, <3>1, PaidStays
  <2>4. CASE j /= k
    <3>1. armings'[j] + mishaps' >= armings[j] + mishaps + 0 /\ alerts'[j] = alerts[j]
      BY <1>1, <1>4, <1>5, <2>4 DEF RemFacts
    <3>2. Armed(j)' => Armed(j)
      BY <1>5, <2>4 DEF Armed
    <3>3. LeftToTheNextPass(j)' => LeftToTheNextPass(j)
      BY <2>1, <2>2, <3>2 DEF LeftToTheNextPass, Passes
    <3>. QED
      BY <1>7, <2>1, <3>1, <3>3, PaidStays
  <2>. QED
    BY <2>3, <2>4
<1>10. ASSUME NEW j \in Ids PROVE SeriesGoesOn(j)'
  <2>1. NextIsMade(j) => NextIsMade(j)'
    <3>1. \A x \in Ids : armings[x] > 0 => x /= k
      BY <1>5
    <3>. QED
      BY <1>5, <3>1, NextStays
  <2>2. k > i
    <3>1. k /= i /\ k \in Nat /\ i \in Nat
      BY <1>1, <1>3, <1>5 DEF RemFacts
    <3>2. ~(k < i)
      BY <1>1, <1>3, <1>5 DEF IdsAreTakenInOrder
    <3>. QED
      BY <3>1, <3>2
  <2>3. NextIsMade(i)'
    BY <1>5, <2>2 DEF NextIsMade
  <2>4. Spawning(j) => Spawning(j)' \/ NextIsMade(j)'
    BY <1>2, <1>6, <2>3 DEF Spawning
  <2>5. SeriesGoesOn(j)
    BY DEF RemInv
  <2>6. CASE j = k
    BY <1>5, <2>6 DEF SeriesGoesOn
  <2>7. CASE j /= k
    BY <1>4, <1>5, <2>1, <2>4, <2>5, <2>7 DEF SeriesGoesOn
  <2>. QED
    BY <2>6, <2>7
<1>11. RemRest'
  BY <1>5, <1>8, <1>9, <1>10 DEF RemRest
<1>. QED
  BY <1>7, <1>11, RemConcludes, PTL

\* The process restarts: both passes are lost.
LEMMA RemRestarts ==
  ASSUME RemInv, RemRestart
  PROVE  RemInv'
<1>1. RemFacts /\ IdsAreTakenInOrder
  BY RemTypes DEF RemInv
<1>2. /\ mishaps' = mishaps + 1 /\ mishaps' \in 0..MaxMishaps
      /\ UNCHANGED <<clock, rem, alerts, told, armings, overrun>> /\ cut \subseteq cut'
  BY <1>1 DEF RemRestart, RemFacts
<1>3. ASSUME NEW i \in Ids, Spawning(i) PROVE i \in cut'
  BY <1>3 DEF RemRestart, Spawning
<1>4. \A p \in Passes : /\ pass'[p] = Resting /\ pass'[p].at = "idle" /\ pass'[p].todo = {}
                        /\ pass'[p].cur = NoRow
  BY <1>1, PassStateFacts DEF RemRestart
<1>5. RemTypeOK'
  <2>1. pass' \in [Passes -> PassStates]
    BY <1>1, PassStateFacts DEF RemRestart
  <2>2. cut' \subseteq Ids
    <3>1. ASSUME NEW p \in Passes, pass[p].at = "spawn" PROVE pass[p].cur.id \in Ids
      BY <3>1 DEF RemInv, PassIsStaged, RowIsRead
    <3>. QED
      BY <1>1, <3>1 DEF RemRestart, RemFacts
  <2>. QED
    BY <1>2, <2>1, <2>2 DEF RemInv, RemTypeOK
<1>6. \A p \in Passes : PassIsStaged(p)'
  BY <1>4 DEF PassIsStaged
<1>7. ASSUME NEW i \in Ids PROVE NotificationsArePaid(i)'
  <2>1. \A p \in Passes : ~ToNotify(p, i)'
    BY <1>4 DEF ToNotify
  <2>2. armings'[i] + mishaps' >= armings[i] + mishaps + 1 /\ alerts'[i] = alerts[i]
    BY <1>1, <1>2 DEF RemFacts
  <2>. QED
    BY <1>5, <2>1, <2>2, PaidStays
<1>8. ASSUME NEW i \in Ids PROVE SentMeansTold(i)' /\ SeriesGoesOn(i)'
  <2>1. NextIsMade(i) => NextIsMade(i)'
    BY <1>2 DEF NextIsMade, Exists
  <2>. QED
    BY <1>2, <1>3, <2>1 DEF RemInv, SentMeansTold, SeriesGoesOn, Exists
<1>9. RemRest'
  BY <1>1, <1>2, <1>6, <1>7, <1>8 DEF RemRest, IdsAreTakenInOrder, Exists
<1>. QED
  BY <1>5, <1>9, RemConcludes, PTL

\* A step of the clock, or none.
LEMMA RemClock ==
  ASSUME RemInv, clock' \in 1..MaxTime,
         UNCHANGED <<rem, pass, alerts, told, armings, overrun, cut, mishaps>>
  PROVE  RemInv'
<1>1. RemTypeOK' /\ IdsAreTakenInOrder'
  BY DEF RemInv, RemTypeOK, IdsAreTakenInOrder, Exists
<1>2. ASSUME NEW p \in Passes PROVE PassIsStaged(p)'
  BY DEF RemInv, PassIsStaged, RowIsRead, Exists
<1>3. ASSUME NEW i \in Ids PROVE NotificationsArePaid(i)' /\ SentMeansTold(i)'
  BY DEF RemInv, NotificationsArePaid, LeftToTheNextPass, Armed, Exists, ToNotify, ToMark,
     SentMeansTold
<1>4. ASSUME NEW i \in Ids PROVE SeriesGoesOn(i)'
  BY DEF RemInv, SeriesGoesOn, NextIsMade, Spawning, Exists
<1>5. RemRest'
  BY <1>1, <1>2, <1>3, <1>4 DEF RemRest
<1>. QED
  BY <1>1, <1>5, RemConcludes, PTL

\* Every step of a request, of a pass, of the clock and of a restart keeps the invariant.
LEMMA RemStep == RemInv /\ [RemNext]_remVars => RemInv'
<1>. SUFFICES ASSUME RemInv, [RemNext]_remVars PROVE RemInv'
  OBVIOUS
<1>1. clock \in 1..MaxTime /\ MaxTime \in Nat
  BY RemindersAssumption DEF RemInv, RemTypeOK
<1>2. ASSUME UNCHANGED remVars PROVE RemInv'
  BY <1>1, <1>2, RemClock DEF remVars
<1>3. ASSUME RemTick PROVE RemInv'
  BY <1>1, <1>3, RemClock DEF RemTick
<1>4. ASSUME NEW p \in Passes, PassStep(p) PROVE RemInv'
  BY <1>4, RemBegins, RemNotifies, RemNotifyFails, RemMarks, RemFails, RemSpawns DEF PassStep
<1>5. ASSUME NEW i \in Ids, NEW t \in 1..MaxTime, NEW e \in Repeats, Create(i, t, e) PROVE RemInv'
  BY <1>5, RemCreate
<1>6. ASSUME NEW i \in Ids, NEW t \in 1..MaxTime, Rearm(i, t) PROVE RemInv'
  BY <1>6, RemRequests
<1>7. ASSUME NEW i \in Ids, NEW e \in Repeats, SetRepeat(i, e) PROVE RemInv'
  BY <1>7, RemRequests
<1>8. ASSUME NEW i \in Ids, Complete(i) \/ Delete(i) PROVE RemInv'
  BY <1>8, RemRequests
<1>. QED
  BY <1>2, <1>3, <1>4, <1>5, <1>6, <1>7, <1>8, RemRestarts DEF RemNext

\* A reminder is notified of at most once for each time it is armed and each mishap, is
\* marked sent only when notified of, and its series goes on, however the loop, a manual pass,
\* edits, failures and restarts interleave (RemInv).
THEOREM RemindersAreTold == RemSpec => []RemInv
BY RemInitially, RemStep, PTL DEF RemSpec

-----------------------------------------------------------------------------
(* Reports on demand.                                                       *)

\* No report has been asked for.
LEMMA RepInitially == RepInit => RepInv
<1>. SUFFICES ASSUME RepInit PROVE RepInv
  OBVIOUS
<1>1. ReportIds \subseteq Nat \ {0} /\ MaxUpsets \in Nat
  BY ReportsAssumption
<1>2. RepTypeOK
  BY <1>1 DEF RepInit, RepTypeOK, NoReport, NoTask, ReportRows, WriterTasks
<1>3. \A i \in ReportIds : IdsAreGivenInOrder(i) /\ CompletedHasFile(i) /\ SlotsAreWorked(i)
  BY <1>1 DEF RepInit, IdsAreGivenInOrder, CompletedHasFile, SlotsAreWorked, Generating, NoReport
<1>4. (\A w \in Writers : TaskIsOnReport(w)) /\ OneWriterPerReport
  BY DEF RepInit, TaskIsOnReport, OneWriterPerReport, Writing, NoTask
<1>. QED
  BY <1>2, <1>3, <1>4 DEF RepInv

\* What the tables look like when the request of w has moved.
LEMMA RepMoves ==
  ASSUME RepTypeOK, NEW w \in Writers,
         NEW a \in {"idle", "insert", "begin", "write", "complete", "fail", "delete"}, Step(w, a)
  PROVE  /\ task' \in [Writers -> WriterTasks]
         /\ task'[w].at = a /\ task'[w].id = task[w].id
         /\ \A o \in Writers : o /= w => task'[o] = task[o]
BY DEF RepTypeOK, Step, WriterTasks

\* What the tables look like when the request of w has been answered.
LEMMA RepLeaves ==
  ASSUME RepTypeOK, NEW w \in Writers, Leave(w)
  PROVE  /\ task' \in [Writers -> WriterTasks] /\ task'[w].at = "idle"
         /\ \A o \in Writers : o /= w => task'[o] = task[o]
BY DEF RepTypeOK, Leave, NoTask, WriterTasks

\* A report's status is written.
LEMMA RepStatus ==
  ASSUME RepTypeOK, NEW i \in ReportIds, NEW st \in {"generating", "completed", "failed"},
         SetStatus(i, st)
  PROVE  /\ report' \in [ReportIds -> ReportRows]
         /\ report'[i].status = st /\ report'[i].listed = report[i].listed
         /\ \A j \in ReportIds : j /= i => report'[j] = report[j]
BY DEF RepTypeOK, SetStatus, ReportRows

\* A report is taken off the list.
LEMMA RepUnlists ==
  ASSUME RepTypeOK, NEW i \in ReportIds, report' = [report EXCEPT ![i].listed = FALSE]
  PROVE  /\ report' \in [ReportIds -> ReportRows]
         /\ report'[i].status = report[i].status /\ report'[i].listed = FALSE
         /\ \A j \in ReportIds : j /= i => report'[j] = report[j]
BY DEF RepTypeOK, ReportRows

\* The types, and what the invariant says of one report and of one writer.
LEMMA RepFacts ==
  ASSUME RepInv
  PROVE  /\ ReportIds \subseteq Nat \ {0} /\ given \in Nat
         /\ \A w \in Writers : task[w] \in WriterTasks /\ TaskIsOnReport(w)
         /\ \A i \in ReportIds : /\ report[i] \in ReportRows /\ IdsAreGivenInOrder(i)
                                 /\ CompletedHasFile(i) /\ SlotsAreWorked(i)
         /\ OneWriterPerReport /\ MaxUpsets \in Nat /\ upsets \in Nat
BY ReportsAssumption DEF RepInv, RepTypeOK

\* Every step of a request, and a restart, keep the invariant.
LEMMA RepStep == RepInv /\ [RepNext]_repVars => RepInv'
<1>. SUFFICES ASSUME RepInv, [RepNext]_repVars PROVE RepInv'
  OBVIOUS
<1>1. /\ ReportIds \subseteq Nat \ {0} /\ given \in Nat /\ upsets \in Nat /\ MaxUpsets \in Nat
      /\ \A w \in Writers : task[w] \in WriterTasks /\ TaskIsOnReport(w)
      /\ \A i \in ReportIds : /\ report[i] \in ReportRows /\ IdsAreGivenInOrder(i)
                              /\ CompletedHasFile(i) /\ SlotsAreWorked(i)
      /\ RepTypeOK /\ OneWriterPerReport
  BY RepFacts DEF RepInv
<1>2. ASSUME NEW w \in Writers, Admit(w) PROVE RepInv'
  <2>1. task' \in [Writers -> WriterTasks] /\ task'[w].at = "insert" /\ task[w].at = "idle"
        /\ \A o \in Writers : o /= w => task'[o] = task[o]
    BY <1>1, <1>2, RepMoves DEF Admit
  <2>2. UNCHANGED <<report, files, lost, given, upsets>>
    BY <1>2 DEF Admit
  <2>3. RepTypeOK'
    BY <1>1, <2>1, <2>2 DEF RepTypeOK
  <2>4. \A i \in ReportIds : IdsAreGivenInOrder(i)' /\ CompletedHasFile(i)' /\ SlotsAreWorked(i)'
    BY <1>1, <2>1, <2>2 DEF IdsAreGivenInOrder, CompletedHasFile, SlotsAreWorked, Generating
  <2>5. (\A o \in Writers : TaskIsOnReport(o)') /\ OneWriterPerReport'
    BY <1>1, <2>1, <2>2 DEF TaskIsOnReport, OneWriterPerReport, Writing
  <2>. QED
    BY <2>3, <2>4, <2>5 DEF RepInv
<1>3. ASSUME NEW w \in Writers, InsertPending(w) PROVE RepInv'
  <2>1. PICK n \in ReportIds : n = given + 1
    BY <1>3 DEF InsertPending
  <2>2. /\ n \in ReportIds /\ given' = n /\ task[w].at = "insert"
        /\ report' \in [ReportIds -> ReportRows]
        /\ report'[n].status = "pending" /\ report'[n].listed = TRUE
        /\ \A j \in ReportIds : j /= n => report'[j] = report[j]
    BY <1>1, <1>3, <2>1 DEF InsertPending, RepTypeOK, ReportRows
  <2>3. /\ task' \in [Writers -> WriterTasks] /\ task'[w].at = "begin" /\ task'[w].id = n
        /\ \A o \in Writers : o /= w => task'[o] = task[o]
    BY <1>1, <1>3, <2>1, <2>2 DEF InsertPending, RepTypeOK, WriterTasks
  <2>4. UNCHANGED <<files, lost, upsets>>
    BY <1>3 DEF InsertPending
  <2>5. RepTypeOK'
    BY <1>1, <2>2, <2>3, <2>4 DEF RepTypeOK
  <2>6. \A i \in ReportIds : IdsAreGivenInOrder(i)'
    BY <1>1, <2>2, <2>1 DEF IdsAreGivenInOrder
  <2>7. \A i \in ReportIds : CompletedHasFile(i)' /\ SlotsAreWorked(i)'
    <3>1. CompletedHasFile(n)' /\ SlotsAreWorked(n)'
      BY <2>2 DEF CompletedHasFile, SlotsAreWorked, Generating
    <3>2. ASSUME NEW i \in ReportIds, i /= n PROVE CompletedHasFile(i)' /\ SlotsAreWorked(i)'
      BY <1>1, <2>2, <2>3, <2>4, <3>2 DEF CompletedHasFile, SlotsAreWorked, Generating
    <3>. QED
      BY <3>1, <3>2
  <2>8. \A o \in Writers : TaskIsOnReport(o)'
    <3>1. TaskIsOnReport(w)'
      BY <1>1, <2>2, <2>3, <2>1 DEF TaskIsOnReport, Writing
    <3>2. ASSUME NEW o \in Writers, o /= w PROVE TaskIsOnReport(o)'
      <4>1. task'[o] = task[o] /\ TaskIsOnReport(o)
        BY <1>1, <2>3, <3>2
      <4>2. task[o].at \in Writing \cup {"delete"} =>
              report'[task[o].id] = report[task[o].id] /\ task[o].id <= given'
        <5>. SUFFICES ASSUME task[o].at \in Writing \cup {"delete"}
                      PROVE  report'[task[o].id] = report[task[o].id] /\ task[o].id <= given'
          OBVIOUS
        <5>1. task[o].id \in ReportIds /\ task[o].id <= given
          BY <4>1 DEF TaskIsOnReport
        <5>2. task[o].id \in Nat /\ task[o].id /= n
          BY <1>1, <2>1, <5>1
        <5>. QED
          BY <1>1, <2>2, <2>1, <5>1, <5>2
      <4>. QED
        BY <2>4, <4>1, <4>2 DEF TaskIsOnReport, Writing
    <3>. QED
      BY <3>1, <3>2
  <2>9. OneWriterPerReport'
    BY <1>1, <2>2, <2>3, <2>1 DEF TaskIsOnReport, OneWriterPerReport, Writing
  <2>. QED
    BY <2>5, <2>6, <2>7, <2>8, <2>9 DEF RepInv
<1>4. ASSUME NEW w \in Writers, MarkGenerating(w) PROVE RepInv'
  <2>. DEFINE i == task[w].id
  <2>1. i \in ReportIds /\ report[i].status = "pending" /\ task[w].at = "begin" /\ i <= given
    BY <1>1, <1>4 DEF MarkGenerating, TaskIsOnReport, Writing
  <2>. HIDE DEF i
  <2>2. /\ report' \in [ReportIds -> ReportRows]
        /\ report'[i].status = "generating" /\ report'[i].listed = report[i].listed
        /\ \A j \in ReportIds : j /= i => report'[j] = report[j]
    BY <1>1, <1>4, <2>1, RepStatus DEF MarkGenerating, i
  <2>3. /\ task' \in [Writers -> WriterTasks] /\ task'[w].at = "write" /\ task'[w].id = i
        /\ \A o \in Writers : o /= w => task'[o] = task[o]
    BY <1>1, <1>4, RepMoves DEF MarkGenerating, i
  <2>4. UNCHANGED <<files, lost, given, upsets>> /\ task[w].id = i
    BY <1>4 DEF MarkGenerating, i
  <2>5. RepTypeOK'
    BY <1>1, <2>2, <2>3, <2>4 DEF RepTypeOK
  <2>6. \A j \in ReportIds : IdsAreGivenInOrder(j)'
    BY <1>1, <2>1, <2>2, <2>4 DEF IdsAreGivenInOrder
  <2>7. \A j \in ReportIds : CompletedHasFile(j)' /\ SlotsAreWorked(j)'
    BY <1>1, <2>1, <2>2, <2>3, <2>4 DEF CompletedHasFile, SlotsAreWorked, Generating
  <2>8. \A o \in Writers : TaskIsOnReport(o)'
    <3>1. TaskIsOnReport(w)'
      BY <2>1, <2>2, <2>3, <2>4 DEF TaskIsOnReport, Writing
    <3>2. ASSUME NEW o \in Writers, o /= w PROVE TaskIsOnReport(o)'
      <4>1. task'[o] = task[o] /\ TaskIsOnReport(o)
        BY <1>1, <2>3, <3>2
      <4>2. task[o].at \in Writing => task[o].id /= i
        BY <1>1, <2>1, <2>4, <3>2 DEF OneWriterPerReport, Writing
      <4>. QED
        BY <2>1, <2>2, <2>4, <4>1, <4>2 DEF TaskIsOnReport, Writing
    <3>. QED
      BY <3>1, <3>2
  <2>9. OneWriterPerReport'
    BY <1>1, <2>1, <2>3, <2>4 DEF OneWriterPerReport, Writing
  <2>. QED
    BY <2>5, <2>6, <2>7, <2>8, <2>9 DEF RepInv
<1>5. ASSUME NEW w \in Writers, PutObject(w) \/ PutFails(w) PROVE RepInv'
  <2>. DEFINE i == task[w].id
  <2>1. i \in ReportIds /\ report[i].status = "generating" /\ task[w].at = "write" /\ i <= given
    BY <1>1, <1>5 DEF PutObject, PutFails, TaskIsOnReport, Writing
  <2>. HIDE DEF i
  <2>2. /\ task' \in [Writers -> WriterTasks] /\ task'[w].at \in {"complete", "fail"}
             /\ task'[w].id = i
        /\ \A o \in Writers : o /= w => task'[o] = task[o]
    BY <1>1, <1>5, RepMoves DEF PutObject, PutFails, i
  <2>3. /\ UNCHANGED <<report, lost, given>> /\ upsets' \in 0..MaxUpsets
        /\ files \subseteq files' /\ files' \subseteq files \cup {i} /\ task[w].id = i
        /\ task'[w].at = "complete" => i \in files'
    BY <1>1, <1>5, RepMoves DEF PutObject, PutFails, Upset, RepTypeOK, i
  <2>4. RepTypeOK'
    BY <1>1, <2>1, <2>2, <2>3 DEF RepTypeOK
  <2>5. \A j \in ReportIds : IdsAreGivenInOrder(j)' /\ CompletedHasFile(j)' /\ SlotsAreWorked(j)'
    BY <1>1, <2>1, <2>2, <2>3 DEF IdsAreGivenInOrder, CompletedHasFile, SlotsAreWorked, Generating
  <2>6. \A o \in Writers : TaskIsOnReport(o)'
    BY <1>1, <2>1, <2>2, <2>3 DEF TaskIsOnReport, Writing
  <2>7. OneWriterPerReport'
    BY <1>1, <2>1, <2>2, <2>3 DEF OneWriterPerReport, Writing
  <2>. QED
    BY <2>4, <2>5, <2>6, <2>7 DEF RepInv
<1>6. ASSUME NEW w \in Writers, Conclude(w) PROVE RepInv'
  <2>. DEFINE i == task[w].id
  <2>1. i \in ReportIds /\ report[i].status = "generating" /\ i <= given
        /\ task[w].at \in {"complete", "fail"} /\ (task[w].at = "complete" => i \in files)
    BY <1>1, <1>6 DEF Conclude, TaskIsOnReport, Writing
  <2>. HIDE DEF i
  <2>2. PICK st \in {"completed", "failed"} : SetStatus(i, st) /\ (st = "completed"
             => i \in files)
    BY <1>6, <2>1 DEF Conclude, i
  <2>3. /\ report' \in [ReportIds -> ReportRows]
        /\ report'[i].status = st /\ report'[i].listed = report[i].listed
        /\ \A j \in ReportIds : j /= i => report'[j] = report[j]
    BY <1>1, <2>1, <2>2, RepStatus
  <2>4. /\ task' \in [Writers -> WriterTasks] /\ task'[w].at = "idle"
        /\ \A o \in Writers : o /= w => task'[o] = task[o]
    BY <1>1, <1>6, RepLeaves DEF Conclude
  <2>5. UNCHANGED <<files, lost, given, upsets>> /\ task[w].id = i
    BY <1>6 DEF Conclude, i
  <2>6. RepTypeOK'
    BY <1>1, <2>3, <2>4, <2>5 DEF RepTypeOK
  <2>7. \A j \in ReportIds : IdsAreGivenInOrder(j)'
    BY <1>1, <2>1, <2>3, <2>5 DEF IdsAreGivenInOrder
  <2>8. \A j \in ReportIds : CompletedHasFile(j)' /\ SlotsAreWorked(j)'
    BY <1>1, <2>1, <2>2, <2>3, <2>4, <2>5 DEF CompletedHasFile, SlotsAreWorked, Generating
  <2>9. \A o \in Writers : TaskIsOnReport(o)'
    <3>1. TaskIsOnReport(w)'
      BY <2>4 DEF TaskIsOnReport, Writing
    <3>2. ASSUME NEW o \in Writers, o /= w PROVE TaskIsOnReport(o)'
      <4>1. task'[o] = task[o] /\ TaskIsOnReport(o)
        BY <1>1, <2>4, <3>2
      <4>2. task[o].at \in Writing => task[o].id /= i
        BY <1>1, <2>1, <2>5, <3>2 DEF OneWriterPerReport, Writing
      <4>. QED
        BY <2>1, <2>3, <2>5, <4>1, <4>2 DEF TaskIsOnReport, Writing
    <3>. QED
      BY <3>1, <3>2
  <2>10. OneWriterPerReport'
    BY <1>1, <2>4 DEF OneWriterPerReport, Writing
  <2>. QED
    BY <2>6, <2>7, <2>8, <2>9, <2>10 DEF RepInv
<1>7. ASSUME NEW w \in Writers, DropWriter(w) \/ DeleteFails(w) PROVE RepInv'
  <2>. DEFINE i == task[w].id
  <2>1. i \in ReportIds
    BY <1>1, <1>7 DEF DropWriter, DeleteFails, TaskIsOnReport, Writing
  <2>. HIDE DEF i
  <2>2. /\ task' \in [Writers -> WriterTasks] /\ task'[w].at = "idle"
        /\ \A o \in Writers : o /= w => task'[o] = task[o]
    BY <1>1, <1>7, RepLeaves DEF DropWriter, DeleteFails
  <2>3. /\ UNCHANGED <<report, files, given>> /\ lost' = lost \cup {i} /\ task[w].id = i
        /\ upsets' \in 0..MaxUpsets
    BY <1>1, <1>7 DEF DropWriter, DeleteFails, Upset, i
  <2>4. RepTypeOK'
    BY <1>1, <2>1, <2>2, <2>3 DEF RepTypeOK
  <2>5. \A j \in ReportIds : IdsAreGivenInOrder(j)' /\ CompletedHasFile(j)' /\ SlotsAreWorked(j)'
    BY <1>1, <2>2, <2>3 DEF IdsAreGivenInOrder, CompletedHasFile, SlotsAreWorked, Generating
  <2>6. (\A o \in Writers : TaskIsOnReport(o)') /\ OneWriterPerReport'
    BY <1>1, <2>2, <2>3 DEF TaskIsOnReport, OneWriterPerReport, Writing
  <2>. QED
    BY <2>4, <2>5, <2>6 DEF RepInv
<1>8. ASSUME NEW w \in Writers, NEW i \in ReportIds, BeginDelete(w, i) PROVE RepInv'
  <2>1. /\ task[w].at = "idle" /\ report[i].listed /\ UNCHANGED <<report, lost, given, upsets>>
        /\ files' \subseteq files
        /\ \A j \in files : j \notin files' => j = i /\ report[i].status = "completed"
    BY <1>8 DEF BeginDelete
  <2>2. /\ task' \in [Writers -> WriterTasks] /\ task'[w].at = "delete" /\ task'[w].id = i
        /\ \A o \in Writers : o /= w => task'[o] = task[o]
    BY <1>1, <1>8 DEF BeginDelete, RepTypeOK, WriterTasks
  <2>3. RepTypeOK'
    BY <1>1, <2>1, <2>2 DEF RepTypeOK
  <2>4. \A j \in ReportIds : IdsAreGivenInOrder(j)' /\ CompletedHasFile(j)' /\ SlotsAreWorked(j)'
    BY <1>1, <2>1, <2>2 DEF IdsAreGivenInOrder, CompletedHasFile, SlotsAreWorked, Generating
  <2>5. \A o \in Writers : TaskIsOnReport(o)'
    BY <1>1, <2>1, <2>2 DEF TaskIsOnReport, IdsAreGivenInOrder, Writing
  <2>6. OneWriterPerReport'
    BY <1>1, <2>2 DEF OneWriterPerReport, Writing
  <2>. QED
    BY <2>3, <2>4, <2>5, <2>6 DEF RepInv
<1>9. ASSUME NEW w \in Writers, FinishDelete(w) PROVE RepInv'
  <2>. DEFINE i == task[w].id
  <2>1. i \in ReportIds /\ task[w].at = "delete" /\ i <= given
    BY <1>1, <1>9 DEF FinishDelete, TaskIsOnReport, Writing
  <2>. HIDE DEF i
  <2>2. /\ report' \in [ReportIds -> ReportRows]
        /\ report'[i].status = report[i].status /\ report'[i].listed = FALSE
        /\ \A j \in ReportIds : j /= i => report'[j] = report[j]
    BY <1>1, <1>9, <2>1, RepUnlists DEF FinishDelete, i
  <2>3. /\ task' \in [Writers -> WriterTasks] /\ task'[w].at = "idle"
        /\ \A o \in Writers : o /= w => task'[o] = task[o]
    BY <1>1, <1>9, RepLeaves DEF FinishDelete
  <2>4. UNCHANGED <<files, lost, given, upsets>> /\ task[w].id = i
    BY <1>9 DEF FinishDelete, i
  <2>5. RepTypeOK'
    BY <1>1, <2>2, <2>3, <2>4 DEF RepTypeOK
  <2>6. \A j \in ReportIds : IdsAreGivenInOrder(j)'
    BY <1>1, <2>1, <2>2, <2>4 DEF IdsAreGivenInOrder
  <2>7. \A j \in ReportIds : CompletedHasFile(j)' /\ SlotsAreWorked(j)'
    BY <1>1, <2>1, <2>2, <2>3, <2>4 DEF CompletedHasFile, SlotsAreWorked, Generating
  <2>8. (\A o \in Writers : TaskIsOnReport(o)') /\ OneWriterPerReport'
    <3>1. OneWriterPerReport'
      BY <1>1, <2>3 DEF OneWriterPerReport, Writing
    <3>2. TaskIsOnReport(w)'
      BY <2>3 DEF TaskIsOnReport, Writing
    <3>3. ASSUME NEW o \in Writers, o /= w PROVE TaskIsOnReport(o)'
      <4>1. task'[o] = task[o] /\ TaskIsOnReport(o)
        BY <1>1, <2>3, <3>3
      <4>2. \A j \in ReportIds : report'[j].status = report[j].status
        BY <2>2
      <4>. QED
        BY <2>4, <4>1, <4>2 DEF TaskIsOnReport, Writing
    <3>. QED
      BY <3>1, <3>2, <3>3
  <2>. QED
    BY <2>5, <2>6, <2>7, <2>8 DEF RepInv
<1>10. ASSUME NEW i \in ReportIds, BatchDelete(i) PROVE RepInv'
  <2>1. /\ report' \in [ReportIds -> ReportRows]
        /\ report'[i].status = report[i].status /\ report'[i].listed = FALSE
        /\ \A j \in ReportIds : j /= i => report'[j] = report[j]
    BY <1>1, <1>10, RepUnlists DEF BatchDelete
  <2>2. UNCHANGED <<files, task, lost, given, upsets>>
    BY <1>10 DEF BatchDelete
  <2>3. RepTypeOK'
    BY <1>1, <2>1, <2>2 DEF RepTypeOK
  <2>4. \A j \in ReportIds : IdsAreGivenInOrder(j)' /\ CompletedHasFile(j)' /\ SlotsAreWorked(j)'
    BY <1>1, <2>1, <2>2 DEF IdsAreGivenInOrder, CompletedHasFile, SlotsAreWorked, Generating
  <2>5. (\A o \in Writers : TaskIsOnReport(o)') /\ OneWriterPerReport'
    BY <1>1, <2>1, <2>2 DEF TaskIsOnReport, OneWriterPerReport, Writing
  <2>. QED
    BY <2>3, <2>4, <2>5 DEF RepInv
<1>11. ASSUME UNCHANGED repVars PROVE RepInv'
  BY <1>11 DEF repVars, RepInv, RepTypeOK, IdsAreGivenInOrder, CompletedHasFile, SlotsAreWorked,
     Generating, TaskIsOnReport, OneWriterPerReport
<1>. QED
  BY <1>2, <1>3, <1>4, <1>5, <1>6, <1>7, <1>8, <1>9, <1>10, <1>11 DEF RepNext, Write

\* A report that is listed as completed has its file, one that is being generated has a
\* writer unless a restart took it away, and the ids are given in order (RepInv).
THEOREM ReportsAreBackedByFiles == RepSpec => []RepInv
BY RepInitially, RepStep, PTL DEF RepSpec

-----------------------------------------------------------------------------
(* Report schedules.                                                        *)

\* What holds of one schedule, in numbers: whether it is active or deleted, the runs it counts;
\* its run rows; its files and reports; where the pass is with it ("away" when with another),
\* whether it waits for the pass, and the statements that failed.
Hand(w, points) == IF w \in points THEN 1 ELSE 0
Fit(act, del, ran, success, failed, running, objs, rows, w, waits, f) ==
  /\ failed + running <= Ceiling + f + Hand(w, OpenPoints)
  /\ ~act /\ ~del => failed >= Ceiling
  /\ success <= rows /\ ran <= rows /\ rows <= objs
  /\ objs <= rows + f + Hand(w, {"row"})
  /\ rows <= success + f + Hand(w, {"success"})
  /\ rows <= ran + f + Hand(w, {"success", "advance"})
  /\ running <= f + Hand(w, OpenPoints)
  /\ (act /\ w \notin {"count", "giveup"}) \/ waits \/ w \in OpenPoints \/ w = "later" =>
       failed + running < Ceiling + f + Hand(w, OpenPoints)
  /\ w \in OpenPoints => running > 0
  /\ w = "row" => rows < objs
  /\ w = "success" => success < rows
  /\ w \in {"success", "advance"} => ran < rows
  /\ w = "giveup" => failed >= Ceiling

Where(s) == IF rounds.s = s THEN rounds.at ELSE "away"
FitOf(s) ==
  Fit(sched[s].active, sched[s].deleted, sched[s].ran, runs[s].success, runs[s].failed,
      runs[s].running, made[s].files, made[s].rows, Where(s), s \in rounds.todo, failures)

\* The pass works on one schedule, which is not to come again.
RoundShape ==
  /\ rounds.s = "none" <=> rounds.at \in {"idle", "next"}
  /\ rounds.s \notin rounds.todo

\* The invariant, schedule by schedule.
SchedRest == SchedTypeOK /\ RoundShape /\ \A s \in Schedules : FitOf(s)

\* The types, and the bounds.
LEMMA SchedFacts ==
  SchedTypeOK =>
    /\ sched \in [Schedules -> SchedRows] /\ runs \in [Schedules -> RunCounts]
    /\ made \in [Schedules -> MadeCounts] /\ rounds \in Rounds
    /\ failures \in Nat /\ failures \in 0..MaxFailures /\ days \in 0..MaxDays
    /\ MaxFailures \in Nat /\ MaxDays \in Nat /\ "none" \notin Schedules
    /\ Ceiling \in Nat \ {0}
BY ReportSchedulesAssumption DEF SchedTypeOK

\* What the rows of a schedule hold are numbers.
LEMMA RowNumbers ==
  ASSUME SchedTypeOK, NEW s \in Schedules
  PROVE  /\ sched[s] \in SchedRows /\ runs[s] \in RunCounts /\ made[s] \in MadeCounts
         /\ sched[s].ran \in Nat /\ runs[s].success \in Nat /\ runs[s].failed \in Nat
         /\ runs[s].running \in Nat /\ made[s].files \in Nat /\ made[s].rows \in Nat
         /\ sched[s].active \in BOOLEAN /\ sched[s].deleted \in BOOLEAN
BY DEF SchedTypeOK, SchedRows, RunCounts, MadeCounts

\* It is the invariant.
LEMMA SchedWhole == SchedRest <=> SchedInv
<1>1. ASSUME SchedTypeOK, NEW s \in Schedules
      PROVE  /\ AtHand(s, OpenPoints) = Hand(Where(s), OpenPoints)
             /\ AtHand(s, {"row"}) = Hand(Where(s), {"row"})
             /\ AtHand(s, {"success"}) = Hand(Where(s), {"success"})
             /\ AtHand(s, {"success", "advance"}) = Hand(Where(s), {"success", "advance"})
             /\ AtHand(s, {"count", "giveup"}) = Hand(Where(s), {"count", "giveup"})
             /\ Hand(Where(s), OpenPoints) \in {0, 1}
  BY DEF AtHand, Hand, Where, OpenPoints
<1>2. ASSUME SchedTypeOK, RoundShape, NEW s \in Schedules, FitOf(s)
      PROVE  GivesUpAtCeiling(s) /\ GivenUpForCause(s) /\ BooksAgree(s) /\ MayStillFail(s)
  <2>1. Where(s) \notin {"count", "giveup"} <=> Hand(Where(s), {"count", "giveup"}) = 0
    BY DEF Hand
  <2>2. Where(s) \in OpenPoints <=> Hand(Where(s), OpenPoints) = 1
    BY DEF Hand
  <2>3. Ceiling \in Nat /\ failures \in Nat
    BY <1>2, SchedFacts
  <2>4. Vain(s) = runs[s].failed + runs[s].running - Hand(Where(s), OpenPoints)
    BY <1>1, <1>2 DEF Vain
  <2>5. GivesUpAtCeiling(s) /\ GivenUpForCause(s) /\ MayStillFail(s)
    BY <1>1, <1>2, <2>1, <2>2, <2>3, <2>4, RowNumbers
       DEF FitOf, Fit, GivesUpAtCeiling, GivenUpForCause, MayStillFail
  <2>6. BooksAgree(s)
    BY <1>1, <1>2 DEF FitOf, Fit, BooksAgree
  <2>. QED  BY <2>5, <2>6
<1>3. ASSUME SchedTypeOK, RoundShape, \A s \in Schedules : FitOf(s)
      PROVE  RoundIsStaged
  <2>1. CASE rounds.s = "none"
    BY <1>3, <2>1 DEF RoundShape, RoundIsStaged, OpenPoints
  <2>2. CASE rounds.s /= "none"
    <3>1. PICK s \in Schedules : s = rounds.s
      BY <1>3, <2>2, SchedFacts DEF Rounds
    <3>2. Where(s) = rounds.at /\ FitOf(s)
      BY <1>3, <3>1 DEF Where
    <3>3. Ceiling \in Nat /\ failures \in Nat
      BY <1>3, SchedFacts
    <3>4. rounds.at = "later" => Vain(s) < Ceiling + failures
      <4>1. Hand(Where(s), OpenPoints) \in {0, 1} /\ AtHand(s, OpenPoints) = Hand(Where(s), OpenPoints)
        BY <1>1, <1>3
      <4>. QED  BY <1>3, <3>2, <3>3, <4>1, RowNumbers DEF FitOf, Fit, Vain
    <3>5. /\ rounds.at \in OpenPoints => runs[s].running > 0
          /\ rounds.at = "row" => made[s].rows < made[s].files
          /\ rounds.at = "success" => runs[s].success < made[s].rows
          /\ rounds.at \in {"success", "advance"} => sched[s].ran < made[s].rows
          /\ rounds.at = "giveup" => runs[s].failed >= Ceiling
      BY <3>2 DEF FitOf, Fit
    <3>. QED  BY <1>3, <3>1, <3>4, <3>5 DEF RoundShape, RoundIsStaged
  <2>. QED  BY <2>1, <2>2
<1>4. ASSUME SchedInv, NEW s \in Schedules PROVE FitOf(s)
  <2>1. /\ SchedTypeOK /\ RoundIsStaged
        /\ GivesUpAtCeiling(s) /\ GivenUpForCause(s) /\ BooksAgree(s) /\ MayStillFail(s)
    BY <1>4 DEF SchedInv
  <2>2. Ceiling \in Nat /\ failures \in Nat
    BY <2>1, SchedFacts
  <2>3. Where(s) \in OpenPoints \cup {"row", "success", "advance", "giveup", "later"}
          => rounds.s = s /\ Where(s) = rounds.at
    BY DEF Where, OpenPoints
  <2>4. /\ Where(s) \in OpenPoints => runs[s].running > 0
        /\ Where(s) = "row" => made[s].rows < made[s].files
        /\ Where(s) = "success" => runs[s].success < made[s].rows
        /\ Where(s) \in {"success", "advance"} => sched[s].ran < made[s].rows
        /\ Where(s) = "giveup" => runs[s].failed >= Ceiling
        /\ Where(s) = "later" => Vain(s) < Ceiling + failures
    BY <2>1, <2>3 DEF RoundIsStaged
  <2>5. /\ Where(s) \notin {"count", "giveup"} => AtHand(s, {"count", "giveup"}) = 0
        /\ Where(s) \in OpenPoints => AtHand(s, OpenPoints) = 1
    BY <1>1, <2>1 DEF Hand
  <2>6. /\ Vain(s) = runs[s].failed + runs[s].running - Hand(Where(s), OpenPoints)
        /\ Hand(Where(s), OpenPoints) \in {0, 1}
    BY <1>1, <2>1 DEF Vain
  <2>7. Vain(s) <= Ceiling + failures
        /\ ((sched[s].active /\ Where(s) \notin {"count", "giveup"}) \/ s \in rounds.todo
             \/ Where(s) \in OpenPoints \/ Where(s) = "later" => Vain(s) < Ceiling + failures)
    BY <2>1, <2>4, <2>5 DEF GivesUpAtCeiling, MayStillFail
  <2>8. /\ runs[s].failed + runs[s].running <= Ceiling + failures + Hand(Where(s), OpenPoints)
        /\ (sched[s].active /\ Where(s) \notin {"count", "giveup"}) \/ s \in rounds.todo
             \/ Where(s) \in OpenPoints \/ Where(s) = "later" =>
                runs[s].failed + runs[s].running < Ceiling + failures + Hand(Where(s), OpenPoints)
    BY <2>1, <2>2, <2>6, <2>7, RowNumbers
  <2>. QED  BY <1>1, <2>1, <2>4, <2>8 DEF FitOf, Fit, BooksAgree, GivenUpForCause
<1>5. SchedRest => SchedInv
  BY <1>2, <1>3 DEF SchedRest, SchedInv
<1>6. SchedInv => SchedRest
  BY <1>4 DEF SchedRest, SchedInv, RoundIsStaged, RoundShape
<1>. QED  BY <1>5, <1>6

\* A step on the books of one schedule, or of none, keeps what holds of the others.
LEMMA SchedFrame ==
  ASSUME SchedRest, NEW s, SchedTypeOK', RoundShape', failures <= failures',
         \A o \in Schedules : o /= s =>
           /\ sched'[o].active = sched[o].active /\ sched'[o].deleted = sched[o].deleted
           /\ sched'[o].ran = sched[o].ran /\ runs'[o] = runs[o] /\ made'[o] = made[o]
           /\ rounds.s /= o /\ rounds'.s /= o
           /\ o \in rounds'.todo => o \in rounds.todo \/ sched[o].active,
         s \in Schedules => FitOf(s)'
  PROVE  SchedRest'
<1>1. failures \in Nat /\ failures' \in Nat
  BY SchedFacts DEF SchedRest, SchedTypeOK
<1>2. ASSUME NEW o \in Schedules, o /= s PROVE FitOf(o)'
  <2>1. FitOf(o) /\ Where(o) = "away" /\ Where(o)' = "away"
    BY <1>2 DEF SchedRest, Where
  <2>2. PICK waits \in BOOLEAN, later \in BOOLEAN :
          (waits <=> o \in rounds.todo) /\ (later <=> o \in rounds'.todo)
    OBVIOUS
  <2>3. /\ sched[o].ran \in Nat /\ runs[o].success \in Nat /\ runs[o].failed \in Nat
        /\ runs[o].running \in Nat /\ made[o].files \in Nat /\ made[o].rows \in Nat
        /\ sched[o].active \in BOOLEAN /\ sched[o].deleted \in BOOLEAN
    BY <1>2, RowNumbers DEF SchedRest
  <2>4. Fit(sched[o].active, sched[o].deleted, sched[o].ran, runs[o].success, runs[o].failed,
            runs[o].running, made[o].files, made[o].rows, "away", waits, failures)
    BY <2>1, <2>2 DEF FitOf, Fit
  <2>5. later => waits \/ sched[o].active
    BY <1>2, <2>2
  <2>6. Fit(sched[o].active, sched[o].deleted, sched[o].ran, runs[o].success, runs[o].failed,
            runs[o].running, made[o].files, made[o].rows, "away", later, failures')
    BY <1>1, <2>3, <2>4, <2>5, ReportSchedulesAssumption DEF Fit, Hand, OpenPoints
  <2>7. /\ sched'[o].active = sched[o].active /\ sched'[o].deleted = sched[o].deleted
        /\ sched'[o].ran = sched[o].ran /\ runs'[o] = runs[o] /\ made'[o] = made[o]
    BY <1>2
  <2>. QED  BY <2>1, <2>2, <2>6, <2>7 DEF FitOf, Fit
<1>. QED  BY <1>2 DEF SchedRest

\* No round has run.
LEMMA SchedInitially == SchedInit => SchedInv
<1>. SUFFICES ASSUME SchedInit PROVE SchedInv
  OBVIOUS
<1>1. Ceiling \in Nat \ {0} /\ MaxFailures \in Nat /\ MaxDays \in Nat /\ "none" \notin Schedules
  BY ReportSchedulesAssumption
<1>2. SchedTypeOK
  BY <1>1 DEF SchedInit, SchedTypeOK, NoRound, SchedRows, RunCounts, MadeCounts, Rounds
<1>3. RoundIsStaged
  BY <1>1 DEF SchedInit, RoundIsStaged, NoRound, OpenPoints
<1>. QED
  BY <1>1, <1>2, <1>3 DEF SchedInit, SchedInv, GivesUpAtCeiling, GivenUpForCause, BooksAgree,
     MayStillFail, Vain, AtHand, NoRound, OpenPoints

\* What a step of the pass on the schedule at hand finds.
LEMMA RoundFacts ==
  ASSUME SchedRest, rounds.at \notin {"idle", "next"}
  PROVE  /\ rounds.s \in Schedules /\ rounds.s /= "none" /\ rounds.s \notin rounds.todo
         /\ Fit(sched[rounds.s].active, sched[rounds.s].deleted, sched[rounds.s].ran,
                runs[rounds.s].success, runs[rounds.s].failed, runs[rounds.s].running,
                made[rounds.s].files, made[rounds.s].rows, rounds.at, FALSE, failures)
<1>1. rounds.s \in Schedules /\ rounds.s /= "none" /\ rounds.s \notin rounds.todo
  BY SchedFacts DEF SchedRest, RoundShape, Rounds
<1>2. FitOf(rounds.s) /\ Where(rounds.s) = rounds.at
  BY <1>1 DEF SchedRest, Where
<1>. QED  BY <1>1, <1>2 DEF FitOf, Fit

\* One schedule after a step, from what it was: its numbers are those named.
LEMMA FitAfter ==
  ASSUME NEW s \in Schedules, SchedTypeOK', NEW act, NEW del, NEW ran, NEW success, NEW failed,
         NEW running, NEW objs, NEW rows, NEW w, NEW f,
         sched'[s].active = act, sched'[s].deleted = del, sched'[s].ran = ran,
         runs'[s].success = success, runs'[s].failed = failed, runs'[s].running = running,
         made'[s].files = objs, made'[s].rows = rows, Where(s)' = w, failures' = f,
         s \notin rounds'.todo,
         Fit(act, del, ran, success, failed, running, objs, rows, w, FALSE, f)
  PROVE  FitOf(s)'
BY DEF FitOf, Fit

\* A row, and the counts of a schedule, after a write.
LEMMA RowWrites ==
  /\ \A r \in SchedRows : /\ [r EXCEPT !.due = FALSE] \in SchedRows
                            /\ [r EXCEPT !.due = TRUE] \in SchedRows
                            /\ [r EXCEPT !.active = FALSE] \in SchedRows
                            /\ [r EXCEPT !.deleted = TRUE, !.active = FALSE] \in SchedRows
                            /\ [r EXCEPT !.due = FALSE, !.ran = @ + 1] \in SchedRows
  /\ \A c \in RunCounts : c.running - 1 \in Nat =>
       /\ [c EXCEPT !.success = @ + 1, !.running = @ - 1] \in RunCounts
       /\ [c EXCEPT !.failed = @ + 1, !.running = @ - 1] \in RunCounts
<1>1. ASSUME NEW r \in SchedRows
      PROVE  /\ [r EXCEPT !.due = FALSE] \in SchedRows
             /\ [r EXCEPT !.due = TRUE] \in SchedRows
             /\ [r EXCEPT !.active = FALSE] \in SchedRows
             /\ [r EXCEPT !.deleted = TRUE, !.active = FALSE] \in SchedRows
  BY DEF SchedRows
<1>2. ASSUME NEW r \in SchedRows PROVE [r EXCEPT !.due = FALSE, !.ran = @ + 1] \in SchedRows
  <2>1. PICK n \in Nat : n = r.ran + 1
    BY DEF SchedRows
  <2>2. [r EXCEPT !.due = FALSE, !.ran = n] \in SchedRows
    BY DEF SchedRows
  <2>. QED  BY <2>1, <2>2
<1>3. ASSUME NEW c \in RunCounts, c.running - 1 \in Nat
      PROVE  /\ [c EXCEPT !.success = @ + 1, !.running = @ - 1] \in RunCounts
             /\ [c EXCEPT !.failed = @ + 1, !.running = @ - 1] \in RunCounts
  <2>1. PICK a \in Nat, b \in Nat, n \in Nat :
          a = c.success + 1 /\ b = c.failed + 1 /\ n = c.running - 1
    BY <1>3 DEF RunCounts
  <2>2. [c EXCEPT !.success = a, !.running = n] \in RunCounts
        /\ [c EXCEPT !.failed = b, !.running = n] \in RunCounts
    BY DEF RunCounts
  <2>. QED  BY <2>1, <2>2
<1>. QED  BY <1>1, <1>2, <1>3

\* One failure more, or none.
LEMMA OneFailure ==
  ASSUME SchedTypeOK, (UNCHANGED failures) \/ Failure
  PROVE  /\ failures' \in {failures, failures + 1} /\ failures <= failures'
         /\ failures' \in 0..MaxFailures
BY SchedFacts DEF Failure

\* The handlers and the clock leave the pass alone, and what they write is not counted.
LEMMA SchedHandlers ==
  ASSUME SchedRest, NextDay \/ \E s \in Schedules : UpdateScheduled(s) \/ DeleteScheduled(s)
  PROVE  SchedRest'
<1>1. SchedTypeOK /\ RoundShape /\ \A o \in Schedules : FitOf(o) /\ sched[o] \in SchedRows
  BY RowNumbers DEF SchedRest
<1>2. UNCHANGED <<runs, made, rounds, failures>>
  BY DEF NextDay, UpdateScheduled, DeleteScheduled
<1>3. ASSUME NEW o \in Schedules,
             \/ sched'[o].active = sched[o].active /\ sched'[o].deleted = sched[o].deleted
             \/ ~sched'[o].active /\ sched'[o].deleted,
             sched'[o].active \in BOOLEAN, sched'[o].deleted \in BOOLEAN,
             sched'[o].ran = sched[o].ran
      PROVE  FitOf(o)'
  BY <1>1, <1>2, <1>3 DEF FitOf, Where, Fit
<1>4. ASSUME NEW o \in Schedules
      PROVE  /\ sched'[o] \in SchedRows /\ FitOf(o)'
  <2>1. sched \in [Schedules -> SchedRows]
    BY <1>1, SchedFacts
  <2>2. \/ sched'[o] \in {sched[o], [sched[o] EXCEPT !.due = FALSE], [sched[o] EXCEPT !.due = TRUE]}
        \/ sched'[o] = [sched[o] EXCEPT !.deleted = TRUE, !.active = FALSE]
    BY <2>1 DEF NextDay, UpdateScheduled, DeleteScheduled
  <2>3. /\ sched'[o] \in SchedRows /\ sched'[o].ran = sched[o].ran
        /\ \/ sched'[o].active = sched[o].active /\ sched'[o].deleted = sched[o].deleted
           \/ ~sched'[o].active /\ sched'[o].deleted
    <3>1. sched[o] \in SchedRows
      BY <1>1
    <3>2. sched'[o] \in SchedRows
      BY <2>2, <3>1, RowWrites
    <3>3. sched'[o].ran = sched[o].ran
      BY <2>2, <3>1 DEF SchedRows
    <3>4. CASE sched'[o] = [sched[o] EXCEPT !.deleted = TRUE, !.active = FALSE]
      BY <3>1, <3>4 DEF SchedRows
    <3>5. CASE sched'[o] = sched[o]
      BY <3>1, <3>5
    <3>6. CASE sched'[o] \in {[sched[o] EXCEPT !.due = FALSE], [sched[o] EXCEPT !.due = TRUE]}
      <4>1. sched'[o].active = sched[o].active /\ sched'[o].deleted = sched[o].deleted
        BY <3>1, <3>6 DEF SchedRows
      <4>. QED  BY <3>2, <3>3, <4>1
    <3>. QED  BY <2>2, <3>2, <3>3, <3>4, <3>5, <3>6
  <2>4. sched'[o].active \in BOOLEAN /\ sched'[o].deleted \in BOOLEAN
    BY <2>3 DEF SchedRows
  <2>. QED  BY <1>3, <2>3, <2>4
<1>5. sched' \in [Schedules -> SchedRows]
  <2>1. sched' = [o \in Schedules |-> sched'[o]]
    BY <1>1, SchedFacts DEF NextDay, UpdateScheduled, DeleteScheduled
  <2>. QED  BY <1>4, <2>1
<1>6. days' \in 0..MaxDays
  <2>1. days' = days \/ (days < MaxDays /\ days' = days + 1)
    BY DEF NextDay, UpdateScheduled, DeleteScheduled
  <2>. QED  BY <1>1, <2>1, SchedFacts
<1>7. SchedTypeOK'
  BY <1>1, <1>2, <1>5, <1>6, SchedFacts DEF SchedTypeOK
<1>. QED  BY <1>1, <1>2, <1>4, <1>7 DEF SchedRest, RoundShape

\* A pass that takes the due schedules takes active ones.
LEMMA SchedTaken ==
  ASSUME SchedRest, RunDue
  PROVE  SchedRest'
<1>1. SchedTypeOK /\ RoundShape
  BY DEF SchedRest
<1>2. rounds' \in Rounds /\ rounds'.s = "none" /\ rounds'.todo = DueSchedules /\ rounds'.at = "next"
  BY DEF RunDue, Rounds, DueSchedules
<1>3. SchedTypeOK' /\ RoundShape'
  BY <1>1, <1>2, SchedFacts DEF RunDue, SchedTypeOK, RoundShape, DueSchedules
<1>4. rounds.s = "none"
  BY <1>1 DEF RunDue, RoundShape
<1>5. failures <= failures'
  BY <1>1, SchedFacts DEF RunDue
<1>6. \A o \in Schedules : o /= "none" /\ (o \in rounds'.todo => sched[o].active)
  BY <1>1, <1>2, SchedFacts DEF DueSchedules
<1>7. UNCHANGED <<sched, runs, made>>
  BY DEF RunDue
<1>8. "none" \notin Schedules
  BY <1>1, SchedFacts
<1>. QED  BY <1>2, <1>3, <1>4, <1>5, <1>6, <1>7, <1>8, SchedFrame

\* A run is opened, or the schedule is skipped.
LEMMA SchedBegun ==
  ASSUME SchedRest, NEW s \in rounds.todo, BeginRun(s)
  PROVE  SchedRest'
<1>1. SchedTypeOK /\ RoundShape /\ rounds.s = "none" /\ s \in Schedules /\ s /= "none" /\ FitOf(s)
  BY SchedFacts DEF SchedRest, RoundShape, BeginRun, Rounds
<1>2. /\ sched[s].ran \in Nat /\ runs[s].success \in Nat /\ runs[s].failed \in Nat
      /\ runs[s].running \in Nat /\ made[s].files \in Nat /\ made[s].rows \in Nat
      /\ sched[s].active \in BOOLEAN /\ sched[s].deleted \in BOOLEAN /\ failures \in Nat
      /\ runs[s] \in RunCounts /\ runs \in [Schedules -> RunCounts] /\ rounds \in Rounds
  BY <1>1, RowNumbers, SchedFacts
<1>3. Fit(sched[s].active, sched[s].deleted, sched[s].ran, runs[s].success, runs[s].failed,
          runs[s].running, made[s].files, made[s].rows, "away", TRUE, failures)
  BY <1>1 DEF FitOf, Where, Fit
<1>4. \A o \in Schedules : o /= s =>
        /\ sched'[o] = sched[o] /\ runs'[o] = runs[o] /\ made'[o] = made[o]
        /\ rounds.s /= o /\ rounds'.s /= o
        /\ o \in rounds'.todo => o \in rounds.todo
  <2>1. \A o \in Schedules : o /= s => runs'[o] = runs[o]
    BY <1>2 DEF BeginRun
  <2>2. rounds'.todo \subseteq rounds.todo /\ rounds'.s \in {s, "none"}
    BY <1>1, <1>2 DEF BeginRun, NoRound, Rounds
  <2>. QED  BY <1>1, <2>1, <2>2, SchedFacts DEF BeginRun
<1>5. UNCHANGED <<sched, made, days>> /\ s \notin rounds'.todo
  BY <1>2 DEF BeginRun, NoRound, Rounds
<1>6. CASE /\ rounds' = [at |-> "write", todo |-> rounds.todo \ {s}, s |-> s]
           /\ runs' = [runs EXCEPT ![s].running = @ + 1]
           /\ UNCHANGED failures
  <2>1. runs'[s] = [runs[s] EXCEPT !.running = @ + 1] /\ Where(s)' = "write"
    BY <1>1, <1>2, <1>6 DEF Where
  <2>2. runs'[s].success = runs[s].success /\ runs'[s].failed = runs[s].failed
        /\ runs'[s].running = runs[s].running + 1
    BY <1>2, <2>1 DEF RunCounts
  <2>3. SchedTypeOK'
    BY <1>1, <1>2, <1>5, <1>6, SchedFacts DEF SchedTypeOK, RunCounts, Rounds, OpenPoints
  <2>4. RoundShape'
    BY <1>1, <1>6 DEF RoundShape
  <2>5. Fit(sched[s].active, sched[s].deleted, sched[s].ran, runs[s].success, runs[s].failed,
            runs[s].running + 1, made[s].files, made[s].rows, "write", FALSE, failures)
    BY <1>2, <1>3, ReportSchedulesAssumption DEF Fit, Hand, OpenPoints
  <2>6. FitOf(s)'
    BY <1>1, <1>5, <1>6, <2>1, <2>2, <2>3, <2>5, FitAfter
  <2>. QED  BY <1>2, <1>4, <1>6, <2>3, <2>4, <2>6, SchedFrame
<1>7. CASE /\ Failure
           /\ rounds' = IF rounds.todo = {s} THEN NoRound ELSE [rounds EXCEPT !.todo = @ \ {s}]
           /\ runs' \in {runs, [runs EXCEPT ![s].running = @ + 1]}
  <2>1. Where(s)' = "away" /\ failures' = failures + 1 /\ failures <= failures'
    BY <1>1, <1>2, <1>7 DEF Where, NoRound, Failure, Rounds
  <2>2. runs'[s].success = runs[s].success /\ runs'[s].failed = runs[s].failed
        /\ runs'[s].running \in {runs[s].running, runs[s].running + 1}
    BY <1>1, <1>2, <1>7 DEF RunCounts
  <2>3. SchedTypeOK'
    <3>1. runs' \in [Schedules -> RunCounts]
      BY <1>2, <1>7 DEF RunCounts
    <3>2. rounds' \in Rounds
      BY <1>2, <1>7 DEF Rounds, NoRound
    <3>3. failures' \in 0..MaxFailures
      BY <1>1, <1>7, OneFailure
    <3>. QED  BY <1>1, <1>5, <3>1, <3>2, <3>3 DEF SchedTypeOK
  <2>4. RoundShape'
    BY <1>1, <1>2, <1>7 DEF RoundShape, NoRound, BeginRun, Rounds
  <2>5. Fit(sched[s].active, sched[s].deleted, sched[s].ran, runs[s].success, runs[s].failed,
            runs'[s].running, made[s].files, made[s].rows, "away", FALSE, failures + 1)
    <3>1. CASE runs'[s].running = runs[s].running
      BY <1>2, <1>3, <3>1, ReportSchedulesAssumption DEF Fit, Hand, OpenPoints
    <3>2. CASE runs'[s].running = runs[s].running + 1
      BY <1>2, <1>3, <3>2, ReportSchedulesAssumption DEF Fit, Hand, OpenPoints
    <3>. QED  BY <2>2, <3>1, <3>2
  <2>6. FitOf(s)'
    BY <1>1, <1>5, <2>1, <2>2, <2>3, <2>5, FitAfter
  <2>. QED  BY <1>4, <2>1, <2>3, <2>4, <2>6, SchedFrame
<1>. QED  BY <1>6, <1>7 DEF BeginRun

\* What a step on the schedule at hand leaves of the others, and what is left to show.
LEMMA SchedAtHand ==
  ASSUME SchedRest, rounds.at \notin {"idle", "next"}, SchedTypeOK', RoundShape',
         failures <= failures', rounds'.todo = rounds.todo, rounds'.s \in {rounds.s, "none"},
         \A o \in Schedules : o /= rounds.s =>
           sched'[o] = sched[o] /\ runs'[o] = runs[o] /\ made'[o] = made[o],
         NEW act, NEW del, NEW ran, NEW success, NEW failed,
         NEW running, NEW objs, NEW rows, NEW w,
         sched'[rounds.s].active = act, sched'[rounds.s].deleted = del, sched'[rounds.s].ran = ran,
         runs'[rounds.s].success = success, runs'[rounds.s].failed = failed,
         runs'[rounds.s].running = running,
         made'[rounds.s].files = objs, made'[rounds.s].rows = rows,
         w = (IF rounds'.s = "none" THEN "away" ELSE rounds'.at),
         Fit(act, del, ran, success, failed, running, objs, rows, w, FALSE, failures')
  PROVE  SchedRest'
<1>1. PICK s \in Schedules : s = rounds.s /\ s /= "none" /\ s \notin rounds.todo
  BY RoundFacts
<1>2. Where(s)' = w
  BY <1>1 DEF Where
<1>3. FitOf(s)'
  BY <1>1, <1>2, FitAfter
<1>4. "none" \notin Schedules
  BY SchedFacts DEF SchedRest
<1>. QED  BY <1>1, <1>3, <1>4, SchedFrame

\* The numbers of the schedule at hand.
LEMMA HandNumbers ==
  ASSUME SchedRest, rounds.at \notin {"idle", "next"}
  PROVE  /\ SchedTypeOK /\ RoundShape /\ rounds.s \in Schedules /\ rounds.s /= "none"
         /\ rounds.s \notin rounds.todo
         /\ sched[rounds.s] \in SchedRows /\ runs[rounds.s] \in RunCounts
         /\ made[rounds.s] \in MadeCounts
         /\ sched[rounds.s].ran \in Nat /\ runs[rounds.s].success \in Nat
         /\ runs[rounds.s].failed \in Nat /\ runs[rounds.s].running \in Nat
         /\ made[rounds.s].files \in Nat /\ made[rounds.s].rows \in Nat
         /\ sched[rounds.s].active \in BOOLEAN /\ sched[rounds.s].deleted \in BOOLEAN
         /\ sched \in [Schedules -> SchedRows] /\ runs \in [Schedules -> RunCounts]
         /\ made \in [Schedules -> MadeCounts] /\ rounds \in Rounds
         /\ failures \in Nat /\ failures \in 0..MaxFailures /\ days \in 0..MaxDays
         /\ MaxFailures \in Nat /\ Ceiling \in Nat /\ "none" \notin Schedules
<1>1. SchedTypeOK /\ RoundShape /\ rounds.s \in Schedules /\ rounds.s /= "none"
      /\ rounds.s \notin rounds.todo
  BY RoundFacts DEF SchedRest
<1>2. PICK s \in Schedules : s = rounds.s
  BY <1>1
<1>. QED  BY <1>1, <1>2, RowNumbers, SchedFacts

\* An object is written, or nothing is.
LEMMA SchedWritten ==
  ASSUME SchedRest, WriteObject
  PROVE  SchedRest'
<1>1. rounds.at = "write"
  BY DEF WriteObject
<1>2. Fit(sched[rounds.s].active, sched[rounds.s].deleted, sched[rounds.s].ran, runs[rounds.s].success,
          runs[rounds.s].failed, runs[rounds.s].running, made[rounds.s].files,
          made[rounds.s].rows, "write", FALSE, failures)
  BY <1>1, RoundFacts
<1>3. CASE /\ made' = [made EXCEPT ![rounds.s].files = @ + 1]
           /\ rounds' = [rounds EXCEPT !.at = "row"]
  <2>1. /\ sched'[rounds.s].active = sched[rounds.s].active
        /\ sched'[rounds.s].ran = sched[rounds.s].ran
        /\ runs'[rounds.s].success = runs[rounds.s].success
        /\ runs'[rounds.s].failed = runs[rounds.s].failed
        /\ runs'[rounds.s].running = runs[rounds.s].running
        /\ made'[rounds.s].files = made[rounds.s].files + 1
        /\ made'[rounds.s].rows = made[rounds.s].rows
        /\ sched'[rounds.s].deleted = sched[rounds.s].deleted
    BY <1>3, HandNumbers, <1>1 DEF WriteObject, SchedRows, RunCounts, MadeCounts
  <2>2. \A o \in Schedules : o /= rounds.s =>
          sched'[o] = sched[o] /\ runs'[o] = runs[o] /\ made'[o] = made[o]
    BY <1>3, HandNumbers, <1>1 DEF WriteObject
  <2>3. SchedTypeOK'
    <3>1. sched' \in [Schedules -> SchedRows] /\ runs' \in [Schedules -> RunCounts]
          /\ made' \in [Schedules -> MadeCounts]
      BY <1>3, HandNumbers, <1>1 DEF WriteObject, SchedRows, RunCounts, MadeCounts
    <3>2. rounds' \in Rounds /\ days' \in 0..MaxDays
      BY <1>3, HandNumbers, <1>1 DEF WriteObject, NextRound, NoRound, Rounds, OpenPoints
    <3>3. failures' \in 0..MaxFailures
      BY <1>3, HandNumbers, <1>1, OneFailure DEF WriteObject
    <3>. QED  BY <3>1, <3>2, <3>3 DEF SchedTypeOK
  <2>4. RoundShape' /\ rounds'.todo = rounds.todo /\ rounds'.s \in {rounds.s, "none"}
        /\ "row" = (IF rounds'.s = "none" THEN "away" ELSE rounds'.at)
    BY <1>3, HandNumbers, <1>1 DEF WriteObject, RoundShape, NextRound, NoRound, Rounds
  <2>5. failures' = failures /\ failures <= failures'
    BY <1>3, HandNumbers, <1>1 DEF WriteObject, Failure
  <2>6. Fit(sched[rounds.s].active, sched[rounds.s].deleted, sched[rounds.s].ran, runs[rounds.s].success,
              runs[rounds.s].failed, runs[rounds.s].running, made[rounds.s].files + 1,
              made[rounds.s].rows, "row", FALSE, failures)
    BY <1>1, <1>2, <1>3, HandNumbers DEF Fit, Hand, OpenPoints
  <2>7. rounds.at \notin {"idle", "next"}
    BY <1>1
  <2>. QED  BY <2>1, <2>2, <2>3, <2>4, <2>5, <2>6, <2>7, SchedAtHand
<1>4. CASE rounds' = [rounds EXCEPT !.at = "failed"] /\ UNCHANGED made
  <2>1. /\ sched'[rounds.s].active = sched[rounds.s].active
        /\ sched'[rounds.s].ran = sched[rounds.s].ran
        /\ runs'[rounds.s].success = runs[rounds.s].success
        /\ runs'[rounds.s].failed = runs[rounds.s].failed
        /\ runs'[rounds.s].running = runs[rounds.s].running
        /\ made'[rounds.s].files = made[rounds.s].files
        /\ made'[rounds.s].rows = made[rounds.s].rows
        /\ sched'[rounds.s].deleted = sched[rounds.s].deleted
    BY <1>4, HandNumbers, <1>1 DEF WriteObject, SchedRows, RunCounts, MadeCounts
  <2>2. \A o \in Schedules : o /= rounds.s =>
          sched'[o] = sched[o] /\ runs'[o] = runs[o] /\ made'[o] = made[o]
    BY <1>4, HandNumbers, <1>1 DEF WriteObject
  <2>3. SchedTypeOK'
    <3>1. sched' \in [Schedules -> SchedRows] /\ runs' \in [Schedules -> RunCounts]
          /\ made' \in [Schedules -> MadeCounts]
      BY <1>4, HandNumbers, <1>1 DEF WriteObject, SchedRows, RunCounts, MadeCounts
    <3>2. rounds' \in Rounds /\ days' \in 0..MaxDays
      BY <1>4, HandNumbers, <1>1 DEF WriteObject, NextRound, NoRound, Rounds, OpenPoints
    <3>3. failures' \in 0..MaxFailures
      BY <1>4, HandNumbers, <1>1, OneFailure DEF WriteObject
    <3>. QED  BY <3>1, <3>2, <3>3 DEF SchedTypeOK
  <2>4. RoundShape' /\ rounds'.todo = rounds.todo /\ rounds'.s \in {rounds.s, "none"}
        /\ "failed" = (IF rounds'.s = "none" THEN "away" ELSE rounds'.at)
    BY <1>4, HandNumbers, <1>1 DEF WriteObject, RoundShape, NextRound, NoRound, Rounds
  <2>5. failures' = failures /\ failures <= failures'
    BY <1>4, HandNumbers, <1>1 DEF WriteObject, Failure
  <2>6. Fit(sched[rounds.s].active, sched[rounds.s].deleted, sched[rounds.s].ran, runs[rounds.s].success,
              runs[rounds.s].failed, runs[rounds.s].running, made[rounds.s].files,
              made[rounds.s].rows, "failed", FALSE, failures)
    BY <1>1, <1>2, <1>4, HandNumbers DEF Fit, Hand, OpenPoints
  <2>7. rounds.at \notin {"idle", "next"}
    BY <1>1
  <2>. QED  BY <2>1, <2>2, <2>3, <2>4, <2>5, <2>6, <2>7, SchedAtHand
<1>. QED  BY <1>3, <1>4 DEF WriteObject

\* The report is inserted, or the run has failed, whether or not it was.
LEMMA SchedInserted ==
  ASSUME SchedRest, InsertReport
  PROVE  SchedRest'
<1>1. rounds.at = "row"
  BY DEF InsertReport
<1>2. Fit(sched[rounds.s].active, sched[rounds.s].deleted, sched[rounds.s].ran, runs[rounds.s].success,
          runs[rounds.s].failed, runs[rounds.s].running, made[rounds.s].files,
          made[rounds.s].rows, "row", FALSE, failures)
  BY <1>1, RoundFacts
<1>3. CASE /\ made' = [made EXCEPT ![rounds.s].rows = @ + 1]
           /\ rounds' = [rounds EXCEPT !.at = "success"]
           /\ UNCHANGED failures
  <2>1. /\ sched'[rounds.s].active = sched[rounds.s].active
        /\ sched'[rounds.s].ran = sched[rounds.s].ran
        /\ runs'[rounds.s].success = runs[rounds.s].success
        /\ runs'[rounds.s].failed = runs[rounds.s].failed
        /\ runs'[rounds.s].running = runs[rounds.s].running
        /\ made'[rounds.s].files = made[rounds.s].files
        /\ made'[rounds.s].rows = made[rounds.s].rows + 1
        /\ sched'[rounds.s].deleted = sched[rounds.s].deleted
    BY <1>3, HandNumbers, <1>1 DEF InsertReport, SchedRows, RunCounts, MadeCounts
  <2>2. \A o \in Schedules : o /= rounds.s =>
          sched'[o] = sched[o] /\ runs'[o] = runs[o] /\ made'[o] = made[o]
    BY <1>3, HandNumbers, <1>1 DEF InsertReport
  <2>3. SchedTypeOK'
    <3>1. sched' \in [Schedules -> SchedRows] /\ runs' \in [Schedules -> RunCounts]
          /\ made' \in [Schedules -> MadeCounts]
      BY <1>3, HandNumbers, <1>1 DEF InsertReport, SchedRows, RunCounts, MadeCounts
    <3>2. rounds' \in Rounds /\ days' \in 0..MaxDays
      BY <1>3, HandNumbers, <1>1 DEF InsertReport, NextRound, NoRound, Rounds, OpenPoints
    <3>3. failures' \in 0..MaxFailures
      BY <1>3, HandNumbers, <1>1, OneFailure DEF InsertReport
    <3>. QED  BY <3>1, <3>2, <3>3 DEF SchedTypeOK
  <2>4. RoundShape' /\ rounds'.todo = rounds.todo /\ rounds'.s \in {rounds.s, "none"}
        /\ "success" = (IF rounds'.s = "none" THEN "away" ELSE rounds'.at)
    BY <1>3, HandNumbers, <1>1 DEF InsertReport, RoundShape, NextRound, NoRound, Rounds
  <2>5. failures' = failures /\ failures <= failures'
    BY <1>3, HandNumbers, <1>1 DEF InsertReport, Failure
  <2>6. Fit(sched[rounds.s].active, sched[rounds.s].deleted, sched[rounds.s].ran, runs[rounds.s].success,
              runs[rounds.s].failed, runs[rounds.s].running, made[rounds.s].files,
              made[rounds.s].rows + 1, "success", FALSE, failures)
    BY <1>1, <1>2, <1>3, HandNumbers DEF Fit, Hand, OpenPoints
  <2>7. rounds.at \notin {"idle", "next"}
    BY <1>1
  <2>. QED  BY <2>1, <2>2, <2>3, <2>4, <2>5, <2>6, <2>7, SchedAtHand
<1>4. CASE /\ Failure /\ made' = made
           /\ rounds' = [rounds EXCEPT !.at = "failed"]
  <2>1. /\ sched'[rounds.s].active = sched[rounds.s].active
        /\ sched'[rounds.s].ran = sched[rounds.s].ran
        /\ runs'[rounds.s].success = runs[rounds.s].success
        /\ runs'[rounds.s].failed = runs[rounds.s].failed
        /\ runs'[rounds.s].running = runs[rounds.s].running
        /\ made'[rounds.s].files = made[rounds.s].files
        /\ made'[rounds.s].rows = made[rounds.s].rows
        /\ sched'[rounds.s].deleted = sched[rounds.s].deleted
    BY <1>4, HandNumbers, <1>1 DEF InsertReport, SchedRows, RunCounts, MadeCounts
  <2>2. \A o \in Schedules : o /= rounds.s =>
          sched'[o] = sched[o] /\ runs'[o] = runs[o] /\ made'[o] = made[o]
    BY <1>4, HandNumbers, <1>1 DEF InsertReport
  <2>3. SchedTypeOK'
    <3>1. sched' \in [Schedules -> SchedRows] /\ runs' \in [Schedules -> RunCounts]
          /\ made' \in [Schedules -> MadeCounts]
      BY <1>4, HandNumbers, <1>1 DEF InsertReport, SchedRows, RunCounts, MadeCounts
    <3>2. rounds' \in Rounds /\ days' \in 0..MaxDays
      BY <1>4, HandNumbers, <1>1 DEF InsertReport, NextRound, NoRound, Rounds, OpenPoints
    <3>3. failures' \in 0..MaxFailures
      BY <1>4, HandNumbers, <1>1, OneFailure DEF InsertReport
    <3>. QED  BY <3>1, <3>2, <3>3 DEF SchedTypeOK
  <2>4. RoundShape' /\ rounds'.todo = rounds.todo /\ rounds'.s \in {rounds.s, "none"}
        /\ "failed" = (IF rounds'.s = "none" THEN "away" ELSE rounds'.at)
    BY <1>4, HandNumbers, <1>1 DEF InsertReport, RoundShape, NextRound, NoRound, Rounds
  <2>5. failures' = failures + 1 /\ failures <= failures'
    BY <1>4, HandNumbers, <1>1 DEF InsertReport, Failure
  <2>6. Fit(sched[rounds.s].active, sched[rounds.s].deleted, sched[rounds.s].ran, runs[rounds.s].success,
              runs[rounds.s].failed, runs[rounds.s].running, made[rounds.s].files,
              made[rounds.s].rows, "failed", FALSE, failures + 1)
    BY <1>1, <1>2, <1>4, HandNumbers DEF Fit, Hand, OpenPoints
  <2>7. rounds.at \notin {"idle", "next"}
    BY <1>1
  <2>. QED  BY <2>1, <2>2, <2>3, <2>4, <2>5, <2>6, <2>7, SchedAtHand
<1>5. CASE /\ Failure /\ made' = [made EXCEPT ![rounds.s].rows = @ + 1]
           /\ rounds' = [rounds EXCEPT !.at = "failed"]
  <2>1. /\ sched'[rounds.s].active = sched[rounds.s].active
        /\ sched'[rounds.s].ran = sched[rounds.s].ran
        /\ runs'[rounds.s].success = runs[rounds.s].success
        /\ runs'[rounds.s].failed = runs[rounds.s].failed
        /\ runs'[rounds.s].running = runs[rounds.s].running
        /\ made'[rounds.s].files = made[rounds.s].files
        /\ made'[rounds.s].rows = made[rounds.s].rows + 1
        /\ sched'[rounds.s].deleted = sched[rounds.s].deleted
    BY <1>5, HandNumbers, <1>1 DEF InsertReport, SchedRows, RunCounts, MadeCounts
  <2>2. \A o \in Schedules : o /= rounds.s =>
          sched'[o] = sched[o] /\ runs'[o] = runs[o] /\ made'[o] = made[o]
    BY <1>5, HandNumbers, <1>1 DEF InsertReport
  <2>3. SchedTypeOK'
    <3>1. sched' \in [Schedules -> SchedRows] /\ runs' \in [Schedules -> RunCounts]
          /\ made' \in [Schedules -> MadeCounts]
      BY <1>5, HandNumbers, <1>1 DEF InsertReport, SchedRows, RunCounts, MadeCounts
    <3>2. rounds' \in Rounds /\ days' \in 0..MaxDays
      BY <1>5, HandNumbers, <1>1 DEF InsertReport, NextRound, NoRound, Rounds, OpenPoints
    <3>3. failures' \in 0..MaxFailures
      BY <1>5, HandNumbers, <1>1, OneFailure DEF InsertReport
    <3>. QED  BY <3>1, <3>2, <3>3 DEF SchedTypeOK
  <2>4. RoundShape' /\ rounds'.todo = rounds.todo /\ rounds'.s \in {rounds.s, "none"}
        /\ "failed" = (IF rounds'.s = "none" THEN "away" ELSE rounds'.at)
    BY <1>5, HandNumbers, <1>1 DEF InsertReport, RoundShape, NextRound, NoRound, Rounds
  <2>5. failures' = failures + 1 /\ failures <= failures'
    BY <1>5, HandNumbers, <1>1 DEF InsertReport, Failure
  <2>6. Fit(sched[rounds.s].active, sched[rounds.s].deleted, sched[rounds.s].ran, runs[rounds.s].success,
              runs[rounds.s].failed, runs[rounds.s].running, made[rounds.s].files,
              made[rounds.s].rows + 1, "failed", FALSE, failures + 1)
    BY <1>1, <1>2, <1>5, HandNumbers DEF Fit, Hand, OpenPoints
  <2>7. rounds.at \notin {"idle", "next"}
    BY <1>1
  <2>. QED  BY <2>1, <2>2, <2>3, <2>4, <2>5, <2>6, <2>7, SchedAtHand
<1>. QED  BY <1>3, <1>4, <1>5 DEF InsertReport

\* The run row of a success is closed, or stays open for a statement that failed.
LEMMA SchedSucceeded ==
  ASSUME SchedRest, RecordSuccess
  PROVE  SchedRest'
<1>1. rounds.at = "success"
  BY DEF RecordSuccess, CloseRun
<1>2. Fit(sched[rounds.s].active, sched[rounds.s].deleted, sched[rounds.s].ran, runs[rounds.s].success,
          runs[rounds.s].failed, runs[rounds.s].running, made[rounds.s].files,
          made[rounds.s].rows, "success", FALSE, failures)
  BY <1>1, RoundFacts
<1>3. CASE /\ runs' = [runs EXCEPT ![rounds.s] =
                           [runs[rounds.s] EXCEPT !.success = @ + 1, !.running = @ - 1]]
           /\ UNCHANGED failures
  <2>1. /\ sched'[rounds.s].active = sched[rounds.s].active
        /\ sched'[rounds.s].ran = sched[rounds.s].ran
        /\ runs'[rounds.s].success = runs[rounds.s].success + 1
        /\ runs'[rounds.s].failed = runs[rounds.s].failed
        /\ runs'[rounds.s].running = runs[rounds.s].running - 1
        /\ made'[rounds.s].files = made[rounds.s].files
        /\ made'[rounds.s].rows = made[rounds.s].rows
        /\ sched'[rounds.s].deleted = sched[rounds.s].deleted
    BY <1>3, HandNumbers, <1>1 DEF RecordSuccess, CloseRun, SchedRows, RunCounts, MadeCounts
  <2>2. \A o \in Schedules : o /= rounds.s =>
          sched'[o] = sched[o] /\ runs'[o] = runs[o] /\ made'[o] = made[o]
    BY <1>3, HandNumbers, <1>1 DEF RecordSuccess, CloseRun
  <2>3. SchedTypeOK'
    <3>1. sched' \in [Schedules -> SchedRows] /\ runs' \in [Schedules -> RunCounts]
          /\ made' \in [Schedules -> MadeCounts]
      <4>1. runs[rounds.s].running - 1 \in Nat
        BY <1>1, <1>2, HandNumbers DEF Fit, OpenPoints
      <4>2. runs' \in [Schedules -> RunCounts]
        <5>1. runs'[rounds.s] \in RunCounts
          BY <1>1, <1>3, <4>1, HandNumbers, RowWrites
        <5>. QED  BY <1>1, <1>3, <5>1, HandNumbers
      <4>. QED  BY <1>1, <1>3, <4>2, HandNumbers DEF RecordSuccess, CloseRun
    <3>2. rounds' \in Rounds /\ days' \in 0..MaxDays
      BY <1>3, HandNumbers, <1>1 DEF RecordSuccess, CloseRun, NextRound, NoRound, Rounds, OpenPoints
    <3>3. failures' \in 0..MaxFailures
      BY <1>3, HandNumbers, <1>1, OneFailure DEF RecordSuccess, CloseRun
    <3>. QED  BY <3>1, <3>2, <3>3 DEF SchedTypeOK
  <2>4. RoundShape' /\ rounds'.todo = rounds.todo /\ rounds'.s \in {rounds.s, "none"}
        /\ "advance" = (IF rounds'.s = "none" THEN "away" ELSE rounds'.at)
    BY <1>3, HandNumbers, <1>1 DEF RecordSuccess, CloseRun, RoundShape, NextRound, NoRound, Rounds
  <2>5. failures' = failures /\ failures <= failures'
    BY <1>3, HandNumbers, <1>1 DEF RecordSuccess, CloseRun, Failure
  <2>6. Fit(sched[rounds.s].active, sched[rounds.s].deleted, sched[rounds.s].ran, runs[rounds.s].success + 1,
              runs[rounds.s].failed, runs[rounds.s].running - 1, made[rounds.s].files,
              made[rounds.s].rows, "advance", FALSE, failures)
    BY <1>1, <1>2, <1>3, HandNumbers DEF Fit, Hand, OpenPoints
  <2>7. rounds.at \notin {"idle", "next"}
    BY <1>1
  <2>. QED  BY <2>1, <2>2, <2>3, <2>4, <2>5, <2>6, <2>7, SchedAtHand
<1>4. CASE Failure /\ UNCHANGED runs
  <2>1. /\ sched'[rounds.s].active = sched[rounds.s].active
        /\ sched'[rounds.s].ran = sched[rounds.s].ran
        /\ runs'[rounds.s].success = runs[rounds.s].success
        /\ runs'[rounds.s].failed = runs[rounds.s].failed
        /\ runs'[rounds.s].running = runs[rounds.s].running
        /\ made'[rounds.s].files = made[rounds.s].files
        /\ made'[rounds.s].rows = made[rounds.s].rows
        /\ sched'[rounds.s].deleted = sched[rounds.s].deleted
    BY <1>4, HandNumbers, <1>1 DEF RecordSuccess, CloseRun, SchedRows, RunCounts, MadeCounts
  <2>2. \A o \in Schedules : o /= rounds.s =>
          sched'[o] = sched[o] /\ runs'[o] = runs[o] /\ made'[o] = made[o]
    BY <1>4, HandNumbers, <1>1 DEF RecordSuccess, CloseRun
  <2>3. SchedTypeOK'
    <3>1. sched' \in [Schedules -> SchedRows] /\ runs' \in [Schedules -> RunCounts]
          /\ made' \in [Schedules -> MadeCounts]
      BY <1>4, HandNumbers, <1>1 DEF RecordSuccess, CloseRun, SchedRows, RunCounts, MadeCounts
    <3>2. rounds' \in Rounds /\ days' \in 0..MaxDays
      BY <1>4, HandNumbers, <1>1 DEF RecordSuccess, CloseRun, NextRound, NoRound, Rounds, OpenPoints
    <3>3. failures' \in 0..MaxFailures
      BY <1>4, HandNumbers, <1>1, OneFailure DEF RecordSuccess, CloseRun
    <3>. QED  BY <3>1, <3>2, <3>3 DEF SchedTypeOK
  <2>4. RoundShape' /\ rounds'.todo = rounds.todo /\ rounds'.s \in {rounds.s, "none"}
        /\ "advance" = (IF rounds'.s = "none" THEN "away" ELSE rounds'.at)
    BY <1>4, HandNumbers, <1>1 DEF RecordSuccess, CloseRun, RoundShape, NextRound, NoRound, Rounds
  <2>5. failures' = failures + 1 /\ failures <= failures'
    BY <1>4, HandNumbers, <1>1 DEF RecordSuccess, CloseRun, Failure
  <2>6. Fit(sched[rounds.s].active, sched[rounds.s].deleted, sched[rounds.s].ran, runs[rounds.s].success,
              runs[rounds.s].failed, runs[rounds.s].running, made[rounds.s].files,
              made[rounds.s].rows, "advance", FALSE, failures + 1)
    BY <1>1, <1>2, <1>4, HandNumbers DEF Fit, Hand, OpenPoints
  <2>7. rounds.at \notin {"idle", "next"}
    BY <1>1
  <2>. QED  BY <2>1, <2>2, <2>3, <2>4, <2>5, <2>6, <2>7, SchedAtHand
<1>. QED  BY <1>3, <1>4 DEF RecordSuccess, CloseRun

\* The run row of a failure is closed, or stays open for a statement that failed.
LEMMA SchedFailed ==
  ASSUME SchedRest, RecordFailure
  PROVE  SchedRest'
<1>1. rounds.at = "failed"
  BY DEF RecordFailure, CloseRun
<1>2. Fit(sched[rounds.s].active, sched[rounds.s].deleted, sched[rounds.s].ran, runs[rounds.s].success,
          runs[rounds.s].failed, runs[rounds.s].running, made[rounds.s].files,
          made[rounds.s].rows, "failed", FALSE, failures)
  BY <1>1, RoundFacts
<1>3. CASE /\ runs' = [runs EXCEPT ![rounds.s] =
                           [runs[rounds.s] EXCEPT !.failed = @ + 1, !.running = @ - 1]]
           /\ UNCHANGED failures
  <2>1. /\ sched'[rounds.s].active = sched[rounds.s].active
        /\ sched'[rounds.s].ran = sched[rounds.s].ran
        /\ runs'[rounds.s].success = runs[rounds.s].success
        /\ runs'[rounds.s].failed = runs[rounds.s].failed + 1
        /\ runs'[rounds.s].running = runs[rounds.s].running - 1
        /\ made'[rounds.s].files = made[rounds.s].files
        /\ made'[rounds.s].rows = made[rounds.s].rows
        /\ sched'[rounds.s].deleted = sched[rounds.s].deleted
    BY <1>3, HandNumbers, <1>1 DEF RecordFailure, CloseRun, SchedRows, RunCounts, MadeCounts
  <2>2. \A o \in Schedules : o /= rounds.s =>
          sched'[o] = sched[o] /\ runs'[o] = runs[o] /\ made'[o] = made[o]
    BY <1>3, HandNumbers, <1>1 DEF RecordFailure, CloseRun
  <2>3. SchedTypeOK'
    <3>1. sched' \in [Schedules -> SchedRows] /\ runs' \in [Schedules -> RunCounts]
          /\ made' \in [Schedules -> MadeCounts]
      <4>1. runs[rounds.s].running - 1 \in Nat
        BY <1>1, <1>2, HandNumbers DEF Fit, OpenPoints
      <4>2. runs' \in [Schedules -> RunCounts]
        <5>1. runs'[rounds.s] \in RunCounts
          BY <1>1, <1>3, <4>1, HandNumbers, RowWrites
        <5>. QED  BY <1>1, <1>3, <5>1, HandNumbers
      <4>. QED  BY <1>1, <1>3, <4>2, HandNumbers DEF RecordFailure, CloseRun
    <3>2. rounds' \in Rounds /\ days' \in 0..MaxDays
      BY <1>3, HandNumbers, <1>1 DEF RecordFailure, CloseRun, NextRound, NoRound, Rounds, OpenPoints
    <3>3. failures' \in 0..MaxFailures
      BY <1>3, HandNumbers, <1>1, OneFailure DEF RecordFailure, CloseRun
    <3>. QED  BY <3>1, <3>2, <3>3 DEF SchedTypeOK
  <2>4. RoundShape' /\ rounds'.todo = rounds.todo /\ rounds'.s \in {rounds.s, "none"}
        /\ "count" = (IF rounds'.s = "none" THEN "away" ELSE rounds'.at)
    BY <1>3, HandNumbers, <1>1 DEF RecordFailure, CloseRun, RoundShape, NextRound, NoRound, Rounds
  <2>5. failures' = failures /\ failures <= failures'
    BY <1>3, HandNumbers, <1>1 DEF RecordFailure, CloseRun, Failure
  <2>6. Fit(sched[rounds.s].active, sched[rounds.s].deleted, sched[rounds.s].ran, runs[rounds.s].success,
              runs[rounds.s].failed + 1, runs[rounds.s].running - 1, made[rounds.s].files,
              made[rounds.s].rows, "count", FALSE, failures)
    BY <1>1, <1>2, <1>3, HandNumbers DEF Fit, Hand, OpenPoints
  <2>7. rounds.at \notin {"idle", "next"}
    BY <1>1
  <2>. QED  BY <2>1, <2>2, <2>3, <2>4, <2>5, <2>6, <2>7, SchedAtHand
<1>4. CASE Failure /\ UNCHANGED runs
  <2>1. /\ sched'[rounds.s].active = sched[rounds.s].active
        /\ sched'[rounds.s].ran = sched[rounds.s].ran
        /\ runs'[rounds.s].success = runs[rounds.s].success
        /\ runs'[rounds.s].failed = runs[rounds.s].failed
        /\ runs'[rounds.s].running = runs[rounds.s].running
        /\ made'[rounds.s].files = made[rounds.s].files
        /\ made'[rounds.s].rows = made[rounds.s].rows
        /\ sched'[rounds.s].deleted = sched[rounds.s].deleted
    BY <1>4, HandNumbers, <1>1 DEF RecordFailure, CloseRun, SchedRows, RunCounts, MadeCounts
  <2>2. \A o \in Schedules : o /= rounds.s =>
          sched'[o] = sched[o] /\ runs'[o] = runs[o] /\ made'[o] = made[o]
    BY <1>4, HandNumbers, <1>1 DEF RecordFailure, CloseRun
  <2>3. SchedTypeOK'
    <3>1. sched' \in [Schedules -> SchedRows] /\ runs' \in [Schedules -> RunCounts]
          /\ made' \in [Schedules -> MadeCounts]
      BY <1>4, HandNumbers, <1>1 DEF RecordFailure, CloseRun, SchedRows, RunCounts, MadeCounts
    <3>2. rounds' \in Rounds /\ days' \in 0..MaxDays
      BY <1>4, HandNumbers, <1>1 DEF RecordFailure, CloseRun, NextRound, NoRound, Rounds, OpenPoints
    <3>3. failures' \in 0..MaxFailures
      BY <1>4, HandNumbers, <1>1, OneFailure DEF RecordFailure, CloseRun
    <3>. QED  BY <3>1, <3>2, <3>3 DEF SchedTypeOK
  <2>4. RoundShape' /\ rounds'.todo = rounds.todo /\ rounds'.s \in {rounds.s, "none"}
        /\ "count" = (IF rounds'.s = "none" THEN "away" ELSE rounds'.at)
    BY <1>4, HandNumbers, <1>1 DEF RecordFailure, CloseRun, RoundShape, NextRound, NoRound, Rounds
  <2>5. failures' = failures + 1 /\ failures <= failures'
    BY <1>4, HandNumbers, <1>1 DEF RecordFailure, CloseRun, Failure
  <2>6. Fit(sched[rounds.s].active, sched[rounds.s].deleted, sched[rounds.s].ran, runs[rounds.s].success,
              runs[rounds.s].failed, runs[rounds.s].running, made[rounds.s].files,
              made[rounds.s].rows, "count", FALSE, failures + 1)
    BY <1>1, <1>2, <1>4, HandNumbers DEF Fit, Hand, OpenPoints
  <2>7. rounds.at \notin {"idle", "next"}
    BY <1>1
  <2>. QED  BY <2>1, <2>2, <2>3, <2>4, <2>5, <2>6, <2>7, SchedAtHand
<1>. QED  BY <1>3, <1>4 DEF RecordFailure, CloseRun

\* The schedule is advanced, or stays due.
LEMMA SchedAdvanced ==
  ASSUME SchedRest, Advance
  PROVE  SchedRest'
<1>1. rounds.at = "advance"
  BY DEF Advance, WriteSchedule
<1>2. Fit(sched[rounds.s].active, sched[rounds.s].deleted, sched[rounds.s].ran, runs[rounds.s].success,
          runs[rounds.s].failed, runs[rounds.s].running, made[rounds.s].files,
          made[rounds.s].rows, "advance", FALSE, failures)
  BY <1>1, RoundFacts
<1>3. CASE /\ sched' = [sched EXCEPT ![rounds.s] = [sched[rounds.s] EXCEPT !.due = FALSE, !.ran = @ + 1]]
           /\ UNCHANGED failures
  <2>1. /\ sched'[rounds.s].active = sched[rounds.s].active
        /\ sched'[rounds.s].ran = sched[rounds.s].ran + 1
        /\ runs'[rounds.s].success = runs[rounds.s].success
        /\ runs'[rounds.s].failed = runs[rounds.s].failed
        /\ runs'[rounds.s].running = runs[rounds.s].running
        /\ made'[rounds.s].files = made[rounds.s].files
        /\ made'[rounds.s].rows = made[rounds.s].rows
        /\ sched'[rounds.s].deleted = sched[rounds.s].deleted
    BY <1>3, HandNumbers, <1>1 DEF Advance, WriteSchedule, NextRound, NoRound, SchedRows, RunCounts, MadeCounts
  <2>2. \A o \in Schedules : o /= rounds.s =>
          sched'[o] = sched[o] /\ runs'[o] = runs[o] /\ made'[o] = made[o]
    BY <1>3, HandNumbers, <1>1 DEF Advance, WriteSchedule, NextRound, NoRound
  <2>3. SchedTypeOK'
    <3>1. sched' \in [Schedules -> SchedRows] /\ runs' \in [Schedules -> RunCounts]
          /\ made' \in [Schedules -> MadeCounts]
      <4>1. [sched[rounds.s] EXCEPT !.due = FALSE, !.ran = @ + 1] \in SchedRows
        BY <1>1, HandNumbers, RowWrites
      <4>. QED  BY <1>1, <1>3, <4>1, HandNumbers DEF Advance, WriteSchedule
    <3>2. rounds' \in Rounds /\ days' \in 0..MaxDays
      BY <1>3, HandNumbers, <1>1 DEF Advance, WriteSchedule, NextRound, NoRound, NextRound, NoRound, Rounds, OpenPoints
    <3>3. failures' \in 0..MaxFailures
      BY <1>3, HandNumbers, <1>1, OneFailure DEF Advance, WriteSchedule, NextRound, NoRound
    <3>. QED  BY <3>1, <3>2, <3>3 DEF SchedTypeOK
  <2>4. RoundShape' /\ rounds'.todo = rounds.todo /\ rounds'.s \in {rounds.s, "none"}
        /\ "away" = (IF rounds'.s = "none" THEN "away" ELSE rounds'.at)
    BY <1>3, HandNumbers, <1>1 DEF Advance, WriteSchedule, NextRound, NoRound, RoundShape, NextRound, NoRound, Rounds
  <2>5. failures' = failures /\ failures <= failures'
    BY <1>3, HandNumbers, <1>1 DEF Advance, WriteSchedule, NextRound, NoRound, Failure
  <2>6. Fit(sched[rounds.s].active, sched[rounds.s].deleted, sched[rounds.s].ran + 1, runs[rounds.s].success,
              runs[rounds.s].failed, runs[rounds.s].running, made[rounds.s].files,
              made[rounds.s].rows, "away", FALSE, failures)
    BY <1>1, <1>2, <1>3, HandNumbers DEF Fit, Hand, OpenPoints
  <2>7. rounds.at \notin {"idle", "next"}
    BY <1>1
  <2>. QED  BY <2>1, <2>2, <2>3, <2>4, <2>5, <2>6, <2>7, SchedAtHand
<1>4. CASE Failure /\ UNCHANGED sched
  <2>1. /\ sched'[rounds.s].active = sched[rounds.s].active
        /\ sched'[rounds.s].ran = sched[rounds.s].ran
        /\ runs'[rounds.s].success = runs[rounds.s].success
        /\ runs'[rounds.s].failed = runs[rounds.s].failed
        /\ runs'[rounds.s].running = runs[rounds.s].running
        /\ made'[rounds.s].files = made[rounds.s].files
        /\ made'[rounds.s].rows = made[rounds.s].rows
        /\ sched'[rounds.s].deleted = sched[rounds.s].deleted
    BY <1>4, HandNumbers, <1>1 DEF Advance, WriteSchedule, NextRound, NoRound, SchedRows, RunCounts, MadeCounts
  <2>2. \A o \in Schedules : o /= rounds.s =>
          sched'[o] = sched[o] /\ runs'[o] = runs[o] /\ made'[o] = made[o]
    BY <1>4, HandNumbers, <1>1 DEF Advance, WriteSchedule, NextRound, NoRound
  <2>3. SchedTypeOK'
    <3>1. sched' \in [Schedules -> SchedRows] /\ runs' \in [Schedules -> RunCounts]
          /\ made' \in [Schedules -> MadeCounts]
      BY <1>4, HandNumbers, <1>1 DEF Advance, WriteSchedule, NextRound, NoRound, SchedRows, RunCounts, MadeCounts
    <3>2. rounds' \in Rounds /\ days' \in 0..MaxDays
      BY <1>4, HandNumbers, <1>1 DEF Advance, WriteSchedule, NextRound, NoRound, NextRound, NoRound, Rounds, OpenPoints
    <3>3. failures' \in 0..MaxFailures
      BY <1>4, HandNumbers, <1>1, OneFailure DEF Advance, WriteSchedule, NextRound, NoRound
    <3>. QED  BY <3>1, <3>2, <3>3 DEF SchedTypeOK
  <2>4. RoundShape' /\ rounds'.todo = rounds.todo /\ rounds'.s \in {rounds.s, "none"}
        /\ "away" = (IF rounds'.s = "none" THEN "away" ELSE rounds'.at)
    BY <1>4, HandNumbers, <1>1 DEF Advance, WriteSchedule, NextRound, NoRound, RoundShape, NextRound, NoRound, Rounds
  <2>5. failures' = failures + 1 /\ failures <= failures'
    BY <1>4, HandNumbers, <1>1 DEF Advance, WriteSchedule, NextRound, NoRound, Failure
  <2>6. Fit(sched[rounds.s].active, sched[rounds.s].deleted, sched[rounds.s].ran, runs[rounds.s].success,
              runs[rounds.s].failed, runs[rounds.s].running, made[rounds.s].files,
              made[rounds.s].rows, "away", FALSE, failures + 1)
    BY <1>1, <1>2, <1>4, HandNumbers DEF Fit, Hand, OpenPoints
  <2>7. rounds.at \notin {"idle", "next"}
    BY <1>1
  <2>. QED  BY <2>1, <2>2, <2>3, <2>4, <2>5, <2>6, <2>7, SchedAtHand
<1>. QED  BY <1>3, <1>4 DEF Advance, WriteSchedule

\* The schedule is given up, or stays due.
LEMMA SchedGivenUp ==
  ASSUME SchedRest, GiveUp
  PROVE  SchedRest'
<1>1. rounds.at = "giveup"
  BY DEF GiveUp, WriteSchedule
<1>2. Fit(sched[rounds.s].active, sched[rounds.s].deleted, sched[rounds.s].ran, runs[rounds.s].success,
          runs[rounds.s].failed, runs[rounds.s].running, made[rounds.s].files,
          made[rounds.s].rows, "giveup", FALSE, failures)
  BY <1>1, RoundFacts
<1>3. CASE /\ sched' = [sched EXCEPT ![rounds.s] = [sched[rounds.s] EXCEPT !.active = FALSE]]
           /\ UNCHANGED failures
  <2>1. /\ sched'[rounds.s].active = FALSE
        /\ sched'[rounds.s].ran = sched[rounds.s].ran
        /\ runs'[rounds.s].success = runs[rounds.s].success
        /\ runs'[rounds.s].failed = runs[rounds.s].failed
        /\ runs'[rounds.s].running = runs[rounds.s].running
        /\ made'[rounds.s].files = made[rounds.s].files
        /\ made'[rounds.s].rows = made[rounds.s].rows
        /\ sched'[rounds.s].deleted = sched[rounds.s].deleted
    BY <1>3, HandNumbers, <1>1 DEF GiveUp, WriteSchedule, NextRound, NoRound, SchedRows, RunCounts, MadeCounts
  <2>2. \A o \in Schedules : o /= rounds.s =>
          sched'[o] = sched[o] /\ runs'[o] = runs[o] /\ made'[o] = made[o]
    BY <1>3, HandNumbers, <1>1 DEF GiveUp, WriteSchedule, NextRound, NoRound
  <2>3. SchedTypeOK'
    <3>1. sched' \in [Schedules -> SchedRows] /\ runs' \in [Schedules -> RunCounts]
          /\ made' \in [Schedules -> MadeCounts]
      BY <1>3, HandNumbers, <1>1 DEF GiveUp, WriteSchedule, NextRound, NoRound, SchedRows, RunCounts, MadeCounts
    <3>2. rounds' \in Rounds /\ days' \in 0..MaxDays
      BY <1>3, HandNumbers, <1>1 DEF GiveUp, WriteSchedule, NextRound, NoRound, NextRound, NoRound, Rounds, OpenPoints
    <3>3. failures' \in 0..MaxFailures
      BY <1>3, HandNumbers, <1>1, OneFailure DEF GiveUp, WriteSchedule, NextRound, NoRound
    <3>. QED  BY <3>1, <3>2, <3>3 DEF SchedTypeOK
  <2>4. RoundShape' /\ rounds'.todo = rounds.todo /\ rounds'.s \in {rounds.s, "none"}
        /\ "away" = (IF rounds'.s = "none" THEN "away" ELSE rounds'.at)
    BY <1>3, HandNumbers, <1>1 DEF GiveUp, WriteSchedule, NextRound, NoRound, RoundShape, NextRound, NoRound, Rounds
  <2>5. failures' = failures /\ failures <= failures'
    BY <1>3, HandNumbers, <1>1 DEF GiveUp, WriteSchedule, NextRound, NoRound, Failure
  <2>6. Fit(FALSE, sched[rounds.s].deleted, sched[rounds.s].ran, runs[rounds.s].success,
              runs[rounds.s].failed, runs[rounds.s].running, made[rounds.s].files,
              made[rounds.s].rows, "away", FALSE, failures)
    BY <1>1, <1>2, <1>3, HandNumbers DEF Fit, Hand, OpenPoints
  <2>7. rounds.at \notin {"idle", "next"}
    BY <1>1
  <2>. QED  BY <2>1, <2>2, <2>3, <2>4, <2>5, <2>6, <2>7, SchedAtHand
<1>4. CASE Failure /\ UNCHANGED sched
  <2>1. /\ sched'[rounds.s].active = sched[rounds.s].active
        /\ sched'[rounds.s].ran = sched[rounds.s].ran
        /\ runs'[rounds.s].success = runs[rounds.s].success
        /\ runs'[rounds.s].failed = runs[rounds.s].failed
        /\ runs'[rounds.s].running = runs[rounds.s].running
        /\ made'[rounds.s].files = made[rounds.s].files
        /\ made'[rounds.s].rows = made[rounds.s].rows
        /\ sched'[rounds.s].deleted = sched[rounds.s].deleted
    BY <1>4, HandNumbers, <1>1 DEF GiveUp, WriteSchedule, NextRound, NoRound, SchedRows, RunCounts, MadeCounts
  <2>2. \A o \in Schedules : o /= rounds.s =>
          sched'[o] = sched[o] /\ runs'[o] = runs[o] /\ made'[o] = made[o]
    BY <1>4, HandNumbers, <1>1 DEF GiveUp, WriteSchedule, NextRound, NoRound
  <2>3. SchedTypeOK'
    <3>1. sched' \in [Schedules -> SchedRows] /\ runs' \in [Schedules -> RunCounts]
          /\ made' \in [Schedules -> MadeCounts]
      BY <1>4, HandNumbers, <1>1 DEF GiveUp, WriteSchedule, NextRound, NoRound, SchedRows, RunCounts, MadeCounts
    <3>2. rounds' \in Rounds /\ days' \in 0..MaxDays
      BY <1>4, HandNumbers, <1>1 DEF GiveUp, WriteSchedule, NextRound, NoRound, NextRound, NoRound, Rounds, OpenPoints
    <3>3. failures' \in 0..MaxFailures
      BY <1>4, HandNumbers, <1>1, OneFailure DEF GiveUp, WriteSchedule, NextRound, NoRound
    <3>. QED  BY <3>1, <3>2, <3>3 DEF SchedTypeOK
  <2>4. RoundShape' /\ rounds'.todo = rounds.todo /\ rounds'.s \in {rounds.s, "none"}
        /\ "away" = (IF rounds'.s = "none" THEN "away" ELSE rounds'.at)
    BY <1>4, HandNumbers, <1>1 DEF GiveUp, WriteSchedule, NextRound, NoRound, RoundShape, NextRound, NoRound, Rounds
  <2>5. failures' = failures + 1 /\ failures <= failures'
    BY <1>4, HandNumbers, <1>1 DEF GiveUp, WriteSchedule, NextRound, NoRound, Failure
  <2>6. Fit(sched[rounds.s].active, sched[rounds.s].deleted, sched[rounds.s].ran, runs[rounds.s].success,
              runs[rounds.s].failed, runs[rounds.s].running, made[rounds.s].files,
              made[rounds.s].rows, "away", FALSE, failures + 1)
    BY <1>1, <1>2, <1>4, HandNumbers DEF Fit, Hand, OpenPoints
  <2>7. rounds.at \notin {"idle", "next"}
    BY <1>1
  <2>. QED  BY <2>1, <2>2, <2>3, <2>4, <2>5, <2>6, <2>7, SchedAtHand
<1>. QED  BY <1>3, <1>4 DEF GiveUp, WriteSchedule

\* The schedule is to run again, or stays due.
LEMMA SchedRetried ==
  ASSUME SchedRest, RetryLater
  PROVE  SchedRest'
<1>1. rounds.at = "later"
  BY DEF RetryLater, WriteSchedule
<1>2. Fit(sched[rounds.s].active, sched[rounds.s].deleted, sched[rounds.s].ran, runs[rounds.s].success,
          runs[rounds.s].failed, runs[rounds.s].running, made[rounds.s].files,
          made[rounds.s].rows, "later", FALSE, failures)
  BY <1>1, RoundFacts
<1>3. CASE /\ sched' = [sched EXCEPT ![rounds.s] = [sched[rounds.s] EXCEPT !.due = FALSE]]
           /\ UNCHANGED failures
  <2>1. /\ sched'[rounds.s].active = sched[rounds.s].active
        /\ sched'[rounds.s].ran = sched[rounds.s].ran
        /\ runs'[rounds.s].success = runs[rounds.s].success
        /\ runs'[rounds.s].failed = runs[rounds.s].failed
        /\ runs'[rounds.s].running = runs[rounds.s].running
        /\ made'[rounds.s].files = made[rounds.s].files
        /\ made'[rounds.s].rows = made[rounds.s].rows
        /\ sched'[rounds.s].deleted = sched[rounds.s].deleted
    BY <1>3, HandNumbers, <1>1 DEF RetryLater, WriteSchedule, NextRound, NoRound, SchedRows, RunCounts, MadeCounts
  <2>2. \A o \in Schedules : o /= rounds.s =>
          sched'[o] = sched[o] /\ runs'[o] = runs[o] /\ made'[o] = made[o]
    BY <1>3, HandNumbers, <1>1 DEF RetryLater, WriteSchedule, NextRound, NoRound
  <2>3. SchedTypeOK'
    <3>1. sched' \in [Schedules -> SchedRows] /\ runs' \in [Schedules -> RunCounts]
          /\ made' \in [Schedules -> MadeCounts]
      BY <1>3, HandNumbers, <1>1 DEF RetryLater, WriteSchedule, NextRound, NoRound, SchedRows, RunCounts, MadeCounts
    <3>2. rounds' \in Rounds /\ days' \in 0..MaxDays
      BY <1>3, HandNumbers, <1>1 DEF RetryLater, WriteSchedule, NextRound, NoRound, NextRound, NoRound, Rounds, OpenPoints
    <3>3. failures' \in 0..MaxFailures
      BY <1>3, HandNumbers, <1>1, OneFailure DEF RetryLater, WriteSchedule, NextRound, NoRound
    <3>. QED  BY <3>1, <3>2, <3>3 DEF SchedTypeOK
  <2>4. RoundShape' /\ rounds'.todo = rounds.todo /\ rounds'.s \in {rounds.s, "none"}
        /\ "away" = (IF rounds'.s = "none" THEN "away" ELSE rounds'.at)
    BY <1>3, HandNumbers, <1>1 DEF RetryLater, WriteSchedule, NextRound, NoRound, RoundShape, NextRound, NoRound, Rounds
  <2>5. failures' = failures /\ failures <= failures'
    BY <1>3, HandNumbers, <1>1 DEF RetryLater, WriteSchedule, NextRound, NoRound, Failure
  <2>6. Fit(sched[rounds.s].active, sched[rounds.s].deleted, sched[rounds.s].ran, runs[rounds.s].success,
              runs[rounds.s].failed, runs[rounds.s].running, made[rounds.s].files,
              made[rounds.s].rows, "away", FALSE, failures)
    BY <1>1, <1>2, <1>3, HandNumbers DEF Fit, Hand, OpenPoints
  <2>7. rounds.at \notin {"idle", "next"}
    BY <1>1
  <2>. QED  BY <2>1, <2>2, <2>3, <2>4, <2>5, <2>6, <2>7, SchedAtHand
<1>4. CASE Failure /\ UNCHANGED sched
  <2>1. /\ sched'[rounds.s].active = sched[rounds.s].active
        /\ sched'[rounds.s].ran = sched[rounds.s].ran
        /\ runs'[rounds.s].success = runs[rounds.s].success
        /\ runs'[rounds.s].failed = runs[rounds.s].failed
        /\ runs'[rounds.s].running = runs[rounds.s].running
        /\ made'[rounds.s].files = made[rounds.s].files
        /\ made'[rounds.s].rows = made[rounds.s].rows
        /\ sched'[rounds.s].deleted = sched[rounds.s].deleted
    BY <1>4, HandNumbers, <1>1 DEF RetryLater, WriteSchedule, NextRound, NoRound, SchedRows, RunCounts, MadeCounts
  <2>2. \A o \in Schedules : o /= rounds.s =>
          sched'[o] = sched[o] /\ runs'[o] = runs[o] /\ made'[o] = made[o]
    BY <1>4, HandNumbers, <1>1 DEF RetryLater, WriteSchedule, NextRound, NoRound
  <2>3. SchedTypeOK'
    <3>1. sched' \in [Schedules -> SchedRows] /\ runs' \in [Schedules -> RunCounts]
          /\ made' \in [Schedules -> MadeCounts]
      BY <1>4, HandNumbers, <1>1 DEF RetryLater, WriteSchedule, NextRound, NoRound, SchedRows, RunCounts, MadeCounts
    <3>2. rounds' \in Rounds /\ days' \in 0..MaxDays
      BY <1>4, HandNumbers, <1>1 DEF RetryLater, WriteSchedule, NextRound, NoRound, NextRound, NoRound, Rounds, OpenPoints
    <3>3. failures' \in 0..MaxFailures
      BY <1>4, HandNumbers, <1>1, OneFailure DEF RetryLater, WriteSchedule, NextRound, NoRound
    <3>. QED  BY <3>1, <3>2, <3>3 DEF SchedTypeOK
  <2>4. RoundShape' /\ rounds'.todo = rounds.todo /\ rounds'.s \in {rounds.s, "none"}
        /\ "away" = (IF rounds'.s = "none" THEN "away" ELSE rounds'.at)
    BY <1>4, HandNumbers, <1>1 DEF RetryLater, WriteSchedule, NextRound, NoRound, RoundShape, NextRound, NoRound, Rounds
  <2>5. failures' = failures + 1 /\ failures <= failures'
    BY <1>4, HandNumbers, <1>1 DEF RetryLater, WriteSchedule, NextRound, NoRound, Failure
  <2>6. Fit(sched[rounds.s].active, sched[rounds.s].deleted, sched[rounds.s].ran, runs[rounds.s].success,
              runs[rounds.s].failed, runs[rounds.s].running, made[rounds.s].files,
              made[rounds.s].rows, "away", FALSE, failures + 1)
    BY <1>1, <1>2, <1>4, HandNumbers DEF Fit, Hand, OpenPoints
  <2>7. rounds.at \notin {"idle", "next"}
    BY <1>1
  <2>. QED  BY <2>1, <2>2, <2>3, <2>4, <2>5, <2>6, <2>7, SchedAtHand
<1>. QED  BY <1>3, <1>4 DEF RetryLater, WriteSchedule

\* The failed runs are counted, and a count that fails is none.
LEMMA SchedCounted ==
  ASSUME SchedRest, CountFailures
  PROVE  SchedRest'
<1>1. rounds.at = "count"
  BY DEF CountFailures
<1>2. Fit(sched[rounds.s].active, sched[rounds.s].deleted, sched[rounds.s].ran, runs[rounds.s].success,
          runs[rounds.s].failed, runs[rounds.s].running, made[rounds.s].files,
          made[rounds.s].rows, "count", FALSE, failures)
  BY <1>1, RoundFacts
<1>3. CASE /\ runs[rounds.s].failed >= Ceiling /\ UNCHANGED failures
           /\ rounds' = [rounds EXCEPT !.at = "giveup"]
  <2>1. /\ sched'[rounds.s].active = sched[rounds.s].active
        /\ sched'[rounds.s].ran = sched[rounds.s].ran
        /\ runs'[rounds.s].success = runs[rounds.s].success
        /\ runs'[rounds.s].failed = runs[rounds.s].failed
        /\ runs'[rounds.s].running = runs[rounds.s].running
        /\ made'[rounds.s].files = made[rounds.s].files
        /\ made'[rounds.s].rows = made[rounds.s].rows
        /\ sched'[rounds.s].deleted = sched[rounds.s].deleted
    BY <1>3, HandNumbers, <1>1 DEF CountFailures, SchedRows, RunCounts, MadeCounts
  <2>2. \A o \in Schedules : o /= rounds.s =>
          sched'[o] = sched[o] /\ runs'[o] = runs[o] /\ made'[o] = made[o]
    BY <1>3, HandNumbers, <1>1 DEF CountFailures
  <2>3. SchedTypeOK'
    <3>1. sched' \in [Schedules -> SchedRows] /\ runs' \in [Schedules -> RunCounts]
          /\ made' \in [Schedules -> MadeCounts]
      BY <1>3, HandNumbers, <1>1 DEF CountFailures, SchedRows, RunCounts, MadeCounts
    <3>2. rounds' \in Rounds /\ days' \in 0..MaxDays
      BY <1>3, HandNumbers, <1>1 DEF CountFailures, NextRound, NoRound, Rounds, OpenPoints
    <3>3. failures' \in 0..MaxFailures
      BY <1>3, HandNumbers, <1>1, OneFailure DEF CountFailures
    <3>. QED  BY <3>1, <3>2, <3>3 DEF SchedTypeOK
  <2>4. RoundShape' /\ rounds'.todo = rounds.todo /\ rounds'.s \in {rounds.s, "none"}
        /\ "giveup" = (IF rounds'.s = "none" THEN "away" ELSE rounds'.at)
    BY <1>3, HandNumbers, <1>1 DEF CountFailures, RoundShape, NextRound, NoRound, Rounds
  <2>5. failures' = failures /\ failures <= failures'
    BY <1>3, HandNumbers, <1>1 DEF CountFailures, Failure
  <2>6. Fit(sched[rounds.s].active, sched[rounds.s].deleted, sched[rounds.s].ran, runs[rounds.s].success,
              runs[rounds.s].failed, runs[rounds.s].running, made[rounds.s].files,
              made[rounds.s].rows, "giveup", FALSE, failures)
    BY <1>1, <1>2, <1>3, HandNumbers DEF Fit, Hand, OpenPoints
  <2>7. rounds.at \notin {"idle", "next"}
    BY <1>1
  <2>. QED  BY <2>1, <2>2, <2>3, <2>4, <2>5, <2>6, <2>7, SchedAtHand
<1>4. CASE /\ runs[rounds.s].failed < Ceiling /\ UNCHANGED failures
           /\ rounds' = [rounds EXCEPT !.at = "later"]
  <2>1. /\ sched'[rounds.s].active = sched[rounds.s].active
        /\ sched'[rounds.s].ran = sched[rounds.s].ran
        /\ runs'[rounds.s].success = runs[rounds.s].success
        /\ runs'[rounds.s].failed = runs[rounds.s].failed
        /\ runs'[rounds.s].running = runs[rounds.s].running
        /\ made'[rounds.s].files = made[rounds.s].files
        /\ made'[rounds.s].rows = made[rounds.s].rows
        /\ sched'[rounds.s].deleted = sched[rounds.s].deleted
    BY <1>4, HandNumbers, <1>1 DEF CountFailures, SchedRows, RunCounts, MadeCounts
  <2>2. \A o \in Schedules : o /= rounds.s =>
          sched'[o] = sched[o] /\ runs'[o] = runs[o] /\ made'[o] = made[o]
    BY <1>4, HandNumbers, <1>1 DEF CountFailures
  <2>3. SchedTypeOK'
    <3>1. sched' \in [Schedules -> SchedRows] /\ runs' \in [Schedules -> RunCounts]
          /\ made' \in [Schedules -> MadeCounts]
      BY <1>4, HandNumbers, <1>1 DEF CountFailures, SchedRows, RunCounts, MadeCounts
    <3>2. rounds' \in Rounds /\ days' \in 0..MaxDays
      BY <1>4, HandNumbers, <1>1 DEF CountFailures, NextRound, NoRound, Rounds, OpenPoints
    <3>3. failures' \in 0..MaxFailures
      BY <1>4, HandNumbers, <1>1, OneFailure DEF CountFailures
    <3>. QED  BY <3>1, <3>2, <3>3 DEF SchedTypeOK
  <2>4. RoundShape' /\ rounds'.todo = rounds.todo /\ rounds'.s \in {rounds.s, "none"}
        /\ "later" = (IF rounds'.s = "none" THEN "away" ELSE rounds'.at)
    BY <1>4, HandNumbers, <1>1 DEF CountFailures, RoundShape, NextRound, NoRound, Rounds
  <2>5. failures' = failures /\ failures <= failures'
    BY <1>4, HandNumbers, <1>1 DEF CountFailures, Failure
  <2>6. Fit(sched[rounds.s].active, sched[rounds.s].deleted, sched[rounds.s].ran, runs[rounds.s].success,
              runs[rounds.s].failed, runs[rounds.s].running, made[rounds.s].files,
              made[rounds.s].rows, "later", FALSE, failures)
    BY <1>1, <1>2, <1>4, HandNumbers DEF Fit, Hand, OpenPoints
  <2>7. rounds.at \notin {"idle", "next"}
    BY <1>1
  <2>. QED  BY <2>1, <2>2, <2>3, <2>4, <2>5, <2>6, <2>7, SchedAtHand
<1>5. CASE Failure /\ rounds' = [rounds EXCEPT !.at = "later"]
  <2>1. /\ sched'[rounds.s].active = sched[rounds.s].active
        /\ sched'[rounds.s].ran = sched[rounds.s].ran
        /\ runs'[rounds.s].success = runs[rounds.s].success
        /\ runs'[rounds.s].failed = runs[rounds.s].failed
        /\ runs'[rounds.s].running = runs[rounds.s].running
        /\ made'[rounds.s].files = made[rounds.s].files
        /\ made'[rounds.s].rows = made[rounds.s].rows
        /\ sched'[rounds.s].deleted = sched[rounds.s].deleted
    BY <1>5, HandNumbers, <1>1 DEF CountFailures, SchedRows, RunCounts, MadeCounts
  <2>2. \A o \in Schedules : o /= rounds.s =>
          sched'[o] = sched[o] /\ runs'[o] = runs[o] /\ made'[o] = made[o]
    BY <1>5, HandNumbers, <1>1 DEF CountFailures
  <2>3. SchedTypeOK'
    <3>1. sched' \in [Schedules -> SchedRows] /\ runs' \in [Schedules -> RunCounts]
          /\ made' \in [Schedules -> MadeCounts]
      BY <1>5, HandNumbers, <1>1 DEF CountFailures, SchedRows, RunCounts, MadeCounts
    <3>2. rounds' \in Rounds /\ days' \in 0..MaxDays
      BY <1>5, HandNumbers, <1>1 DEF CountFailures, NextRound, NoRound, Rounds, OpenPoints
    <3>3. failures' \in 0..MaxFailures
      BY <1>5, HandNumbers, <1>1, OneFailure DEF CountFailures
    <3>. QED  BY <3>1, <3>2, <3>3 DEF SchedTypeOK
  <2>4. RoundShape' /\ rounds'.todo = rounds.todo /\ rounds'.s \in {rounds.s, "none"}
        /\ "later" = (IF rounds'.s = "none" THEN "away" ELSE rounds'.at)
    BY <1>5, HandNumbers, <1>1 DEF CountFailures, RoundShape, NextRound, NoRound, Rounds
  <2>5. failures' = failures + 1 /\ failures <= failures'
    BY <1>5, HandNumbers, <1>1 DEF CountFailures, Failure
  <2>6. Fit(sched[rounds.s].active, sched[rounds.s].deleted, sched[rounds.s].ran, runs[rounds.s].success,
              runs[rounds.s].failed, runs[rounds.s].running, made[rounds.s].files,
              made[rounds.s].rows, "later", FALSE, failures + 1)
    BY <1>1, <1>2, <1>5, HandNumbers DEF Fit, Hand, OpenPoints
  <2>7. rounds.at \notin {"idle", "next"}
    BY <1>1
  <2>. QED  BY <2>1, <2>2, <2>3, <2>4, <2>5, <2>6, <2>7, SchedAtHand
<1>6. Ceiling > 0 /\ Ceiling \in Nat /\ runs[rounds.s].failed \in Nat
  BY <1>1, HandNumbers, ReportSchedulesAssumption
<1>. QED  BY <1>3, <1>4, <1>5, <1>6 DEF CountFailures

\* A restart drops the pass, with the run at hand open.
LEMMA SchedDropped ==
  ASSUME SchedRest, SchedRestart
  PROVE  SchedRest'
<1>1. SchedTypeOK /\ RoundShape /\ failures \in Nat /\ failures' = failures + 1
      /\ rounds' = NoRound /\ UNCHANGED <<sched, runs, made, days>>
  BY SchedFacts DEF SchedRest, SchedRestart, Failure
<1>2. SchedTypeOK' /\ RoundShape'
  BY <1>1, SchedFacts DEF SchedTypeOK, SchedRestart, Failure, NoRound, Rounds, RoundShape
<1>3. ASSUME NEW s \in Schedules PROVE FitOf(s)'
  <2>1. /\ sched[s].ran \in Nat /\ runs[s].success \in Nat /\ runs[s].failed \in Nat
        /\ runs[s].running \in Nat /\ made[s].files \in Nat /\ made[s].rows \in Nat
        /\ sched[s].active \in BOOLEAN /\ sched[s].deleted \in BOOLEAN
    BY <1>1, RowNumbers
  <2>2. PICK w : w = Where(s)
    OBVIOUS
  <2>3. Fit(sched[s].active, sched[s].deleted, sched[s].ran, runs[s].success, runs[s].failed,
            runs[s].running, made[s].files, made[s].rows, w, FALSE, failures)
    BY <2>2 DEF SchedRest, FitOf, Fit
  <2>4. /\ Hand(w, OpenPoints) \in {0, 1} /\ (Hand(w, OpenPoints) = 1 => w \in OpenPoints)
        /\ Hand(w, {"row"}) \in {0, 1} /\ Hand(w, {"success"}) \in {0, 1}
        /\ Hand(w, {"success", "advance"}) \in {0, 1}
        /\ Hand("away", OpenPoints) = 0 /\ Hand("away", {"row"}) = 0
        /\ Hand("away", {"success"}) = 0 /\ Hand("away", {"success", "advance"}) = 0
        /\ "away" \notin OpenPoints /\ Ceiling \in Nat
    BY ReportSchedulesAssumption DEF Hand, OpenPoints
  <2>5. Fit(sched[s].active, sched[s].deleted, sched[s].ran, runs[s].success, runs[s].failed,
            runs[s].running, made[s].files, made[s].rows, "away", FALSE, failures + 1)
    <3>1. runs[s].failed + runs[s].running < Ceiling + (failures + 1)
      BY <1>1, <2>1, <2>3, <2>4 DEF Fit
    <3>. QED  BY <1>1, <2>1, <2>3, <2>4, <3>1 DEF Fit
  <2>6. Where(s)' = "away" /\ s \notin rounds'.todo
    BY <1>1, SchedFacts DEF Where, NoRound
  <2>. QED  BY <1>1, <1>2, <2>5, <2>6, FitAfter
<1>. QED  BY <1>2, <1>3 DEF SchedRest

\* Every step keeps it.
LEMMA SchedStep == SchedInv /\ [SchedNext]_schedVars => SchedInv'
<1>1. ASSUME SchedRest, SchedNext PROVE SchedRest'
  BY <1>1, SchedHandlers, SchedTaken, SchedBegun, SchedWritten, SchedInserted, SchedSucceeded,
     SchedAdvanced, SchedFailed, SchedCounted, SchedGivenUp, SchedRetried, SchedDropped
     DEF SchedNext, RunStep
<1>2. ASSUME SchedRest, UNCHANGED schedVars PROVE SchedRest'
  BY <1>2 DEF schedVars, SchedRest, SchedTypeOK, RoundShape, FitOf, Where
<1>3. SchedRest /\ [SchedNext]_schedVars => SchedRest'
  BY <1>1, <1>2
<1>. QED  BY <1>3, SchedWhole, PTL

\* A schedule gives up at its ceiling of runs and for no other cause, and its runs agree with
\* the files and rows it made, whichever step of a round fails (SchedInv).
THEOREM SchedulesKeepTheirBooks == SchedSpec => []SchedInv
BY SchedInitially, SchedStep, PTL DEF SchedSpec

-----------------------------------------------------------------------------
(* The installer.                                                           *)

\* What is promised of one installation.
InstGood(r) ==
  /\ TaskIsStaged(r) /\ CloudIsBehind(r) /\ TaskIsOnRecord(r) /\ NothingBeforeTheStart(r)
  /\ ReportedIsThere(r) /\ CancelStops(r)

\* A step that is about r only.
InstAlone(r) ==
  /\ \A o \in Runs : o /= r =>
       run'[o] = run[o] /\ installTask'[o] = installTask[o] /\ stopped'[o] = stopped[o]
  /\ \A o \in Runs, i \in DOMAIN STEPS : o /= r =>
       \A c \in 1..STEPS[i] : <<o, i, c>> \in cloud' <=> <<o, i, c>> \in cloud

\* There is at least one step, and every step makes at least one call.
LEMMA StepsFacts ==
  /\ Len(STEPS) \in Nat \ {0} /\ DOMAIN STEPS = 1..Len(STEPS)
  /\ \A i \in DOMAIN STEPS : STEPS[i] \in Nat \ {0}
BY InstallerAssumption

\* Steps that are an initial segment, by their bound, are that segment.
LEMMA Prefix ==
  ASSUME NEW F, F \subseteq DOMAIN STEPS, NEW n \in 0..Len(STEPS),
         \A i \in DOMAIN STEPS : i \in F <=> i <= n
  PROVE  F = 1..n
<1>1. \A i \in 1..n : i \in DOMAIN STEPS /\ i <= n
  BY StepsFacts
<1>2. \A i \in F : i \in 1..n
  BY StepsFacts
<1>. QED
  BY <1>1, <1>2

\* The percentage of a number of completed steps is one of the percentages.
LEMMA PercentFacts == \A n \in 0..Len(STEPS) : (n * 100) \div Len(STEPS) \in Percentages
BY DEF Percentages

\* Writing a status.
LEMMA InstSet ==
  ASSUME InstTypeOK, NEW r \in Runs, NEW s \in {"completed", "failed", "cancelled"}, Set(r, s)
  PROVE  /\ run'[r].status = s /\ run'[r].completed = run[r].completed
         /\ run'[r].resources = run[r].resources /\ run'[r].percent = run[r].percent
         /\ run' \in [Runs -> RunRows] /\ \A o \in Runs : o /= r => run'[o] = run[o]
<1>1. run' = [run EXCEPT ![r] = [run[r] EXCEPT !.status = s, !.current = 0]]
      /\ run \in [Runs -> RunRows] /\ run[r] \in RunRows
  BY DEF Set, InstTypeOK
<1>2. 0 \in 0..Len(STEPS)
  BY StepsFacts
<1>. QED
  BY <1>1, <1>2 DEF RunRows

\* A step that is about r, and keeps what is promised of r, keeps the invariant.
LEMMA InstFrame ==
  ASSUME InstInv, NEW r \in Runs, InstAlone(r), InstTypeOK', InstGood(r)'
  PROVE  InstInv'
<1>1. ASSUME NEW o \in Runs, o /= r PROVE InstGood(o)'
  <2>1. run'[o] = run[o] /\ installTask'[o] = installTask[o] /\ stopped'[o] = stopped[o]
    BY <1>1 DEF InstAlone
  <2>2. \A i \in DOMAIN STEPS : \A c \in 1..STEPS[i] : <<o, i, c>> \in cloud' <=> <<o, i,
             c>> \in cloud
    BY <1>1 DEF InstAlone
  <2>3. Finished(o)' = Finished(o)
    BY <2>2 DEF Finished
  <2>4. InstGood(o)
    BY DEF InstInv, InstGood
  <2>5. TaskIsStaged(o)' /\ TaskIsOnRecord(o)'
    BY <2>1, <2>4 DEF InstGood, TaskIsStaged, TaskIsOnRecord
  <2>6. CloudIsBehind(o)'
    BY <2>1, <2>2, <2>4 DEF InstGood, CloudIsBehind
  <2>7. NothingBeforeTheStart(o)' /\ CancelStops(o)'
    BY <2>1, <2>2, <2>4 DEF InstGood, NothingBeforeTheStart, CancelStops
  <2>8. ReportedIsThere(o)'
    BY <2>1, <2>2, <2>3, <2>4 DEF InstGood, ReportedIsThere
  <2>. QED
    BY <2>5, <2>6, <2>7, <2>8 DEF InstGood
<1>2. \A o \in Runs : InstGood(o)'
  BY <1>1
<1>. QED
  BY <1>2 DEF InstInv, InstGood

\* No installation has begun.
LEMMA InstInitially == InstallInit => InstInv
<1>. SUFFICES ASSUME InstallInit PROVE InstInv
  OBVIOUS
<1>1. InstTypeOK
  <2>1. NoRun \in RunRows
    <3>1. (0 * 100) \div Len(STEPS) = 0
      BY StepsFacts
    <3>2. 0 \in Percentages
      BY <3>1, StepsFacts DEF Percentages
    <3>. QED
      BY <3>2, StepsFacts DEF NoRun, RunRows
  <2>2. Ended \in RunTasks
    BY DEF Ended, RunTasks
  <2>. QED
    BY <2>1, <2>2, StepsFacts DEF InstallInit, InstTypeOK
<1>2. ASSUME NEW r \in Runs PROVE InstGood(r)
  <2>1. run[r] = NoRun /\ installTask[r] = Ended /\ stopped[r] = 0 /\ cloud = {}
    BY DEF InstallInit
  <2>2. (0 * 100) \div Len(STEPS) = 0
    BY StepsFacts
  <2>3. TaskIsStaged(r) /\ CloudIsBehind(r) /\ CancelStops(r)
    BY <2>1 DEF TaskIsStaged, CloudIsBehind, CancelStops
  <2>4. /\ run[r].status = "none" /\ run[r].completed = 0
        /\ run[r].resources = 0 /\ run[r].percent = 0
    BY <2>1 DEF NoRun
  <2>5. TaskIsOnRecord(r) /\ NothingBeforeTheStart(r)
    BY <2>1, <2>4 DEF TaskIsOnRecord, NothingBeforeTheStart
  <2>6. ReportedIsThere(r)
    BY <2>1, <2>2, <2>4 DEF ReportedIsThere
  <2>. QED
    BY <2>3, <2>5, <2>6 DEF InstGood
<1>. QED
  BY <1>1, <1>2 DEF InstInv, InstGood

\* A step of the task of r that leaves the run and the cloud alone and ends it or moves it
\* to another stage of the same call.
LEMMA InstMoves ==
  ASSUME InstInv, NEW r \in Runs, installTask[r] /= Ended,
         NEW a \in NextCall \cup StepMade,
         Move(r, a), UNCHANGED <<run, cloud, stopped>>, ~TaskAt(r, "fail"),
         a \in NextCall <=> installTask[r].at \in NextCall,
         a \in {"last", "complete"} <=> installTask[r].at \in {"last", "complete"},
         TaskAt(r, "check") => stopped[r] = 0
  PROVE  InstInv'
<1>1. installTask[r] \in RunTasks /\ TaskIsStaged(r) /\ CloudIsBehind(r)
      /\ TaskIsOnRecord(r) /\ NothingBeforeTheStart(r) /\ CancelStops(r) /\ ReportedIsThere(r)
  BY DEF InstInv, InstTypeOK
<1>2. installTask'[r] = [installTask[r] EXCEPT !.at = a]
  BY DEF Move, InstInv, InstTypeOK
<1>3. installTask'[r].at = a /\ installTask'[r].step = installTask[r].step
      /\ installTask'[r].call = installTask[r].call /\ installTask'[r] /= Ended
  BY <1>1, <1>2 DEF RunTasks, Ended, NextCall, StepMade
<1>4. InstTypeOK'
  BY <1>1, <1>2 DEF Move, InstInv, InstTypeOK, RunTasks, NextCall, StepMade
<1>5. InstAlone(r)
  BY DEF InstAlone, InstInv, InstTypeOK, Move
<1>6. TaskIsStaged(r)' /\ TaskIsOnRecord(r)'
  <2>1. TaskIsStaged(r)'
    BY <1>1, <1>3 DEF TaskIsStaged
  <2>2. run'[r] = run[r] /\ stopped'[r] = stopped[r] /\ stopped[r] \in Nat
    BY DEF InstInv, InstTypeOK
  <2>3. TaskIsOnRecord(r)'
    BY <1>1, <1>3, <2>2 DEF TaskIsOnRecord, TaskAt
  <2>. QED
    BY <2>1, <2>3
<1>7. CloudIsBehind(r)'
  BY <1>1, <1>3 DEF CloudIsBehind, Behind, TaskAt, NextCall, StepMade, TaskIsStaged
<1>8. NothingBeforeTheStart(r)' /\ CancelStops(r)' /\ ReportedIsThere(r)'
  BY <1>1, <1>3 DEF NothingBeforeTheStart, CancelStops, ReportedIsThere, Finished
<1>. QED
  BY <1>4, <1>5, <1>6, <1>7, <1>8, InstFrame DEF InstGood

\* The task of r ends; what it leaves behind is what the run says.
LEMMA InstEnds ==
  ASSUME InstInv, NEW r \in Runs, installTask[r] /= Ended, Exit(r),
         UNCHANGED <<cloud, stopped>>,
         \A o \in Runs : o /= r => run'[o] = run[o],
         run' \in [Runs -> RunRows],
         \/ run' = run /\ run[r].status = "cancelled"
         \/ /\ run'[r].completed = run[r].completed /\ run'[r].resources = run[r].resources
            /\ run'[r].percent = run[r].percent
            /\ \/ run'[r].status = "completed" /\ TaskAt(r, "complete")
               \/ run'[r].status = "failed" /\ TaskAt(r, "fail")
  PROVE  InstInv'
<1>1. installTask[r] \in RunTasks /\ TaskIsStaged(r) /\ CloudIsBehind(r)
      /\ TaskIsOnRecord(r) /\ CancelStops(r) /\ ReportedIsThere(r) /\ run[r] \in RunRows
  BY DEF InstInv, InstTypeOK
<1>2. installTask'[r] = Ended
  BY DEF Exit, InstInv, InstTypeOK
<1>3. InstTypeOK'
  BY DEF Exit, InstInv, InstTypeOK, Ended, RunTasks
<1>4. InstAlone(r)
  BY DEF InstAlone, InstInv, InstTypeOK, Exit
<1>5. TaskIsStaged(r)' /\ CloudIsBehind(r)' /\ CancelStops(r)'
  BY <1>1, <1>2 DEF TaskIsStaged, CloudIsBehind, CancelStops
<1>6. TaskIsOnRecord(r)' /\ NothingBeforeTheStart(r)'
  BY <1>1, <1>2 DEF TaskIsOnRecord, NothingBeforeTheStart
<1>7. ReportedIsThere(r)'
  <2>1. CASE run' = run /\ run[r].status = "cancelled"
    BY <1>1, <2>1 DEF ReportedIsThere, Finished
  <2>2. CASE run'[r].status = "completed" /\ TaskAt(r, "complete")
    <3>1. \A i \in DOMAIN STEPS : \A c \in 1..STEPS[i] : <<r, i, c>> \in cloud
      BY <1>1, <2>2, StepsFacts DEF TaskAt, TaskIsStaged, CloudIsBehind, Behind, StepMade
    <3>2. Finished(r)' = DOMAIN STEPS
      BY <3>1 DEF Finished
    <3>3. run[r].completed \in 0..Len(STEPS)
      BY <1>1 DEF RunRows
    <3>. QED
      BY <1>1, <2>2, <3>2, <3>3, StepsFacts DEF ReportedIsThere
  <2>3. CASE run'[r].status = "failed" /\ TaskAt(r, "fail")
    BY <1>1, <2>3 DEF ReportedIsThere, Finished
  <2>. QED
    BY <2>1, <2>2, <2>3, <1>1 DEF TaskAt
<1>. QED
  BY <1>3, <1>4, <1>5, <1>6, <1>7, InstFrame DEF InstGood

\* A call to the cloud is made: its resource is there, or the task goes on to fail.
LEMMA InstCall ==
  ASSUME InstInv, NEW r \in Runs, ProvisionCall(r)
  PROVE  InstInv'
<1>. DEFINE t == installTask[r]
<1>1. t \in RunTasks /\ TaskIsStaged(r) /\ CloudIsBehind(r)
      /\ TaskIsOnRecord(r) /\ NothingBeforeTheStart(r) /\ CancelStops(r) /\ ReportedIsThere(r)
  BY DEF InstInv, InstTypeOK
<1>2. t.at = "provision" /\ t /= Ended /\ t.step \in DOMAIN STEPS /\ t.call \in 1..STEPS[t.step]
  BY <1>1 DEF ProvisionCall, TaskAt, Ended, TaskIsStaged
<1>3. CASE Move(r, "fail") /\ UNCHANGED cloud
  BY <1>1, <1>2, <1>3, InstMoves DEF ProvisionCall, TaskAt, NextCall, StepMade
<1>4. CASE Provides(r, t)
  <2>1. /\ run' = run /\ stopped' = stopped /\ cloud' = cloud \cup {<<r, t.step, t.call>>}
        /\ \/ LastCall(t) /\ Move(r, "after")
           \/ ~LastCall(t) /\ installTask' = [installTask EXCEPT ![r].call = @ + 1]
           \/ Move(r, "fail")
    BY <1>4 DEF ProvisionCall, Provides, CallFails
  <2>2. /\ installTask'[r] \in RunTasks /\ installTask'[r] /= Ended
        /\ installTask'[r].step = t.step
        /\ \/ /\ t.call = STEPS[t.step] /\ installTask'[r].at = "after"
              /\ installTask'[r].call = t.call
           \/ /\ t.call /= STEPS[t.step] /\ installTask'[r].at = "provision"
              /\ installTask'[r].call = t.call + 1
           \/ installTask'[r].at = "fail" /\ installTask'[r].call = t.call
    <3>1. installTask \in [Runs -> RunTasks]
      BY DEF InstInv, InstTypeOK
    <3>2. CASE LastCall(t) /\ Move(r, "after")
      BY <1>1, <1>2, <3>1, <3>2 DEF LastCall, Move, RunTasks, Ended
    <3>3. CASE ~LastCall(t) /\ installTask' = [installTask EXCEPT ![r].call = @ + 1]
      BY <1>1, <1>2, <3>1, <3>3, StepsFacts DEF LastCall, RunTasks, Ended
    <3>4. CASE Move(r, "fail")
      BY <1>1, <1>2, <3>1, <3>4 DEF Move, RunTasks, Ended
    <3>. QED
      BY <2>1, <3>2, <3>3, <3>4
  <2>3. \A o \in Runs : o /= r => installTask'[o] = installTask[o]
    BY <2>1 DEF Move, InstInv, InstTypeOK
  <2>4. InstTypeOK'
    <3>1. installTask' \in [Runs -> RunTasks]
      BY <2>1, <2>2, <2>3 DEF Move, InstInv, InstTypeOK
    <3>2. <<r, t.step, t.call>> \in Runs \X Nat \X Nat
      BY <1>1, <1>2 DEF RunTasks
    <3>. QED
      BY <2>1, <3>1, <3>2, <1>2 DEF InstInv, InstTypeOK
  <2>5. InstAlone(r)
    BY <2>1, <2>3 DEF InstAlone
  <2>6. \A i \in DOMAIN STEPS : \A c \in 1..STEPS[i] :
          <<r, i, c>> \in cloud' <=> <<r, i, c>> \in cloud \/ (i = t.step /\ c = t.call)
    BY <2>1
  <2>7. TaskIsStaged(r)'
    BY <1>2, <2>2, StepsFacts DEF TaskIsStaged, NextCall, StepMade
  <2>8. CloudIsBehind(r)'
    <3>1. \A i \in DOMAIN STEPS : \A c \in 1..STEPS[i] :
            <<r, i, c>> \in cloud <=> i < t.step \/ (i = t.step /\ c < t.call)
      BY <1>1, <1>2 DEF CloudIsBehind, Behind, StepMade
    <3>2. \A i \in DOMAIN STEPS : \A c \in 1..STEPS[i] :
            <<r, i, c>> \in cloud' <=> i < t.step \/ (i = t.step /\ c <= t.call)
      BY <1>2, <2>6, <3>1, StepsFacts
    <3>3. t.step \in Nat /\ t.call \in Nat
      BY <1>1 DEF RunTasks
    <3>4. CASE installTask'[r].at = "fail"
      BY <1>2, <2>2, <3>2, <3>3, <3>4, StepsFacts DEF CloudIsBehind, Behind, StepMade
    <3>5. CASE installTask'[r].at = "after"
      BY <1>2, <2>2, <3>2, <3>3, <3>5, StepsFacts DEF CloudIsBehind, Behind, StepMade
    <3>6. CASE installTask'[r].at = "provision"
      BY <1>2, <2>2, <3>2, <3>3, <3>6, StepsFacts DEF CloudIsBehind, Behind, StepMade
    <3>. QED
      BY <2>2, <3>4, <3>5, <3>6
  <2>9. TaskIsOnRecord(r)' /\ NothingBeforeTheStart(r)'
    BY <1>1, <1>2, <2>1, <2>2 DEF TaskIsOnRecord, NothingBeforeTheStart
  <2>10. CancelStops(r)'
    BY <1>1, <1>2, <2>1, <2>6 DEF CancelStops, TaskIsOnRecord
  <2>11. ReportedIsThere(r)'
    <3>1. run[r].status /= "completed" /\ t.step <= run[r].completed + 1
      BY <1>1, <1>2, StepsFacts DEF TaskIsOnRecord
    <3>2. Finished(r) \subseteq Finished(r)'
      BY <2>6 DEF Finished
    <3>. QED
      BY <1>1, <2>1, <2>6, <3>1, <3>2 DEF ReportedIsThere
  <2>. QED
    BY <2>4, <2>5, <2>7, <2>8, <2>9, <2>10, <2>11, InstFrame DEF InstGood
<1>. QED
  BY <1>3, <1>4 DEF ProvisionCall, CallFails

\* A step is recorded: its resources are those that its calls made.
LEMMA InstRecord ==
  ASSUME InstInv, NEW r \in Runs, RecordStep(r)
  PROVE  InstInv'
<1>. DEFINE t == installTask[r]
            k == installTask[r].step
<1>1. t \in RunTasks /\ TaskIsStaged(r) /\ CloudIsBehind(r) /\ run[r] \in RunRows
      /\ TaskIsOnRecord(r) /\ CancelStops(r) /\ ReportedIsThere(r) /\ stopped[r] \in Nat
  BY DEF InstInv, InstTypeOK
<1>2. t.at = "record" /\ t /= Ended /\ k \in 1..Len(STEPS)
  BY <1>1, StepsFacts DEF RecordStep, TaskAt, Ended, TaskIsStaged
<1>3. /\ run'[r].status = run[r].status /\ run'[r].completed = k /\ run'[r].resources = k
      /\ run'[r].percent = (k * 100) \div Len(STEPS)
      /\ run' \in [Runs -> RunRows] /\ \A o \in Runs : o /= r => run'[o] = run[o]
  <2>1. (k * 100) \div Len(STEPS) \in Percentages
    <3>1. k \in 0..Len(STEPS)
      BY <1>2
    <3>. HIDE DEF k
    <3>. QED
      BY <3>1, PercentFacts
  <2>2. (IF k < Len(STEPS) THEN k + 1 ELSE 0) \in 0..Len(STEPS)
    BY <1>2, StepsFacts
  <2>. HIDE DEF k
  <2>. DEFINE n == (k * 100) \div Len(STEPS)
              u == IF k < Len(STEPS) THEN k + 1 ELSE 0
  <2>3. /\ run' = [run EXCEPT ![r] = [run[r] EXCEPT !.completed = k, !.resources = k,
                                                   !.current = u, !.percent = n]]
        /\ run \in [Runs -> RunRows]
    BY DEF RecordStep, InstInv, InstTypeOK, k
  <2>. HIDE DEF n, u
  <2>4. n \in Percentages /\ u \in 0..Len(STEPS) /\ k \in 0..Len(STEPS)
    BY <2>1, <2>2, <1>2, StepsFacts DEF n, u, k
  <2>5. run'[r].percent = n /\ run'[r].status = run[r].status
        /\ run'[r].completed = k /\ run'[r].resources = k
        /\ run' \in [Runs -> RunRows] /\ \A o \in Runs : o /= r => run'[o] = run[o]
    BY <2>3, <2>4, <1>1 DEF RunRows
  <2>. QED
    BY <2>5 DEF n
<1>4. /\ installTask'[r] = IF k < Len(STEPS) THEN [at |-> "check", step |-> k + 1, call |-> 1]
                                            ELSE [at |-> "last", step |-> k, call |-> 1]
      /\ \A o \in Runs : o /= r => installTask'[o] = installTask[o]
      /\ cloud' = cloud /\ stopped' = stopped
  BY DEF RecordStep, InstInv, InstTypeOK
<1>5. /\ installTask'[r] \in RunTasks /\ installTask'[r] /= Ended /\ installTask'[r].call = 1
      /\ \/ k < Len(STEPS) /\ installTask'[r].at = "check" /\ installTask'[r].step = k + 1
         \/ k = Len(STEPS) /\ installTask'[r].at = "last" /\ installTask'[r].step = k
  BY <1>2, <1>4, StepsFacts DEF RunTasks, Ended
<1>6. InstTypeOK'
  <2>1. installTask' \in [Runs -> RunTasks]
    BY <1>4, <1>5 DEF RecordStep, InstInv, InstTypeOK
  <2>. QED
    BY <2>1, <1>3, <1>4 DEF InstInv, InstTypeOK
<1>7. InstAlone(r)
  BY <1>3, <1>4 DEF InstAlone
<1>8. \A i \in DOMAIN STEPS : \A c \in 1..STEPS[i] : <<r, i, c>> \in cloud <=> i <= k
  BY <1>1, <1>2, StepsFacts DEF CloudIsBehind, Behind, StepMade
<1>9. TaskIsStaged(r)' /\ CloudIsBehind(r)'
  BY <1>2, <1>4, <1>5, <1>8, StepsFacts, SMTT(30)
     DEF TaskIsStaged, CloudIsBehind, Behind, NextCall, StepMade
<1>10. TaskIsOnRecord(r)' /\ CancelStops(r)' /\ NothingBeforeTheStart(r)'
  <2>1. run[r].status \in {"running", "cancelled"}
    BY <1>1, <1>2 DEF TaskIsOnRecord
  <2>2. stopped[r] > 0 => k <= stopped[r]
    BY <1>1, <1>2 DEF TaskIsOnRecord
  <2>3. run[r].status = "running" => stopped[r] = 0
    BY <1>1 DEF TaskIsOnRecord
  <2>4. TaskIsOnRecord(r)'
    <3>1. installTask'[r] /= Ended /\ run'[r].status \in {"running", "cancelled"}
          /\ run'[r].completed = k /\ stopped'[r] = stopped[r]
      BY <2>1, <1>3, <1>4, <1>5
    <3>2. run'[r].completed = IF installTask'[r].at \in {"last",
               "complete"} THEN installTask'[r].step
                              ELSE installTask'[r].step - 1
      BY <1>2, <1>5, <3>1
    <3>3. stopped[r] > 0 => \/ installTask'[r].step <= stopped[r]
                            \/ installTask'[r].at = "check"
                                 /\ installTask'[r].step = stopped[r] + 1
      BY <1>1, <1>2, <1>5, <2>2
    <3>. QED
      BY <2>3, <1>3, <3>1, <3>2, <3>3 DEF TaskIsOnRecord
  <2>. QED
    BY <2>1, <2>4, <1>1, <1>3, <1>4 DEF CancelStops, NothingBeforeTheStart
<1>11. ReportedIsThere(r)'
  <2>1. Finished(r)' = 1..k
    <3>. HIDE DEF k
    <3>1. \A i \in DOMAIN STEPS : 1 \in 1..STEPS[i]
      BY StepsFacts
    <3>2. \A i \in DOMAIN STEPS : i \in Finished(r)' <=> i <= k
      BY <1>4, <1>8, <3>1 DEF Finished
    <3>3. Finished(r)' \subseteq DOMAIN STEPS
      BY DEF Finished
    <3>. QED
      BY <1>2, <3>2, <3>3, Prefix
  <2>2. run[r].status \in {"running", "cancelled"}
    BY <1>1, <1>2 DEF TaskIsOnRecord
  <2>3. \A i \in DOMAIN STEPS : \A c \in 1..STEPS[i] : <<r, i, c>> \in cloud' => i <= k + 1
    BY <1>2, <1>4, <1>8, StepsFacts
  <2>. QED
    BY <2>1, <2>2, <2>3, <1>3 DEF ReportedIsThere
<1>. QED
  BY <1>6, <1>7, <1>9, <1>10, <1>11, InstFrame DEF InstGood

\* An installation of a project begins, with a task of its own.
LEMMA InstStarts ==
  ASSUME InstInv, NEW r \in Runs, NEW p \in Projects, DeploymentStart(r, p)
  PROVE  InstInv'
<1>. DEFINE row == [NoRun EXCEPT !.project = p, !.status = "running", !.current = 1]
            t == [at |-> "verify", step |-> 1, call |-> 1]
<1>1. NoRun.status = "none" /\ NoRun.completed = 0 /\ NoRun.resources = 0 /\ NoRun.percent = 0
      /\ NoRun.current = 0 /\ row.status = "running" /\ row.completed = 0
      /\ row.resources = 0 /\ row.percent = 0
  BY DEF NoRun
<1>2. (0 * 100) \div Len(STEPS) = 0
  BY StepsFacts
<1>3. row \in RunRows
  <2>1. 0 \in Percentages
    BY <1>2, PercentFacts, StepsFacts
  <2>2. 0 \in 0..Len(STEPS) /\ 1 \in 0..Len(STEPS)
    BY StepsFacts
  <2>. QED
    BY <2>1, <2>2 DEF RunRows, NoRun
<1>4. t \in RunTasks /\ t /= Ended /\ t.step = 1 /\ t.call = 1 /\ t.at = "verify"
  BY DEF RunTasks, Ended
<1>5. /\ run[r] = NoRun /\ run' = [run EXCEPT ![r] = row]
      /\ installTask' = [installTask EXCEPT ![r] = t] /\ cloud' = cloud /\ stopped' = stopped
  BY DEF DeploymentStart
<1>. HIDE DEF row, t
<1>6. run'[r] = row /\ installTask'[r] = t
  BY <1>5 DEF InstInv, InstTypeOK
<1>7. InstTypeOK'
  BY <1>3, <1>4, <1>5 DEF InstInv, InstTypeOK
<1>8. InstAlone(r)
  BY <1>5 DEF InstInv, InstTypeOK, InstAlone
<1>9. stopped[r] = 0 /\ \A i \in DOMAIN STEPS : \A c \in 1..STEPS[i] : <<r, i, c>> \notin cloud
  BY <1>1, <1>5 DEF InstInv, NothingBeforeTheStart
<1>10. TaskIsStaged(r)' /\ CloudIsBehind(r)'
  BY <1>4, <1>5, <1>6, <1>9, StepsFacts
     DEF TaskIsStaged, CloudIsBehind, Behind, NextCall, StepMade
<1>11. TaskIsOnRecord(r)' /\ CancelStops(r)' /\ NothingBeforeTheStart(r)'
  BY <1>1, <1>4, <1>5, <1>6, <1>9 DEF TaskIsOnRecord, CancelStops, NothingBeforeTheStart
<1>12. ReportedIsThere(r)'
  BY <1>1, <1>2, <1>5, <1>6, <1>9 DEF ReportedIsThere
<1>. QED
  BY <1>7, <1>8, <1>10, <1>11, <1>12, InstFrame DEF InstGood

\* An administrator cancels an installation: its task sees it at its next check.
LEMMA InstCancels ==
  ASSUME InstInv, NEW p \in Projects, DeploymentCancel(p)
  PROVE  InstInv'
<1>1. PICK r \in Runs : /\ run[r].project = p /\ run[r].status = "running"
                        /\ Set(r, "cancelled")
                        /\ stopped' = [stopped EXCEPT ![r] = installTask[r].step]
                        /\ UNCHANGED <<installTask, cloud>>
  BY DEF DeploymentCancel
<1>2. installTask[r] \in RunTasks /\ TaskIsStaged(r) /\ CloudIsBehind(r) /\ run[r] \in RunRows
      /\ TaskIsOnRecord(r) /\ CancelStops(r) /\ ReportedIsThere(r)
  BY DEF InstInv, InstTypeOK
<1>3. installTask[r] /= Ended /\ installTask[r].step \in 1..Len(STEPS) /\ stopped[r] = 0
  BY <1>1, <1>2, StepsFacts DEF TaskIsOnRecord, TaskIsStaged
<1>4. /\ run'[r].status = "cancelled" /\ run'[r].completed = run[r].completed
      /\ run'[r].resources = run[r].resources /\ run'[r].percent = run[r].percent
      /\ run' \in [Runs -> RunRows] /\ \A o \in Runs : o /= r => run'[o] = run[o]
  BY <1>1, InstSet DEF InstInv
<1>5. stopped'[r] = installTask[r].step /\ \A o \in Runs : o /= r => stopped'[o] = stopped[o]
  BY <1>1 DEF InstInv, InstTypeOK
<1>6. InstTypeOK'
  <2>1. stopped' \in [Runs -> 0..Len(STEPS)]
    BY <1>1, <1>3, StepsFacts DEF InstInv, InstTypeOK
  <2>. QED
    BY <1>1, <1>4, <2>1 DEF InstInv, InstTypeOK
<1>7. InstAlone(r)
  BY <1>1, <1>4, <1>5 DEF InstAlone
<1>8. TaskIsStaged(r)' /\ CloudIsBehind(r)'
  BY <1>1, <1>2 DEF TaskIsStaged, CloudIsBehind
<1>9. TaskIsOnRecord(r)' /\ NothingBeforeTheStart(r)'
  BY <1>1, <1>2, <1>3, <1>4, <1>5 DEF TaskIsOnRecord, NothingBeforeTheStart
<1>10. CancelStops(r)'
  BY <1>1, <1>2, <1>3, <1>5, StepsFacts DEF CancelStops, CloudIsBehind, Behind
<1>11. ReportedIsThere(r)'
  BY <1>1, <1>2, <1>4 DEF ReportedIsThere, Finished
<1>. QED
  BY <1>6, <1>7, <1>8, <1>9, <1>10, <1>11, InstFrame DEF InstGood

\* Every step of a task keeps the invariant.
LEMMA InstTaskStep ==
  ASSUME InstInv, NEW r \in Runs, TaskStep(r)
  PROVE  InstInv'
<1>1. installTask[r] \in RunTasks /\ TaskIsStaged(r) /\ TaskIsOnRecord(r) /\ run[r] \in RunRows
  BY DEF InstInv, InstTypeOK
<1>2. CASE Verify(r)
  <2>1. installTask[r] /= Ended
    BY <1>2 DEF Verify, TaskAt, Ended
  <2>2. PICK a \in {"check", "fail"} : Move(r, a)
    BY <1>2 DEF Verify
  <2>. QED
    BY <1>2, <2>1, <2>2, InstMoves DEF Verify, TaskAt, NextCall, StepMade
<1>3. CASE CheckCancelled(r)
  <2>1. installTask[r] /= Ended /\ installTask[r].at \in {"check", "after", "last"}
        /\ UNCHANGED <<run, cloud, stopped>>
    BY <1>3 DEF CheckCancelled, Ended
  <2>2. CASE IsCancelled(r)
    <3>1. Exit(r)
      BY <1>3, <2>2 DEF CheckCancelled
    <3>. QED
      BY <2>1, <2>2, <3>1, InstEnds DEF IsCancelled, InstInv, InstTypeOK
  <2>3. CASE ~IsCancelled(r)
    <3>1. run[r].status = "running" /\ stopped[r] = 0
      BY <1>1, <2>1, <2>3 DEF TaskIsOnRecord, IsCancelled
    <3>2. \/ TaskAt(r, "check") /\ Move(r, "provision")
          \/ TaskAt(r, "after") /\ Move(r, "record")
          \/ TaskAt(r, "last") /\ Move(r, "complete")
      BY <1>3, <2>1, <2>3 DEF CheckCancelled, TaskAt
    <3>. QED
      BY <2>1, <3>1, <3>2, InstMoves DEF TaskAt, NextCall, StepMade
  <2>. QED
    BY <2>2, <2>3
<1>4. CASE MarkCompleted(r)
  <2>1. installTask[r] /= Ended
    BY <1>4 DEF MarkCompleted, TaskAt, Ended
  <2>2. /\ run'[r].status = "completed" /\ run'[r].completed = run[r].completed
        /\ run'[r].resources = run[r].resources /\ run'[r].percent = run[r].percent
        /\ run' \in [Runs -> RunRows] /\ \A o \in Runs : o /= r => run'[o] = run[o]
    BY <1>4, InstSet DEF MarkCompleted, InstInv
  <2>. QED
    BY <1>4, <2>1, <2>2, InstEnds DEF MarkCompleted
<1>5. CASE MarkFailed(r)
  <2>1. installTask[r] /= Ended
    BY <1>5 DEF MarkFailed, TaskAt, Ended
  <2>2. /\ run'[r].status = "failed" /\ run'[r].completed = run[r].completed
        /\ run'[r].resources = run[r].resources /\ run'[r].percent = run[r].percent
        /\ run' \in [Runs -> RunRows] /\ \A o \in Runs : o /= r => run'[o] = run[o]
    BY <1>5, InstSet DEF MarkFailed, InstInv
  <2>. QED
    BY <1>5, <2>1, <2>2, InstEnds DEF MarkFailed
<1>. QED
  BY <1>2, <1>3, <1>4, <1>5, InstCall, InstRecord DEF TaskStep

\* Every step of the installer keeps the invariant.
LEMMA InstStep == InstInv /\ [InstallNext]_installVars => InstInv'
<1>. SUFFICES ASSUME InstInv, [InstallNext]_installVars PROVE InstInv'
  OBVIOUS
<1>1. ASSUME UNCHANGED installVars PROVE InstInv'
  <2>1. InstTypeOK'
    BY <1>1 DEF installVars, InstInv, InstTypeOK
  <2>2. ASSUME NEW r \in Runs PROVE InstGood(r)'
    <3>1. InstGood(r)
      BY DEF InstInv, InstGood
    <3>2. run' = run /\ installTask' = installTask /\ cloud' = cloud /\ stopped' = stopped
      BY <1>1 DEF installVars
    <3>3. TaskIsStaged(r)' /\ CloudIsBehind(r)' /\ TaskIsOnRecord(r)'
      BY <3>1, <3>2 DEF InstGood, TaskIsStaged, CloudIsBehind, TaskIsOnRecord
    <3>4. NothingBeforeTheStart(r)' /\ ReportedIsThere(r)' /\ CancelStops(r)'
      BY <3>1, <3>2 DEF InstGood, NothingBeforeTheStart, ReportedIsThere, CancelStops, Finished
    <3>. QED
      BY <3>3, <3>4 DEF InstGood
  <2>. QED
    BY <2>1, <2>2 DEF InstInv, InstGood
<1>. QED
  BY <1>1, InstTaskStep, InstStarts, InstCancels DEF InstallNext

\* The record of an installation says what its task has done, whatever is cancelled while it
\* works: what it reports is in the cloud, a cancelled one makes no further step, and it ends
\* as its record says (InstInv).
THEOREM RunsAreOnRecord == InstallSpec => []InstInv
BY InstInitially, InstStep, PTL DEF InstallSpec

\* A completed or a failed installation stays so: what ends a task is the last that writes
\* its record.
THEOREM InstallOutcomesAreFinal == InstallSpec => OutcomeKept
<1>1. ASSUME InstInv, [InstallNext]_installVars
      PROVE  \A r \in Runs : run[r].status \in {"completed", "failed"}
             => run'[r].status = run[r].status
  <2>. SUFFICES ASSUME NEW r \in Runs, run[r].status \in {"completed", "failed"}
                PROVE  run'[r].status = run[r].status
    OBVIOUS
  <2>1. installTask[r] = Ended /\ run \in [Runs -> RunRows]
    BY <1>1 DEF InstInv, InstTypeOK, TaskIsOnRecord
  <2>2. ASSUME NEW o \in Runs, TaskStep(o) PROVE run'[r].status = run[r].status
    <3>1. o /= r
      BY <2>1, <2>2
         DEF TaskStep, Verify, CheckCancelled, ProvisionCall, RecordStep, MarkCompleted,
         MarkFailed, TaskAt, Ended
    <3>. QED
      BY <2>1, <2>2, <3>1 DEF TaskStep, Verify, CheckCancelled, ProvisionCall, RecordStep,
         MarkCompleted, MarkFailed, Set
  <2>3. ASSUME NEW o \in Runs, NEW p \in Projects, DeploymentStart(o, p)
        PROVE  run'[r].status = run[r].status
    BY <2>1, <2>3 DEF DeploymentStart, NoRun
  <2>4. ASSUME NEW p \in Projects, DeploymentCancel(p) PROVE run'[r].status = run[r].status
    BY <2>1, <2>4 DEF DeploymentCancel, Set
  <2>. QED
    BY <1>1, <2>2, <2>3, <2>4 DEF InstallNext, installVars
<1>. QED
  BY <1>1, RunsAreOnRecord, PTL DEF InstallSpec, OutcomeKept

-----------------------------------------------------------------------------
(* The desk.                                                                *)

\* The parts share no state: together they keep what each of them keeps.
LEMMA DeskStep ==
  RemInv /\ ReportsInv /\ InstInv /\ [Next]_vars => RemInv' /\ ReportsInv' /\ InstInv'
<1>. SUFFICES ASSUME RemInv, RepInv, SchedInv, InstInv, [Next]_vars
              PROVE  RemInv' /\ (RepInv' /\ SchedInv') /\ InstInv'
  BY DEF ReportsInv
<1>1. /\ [RemNext]_remVars /\ [RepNext]_repVars
      /\ [SchedNext]_schedVars /\ [InstallNext]_installVars
  BY DEF Next, vars, InReminders, InReports, InSchedules, InInstaller,
         remVars, repVars, schedVars, installVars
<1>. QED
  BY <1>1, RemStep, RepStep, SchedStep, InstStep

\* The desk keeps its books: what it has told, generated, counted and provisioned is what
\* its rows say (RemInv, ReportsInv, InstInv).
THEOREM DeskKeepsItsBooks == Spec => [](RemInv /\ ReportsInv /\ InstInv)
<1>1. Init => RemInv /\ ReportsInv /\ InstInv
  BY RemInitially, RepInitially, SchedInitially, InstInitially DEF Init, ReportsInv
<1>. QED
  BY <1>1, DeskStep, PTL DEF Spec
==============================================================================
