--------------------------- MODULE Notifications ---------------------------
(***************************************************************************)
(* The notification inbox: domain/notifications/handlers.rs and            *)
(* service.rs, with the part of purge_member (domain/teams/store.rs) that  *)
(* empties the inbox of a removed account.                                 *)
(*                                                                         *)
(* A notification is one row, inserted and then pushed to the recipient's  *)
(* sockets.  A batch (bulk, system, broadcast) reads its recipients once   *)
(* and then inserts one row after another, skipping those that fail.  A    *)
(* row's expiry is the TEXT the caller wrote: it is validated as an        *)
(* instant and compared as text from then on, so an offset from UTC shifts *)
(* it.                                                                     *)
(***************************************************************************)
EXTENDS Integers, FiniteSets, Sequences, Functions

CONSTANTS Staff,          \* accounts
          Batches,        \* batch calls
          Screens,        \* open pages of a recipient, each with one call out
          Expiries,       \* what callers write: [at: instant or 0, ahead: hours]
          Lists,          \* recipient lists an administrator may name
          MaxNotes,       \* bound: rows ever inserted
          LastInstant,    \* bound: the clock
          MaxInsertFaults \* bound: INSERTs refused by the database

ASSUME NotificationsAssumption ==
    /\ MaxNotes \in Nat /\ LastInstant \in Nat \ {0} /\ MaxInsertFaults \in Nat
    /\ IsFiniteSet(Staff) /\ IsFiniteSet(Batches)
    /\ Lists \subseteq Seq(Staff)
    /\ Expiries \subseteq [at : Nat, ahead : Int]

VARIABLES notes,    \* every row ever inserted, in order; `here` until deleted
          pushed,   \* ids pushed to their recipient's sockets
          standing, \* "active", "off" (disabled or soft deleted), "purged"
          batch,    \* each batch call: recipients left, ids reported, misses
          screen,   \* what each open page has looked up and not yet written
          instant,  \* the hour
          refused   \* INSERTs the database has refused

notVars == <<notes, pushed, standing, batch, screen, instant, refused>>

NoScreen == [op |-> "none", id |-> 0]
NoBatch  == [state |-> "idle", todo |-> <<>>, ids |-> <<>>, missed |-> <<>>]

NotInit ==
    /\ notes = <<>>
    /\ pushed = {}
    /\ standing \in [Staff -> {"active", "off"}]
    /\ batch = [b \in Batches |-> NoBatch]
    /\ screen = [s \in Screens |-> NoScreen]
    /\ instant = 1
    /\ refused = 0

-----------------------------------------------------------------------------
\* validate_create: the expiry must parse to an instant still to come.
Future(e) == e.at = 0 \/ e.at > instant

\* service::expiry, in UTC.
ExpiryIn(hours) == [at |-> instant + hours, ahead |-> 0]

\* expires_at <= now, on the texts: digits written `ahead` hours east of UTC
\* read that many hours later than they mean.
LapsedNow(n) == n.expiry.at # 0 /\ n.expiry.at + n.expiry.ahead <= instant

\* What list, recent, unread_count and stats select for a recipient.
Inbox(a) == {i \in DOMAIN notes : notes[i].here /\ notes[i].owner = a /\ ~LapsedNow(notes[i])}

\* MUTANT of HasAccount: no foreign key.
HasAccountOrNot(a) == TRUE

\* The foreign key: a row needs its account.
HasAccount(a) == standing[a] # "purged"

\* service::create: the INSERT, then the push.
Store(a, e) ==
    /\ Len(notes) < MaxNotes /\ HasAccount(a)
    /\ notes' = Append(notes, [owner |-> a, expiry |-> e, readAt |-> 0, here |-> TRUE, end |-> "none"])
    /\ pushed' = pushed \cup {Len(notes) + 1}

\* POST /api/notifications, for oneself or, an administrator, for anyone.
CreateNotification(a, e) ==
    /\ Future(e) /\ standing[a] = "active"
    /\ Store(a, e)
    /\ UNCHANGED <<standing, batch, screen, instant, refused>>

\* POST /new-message and /conversation-assigned: the expiry is the server's.
TriggerOne(a) ==
    /\ Store(a, ExpiryIn(1))
    /\ UNCHANGED <<standing, batch, screen, instant, refused>>

\* active_staff, in whatever order the database returns them.
ActiveStaff == {a \in Staff : standing[a] = "active"}
Listings(names) == {q \in [1..Cardinality(names) -> names] : IsInjective(q)}

Begin(b, list, e) ==
    /\ batch[b].state = "idle"
    /\ list # <<>> /\ Future(e)
    /\ batch' = [batch EXCEPT ![b] = [NoBatch EXCEPT !.state = "sending",
                      !.todo = [k \in DOMAIN list |-> [to |-> list[k], expiry |-> e]]]]
    /\ UNCHANGED <<notes, pushed, standing, screen, instant, refused>>

\* POST /bulk (the whole batch is validated first) and /system with userIds.
BulkCreate(b, list, e)   == list \in Lists /\ Begin(b, list, e)
TriggerSystem(b, list)   == list \in Lists /\ Begin(b, list, ExpiryIn(1))

\* POST /broadcast, and /system to everyone.
Broadcast(b) == \E q \in Listings(ActiveStaff) : Begin(b, q, ExpiryIn(1))

\* One turn of the loop: stored and reported, or counted as a failure.
SentOne(b) == [batch[b] EXCEPT !.todo = Tail(@), !.ids = Append(@, Len(notes) + 1)]
Skipped(b, why) ==
    [batch[b] EXCEPT !.todo = Tail(@), !.missed = Append(@, [to |-> Head(batch[b].todo).to, why |-> why])]
SentTo(b) ==
    LET n == Head(batch[b].todo) IN
    /\ batch[b].todo # <<>>
    /\ Store(n.to, n.expiry)
    /\ batch' = [batch EXCEPT ![b] = SentOne(b)]
    /\ UNCHANGED <<standing, screen, instant, refused>>

SkipRecipient(b) ==
    /\ batch[b].todo # <<>>
    /\ \/ /\ ~HasAccount(Head(batch[b].todo).to)
          /\ batch' = [batch EXCEPT ![b] = Skipped(b, "gone")]
          /\ UNCHANGED refused
       \/ /\ refused < MaxInsertFaults
          /\ refused' = refused + 1
          /\ batch' = [batch EXCEPT ![b] = Skipped(b, "fault")]
    /\ UNCHANGED <<notes, pushed, standing, screen, instant>>

FinishBatch(b) ==
    /\ batch[b].state = "sending" /\ batch[b].todo = <<>>
    /\ batch' = [batch EXCEPT ![b].state = "answered"]
    /\ UNCHANGED <<notes, pushed, standing, screen, instant, refused>>

-----------------------------------------------------------------------------
\* mark_read and delete_one read the row first (find_owned)...
FindOwned(s, op, i) ==
    /\ screen[s] = NoScreen
    /\ i \in DOMAIN notes /\ notes[i].here
    /\ screen' = [screen EXCEPT ![s] = [op |-> op, id |-> i]]
    /\ UNCHANGED <<notes, pushed, standing, batch, instant, refused>>

Stamped(n)      == [n EXCEPT !.readAt = IF @ = 0 THEN instant ELSE @]
Removed(n, how) == [n EXCEPT !.here = FALSE, !.end = how]

\* ... and then write by id: COALESCE keeps the first reading's moment.
MarkRead(s) ==
    /\ screen[s].op = "read"
    /\ notes' = [notes EXCEPT ![screen[s].id] = IF @.here THEN Stamped(@) ELSE @]
    /\ screen' = [screen EXCEPT ![s] = NoScreen]
    /\ UNCHANGED <<pushed, standing, batch, instant, refused>>

DeleteOne(s) ==
    /\ screen[s].op = "delete"
    /\ notes' = [notes EXCEPT ![screen[s].id] = IF @.here THEN Removed(@, "deleted") ELSE @]
    /\ screen' = [screen EXCEPT ![s] = NoScreen]
    /\ UNCHANGED <<pushed, standing, batch, instant, refused>>

\* mark_all_read: one statement over the recipient's unread rows.
UnreadOf(a) == {i \in DOMAIN notes : notes[i].here /\ notes[i].owner = a /\ notes[i].readAt = 0}
MarkAllRead(a) ==
    /\ UnreadOf(a) # {}
    /\ notes' = [i \in DOMAIN notes |->
                   IF i \in UnreadOf(a) THEN [notes[i] EXCEPT !.readAt = instant] ELSE notes[i]]
    /\ UNCHANGED <<pushed, standing, batch, screen, instant, refused>>

\* DELETE /cleanup: every lapsed row of every recipient.
CleanupExpired ==
    /\ \E i \in DOMAIN notes : notes[i].here /\ LapsedNow(notes[i])
    /\ notes' = [i \in DOMAIN notes |->
                   IF notes[i].here /\ LapsedNow(notes[i]) THEN Removed(notes[i], "lapsed") ELSE notes[i]]
    /\ UNCHANGED <<pushed, standing, batch, screen, instant, refused>>

-----------------------------------------------------------------------------
\* purge_member, one transaction: the inbox goes before the account's row, and
\* the row takes with it whatever was stored for it in between.
EmptiedFor(a) ==
    [i \in DOMAIN notes |->
       IF notes[i].here /\ notes[i].owner = a THEN Removed(notes[i], "purged") ELSE notes[i]]
PurgeMember(a) ==
    /\ HasAccount(a)
    /\ standing' = [standing EXCEPT ![a] = "purged"]
    /\ notes' = EmptiedFor(a)
    /\ UNCHANGED <<pushed, batch, screen, instant, refused>>

NextInstant ==
    /\ instant < LastInstant
    /\ instant' = instant + 1
    /\ UNCHANGED <<notes, pushed, standing, batch, screen, refused>>

NotNext ==
    \/ \E a \in Staff :
          \/ \E e \in Expiries : CreateNotification(a, e)
          \/ TriggerOne(a) \/ MarkAllRead(a) \/ PurgeMember(a)
    \/ \E b \in Batches :
          \/ \E list \in Lists : TriggerSystem(b, list) \/ \E e \in Expiries : BulkCreate(b, list, e)
          \/ Broadcast(b) \/ SentTo(b) \/ SkipRecipient(b) \/ FinishBatch(b)
    \/ \E s \in Screens :
          \/ \E op \in {"read", "delete"}, i \in DOMAIN notes : FindOwned(s, op, i)
          \/ MarkRead(s) \/ DeleteOne(s)
    \/ CleanupExpired \/ NextInstant

NotSpec == NotInit /\ [][NotNext]_notVars

-----------------------------------------------------------------------------
Moments == [at : Nat, ahead : Int]
Items   == [to : Staff, expiry : Moments]
Misses  == [to : Staff, why : {"gone", "fault"}]
NoteRows == [owner : Staff, expiry : Moments, readAt : 0 .. LastInstant,
             here : BOOLEAN, end : {"none", "deleted", "lapsed", "purged"}]
BatchRows == [state : {"idle", "sending", "answered"}, todo : Seq(Items),
              ids : Seq(Nat), missed : Seq(Misses)]

\* Types; and a row is read at a moment that has come, and pushed when stored.
NotTypeOK ==
    /\ notes \in Seq(NoteRows)
    /\ \A i \in DOMAIN notes : notes[i].readAt <= instant /\ (notes[i].here <=> notes[i].end = "none")
    /\ pushed = DOMAIN notes
    /\ standing \in [Staff -> {"active", "off", "purged"}]
    /\ batch \in [Batches -> BatchRows]
    /\ \A b \in Batches : /\ batch[b].state = "idle" => batch[b] = NoBatch
                          /\ \A k \in DOMAIN batch[b].ids : batch[b].ids[k] \in DOMAIN notes
    /\ screen \in [Screens -> [op : {"none", "read", "delete"}, id : Nat]]
    /\ \A s \in Screens : screen[s].op # "none" => screen[s].id \in DOMAIN notes
    /\ instant \in 1 .. LastInstant /\ refused \in 0 .. MaxInsertFaults

\* No row outlives its recipient's account, although a batch read its
\* recipients before the account was purged and inserts after.
OwnersExist == \A i \in DOMAIN notes : notes[i].here => standing[notes[i].owner] # "purged"

\* The recipients that the database's refusals cost their row.
FaultsOf(b) == {k \in DOMAIN batch[b].missed : batch[b].missed[k].why = "fault"}
Faults == UNION {{<<b, k>> : k \in FaultsOf(b)} : b \in Batches}

\* What a batch answers accounts for every recipient: the ids it reports are
\* rows of its own, each stored and pushed once, and a recipient without one
\* had no account left or met one of the database's refusals.
AnswersAddUp ==
    /\ \A b, c \in Batches : \A k \in DOMAIN batch[b].ids, l \in DOMAIN batch[c].ids :
          batch[b].ids[k] = batch[c].ids[l] => b = c /\ k = l
    /\ \A b \in Batches : \A k \in DOMAIN batch[b].missed :
          batch[b].missed[k].why = "gone" => standing[batch[b].missed[k].to] = "purged"
    /\ IsFiniteSet(Faults) /\ Cardinality(Faults) = refused

\* An expiry written in UTC is kept: until it comes the row is listed while it
\* is there and cleanup leaves it alone; from then on no listing shows it.
UtcExpiryKept ==
    \A i \in DOMAIN notes : notes[i].expiry.ahead = 0 =>
       LET due == notes[i].expiry.at # 0 /\ notes[i].expiry.at <= instant IN
       /\ notes[i].end = "lapsed" => due
       /\ notes[i].here => (i \in Inbox(notes[i].owner) <=> ~due)

\* A row once read keeps the moment it was first read at, whatever other pages
\* with an older view of it and mark-all do after.
FirstReadingStands ==
    [][\A i \in DOMAIN notes : notes[i].readAt # 0 => notes'[i].readAt = notes[i].readAt]_notVars

\* Rust_CRD.md's reading, "returns the number of unread, non-expired
\* notifications": nothing listed has expired.  An expiry written east of UTC
\* breaks it.
NoneListedExpired ==
    \A i \in DOMAIN notes : i \in Inbox(notes[i].owner) =>
        notes[i].expiry.at = 0 \/ notes[i].expiry.at > instant

\* Every row has an owner, every answer accounts for its recipients, and a row lives as
\* long as its expiry says.
NotInv == NotTypeOK /\ OwnersExist /\ AnswersAddUp /\ UtcExpiryKept
=============================================================================
