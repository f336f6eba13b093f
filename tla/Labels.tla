------------------------------- MODULE Labels -------------------------------
(***************************************************************************)
(* Labels and the labels of one customer (domain/tags, domain/customers).  *)
(* A request validates against what it reads and then runs a transaction   *)
(* (read committed): a DELETE removes the rows its snapshot held, waits    *)
(* for whoever holds one, and never sees a row committed since. The        *)
(* association and its audit entry commit together; the event follows,     *)
(* unless the request ends between the two.                                *)
(***************************************************************************)
EXTENDS Naturals, FiniteSets

CONSTANTS Tags, Names,      \* label rows that may exist, and their names
          Requests,
          MaxStops,         \* bound: requests dropped, or never told of
          MaxTagChanges     \* bound: labels deleted, activated and deactivated

ASSUME LabelsAssumption == {MaxStops, MaxTagChanges} \subseteq Nat /\ "none" \notin Names

VARIABLES
  tagRow,    \* tag -> [name, active, deleted], or NoTag
  labels,    \* customer_tags of the customer: [tag, by]
  audit,     \* tag -> [on, off]: reversible entries "tag assign" and "tag unassign"
  request,   \* request -> [at, op, ids, read, gone]: what it found, what its DELETE saw
  serial,    \* the labels, had the requests run one after the other as they committed
  seen,      \* the labels as a listener of customer_tags_updated has them
  untold,    \* labels whose last committed change no event named
  crossed,   \* a removal or replacement was in flight with another request
  replaced,  \* a replacement was committed: it writes no reversible entries
  stops, changes

labelVars == <<tagRow, labels, audit, request, serial, seen, untold, crossed, replaced, stops, changes>>

NoTag == [name |-> "none", active |-> FALSE, deleted |-> FALSE]
TagNamed(n) == [name |-> n, active |-> TRUE, deleted |-> FALSE]
Existing == {t \in Tags : tagRow[t] /= NoTag}
Live(t) == t \in Existing /\ ~tagRow[t].deleted
Usable == {t \in Tags : Live(t) /\ tagRow[t].active}
NamedAlready(n, t) == \E u \in Tags \ {t} : Live(u) /\ tagRow[u].name = n
HeldLabels == {r.tag : r \in labels}
Idle == [at |-> "new", op |-> "none", ids |-> {}, read |-> {}, gone |-> {}]
Ended(q, a) == request' = [request EXCEPT ![q] = [Idle EXCEPT !.at = a]]
LabelsRunning == {q \in Requests : request[q].at \in {"delete", "lock", "insert", "tell", "make"}}

LabelInit ==
  /\ tagRow \in [Tags -> {NoTag} \cup {TagNamed(n) : n \in Names}] /\ labels = {}
  /\ \A t \in Existing : ~NamedAlready(tagRow[t].name, t)
  /\ audit = [t \in Tags |-> [on |-> 0, off |-> 0]]
  /\ request = [q \in Requests |-> Idle]
  /\ serial = {} /\ seen = {} /\ untold = {} /\ crossed = FALSE /\ replaced = FALSE /\ stops = 0 /\ changes = 0

-----------------------------------------------------------------------------
(* The labels themselves. The name is looked up first; a unique index on the *)
(* names of labels that are not deleted has the last word.                   *)

CreateTag(q, t, n) ==
  /\ request[q].at = "new" /\ tagRow[t] = NoTag /\ ~NamedAlready(n, t)
  /\ \A p \in Requests : request[p].at = "make" => request[p].ids /= {t}
  /\ request' = [request EXCEPT ![q] = [Idle EXCEPT !.at = "make", !.op = n, !.ids = {t}]]
  /\ UNCHANGED <<tagRow, labels, audit, serial, seen, untold, crossed, replaced, stops, changes>>

Named(q, t) == tagRow' = [tagRow EXCEPT ![t] =
                 IF @ = NoTag THEN TagNamed(request[q].op) ELSE [@ EXCEPT !.name = request[q].op]]
StoreTag(q) ==
  /\ request[q].at = "make"
  /\ \E t \in request[q].ids :
       IF NamedAlready(request[q].op, t) /\ (tagRow[t] = NoTag \/ Live(t))
       THEN UNCHANGED tagRow ELSE Named(q, t)
  /\ Ended(q, "done")
  /\ UNCHANGED <<labels, audit, serial, seen, untold, crossed, replaced, stops, changes>>

\* update_tag reads, compares and then updates by id.
RenameTag(q, t, n) ==
  /\ request[q].at = "new" /\ Live(t) /\ tagRow[t].name /= n /\ ~NamedAlready(n, t)
  /\ request' = [request EXCEPT ![q] = [Idle EXCEPT !.at = "make", !.op = n, !.ids = {t}]]
  /\ UNCHANGED <<tagRow, labels, audit, serial, seen, untold, crossed, replaced, stops, changes>>
TagChanges(t, r) ==
  /\ tagRow' = [tagRow EXCEPT ![t] = r]
  /\ changes < MaxTagChanges /\ changes' = changes + 1
  /\ UNCHANGED <<labels, audit, request, serial, seen, untold, crossed, replaced, stops>>
DeleteTag(t) == Live(t) /\ TagChanges(t, [tagRow[t] EXCEPT !.active = FALSE, !.deleted = TRUE])
\* bulk_operation asks nothing of the rows it is given.
Activate(t, b) == t \in Existing /\ tagRow[t].active /= b
                  /\ TagChanges(t, [tagRow[t] EXCEPT !.active = b])

-----------------------------------------------------------------------------
(* The labels of the customer.                                               *)

AsksLabels(q, op, ids, next) ==
  /\ request[q].at = "new"
  /\ IF next = "done" THEN Ended(q, next)
     ELSE request' = [request EXCEPT ![q] = [at |-> next, op |-> op, ids |-> ids,
                                             read |-> ids \cap HeldLabels, gone |-> {}]]
  /\ crossed' = (crossed \/ (LabelsRunning /= {} /\
                   (op /= "add" \/ \E p \in LabelsRunning : request[p].op \in {"remove", "set"})))
  /\ UNCHANGED <<tagRow, labels, audit, serial, seen, untold, replaced, stops, changes>>

AddCustomerTags(q, ids) == ids /= {} /\ ids \subseteq Usable
                           /\ AsksLabels(q, "add", ids, IF ids \subseteq HeldLabels THEN "done" ELSE "insert")
RemoveCustomerTags(q, ids) == ids /= {} /\ AsksLabels(q, "remove", ids, "delete")
ReplaceCustomerTags(q, ids) == ids \subseteq Usable /\ AsksLabels(q, "set", ids, "delete")

\* The DELETE takes its snapshot, and waits for the rows another transaction has deleted.
Doomed(q) == IF request[q].op = "set" THEN labels
             ELSE {r \in labels : r.tag \in request[q].ids}
LabelSnapshot(q) ==
  /\ request[q].at = "delete"
  /\ request' = [request EXCEPT ![q].at = "lock", ![q].gone = Doomed(q)]
  /\ UNCHANGED <<tagRow, labels, audit, serial, seen, untold, crossed, replaced, stops, changes>>
Lock(q) ==
  /\ request[q].at = "lock"
  /\ \A p \in Requests \ {q} :
       request[p].at = "insert" => request[p].gone \cap request[q].gone \cap labels = {}
  /\ request' = [request EXCEPT ![q].at = "insert"]
  /\ UNCHANGED <<tagRow, labels, audit, serial, seen, untold, crossed, replaced, stops, changes>>

\* The INSERTs, the entries and the commit; a row that is there already undoes it all.
Fresh(q) == CASE request[q].op = "add" -> request[q].ids \ request[q].read
              [] request[q].op = "set" -> request[q].ids
              [] OTHER -> {}
Left(q) == labels \ request[q].gone
Clashes(q) == Fresh(q) \cap {r.tag : r \in Left(q)} /= {}
Counted(q, t) ==
  [on |-> audit[t].on + (IF request[q].op = "add" /\ t \in Fresh(q) THEN 1 ELSE 0),
   off |-> audit[t].off + (IF request[q].op = "remove" /\ t \in request[q].read THEN 1 ELSE 0)]
Serially(q) == CASE request[q].op = "add" -> serial \cup request[q].ids
                 [] request[q].op = "set" -> request[q].ids
                 [] OTHER -> serial \ request[q].ids

CommitOf(q, left) ==
  /\ request[q].at = "insert"
  /\ labels' = left \cup {[tag |-> t, by |-> q] : t \in Fresh(q)}
  /\ audit' = [t \in Tags |-> Counted(q, t)]
  /\ serial' = Serially(q)
  /\ replaced' = (replaced \/ request[q].op = "set")
  /\ request' = [request EXCEPT ![q].at = "tell"]
  /\ UNCHANGED <<tagRow, seen, untold, crossed, stops, changes>>

\* MUTANT of Commit: a replacement keeps the old rows.
CommitKeepingRows(q) ==
  ~Clashes(q) /\ CommitOf(q, IF request[q].op = "set" THEN labels ELSE Left(q))

Commit(q) == ~Clashes(q) /\ CommitOf(q, Left(q))

RollBack(q) ==
  /\ request[q].at = "insert" /\ Clashes(q)
  /\ Ended(q, "failed")
  /\ UNCHANGED <<tagRow, labels, audit, serial, seen, untold, crossed, replaced, stops, changes>>

\* customer_tags_updated: "add" names what was added, "set" the new set.
ToldBy(q) == CASE request[q].op = "add" -> Fresh(q)
               [] request[q].op = "set" -> Tags
               [] OTHER -> request[q].ids
TellLabels(q) ==
  /\ request[q].at = "tell"
  /\ seen' = CASE request[q].op = "add" -> seen \cup Fresh(q)
               [] request[q].op = "set" -> request[q].ids
               [] OTHER -> seen \ request[q].ids
  /\ untold' = untold \ ToldBy(q) /\ Ended(q, "done")
  /\ UNCHANGED <<tagRow, labels, audit, serial, crossed, replaced, stops, changes>>

\* Dropped before the commit, the transaction is rolled back. After it nobody is told: the
\* COMMIT was answered with an error, the request was dropped while a replacement wrote its
\* summary, or broadcasts are switched off.
Stop(q) ==
  /\ request[q].at \in {"delete", "lock", "insert", "make", "tell"} /\ stops < MaxStops
  /\ untold' = IF request[q].at = "tell" THEN untold \cup ToldBy(q) ELSE untold
  /\ stops' = stops + 1 /\ Ended(q, "failed")
  /\ UNCHANGED <<tagRow, labels, audit, serial, seen, crossed, replaced, changes>>

LabelNext ==
  \/ \E t \in Tags : DeleteTag(t) \/ \E b \in BOOLEAN : Activate(t, b)
  \/ \E q \in Requests :
       \/ \E t \in Tags, n \in Names : CreateTag(q, t, n) \/ RenameTag(q, t, n)
       \/ \E ids \in SUBSET Tags :
            AddCustomerTags(q, ids) \/ RemoveCustomerTags(q, ids) \/ ReplaceCustomerTags(q, ids)
       \/ StoreTag(q) \/ LabelSnapshot(q) \/ Lock(q) \/ Commit(q) \/ RollBack(q) \/ TellLabels(q) \/ Stop(q)

LabelSpec == LabelInit /\ [][LabelNext]_labelVars

-----------------------------------------------------------------------------
TagRows == [name : Names, active : BOOLEAN, deleted : BOOLEAN]
LabelRows == [tag : Tags, by : Requests]
LabelAsks == [at : {"new", "make", "delete", "lock", "insert", "tell", "done", "failed"},
              op : {"none", "add", "remove", "set"} \cup Names,
              ids : SUBSET Tags, read : SUBSET Tags, gone : SUBSET LabelRows]

\* The types; the customer has a label once (UNIQUE(customer_id, tag_id)).
LabelTypeOK ==
  /\ tagRow \in [Tags -> TagRows \cup {NoTag}]
  /\ labels \subseteq LabelRows /\ HeldLabels \subseteq Existing
  /\ \A r, s \in labels : r.tag = s.tag => r = s
  /\ audit \in [Tags -> [on : Nat, off : Nat]] /\ request \in [Requests -> LabelAsks]
  /\ seen \subseteq Tags /\ untold \subseteq Tags /\ serial \subseteq Tags /\ crossed \in BOOLEAN /\ replaced \in BOOLEAN
  /\ stops \in 0..MaxStops /\ changes \in 0..MaxTagChanges

AtWork == {q \in Requests : request[q].at \in {"delete", "lock", "insert", "tell"}}

\* What a request found of the labels and what its DELETE saw are still so, unless requests
\* crossed; and no removal or replacement is at work with another.
RequestIsCurrent(q) ==
  LET a == request[q] IN
  /\ a.at = "make" => a.op \in Names /\ \E t \in Tags : a.ids = {t}
  /\ q \in AtWork =>
       /\ a.op \in {"add", "remove", "set"}
       /\ a.op = "add" => a.at \in {"insert", "tell"} /\ a.gone = {}
       /\ a.op /= "remove" => a.ids \subseteq Existing
  /\ q \in AtWork /\ ~crossed =>
       /\ a.op /= "add" => AtWork = {q}
       /\ a.op = "add" => a.read \subseteq HeldLabels
       /\ a.op = "remove" /\ a.at /= "tell" => a.read = a.ids \cap HeldLabels
       /\ a.op /= "add" /\ a.at \in {"lock", "insert"} => a.gone = Doomed(q)

\* The events still to come bring a listener up to date, but for the labels nobody was told
\* of and unless requests crossed.
Telling == {q \in Requests : request[q].at = "tell"}
EventsCatchUp ==
  ~crossed =>
    /\ (\A q \in Telling : request[q].op = "add") =>
         HeldLabels \ untold = (seen \cup UNION {Fresh(q) : q \in Telling}) \ untold
    /\ \A q \in Telling :
         /\ request[q].op = "add" => Fresh(q) \subseteq HeldLabels
         /\ request[q].op = "set" => HeldLabels = request[q].ids
         /\ request[q].op = "remove" => /\ HeldLabels \cap request[q].ids = {}
                                        /\ HeldLabels \ untold = (seen \ request[q].ids) \ untold

\* However requests interleave, no two labels that are not deleted have one name, and a
\* deleted label leaves its name to others (create_tag, update_tag).
LiveNamesDiffer ==
  \A t, u \in Tags : t /= u /\ Live(t) /\ Live(u) => tagRow[t].name /= tagRow[u].name

\* Unless a removal or a replacement crossed another request, the customer has the labels
\* the requests leave one after the other: a replacement exactly those it names, and
\* additions that overlap lose nothing (replace_customer_tags, add_customer_tags).
LabelsAddUp == ~crossed => HeldLabels = serial

\* Under the same condition, without replacements, every label that came or went left one
\* reversible entry: the entries add up to the labels (CRD 1573, 1582).
EntriesAddUp ==
  ~crossed /\ ~replaced =>
    \A t \in Tags : audit[t].on = audit[t].off + (IF t \in HeldLabels THEN 1 ELSE 0)

\* Once nothing is under way, a listener that applies the events knows of every label whether
\* the customer has it, unless requests crossed or the change was committed and nobody told;
\* the next event that names the label, and any replacement, puts that right
\* (customer_tags_updated).
ListenersAgree ==
  ~crossed /\ (\A q \in Requests : request[q].at /= "tell") => seen \ untold = HeldLabels \ untold

\* The labels of a customer, the log's entries and what listeners made of the events are
\* what the requests one after the other come to.
LabelInv ==
  /\ LabelTypeOK /\ LiveNamesDiffer /\ LabelsAddUp /\ EntriesAddUp
  /\ ListenersAgree /\ EventsCatchUp
  /\ \A q \in Requests : RequestIsCurrent(q)
=============================================================================
