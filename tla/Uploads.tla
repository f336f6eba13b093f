------------------------------ MODULE Uploads ------------------------------
(***************************************************************************)
(* Stored files (domain/files): a row of attachments and an object in the  *)
(* store, written and removed by separate steps.  A presigned upload makes *)
(* the row, then receives the bytes through its signed URL, then confirms  *)
(* them; a form upload stores the object, then the row.  Requests about    *)
(* one file interleave at every step, and any statement or call of the     *)
(* store may fail.  An object is known by its length; 0 is one just        *)
(* created or truncated.                                                   *)
(***************************************************************************)
EXTENDS Integers, FiniteSets

CONSTANTS FileIds,      \* files, numbered in the order they are made
          Callers,      \* requests that may be in flight together
          Lengths,      \* lengths of bodies
          MaxRequests,  \* bound: requests begun
          MaxFailures   \* bound: failing statements and calls

ASSUME UploadsAssumption ==
  /\ FileIds \subseteq Nat \ {0} /\ Lengths \subseteq Nat \ {0}
  /\ {MaxRequests, MaxFailures} \subseteq Nat

VARIABLES
  row,       \* id -> [status, size], the row of attachments
  object,    \* id -> length, NoObject when none is stored
  job,       \* caller -> [op, at, id, size]
  made,      \* ids given out
  clashed,   \* ids two requests were ever about at the same time
  faulted,   \* ids a statement or a call of the store failed for
  keptObject,      \* ids confirmed, with no upload or deletion begun since
  requests, failures

upVars == <<row, object, job, made, clashed, faulted, keptObject, requests, failures>>

NoRow == [status |-> "none", size |-> 0]
NoObject == -1
NoJob == [op |-> "none", at |-> "idle", id |-> 0, size |-> 0]
Around(f) == {k \in Callers : job[k].at /= "idle" /\ job[k].id = f}

UpInit ==
  /\ row = [f \in FileIds |-> NoRow] /\ object = [f \in FileIds |-> NoObject]
  /\ job = [k \in Callers |-> NoJob]
  /\ made = 0 /\ clashed = {} /\ faulted = {} /\ keptObject = {}
  /\ requests = 0 /\ failures = 0

\* A request about f begins.
Open(k, o, a, f, s) ==
  /\ job[k].at = "idle" /\ requests < MaxRequests
  /\ requests' = requests + 1
  /\ job' = [job EXCEPT ![k] = [op |-> o, at |-> a, id |-> f, size |-> s]]
  /\ clashed' = IF Around(f) = {} THEN clashed ELSE clashed \cup {f}
Proceed(k, a) == job' = [job EXCEPT ![k].at = a]
Close(k) == job' = [job EXCEPT ![k] = NoJob]
UploadAt(k, a) == job[k].at = a
RowUpdated(f, r) == row' = IF row[f] = NoRow THEN row ELSE [row EXCEPT ![f] = r]

-----------------------------------------------------------------------------
(* presigned_url and direct_upload.                                         *)

Presign(k, s) ==
  /\ job[k].at = "idle" /\ requests < MaxRequests /\ made + 1 \in FileIds
  /\ requests' = requests + 1 /\ made' = made + 1
  /\ row' = [row EXCEPT ![made + 1] = [status |-> "pending", size |-> s]]
  /\ UNCHANGED <<object, job, clashed, faulted, keptObject, failures>>

\* The signed URL holds for its whole life, whatever became of the row.
BeginDirectUpload(k, f, s) ==
  /\ row[f] /= NoRow
  /\ \E a \in {"truncate", "refuse"} : Open(k, "put", a, f, s)
  /\ keptObject' = keptObject \ {f}
  /\ UNCHANGED <<row, object, made, faulted, failures>>

\* put_object truncates the file, then fills it.
Truncate(k) ==
  /\ UploadAt(k, "truncate")
  /\ object' = [object EXCEPT ![job[k].id] = 0]
  /\ Proceed(k, "fill")
  /\ UNCHANGED <<row, made, clashed, faulted, keptObject, requests, failures>>

Fill(k) ==
  /\ UploadAt(k, "fill")
  /\ object' = [object EXCEPT ![job[k].id] = job[k].size]
  /\ IF job[k].op = "form" THEN Proceed(k, "insert") ELSE Close(k)
  /\ UNCHANGED <<row, made, clashed, faulted, keptObject, requests, failures>>

\* mark_upload_failed, by a refused body or a confirm that does not agree.
MarkUploadFailed(k) ==
  /\ UploadAt(k, "refuse")
  /\ RowUpdated(job[k].id, [row[job[k].id] EXCEPT !.status = "failed"])
  /\ Close(k)
  /\ UNCHANGED <<object, made, clashed, faulted, keptObject, requests, failures>>

-----------------------------------------------------------------------------
(* confirm_upload.                                                          *)

BeginConfirm(k, f, s) ==
  /\ row[f] /= NoRow /\ row[f].status /= "completed"
  /\ Open(k, "confirm", "get", f, s)
  /\ UNCHANGED <<row, object, made, faulted, keptObject, failures>>

\* MUTANT of GetObject: a missing object passes too.
GetObjectAnyway(k) ==
  /\ UploadAt(k, "get")
  /\ Proceed(k, IF object[job[k].id] \in {NoObject, job[k].size} THEN "complete" ELSE "refuse")
  /\ UNCHANGED <<row, object, made, clashed, faulted, keptObject, requests, failures>>

GetObject(k) ==
  /\ UploadAt(k, "get")
  /\ Proceed(k, IF object[job[k].id] = job[k].size THEN "complete" ELSE "refuse")
  /\ UNCHANGED <<row, object, made, clashed, faulted, keptObject, requests, failures>>

MarkCompleted(k) ==
  /\ UploadAt(k, "complete")
  /\ RowUpdated(job[k].id, [status |-> "completed", size |-> job[k].size])
  /\ keptObject' = keptObject \cup ({job[k].id} \ clashed)
  /\ Close(k)
  /\ UNCHANGED <<object, made, clashed, faulted, requests, failures>>

-----------------------------------------------------------------------------
(* persist_part: the object, then the row.                                  *)

BeginFormUpload(k, s) ==
  /\ made + 1 \in FileIds /\ made' = made + 1
  /\ Open(k, "form", "truncate", made + 1, s)
  /\ UNCHANGED <<row, object, faulted, keptObject, failures>>

InsertCompleted(k) ==
  /\ UploadAt(k, "insert")
  /\ row' = [row EXCEPT ![job[k].id] = [status |-> "completed", size |-> job[k].size]]
  /\ keptObject' = keptObject \cup {job[k].id}
  /\ Close(k)
  /\ UNCHANGED <<object, made, clashed, faulted, requests, failures>>

-----------------------------------------------------------------------------
(* delete_file, and each file of batch.                                     *)

BeginDelete(k, f) ==
  /\ row[f] /= NoRow
  /\ Open(k, "delete", "object", f, 0)
  /\ keptObject' = keptObject \ {f}
  /\ UNCHANGED <<row, object, made, faulted, failures>>

DeleteObject(k) ==
  /\ UploadAt(k, "object")
  /\ object' = [object EXCEPT ![job[k].id] = NoObject]
  /\ Proceed(k, "row")
  /\ UNCHANGED <<row, made, clashed, faulted, keptObject, requests, failures>>

DeleteRow(k) ==
  /\ UploadAt(k, "row")
  /\ row' = [row EXCEPT ![job[k].id] = NoRow]
  /\ Close(k)
  /\ UNCHANGED <<object, made, clashed, faulted, keptObject, requests, failures>>

\* get_object and delete_object swallow a failure: what cannot be read is not there, and
\* what cannot be removed loses its row all the same.
StoreSwallows(k) ==
  /\ job[k].at \in {"get", "object"}
  /\ failures < MaxFailures /\ failures' = failures + 1
  /\ faulted' = faulted \cup {job[k].id}
  /\ Proceed(k, IF UploadAt(k, "get") THEN "refuse" ELSE "row")
  /\ UNCHANGED <<row, object, made, clashed, keptObject, requests>>

\* A statement or a write of the store fails: the request ends there.
StatementFails(k) ==
  /\ job[k].at \in {"truncate", "fill", "refuse", "complete", "insert", "row"}
  /\ failures < MaxFailures /\ failures' = failures + 1
  /\ faulted' = faulted \cup {job[k].id}
  /\ Close(k)
  /\ UNCHANGED <<row, object, made, clashed, keptObject, requests>>

-----------------------------------------------------------------------------
UpNext ==
  \E k \in Callers :
    \/ \E s \in Lengths : Presign(k, s) \/ BeginFormUpload(k, s)
    \/ \E f \in 1..made, s \in Lengths : BeginDirectUpload(k, f, s) \/ BeginConfirm(k, f, s)
    \/ \E f \in 1..made : BeginDelete(k, f)
    \/ Truncate(k)
    \/ Fill(k)
    \/ MarkUploadFailed(k)
    \/ GetObject(k)
    \/ MarkCompleted(k)
    \/ InsertCompleted(k)
    \/ DeleteObject(k)
    \/ DeleteRow(k)
    \/ StoreSwallows(k)
    \/ StatementFails(k)

UpSpec == UpInit /\ [][UpNext]_upVars

-----------------------------------------------------------------------------
FileRows == [status : {"none", "pending", "completed", "failed"}, size : Lengths \cup {0}]
FileJobs == [op : {"none", "put", "confirm", "form", "delete"},
             at : {"idle", "truncate", "fill", "refuse", "get", "complete",
                   "insert", "object", "row"},
             id : FileIds \cup {0}, size : Lengths \cup {0}]

UpTypeOK ==
  /\ row \in [FileIds -> FileRows]
  /\ \A f \in FileIds : row[f].status = "none" <=> row[f].size = 0
  /\ object \in [FileIds -> Lengths \cup {0, NoObject}]
  /\ job \in [Callers -> FileJobs]
  /\ made \in Nat /\ 1..made \subseteq FileIds
  /\ clashed \cup faulted \cup keptObject \subseteq FileIds
  /\ requests \in 0..MaxRequests /\ failures \in 0..MaxFailures

\* A request is at a point of its own operation, and about a file that was made.
RequestIsStaged(k) ==
  /\ job[k].at = "idle" => job[k] = NoJob
  /\ job[k].at /= "idle" => job[k].id \in 1..made
  /\ job[k].op \in {"put", "confirm", "form"} => job[k].size \in Lengths
  /\ job[k].op = "none" <=> job[k].at = "idle"
  /\ job[k].at \in {"truncate", "fill"} => job[k].op \in {"put", "form"}
  /\ job[k].at \in {"get", "complete"} => job[k].op = "confirm"
  /\ job[k].at = "refuse" => job[k].op \in {"put", "confirm"}
  /\ job[k].at = "insert" => job[k].op = "form"
  /\ job[k].at \in {"object", "row"} => job[k].op = "delete"

\* Nothing is known of a file that was not made; a form upload is alone with its file
\* until its row is there.
UnknownIsUntouched(f) ==
  /\ f > made => row[f] = NoRow /\ object[f] = NoObject /\ f \notin clashed \cup faulted
  /\ \A k \in Around(f) : job[k].op = "form" =>
       /\ row[f] = NoRow /\ f \notin clashed \cup faulted /\ Around(f) = {k}
       /\ job[k].at = "truncate" => object[f] = NoObject
       /\ job[k].at = "insert" => object[f] = job[k].size

\* What a request has seen of its file is still so while no other has come across it.
SeenIsSo(f) ==
  f \notin clashed => \A k \in Around(f) :
    /\ Around(f) = {k}
    /\ job[k].op /= "form" => row[f] /= NoRow
    /\ job[k].at = "complete" => object[f] = job[k].size
    /\ job[k].at = "row" /\ f \notin faulted => object[f] = NoObject

\* A row that is completed, or will be, lacks its object only while a deletion that took the
\* object is about to take the row, or a statement failed.
DeletionExplains(f) ==
  /\ row[f] /= NoRow /\ object[f] = NoObject /\ f \notin faulted
  /\ row[f].status = "completed" \/ \E k \in Around(f) : job[k].at = "complete"
  => \E k \in Around(f) : job[k].at = "row"

\* An object without a row belongs to a form upload, to requests that overlapped, or to a
\* statement or a removal that failed.
StrayIsExplained(f) ==
  row[f] = NoRow /\ object[f] /= NoObject /\ f \notin clashed \cup faulted =>
    \E k \in Around(f) : job[k].op = "form"

\* A completed row has its object, whatever uploads, confirmations and deletions of
\* the file overlapped, unless a statement failed half-way.
CompletedHasObject ==
  \A f \in FileIds :
    row[f].status = "completed" /\ Around(f) = {} /\ f \notin faulted => object[f] /= NoObject

\* An object whose row is gone is left behind only by requests that overlapped, by a
\* statement that failed, or by a removal whose failure was swallowed (delete_object).
NoStrayObject ==
  \A f \in FileIds :
    row[f] = NoRow /\ Around(f) = {} /\ f \notin clashed \cup faulted => object[f] = NoObject

\* "Confirming an already-completed record is idempotent": what was confirmed stays
\* completed, with the length of the object that is stored, however often and with
\* whatever length it is confirmed again, until it is uploaded anew or deleted.
ConfirmStands ==
  \A f \in keptObject :
    row[f].status = "completed" /\ row[f].size = object[f] /\ Around(f) = {}

\* Rows and stored objects agree, and what was confirmed stays so.
UpInv ==
  /\ UpTypeOK
  /\ \A k \in Callers : RequestIsStaged(k)
  /\ \A f \in FileIds : /\ UnknownIsUntouched(f) /\ SeenIsSo(f)
                       /\ DeletionExplains(f) /\ StrayIsExplained(f)
  /\ CompletedHasObject /\ NoStrayObject /\ ConfirmStands
=============================================================================
