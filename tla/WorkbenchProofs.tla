--------------------------- MODULE WorkbenchProofs ---------------------------
(***************************************************************************)
(* Proofs about the agents' workbench, part by part, and of the workbench  *)
(* they make up. Each part's invariant is inductive: it says what a        *)
(* request has in hand between two statements, which is what its           *)
(* conclusions rest on.                                                    *)
(***************************************************************************)
EXTENDS MCWorkbench, FiniteSetTheorems, TLAPS

-----------------------------------------------------------------------------
(* Files.                                                                   *)

\* A file whose confirmation was answered is kept.
KeptStands(f) ==
  f \in keptObject => row[f].status = "completed" /\ row[f].size = object[f] /\ Around(f) = {}

\* What UpInv says of one file.
FileGood(f) ==
  /\ UnknownIsUntouched(f) /\ SeenIsSo(f) /\ DeletionExplains(f) /\ StrayIsExplained(f)
  /\ KeptStands(f)

\* What is so of a file that no request is about.
FileAlone(f) ==
  \A o \in FileIds : o /= f =>
    /\ row'[o] = row[o] /\ object'[o] = object[o]
    /\ (o \in clashed' <=> o \in clashed) /\ (o \in faulted' <=> o \in faulted)
    /\ o \in keptObject' <=> o \in keptObject
    /\ Around(o)' = Around(o) /\ \A k \in Around(o) : job'[k] = job[k]
    /\ o > made' => o > made

\* UpInv, file by file and request by request.
UpSteady ==
  /\ UpTypeOK /\ \A k \in Callers : RequestIsStaged(k)
  /\ \A f \in FileIds : FileGood(f)

\* Files are numbered.
LEMMA FilesAreNumbers ==
  \A f \in FileIds : f \in Nat /\ f > 0
BY UploadsAssumption

\* So are the lengths of objects.
LEMMA LengthsAreNumbers ==
  \A l \in Lengths : l \in Nat /\ l > 0 /\ l /= NoObject
BY UploadsAssumption DEF NoObject

\* File by file it is the invariant.
LEMMA UpConclusion == UpSteady => UpInv
<1>. SUFFICES ASSUME UpSteady PROVE UpInv
  OBVIOUS
<1>1. CompletedHasObject
  <2>. SUFFICES ASSUME NEW f \in FileIds, row[f].status = "completed", Around(f) = {},
                       f \notin faulted, object[f] = NoObject
                PROVE  FALSE
    BY DEF CompletedHasObject
  <2>1. row[f] /= NoRow
    BY DEF NoRow
  <2>. QED
    BY <2>1 DEF UpSteady, FileGood, DeletionExplains
<1>2. NoStrayObject
  BY DEF UpSteady, FileGood, StrayIsExplained, NoStrayObject
<1>3. ConfirmStands
  BY DEF UpSteady, FileGood, KeptStands, ConfirmStands, UpTypeOK
<1>. QED
  BY <1>1, <1>2, <1>3 DEF UpSteady, FileGood, UpInv

\* And the other way round.
LEMMA UpFacts == UpInv => UpSteady
BY DEF UpInv, UpSteady, FileGood, KeptStands, ConfirmStands

\* A step that moves one request and one file keeps what is said of the others.
LEMMA UpFrame ==
  ASSUME UpSteady, NEW f \in FileIds, FileAlone(f), FileGood(f)',
         UpTypeOK', \A k \in Callers : RequestIsStaged(k)'
  PROVE  UpSteady'
<1>1. ASSUME NEW o \in FileIds, o /= f PROVE FileGood(o)'
  <2>1. /\ row'[o] = row[o] /\ object'[o] = object[o]
        /\ (o \in clashed' <=> o \in clashed) /\ (o \in faulted' <=> o \in faulted)
        /\ o \in keptObject' <=> o \in keptObject
        /\ Around(o)' = Around(o) /\ \A k \in Around(o) : job'[k] = job[k]
        /\ o > made' => o > made
    BY <1>1 DEF FileAlone
  <2>2. FileGood(o)
    BY DEF UpSteady
  <2>3. UnknownIsUntouched(o)'
    BY <2>1, <2>2 DEF FileGood, UnknownIsUntouched
  <2>4. SeenIsSo(o)'
    BY <2>1, <2>2 DEF FileGood, SeenIsSo
  <2>5. DeletionExplains(o)'
    BY <2>1, <2>2 DEF FileGood, DeletionExplains
  <2>6. StrayIsExplained(o)'
    BY <2>1, <2>2 DEF FileGood, StrayIsExplained
  <2>7. KeptStands(o)'
    BY <2>1, <2>2 DEF FileGood, KeptStands
  <2>. QED
    BY <2>3, <2>4, <2>5, <2>6, <2>7 DEF FileGood
<1>. QED
  BY <1>1 DEF UpSteady

\* There is no file.
LEMMA UpInitially == UpInit => UpInv
<1>. SUFFICES ASSUME UpInit PROVE UpSteady
  BY UpConclusion
<1>1. NoRow \in FileRows /\ NoJob \in FileJobs
  BY DEF NoRow, NoJob, FileRows, FileJobs
<1>2. UpTypeOK
  BY <1>1, UploadsAssumption DEF UpInit, UpTypeOK, NoRow
<1>3. \A k \in Callers : RequestIsStaged(k)
  BY DEF UpInit, RequestIsStaged, NoJob
<1>4. \A f \in FileIds : Around(f) = {}
  BY DEF UpInit, Around, NoJob
<1>5. \A f \in FileIds : FileGood(f)
  BY <1>4 DEF UpInit, FileGood, UnknownIsUntouched, SeenIsSo, DeletionExplains,
     StrayIsExplained, KeptStands
<1>. QED
  BY <1>2, <1>3, <1>5 DEF UpSteady

\* What beginning, going on with and ending a request does to the requests about a file.
LEMMA UpOpened ==
  ASSUME UpSteady, NEW k \in Callers, NEW o, NEW a, NEW f \in FileIds, NEW s, a /= "idle",
         [op |-> o, at |-> a, id |-> f, size |-> s] \in FileJobs, Open(k, o, a, f, s)
  PROVE  /\ job'[k] = [op |-> o, at |-> a, id |-> f, size |-> s] /\ job[k].at = "idle"
         /\ \A l \in Callers : l /= k => job'[l] = job[l]
         /\ k \notin Around(f) /\ Around(f)' = Around(f) \cup {k}
         /\ \A g \in FileIds : g /= f => Around(g)' = Around(g)
              /\ \A l \in Around(g) : job'[l] = job[l]
         /\ job' \in [Callers -> FileJobs] /\ requests' \in 0..MaxRequests
         /\ clashed' = IF Around(f) = {} THEN clashed ELSE clashed \cup {f}
<1>1. /\ job'[k] = [op |-> o, at |-> a, id |-> f, size |-> s] /\ job[k].at = "idle"
      /\ \A l \in Callers : l /= k => job'[l] = job[l]
      /\ job' \in [Callers -> FileJobs] /\ requests' \in 0..MaxRequests
      /\ clashed' = IF Around(f) = {} THEN clashed ELSE clashed \cup {f}
  BY UploadsAssumption DEF UpSteady, UpTypeOK, Open
<1>2. k \notin Around(f) /\ Around(f)' = Around(f) \cup {k}
  BY <1>1 DEF Around
<1>3. ASSUME NEW g \in FileIds, g /= f
      PROVE  Around(g)' = Around(g) /\ \A l \in Around(g) : job'[l] = job[l]
  BY <1>1, <1>3 DEF Around
<1>. QED
  BY <1>1, <1>2, <1>3

\* A request that goes on stays the one about its file.
LEMMA UpProceeds ==
  ASSUME UpSteady, NEW k \in Callers, job[k].at /= "idle", NEW a, a /= "idle",
         a \in {"fill", "complete", "refuse", "insert", "row"}, Proceed(k, a)
  PROVE  /\ job'[k].at = a /\ job'[k].op = job[k].op /\ job'[k].id = job[k].id
              /\ job'[k].size = job[k].size
         /\ \A l \in Callers : l /= k => job'[l] = job[l]
         /\ \A g \in FileIds : Around(g)' = Around(g)
         /\ \A g \in FileIds : g /= job[k].id => \A l \in Around(g) : job'[l] = job[l]
         /\ k \in Around(job[k].id) /\ job' \in [Callers -> FileJobs]
<1>1. /\ job' = [job EXCEPT ![k] = [job[k] EXCEPT !.at = a]] /\ job[k] \in FileJobs
      /\ job \in [Callers -> FileJobs]
  BY DEF Proceed, UpSteady, UpTypeOK
<1>2. /\ job'[k].at = a /\ job'[k].op = job[k].op /\ job'[k].id = job[k].id
           /\ job'[k].size = job[k].size
      /\ job' \in [Callers -> FileJobs] /\ \A l \in Callers : l /= k => job'[l] = job[l]
  BY <1>1 DEF FileJobs
<1>3. ASSUME NEW g \in FileIds PROVE Around(g)' = Around(g)
  BY <1>2 DEF Around
<1>. QED
  BY <1>2, <1>3 DEF Around

\* A request that ends is no longer about its file.
LEMMA UpCloses ==
  ASSUME UpSteady, NEW k \in Callers, job[k].at /= "idle", NEW f \in FileIds, f = job[k].id,
         Close(k)
  PROVE  /\ job'[k] = NoJob /\ \A l \in Callers : l /= k => job'[l] = job[l]
         /\ k \in Around(f) /\ Around(f)' = Around(f) \ {k}
         /\ \A g \in FileIds : g /= f => Around(g)' = Around(g)
              /\ \A l \in Around(g) : job'[l] = job[l]
         /\ job' \in [Callers -> FileJobs] /\ RequestIsStaged(k)'
<1>1. /\ job'[k] = NoJob /\ (\A l \in Callers : l /= k => job'[l] = job[l])
      /\ job' \in [Callers -> FileJobs]
  BY DEF UpSteady, UpTypeOK, Close, NoJob, FileJobs
<1>2. k \in Around(f) /\ Around(f)' = Around(f) \ {k}
  BY <1>1 DEF Around, NoJob
<1>3. ASSUME NEW g \in FileIds, g /= f
      PROVE  Around(g)' = Around(g) /\ \A l \in Around(g) : job'[l] = job[l]
  BY <1>1, <1>3 DEF Around, NoJob
<1>4. RequestIsStaged(k)'
  BY <1>1 DEF RequestIsStaged, NoJob
<1>. QED
  BY <1>1, <1>2, <1>3, <1>4

\* The stage of every other request is what it was.
LEMMA OthersStaged ==
  ASSUME UpSteady, NEW k \in Callers, made' = made \/ made' = made + 1,
         \A l \in Callers : l /= k => job'[l] = job[l], RequestIsStaged(k)'
  PROVE  \A l \in Callers : RequestIsStaged(l)'
<1>1. ASSUME NEW l \in Callers, l /= k PROVE RequestIsStaged(l)'
  <2>1. \A i \in 1..made : i \in 1..made'
    BY DEF UpSteady, UpTypeOK
  <2>. QED
    BY <1>1, <2>1 DEF UpSteady, RequestIsStaged
<1>. QED
  BY <1>1


\* Nothing happens.
LEMMA UpUnchanged == UpSteady /\ UNCHANGED upVars => UpSteady'
BY DEF upVars, UpSteady, UpTypeOK, RequestIsStaged, FileGood, UnknownIsUntouched, SeenIsSo,
   DeletionExplains,
       StrayIsExplained, KeptStands, Around

\* A file that was made, and the next to be made.
LEMMA NextFile ==
  ASSUME UpSteady, NEW f \in FileIds, f = made + 1
  PROVE  /\ row[f] = NoRow /\ object[f] = NoObject /\ Around(f) = {}
         /\ f \notin clashed /\ f \notin faulted /\ f \notin keptObject
         /\ made \in Nat /\ 1..f \subseteq FileIds /\ \A i \in 1..made : i \in 1..f
<1>1. made \in Nat /\ f > made /\ 1..made \subseteq FileIds
  BY DEF UpSteady, UpTypeOK
<1>2. row[f] = NoRow /\ object[f] = NoObject /\ f \notin clashed /\ f \notin faulted
  BY <1>1 DEF UpSteady, FileGood, UnknownIsUntouched
<1>3. f \notin keptObject
  BY <1>2 DEF UpSteady, FileGood, KeptStands, NoRow
<1>4. ASSUME NEW k \in Callers, job[k].at /= "idle" PROVE job[k].id /= f
  BY <1>1, <1>4 DEF UpSteady, RequestIsStaged
<1>5. Around(f) = {}
  BY <1>4 DEF Around
<1>6. \A i \in 1..f : i \in 1..made \/ i = f
  BY <1>1
<1>. QED
  BY <1>1, <1>2, <1>3, <1>5, <1>6

\* A presign makes the next file's row.
LEMMA UpPresigns ==
  ASSUME UpSteady, NEW k \in Callers, NEW s \in Lengths, Presign(k, s)
  PROVE  UpSteady'
<1>1. PICK f \in FileIds : f = made + 1
  BY DEF Presign
<1>2. /\ made' = f /\ job' = job /\ object' = object
      /\ clashed' = clashed /\ faulted' = faulted /\ keptObject' = keptObject
           /\ failures' = failures
      /\ row' = [row EXCEPT ![f] = [status |-> "pending", size |-> s]]
      /\ requests < MaxRequests /\ requests' = requests + 1
  BY <1>1 DEF Presign
<1>3. /\ row[f] = NoRow /\ object[f] = NoObject /\ Around(f) = {}
      /\ f \notin clashed /\ f \notin faulted /\ f \notin keptObject
      /\ made \in Nat /\ 1..f \subseteq FileIds /\ \A i \in 1..made : i \in 1..f
  BY <1>1, NextFile
<1>4. [status |-> "pending", size |-> s] \in FileRows
  BY DEF FileRows
<1>5. UpTypeOK'
  <2>1. row' \in [FileIds -> FileRows]
    BY <1>2, <1>4 DEF UpSteady, UpTypeOK
  <2>2. \A g \in FileIds : row'[g].status = "none" <=> row'[g].size = 0
    BY <1>2, LengthsAreNumbers DEF UpSteady, UpTypeOK
  <2>3. requests' \in 0..MaxRequests
    BY <1>2, UploadsAssumption DEF UpSteady, UpTypeOK
  <2>. QED
    BY <1>1, <1>2, <1>3, <2>1, <2>2, <2>3 DEF UpSteady, UpTypeOK
<1>6. row'[f] = [status |-> "pending", size |-> s] /\ \A o \in FileIds : o /= f
           => row'[o] = row[o]
  BY <1>2 DEF UpSteady, UpTypeOK
<1>7. \A g \in FileIds : Around(g)' = Around(g)
  BY <1>2 DEF Around
<1>8. FileGood(f)'
  <2>1. Around(f)' = {} /\ ~(f > made') /\ row'[f] /= NoRow /\ f \notin keptObject'
             /\ row'[f].status /= "completed"
    BY <1>1, <1>2, <1>3, <1>6, <1>7 DEF NoRow
  <2>. QED
    BY <2>1 DEF FileGood, UnknownIsUntouched, SeenIsSo, DeletionExplains, StrayIsExplained,
       KeptStands
<1>9. FileAlone(f)
  <2>1. ASSUME NEW o \in FileIds, o > made' PROVE o > made
    BY <1>1, <1>2, <1>3, <2>1, FilesAreNumbers
  <2>. QED
    BY <1>2, <1>6, <1>7, <2>1 DEF FileAlone
<1>10. \A l \in Callers : RequestIsStaged(l)'
  BY <1>2, <1>3 DEF UpSteady, RequestIsStaged
<1>. QED
  BY <1>5, <1>8, <1>9, <1>10, UpFrame

\* The request that is at a stage, and its file.
LEMMA UpAt ==
  ASSUME UpSteady, NEW k \in Callers, job[k].at /= "idle"
  PROVE  \E f \in FileIds : f = job[k].id /\ f \in 1..made /\ k \in Around(f)
         /\ FileGood(f) /\ RequestIsStaged(k)
<1>1. RequestIsStaged(k) /\ 1..made \subseteq FileIds
  BY DEF UpSteady, UpTypeOK
<1>2. job[k].id \in FileIds /\ job[k].id \in 1..made
  BY <1>1 DEF RequestIsStaged
<1>. QED
  BY <1>1, <1>2 DEF UpSteady, Around

\* A request about a file begins.
LEMMA UpBegins ==
  ASSUME UpSteady, NEW k \in Callers, NEW f \in 1..made, NEW s,
         \/ s \in Lengths /\ (BeginDirectUpload(k, f, s) \/ BeginConfirm(k, f, s))
         \/ BeginDelete(k, f)
  PROVE  UpSteady'
<1>1. f \in FileIds /\ row[f] /= NoRow /\ FileGood(f) /\ ~(f > made)
  BY DEF UpSteady, UpTypeOK, BeginDirectUpload, BeginConfirm, BeginDelete
<1>2. /\ row' = row /\ object' = object /\ made' = made /\ faulted' = faulted
           /\ failures' = failures
      /\ keptObject' \subseteq keptObject /\ f \notin keptObject'
      /\ \A o \in FileIds : o /= f => (o \in keptObject' <=> o \in keptObject)
  BY <1>1 DEF BeginDirectUpload, BeginConfirm, BeginDelete, FileGood, KeptStands
<1>3. PICK j \in FileJobs : /\ Open(k, j.op, j.at, f, j.size) /\ j.id = f
           /\ j.at \notin {"idle", "complete", "row", "insert"}
                            /\ \/ j.op = "put" /\ j.at \in {"truncate", "refuse"}
                                    /\ j.size \in Lengths
                               \/ j.op = "confirm" /\ j.at = "get" /\ j.size \in Lengths
                               \/ j.op = "delete" /\ j.at = "object"
  <2>1. CASE s \in Lengths /\ BeginDirectUpload(k, f, s)
    <3>1. PICK a \in {"truncate", "refuse"} : Open(k, "put", a, f, s)
      BY <2>1 DEF BeginDirectUpload
    <3>2. [op |-> "put", at |-> a, id |-> f, size |-> s] \in FileJobs
      BY <1>1, <2>1 DEF FileJobs
    <3>. QED
      BY <2>1, <3>1, <3>2
  <2>2. CASE s \in Lengths /\ BeginConfirm(k, f, s)
    <3>1. [op |-> "confirm", at |-> "get", id |-> f, size |-> s] \in FileJobs /\ Open(k,
               "confirm", "get", f, s)
      BY <1>1, <2>2 DEF FileJobs, BeginConfirm
    <3>. QED
      BY <2>2, <3>1
  <2>3. CASE BeginDelete(k, f)
    <3>1. [op |-> "delete", at |-> "object", id |-> f, size |-> 0] \in FileJobs /\ Open(k,
               "delete", "object", f, 0)
      BY <1>1, <2>3 DEF FileJobs, BeginDelete
    <3>. QED
      BY <3>1
  <2>. QED
    BY <2>1, <2>2, <2>3
<1>4. j = [op |-> j.op, at |-> j.at, id |-> f, size |-> j.size] /\ j.at /= "idle"
  BY <1>3 DEF FileJobs
<1>5. /\ job'[k] = j /\ job[k].at = "idle" /\ \A l \in Callers : l /= k => job'[l] = job[l]
      /\ k \notin Around(f) /\ Around(f)' = Around(f) \cup {k}
      /\ \A g \in FileIds : g /= f => Around(g)' = Around(g)
           /\ \A l \in Around(g) : job'[l] = job[l]
      /\ job' \in [Callers -> FileJobs] /\ requests' \in 0..MaxRequests
      /\ clashed' = IF Around(f) = {} THEN clashed ELSE clashed \cup {f}
  BY <1>1, <1>3, <1>4, UpOpened
<1>6. UpTypeOK'
  BY <1>1, <1>2, <1>5 DEF UpSteady, UpTypeOK
<1>7. RequestIsStaged(k)'
  BY <1>2, <1>3, <1>5 DEF RequestIsStaged
<1>8. \A l \in Callers : RequestIsStaged(l)'
  BY <1>2, <1>5, <1>7, OthersStaged
<1>9. FileAlone(f)
  BY <1>2, <1>5 DEF FileAlone
<1>10. \A l \in Around(f) : l /= k /\ l \in Callers /\ job'[l] = job[l] /\ job[l].op /= "form"
  BY <1>1, <1>5 DEF FileGood, UnknownIsUntouched, Around
<1>11. \A l \in Around(f)' : l = k \/ l \in Around(f)
  BY <1>5
<1>12. FileGood(f)'
  <2>1. UnknownIsUntouched(f)'
    BY <1>1, <1>2, <1>3, <1>5, <1>10, <1>11 DEF UnknownIsUntouched
  <2>2. SeenIsSo(f)'
    BY <1>1, <1>2, <1>3, <1>5, <1>11 DEF SeenIsSo
  <2>3. DeletionExplains(f)'
    BY <1>1, <1>2, <1>3, <1>5, <1>10, <1>11 DEF FileGood, DeletionExplains
  <2>4. StrayIsExplained(f)' /\ KeptStands(f)'
    BY <1>1, <1>2 DEF StrayIsExplained, KeptStands
  <2>. QED
    BY <2>1, <2>2, <2>3, <2>4 DEF FileGood
<1>. QED
  BY <1>1, <1>6, <1>8, <1>9, <1>12, UpFrame

\* A form is uploaded: the file is the request's own.
LEMMA UpForms ==
  ASSUME UpSteady, NEW k \in Callers, NEW s \in Lengths, BeginFormUpload(k, s)
  PROVE  UpSteady'
<1>1. PICK f \in FileIds : f = made + 1
  BY DEF BeginFormUpload
<1>2. /\ made' = f /\ row' = row /\ object' = object /\ faulted' = faulted
      /\ keptObject' = keptObject /\ failures' = failures /\ Open(k, "form", "truncate", f, s)
  BY <1>1 DEF BeginFormUpload
<1>3. /\ row[f] = NoRow /\ object[f] = NoObject /\ Around(f) = {}
      /\ f \notin clashed /\ f \notin faulted /\ f \notin keptObject
      /\ made \in Nat /\ 1..f \subseteq FileIds /\ \A i \in 1..made : i \in 1..f
  BY <1>1, NextFile
<1>4. [op |-> "form", at |-> "truncate", id |-> f, size |-> s] \in FileJobs
  BY DEF FileJobs
<1>5. /\ job'[k] = [op |-> "form", at |-> "truncate", id |-> f, size |-> s]
      /\ \A l \in Callers : l /= k => job'[l] = job[l]
      /\ Around(f)' = {k} /\ clashed' = clashed
      /\ \A g \in FileIds : g /= f => Around(g)' = Around(g)
           /\ \A l \in Around(g) : job'[l] = job[l]
      /\ job' \in [Callers -> FileJobs] /\ requests' \in 0..MaxRequests
  BY <1>2, <1>3, <1>4, UpOpened
<1>6. UpTypeOK'
  BY <1>1, <1>2, <1>3, <1>5 DEF UpSteady, UpTypeOK
<1>7. RequestIsStaged(k)'
  <2>1. f \in 1..f
    BY FilesAreNumbers
  <2>. QED
    BY <1>2, <1>5, <2>1 DEF RequestIsStaged
<1>8. \A l \in Callers : RequestIsStaged(l)'
  BY <1>1, <1>2, <1>5, <1>7, OthersStaged
<1>9. FileAlone(f)
  <2>1. ASSUME NEW o \in FileIds, o > made' PROVE o > made
    BY <1>1, <1>2, <1>3, <2>1, FilesAreNumbers
  <2>. QED
    BY <1>2, <1>5, <2>1 DEF FileAlone
<1>10. ~(f > made')
  BY <1>2, FilesAreNumbers
<1>11. FileGood(f)'
  BY <1>2, <1>3, <1>5, <1>10
     DEF FileGood, UnknownIsUntouched, SeenIsSo, DeletionExplains, StrayIsExplained, KeptStands
<1>. QED
  BY <1>6, <1>8, <1>9, <1>11, UpFrame

\* An object is begun anew.
LEMMA UpTruncates ==
  ASSUME UpSteady, NEW k \in Callers, Truncate(k)
  PROVE  UpSteady'
<1>1. PICK f \in FileIds : f = job[k].id /\ f \in 1..made /\ k \in Around(f) /\ FileGood(f)
           /\ RequestIsStaged(k)
  BY UpAt DEF Truncate, UploadAt
<1>2. /\ job[k].at = "truncate" /\ object' = [object EXCEPT ![f] = 0] /\ Proceed(k, "fill")
           /\ row' = row
      /\ made' = made /\ clashed' = clashed /\ faulted' = faulted /\ keptObject' = keptObject
      /\ requests' = requests /\ failures' = failures
  BY <1>1 DEF Truncate, UploadAt
<1>3. /\ job'[k].at = "fill" /\ job'[k].op = job[k].op /\ job'[k].id = f
           /\ job'[k].size = job[k].size
      /\ \A l \in Callers : l /= k => job'[l] = job[l]
      /\ \A g \in FileIds : Around(g)' = Around(g)
      /\ \A g \in FileIds : g /= f => \A l \in Around(g) : job'[l] = job[l]
      /\ job' \in [Callers -> FileJobs]
  BY <1>1, <1>2, UpProceeds
<1>4. object'[f] = 0 /\ object'[f] /= NoObject /\ \A o \in FileIds : o /= f
           => object'[o] = object[o]
  BY <1>2 DEF UpSteady, UpTypeOK, NoObject
<1>5. UpTypeOK'
  BY <1>2, <1>3 DEF UpSteady, UpTypeOK
<1>6. RequestIsStaged(k)'
  BY <1>1, <1>2, <1>3 DEF RequestIsStaged
<1>7. \A l \in Callers : RequestIsStaged(l)'
  BY <1>2, <1>3, <1>6, OthersStaged
<1>8. FileAlone(f)
  BY <1>2, <1>3, <1>4 DEF FileAlone
<1>9. f \notin keptObject
  BY <1>1 DEF FileGood, KeptStands
<1>10. \A l \in Around(f) : l \in Callers /\ (l /= k => job'[l] = job[l])
  BY <1>3 DEF Around
<1>11. FileGood(f)'
  <2>1. UnknownIsUntouched(f)'
    <3>1. ~(f > made')
      BY <1>1, <1>2, FilesAreNumbers DEF UpSteady, UpTypeOK
    <3>2. ASSUME NEW l \in Around(f), job'[l].op = "form"
          PROVE  row[f] = NoRow /\ f \notin clashed \cup faulted /\ Around(f) = {l} /\ l = k
      BY <1>1, <1>3, <1>10, <3>2 DEF FileGood, UnknownIsUntouched
    <3>. QED
      BY <1>2, <1>3, <3>1, <3>2 DEF UnknownIsUntouched
  <2>2. SeenIsSo(f)'
    BY <1>1, <1>2, <1>3, <1>10 DEF FileGood, SeenIsSo
  <2>3. DeletionExplains(f)' /\ KeptStands(f)'
    BY <1>2, <1>4, <1>9 DEF DeletionExplains, KeptStands
  <2>4. StrayIsExplained(f)'
    BY <1>1, <1>2, <1>3, <1>10 DEF FileGood, StrayIsExplained, SeenIsSo, RequestIsStaged
  <2>. QED
    BY <2>1, <2>2, <2>3, <2>4 DEF FileGood
<1>. QED
  BY <1>5, <1>7, <1>8, <1>11, UpFrame

\* A confirmation looks at the object.
LEMMA UpGets ==
  ASSUME UpSteady, NEW k \in Callers, GetObject(k)
  PROVE  UpSteady'
<1>1. PICK f \in FileIds : f = job[k].id /\ f \in 1..made /\ k \in Around(f) /\ FileGood(f)
           /\ RequestIsStaged(k)
  BY UpAt DEF GetObject, UploadAt
<1>2. /\ job[k].at = "get" /\ Proceed(k, IF object[f] = job[k].size THEN "complete" ELSE "refuse")
      /\ row' = row /\ object' = object /\ made' = made /\ clashed' = clashed
           /\ faulted' = faulted /\ keptObject' = keptObject /\ requests' = requests
                /\ failures' = failures
  BY <1>1 DEF GetObject, UploadAt, RowUpdated
<1>3. /\ job'[k].at /= "idle"
           /\ job'[k].at = (IF object[f] = job[k].size THEN "complete"
                ELSE "refuse") /\ job'[k].op = job[k].op
      /\ job'[k].id = f /\ job'[k].size = job[k].size
      /\ \A l \in Callers : l /= k => job'[l] = job[l]
      /\ \A g \in FileIds : Around(g)' = Around(g)
      /\ \A g \in FileIds : g /= f => \A l \in Around(g) : job'[l] = job[l]
      /\ job' \in [Callers -> FileJobs]
  BY <1>1, <1>2, UpProceeds
<1>4. \A l \in Callers : RequestIsStaged(l)'
  <2>1. RequestIsStaged(k)'
    BY <1>1, <1>2, <1>3 DEF RequestIsStaged
  <2>. QED
    BY <1>2, <1>3, <2>1, OthersStaged
<1>5. \A l \in Around(f) : l \in Callers /\ (l /= k => job'[l] = job[l] /\ job[l].op /= "form")
  BY <1>1, <1>3 DEF Around, FileGood, UnknownIsUntouched
<1>6. ~(f > made')
  BY <1>1, <1>2, FilesAreNumbers DEF UpSteady, UpTypeOK
<1>7. UpTypeOK'
  BY <1>2, <1>3 DEF UpSteady, UpTypeOK
<1>8. FileAlone(f)
  BY <1>2, <1>3 DEF FileAlone
<1>9. FileGood(f)'
  <2>1. job[k].op = "confirm" /\ job[k].size \in Lengths /\ f \notin keptObject
    BY <1>1, <1>2 DEF RequestIsStaged, FileGood, KeptStands
  <2>2. UnknownIsUntouched(f)'
    BY <1>2, <1>3, <1>5, <1>6, <2>1 DEF UnknownIsUntouched
  <2>3. SeenIsSo(f)'
    BY <1>1, <1>2, <1>3, <1>5 DEF FileGood, SeenIsSo
  <2>4. DeletionExplains(f)'
    BY <1>1, <1>2, <1>3, <1>5, <2>1, LengthsAreNumbers DEF FileGood, DeletionExplains
  <2>5. StrayIsExplained(f)' /\ KeptStands(f)'
    BY <1>1, <1>2, <1>3, <1>5, <2>1 DEF FileGood, StrayIsExplained, KeptStands
  <2>. QED
    BY <2>2, <2>3, <2>4, <2>5 DEF FileGood
<1>. QED
  BY <1>4, <1>7, <1>8, <1>9, UpFrame

\* The object is deleted.
LEMMA UpDeletesObject ==
  ASSUME UpSteady, NEW k \in Callers, DeleteObject(k)
  PROVE  UpSteady'
<1>1. PICK f \in FileIds : f = job[k].id /\ f \in 1..made /\ k \in Around(f) /\ FileGood(f)
           /\ RequestIsStaged(k)
  BY UpAt DEF DeleteObject, UploadAt
<1>2. /\ job[k].at = "object" /\ Proceed(k, "row")
      /\ object' = [object EXCEPT ![f] = NoObject]
      /\ row' = row /\ made' = made /\ clashed' = clashed /\ faulted' = faulted
           /\ keptObject' = keptObject /\ requests' = requests /\ failures' = failures
  BY <1>1 DEF DeleteObject, UploadAt, RowUpdated
<1>3. /\ job'[k].at /= "idle" /\ job'[k].at = ("row") /\ job'[k].op = job[k].op
      /\ job'[k].id = f /\ job'[k].size = job[k].size
      /\ \A l \in Callers : l /= k => job'[l] = job[l]
      /\ \A g \in FileIds : Around(g)' = Around(g)
      /\ \A g \in FileIds : g /= f => \A l \in Around(g) : job'[l] = job[l]
      /\ job' \in [Callers -> FileJobs]
  BY <1>1, <1>2, UpProceeds
<1>4. \A l \in Callers : RequestIsStaged(l)'
  <2>1. RequestIsStaged(k)'
    BY <1>1, <1>2, <1>3 DEF RequestIsStaged
  <2>. QED
    BY <1>2, <1>3, <2>1, OthersStaged
<1>5. \A l \in Around(f) : l \in Callers /\ (l /= k => job'[l] = job[l] /\ job[l].op /= "form")
  BY <1>1, <1>3 DEF Around, FileGood, UnknownIsUntouched
<1>6. ~(f > made')
  BY <1>1, <1>2, FilesAreNumbers DEF UpSteady, UpTypeOK
<1>7. object'[f] = NoObject /\ (\A o \in FileIds : o /= f => object'[o] = object[o])
      /\ object' \in [FileIds -> Lengths \cup {0, NoObject}]
  BY <1>2 DEF UpSteady, UpTypeOK
<1>8. UpTypeOK'
  BY <1>2, <1>3, <1>7 DEF UpSteady, UpTypeOK
<1>9. FileAlone(f)
  BY <1>2, <1>3, <1>7 DEF FileAlone
<1>10. FileGood(f)'
  <2>1. job[k].op = "delete" /\ f \notin keptObject
    BY <1>1, <1>2 DEF RequestIsStaged, FileGood, KeptStands
  <2>2. UnknownIsUntouched(f)'
    BY <1>2, <1>3, <1>5, <1>6, <2>1 DEF UnknownIsUntouched
  <2>3. SeenIsSo(f)'
    BY <1>1, <1>2, <1>3, <1>5, <1>7 DEF FileGood, SeenIsSo
  <2>4. DeletionExplains(f)'
    BY <1>1, <1>2, <1>3 DEF DeletionExplains
  <2>5. StrayIsExplained(f)' /\ KeptStands(f)'
    BY <1>2, <1>7, <2>1 DEF StrayIsExplained, KeptStands
  <2>. QED
    BY <2>2, <2>3, <2>4, <2>5 DEF FileGood
<1>. QED
  BY <1>4, <1>8, <1>9, <1>10, UpFrame

\* A request is refused.
LEMMA UpRefuses ==
  ASSUME UpSteady, NEW k \in Callers, MarkUploadFailed(k)
  PROVE  UpSteady'
<1>1. PICK f \in FileIds : f = job[k].id /\ f \in 1..made /\ k \in Around(f) /\ FileGood(f)
           /\ RequestIsStaged(k)
  BY UpAt DEF MarkUploadFailed, UploadAt
<1>2. /\ job[k].at = "refuse" /\ Close(k)
      /\ row' = IF row[f] = NoRow THEN row
           ELSE [row EXCEPT ![f] = [row[f] EXCEPT !.status = "failed"]]
      /\ object' = object /\ made' = made /\ clashed' = clashed /\ faulted' = faulted
           /\ keptObject' = keptObject /\ requests' = requests /\ failures' = failures
  BY <1>1 DEF MarkUploadFailed, UploadAt, RowUpdated
<1>3. /\ job'[k] = NoJob /\ \A l \in Callers : l /= k => job'[l] = job[l]
      /\ Around(f)' = Around(f) \ {k}
      /\ \A g \in FileIds : g /= f => Around(g)' = Around(g)
           /\ \A l \in Around(g) : job'[l] = job[l]
      /\ job' \in [Callers -> FileJobs] /\ RequestIsStaged(k)'
  BY <1>1, <1>2, UpCloses
<1>4. \A l \in Callers : RequestIsStaged(l)'
  BY <1>2, <1>3, OthersStaged
<1>5. \A l \in Around(f)' : l \in Around(f) /\ l /= k /\ l \in Callers /\ job'[l] = job[l]
           /\ job[l].op /= "form"
  BY <1>1, <1>3 DEF Around, FileGood, UnknownIsUntouched
<1>6. ~(f > made')
  BY <1>1, <1>2, FilesAreNumbers DEF UpSteady, UpTypeOK
<1>7. /\ row' \in [FileIds -> FileRows] /\ \A o \in FileIds : o /= f => row'[o] = row[o]
      /\ \A o \in FileIds : row'[o].status = "none" <=> row'[o].size = 0
      /\ row'[f] = NoRow <=> row[f] = NoRow
      /\ row[f] /= NoRow => row'[f].status = "failed"
  <2>1. row[f] \in FileRows /\ (row[f].status = "none" => row[f] = NoRow)
    BY DEF UpSteady, UpTypeOK, FileRows, NoRow
  <2>2. [row[f] EXCEPT !.status = "failed"] \in FileRows
             /\ [row[f] EXCEPT !.status = "failed"] /= NoRow
        /\ [row[f] EXCEPT !.status = "failed"].size = row[f].size
             /\ [row[f] EXCEPT !.status = "failed"].status = "failed"
    BY <2>1 DEF FileRows, NoRow
  <2>. QED
    BY <1>2, <2>1, <2>2 DEF UpSteady, UpTypeOK, NoRow
<1>8. UpTypeOK'
  BY <1>2, <1>3, <1>7 DEF UpSteady, UpTypeOK
<1>9. FileAlone(f)
  BY <1>2, <1>3, <1>7 DEF FileAlone
<1>10. FileGood(f)'
  <2>1. f \notin keptObject
    BY <1>1, <1>2 DEF RequestIsStaged, FileGood, KeptStands
  <2>2. UnknownIsUntouched(f)' /\ KeptStands(f)'
    BY <1>1, <1>2, <1>3, <1>5, <1>6, <1>7, <2>1 DEF FileGood, UnknownIsUntouched, KeptStands
  <2>3. SeenIsSo(f)'
    BY <1>1, <1>2, <1>3, <1>5, <1>7 DEF FileGood, SeenIsSo
  <2>4. DeletionExplains(f)'
    <3>1. ASSUME NEW l \in Around(f), job[l].at = "row"
          PROVE  l \in Around(f)' /\ job'[l].at = "row"
      BY <1>2, <1>3, <3>1 DEF Around
    <3>2. row'[f] = NoRow \/ row'[f].status /= "completed"
      BY <1>7
    <3>. QED
      BY <1>1, <1>2, <1>5, <1>7, <3>1, <3>2 DEF FileGood, DeletionExplains
  <2>5. StrayIsExplained(f)'
    BY <1>1, <1>2, <1>3, <1>7 DEF FileGood, StrayIsExplained, SeenIsSo, RequestIsStaged
  <2>. QED
    BY <2>2, <2>3, <2>4, <2>5 DEF FileGood
<1>. QED
  BY <1>4, <1>8, <1>9, <1>10, UpFrame

\* The row is marked complete.
LEMMA UpCompletes ==
  ASSUME UpSteady, NEW k \in Callers, MarkCompleted(k)
  PROVE  UpSteady'
<1>1. PICK f \in FileIds : f = job[k].id /\ f \in 1..made /\ k \in Around(f) /\ FileGood(f)
           /\ RequestIsStaged(k)
  BY UpAt DEF MarkCompleted, UploadAt
<1>2. /\ job[k].at = "complete" /\ Close(k)
      /\ row' = IF row[f] = NoRow THEN row
           ELSE [row EXCEPT ![f] = [status |-> "completed", size |-> job[k].size]]
      /\ keptObject' = keptObject \cup ({f} \ clashed)
      /\ object' = object /\ made' = made /\ clashed' = clashed /\ faulted' = faulted
           /\ requests' = requests /\ failures' = failures
  BY <1>1 DEF MarkCompleted, UploadAt, RowUpdated
<1>3. /\ job'[k] = NoJob /\ \A l \in Callers : l /= k => job'[l] = job[l]
      /\ Around(f)' = Around(f) \ {k}
      /\ \A g \in FileIds : g /= f => Around(g)' = Around(g)
           /\ \A l \in Around(g) : job'[l] = job[l]
      /\ job' \in [Callers -> FileJobs] /\ RequestIsStaged(k)'
  BY <1>1, <1>2, UpCloses
<1>4. \A l \in Callers : RequestIsStaged(l)'
  BY <1>2, <1>3, OthersStaged
<1>5. \A l \in Around(f)' : l \in Around(f) /\ l /= k /\ l \in Callers /\ job'[l] = job[l]
           /\ job[l].op /= "form"
  BY <1>1, <1>3 DEF Around, FileGood, UnknownIsUntouched
<1>6. ~(f > made')
  BY <1>1, <1>2, FilesAreNumbers DEF UpSteady, UpTypeOK
<1>7. /\ row' \in [FileIds -> FileRows] /\ \A o \in FileIds : o /= f => row'[o] = row[o]
      /\ \A o \in FileIds : row'[o].status = "none" <=> row'[o].size = 0
      /\ row'[f] = NoRow <=> row[f] = NoRow
      /\ row[f] /= NoRow => row'[f].status = "completed" /\ row'[f].size = job[k].size
  <2>1. job[k].size \in Lengths
    BY <1>1, <1>2 DEF RequestIsStaged
  <2>2. [status |-> "completed", size |-> job[k].size] \in FileRows
    BY <2>1 DEF FileRows
  <2>. QED
    BY <1>2, <2>1, <2>2, LengthsAreNumbers DEF UpSteady, UpTypeOK, NoRow
<1>8. UpTypeOK'
  BY <1>2, <1>3, <1>7 DEF UpSteady, UpTypeOK
<1>9. FileAlone(f)
  BY <1>2, <1>3, <1>7 DEF FileAlone
<1>10. FileGood(f)'
  <2>1. f \notin keptObject
    BY <1>1, <1>2 DEF RequestIsStaged, FileGood, KeptStands
  <2>2. UnknownIsUntouched(f)'
    BY <1>1, <1>2, <1>3, <1>5, <1>6, <1>7 DEF FileGood, UnknownIsUntouched
  <2>3. SeenIsSo(f)'
    BY <1>1, <1>2, <1>3, <1>5, <1>7 DEF FileGood, SeenIsSo
  <2>4. DeletionExplains(f)'
    <3>1. ASSUME NEW l \in Around(f), job[l].at = "row"
          PROVE  l \in Around(f)' /\ job'[l].at = "row"
      BY <1>2, <1>3, <3>1 DEF Around
    <3>. QED
      BY <1>1, <1>2, <1>5, <1>7, <3>1 DEF FileGood, DeletionExplains
  <2>5. StrayIsExplained(f)'
    BY <1>1, <1>2, <1>3, <1>7 DEF FileGood, StrayIsExplained, SeenIsSo, RequestIsStaged
  <2>6. KeptStands(f)'
    <3>1. f \notin clashed => Around(f) = {k} /\ row[f] /= NoRow /\ object[f] = job[k].size
      BY <1>1, <1>2 DEF FileGood, SeenIsSo, RequestIsStaged
    <3>. QED
      BY <1>2, <1>3, <1>7, <2>1, <3>1 DEF KeptStands
  <2>. QED
    BY <2>2, <2>3, <2>4, <2>5, <2>6 DEF FileGood
<1>. QED
  BY <1>4, <1>8, <1>9, <1>10, UpFrame

\* The row of a form is inserted.
LEMMA UpInserts ==
  ASSUME UpSteady, NEW k \in Callers, InsertCompleted(k)
  PROVE  UpSteady'
<1>1. PICK f \in FileIds : f = job[k].id /\ f \in 1..made /\ k \in Around(f) /\ FileGood(f)
           /\ RequestIsStaged(k)
  BY UpAt DEF InsertCompleted, UploadAt
<1>2. /\ job[k].at = "insert" /\ Close(k)
      /\ row' = [row EXCEPT ![f] = [status |-> "completed", size |-> job[k].size]]
      /\ keptObject' = keptObject \cup {f}
      /\ object' = object /\ made' = made /\ clashed' = clashed /\ faulted' = faulted
           /\ requests' = requests /\ failures' = failures
  BY <1>1 DEF InsertCompleted, UploadAt, RowUpdated
<1>3. /\ job'[k] = NoJob /\ \A l \in Callers : l /= k => job'[l] = job[l]
      /\ Around(f)' = Around(f) \ {k}
      /\ \A g \in FileIds : g /= f => Around(g)' = Around(g)
           /\ \A l \in Around(g) : job'[l] = job[l]
      /\ job' \in [Callers -> FileJobs] /\ RequestIsStaged(k)'
  BY <1>1, <1>2, UpCloses
<1>4. \A l \in Callers : RequestIsStaged(l)'
  BY <1>2, <1>3, OthersStaged
<1>5. \A l \in Around(f)' : l \in Around(f) /\ l /= k /\ l \in Callers /\ job'[l] = job[l]
           /\ job[l].op /= "form"
  BY <1>1, <1>3 DEF Around, FileGood, UnknownIsUntouched
<1>6. ~(f > made')
  BY <1>1, <1>2, FilesAreNumbers DEF UpSteady, UpTypeOK
<1>7. /\ row' \in [FileIds -> FileRows] /\ \A o \in FileIds : o /= f => row'[o] = row[o]
      /\ \A o \in FileIds : row'[o].status = "none" <=> row'[o].size = 0
      /\ row'[f] /= NoRow /\ row'[f].status = "completed" /\ row'[f].size = job[k].size
  <2>1. job[k].size \in Lengths
    BY <1>1, <1>2 DEF RequestIsStaged
  <2>2. [status |-> "completed", size |-> job[k].size] \in FileRows
    BY <2>1 DEF FileRows
  <2>. QED
    BY <1>2, <2>1, <2>2, LengthsAreNumbers DEF UpSteady, UpTypeOK, NoRow
<1>8. UpTypeOK'
  BY <1>2, <1>3, <1>7 DEF UpSteady, UpTypeOK
<1>9. FileAlone(f)
  BY <1>2, <1>3, <1>7 DEF FileAlone
<1>10. FileGood(f)'
  <2>1. job[k].op = "form" /\ Around(f) = {k} /\ object[f] = job[k].size
             /\ job[k].size \in Lengths
    BY <1>1, <1>2 DEF RequestIsStaged, FileGood, UnknownIsUntouched
  <2>2. Around(f)' = {} /\ row'[f] /= NoRow /\ object'[f] /= NoObject
    BY <1>2, <1>3, <1>7, <2>1, LengthsAreNumbers
  <2>. QED
    BY <1>2, <1>6, <1>7, <2>1, <2>2
       DEF FileGood, UnknownIsUntouched, SeenIsSo, DeletionExplains, StrayIsExplained, KeptStands
<1>. QED
  BY <1>4, <1>8, <1>9, <1>10, UpFrame

\* The row is deleted.
LEMMA UpDeletesRow ==
  ASSUME UpSteady, NEW k \in Callers, DeleteRow(k)
  PROVE  UpSteady'
<1>1. PICK f \in FileIds : f = job[k].id /\ f \in 1..made /\ k \in Around(f) /\ FileGood(f)
           /\ RequestIsStaged(k)
  BY UpAt DEF DeleteRow, UploadAt
<1>2. /\ job[k].at = "row" /\ Close(k)
      /\ row' = [row EXCEPT ![f] = NoRow]
      /\ object' = object /\ made' = made /\ clashed' = clashed /\ faulted' = faulted
           /\ keptObject' = keptObject /\ requests' = requests /\ failures' = failures
  BY <1>1 DEF DeleteRow, UploadAt, RowUpdated
<1>3. /\ job'[k] = NoJob /\ \A l \in Callers : l /= k => job'[l] = job[l]
      /\ Around(f)' = Around(f) \ {k}
      /\ \A g \in FileIds : g /= f => Around(g)' = Around(g)
           /\ \A l \in Around(g) : job'[l] = job[l]
      /\ job' \in [Callers -> FileJobs] /\ RequestIsStaged(k)'
  BY <1>1, <1>2, UpCloses
<1>4. \A l \in Callers : RequestIsStaged(l)'
  BY <1>2, <1>3, OthersStaged
<1>5. \A l \in Around(f)' : l \in Around(f) /\ l /= k /\ l \in Callers /\ job'[l] = job[l]
           /\ job[l].op /= "form"
  BY <1>1, <1>3 DEF Around, FileGood, UnknownIsUntouched
<1>6. ~(f > made')
  BY <1>1, <1>2, FilesAreNumbers DEF UpSteady, UpTypeOK
<1>7. /\ row' \in [FileIds -> FileRows] /\ \A o \in FileIds : o /= f => row'[o] = row[o]
      /\ \A o \in FileIds : row'[o].status = "none" <=> row'[o].size = 0
      /\ row'[f] = NoRow
  <2>1. NoRow \in FileRows
    BY DEF FileRows, NoRow
  <2>. QED
    BY <1>2, <2>1 DEF UpSteady, UpTypeOK, NoRow
<1>8. UpTypeOK'
  BY <1>2, <1>3, <1>7 DEF UpSteady, UpTypeOK
<1>9. FileAlone(f)
  BY <1>2, <1>3, <1>7 DEF FileAlone
<1>10. FileGood(f)'
  <2>1. f \notin keptObject
    BY <1>1, <1>2 DEF FileGood, KeptStands
  <2>2. UnknownIsUntouched(f)' /\ DeletionExplains(f)' /\ KeptStands(f)'
    BY <1>2, <1>3, <1>5, <1>6, <1>7, <2>1 DEF UnknownIsUntouched, DeletionExplains, KeptStands
  <2>3. SeenIsSo(f)'
    BY <1>1, <1>2, <1>3, <1>5 DEF FileGood, SeenIsSo
  <2>4. StrayIsExplained(f)'
    BY <1>1, <1>2 DEF FileGood, StrayIsExplained, SeenIsSo
  <2>. QED
    BY <2>2, <2>3, <2>4 DEF FileGood
<1>. QED
  BY <1>4, <1>8, <1>9, <1>10, UpFrame

\* A read or a removal fails, and the request goes on.
LEMMA UpSwallows ==
  ASSUME UpSteady, NEW k \in Callers, StoreSwallows(k)
  PROVE  UpSteady'
<1>1. PICK f \in FileIds : f = job[k].id /\ f \in 1..made /\ k \in Around(f) /\ FileGood(f)
           /\ RequestIsStaged(k)
  BY UpAt DEF StoreSwallows
<1>2. PICK a \in {"refuse", "row"} :
        /\ Proceed(k, a)
        /\ \/ job[k].at = "get" /\ a = "refuse"
           \/ job[k].at = "object" /\ a = "row"
  BY DEF StoreSwallows, UploadAt
<1>3. /\ failures < MaxFailures /\ failures' = failures + 1 /\ faulted' = faulted \cup {f}
      /\ row' = row /\ object' = object /\ made' = made /\ clashed' = clashed
           /\ keptObject' = keptObject /\ requests' = requests
  BY <1>1 DEF StoreSwallows
<1>4. /\ job'[k].at = a /\ job'[k].op = job[k].op /\ job'[k].id = f /\ job'[k].size = job[k].size
      /\ \A l \in Callers : l /= k => job'[l] = job[l]
      /\ \A g \in FileIds : Around(g)' = Around(g)
      /\ \A g \in FileIds : g /= f => \A l \in Around(g) : job'[l] = job[l]
      /\ job' \in [Callers -> FileJobs]
  <2>1. job[k].at /= "idle" /\ a /= "idle" /\ a \in {"fill", "complete", "refuse", "insert", "row"}
    BY <1>2
  <2>2. Proceed(k, a)
    BY <1>2
  <2>. QED
    BY <1>1, <2>1, <2>2, UpProceeds
<1>5. UpTypeOK'
  <2>1. failures' \in 0..MaxFailures
    BY <1>3, UploadsAssumption DEF UpSteady, UpTypeOK
  <2>. QED
    BY <1>3, <1>4, <2>1 DEF UpSteady, UpTypeOK
<1>6. RequestIsStaged(k)'
  BY <1>1, <1>2, <1>3, <1>4 DEF RequestIsStaged
<1>7. \A l \in Callers : RequestIsStaged(l)'
  BY <1>3, <1>4, <1>6, OthersStaged
<1>8. FileAlone(f)
  BY <1>3, <1>4 DEF FileAlone
<1>9. ~(f > made') /\ f \notin keptObject
  BY <1>1, <1>3, FilesAreNumbers DEF UpSteady, UpTypeOK, FileGood, KeptStands
<1>10. \A l \in Around(f)' : l \in Callers /\ job'[l].op /= "form"
  <2>1. ASSUME NEW l \in Around(f) PROVE job[l].op /= "form"
    <3>1. CASE job[l].op = "form"
      <4>1. Around(f) = {l}
        BY <1>1, <2>1, <3>1 DEF FileGood, UnknownIsUntouched
      <4>2. job[k].op = "form"
        BY <1>1, <3>1, <4>1
      <4>. QED
        BY <1>1, <1>2, <4>2 DEF RequestIsStaged
    <3>. QED
      BY <3>1
  <2>. QED
    BY <1>4, <2>1 DEF Around
<1>11. FileGood(f)'
  <2>1. UnknownIsUntouched(f)'
    BY <1>9, <1>10 DEF UnknownIsUntouched
  <2>2. DeletionExplains(f)' /\ StrayIsExplained(f)' /\ KeptStands(f)'
    BY <1>3, <1>9 DEF DeletionExplains, StrayIsExplained, KeptStands
  <2>3. SeenIsSo(f)'
    <3>1. ASSUME f \notin clashed, NEW l \in Around(f)
          PROVE  Around(f) = {l} /\ l = k /\ row[f] /= NoRow
      BY <1>1, <1>2, <3>1 DEF FileGood, SeenIsSo, RequestIsStaged
    <3>. QED
      BY <1>2, <1>3, <1>4, <3>1 DEF SeenIsSo
  <2>. QED
    BY <2>1, <2>2, <2>3 DEF FileGood
<1>. QED
  BY <1>1, <1>5, <1>7, <1>8, <1>11, UpFrame

\* A statement fails, and the request ends.
LEMMA UpFails ==
  ASSUME UpSteady, NEW k \in Callers, StatementFails(k)
  PROVE  UpSteady'
<1>1. PICK f \in FileIds : f = job[k].id /\ f \in 1..made /\ k \in Around(f) /\ FileGood(f)
           /\ RequestIsStaged(k)
  BY UpAt DEF StatementFails, UploadAt
<1>2. /\ job[k].at \in {"truncate", "fill", "refuse", "complete", "insert", "row"} /\ Close(k)
      /\ failures < MaxFailures /\ failures' = failures + 1 /\ faulted' = faulted \cup {f}
      /\ row' = row /\ object' = object /\ made' = made /\ clashed' = clashed
           /\ keptObject' = keptObject /\ requests' = requests
  BY <1>1 DEF StatementFails, UploadAt, RowUpdated
<1>3. /\ job'[k] = NoJob /\ \A l \in Callers : l /= k => job'[l] = job[l]
      /\ Around(f)' = Around(f) \ {k}
      /\ \A g \in FileIds : g /= f => Around(g)' = Around(g)
           /\ \A l \in Around(g) : job'[l] = job[l]
      /\ job' \in [Callers -> FileJobs] /\ RequestIsStaged(k)'
  BY <1>1, <1>2, UpCloses
<1>4. \A l \in Callers : RequestIsStaged(l)'
  BY <1>2, <1>3, OthersStaged
<1>5. \A l \in Around(f)' : l \in Around(f) /\ l /= k /\ l \in Callers /\ job'[l] = job[l]
           /\ job[l].op /= "form"
  BY <1>1, <1>3 DEF Around, FileGood, UnknownIsUntouched
<1>6. ~(f > made')
  BY <1>1, <1>2, FilesAreNumbers DEF UpSteady, UpTypeOK
<1>7. UpTypeOK'
  <2>1. failures' \in 0..MaxFailures
    BY <1>2, UploadsAssumption DEF UpSteady, UpTypeOK
  <2>. QED
    BY <1>2, <1>3, <2>1 DEF UpSteady, UpTypeOK
<1>8. FileAlone(f)
  BY <1>2, <1>3 DEF FileAlone
<1>9. FileGood(f)'
  <2>1. f \notin keptObject
    BY <1>1, <1>2 DEF FileGood, KeptStands
  <2>2. UnknownIsUntouched(f)' /\ DeletionExplains(f)' /\ StrayIsExplained(f)' /\ KeptStands(f)'
    BY <1>2, <1>3, <1>5, <1>6, <2>1
       DEF UnknownIsUntouched, DeletionExplains, StrayIsExplained, KeptStands
  <2>3. SeenIsSo(f)'
    BY <1>1, <1>2, <1>3, <1>5 DEF FileGood, SeenIsSo
  <2>. QED
    BY <2>2, <2>3 DEF FileGood
<1>. QED
  BY <1>4, <1>7, <1>8, <1>9, UpFrame

\* Bytes arrive.
LEMMA UpFills ==
  ASSUME UpSteady, NEW k \in Callers, Fill(k)
  PROVE  UpSteady'
<1>1. PICK f \in FileIds : f = job[k].id /\ f \in 1..made /\ k \in Around(f) /\ FileGood(f)
           /\ RequestIsStaged(k)
  BY UpAt DEF Fill, UploadAt
<1>2. /\ job[k].at = "fill" /\ object' = [object EXCEPT ![f] = job[k].size] /\ row' = row
      /\ IF job[k].op = "form" THEN Proceed(k, "insert") ELSE Close(k)
      /\ made' = made /\ clashed' = clashed /\ faulted' = faulted /\ keptObject' = keptObject
      /\ requests' = requests /\ failures' = failures
  BY <1>1 DEF Fill, UploadAt
<1>3. job[k].op \in {"put", "form"} /\ job[k].size \in Lengths /\ f \notin keptObject
           /\ ~(f > made')
  BY <1>1, <1>2, FilesAreNumbers DEF RequestIsStaged, FileGood, KeptStands, UpSteady, UpTypeOK
<1>4. /\ object'[f] = job[k].size /\ object'[f] /= NoObject /\ \A o \in FileIds : o /= f
           => object'[o] = object[o]
      /\ object' \in [FileIds -> Lengths \cup {0, NoObject}]
  BY <1>2, <1>3, LengthsAreNumbers DEF UpSteady, UpTypeOK
<1>5. DeletionExplains(f)' /\ KeptStands(f)'
  BY <1>2, <1>3, <1>4 DEF DeletionExplains, KeptStands
<1>6. CASE job[k].op = "form"
  <2>1. /\ job'[k].at = "insert" /\ job'[k].op = job[k].op /\ job'[k].id = f
             /\ job'[k].size = job[k].size
        /\ \A l \in Callers : l /= k => job'[l] = job[l]
        /\ \A g \in FileIds : Around(g)' = Around(g)
        /\ \A g \in FileIds : g /= f => \A l \in Around(g) : job'[l] = job[l]
        /\ job' \in [Callers -> FileJobs]
    BY <1>1, <1>2, <1>6, UpProceeds
  <2>2. UpTypeOK'
    BY <1>2, <1>4, <2>1 DEF UpSteady, UpTypeOK
  <2>3. RequestIsStaged(k)'
    BY <1>1, <1>2, <1>3, <1>6, <2>1 DEF RequestIsStaged
  <2>4. \A l \in Callers : RequestIsStaged(l)'
    BY <1>2, <2>1, <2>3, OthersStaged
  <2>5. FileAlone(f)
    BY <1>2, <1>4, <2>1 DEF FileAlone
  <2>6. Around(f)' = {k} /\ row'[f] = NoRow /\ f \notin clashed' \cup faulted'
    BY <1>1, <1>2, <1>6, <2>1 DEF FileGood, UnknownIsUntouched
  <2>7. UnknownIsUntouched(f)' /\ SeenIsSo(f)' /\ StrayIsExplained(f)'
    BY <1>3, <1>4, <1>6, <2>1, <2>6 DEF UnknownIsUntouched, SeenIsSo, StrayIsExplained
  <2>. QED
    BY <1>5, <2>2, <2>4, <2>5, <2>7, UpFrame DEF FileGood
<1>7. CASE job[k].op = "put"
  <2>1. /\ job'[k] = NoJob /\ \A l \in Callers : l /= k => job'[l] = job[l]
        /\ Around(f)' = Around(f) \ {k}
        /\ \A g \in FileIds : g /= f => Around(g)' = Around(g)
             /\ \A l \in Around(g) : job'[l] = job[l]
        /\ job' \in [Callers -> FileJobs] /\ RequestIsStaged(k)'
    BY <1>1, <1>2, <1>7, UpCloses
  <2>2. UpTypeOK'
    BY <1>2, <1>4, <2>1 DEF UpSteady, UpTypeOK
  <2>3. \A l \in Callers : RequestIsStaged(l)'
    BY <1>2, <2>1, OthersStaged
  <2>4. FileAlone(f)
    BY <1>2, <1>4, <2>1 DEF FileAlone
  <2>5. \A l \in Around(f)' : l \in Around(f) /\ l /= k /\ l \in Callers
             /\ job'[l] = job[l] /\ job[l].op /= "form"
    BY <1>1, <2>1 DEF Around, FileGood, UnknownIsUntouched
  <2>6. UnknownIsUntouched(f)' /\ SeenIsSo(f)'
    BY <1>1, <1>2, <1>3, <2>1, <2>5 DEF FileGood, UnknownIsUntouched, SeenIsSo
  <2>7. StrayIsExplained(f)'
    BY <1>1, <1>2, <1>7 DEF FileGood, SeenIsSo, StrayIsExplained
  <2>. QED
    BY <1>5, <2>2, <2>3, <2>4, <2>6, <2>7, UpFrame DEF FileGood
<1>. QED
  BY <1>3, <1>6, <1>7

\* Every step keeps the invariant.
LEMMA UpStep == UpInv /\ [UpNext]_upVars => UpInv'
<1>. SUFFICES ASSUME UpSteady, [UpNext]_upVars PROVE UpSteady'
  BY UpFacts, UpConclusion, PTL
<1>1. ASSUME NEW k \in Callers, NEW s \in Lengths, Presign(k, s) \/ BeginFormUpload(k, s)
      PROVE  UpSteady'
  BY <1>1, UpPresigns, UpForms
<1>2. ASSUME NEW k \in Callers, NEW f \in 1..made, NEW s \in Lengths,
             BeginDirectUpload(k, f, s) \/ BeginConfirm(k, f, s)
      PROVE  UpSteady'
  BY <1>2, UpBegins
<1>3. ASSUME NEW k \in Callers, NEW f \in 1..made, BeginDelete(k, f) PROVE UpSteady'
  BY <1>3, UpBegins
<1>4. ASSUME NEW k \in Callers,
             \/ Truncate(k) \/ Fill(k) \/ MarkUploadFailed(k) \/ GetObject(k) \/ MarkCompleted(k)
             \/ InsertCompleted(k) \/ DeleteObject(k) \/ DeleteRow(k) \/ StoreSwallows(k)
             \/ StatementFails(k)
      PROVE  UpSteady'
  BY <1>4, UpTruncates, UpFills, UpRefuses, UpGets, UpCompletes, UpInserts, UpDeletesObject,
     UpDeletesRow, UpSwallows, UpFails
<1>. QED
  BY <1>1, <1>2, <1>3, <1>4, UpUnchanged DEF UpNext

\* A file whose upload was confirmed has its object until a request deletes it, and no object is
\* stray unless a failure or an unconfirmed upload explains it, however the requests about a file
\* interleave and whichever statement or call of the store fails (UpInv).
THEOREM FilesAreKept == UpSpec => []UpInv
BY UpInitially, UpStep, PTL DEF UpSpec

-----------------------------------------------------------------------------
(* Conversation sessions.                                                   *)

\* What is so of the sessions' rows.
SessRowsOK ==
  /\ opened \in Nat /\ 1..opened \subseteq SessionIds
  /\ session \in [SessionIds -> SessionRows] /\ wanted \in [SessionIds -> SUBSET Labels]
  /\ \A i \in LiveSession :
       i <= opened /\ session[i].started <= session[i].last /\ session[i].last <= sessHour
  /\ \A i \in SessionIds \ LiveSession : wanted[i] = {}
  /\ forced \in BOOLEAN /\ sessCrossed \in BOOLEAN /\ edited \subseteq SessionIds
  /\ OneActive /\ ActiveHasNoEnd /\ TagsAddUp

\* A request of the type, field by field.
LEMMA AskFacts ==
  /\ NoAsk \in SessionAsks /\ NoAsk.at = "idle" /\ NoAsk.id = 0 /\ NoAsk.read = {}
  /\ \A at \in {"create", "touch", "close"}, i \in Nat :
       LET k == [NoAsk EXCEPT !.at = at, !.id = i]
       IN  k \in SessionAsks /\ k.at = at /\ k.id = i
  /\ LET k == [NoAsk EXCEPT !.at = "create"] IN k \in SessionAsks /\ k.at = "create"
<1>1. AnyLabel \in Labels
  BY SessionsAssumption DEF AnyLabel
<1>. QED
  BY <1>1 DEF NoAsk, SessionAsks

\* A row of the type, field by field.
LEMMA RowFacts ==
  /\ NoSession \in SessionRows /\ ~NoSession.live /\ NoSession.tags = {}
  /\ sessHour \in 0..MaxHour =>
       /\ FreshSession \in SessionRows /\ FreshSession.live /\ FreshSession.active
            /\ ~FreshSession.ended
       /\ FreshSession.started = sessHour /\ FreshSession.last = sessHour
            /\ FreshSession.tags = {}
<1>1. 0 \in 0..MaxHour
  BY SessionsAssumption
<1>. QED
  BY <1>1 DEF NoSession, FreshSession, SessionRows

\* There is no session.
LEMMA SessInitially == SessInit => SessInv
<1>. SUFFICES ASSUME SessInit PROVE SessInv
  OBVIOUS
<1>1. /\ session = [i \in SessionIds |-> NoSession] /\ sessAsk = [a \in Agents |-> NoAsk]
      /\ opened = 0 /\ forced = FALSE /\ edited = {} /\ sessCrossed = FALSE /\ sessHour = 0
      /\ wanted = [i \in SessionIds |-> {}]
  BY DEF SessInit
<1>2. LiveSession = {} /\ ActiveSessions = {}
  BY <1>1, RowFacts DEF LiveSession, ActiveSessions
<1>3. sessAsk \in [Agents -> SessionAsks] /\ \A a \in Agents : sessAsk[a].at = "idle"
  BY <1>1, AskFacts
<1>4. SessTypeOK
  <2>1. sessHour \in 0..MaxHour /\ opened \in Nat /\ 1..opened = {}
    BY <1>1, SessionsAssumption
  <2>2. session \in [SessionIds -> SessionRows] /\ wanted \in [SessionIds -> SUBSET Labels]
    BY <1>1, RowFacts
  <2>. QED
    BY <1>1, <1>2, <1>3, <2>1, <2>2 DEF SessTypeOK
<1>5. \A a \in Agents : AskIsCurrent(a)
  BY <1>3 DEF AskIsCurrent
<1>. QED
  BY <1>2, <1>4, <1>5 DEF SessInv, OneActive, ActiveHasNoEnd, TagsAddUp

\* What a step that writes one row must see to.
LEMMA RowWritten ==
  ASSUME SessInv, NEW i \in SessionIds, NEW r \in SessionRows,
         session' = [session EXCEPT ![i] = r], sessHour' = sessHour,
         opened' \in Nat, 1..opened' \subseteq SessionIds, opened <= opened', i <= opened',
         edited' \subseteq SessionIds, \A j \in SessionIds \ {i} : j \in edited' <=> j \in edited,
         wanted' \in [SessionIds -> SUBSET Labels],
              \A j \in SessionIds \ {i} : wanted'[j] = wanted[j],
         forced' \in BOOLEAN, sessCrossed' \in BOOLEAN, forced => forced', sessCrossed
              => sessCrossed',
         r.live => r.started <= r.last /\ r.last <= sessHour,
         ~r.live => wanted'[i] = {},
         r.live /\ i \notin edited' => (r.active <=> ~r.ended),
         r.live /\ ~sessCrossed' => r.tags = wanted'[i],
         r.live /\ r.active => forced' \/ sessCrossed' \/ ActiveSessions \subseteq {i}
  PROVE  SessRowsOK'
<1>1. session' \in [SessionIds -> SessionRows] /\ session'[i] = r
      /\ \A j \in SessionIds \ {i} : session'[j] = session[j]
  BY DEF SessInv, SessTypeOK
<1>2. (LiveSession \ {i})' = LiveSession \ {i} /\ (i \in LiveSession' <=> r.live)
  BY <1>1 DEF LiveSession
<1>3. (ActiveSessions \ {i})' = ActiveSessions \ {i} /\ (i \in ActiveSessions' <=> r.live
           /\ r.active)
  BY <1>1, <1>2 DEF ActiveSessions, LiveSession
<1>4. \A j \in LiveSession' :
        j <= opened' /\ session'[j].started <= session'[j].last /\ session'[j].last <= sessHour'
  <2>. SUFFICES ASSUME NEW j \in LiveSession'
       PROVE  j <= opened' /\ session'[j].started <= session'[j].last
              /\ session'[j].last <= sessHour'
    OBVIOUS
  <2>1. CASE j = i
    BY <1>1, <1>2, <2>1
  <2>2. CASE j /= i
    <3>1. j \in LiveSession /\ j \in SessionIds
      BY <1>2, <2>2 DEF LiveSession
    <3>2. j \in Nat /\ opened \in Nat /\ j <= opened
      BY <3>1, SessionsAssumption DEF SessInv, SessTypeOK
    <3>3. j <= opened'
      BY <3>2
    <3>. QED
      BY <1>1, <2>2, <3>1, <3>3 DEF SessInv, SessTypeOK
  <2>. QED
    BY <2>1, <2>2
<1>5. \A j \in SessionIds \ LiveSession' : wanted'[j] = {}
  BY <1>2 DEF SessInv, SessTypeOK
<1>6. OneActive'
  <2>. SUFFICES ASSUME NEW j \in ActiveSessions', NEW k \in ActiveSessions', j /= k
                PROVE  forced' \/ sessCrossed'
    BY DEF OneActive
  <2>1. CASE j /= i /\ k /= i
    <3>1. j \in ActiveSessions /\ k \in ActiveSessions
      BY <1>3, <2>1
    <3>. QED
      BY <3>1 DEF SessInv, OneActive
  <2>2. CASE j = i \/ k = i
    BY <1>3, <2>2
  <2>. QED
    BY <2>1, <2>2
<1>7. ActiveHasNoEnd'
  <2>. SUFFICES ASSUME NEW j \in LiveSession', j \notin edited'
                PROVE  session'[j].active <=> ~session'[j].ended
    BY DEF ActiveHasNoEnd
  <2>1. CASE j = i
    BY <1>1, <1>2, <2>1
  <2>2. CASE j /= i
    <3>1. j \in LiveSession /\ j \in SessionIds /\ j \notin edited /\ session'[j] = session[j]
      BY <1>1, <1>2, <2>2 DEF LiveSession
    <3>. QED
      BY <3>1 DEF SessInv, ActiveHasNoEnd
  <2>. QED
    BY <2>1, <2>2
<1>8. TagsAddUp'
  <2>. SUFFICES ASSUME ~sessCrossed', NEW j \in LiveSession' PROVE session'[j].tags = wanted'[j]
    BY DEF TagsAddUp
  <2>1. CASE j = i
    BY <1>1, <1>2, <2>1
  <2>2. CASE j /= i
    <3>1. j \in LiveSession /\ j \in SessionIds /\ session'[j] = session[j] /\ ~sessCrossed
      BY <1>1, <1>2, <2>2 DEF LiveSession
    <3>. QED
      BY <2>2, <3>1 DEF SessInv, TagsAddUp
  <2>. QED
    BY <2>1, <2>2
<1>. QED
  BY <1>1, <1>4, <1>5, <1>6, <1>7, <1>8 DEF SessRowsOK

\* The same where the row was there before.
LEMMA RowRewritten ==
  ASSUME SessInv, NEW i \in LiveSession, NEW r \in SessionRows,
         session' = [session EXCEPT ![i] = r], UNCHANGED <<sessHour, opened>>,
         edited' \subseteq SessionIds, \A j \in SessionIds \ {i} : j \in edited' <=> j \in edited,
         wanted' \in [SessionIds -> SUBSET Labels],
              \A j \in SessionIds \ {i} : wanted'[j] = wanted[j],
         forced' \in BOOLEAN, sessCrossed' \in BOOLEAN, forced => forced', sessCrossed
              => sessCrossed',
         r.live => r.started <= r.last /\ r.last <= sessHour,
         ~r.live => wanted'[i] = {},
         r.live /\ i \notin edited' => (r.active <=> ~r.ended),
         r.live /\ ~sessCrossed' => r.tags = wanted'[i],
         r.live /\ r.active => forced' \/ sessCrossed' \/ session[i].active
  PROVE  SessRowsOK'
<1>1. i \in SessionIds /\ session[i].live
  BY DEF LiveSession
<1>2. opened' \in Nat /\ 1..opened' \subseteq SessionIds /\ i <= opened'
  BY DEF SessInv, SessTypeOK
<1>3. opened <= opened'
  BY <1>2
<1>4. r.live /\ r.active => forced' \/ sessCrossed' \/ ActiveSessions \subseteq {i}
  <2>1. session[i].active => i \in ActiveSessions
    BY <1>1 DEF ActiveSessions
  <2>. QED
    BY <2>1 DEF SessInv, OneActive
<1>. QED
  BY <1>1, <1>2, <1>3, <1>4, RowWritten

\* Rows that nobody touches stay as they are.
LEMMA RowsRest ==
  ASSUME SessInv, UNCHANGED <<session, sessHour, opened, forced, edited, wanted>>,
         sessCrossed' \in BOOLEAN, sessCrossed => sessCrossed'
  PROVE  SessRowsOK'
<1>1. LiveSession' = LiveSession /\ ActiveSessions' = ActiveSessions
  BY DEF LiveSession, ActiveSessions
<1>. QED
  BY <1>1 DEF SessInv, SessTypeOK, SessRowsOK, OneActive, ActiveHasNoEnd, TagsAddUp

\* A statement of its own crosses whatever is in flight.
LEMMA AtOnceKeeps ==
  ASSUME SessInv, AtOnce, SessRowsOK', sessHour' \in 0..MaxHour
  PROVE  SessInv'
<1>1. sessAsk' = sessAsk /\ sessCrossed' = (sessCrossed
           \/ \E b \in Agents : sessAsk[b].at /= "idle")
  BY DEF AtOnce, ArrivesInSession
<1>2. ASSUME NEW a \in Agents PROVE AskIsCurrent(a)'
  BY <1>1, <1>2 DEF SessInv, AskIsCurrent
<1>3. SessTypeOK'
  BY <1>1 DEF SessInv, SessTypeOK, SessRowsOK
<1>. QED
  BY <1>2, <1>3 DEF SessInv, SessRowsOK

\* A request that begins has nothing read before; those under way make it cross.
LEMMA AskKeeps ==
  ASSUME SessInv, NEW a \in Agents, NEW k \in SessionAsks, Ask(a, k), k.at /= "idle",
         UNCHANGED <<sessHour, session, opened, forced, edited, wanted>>,
         k.at \in {"close", "touch", "tag"} => k.id \in SessionIds,
         ~sessCrossed => /\ k.at \in {"close", "touch"} => k.id \in ActiveSessions
                         /\ k.at = "create" => forced \/ ActiveSessions = {}
                         /\ k.at = "tag" => k.id \in LiveSession /\ k.read = session[k.id].tags
  PROVE  SessInv'
<1>1. /\ sessAsk[a].at = "idle" /\ sessAsk' = [sessAsk EXCEPT ![a] = k]
      /\ sessCrossed' = (sessCrossed \/ \E b \in Agents : sessAsk[b].at /= "idle")
  BY DEF Ask, ArrivesInSession
<1>2. sessAsk \in [Agents -> SessionAsks] /\ sessCrossed \in BOOLEAN
  BY DEF SessInv, SessTypeOK
<1>3. sessAsk' \in [Agents -> SessionAsks] /\ sessAsk'[a] = k
           /\ \A b \in Agents \ {a} : sessAsk'[b] = sessAsk[b]
  BY <1>1, <1>2
<1>4. SessRowsOK'
  BY <1>1, <1>2, RowsRest
<1>5. LiveSession' = LiveSession /\ ActiveSessions' = ActiveSessions
  BY DEF LiveSession, ActiveSessions
<1>6. ASSUME NEW b \in Agents PROVE AskIsCurrent(b)'
  <2>1. CASE b = a
    BY <1>1, <1>3, <1>5, <2>1 DEF AskIsCurrent
  <2>2. CASE b /= a
    <3>1. sessAsk'[b] = sessAsk[b] /\ AskIsCurrent(b)
      BY <1>3, <2>2 DEF SessInv
    <3>2. sessAsk[b].at /= "idle" => sessCrossed'
      BY <1>1
    <3>. QED
      BY <3>1, <3>2 DEF AskIsCurrent
  <2>. QED
    BY <2>1, <2>2
<1>7. SessTypeOK'
  BY <1>3, <1>4 DEF SessInv, SessTypeOK, SessRowsOK
<1>. QED
  BY <1>4, <1>6, <1>7 DEF SessInv, SessRowsOK

\* A request that ends leaves nothing to go stale.
LEMMA AnswerKeeps ==
  ASSUME SessInv, NEW a \in Agents, Answer(a), sessAsk[a].at /= "idle", SessRowsOK',
         UNCHANGED <<sessCrossed, sessHour>>
  PROVE  SessInv'
<1>1. sessAsk' = [sessAsk EXCEPT ![a] = NoAsk] /\ sessAsk \in [Agents -> SessionAsks]
  BY DEF Answer, SessInv, SessTypeOK
<1>2. /\ sessAsk' \in [Agents -> SessionAsks] /\ sessAsk'[a] = NoAsk
      /\ \A b \in Agents \ {a} : sessAsk'[b] = sessAsk[b]
  BY <1>1, AskFacts, ZenonT(40)
<1>3. ASSUME NEW b \in Agents PROVE AskIsCurrent(b)'
  <2>1. CASE b = a
    BY <1>2, <2>1, AskFacts DEF AskIsCurrent
  <2>2. CASE b /= a
    <3>1. sessAsk'[b] = sessAsk[b] /\ AskIsCurrent(b) /\ AskIsCurrent(a)
      BY <1>2, <2>2 DEF SessInv
    <3>2. sessAsk[b].at = "idle" \/ sessCrossed'
      BY <2>2, <3>1 DEF AskIsCurrent
    <3>. QED
      BY <3>1, <3>2 DEF AskIsCurrent
  <2>. QED
    BY <2>1, <2>2
<1>4. SessTypeOK'
  BY <1>2 DEF SessInv, SessTypeOK, SessRowsOK
<1>. QED
  BY <1>3, <1>4 DEF SessInv, SessRowsOK

\* A message finds the active session, or the boundary past it.
LEMMA DetectKeeps ==
  ASSUME SessInv, NEW a \in Agents, DetectBoundary(a)
  PROVE  SessInv'
<1>1. UNCHANGED <<sessHour, session, opened, forced, edited, wanted>>
  BY DEF DetectBoundary
<1>2. CASE ActiveSessions = {} /\ Ask(a, [NoAsk EXCEPT !.at = "create"])
  <2>1. PICK k \in SessionAsks : k = [NoAsk EXCEPT !.at = "create"] /\ k.at = "create"
    BY AskFacts
  <2>. QED
    BY <1>1, <1>2, <2>1, AskKeeps
<1>3. CASE \E i \in SessionIds, topic \in BOOLEAN :
             /\ LatestActive(i)
             /\ Ask(a, [NoAsk EXCEPT !.at = IF Outlived(i) \/ topic THEN "close"
                  ELSE "touch", !.id = i])
  <2>1. PICK i \in SessionIds, at \in {"close", "touch"} :
             LatestActive(i) /\ Ask(a, [NoAsk EXCEPT !.at = at, !.id = i])
    BY <1>3
  <2>2. i \in Nat
    BY SessionsAssumption
  <2>3. PICK k : k = [NoAsk EXCEPT !.at = at, !.id = i]
    OBVIOUS
  <2>4. k \in SessionAsks /\ k.at = at /\ k.id = i
    BY <2>2, <2>3, AskFacts DEF SessionAsks
  <2>5. i \in ActiveSessions
    BY <2>1 DEF LatestActive
  <2>. QED
    BY <1>1, <2>1, <2>3, <2>5, <2>4, AskKeeps
<1>. QED
  BY <1>2, <1>3 DEF DetectBoundary

\* The tags are read, to be merged.
LEMMA ReadTagsKeeps ==
  ASSUME SessInv, NEW a \in Agents, NEW i \in SessionIds, NEW t \in Labels, NEW add \in BOOLEAN,
         ReadTags(a, i, t, add)
  PROVE  SessInv'
<1>1. session[i].tags \subseteq Labels /\ i \in Nat
  BY SessionsAssumption DEF SessInv, SessTypeOK, SessionRows
<1>2. PICK k : k = [at |-> "tag", id |-> i, read |-> session[i].tags, tag |-> t, add |-> add]
  OBVIOUS
<1>3. k \in SessionAsks /\ k.at = "tag" /\ k.id = i /\ k.read = session[i].tags
  BY <1>1, <1>2 DEF SessionAsks
<1>4. i \in LiveSession /\ Ask(a, k) /\ UNCHANGED <<sessHour, session, opened, forced, edited,
           wanted>>
  BY <1>2 DEF ReadTags
<1>. QED
  BY <1>3, <1>4, AskKeeps

\* The session before the boundary is closed.
LEMMA ClosePriorKeeps ==
  ASSUME SessInv, NEW a \in Agents, ClosePrior(a)
  PROVE  SessInv'
<1>. DEFINE k == sessAsk[a]
<1>1. /\ k.at = "close" /\ k.id \in SessionIds /\ AskIsCurrent(a)
      /\ UNCHANGED <<sessHour, opened, forced, edited, sessCrossed, wanted>>
      /\ sessAsk' = [sessAsk EXCEPT ![a].at = "create"]
      /\ session' = IF session[k.id].live /\ session[k.id].active
                    THEN [session EXCEPT ![k.id] = [session[k.id] EXCEPT !.active = FALSE,
                         !.ended = TRUE]]
                    ELSE session
  BY DEF ClosePrior, Go, SessInv, AskIsCurrent
<1>2. PICK i \in SessionIds : i = k.id
  BY <1>1
<1>3. session[i] \in SessionRows /\ sessCrossed \in BOOLEAN /\ forced \in BOOLEAN
  BY DEF SessInv, SessTypeOK
<1>4. SessRowsOK' /\ ActiveSessions' = ActiveSessions \ {i}
  <2>1. CASE session[i].live /\ session[i].active
    <3>1. PICK r : r = [session[i] EXCEPT !.active = FALSE, !.ended = TRUE]
      OBVIOUS
    <3>2. /\ r \in SessionRows /\ r.live /\ ~r.active /\ r.ended /\ r.tags = session[i].tags
          /\ r.started = session[i].started /\ r.last = session[i].last
      BY <1>3, <2>1, <3>1 DEF SessionRows
    <3>3. session' = [session EXCEPT ![i] = r]
      BY <1>1, <1>2, <2>1, <3>1
    <3>4. i \in LiveSession /\ i \in ActiveSessions
      BY <2>1 DEF LiveSession, ActiveSessions
    <3>5. /\ r.started <= r.last /\ r.last <= sessHour
          /\ edited \subseteq SessionIds /\ wanted \in [SessionIds -> SUBSET Labels]
      BY <3>2, <3>4 DEF SessInv, SessTypeOK
    <3>6. ~sessCrossed => r.tags = wanted[i]
      BY <3>2, <3>4 DEF SessInv, TagsAddUp
    <3>7. SessRowsOK'
      BY <1>1, <1>3, <3>2, <3>3, <3>4, <3>5, <3>6, RowRewritten
    <3>8. session'[i] = r /\ \A j \in SessionIds \ {i} : session'[j] = session[j]
      BY <3>3 DEF SessInv, SessTypeOK
    <3>9. ActiveSessions' = ActiveSessions \ {i}
      BY <3>2, <3>8 DEF ActiveSessions, LiveSession
    <3>. QED
      BY <3>7, <3>9
  <2>2. CASE ~(session[i].live /\ session[i].active)
    <3>1. session' = session
      BY <1>1, <1>2, <2>2
    <3>2. SessRowsOK'
      BY <1>1, <1>3, <3>1, RowsRest
    <3>3. ActiveSessions' = ActiveSessions \ {i}
      BY <2>2, <3>1 DEF ActiveSessions, LiveSession
    <3>. QED
      BY <3>2, <3>3
  <2>. QED
    BY <2>1, <2>2
<1>5. /\ sessAsk' \in [Agents -> SessionAsks] /\ sessAsk'[a].at = "create" /\ sessAsk'[a].id = i
      /\ \A b \in Agents \ {a} : sessAsk'[b] = sessAsk[b]
  <2>1. sessAsk \in [Agents -> SessionAsks]
    BY DEF SessInv, SessTypeOK
  <2>2. PICK w : w = [sessAsk[a] EXCEPT !.at = "create"]
    OBVIOUS
  <2>3. w \in SessionAsks /\ w.at = "create" /\ w.id = i
    BY <1>2, <2>1, <2>2 DEF SessionAsks
  <2>4. sessAsk' = [sessAsk EXCEPT ![a] = w]
    BY <1>1, <2>1, <2>2
  <2>. QED
    BY <2>1, <2>3, <2>4
<1>6. ~sessCrossed => forced \/ ActiveSessions' = {}
  <2>1. ~sessCrossed => i \in ActiveSessions
    BY <1>1, <1>2 DEF AskIsCurrent
  <2>2. ~sessCrossed /\ ~forced => \A j \in ActiveSessions : j = i
    BY <2>1 DEF SessInv, OneActive
  <2>. QED
    BY <1>4, <2>2
<1>7. ASSUME NEW b \in Agents PROVE AskIsCurrent(b)'
  <2>1. CASE b = a
    <3>1. ~sessCrossed => \A c \in Agents \ {a} : sessAsk[c].at = "idle"
      BY <1>1 DEF AskIsCurrent
    <3>. QED
      BY <1>1, <1>5, <1>6, <2>1, <3>1 DEF AskIsCurrent
  <2>2. CASE b /= a
    <3>1. sessAsk'[b] = sessAsk[b] /\ AskIsCurrent(b)
      BY <1>5, <2>2 DEF SessInv
    <3>2. sessAsk[b].at = "idle" \/ sessCrossed
      BY <1>1, <2>2 DEF AskIsCurrent
    <3>. QED
      BY <1>1, <3>1, <3>2 DEF AskIsCurrent
  <2>. QED
    BY <2>1, <2>2
<1>8. SessTypeOK'
  BY <1>1, <1>4, <1>5 DEF SessInv, SessTypeOK, SessRowsOK
<1>. QED
  BY <1>4, <1>7, <1>8 DEF SessInv, SessRowsOK

\* The next session's number is not in use.
LEMMA NextId ==
  ASSUME SessInv, opened + 1 \in SessionIds, opened' = opened + 1, sessHour' = sessHour
  PROVE  /\ opened' \in Nat /\ 1..opened' \subseteq SessionIds /\ opened <= opened'
         /\ opened + 1 <= opened' /\ opened + 1 \notin LiveSession /\ wanted[opened + 1] = {}
<1>1. opened \in Nat /\ 1..opened \subseteq SessionIds
  BY DEF SessInv, SessTypeOK
<1>2. opened + 1 \notin LiveSession
  BY <1>1 DEF SessInv, SessTypeOK
<1>3. 1..(opened + 1) = (1..opened) \cup {opened + 1}
  BY <1>1
<1>. QED
  BY <1>1, <1>2, <1>3 DEF SessInv, SessTypeOK

\* A new session's row, made when no other is active, or by an agent, or with another under way.
LEMMA FreshKeeps ==
  ASSUME SessInv, opened + 1 \in SessionIds, opened' = opened + 1, Row(opened + 1, FreshSession),
         UNCHANGED <<sessHour, edited, wanted>>,
         forced' \in BOOLEAN, sessCrossed' \in BOOLEAN, forced => forced', sessCrossed
              => sessCrossed',
         forced' \/ sessCrossed' \/ ActiveSessions = {}
  PROVE  SessRowsOK'
<1>1. PICK i \in SessionIds : i = opened + 1
  OBVIOUS
<1>2. PICK r : r = FreshSession
  OBVIOUS
<1>3. sessHour \in 0..MaxHour
  BY DEF SessInv, SessTypeOK
<1>4. /\ r \in SessionRows /\ r.live /\ r.active /\ ~r.ended /\ r.tags = {}
      /\ r.started <= r.last /\ r.last <= sessHour
  BY <1>2, <1>3, RowFacts
<1>5. session' = [session EXCEPT ![i] = r]
  BY <1>1, <1>2 DEF Row
<1>6. /\ opened' \in Nat /\ 1..opened' \subseteq SessionIds /\ opened <= opened'
           /\ i <= opened' /\ wanted[i] = {}
  BY <1>1, NextId
<1>7. edited \subseteq SessionIds /\ wanted \in [SessionIds -> SUBSET Labels]
  BY DEF SessInv, SessTypeOK
<1>. QED
  BY <1>4, <1>5, <1>6, <1>7, RowWritten

\* The session after the boundary is created.
LEMMA CreateNextKeeps ==
  ASSUME SessInv, NEW a \in Agents, CreateNext(a)
  PROVE  SessInv'
<1>1. /\ sessAsk[a].at = "create" /\ AskIsCurrent(a) /\ Answer(a)
      /\ opened + 1 \in SessionIds /\ opened' = opened + 1 /\ Row(opened + 1, FreshSession)
      /\ UNCHANGED <<sessHour, forced, edited, sessCrossed, wanted>>
  BY DEF CreateNext, SessInv
<1>2. sessCrossed \in BOOLEAN /\ forced \in BOOLEAN
  BY DEF SessInv, SessTypeOK
<1>3. forced \/ sessCrossed \/ ActiveSessions = {}
  BY <1>1 DEF AskIsCurrent
<1>4. SessRowsOK'
  BY <1>1, <1>2, <1>3, FreshKeeps
<1>. QED
  BY <1>1, <1>4, AnswerKeeps

\* A message touches the session it goes to.
LEMMA TouchKeeps ==
  ASSUME SessInv, NEW a \in Agents, Touch(a)
  PROVE  SessInv'
<1>1. /\ sessAsk[a].at = "touch" /\ sessAsk[a].id \in SessionIds /\ Answer(a)
      /\ UNCHANGED <<sessHour, opened, forced, edited, sessCrossed, wanted>>
      /\ session' = IF session[sessAsk[a].id].live
                    THEN [session EXCEPT ![sessAsk[a].id].last = sessHour] ELSE session
  BY DEF Touch, SessInv, AskIsCurrent
<1>2. PICK i \in SessionIds : i = sessAsk[a].id
  BY <1>1
<1>3. /\ session \in [SessionIds -> SessionRows] /\ session[i] \in SessionRows
           /\ sessCrossed \in BOOLEAN
      /\ forced \in BOOLEAN /\ sessHour \in 0..MaxHour
  BY DEF SessInv, SessTypeOK
<1>4. SessRowsOK'
  <2>1. CASE session[i].live
    <3>1. PICK r : r = [session[i] EXCEPT !.last = sessHour]
      OBVIOUS
    <3>2. /\ r \in SessionRows /\ r.live /\ (r.active <=> session[i].active)
               /\ (r.ended <=> session[i].ended)
          /\ r.tags = session[i].tags /\ r.started = session[i].started /\ r.last = sessHour
      BY <1>3, <2>1, <3>1 DEF SessionRows
    <3>3. session' = [session EXCEPT ![i] = r]
      BY <1>1, <1>2, <1>3, <2>1, <3>1
    <3>4. i \in LiveSession
      BY <2>1 DEF LiveSession
    <3>5. /\ i <= opened /\ opened \in Nat /\ 1..opened \subseteq SessionIds
          /\ session[i].started <= session[i].last /\ session[i].last <= sessHour
          /\ edited \subseteq SessionIds /\ wanted \in [SessionIds -> SUBSET Labels]
      BY <3>4 DEF SessInv, SessTypeOK
    <3>6. r.started <= r.last /\ r.last <= sessHour
      <4>1. session[i].started \in Nat /\ session[i].last \in Nat /\ sessHour \in Nat
        BY <1>3 DEF SessionRows
      <4>. QED
        BY <3>2, <3>5, <4>1
    <3>7. ~sessCrossed => r.tags = wanted[i]
      BY <3>2, <3>4 DEF SessInv, TagsAddUp
    <3>8. i \notin edited => (r.active <=> ~r.ended)
      BY <3>2, <3>4 DEF SessInv, ActiveHasNoEnd
    <3>. QED
      BY <1>1, <1>3, <3>2, <3>3, <3>4, <3>5, <3>6, <3>7, <3>8, RowRewritten
  <2>2. CASE ~session[i].live
    <3>1. session' = session
      BY <1>1, <1>2, <2>2
    <3>. QED
      BY <1>1, <1>3, <3>1, RowsRest
  <2>. QED
    BY <2>1, <2>2
<1>. QED
  BY <1>1, <1>4, AnswerKeeps

\* The merged tags are written.
LEMMA WriteTagsKeeps ==
  ASSUME SessInv, NEW a \in Agents, WriteTags(a)
  PROVE  SessInv'
<1>. DEFINE k == sessAsk[a]
<1>1. /\ k.at = "tag" /\ k.id \in SessionIds /\ Answer(a) /\ AskIsCurrent(a)
      /\ UNCHANGED <<sessHour, opened, forced, edited, sessCrossed>>
  BY DEF WriteTags, SessInv, AskIsCurrent
<1>2. PICK i \in SessionIds : i = k.id
  BY <1>1
<1>3. /\ session \in [SessionIds -> SessionRows] /\ session[i] \in SessionRows
           /\ sessCrossed \in BOOLEAN
      /\ forced \in BOOLEAN /\ sessHour \in 0..MaxHour /\ k \in SessionAsks
      /\ wanted \in [SessionIds -> SUBSET Labels]
  BY DEF SessInv, SessTypeOK
<1>4. SessRowsOK'
  <2>1. CASE session[i].live
    <3>1. PICK g : g = Tagged(k.read, a)
      OBVIOUS
    <3>2. PICK h : h = Tagged(wanted[i], a)
      OBVIOUS
    <3>3. g \subseteq Labels /\ h \subseteq Labels /\ (k.read = wanted[i] => g = h)
      BY <1>3, <3>1, <3>2 DEF Tagged, SessionAsks
    <3>4. PICK r : r = [session[i] EXCEPT !.tags = g]
      OBVIOUS
    <3>5. /\ r \in SessionRows /\ r.live /\ (r.active <=> session[i].active)
               /\ (r.ended <=> session[i].ended)
          /\ r.tags = g /\ r.started = session[i].started /\ r.last = session[i].last
      BY <1>3, <2>1, <3>3, <3>4 DEF SessionRows
    <3>6. session' = [session EXCEPT ![i] = r] /\ wanted' = [wanted EXCEPT ![i] = h]
      BY <1>2, <2>1, <3>1, <3>2, <3>4 DEF WriteTags, Row
    <3>7. wanted' \in [SessionIds -> SUBSET Labels] /\ wanted'[i] = h
               /\ \A j \in SessionIds \ {i} : wanted'[j] = wanted[j]
      BY <1>3, <3>3, <3>6
    <3>8. i \in LiveSession
      BY <2>1 DEF LiveSession
    <3>9. /\ i <= opened /\ opened \in Nat /\ 1..opened \subseteq SessionIds
          /\ r.started <= r.last /\ r.last <= sessHour /\ edited \subseteq SessionIds
      BY <3>5, <3>8 DEF SessInv, SessTypeOK
    <3>10. ~sessCrossed => r.tags = wanted'[i]
      <4>1. ~sessCrossed => k.read = session[i].tags
        BY <1>1, <1>2 DEF AskIsCurrent
      <4>2. ~sessCrossed => session[i].tags = wanted[i]
        BY <3>8 DEF SessInv, TagsAddUp
      <4>. QED
        BY <3>3, <3>5, <3>7, <4>1, <4>2
    <3>11. i \notin edited => (r.active <=> ~r.ended)
      BY <3>5, <3>8 DEF SessInv, ActiveHasNoEnd
    <3>. QED
      BY <1>1, <1>3, <3>5, <3>6, <3>7, <3>8, <3>9, <3>10, <3>11, RowRewritten
  <2>2. CASE ~session[i].live
    <3>1. UNCHANGED <<session, wanted>>
      BY <1>2, <2>2 DEF WriteTags
    <3>. QED
      BY <1>1, <1>3, <3>1, RowsRest
  <2>. QED
    BY <2>1, <2>2
<1>. QED
  BY <1>1, <1>4, AnswerKeeps

\* A statement fails, and the request ends.
LEMMA AskFailsKeeps ==
  ASSUME SessInv, NEW a \in Agents, AskFails(a)
  PROVE  SessInv'
<1>1. /\ sessAsk[a].at /= "idle" /\ Answer(a)
      /\ UNCHANGED <<sessHour, session, opened, forced, edited, sessCrossed, wanted>>
  BY DEF AskFails
<1>2. sessCrossed \in BOOLEAN
  BY DEF SessInv, SessTypeOK
<1>3. SessRowsOK'
  BY <1>1, <1>2, RowsRest
<1>. QED
  BY <1>1, <1>3, AnswerKeeps

\* An agent opens a session.
LEMMA NewSessionKeeps ==
  ASSUME SessInv, NewSession
  PROVE  SessInv'
<1>1. /\ AtOnce /\ opened + 1 \in SessionIds /\ opened' = opened + 1 /\ Row(opened + 1,
           FreshSession)
      /\ forced' = TRUE /\ UNCHANGED <<sessHour, edited, wanted>>
  BY DEF NewSession
<1>2. sessCrossed \in BOOLEAN /\ sessHour \in 0..MaxHour
  BY DEF SessInv, SessTypeOK
<1>3. sessCrossed' \in BOOLEAN /\ (sessCrossed => sessCrossed')
  BY <1>1, <1>2 DEF AtOnce, ArrivesInSession
<1>4. SessRowsOK'
  BY <1>1, <1>3, FreshKeeps
<1>. QED
  BY <1>1, <1>2, <1>4, AtOnceKeeps

\* An agent's statement writes the row it names, and leaves its number and times in order.
LEMMA AgentKeeps ==
  ASSUME SessInv, AtOnce, NEW i \in SessionIds, NEW r, Row(i, r), i \in LiveSession,
         r \in SessionRows,
         UNCHANGED <<sessHour, opened>>,
         edited' \subseteq SessionIds, \A j \in SessionIds \ {i} : j \in edited' <=> j \in edited,
         wanted' \in [SessionIds -> SUBSET Labels],
              \A j \in SessionIds \ {i} : wanted'[j] = wanted[j],
         forced' \in BOOLEAN, forced => forced',
         r.live => r.started <= r.last /\ r.last <= sessHour,
         ~r.live => wanted'[i] = {},
         r.live /\ i \notin edited' => (r.active <=> ~r.ended),
         r.live /\ ~sessCrossed' => r.tags = wanted'[i],
         r.live /\ r.active => forced' \/ session[i].active
  PROVE  SessInv'
<1>1. sessCrossed \in BOOLEAN /\ sessHour \in 0..MaxHour /\ opened \in Nat
           /\ 1..opened \subseteq SessionIds /\ i <= opened
  BY DEF SessInv, SessTypeOK
<1>2. sessCrossed' \in BOOLEAN /\ (sessCrossed => sessCrossed')
  BY <1>1 DEF AtOnce, ArrivesInSession
<1>3. session' = [session EXCEPT ![i] = r]
  BY DEF Row
<1>4. SessRowsOK'
  BY <1>1, <1>2, <1>3, RowRewritten
<1>. QED
  BY <1>1, <1>4, AtOnceKeeps

\* The row an agent's statement names.
LEMMA AgentRow ==
  ASSUME SessInv, NEW i \in LiveSession
  PROVE  /\ i \in SessionIds /\ session[i] \in SessionRows /\ session[i].live
         /\ session[i].started \in 0..MaxHour /\ session[i].last \in 0..MaxHour
              /\ sessHour \in 0..MaxHour
         /\ session[i].started <= session[i].last /\ session[i].last <= sessHour
         /\ session[i].started <= sessHour /\ sessHour <= sessHour
         /\ i \notin edited => (session[i].active <=> ~session[i].ended)
         /\ ~sessCrossed => session[i].tags = wanted[i]
         /\ edited \subseteq SessionIds /\ wanted \in [SessionIds -> SUBSET Labels]
              /\ forced \in BOOLEAN
<1>1. i \in SessionIds /\ session[i].live
  BY DEF LiveSession
<1>2. session[i] \in SessionRows /\ sessHour \in 0..MaxHour
  BY <1>1 DEF SessInv, SessTypeOK
<1>3. session[i].started \in 0..MaxHour /\ session[i].last \in 0..MaxHour
  BY <1>2 DEF SessionRows
<1>4. session[i].started <= session[i].last /\ session[i].last <= sessHour
  BY DEF SessInv, SessTypeOK
<1>5. session[i].started <= sessHour /\ sessHour <= sessHour
  BY <1>2, <1>3, <1>4
<1>6. /\ i \notin edited => (session[i].active <=> ~session[i].ended)
      /\ ~sessCrossed => session[i].tags = wanted[i]
  BY DEF SessInv, ActiveHasNoEnd, TagsAddUp
<1>. QED
  BY <1>1, <1>2, <1>3, <1>4, <1>5, <1>6 DEF SessInv, SessTypeOK

\* An agent closes a session.
LEMMA CloseKeeps ==
  ASSUME SessInv, NEW i \in SessionIds, CloseSession(i)
  PROVE  SessInv'
<1>1. i \in LiveSession /\ AtOnce /\ UNCHANGED <<sessHour, opened, forced, edited, wanted>>
      /\ Row(i, [session[i] EXCEPT !.active = FALSE, !.ended = TRUE])
  BY DEF CloseSession, ActiveSessions
<1>2. PICK r : r = [session[i] EXCEPT !.active = FALSE, !.ended = TRUE]
  OBVIOUS
<1>3. r \in SessionRows /\ r.live /\ ~r.active /\ r.ended
  BY <1>1, <1>2, AgentRow DEF SessionRows
<1>4. r.tags = session[i].tags /\ r.started = session[i].started /\ r.last = session[i].last
  BY <1>1, <1>2, AgentRow DEF SessionRows
<1>5. ~sessCrossed' => ~sessCrossed
  BY <1>1 DEF AtOnce, ArrivesInSession
<1>. QED
  BY <1>1, <1>2, <1>3, <1>4, <1>5, AgentRow, AgentKeeps

\* An agent reopens a session.
LEMMA ReopenKeeps ==
  ASSUME SessInv, NEW i \in SessionIds, ReopenSession(i)
  PROVE  SessInv'
<1>1. i \in LiveSession /\ AtOnce /\ UNCHANGED <<sessHour, opened, edited, wanted>>
           /\ forced' = TRUE
      /\ Row(i, [session[i] EXCEPT !.active = TRUE, !.ended = FALSE, !.last = sessHour])
  BY DEF ReopenSession
<1>2. PICK r : r = [session[i] EXCEPT !.active = TRUE, !.ended = FALSE, !.last = sessHour]
  OBVIOUS
<1>3. r \in SessionRows /\ r.live /\ r.active /\ ~r.ended
  BY <1>1, <1>2, AgentRow DEF SessionRows
<1>4. r.tags = session[i].tags /\ r.started = session[i].started /\ r.last = sessHour
  BY <1>1, <1>2, AgentRow DEF SessionRows
<1>5. ~sessCrossed' => ~sessCrossed
  BY <1>1 DEF AtOnce, ArrivesInSession
<1>. QED
  BY <1>1, <1>2, <1>3, <1>4, <1>5, AgentRow, AgentKeeps

\* An agent updates a session.
LEMMA AskUpdateKeeps ==
  ASSUME SessInv, NEW i \in SessionIds, NEW act \in BOOLEAN, NEW end \in BOOLEAN,
         NEW tags \in SUBSET Labels,
         UpdateSession(i, act, end, tags)
  PROVE  SessInv'
<1>1. /\ i \in LiveSession /\ AtOnce /\ UNCHANGED <<sessHour, opened>>
      /\ Row(i, [session[i] EXCEPT !.active = act, !.ended = end, !.tags = tags])
      /\ edited' = IF act = ~end THEN edited \ {i} ELSE edited \cup {i}
      /\ wanted' = [wanted EXCEPT ![i] = tags]
      /\ forced' = (forced \/ (act /\ ~session[i].active))
  BY DEF UpdateSession
<1>2. PICK r : r = [session[i] EXCEPT !.active = act, !.ended = end, !.tags = tags]
  OBVIOUS
<1>3. r \in SessionRows /\ r.live /\ (r.active <=> act) /\ (r.ended <=> end)
  BY <1>1, <1>2, AgentRow DEF SessionRows
<1>4. r.tags = tags /\ r.started = session[i].started /\ r.last = session[i].last
  BY <1>1, <1>2, AgentRow DEF SessionRows
<1>5. edited' \subseteq SessionIds /\ (\A j \in SessionIds \ {i} : j \in edited' <=> j \in edited)
  BY <1>1, AgentRow
<1>6. i \notin edited' => (act <=> ~end)
  BY <1>1
<1>7. wanted' \in [SessionIds -> SUBSET Labels] /\ wanted'[i] = tags
           /\ \A j \in SessionIds \ {i} : wanted'[j] = wanted[j]
  BY <1>1, AgentRow
<1>8. forced' \in BOOLEAN /\ (forced => forced') /\ (act => forced' \/ session[i].active)
  BY <1>1, AgentRow
<1>9. r.started <= r.last /\ r.last <= sessHour
  BY <1>1, <1>4, AgentRow
<1>10. (i \notin edited' => (r.active <=> ~r.ended)) /\ (r.active => forced' \/ session[i].active)
  BY <1>3, <1>6, <1>8
<1>11. Row(i, r)
  BY <1>1, <1>2
<1>. QED
  BY <1>1, <1>3, <1>4, <1>5, <1>7, <1>8, <1>9, <1>10, <1>11, AgentKeeps

\* A session is deleted.
LEMMA DropKeeps ==
  ASSUME SessInv, NEW i \in SessionIds, DropSession(i)
  PROVE  SessInv'
<1>1. /\ i \in LiveSession /\ AtOnce /\ UNCHANGED <<sessHour, opened, forced>> /\ Row(i,
           NoSession)
      /\ edited' = edited \ {i} /\ wanted' = [wanted EXCEPT ![i] = {}]
  BY DEF DropSession
<1>2. edited' \subseteq SessionIds /\ (\A j \in SessionIds \ {i} : j \in edited' <=> j \in edited)
  BY <1>1, AgentRow
<1>3. wanted' \in [SessionIds -> SUBSET Labels] /\ wanted'[i] = {}
           /\ \A j \in SessionIds \ {i} : wanted'[j] = wanted[j]
  BY <1>1, AgentRow
<1>. QED
  BY <1>1, <1>2, <1>3, RowFacts, AgentRow, AgentKeeps

\* An hour passes.
LEMMA HourKeeps ==
  ASSUME SessInv, SessionHourPasses
  PROVE  SessInv'
<1>1. /\ sessHour < MaxHour /\ sessHour' = sessHour + 1
      /\ UNCHANGED <<session, sessAsk, opened, forced, edited, sessCrossed, wanted>>
  BY DEF SessionHourPasses
<1>2. LiveSession' = LiveSession /\ ActiveSessions' = ActiveSessions
  BY <1>1 DEF LiveSession, ActiveSessions
<1>3. sessHour \in 0..MaxHour /\ MaxHour \in Nat
  BY SessionsAssumption DEF SessInv, SessTypeOK
<1>4. \A i \in LiveSession : session[i].last <= sessHour + 1
  <2>. SUFFICES ASSUME NEW i \in LiveSession PROVE session[i].last <= sessHour + 1
    OBVIOUS
  <2>1. session[i].last \in 0..MaxHour /\ session[i].last <= sessHour
    BY AgentRow
  <2>. QED
    BY <1>3, <2>1
<1>5. SessTypeOK'
  BY <1>1, <1>2, <1>3, <1>4 DEF SessInv, SessTypeOK
<1>6. \A a \in Agents : AskIsCurrent(a)'
  BY <1>1, <1>2 DEF SessInv, AskIsCurrent
<1>. QED
  BY <1>1, <1>2, <1>5, <1>6 DEF SessInv, OneActive, ActiveHasNoEnd, TagsAddUp

\* Nothing happens.
LEMMA SessRests ==
  ASSUME SessInv, UNCHANGED sessVars
  PROVE  SessInv'
BY DEF sessVars, SessInv, SessTypeOK, AskIsCurrent, OneActive, ActiveHasNoEnd, TagsAddUp,
   ActiveSessions, LiveSession

\* Every step keeps the invariant.
LEMMA SessStep == SessInv /\ [SessNext]_sessVars => SessInv'
<1>. SUFFICES ASSUME SessInv, SessNext PROVE SessInv'
  BY SessRests
<1>1. ASSUME NEW a \in Agents,
             \/ DetectBoundary(a) \/ ClosePrior(a) \/ CreateNext(a) \/ Touch(a)
             \/ \E i \in SessionIds, t \in Labels, add \in BOOLEAN : ReadTags(a, i, t, add)
             \/ WriteTags(a) \/ AskFails(a)
      PROVE  SessInv'
  BY <1>1, DetectKeeps, ClosePriorKeeps, CreateNextKeeps, TouchKeeps, ReadTagsKeeps,
     WriteTagsKeeps, AskFailsKeeps
<1>2. ASSUME NEW i \in SessionIds,
             \/ CloseSession(i) \/ ReopenSession(i)
             \/ \E act, end \in BOOLEAN, tags \in SUBSET Labels : UpdateSession(i, act, end, tags)
             \/ DropSession(i)
      PROVE  SessInv'
  BY <1>2, CloseKeeps, ReopenKeeps, AskUpdateKeeps, DropKeeps
<1>. QED
  BY <1>1, <1>2, NewSessionKeeps, HourKeeps DEF SessNext

\* A conversation has one active session unless one was forced or requests crossed, sessions
\* follow one another in time, and their tags are those that were written, whichever requests
\* interleave (SessInv).
THEOREM SessionsFollow == SessSpec => []SessInv
BY SessInitially, SessStep, PTL DEF SessSpec

\* No message is put into a session that is closed (MessageInActive).
THEOREM MessagesGoToActive == SessSpec => MessageInActive
<1>. DEFINE A == \A a \in Agents : Touch(a) /\ ~sessCrossed /\ session' /= session
            => session[sessAsk[a].id].active
<1>1. SessInv /\ [SessNext]_sessVars => [A]_sessVars
  <2>. SUFFICES ASSUME SessInv, NEW a \in Agents, Touch(a), ~sessCrossed
                PROVE  session[sessAsk[a].id].active
    OBVIOUS
  <2>1. AskIsCurrent(a) /\ sessAsk[a].at = "touch"
    BY DEF SessInv, Touch
  <2>2. sessAsk[a].id \in ActiveSessions
    BY <2>1 DEF AskIsCurrent
  <2>. QED
    BY <2>2 DEF ActiveSessions
<1>. QED
  BY <1>1, SessionsFollow, PTL DEF SessSpec, MessageInActive

-----------------------------------------------------------------------------
(* Tags and customer labels.                                                *)

\* The stages of a request that has begun.
Working == {"delete", "lock", "insert", "tell"}

\* What is so of the tags.
TagsOK ==
  /\ tagRow \in [Tags -> TagRows \cup {NoTag}] /\ LiveNamesDiffer
  /\ changes \in 0..MaxTagChanges

\* What is so of the labels, the log and the events.
BooksOK ==
  /\ labels \subseteq LabelRows /\ HeldLabels \subseteq Existing
  /\ \A r, s \in labels : r.tag = s.tag => r = s
  /\ audit \in [Tags -> [on : Nat, off : Nat]]
  /\ seen \subseteq Tags /\ untold \subseteq Tags /\ serial \subseteq Tags /\ crossed \in BOOLEAN /\ replaced \in BOOLEAN
  /\ stops \in 0..MaxStops
  /\ LabelsAddUp /\ EntriesAddUp

\* What is so of the requests.
AsksOK ==
  /\ request \in [Requests -> LabelAsks]
  /\ \A q \in Requests : RequestIsCurrent(q)

\* Once nothing is left to be told, the events have caught up.
LEMMA LabelParts == LabelInv <=> TagsOK /\ BooksOK /\ AsksOK /\ EventsCatchUp
<1>1. EventsCatchUp => ListenersAgree
  <2>. SUFFICES ASSUME EventsCatchUp, ~crossed, \A q \in Requests : request[q].at /= "tell"
       PROVE  seen \ untold = HeldLabels \ untold
    BY DEF ListenersAgree
  <2>1. Telling = {}
    BY DEF Telling
  <2>2. HeldLabels \ untold = (seen \cup UNION {Fresh(q) : q \in {}}) \ untold
    BY <2>1 DEF EventsCatchUp
  <2>. QED
    BY <2>2
<1>. QED
  BY <1>1 DEF LabelInv, LabelTypeOK, TagsOK, BooksOK, AsksOK

\* A tag that is not there.
LEMMA NoTagFacts ==
  /\ NoTag \notin TagRows /\ \A n \in Names : TagNamed(n) \in TagRows
       /\ TagNamed(n).name = n /\ ~TagNamed(n).deleted
<1>1. NoTag.name = "none" /\ "none" \notin Names
  BY LabelsAssumption DEF NoTag
<1>. QED
  BY <1>1 DEF TagNamed, TagRows

\* A request that is not under way.
LEMMA IdleFacts ==
  /\ Idle \in LabelAsks /\ Idle.at = "new"
  /\ \A at \in {"done", "failed"} : LET a == [Idle EXCEPT !.at = at] IN a \in LabelAsks
       /\ a.at = at
  /\ \A n \in Names, t \in Tags :
       LET a == [Idle EXCEPT !.at = "make", !.op = n, !.ids = {t}]
       IN  a \in LabelAsks /\ a.at = "make" /\ a.op = n /\ a.ids = {t}
<1>1. Idle \in LabelAsks /\ Idle.at = "new"
  BY DEF Idle, LabelAsks
<1>2. ASSUME NEW at \in {"done", "failed"}
      PROVE  [Idle EXCEPT !.at = at] \in LabelAsks /\ [Idle EXCEPT !.at = at].at = at
  BY DEF Idle, LabelAsks
<1>3. ASSUME NEW n \in Names, NEW t \in Tags
      PROVE  LET a == [Idle EXCEPT !.at = "make", !.op = n, !.ids = {t}]
             IN  a \in LabelAsks /\ a.at = "make" /\ a.op = n /\ a.ids = {t}
  BY DEF Idle, LabelAsks
<1>. QED
  BY <1>1, <1>2, <1>3

-----------------------------------------------------------------------------
\* A request's row changes, and what has been committed and told does not.
LEMMA OneAsk ==
  ASSUME BooksOK, AsksOK, EventsCatchUp, NEW q \in Requests, NEW a \in LabelAsks,
         request' = [request EXCEPT ![q] = a],
         UNCHANGED <<labels, audit, serial, seen, untold, replaced>>,
         crossed' \in BOOLEAN, crossed => crossed', stops' \in 0..MaxStops,
         Existing \subseteq Existing',
         request[q].at /= "tell", a.at /= "tell",
         a.at = "make" => a.op \in Names /\ \E t \in Tags : a.ids = {t},
         a.at \in Working => /\ a.op \in {"add", "remove", "set"}
                             /\ a.op = "add" => a.at \in {"insert", "tell"} /\ a.gone = {}
                             /\ a.op /= "remove" => a.ids \subseteq Existing,
         a.at \in Working /\ ~crossed' =>
           /\ a.op /= "add" => AtWork \subseteq {q}
           /\ a.op = "add" => a.read \subseteq HeldLabels /\ \A p \in AtWork : p /= q
                => request[p].op = "add"
           /\ a.op = "remove" => a.read = a.ids \cap HeldLabels
           /\ a.op = "remove" /\ a.at \in {"lock", "insert"}
                => a.gone = {r \in labels : r.tag \in a.ids}
           /\ a.op = "set" /\ a.at \in {"lock", "insert"} => a.gone = labels
  PROVE  BooksOK' /\ AsksOK' /\ EventsCatchUp'
<1>1. HeldLabels' = HeldLabels
  BY DEF HeldLabels
<1>2. /\ request' \in [Requests -> LabelAsks] /\ request'[q] = a
      /\ \A p \in Requests \ {q} : request'[p] = request[p]
  BY DEF AsksOK
<1>3. BooksOK'
  BY <1>1 DEF BooksOK, LabelsAddUp, EntriesAddUp
<1>4. Telling' = Telling /\ q \notin Telling
  BY <1>2 DEF Telling
<1>5. AtWork' \subseteq AtWork \cup {q} /\ (q \in AtWork' <=> a.at \in Working)
           /\ AtWork \ {q} = AtWork' \ {q}
  BY <1>2 DEF AtWork, Working
<1>6. ASSUME NEW p \in Requests PROVE RequestIsCurrent(p)'
  <2>1. CASE p = q
    <3>1. /\ a.at = "make" => a.op \in Names /\ \E t \in Tags : a.ids = {t}
          /\ q \in AtWork' => /\ a.op \in {"add", "remove", "set"}
                              /\ a.op = "add" => a.at \in {"insert", "tell"} /\ a.gone = {}
                              /\ a.op /= "remove" => a.ids \subseteq Existing'
      BY <1>5
    <3>2. q \in AtWork' /\ ~crossed' =>
            /\ a.op /= "add" => AtWork' = {q}
            /\ a.op = "add" => a.read \subseteq HeldLabels'
            /\ a.op = "remove" /\ a.at /= "tell" => a.read = a.ids \cap HeldLabels'
      BY <1>1, <1>5
    <3>3. Doomed(q)' = IF a.op = "set" THEN labels ELSE {r \in labels : r.tag \in a.ids}
      BY <1>2 DEF Doomed
    <3>4. q \in AtWork' /\ ~crossed' => (a.op /= "add" /\ a.at \in {"lock", "insert"}
               => a.gone = Doomed(q)')
      BY <1>5, <3>1, <3>3
    <3>. QED
      BY <1>2, <2>1, <3>1, <3>2, <3>4 DEF RequestIsCurrent
  <2>2. CASE p /= q
    <3>1. request'[p] = request[p] /\ RequestIsCurrent(p) /\ (p \in AtWork' <=> p \in AtWork)
      BY <1>2, <1>5, <2>2 DEF AsksOK
    <3>2. Doomed(p)' = Doomed(p)
      BY <3>1 DEF Doomed
    <3>3. ASSUME p \in AtWork, ~crossed', request[p].op /= "add" PROVE AtWork' = {p}
      <4>1. AtWork = {p}
        BY <3>1, <3>3 DEF RequestIsCurrent
      <4>2. a.at \notin Working
        BY <2>2, <3>3, <4>1, <1>5
      <4>. QED
        BY <1>5, <2>2, <4>1, <4>2
    <3>. QED
      BY <1>1, <3>1, <3>2, <3>3 DEF RequestIsCurrent
  <2>. QED
    BY <2>1, <2>2
<1>7. \A p \in Telling : request'[p] = request[p] /\ Fresh(p)' = Fresh(p)
  BY <1>2, <1>4 DEF Telling, Fresh
<1>8. EventsCatchUp'
  <2>. SUFFICES ASSUME ~crossed' PROVE EventsCatchUp'
    BY DEF EventsCatchUp
  <2>1. UNION {Fresh(p) : p \in Telling}' = UNION {Fresh(p) : p \in Telling}
    BY <1>4, <1>7
  <2>2. /\ (\A p \in Telling' : request'[p].op = "add")
             => HeldLabels' \ untold' = (seen' \cup UNION {Fresh(p) : p \in Telling}') \ untold'
        /\ \A p \in Telling' :
             /\ request'[p].op = "add" => Fresh(p)' \subseteq HeldLabels'
             /\ request'[p].op = "set" => HeldLabels' = request'[p].ids
             /\ request'[p].op = "remove"
                  => /\ HeldLabels' \cap request'[p].ids = {}
                     /\ HeldLabels' \ untold' = (seen' \ request'[p].ids) \ untold'
    BY <1>1, <1>4, <1>7, <2>1 DEF EventsCatchUp
  <2>. QED
    BY <2>2 DEF EventsCatchUp
<1>. QED
  BY <1>2, <1>3, <1>6, <1>8 DEF AsksOK

\* A request that ends outside of its telling leaves nothing behind.
LEMMA EndsHere ==
  ASSUME LabelInv, NEW q \in Requests, NEW at \in {"done", "failed"}, Ended(q, at),
         request[q].at /= "tell",
         TagsOK', Existing \subseteq Existing', UNCHANGED <<labels, audit, serial, seen, untold,
              replaced, crossed>>,
         stops' \in 0..MaxStops
  PROVE  LabelInv'
<1>1. PICK a : a = [Idle EXCEPT !.at = at]
  OBVIOUS
<1>2. a \in LabelAsks /\ a.at = at /\ a.at \notin Working
  BY <1>1, IdleFacts DEF Working
<1>3. request' = [request EXCEPT ![q] = a] /\ crossed \in BOOLEAN
  BY <1>1, LabelParts DEF Ended, BooksOK
<1>4. BooksOK' /\ AsksOK' /\ EventsCatchUp'
  BY <1>2, <1>3, OneAsk, LabelParts
<1>. QED
  BY <1>4, LabelParts, PTL

\* A tag is to be made: the name is looked up.
LEMMA MakesKeep ==
  ASSUME LabelInv, NEW q \in Requests, NEW t \in Tags, NEW n \in Names,
         CreateTag(q, t, n) \/ RenameTag(q, t, n)
  PROVE  LabelInv'
<1>1. PICK a : a = [Idle EXCEPT !.at = "make", !.op = n, !.ids = {t}]
  OBVIOUS
<1>2. a \in LabelAsks /\ a.at = "make" /\ a.op = n /\ a.ids = {t} /\ a.at \notin Working
  BY <1>1, IdleFacts, ZenonT(40) DEF Working
<1>3. /\ request[q].at = "new" /\ request' = [request EXCEPT ![q] = a]
      /\ UNCHANGED <<tagRow, labels, audit, serial, seen, untold, crossed, replaced, stops, changes>>
  BY <1>1 DEF CreateTag, RenameTag
<1>4. Existing' = Existing /\ TagsOK'
  BY <1>3, LabelParts DEF Existing, TagsOK, LiveNamesDiffer, Live
<1>5. crossed \in BOOLEAN /\ stops \in 0..MaxStops
  BY LabelParts DEF BooksOK
<1>6. BooksOK' /\ AsksOK' /\ EventsCatchUp'
  BY <1>2, <1>3, <1>4, <1>5, OneAsk, LabelParts
<1>. QED
  BY <1>4, <1>6, LabelParts, PTL

\* A tag's row changes to one that is there, and keeps the live names different.
LEMMA TagWritten ==
  ASSUME TagsOK, NEW t \in Tags, NEW r \in TagRows, tagRow' = [tagRow EXCEPT ![t] = r],
         changes' \in 0..MaxTagChanges,
         ~r.deleted => ~NamedAlready(r.name, t) \/ (Live(t) /\ r.name = tagRow[t].name)
  PROVE  TagsOK' /\ Existing \subseteq Existing'
<1>1. /\ tagRow' \in [Tags -> TagRows \cup {NoTag}] /\ tagRow'[t] = r
      /\ \A u \in Tags \ {t} : tagRow'[u] = tagRow[u]
  BY DEF TagsOK
<1>2. Existing \subseteq Existing' /\ (\A u \in Tags \ {t} : Live(u)' <=> Live(u))
           /\ (Live(t)' => ~r.deleted)
  BY <1>1, NoTagFacts DEF Existing, Live
<1>3. ASSUME NEW u \in Tags, NEW v \in Tags, u /= v, Live(u)', Live(v)'
      PROVE  tagRow'[u].name /= tagRow'[v].name
  <2>1. \A x, y \in Tags : x /= y /\ Live(x) /\ Live(y) => tagRow[x].name /= tagRow[y].name
    BY DEF TagsOK, LiveNamesDiffer
  <2>2. ASSUME NEW x \in Tags \ {t}, Live(x), Live(t)' PROVE r.name /= tagRow[x].name
    BY <1>2, <2>1, <2>2 DEF NamedAlready
  <2>3. CASE u = t
    BY <1>1, <1>2, <1>3, <2>2, <2>3
  <2>4. CASE v = t
    BY <1>1, <1>2, <1>3, <2>2, <2>4
  <2>5. CASE u /= t /\ v /= t
    BY <1>1, <1>2, <1>3, <2>1, <2>5
  <2>. QED
    BY <2>3, <2>4, <2>5
<1>. QED
  BY <1>1, <1>2, <1>3 DEF TagsOK, LiveNamesDiffer

\* The tag is stored, unless the index refuses it.
LEMMA StoreKeeps ==
  ASSUME LabelInv, NEW q \in Requests, StoreTag(q)
  PROVE  LabelInv'
<1>1. request[q].at = "make" /\ Ended(q, "done") /\ UNCHANGED <<labels, audit, serial, seen, untold,
           crossed, replaced, stops, changes>>
  BY DEF StoreTag
<1>2. request[q].op \in Names /\ \E t \in Tags : request[q].ids = {t}
  BY <1>1, LabelParts DEF AsksOK, RequestIsCurrent
<1>3. PICK t \in Tags : IF NamedAlready(request[q].op, t) /\ (tagRow[t] = NoTag \/ Live(t))
                        THEN tagRow' = tagRow ELSE Named(q, t)
  BY <1>2 DEF StoreTag
<1>4. changes \in 0..MaxTagChanges /\ stops \in 0..MaxStops /\ TagsOK
           /\ tagRow[t] \in TagRows \cup {NoTag}
  BY LabelParts DEF TagsOK, BooksOK
<1>5. TagsOK' /\ Existing \subseteq Existing'
  <2>1. CASE tagRow' = tagRow
    BY <1>1, <1>4, <2>1 DEF TagsOK, LiveNamesDiffer, Live, Existing
  <2>2. CASE /\ ~(NamedAlready(request[q].op, t) /\ (tagRow[t] = NoTag \/ Live(t)))
             /\ Named(q, t)
    <3>1. PICK r : r = IF tagRow[t] = NoTag THEN TagNamed(request[q].op)
                       ELSE [tagRow[t] EXCEPT !.name = request[q].op]
      OBVIOUS
    <3>2. tagRow' = [tagRow EXCEPT ![t] = r]
      BY <2>2, <3>1 DEF Named
    <3>3. CASE tagRow[t] = NoTag
      <4>1. r \in TagRows /\ r.name = request[q].op
        BY <1>2, <3>1, <3>3, NoTagFacts
      <4>. QED
        BY <1>1, <1>4, <2>2, <3>2, <3>3, <4>1, TagWritten
    <3>4. CASE tagRow[t] /= NoTag
      <4>1. r \in TagRows /\ r.name = request[q].op /\ (r.deleted <=> tagRow[t].deleted)
        BY <1>2, <1>4, <3>1, <3>4 DEF TagRows
      <4>2. ~r.deleted => Live(t)
        BY <3>4, <4>1 DEF Live, Existing
      <4>. QED
        BY <1>1, <1>4, <2>2, <3>2, <4>1, <4>2, TagWritten
    <3>. QED
      BY <3>3, <3>4
  <2>. QED
    BY <1>3, <2>1, <2>2
<1>. QED
  BY <1>1, <1>4, <1>5, EndsHere

\* A tag is renamed or deleted.
LEMMA ChangeKeeps ==
  ASSUME LabelInv, NEW t \in Tags, DeleteTag(t) \/ \E b \in BOOLEAN : Activate(t, b)
  PROVE  LabelInv'
<1>1. PICK r : /\ tagRow' = [tagRow EXCEPT ![t] = r] /\ t \in Existing
               /\ \/ r = [tagRow[t] EXCEPT !.active = FALSE, !.deleted = TRUE]
                  \/ \E b \in BOOLEAN : r = [tagRow[t] EXCEPT !.active = b]
  BY DEF DeleteTag, Activate, TagChanges, Live
<1>2. /\ changes < MaxTagChanges /\ changes' = changes + 1
      /\ UNCHANGED <<labels, audit, request, serial, seen, untold, crossed, replaced, stops>>
  BY DEF DeleteTag, Activate, TagChanges
<1>3. changes' \in 0..MaxTagChanges
  BY <1>2, LabelParts, LabelsAssumption DEF TagsOK
<1>4. tagRow[t] \in TagRows
  BY <1>1, LabelParts DEF TagsOK, Existing
<1>5. r \in TagRows /\ r.name = tagRow[t].name /\ (~r.deleted => ~tagRow[t].deleted)
  <2>1. CASE r = [tagRow[t] EXCEPT !.active = FALSE, !.deleted = TRUE]
    BY <1>4, <2>1 DEF TagRows
  <2>2. CASE \E b \in BOOLEAN : r = [tagRow[t] EXCEPT !.active = b]
    BY <1>4, <2>2 DEF TagRows
  <2>. QED
    BY <1>1, <2>1, <2>2
<1>6. ~r.deleted => Live(t)
  BY <1>1, <1>5 DEF Live
<1>7. TagsOK' /\ Existing \subseteq Existing'
  BY <1>1, <1>3, <1>5, <1>6, TagWritten, LabelParts
<1>8. HeldLabels' = HeldLabels /\ AtWork' = AtWork /\ Telling' = Telling
      /\ \A q \in Requests : Doomed(q)' = Doomed(q) /\ Fresh(q)' = Fresh(q)
  BY <1>2 DEF HeldLabels, AtWork, Telling, Doomed, Fresh
<1>9. BooksOK'
  BY <1>2, <1>7, <1>8, LabelParts DEF BooksOK, LabelsAddUp, EntriesAddUp
<1>10. AsksOK'
  BY <1>2, <1>7, <1>8, LabelParts DEF AsksOK, RequestIsCurrent
<1>11. EventsCatchUp'
  <2>1. UNION {Fresh(p) : p \in Telling}' = UNION {Fresh(p) : p \in Telling}
    BY <1>8 DEF Telling
  <2>2. EventsCatchUp
    BY LabelParts
  <2>. QED
    BY <1>2, <1>8, <2>1, <2>2 DEF EventsCatchUp, Telling
<1>. QED
  BY <1>7, <1>9, <1>10, <1>11, LabelParts, PTL

-----------------------------------------------------------------------------
\* A request for a customer's labels begins.
LEMMA AsksKeep ==
  ASSUME LabelInv, NEW q \in Requests, NEW op \in {"add", "remove", "set"},
         NEW ids \in SUBSET Tags,
         NEW next \in {"done", "insert", "delete"}, AsksLabels(q, op, ids, next),
         op = "add" => next \in {"done", "insert"}, op /= "add" => next = "delete",
         op /= "remove" => ids \subseteq Usable
  PROVE  LabelInv'
<1>1. BooksOK /\ AsksOK /\ EventsCatchUp /\ TagsOK
  BY LabelParts
<1>2. /\ request[q].at = "new"
      /\ crossed' = (crossed \/ (LabelsRunning /= {} /\
           (op /= "add" \/ \E p \in LabelsRunning : request[p].op \in {"remove", "set"})))
      /\ UNCHANGED <<tagRow, labels, audit, serial, seen, untold, replaced, stops, changes>>
  BY DEF AsksLabels
<1>3. TagsOK' /\ Existing' = Existing
  BY <1>1, <1>2 DEF Existing, TagsOK, LiveNamesDiffer, Live
<1>4. crossed' \in BOOLEAN /\ (crossed => crossed') /\ stops \in 0..MaxStops
  BY <1>1, <1>2 DEF BooksOK
<1>5. AtWork \subseteq LabelsRunning
  BY DEF AtWork, LabelsRunning
<1>6. ~crossed' => /\ op /= "add" => AtWork = {}
                   /\ \A p \in AtWork : request[p].op \notin {"remove", "set"}
  BY <1>2, <1>5
<1>7. \A p \in AtWork : request[p].op \in {"add", "remove", "set"}
  BY <1>1 DEF AsksOK, RequestIsCurrent, AtWork
<1>8. op /= "remove" => ids \subseteq Existing
  BY DEF Usable, Live
<1>9. BooksOK' /\ AsksOK' /\ EventsCatchUp'
  <2>1. CASE next = "done"
    <3>1. PICK a : a = [Idle EXCEPT !.at = "done"]
      OBVIOUS
    <3>2. a \in LabelAsks /\ a.at = "done" /\ a.at \notin Working
      BY <3>1, IdleFacts DEF Working
    <3>3. request' = [request EXCEPT ![q] = a]
      BY <2>1, <3>1 DEF AsksLabels, Ended
    <3>. QED
      BY <1>1, <1>2, <1>3, <1>4, <3>2, <3>3, OneAsk
  <2>2. CASE next /= "done"
    <3>1. PICK read : read = ids \cap HeldLabels
      OBVIOUS
    <3>2. PICK a : a = [at |-> next, op |-> op, ids |-> ids, read |-> read, gone |-> {}]
      OBVIOUS
    <3>3. a \in LabelAsks /\ a.at = next /\ a.op = op /\ a.ids = ids
               /\ a.read = ids \cap HeldLabels /\ a.gone = {}
      BY <2>2, <3>1, <3>2 DEF LabelAsks
    <3>4. request' = [request EXCEPT ![q] = a]
      BY <2>2, <3>1, <3>2 DEF AsksLabels
    <3>5. a.op /= "remove" => a.ids \subseteq Existing
      BY <1>8, <3>3
    <3>6. ~crossed' => /\ a.op /= "add" => AtWork \subseteq {q}
                       /\ a.op = "add" => /\ a.read \subseteq HeldLabels
                                          /\ \A p \in AtWork : p /= q => request[p].op = "add"
                       /\ a.op = "remove" => a.read = a.ids \cap HeldLabels
      BY <1>6, <1>7, <3>3
    <3>7. a.op = "add" => a.at \in {"insert", "tell"} /\ a.gone = {}
      BY <2>2, <3>3
    <3>8. a.op /= "add" => a.at = "delete"
      BY <3>3
    <3>9. a.at \notin {"tell", "make"} /\ request[q].at /= "tell"
      BY <1>2, <3>3
    <3>. QED
      BY <1>1, <1>2, <1>3, <1>4, <3>3, <3>4, <3>5, <3>6, <3>7, <3>8, <3>9, OneAsk
  <2>. QED
    BY <2>1, <2>2
<1>. QED
  BY <1>3, <1>9, LabelParts, PTL

\* The request goes on, with what it has read.
LEMMA GoesOn ==
  ASSUME LabelInv, NEW q \in Requests, NEW a \in LabelAsks, request' = [request EXCEPT ![q] = a],
         UNCHANGED <<tagRow, labels, audit, serial, seen, untold, crossed, replaced, stops, changes>>,
         q \in AtWork, request[q].at /= "tell", a.at \in {"lock", "insert"},
         a.op = request[q].op, a.ids = request[q].ids, a.read = request[q].read,
         a.op = "add" => a.gone = {} /\ a.at = "insert",
         ~crossed /\ a.op = "remove" => a.gone = {r \in labels : r.tag \in a.ids},
         ~crossed /\ a.op = "set" => a.gone = labels
  PROVE  LabelInv'
<1>1. BooksOK /\ AsksOK /\ EventsCatchUp /\ TagsOK
  BY LabelParts
<1>2. TagsOK' /\ Existing' = Existing
  BY <1>1 DEF Existing, TagsOK, LiveNamesDiffer, Live
<1>3. crossed \in BOOLEAN /\ stops \in 0..MaxStops
  BY <1>1 DEF BooksOK
<1>4. RequestIsCurrent(q) /\ \A p \in AtWork : RequestIsCurrent(p) /\ request[p].op \in {"add",
           "remove", "set"}
  BY <1>1 DEF AsksOK, RequestIsCurrent, AtWork
<1>5. /\ a.op \in {"add", "remove", "set"}
      /\ a.op /= "remove" => a.ids \subseteq Existing
      /\ ~crossed => /\ a.op /= "add" => AtWork \subseteq {q}
                     /\ a.op = "add" => a.read \subseteq HeldLabels
                     /\ a.op = "remove" => a.read = a.ids \cap HeldLabels
  BY <1>4 DEF RequestIsCurrent
<1>6. ~crossed /\ a.op = "add" => \A p \in AtWork : p /= q => request[p].op = "add"
  BY <1>4 DEF RequestIsCurrent
<1>7. a.at \in Working /\ a.at \notin {"tell", "make"}
  BY DEF Working
<1>8. BooksOK' /\ AsksOK' /\ EventsCatchUp'
  BY <1>1, <1>2, <1>3, <1>5, <1>6, <1>7, OneAsk
<1>. QED
  BY <1>2, <1>8, LabelParts, PTL

\* The labels that are there are read.
LEMMA SnapshotKeeps ==
  ASSUME LabelInv, NEW q \in Requests, LabelSnapshot(q)
  PROVE  LabelInv'
<1>1. /\ request[q].at = "delete" /\ request' = [request EXCEPT ![q].at = "lock",
           ![q].gone = Doomed(q)]
      /\ UNCHANGED <<tagRow, labels, audit, serial, seen, untold, crossed, replaced, stops, changes>>
  BY DEF LabelSnapshot
<1>2. request \in [Requests -> LabelAsks] /\ labels \subseteq LabelRows
           /\ RequestIsCurrent(q) /\ q \in AtWork
  BY <1>1, LabelParts DEF AsksOK, BooksOK, AtWork
<1>3. PICK g : g = Doomed(q)
  OBVIOUS
<1>4. g \subseteq LabelRows /\ g = IF request[q].op = "set" THEN labels
           ELSE {r \in labels : r.tag \in request[q].ids}
  BY <1>2, <1>3 DEF Doomed
<1>5. PICK a : a = [request[q] EXCEPT !.at = "lock", !.gone = g]
  OBVIOUS
<1>6. a \in LabelAsks /\ a.at = "lock" /\ a.gone = g
  BY <1>2, <1>4, <1>5 DEF LabelAsks
<1>7. a.op = request[q].op /\ a.ids = request[q].ids /\ a.read = request[q].read
  BY <1>2, <1>5 DEF LabelAsks
<1>8. request' = [request EXCEPT ![q] = a]
  BY <1>1, <1>2, <1>3, <1>5
<1>9. a.op /= "add"
  BY <1>1, <1>2, <1>7 DEF RequestIsCurrent
<1>10. /\ a.op = "remove" => a.gone = {r \in labels : r.tag \in a.ids}
       /\ a.op = "set" => a.gone = labels
  BY <1>4, <1>6, <1>7
<1>. QED
  BY <1>1, <1>2, <1>6, <1>7, <1>8, <1>9, <1>10, GoesOn

\* The customer's row is locked.
LEMMA LockKeeps ==
  ASSUME LabelInv, NEW q \in Requests, Lock(q)
  PROVE  LabelInv'
<1>1. /\ request[q].at = "lock" /\ request' = [request EXCEPT ![q].at = "insert"]
      /\ UNCHANGED <<tagRow, labels, audit, serial, seen, untold, crossed, replaced, stops, changes>>
  BY DEF Lock
<1>2. request \in [Requests -> LabelAsks] /\ RequestIsCurrent(q) /\ q \in AtWork
  BY <1>1, LabelParts DEF AsksOK, AtWork
<1>3. PICK a : a = [request[q] EXCEPT !.at = "insert"]
  OBVIOUS
<1>4. a \in LabelAsks /\ a.at = "insert" /\ a.gone = request[q].gone
  BY <1>2, <1>3 DEF LabelAsks
<1>5. a.op = request[q].op /\ a.ids = request[q].ids /\ a.read = request[q].read
  BY <1>2, <1>3 DEF LabelAsks
<1>6. request' = [request EXCEPT ![q] = a]
  BY <1>1, <1>2, <1>3
<1>7. a.op /= "add"
  BY <1>1, <1>2, <1>5 DEF RequestIsCurrent
<1>8. ~crossed => a.gone = IF a.op = "set" THEN labels ELSE {r \in labels : r.tag \in a.ids}
  BY <1>1, <1>2, <1>4, <1>5, <1>7 DEF RequestIsCurrent, Doomed
<1>. QED
  BY <1>1, <1>2, <1>4, <1>5, <1>6, <1>7, <1>8, GoesOn

\* The request fails, and what it did is rolled back.
LEMMA StopsKeep ==
  ASSUME LabelInv, NEW q \in Requests, RollBack(q) \/ Stop(q), request[q].at /= "tell"
  PROVE  LabelInv'
<1>1. /\ Ended(q, "failed")
      /\ UNCHANGED <<tagRow, labels, audit, serial, seen, untold, crossed, replaced, changes>>
      /\ stops' = stops \/ (stops < MaxStops /\ stops' = stops + 1)
  BY DEF RollBack, Stop
<1>2. stops' \in 0..MaxStops
  BY <1>1, LabelParts, LabelsAssumption DEF BooksOK
<1>3. TagsOK' /\ Existing' = Existing
  BY <1>1, LabelParts DEF Existing, TagsOK, LiveNamesDiffer, Live
<1>. QED
  BY <1>1, <1>2, <1>3, EndsHere

-----------------------------------------------------------------------------
\* What a commit makes of the labels, the log and the order of the requests.
LEMMA CommitFacts ==
  ASSUME LabelInv, NEW q \in Requests, Commit(q)
  PROVE  /\ q \in AtWork /\ request[q].at = "insert" /\ request[q].op \in {"add", "remove", "set"}
         /\ Fresh(q) \subseteq request[q].ids /\ request[q].ids \subseteq Tags
              /\ Fresh(q) \subseteq Existing
         /\ \A r \in Left(q) : r.tag \notin Fresh(q)
         /\ labels' = Left(q) \cup {[tag |-> t, by |-> q] : t \in Fresh(q)}
              /\ Left(q) \subseteq labels
         /\ HeldLabels' = {r.tag : r \in Left(q)} \cup Fresh(q)
         /\ audit' = [t \in Tags |-> Counted(q, t)] /\ serial' = Serially(q)
         /\ replaced' = (replaced \/ request[q].op = "set")
         /\ UNCHANGED <<tagRow, seen, untold, crossed, stops, changes>>
         /\ request' \in [Requests -> LabelAsks] /\ request'[q].at = "tell"
         /\ request'[q].op = request[q].op /\ request'[q].ids = request[q].ids
         /\ request'[q].read = request[q].read /\ request'[q].gone = request[q].gone
         /\ \A p \in Requests \ {q} : request'[p] = request[p]
<1>1. /\ request[q].at = "insert" /\ ~Clashes(q)
      /\ labels' = Left(q) \cup {[tag |-> t, by |-> q] : t \in Fresh(q)}
      /\ audit' = [t \in Tags |-> Counted(q, t)] /\ serial' = Serially(q)
      /\ replaced' = (replaced \/ request[q].op = "set")
      /\ request' = [request EXCEPT ![q].at = "tell"]
      /\ UNCHANGED <<tagRow, seen, untold, crossed, stops, changes>>
  BY DEF Commit, CommitOf
<1>2. request \in [Requests -> LabelAsks] /\ RequestIsCurrent(q) /\ q \in AtWork
  BY <1>1, LabelParts DEF AsksOK, AtWork
<1>3. /\ request[q].op \in {"add", "remove", "set"} /\ request[q].ids \subseteq Tags
      /\ request[q].op /= "remove" => request[q].ids \subseteq Existing
  BY <1>2 DEF RequestIsCurrent, LabelAsks
<1>4. Fresh(q) \subseteq request[q].ids /\ (request[q].op = "remove" => Fresh(q) = {})
  BY <1>3 DEF Fresh
<1>5. \A r \in Left(q) : r.tag \notin Fresh(q)
  BY <1>1 DEF Clashes
<1>6. HeldLabels' = {r.tag : r \in Left(q)} \cup Fresh(q)
  <2>1. \A t : t \in HeldLabels' <=> \E r \in labels' : t = r.tag
    BY DEF HeldLabels
  <2>2. \A t : [tag |-> t, by |-> q].tag = t
    OBVIOUS
  <2>3. ASSUME NEW t PROVE t \in HeldLabels' <=> (\E r \in Left(q) : t = r.tag) \/ t \in Fresh(q)
    <3>1. ASSUME t \in Fresh(q) PROVE t \in HeldLabels'
      <4>1. [tag |-> t, by |-> q] \in labels'
        BY <1>1, <3>1
      <4>. QED
        BY <2>1, <2>2, <4>1
    <3>2. ASSUME NEW r \in labels', t = r.tag PROVE r \in Left(q) \/ t \in Fresh(q)
      <4>1. CASE r \notin Left(q)
        <5>1. PICK u \in Fresh(q) : r = [tag |-> u, by |-> q]
          BY <1>1, <4>1
        <5>. QED
          BY <2>2, <3>2, <5>1
      <4>. QED
        BY <4>1
    <3>3. Left(q) \subseteq labels'
      BY <1>1
    <3>. QED
      BY <2>1, <3>1, <3>2, <3>3
  <2>. QED
    BY <2>3
<1>7. PICK a : a = [request[q] EXCEPT !.at = "tell"]
  OBVIOUS
<1>8. /\ a \in LabelAsks /\ a.at = "tell" /\ a.op = request[q].op
      /\ a.ids = request[q].ids /\ a.read = request[q].read /\ a.gone = request[q].gone
  BY <1>2, <1>7 DEF LabelAsks
<1>9. request' = [request EXCEPT ![q] = a]
  BY <1>1, <1>2, <1>7
<1>10. /\ request' \in [Requests -> LabelAsks] /\ request'[q] = a
       /\ \A p \in Requests \ {q} : request'[p] = request[p]
  BY <1>2, <1>8, <1>9
<1>11. Left(q) \subseteq labels
  BY DEF Left
<1>. QED
  BY <1>1, <1>2, <1>3, <1>4, <1>5, <1>6, <1>8, <1>10, <1>11

\* Without a crossing a commit leaves what its request comes to.
LEMMA CommitComesTo ==
  ASSUME LabelInv, NEW q \in Requests, Commit(q), ~crossed
  PROVE  /\ request[q].op = "add" => /\ HeldLabels' = HeldLabels \cup request[q].ids
                                     /\ HeldLabels' = HeldLabels \cup Fresh(q)
                                     /\ \A t \in Fresh(q) : t \notin HeldLabels
         /\ request[q].op = "set" => HeldLabels' = request[q].ids
         /\ request[q].op = "remove" => /\ HeldLabels' = HeldLabels \ request[q].ids
                                        /\ request[q].read = request[q].ids \cap HeldLabels
         /\ request[q].op /= "add" => AtWork = {q}
<1>1. RequestIsCurrent(q) /\ q \in AtWork /\ request[q].at = "insert"
  BY CommitFacts, LabelParts DEF AsksOK
<1>2. HeldLabels' = {r.tag : r \in Left(q)} \cup Fresh(q)
           /\ \A r \in Left(q) : r.tag \notin Fresh(q)
  BY CommitFacts
<1>3. \A t : t \in HeldLabels <=> \E r \in labels : t = r.tag
  BY DEF HeldLabels
<1>4. CASE request[q].op = "add"
  <2>1. Left(q) = labels /\ Fresh(q) = request[q].ids \ request[q].read
             /\ request[q].read \subseteq HeldLabels
    BY <1>1, <1>4 DEF RequestIsCurrent, Left, Fresh
  <2>2. HeldLabels' = HeldLabels \cup Fresh(q) /\ \A t \in Fresh(q) : t \notin HeldLabels
    BY <1>2, <1>3, <2>1
  <2>. QED
    BY <1>4, <2>1, <2>2
<1>5. CASE request[q].op = "set"
  <2>1. Left(q) = {} /\ Fresh(q) = request[q].ids /\ AtWork = {q}
    BY <1>1, <1>5 DEF RequestIsCurrent, Left, Fresh, Doomed
  <2>. QED
    BY <1>2, <1>5, <2>1
<1>6. CASE request[q].op = "remove"
  <2>1. /\ request[q].gone = {r \in labels : r.tag \in request[q].ids} /\ Fresh(q) = {}
             /\ AtWork = {q}
        /\ request[q].read = request[q].ids \cap HeldLabels
    BY <1>1, <1>6 DEF RequestIsCurrent, Fresh, Doomed
  <2>2. Left(q) = {r \in labels : r.tag \notin request[q].ids}
    BY <2>1 DEF Left
  <2>3. HeldLabels' = HeldLabels \ request[q].ids
    BY <1>2, <1>3, <2>1, <2>2
  <2>. QED
    BY <1>6, <2>1, <2>3
<1>. QED
  BY <1>4, <1>5, <1>6, CommitFacts

\* A commit keeps the labels and the log.
LEMMA CommitBooks ==
  ASSUME LabelInv, NEW q \in Requests, Commit(q)
  PROVE  BooksOK' /\ TagsOK' /\ Existing' = Existing
<1>1. BooksOK /\ AsksOK /\ TagsOK
  BY LabelParts
<1>2. UNCHANGED <<tagRow, seen, untold, crossed, stops, changes>>
  BY CommitFacts
<1>3. TagsOK' /\ Existing' = Existing
  BY <1>1, <1>2 DEF Existing, TagsOK, LiveNamesDiffer, Live
<1>4. labels' \subseteq LabelRows /\ HeldLabels' \subseteq Existing
  <2>1. \A t \in Fresh(q) : [tag |-> t, by |-> q] \in LabelRows
    BY CommitFacts DEF LabelRows
  <2>2. {r.tag : r \in Left(q)} \subseteq Existing
    BY <1>1, CommitFacts DEF BooksOK, HeldLabels
  <2>. QED
    BY <1>1, <2>1, <2>2, CommitFacts DEF BooksOK
<1>5. \A r, s \in labels' : r.tag = s.tag => r = s
  <2>1. \A r, s \in Left(q) : r.tag = s.tag => r = s
    BY <1>1, CommitFacts DEF BooksOK
  <2>2. \A t : [tag |-> t, by |-> q].tag = t
    OBVIOUS
  <2>3. \A r \in labels' : r \in Left(q) \/ (r.tag \in Fresh(q) /\ r = [tag |-> r.tag, by |-> q])
    BY <2>2, CommitFacts
  <2>. QED
    BY <2>1, <2>3, CommitFacts
<1>6. audit' \in [Tags -> [on : Nat, off : Nat]]
  <2>1. ASSUME NEW t \in Tags PROVE Counted(q, t) \in [on : Nat, off : Nat]
    <3>1. audit[t].on \in Nat /\ audit[t].off \in Nat
      BY <1>1 DEF BooksOK
    <3>. QED
      BY <3>1 DEF Counted
  <2>. QED
    BY <2>1, CommitFacts
<1>7. serial' \subseteq Tags
  BY <1>1, CommitFacts DEF BooksOK, Serially
<1>8. replaced' \in BOOLEAN
  BY <1>1, CommitFacts DEF BooksOK
<1>9. LabelsAddUp'
  <2>. SUFFICES ASSUME ~crossed PROVE HeldLabels' = serial'
    BY <1>2 DEF LabelsAddUp
  <2>1. HeldLabels = serial /\ serial' = Serially(q) /\ request[q].op \in {"add", "remove", "set"}
    BY <1>1, CommitFacts DEF BooksOK, LabelsAddUp
  <2>. QED
    BY <2>1, CommitComesTo DEF Serially
<1>10. EntriesAddUp'
  <2>. SUFFICES ASSUME ~crossed, ~replaced', NEW t \in Tags
       PROVE  audit'[t].on = audit'[t].off + (IF t \in HeldLabels' THEN 1 ELSE 0)
    BY <1>2 DEF EntriesAddUp
  <2>1. ~replaced /\ request[q].op \in {"add", "remove"}
    BY CommitFacts
  <2>2. audit[t].on = audit[t].off + (IF t \in HeldLabels THEN 1 ELSE 0)
    BY <1>1, <2>1 DEF BooksOK, EntriesAddUp
  <2>3. audit[t].on \in Nat /\ audit[t].off \in Nat
    BY <1>1 DEF BooksOK
  <2>4. audit'[t] = Counted(q, t)
    BY CommitFacts
  <2>5. CASE request[q].op = "add"
    <3>1. audit'[t].on = audit[t].on + (IF t \in Fresh(q) THEN 1
               ELSE 0) /\ audit'[t].off = audit[t].off
      BY <2>3, <2>4, <2>5 DEF Counted
    <3>2. (t \in HeldLabels' <=> t \in HeldLabels \/ t \in Fresh(q)) /\ (t \in Fresh(q)
               => t \notin HeldLabels)
      BY <2>5, CommitComesTo
    <3>. QED
      BY <2>2, <2>3, <3>1, <3>2
  <2>6. CASE request[q].op = "remove"
    <3>1. audit'[t].off = audit[t].off + (IF t \in request[q].read THEN 1
               ELSE 0) /\ audit'[t].on = audit[t].on
      BY <2>3, <2>4, <2>6 DEF Counted
    <3>2. /\ t \in HeldLabels' <=> t \in HeldLabels /\ t \notin request[q].ids
          /\ t \in request[q].read <=> t \in HeldLabels /\ t \in request[q].ids
      BY <2>6, CommitComesTo
    <3>. QED
      BY <2>2, <2>3, <3>1, <3>2
  <2>. QED
    BY <2>1, <2>5, <2>6
<1>. QED
  BY <1>1, <1>2, <1>3, <1>4, <1>5, <1>6, <1>7, <1>8, <1>9, <1>10 DEF BooksOK

\* A commit keeps the invariant.
LEMMA CommitKeeps ==
  ASSUME LabelInv, NEW q \in Requests, Commit(q)
  PROVE  LabelInv'
<1>1. BooksOK /\ AsksOK /\ TagsOK /\ EventsCatchUp
  BY LabelParts
<1>2. BooksOK' /\ TagsOK' /\ Existing' = Existing
  BY CommitBooks
<1>3. crossed' = crossed /\ seen' = seen /\ untold' = untold /\ q \in AtWork /\ request[q].at = "insert"
  BY CommitFacts
<1>4. /\ request' \in [Requests -> LabelAsks] /\ request'[q].at = "tell"
      /\ request'[q].op = request[q].op /\ request'[q].ids = request[q].ids
      /\ request'[q].read = request[q].read /\ request'[q].gone = request[q].gone
      /\ \A p \in Requests \ {q} : request'[p] = request[p]
  BY CommitFacts
<1>5. AtWork' = AtWork /\ Telling' = Telling \cup {q} /\ q \notin Telling
           /\ Telling \subseteq AtWork
  BY <1>3, <1>4 DEF AtWork, Telling
<1>6. ~crossed => \A p \in AtWork : p /= q => request[p].op = "add" /\ request[q].op = "add"
  <2>1. \A p \in AtWork : RequestIsCurrent(p) /\ p \in Requests
    BY <1>1 DEF AsksOK, AtWork
  <2>. QED
    BY <1>3, <2>1 DEF RequestIsCurrent
<1>7. ASSUME NEW p \in Requests PROVE RequestIsCurrent(p)'
  <2>1. RequestIsCurrent(p)
    BY <1>1 DEF AsksOK
  <2>2. CASE p = q
    <3>1. ~crossed /\ request[q].op = "add" => HeldLabels \subseteq HeldLabels'
      BY CommitComesTo
    <3>. QED
      BY <1>2, <1>3, <1>4, <1>5, <2>1, <2>2, <3>1 DEF RequestIsCurrent
  <2>3. CASE p /= q
    <3>1. request'[p] = request[p]
      BY <1>4, <2>3
    <3>2. p \in AtWork /\ ~crossed => request[p].op = "add" /\ HeldLabels \subseteq HeldLabels'
      BY <1>6, <2>3, CommitComesTo
    <3>. QED
      BY <1>2, <1>3, <1>5, <2>1, <3>1, <3>2 DEF RequestIsCurrent
  <2>. QED
    BY <2>2, <2>3
<1>8. \A p \in Requests : Fresh(p)' = Fresh(p)
  BY <1>4 DEF Fresh
<1>9. EventsCatchUp'
  <2>. SUFFICES ASSUME ~crossed' PROVE EventsCatchUp'
    BY DEF EventsCatchUp
  <2>1. ~crossed
    BY <1>3
  <2>2. CASE request[q].op = "add"
    <3>1. \A p \in Telling : request[p].op = "add" /\ p \in Requests
      BY <1>5, <1>6, <2>1 DEF Telling
    <3>2. /\ HeldLabels \ untold = (seen \cup UNION {Fresh(p) : p \in Telling}) \ untold
          /\ \A p \in Telling : Fresh(p) \subseteq HeldLabels
      BY <1>1, <2>1, <3>1 DEF EventsCatchUp
    <3>3. \A t : t \in UNION {Fresh(p) : p \in Telling}' <=> t \in UNION {Fresh(p) : p \in Telling} \/ t \in Fresh(q)
      <4>1. \A t : t \in UNION {Fresh(p) : p \in Telling}' <=> \E p \in Telling' : t \in Fresh(p)'
        OBVIOUS
      <4>2. \A t : t \in UNION {Fresh(p) : p \in Telling} <=> \E p \in Telling : t \in Fresh(p)
        OBVIOUS
      <4>3. \A p \in Telling' : Fresh(p)' = Fresh(p)
        BY <1>5, <1>8, <3>1
      <4>. QED
        BY <1>5, <4>1, <4>2, <4>3
    <3>4. HeldLabels' = HeldLabels \cup Fresh(q)
      BY <2>1, <2>2, CommitComesTo
    <3>5. HeldLabels' \ untold' = (seen' \cup UNION {Fresh(p) : p \in Telling}') \ untold'
      BY <1>3, <3>2, <3>3, <3>4
    <3>6. \A p \in Telling' : request'[p].op = "add" /\ Fresh(p)' \subseteq HeldLabels'
      BY <1>4, <1>5, <1>8, <2>2, <3>1, <3>2, <3>4
    <3>. QED
      BY <3>5, <3>6 DEF EventsCatchUp
  <2>3. CASE request[q].op /= "add"
    <3>1. AtWork = {q} /\ Telling = {} /\ Telling' = {q}
      BY <1>5, <2>1, <2>3, CommitComesTo
    <3>2. HeldLabels \ untold = (seen \cup UNION {Fresh(p) : p \in {}}) \ untold
      BY <1>1, <2>1, <3>1 DEF EventsCatchUp
    <3>3. HeldLabels \ untold = seen \ untold
      BY <3>2
    <3>4. /\ request'[q].op = "set" => HeldLabels' = request'[q].ids
          /\ request'[q].op = "remove"
               => /\ HeldLabels' \cap request'[q].ids = {}
                  /\ HeldLabels' \ untold' = (seen' \ request'[q].ids) \ untold'
          /\ request'[q].op /= "add"
      BY <1>3, <1>4, <2>1, <2>3, <3>3, CommitComesTo
    <3>. QED
      BY <3>1, <3>4 DEF EventsCatchUp
  <2>. QED
    BY <2>2, <2>3
<1>10. AsksOK'
  BY <1>4, <1>7 DEF AsksOK
<1>. QED
  BY <1>2, <1>9, <1>10, LabelParts, PTL

\* What the end of a committed request makes of the listeners' labels.
Heard(q) ==
  /\ seen' \subseteq Tags /\ untold' \subseteq Tags
  /\ \A t : t \notin untold' =>
       /\ request[q].op = "add" =>
            \/ t \in Fresh(q) /\ t \in seen'
            \/ t \notin Fresh(q) /\ t \notin untold /\ (t \in seen' <=> t \in seen)
       /\ request[q].op = "set" => (t \in seen' <=> t \in request[q].ids)
       /\ request[q].op = "remove" =>
            \/ t \in request[q].ids /\ t \notin seen'
            \/ t \notin request[q].ids /\ t \notin untold /\ (t \in seen' <=> t \in seen)

\* Told or not, a listener knows of every label but those nobody was told of.
LEMMA HeardOf ==
  ASSUME LabelInv, NEW q \in Requests, TellLabels(q) \/ Stop(q), request[q].at = "tell"
  PROVE  Heard(q)
<1>1. seen \subseteq Tags /\ untold \subseteq Tags /\ request \in [Requests -> LabelAsks]
           /\ RequestIsCurrent(q) /\ q \in AtWork
  BY LabelParts DEF BooksOK, AsksOK, AtWork
<1>2. request[q].op \in {"add", "remove", "set"} /\ request[q].ids \subseteq Tags
           /\ Fresh(q) \subseteq Tags
  BY <1>1 DEF RequestIsCurrent, LabelAsks, Fresh
<1>3. CASE TellLabels(q)
  <2>1. /\ seen' = CASE request[q].op = "add" -> seen \cup Fresh(q)
                     [] request[q].op = "set" -> request[q].ids
                     [] OTHER -> seen \ request[q].ids
        /\ untold' = untold \ ToldBy(q)
    BY <1>3 DEF TellLabels
  <2>. QED
    BY <1>1, <1>2, <2>1 DEF Heard, ToldBy
<1>4. CASE Stop(q)
  <2>1. seen' = seen /\ untold' = untold \cup ToldBy(q)
    BY <1>4 DEF Stop
  <2>. QED
    BY <1>1, <1>2, <2>1 DEF Heard, ToldBy
<1>. QED
  BY <1>3, <1>4

\* The listeners are told, or never will be.
LEMMA TellKeeps ==
  ASSUME LabelInv, NEW q \in Requests, TellLabels(q) \/ Stop(q), request[q].at = "tell"
  PROVE  LabelInv'
<1>1. BooksOK /\ AsksOK /\ TagsOK /\ EventsCatchUp
  BY LabelParts
<1>2. /\ Ended(q, "done") \/ Ended(q, "failed")
      /\ UNCHANGED <<tagRow, labels, audit, serial, crossed, replaced, changes>>
      /\ stops' = stops \/ (stops < MaxStops /\ stops' = stops + 1)
  BY DEF TellLabels, Stop
<1>3. TagsOK' /\ Existing' = Existing /\ HeldLabels' = HeldLabels
  BY <1>1, <1>2 DEF Existing, HeldLabels, TagsOK, LiveNamesDiffer, Live
<1>4. PICK a, at : at \in {"done", "failed"} /\ Ended(q, at) /\ a = [Idle EXCEPT !.at = at]
  BY <1>2
<1>5. a \in LabelAsks /\ a.at \in {"done", "failed"}
  BY <1>4, IdleFacts
<1>6. request \in [Requests -> LabelAsks] /\ RequestIsCurrent(q) /\ q \in AtWork /\ q \in Telling
  BY <1>1 DEF AsksOK, AtWork, Telling
<1>7. request' = [request EXCEPT ![q] = a]
  BY <1>4 DEF Ended
<1>8. /\ request' \in [Requests -> LabelAsks] /\ request'[q] = a
      /\ \A p \in Requests \ {q} : request'[p] = request[p]
  BY <1>5, <1>6, <1>7
<1>9. AtWork' = AtWork \ {q} /\ Telling' = Telling \ {q} /\ Telling \subseteq AtWork
  BY <1>5, <1>8 DEF AtWork, Telling
<1>10. request[q].op \in {"add", "remove", "set"} /\ request[q].ids \subseteq Tags
            /\ Fresh(q) \subseteq Tags
  BY <1>6 DEF RequestIsCurrent, LabelAsks, Fresh
<1>11. Heard(q)
  BY HeardOf
<1>12. BooksOK'
  <2>1. stops' \in 0..MaxStops
    BY <1>1, <1>2, LabelsAssumption DEF BooksOK
  <2>2. seen' \subseteq Tags /\ untold' \subseteq Tags
    BY <1>11 DEF Heard
  <2>. QED
    BY <1>1, <1>2, <1>3, <2>1, <2>2 DEF BooksOK, LabelsAddUp, EntriesAddUp
<1>13. ASSUME NEW p \in Requests PROVE RequestIsCurrent(p)'
  <2>1. CASE p = q
    BY <1>5, <1>8, <1>9, <2>1 DEF RequestIsCurrent
  <2>2. CASE p /= q
    <3>1. request'[p] = request[p] /\ RequestIsCurrent(p) /\ (p \in AtWork' <=> p \in AtWork)
      BY <1>1, <1>8, <1>9, <2>2 DEF AsksOK
    <3>2. Doomed(p)' = Doomed(p)
      BY <1>2, <3>1 DEF Doomed
    <3>3. AtWork = {p} => FALSE
      BY <1>6, <2>2
    <3>. QED
      BY <1>2, <1>3, <3>1, <3>2, <3>3 DEF RequestIsCurrent
  <2>. QED
    BY <2>1, <2>2
<1>14. AsksOK'
  BY <1>8, <1>13 DEF AsksOK
<1>15. EventsCatchUp'
  <2>. SUFFICES ASSUME ~crossed' PROVE EventsCatchUp'
    BY DEF EventsCatchUp
  <2>1. ~crossed
    BY <1>2
  <2>2. CASE request[q].op = "add"
    <3>1. \A p \in Telling : request[p].op = "add"
      <4>1. \A p \in AtWork : RequestIsCurrent(p) /\ request[p].op \in {"add", "remove", "set"}
        BY <1>1 DEF AsksOK, AtWork, RequestIsCurrent
      <4>. QED
        BY <1>6, <1>9, <2>1, <2>2, <4>1 DEF RequestIsCurrent
    <3>2. /\ HeldLabels \ untold = (seen \cup UNION {Fresh(p) : p \in Telling}) \ untold
          /\ \A p \in Telling : Fresh(p) \subseteq HeldLabels
      BY <1>1, <2>1, <3>1 DEF EventsCatchUp
    <3>3. \A p \in Telling' : request'[p] = request[p] /\ Fresh(p)' = Fresh(p) /\ p \in Telling
      BY <1>8, <1>9 DEF Fresh, Telling
    <3>4. HeldLabels' \ untold' = (seen' \cup UNION {Fresh(p) : p \in Telling}') \ untold'
      <4>1. \A t : t \in UNION {Fresh(p) : p \in Telling}' <=> \E p \in Telling' : t \in Fresh(p)'
        OBVIOUS
      <4>2. \A t : t \in UNION {Fresh(p) : p \in Telling} <=> \E p \in Telling : t \in Fresh(p)
        OBVIOUS
      <4>3. \A t : t \in UNION {Fresh(p) : p \in Telling} <=>
                   t \in UNION {Fresh(p) : p \in Telling}' \/ t \in Fresh(q)
        BY <1>6, <1>9, <3>3, <4>1, <4>2
      <4>. QED
        BY <1>3, <1>6, <1>11, <2>2, <3>2, <4>3 DEF Heard
    <3>5. \A p \in Telling' : request'[p].op = "add" /\ Fresh(p)' \subseteq HeldLabels'
      BY <1>3, <3>1, <3>2, <3>3
    <3>. QED
      BY <3>4, <3>5 DEF EventsCatchUp
  <2>3. CASE request[q].op /= "add"
    <3>1. AtWork = {q} /\ Telling' = {}
      BY <1>6, <1>9, <2>1, <2>3 DEF RequestIsCurrent
    <3>2. /\ request[q].op = "set" => HeldLabels = request[q].ids
          /\ request[q].op = "remove"
               => /\ HeldLabels \cap request[q].ids = {}
                  /\ HeldLabels \ untold = (seen \ request[q].ids) \ untold
      BY <1>1, <1>6, <2>1 DEF EventsCatchUp
    <3>3. HeldLabels \ untold' = seen' \ untold'
      BY <1>10, <1>11, <2>3, <3>2 DEF Heard
    <3>4. HeldLabels' \ untold' = (seen' \cup UNION {Fresh(p) : p \in Telling}') \ untold'
      BY <1>3, <3>1, <3>3
    <3>. QED
      BY <3>1, <3>4 DEF EventsCatchUp
  <2>. QED
    BY <2>2, <2>3
<1>. QED
  BY <1>3, <1>12, <1>14, <1>15, LabelParts, PTL

-----------------------------------------------------------------------------
\* There may be tags, but no customer has one.
LEMMA LabelInitially == LabelInit => LabelInv
<1>. SUFFICES ASSUME LabelInit PROVE LabelInv
  OBVIOUS
<1>1. /\ tagRow \in [Tags -> {NoTag} \cup {TagNamed(n) : n \in Names}] /\ labels = {}
      /\ \A t \in Existing : ~NamedAlready(tagRow[t].name, t)
      /\ audit = [t \in Tags |-> [on |-> 0, off |-> 0]] /\ request = [q \in Requests |-> Idle]
      /\ serial = {} /\ seen = {} /\ untold = {} /\ crossed = FALSE /\ replaced = FALSE /\ stops = 0
           /\ changes = 0
  BY DEF LabelInit
<1>2. HeldLabels = {}
  BY <1>1 DEF HeldLabels
<1>3. TagsOK
  <2>1. tagRow \in [Tags -> TagRows \cup {NoTag}]
    BY <1>1, NoTagFacts
  <2>2. LiveNamesDiffer
    BY <1>1 DEF LiveNamesDiffer, NamedAlready, Live
  <2>. QED
    BY <1>1, <2>1, <2>2, LabelsAssumption DEF TagsOK
<1>4. BooksOK
  <2>1. audit \in [Tags -> [on : Nat, off : Nat]] /\ \A t \in Tags : audit[t].on = 0
             /\ audit[t].off = 0
    BY <1>1
  <2>2. 0 \in 0..MaxStops
    BY LabelsAssumption
  <2>3. LabelsAddUp /\ EntriesAddUp
    BY <1>1, <1>2, <2>1 DEF LabelsAddUp, EntriesAddUp
  <2>. QED
    BY <1>1, <1>2, <2>1, <2>2, <2>3 DEF BooksOK
<1>5. \A q \in Requests : request[q] = Idle /\ request[q].at = "new"
  BY <1>1, IdleFacts
<1>6. AsksOK
  BY <1>1, <1>5, IdleFacts DEF AsksOK, RequestIsCurrent, AtWork
<1>7. Telling = {}
  BY <1>5 DEF Telling
<1>8. EventsCatchUp
  BY <1>1, <1>2, <1>7 DEF EventsCatchUp
<1>. QED
  BY <1>3, <1>4, <1>6, <1>8, LabelParts

\* Nothing happens.
LEMMA LabelRests ==
  ASSUME LabelInv, UNCHANGED labelVars
  PROVE  LabelInv'
<1>1. BooksOK /\ AsksOK /\ TagsOK /\ EventsCatchUp
  BY LabelParts
<1>2. /\ HeldLabels' = HeldLabels /\ AtWork' = AtWork /\ Telling' = Telling
           /\ Existing' = Existing
      /\ \A q \in Requests : Doomed(q)' = Doomed(q) /\ Fresh(q)' = Fresh(q)
  BY DEF labelVars, HeldLabels, AtWork, Telling, Doomed, Fresh, Existing
<1>3. TagsOK'
  BY <1>1, <1>2 DEF labelVars, TagsOK, LiveNamesDiffer, Live
<1>4. BooksOK'
  BY <1>1, <1>2 DEF labelVars, BooksOK, LabelsAddUp, EntriesAddUp
<1>5. AsksOK'
  BY <1>1, <1>2 DEF labelVars, AsksOK, RequestIsCurrent
<1>6. EventsCatchUp'
  <2>1. UNION {Fresh(p) : p \in Telling}' = UNION {Fresh(p) : p \in Telling}
    BY <1>2 DEF Telling
  <2>. QED
    BY <1>1, <1>2, <2>1 DEF labelVars, EventsCatchUp, Telling
<1>. QED
  BY <1>3, <1>4, <1>5, <1>6, LabelParts, PTL

\* Every step keeps the invariant.
LEMMA LabelStep == LabelInv /\ [LabelNext]_labelVars => LabelInv'
<1>. SUFFICES ASSUME LabelInv, LabelNext PROVE LabelInv'
  BY LabelRests
<1>1. ASSUME NEW q \in Requests, NEW ids \in SUBSET Tags,
             AddCustomerTags(q, ids) \/ RemoveCustomerTags(q, ids) \/ ReplaceCustomerTags(q, ids)
      PROVE  LabelInv'
  <2>1. CASE AddCustomerTags(q, ids)
    <3>1. PICK next \in {"done",
               "insert"} : next = IF ids \subseteq HeldLabels THEN "done" ELSE "insert"
      OBVIOUS
    <3>. QED
      BY <2>1, <3>1, AsksKeep DEF AddCustomerTags
  <2>2. CASE RemoveCustomerTags(q, ids)
    BY <2>2, AsksKeep DEF RemoveCustomerTags
  <2>3. CASE ReplaceCustomerTags(q, ids)
    BY <2>3, AsksKeep DEF ReplaceCustomerTags
  <2>. QED
    BY <1>1, <2>1, <2>2, <2>3
<1>2. ASSUME NEW q \in Requests,
             \/ \E t \in Tags, n \in Names : CreateTag(q, t, n) \/ RenameTag(q, t, n)
             \/ StoreTag(q) \/ LabelSnapshot(q) \/ Lock(q) \/ Commit(q) \/ RollBack(q)
                  \/ TellLabels(q) \/ Stop(q)
      PROVE  LabelInv'
  <2>1. CASE TellLabels(q) \/ Stop(q) \/ RollBack(q)
    <3>1. RollBack(q) => request[q].at /= "tell"
      BY DEF RollBack
    <3>2. TellLabels(q) => request[q].at = "tell"
      BY DEF TellLabels
    <3>. QED
      BY <2>1, <3>1, <3>2, StopsKeep, TellKeeps
  <2>. QED
    BY <1>2, <2>1, MakesKeep, StoreKeeps, SnapshotKeeps, LockKeeps, CommitKeeps
<1>. QED
  BY <1>1, <1>2, ChangeKeeps DEF LabelNext

\* A customer's labels are what the log's entries come to, live tags differ by name, and once all is
\* told the listeners have the labels that are stored, but for requests that crossed and for the
\* labels of a change that was committed and never told, however requests overlap and wherever one
\* fails (LabelInv).
THEOREM LabelsAreKept == LabelSpec => []LabelInv
BY LabelInitially, LabelStep, PTL DEF LabelSpec

-----------------------------------------------------------------------------
(* Channel connections.                                                     *)

\* What the invariant promises of the rows.
ConnPromises ==
  /\ OneEnabledUnlessRaced /\ VerifiedWereAccepted /\ DisabledStaysOff /\ CountersAddUp

\* A connection that was not made.
LEMMA UnmadeFacts ==
  /\ AnySecret \in Secrets
  /\ Unmade \in ConnRows /\ ~Unmade.on /\ ~Unmade.verified /\ ~Unmade.made
       /\ Unmade.errors = 0 /\ Unmade.received = 0
  /\ \A s \in Secrets : /\ Created(s) \in ConnRows /\ Created(s).made /\ Created(s).on
                         /\ ~Created(s).verified /\ Created(s).secret = s
                         /\ Created(s).errors = 0 /\ Created(s).received = 0
  /\ Unasked \in AskRows /\ Unasked.at = "new" /\ Unasked.stale = {} /\ ~Unasked.yes
  /\ Done \in AskRows /\ Done.at = "done"
<1>1. AnySecret \in Secrets
  BY ConnectionsAssumption DEF AnySecret
<1>2. Unmade \in ConnRows /\ ~Unmade.on /\ ~Unmade.verified /\ ~Unmade.made
           /\ Unmade.errors = 0 /\ Unmade.received = 0
  BY <1>1 DEF Unmade, ConnRows
<1>3. Unasked \in AskRows /\ Unasked.at = "new" /\ Unasked.stale = {} /\ ~Unasked.yes
      /\ Done \in AskRows /\ Done.at = "done"
  BY <1>1, <1>2 DEF Unasked, AskRows, Done
<1>4. ASSUME NEW s \in Secrets
      PROVE  /\ Created(s) \in ConnRows /\ Created(s).made /\ Created(s).on
             /\ ~Created(s).verified /\ Created(s).secret = s
             /\ Created(s).errors = 0 /\ Created(s).received = 0
  <2>1. ~Created(s).verified
    BY <1>1, Zenon DEF Created, Unmade
  <2>. QED
    BY <1>1, <2>1 DEF Created, Unmade, ConnRows
<1>. QED
  BY <1>1, <1>2, <1>3, <1>4

\* What a write outdates is marked in the copies others hold.
LEMMA OutdatedFacts ==
  ASSUME NEW a \in AskRows, NEW cols \in SUBSET Columns, NEW b, b = Outdated(a, cols)
  PROVE  /\ b \in AskRows /\ b.stale = a.stale \cup cols /\ b.at = a.at /\ b.op = a.op
              /\ b.row = a.row
         /\ b.copy = a.copy /\ b.flag = a.flag /\ b.secret = a.secret /\ b.yes = a.yes
<1>1. b = [a EXCEPT !.stale = a.stale \cup cols] /\ a.stale \cup cols \in SUBSET Columns
  BY DEF Outdated, AskRows
<1>. QED
  BY <1>1 DEF AskRows

\* There is no connection, or a new one.
LEMMA ConnInitially == ConnInit => ConnInv
<1>. SUFFICES ASSUME ConnInit PROVE ConnInv
  OBVIOUS
<1>1. /\ accepted = Secrets /\ good = {} /\ off = {} /\ ask = [k \in Askers |-> Unasked]
      /\ fails = [i \in Rows |-> 0] /\ got = [i \in Rows |-> 0] /\ lost = [i \in Rows |-> 0]
      /\ overwritten = FALSE
  BY DEF ConnInit
<1>2. /\ conn \in [Rows -> ConnRows]
      /\ \A j \in Rows : /\ ~conn[j].verified /\ conn[j].errors = 0 /\ conn[j].received = 0
                         /\ ~conn[j].made => ~conn[j].on
      /\ \A i, j \in Rows : conn[i].on /\ conn[j].on => i = j
  <2>1. CASE conn = [i \in Rows |-> Unmade]
    BY <2>1, UnmadeFacts
  <2>2. CASE conn /= [i \in Rows |-> Unmade]
    <3>1. PICK i \in Rows, s \in Secrets : conn = [j \in Rows |-> IF j = i THEN Created(s) ELSE Unmade]
      BY <2>2 DEF ConnInit
    <3>2. /\ conn[i] = Created(s) /\ \A j \in Rows : j /= i => conn[j] = Unmade
          /\ conn \in [Rows -> ConnRows]
      BY <3>1, UnmadeFacts
    <3>. QED
      BY <3>2, UnmadeFacts
  <2>. QED
    BY <2>1, <2>2
<1>3. ConnTypeOK
  BY <1>1, <1>2, UnmadeFacts DEF ConnTypeOK
<1>4. Pending = {}
  BY <1>1, UnmadeFacts DEF Pending
<1>5. \A k \in Askers : CopyIsCurrent(k)
  BY <1>4 DEF CopyIsCurrent
<1>6. ConnPromises
  BY <1>1, <1>2 DEF ConnPromises, OneEnabledUnlessRaced, VerifiedWereAccepted,
     DisabledStaysOff, CountersAddUp
<1>. QED
  BY <1>3, <1>5, <1>6 DEF ConnInv, ConnPromises

\* A request reads its row: its copy is current.
LEMMA ReadsCurrent ==
  ASSUME ConnInv, NEW k \in Askers, NEW op \in {"create", "update", "enable", "disable",
         "verify", "bump"},
         NEW i \in Rows, NEW flag \in {"keep", "on", "off"}, NEW s \in Secrets, ReadsRow(k, op,
              i, flag, s),
         op /= "create" => conn[i].made, op = "update" => flag = "keep", op = "enable"
              => s = conn[i].secret,
         op = "create" => ~conn[i].made,
         op = "create" \/ (op = "enable" /\ ~conn[i].on) => ~ActiveExists(i)
  PROVE  ConnInv'
<1>. DEFINE at == IF op = "verify" THEN "platform" ELSE "write"
            a == [Unasked EXCEPT !.at = at, !.op = op, !.row = i, !.copy = conn[i],
                 !.flag = flag, !.secret = s]
<1>1. conn[i] \in ConnRows /\ at \in {"platform", "write"}
  BY DEF ConnInv, ConnTypeOK
<1>. HIDE DEF at
<1>2. /\ a \in AskRows /\ a.at \in {"platform", "write"} /\ a.op = op /\ a.row = i
           /\ a.copy = conn[i]
      /\ a.flag = flag /\ a.secret = s /\ ~a.yes /\ a.stale = {}
  BY <1>1, UnmadeFacts DEF AskRows
<1>3. /\ ask' = [ask EXCEPT ![k] = a] /\ conn' = conn /\ accepted' = accepted
           /\ good' = good /\ off' = off
      /\ fails' = fails /\ got' = got /\ lost' = lost /\ overwritten' = overwritten
  BY DEF ReadsRow, at
<1>. HIDE DEF a
<1>4. ask'[k] = a /\ (\A o \in Askers : o /= k => ask'[o] = ask[o])
           /\ ask' \in [Askers -> AskRows]
  BY <1>2, <1>3 DEF ConnInv, ConnTypeOK
<1>5. \A j \in Rows : ActiveExists(j)' <=> ActiveExists(j)
  BY <1>3 DEF ActiveExists
<1>6. ConnTypeOK'
  BY <1>3, <1>4 DEF ConnInv, ConnTypeOK
<1>7. CopyIsCurrent(k)'
  BY <1>2, <1>3, <1>4, <1>5 DEF CopyIsCurrent
<1>8. ASSUME NEW o \in Askers, o /= k PROVE CopyIsCurrent(o)'
  BY <1>3, <1>4, <1>5, <1>8 DEF ConnInv, CopyIsCurrent, Pending
<1>9. ConnPromises'
  BY <1>3 DEF ConnInv, ConnPromises, OneEnabledUnlessRaced, VerifiedWereAccepted,
     DisabledStaysOff, CountersAddUp
<1>. QED
  BY <1>6, <1>7, <1>8, <1>9 DEF ConnInv, ConnPromises

\* A request begins.
LEMMA ConnReads ==
  ASSUME ConnInv, NEW k \in Askers, NEW i \in Rows,
         \/ \E s \in Secrets : CreateChannel(k, i, s) \/ UpdateChannel(k, i, s)
         \/ EnableChannel(k, i) \/ DeleteChannel(k, i) \/ VerifyChannel(k, i) \/ BumpReceived(k,
              i)
  PROVE  ConnInv'
<1>1. conn[i] \in ConnRows /\ conn[i].secret \in Secrets /\ (conn[i].on => conn[i].made)
  BY DEF ConnInv, ConnTypeOK, ConnRows
<1>2. ASSUME NEW s \in Secrets, CreateChannel(k, i, s) PROVE ConnInv'
  BY <1>2, ReadsCurrent DEF CreateChannel, Claimed
<1>3. ASSUME NEW s \in Secrets, UpdateChannel(k, i, s) PROVE ConnInv'
  BY <1>3, ReadsCurrent DEF UpdateChannel
<1>4. ASSUME EnableChannel(k, i) PROVE ConnInv'
  BY <1>1, <1>4, ReadsCurrent DEF EnableChannel
<1>5. ASSUME DeleteChannel(k, i) PROVE ConnInv'
  BY <1>1, <1>5, ReadsCurrent DEF DeleteChannel
<1>6. ASSUME VerifyChannel(k, i) PROVE ConnInv'
  BY <1>1, <1>6, ReadsCurrent DEF VerifyChannel
<1>7. ASSUME BumpReceived(k, i) PROVE ConnInv'
  BY <1>1, <1>7, ReadsCurrent DEF BumpReceived
<1>. QED
  BY <1>2, <1>3, <1>4, <1>5, <1>6, <1>7

\* The platform answers a verification.
LEMMA ConnAnswers ==
  ASSUME ConnInv, NEW k \in Askers, PlatformAnswers(k)
  PROVE  ConnInv'
<1>. DEFINE yes == ask[k].copy.secret \in accepted
            a == [ask[k] EXCEPT !.at = "write", !.yes = yes]
<1>1. ask[k] \in AskRows /\ ask[k].copy.secret \in Secrets /\ ask[k].at = "platform"
  BY DEF ConnInv, ConnTypeOK, AskRows, ConnRows, PlatformAnswers
<1>2. /\ ask' = [ask EXCEPT ![k] = a] /\ conn' = conn /\ accepted' = accepted /\ off' = off
      /\ fails' = fails /\ got' = got /\ lost' = lost /\ overwritten' = overwritten
      /\ good' = IF yes THEN good \cup {ask[k].copy.secret} ELSE good
  BY DEF PlatformAnswers
<1>3. yes \in BOOLEAN
  OBVIOUS
<1>. HIDE DEF yes
<1>4. /\ a \in AskRows /\ a.at = "write" /\ a.op = ask[k].op /\ a.row = ask[k].row
           /\ a.copy = ask[k].copy
      /\ a.flag = ask[k].flag /\ a.secret = ask[k].secret /\ a.yes = yes /\ a.stale = ask[k].stale
  BY <1>1, <1>3 DEF AskRows
<1>. HIDE DEF a
<1>5. ask'[k] = a /\ (\A o \in Askers : o /= k => ask'[o] = ask[o])
           /\ ask' \in [Askers -> AskRows]
  BY <1>2, <1>4 DEF ConnInv, ConnTypeOK
<1>6. good \subseteq good' /\ good' \subseteq Secrets /\ (yes => ask[k].copy.secret \in good')
  BY <1>1, <1>2 DEF ConnInv, ConnTypeOK
<1>7. \A j : ActiveExists(j)' <=> ActiveExists(j)
  BY <1>2 DEF ActiveExists
<1>8. ConnTypeOK'
  BY <1>2, <1>5, <1>6 DEF ConnInv, ConnTypeOK
<1>9. CopyIsCurrent(k)'
  BY <1>1, <1>2, <1>4, <1>5, <1>6, <1>7 DEF ConnInv, CopyIsCurrent, Pending
<1>10. ASSUME NEW o \in Askers, o /= k PROVE CopyIsCurrent(o)'
  BY <1>2, <1>5, <1>6, <1>7, <1>10 DEF ConnInv, CopyIsCurrent, Pending
<1>11. ConnPromises'
  BY <1>2, <1>6 DEF ConnInv, ConnPromises, OneEnabledUnlessRaced, VerifiedWereAccepted,
     DisabledStaysOff, CountersAddUp
<1>. QED
  BY <1>8, <1>9, <1>10, <1>11 DEF ConnInv, ConnPromises

\* A message stands uncounted: nothing of the rows changes.
LEMMA BumpsSwallowed ==
  ASSUME ConnInv, NEW k \in Askers, NEW i \in Rows, BumpSwallowed(k, i)
  PROVE  ConnInv'
<1>1. /\ ask' = [ask EXCEPT ![k] = Done] /\ conn' = conn /\ good' = good /\ off' = off
      /\ got' = [got EXCEPT ![i] = got[i] + 1] /\ lost' = [lost EXCEPT ![i] = lost[i] + 1]
      /\ fails' = fails /\ overwritten' = overwritten
  BY DEF BumpSwallowed
<1>2. /\ ask'[k] = Done /\ (\A o \in Askers : o /= k => ask'[o] = ask[o])
      /\ ask' \in [Askers -> AskRows]
  BY <1>1, UnmadeFacts DEF ConnInv, ConnTypeOK
<1>3. conn[i].made
  BY DEF BumpSwallowed, ConnInv, ConnTypeOK, CopyIsCurrent, Pending
<1>4. got \in [Rows -> Nat] /\ lost \in [Rows -> Nat] /\ got[i] \in Nat /\ lost[i] \in Nat
  BY DEF ConnInv, ConnTypeOK
<1>5. /\ got' \in [Rows -> Nat] /\ lost' \in [Rows -> Nat]
      /\ got'[i] = got[i] + 1 /\ lost'[i] = lost[i] + 1
      /\ \A j \in Rows : j /= i => got'[j] = got[j] /\ lost'[j] = lost[j]
  BY <1>1, <1>4
<1>6. \A j : ActiveExists(j)' <=> ActiveExists(j)
  BY <1>1 DEF ActiveExists
<1>7. ConnTypeOK'
  BY <1>1, <1>2, <1>3, <1>5 DEF ConnInv, ConnTypeOK
<1>8. CopyIsCurrent(k)'
  BY <1>2, UnmadeFacts DEF CopyIsCurrent, Pending
<1>9. ASSUME NEW o \in Askers, o /= k PROVE CopyIsCurrent(o)'
  BY <1>1, <1>2, <1>6, <1>9 DEF ConnInv, CopyIsCurrent, Pending
<1>10. CountersAddUp'
  <2>. SUFFICES ASSUME ~overwritten', NEW j \in Rows
                PROVE  conn'[j].errors = fails'[j] /\ conn'[j].received + lost'[j] = got'[j]
    BY DEF CountersAddUp
  <2>1. conn[j].errors = fails[j] /\ conn[j].received + lost[j] = got[j]
    BY <1>1 DEF ConnInv, CountersAddUp
  <2>2. conn[j].received \in Nat /\ lost[j] \in Nat /\ got[j] \in Nat
    BY <1>4 DEF ConnInv, ConnTypeOK, ConnRows
  <2>3. CASE j = i
    BY <1>1, <1>5, <2>1, <2>2, <2>3
  <2>4. CASE j /= i
    BY <1>1, <1>5, <2>1, <2>4
  <2>. QED
    BY <2>3, <2>4
<1>11. OneEnabledUnlessRaced' /\ VerifiedWereAccepted' /\ DisabledStaysOff'
  BY <1>1 DEF ConnInv, OneEnabledUnlessRaced, VerifiedWereAccepted, DisabledStaysOff
<1>. QED
  BY <1>7, <1>8, <1>9, <1>10, <1>11 DEF ConnInv

\* What is written, by what was asked.
LEMMA WrittenFacts ==
  ASSUME NEW a \in AskRows, NEW r \in ConnRows, a.op /= "none", a.op \notin {"create"} => r.made
  PROVE  /\ Written(a, r) \in ConnRows /\ Written(a, r).made
         /\ a.op = "create" => /\ Written(a, r).on /\ ~Written(a, r).verified
                               /\ Written(a, r).errors = 0 /\ Written(a, r).received = 0
         /\ a.op \in {"update", "enable"} =>
              /\ (Written(a, r).on <=> (a.copy.on \/ a.flag = "on")) /\ Written(a,
                   r).secret = a.secret
              /\ Written(a, r).verified <=> (a.copy.verified /\ a.secret = a.copy.secret)
              /\ Written(a, r).errors = r.errors /\ Written(a, r).received = r.received
         /\ a.op = "disable" =>
              /\ ~Written(a, r).on /\ Written(a, r).verified = r.verified /\ Written(a,
                   r).secret = r.secret
              /\ Written(a, r).errors = r.errors /\ Written(a, r).received = r.received
         /\ a.op = "verify" =>
              /\ Written(a, r).on = r.on /\ Written(a, r).secret = r.secret /\ Written(a,
                   r).received = r.received
              /\ Written(a, r).verified <=> (a.yes \/ r.verified)
              /\ Written(a, r).errors = IF a.yes THEN 0 ELSE a.copy.errors + 1
         /\ a.op = "bump" =>
              /\ Written(a, r).on = r.on /\ Written(a, r).secret = r.secret /\ Written(a,
                   r).verified = r.verified
              /\ Written(a, r).errors = r.errors /\ Written(a, r).received = a.copy.received + 1
<1>1. a.copy \in ConnRows /\ a.secret \in Secrets /\ a.yes \in BOOLEAN
      /\ a.op \in {"none", "create", "update", "enable", "disable", "verify", "bump"}
  BY DEF AskRows
<1>2. CASE a.op = "create"
  BY <1>1, <1>2, UnmadeFacts DEF Written
<1>3. CASE a.op \in {"update", "enable"}
  BY <1>1, <1>3 DEF Written, Updated, ConnRows
<1>4. CASE a.op = "disable"
  BY <1>1, <1>4 DEF Written, Disabled, ConnRows
<1>5. CASE a.op = "verify"
  <2>1. Written(a, r) = Verified(a, r) /\ a.copy.errors + 1 \in Nat
    BY <1>1, <1>5 DEF Written, ConnRows
  <2>2. CASE a.yes
    <3>1. Written(a, r) = [r EXCEPT !.verified = TRUE, !.errors = 0]
      BY <2>1, <2>2 DEF Verified
    <3>2. PICK w : w = Written(a, r)
      OBVIOUS
    <3>3. /\ w \in ConnRows /\ w.made = r.made /\ w.on = r.on /\ w.secret = r.secret
          /\ w.received = r.received /\ w.errors = 0
      <4>1. w = [r EXCEPT !.verified = TRUE, !.errors = 0]
        BY <3>1, <3>2
      <4>2. w \in ConnRows
        BY <4>1 DEF ConnRows
      <4>3. w.made = r.made 
        BY <4>1 DEF ConnRows
      <4>4. w.on = r.on /\ w.secret = r.secret
        BY <4>1 DEF ConnRows
      <4>5. w.received = r.received /\ w.errors = 0
        BY <4>1 DEF ConnRows
      <4>. QED
        BY <4>2, <4>3, <4>4, <4>5
    <3>4. w.verified = TRUE
      BY <3>1, <3>2, Zenon DEF ConnRows
    <3>. QED
      BY <1>5, <2>2, <3>2, <3>3, <3>4
  <2>3. CASE ~a.yes
    <3>1. Written(a, r) = [r EXCEPT !.errors = a.copy.errors + 1]
      BY <2>1, <2>3 DEF Verified
    <3>. QED
      BY <1>5, <2>1, <2>3, <3>1 DEF ConnRows
  <2>. QED
    BY <2>2, <2>3
<1>6. CASE a.op = "bump"
  BY <1>1, <1>6 DEF Written, Received, ConnRows
<1>. QED
  BY <1>1, <1>2, <1>3, <1>4, <1>5, <1>6

\* A row is written: what others have read of it is outdated by what changed.
LEMMA OthersAreOutdated ==
  ASSUME ConnInv, NEW k \in Askers, NEW i \in Rows, NEW r \in ConnRows,
         conn' = [conn EXCEPT ![i] = r],
         conn[i].made => r.made, ~conn[i].made => r.on, ask' = DoneStaling(k, i, Touched(conn[i], r)), good' = good
  PROVE  ask' \in [Askers -> AskRows] /\ \A o \in Askers : CopyIsCurrent(o)'
<1>. DEFINE cols == Touched(conn[i], r)
<1>1. /\ conn[i] \in ConnRows /\ cols \in SUBSET Columns /\ ask \in [Askers -> AskRows]
      /\ "on" \notin cols => r.on = conn[i].on
      /\ "verified" \notin cols => r.verified = conn[i].verified
      /\ "secret" \notin cols => r.secret = conn[i].secret
      /\ "errors" \notin cols => r.errors = conn[i].errors
      /\ "received" \notin cols => r.received = conn[i].received
  BY DEF ConnInv, ConnTypeOK, Touched, Columns, ConnRows
<1>2. ask' = DoneStaling(k, i, cols)
  OBVIOUS
<1>. HIDE DEF cols
<1>3. conn'[i] = r /\ \A j \in Rows : j /= i => conn'[j] = conn[j]
  BY DEF ConnInv, ConnTypeOK
<1>4. ask'[k] = Done
  BY <1>2 DEF DoneStaling
<1>5. ASSUME NEW o \in Askers, o /= k PROVE ask'[o] \in AskRows /\ CopyIsCurrent(o)'
  <2>. DEFINE hit == o \in Pending /\ (ask[o].row = i \/ ("on" \in cols
              /\ ask[o].op \in {"create", "enable"}))
  <2>1. ask'[o] = IF hit THEN Outdated(ask[o], cols) ELSE ask[o]
    BY <1>2, <1>5 DEF DoneStaling
  <2>2. /\ ask[o] \in AskRows /\ ask'[o] \in AskRows
        /\ ask'[o].at = ask[o].at /\ ask'[o].op = ask[o].op /\ ask'[o].row = ask[o].row
        /\ ask'[o].copy = ask[o].copy /\ ask'[o].flag = ask[o].flag
             /\ ask'[o].secret = ask[o].secret
        /\ ask'[o].yes = ask[o].yes
             /\ ask'[o].stale = IF hit THEN ask[o].stale \cup cols ELSE ask[o].stale
    <3>1. ask[o] \in AskRows
      BY <1>1
    <3>2. CASE hit
      <4>1. ask'[o] = Outdated(ask[o], cols) /\ cols \in SUBSET Columns
        BY <1>1, <2>1, <3>2
      <4>. HIDE DEF hit
      <4>. QED
        BY <3>1, <3>2, <4>1, OutdatedFacts
    <3>3. CASE ~hit
      BY <2>1, <3>1, <3>3
    <3>. HIDE DEF hit
    <3>. QED
      BY <3>2, <3>3
  <2>. HIDE DEF hit
  <2>. SUFFICES ASSUME o \in Pending PROVE CopyIsCurrent(o)'
    BY <2>2 DEF CopyIsCurrent, Pending
  <2>3. CopyIsCurrent(o)
    BY DEF ConnInv
  <2>4. hit <=> (ask[o].row = i \/ ("on" \in cols /\ ask[o].op \in {"create", "enable"}))
    BY DEF hit
  <2>5. PICK j \in Rows : j = ask[o].row
    BY <2>3 DEF CopyIsCurrent
  <2>6. /\ (conn[j].made => conn'[j].made)
        /\ "on" \notin ask'[o].stale => conn'[j].on = conn[j].on
        /\ "verified" \notin ask'[o].stale => conn'[j].verified = conn[j].verified
        /\ "secret" \notin ask'[o].stale => conn'[j].secret = conn[j].secret
        /\ "errors" \notin ask'[o].stale => conn'[j].errors = conn[j].errors
        /\ "received" \notin ask'[o].stale => conn'[j].received = conn[j].received
    BY <1>1, <1>3, <2>2, <2>4, <2>5
  <2>7. ask[o].op \in {"create", "enable"} /\ "on" \notin ask'[o].stale =>
          (ActiveExists(j)' <=> ActiveExists(j))
    <3>. SUFFICES ASSUME ask[o].op \in {"create", "enable"}, "on" \notin ask'[o].stale
                  PROVE  ActiveExists(j)' <=> ActiveExists(j)
      OBVIOUS
    <3>1. r.on = conn[i].on
      BY <1>1, <2>2, <2>4
    <3>2. \A l \in Rows : conn'[l].on = conn[l].on
      BY <1>3, <3>1
    <3>. QED
      BY <3>2 DEF ActiveExists
  <2>8. ask[o].stale \subseteq ask'[o].stale
    BY <2>2
  <2>9. ask[o].op = "create" => "on" \in ask'[o].stale \/ ~conn'[j].made
    <3>1. ~conn[i].made => "on" \in cols
      BY <1>1 DEF ConnInv, ConnTypeOK
    <3>2. ask[o].op = "create" => "on" \in ask[o].stale \/ ~conn[j].made
      BY <2>3, <2>5 DEF CopyIsCurrent
    <3>. QED
      BY <1>3, <2>2, <2>4, <2>5, <3>1, <3>2
  <2>. QED
    BY <2>2, <2>3, <2>5, <2>6, <2>7, <2>8, <2>9 DEF CopyIsCurrent
<1>6. ask' \in [Askers -> AskRows]
  <2>1. DOMAIN ask' = Askers /\ ask' = [o \in Askers |-> ask'[o]]
    BY <1>2 DEF DoneStaling
  <2>. QED
    BY <1>4, <1>5, <2>1, UnmadeFacts
<1>7. CopyIsCurrent(k)'
  BY <1>4, UnmadeFacts DEF CopyIsCurrent, Pending
<1>. QED
  BY <1>5, <1>6, <1>7

\* Every answer is written: what it says is what was read, unless it was outdated.
LEMMA ConnWrites ==
  ASSUME ConnInv, NEW k \in Askers, WriteRow(k)
  PROVE  ConnInv'
<1>. DEFINE a == ask[k]
            r == Written(a, conn[a.row])
<1>1. /\ a \in AskRows /\ k \in Pending /\ CopyIsCurrent(k)
  BY DEF ConnInv, ConnTypeOK, WriteRow, Pending
<1>2. PICK i \in Rows : i = a.row
  BY <1>1 DEF CopyIsCurrent
<1>3. /\ conn[i] \in ConnRows
      /\ a.op \in {"none", "create", "update", "enable", "disable", "verify", "bump"}
      /\ a.op /= "create" => conn[i].made
      /\ a.flag \in {"keep", "on", "off"} /\ a.secret \in Secrets
  BY <1>1, <1>2 DEF ConnInv, ConnTypeOK, AskRows, CopyIsCurrent
<1>4. a.op /= "none"
  BY <1>1 DEF CopyIsCurrent
<1>5. /\ conn' = [conn EXCEPT ![i] = r] /\ ask' = DoneStaling(k, i, Touched(conn[i], r))
      /\ overwritten' = (overwritten \/ a.stale \cap Reads(a.op) /= {})
      /\ off' = CASE a.op = "disable" -> off \cup {i}
                  [] a.op \in {"create", "enable"} -> off \ {i}
                  [] OTHER -> off
      /\ fails' = [fails EXCEPT ![i] = IF a.op /= "verify" THEN fails[i]
           ELSE IF a.yes THEN 0 ELSE fails[i] + 1]
      /\ got' = [got EXCEPT ![i] = IF a.op = "bump" THEN got[i] + 1 ELSE got[i]]
      /\ accepted' = accepted /\ good' = good /\ lost' = lost
  BY <1>2 DEF WriteRow
<1>. HIDE DEF a
<1>6. PICK w : w = r
  OBVIOUS
<1>7. /\ w \in ConnRows /\ w.made
      /\ a.op = "create" => /\ w.on /\ ~w.verified /\ w.errors = 0 /\ w.received = 0
      /\ a.op \in {"update", "enable"} =>
           /\ (w.on <=> (a.copy.on \/ a.flag = "on")) /\ w.secret = a.secret
           /\ w.verified <=> (a.copy.verified /\ a.secret = a.copy.secret)
           /\ w.errors = conn[i].errors /\ w.received = conn[i].received
      /\ a.op = "disable" =>
           /\ ~w.on /\ w.verified = conn[i].verified /\ w.secret = conn[i].secret
           /\ w.errors = conn[i].errors /\ w.received = conn[i].received
      /\ a.op = "verify" =>
           /\ w.on = conn[i].on /\ w.secret = conn[i].secret /\ w.received = conn[i].received
           /\ w.verified <=> (a.yes \/ conn[i].verified)
           /\ w.errors = IF a.yes THEN 0 ELSE a.copy.errors + 1
      /\ a.op = "bump" =>
           /\ w.on = conn[i].on /\ w.secret = conn[i].secret /\ w.verified = conn[i].verified
           /\ w.errors = conn[i].errors /\ w.received = a.copy.received + 1
  BY <1>1, <1>2, <1>3, <1>4, <1>6, WrittenFacts
<1>8. conn' = [conn EXCEPT ![i] = w] /\ ask' = DoneStaling(k, i, Touched(conn[i], w))
           /\ good' = good
  BY <1>2, <1>5, <1>6
<1>. HIDE DEF r
<1>9. ask' \in [Askers -> AskRows] /\ \A o \in Askers : CopyIsCurrent(o)'
  <2>1. ~conn[i].made => w.on
    BY <1>3, <1>7
  <2>. QED
    BY <1>7, <1>8, <2>1, OthersAreOutdated
<1>10. conn'[i] = w /\ conn' \in [Rows -> ConnRows] /\ \A j \in Rows : j /= i
            => conn'[j] = conn[j]
  BY <1>7, <1>8 DEF ConnInv, ConnTypeOK
<1>11. fails \in [Rows -> Nat] /\ got \in [Rows -> Nat] /\ lost \in [Rows -> Nat] /\ i \in Rows
  BY DEF ConnInv, ConnTypeOK
<1>12. /\ fails' \in [Rows -> Nat]
       /\ fails'[i] = IF a.op /= "verify" THEN fails[i] ELSE IF a.yes THEN 0 ELSE fails[i] + 1
       /\ \A j \in Rows : j /= i => fails'[j] = fails[j]
  <2>1. PICK n : n = IF a.op /= "verify" THEN fails[i] ELSE IF a.yes THEN 0 ELSE fails[i] + 1
    OBVIOUS
  <2>2. n \in Nat /\ fails' = [fails EXCEPT ![i] = n]
    BY <1>5, <1>11, <2>1
  <2>. QED
    BY <1>11, <2>1, <2>2
<1>13. /\ got' \in [Rows -> Nat]
       /\ got'[i] = IF a.op = "bump" THEN got[i] + 1 ELSE got[i]
       /\ \A j \in Rows : j /= i => got'[j] = got[j]
  <2>1. PICK n : n = IF a.op = "bump" THEN got[i] + 1 ELSE got[i]
    OBVIOUS
  <2>2. n \in Nat /\ got' = [got EXCEPT ![i] = n]
    BY <1>5, <1>11, <2>1
  <2>. QED
    BY <1>11, <2>1, <2>2
<1>14. \A j \in Rows : j /= i => fails'[j] = fails[j] /\ got'[j] = got[j]
  BY <1>12, <1>13
<1>15. off' \subseteq off \cup {i} /\ \A j \in Rows : j /= i => (j \in off' <=> j \in off)
  BY <1>3, <1>5
<1>16. ConnTypeOK'
  <2>1. overwritten' \in BOOLEAN
    BY <1>5
  <2>2. ASSUME NEW j \in Rows, ~conn'[j].made
        PROVE  ~conn'[j].on /\ ~conn'[j].verified /\ fails'[j] = 0 /\ got'[j] = 0 /\ lost'[j] = 0
    <3>1. j /= i
      BY <1>7, <1>10, <2>2
    <3>2. conn'[j] = conn[j] /\ fails'[j] = fails[j] /\ got'[j] = got[j] /\ lost' = lost
      BY <1>5, <1>10, <1>14, <3>1
    <3>. QED
      BY <2>2, <3>2 DEF ConnInv, ConnTypeOK
  <2>3. off' \subseteq {j \in Rows : conn'[j].made}
    BY <1>7, <1>10, <1>15 DEF ConnInv, ConnTypeOK
  <2>. QED
    BY <1>5, <1>9, <1>10, <1>12, <1>13, <1>14, <2>1, <2>2, <2>3 DEF ConnInv, ConnTypeOK
<1>17. ASSUME ~overwritten'
       PROVE  /\ ~overwritten /\ a.stale \cap Reads(a.op) = {}
              /\ a.op = "create" => ~conn[i].made
  <2>1. ~overwritten /\ a.stale \cap Reads(a.op) = {}
    BY <1>5, <1>17
  <2>2. a.op = "create" => "on" \notin a.stale
    BY <2>1 DEF Reads
  <2>. QED
    BY <1>1, <1>2, <2>1, <2>2 DEF CopyIsCurrent, a
<1>18. ASSUME ~overwritten'
       PROVE  /\ a.op \in {"create", "update", "enable"} => "on" \notin a.stale
              /\ a.op \in {"update", "enable"} => "verified" \notin a.stale
                   /\ "secret" \notin a.stale
              /\ a.op = "verify" => "secret" \notin a.stale /\ "errors" \notin a.stale
              /\ a.op = "bump" => "received" \notin a.stale
  BY <1>17, <1>18 DEF Reads
<1>19. ASSUME ~overwritten'
       PROVE  /\ a.op \in {"update", "enable"} =>
                   a.copy.on = conn[i].on /\ a.copy.verified = conn[i].verified
                        /\ a.copy.secret = conn[i].secret
              /\ a.op = "verify" => a.copy.secret = conn[i].secret
                   /\ a.copy.errors = conn[i].errors
              /\ a.op = "verify" /\ a.yes => a.copy.secret \in good
              /\ a.op = "bump" => a.copy.received = conn[i].received
              /\ a.op = "update" => a.flag = "keep"
              /\ a.op = "create" \/ (a.op = "enable" /\ ~a.copy.on) => ~ActiveExists(i)
  BY <1>1, <1>2, <1>18, <1>19 DEF CopyIsCurrent, a
<1>20. OneEnabledUnlessRaced'
  <2>. SUFFICES ASSUME ~overwritten', NEW x \in Rows, NEW y \in Rows, conn'[x].on, conn'[y].on
                PROVE  x = y
    BY DEF OneEnabledUnlessRaced
  <2>1. conn'[i].on /\ ~conn[i].on => ~ActiveExists(i)
    BY <1>3, <1>7, <1>10, <1>19, <1>4
  <2>2. \A u, v \in Rows : conn[u].on /\ conn[v].on => u = v
    BY <1>17 DEF ConnInv, OneEnabledUnlessRaced
  <2>. QED
    BY <1>10, <2>1, <2>2 DEF ActiveExists
<1>21. VerifiedWereAccepted'
  <2>. SUFFICES ASSUME ~overwritten', NEW j \in Rows, conn'[j].verified
                PROVE  conn'[j].secret \in good
    BY <1>5 DEF VerifiedWereAccepted
  <2>1. \A x \in Rows : conn[x].verified => conn[x].secret \in good
    BY <1>17 DEF ConnInv, VerifiedWereAccepted
  <2>2. conn'[i].verified => conn'[i].secret \in good
    BY <1>3, <1>7, <1>10, <1>19, <1>4, <2>1
  <2>. QED
    BY <1>10, <2>1, <2>2
<1>22. DisabledStaysOff'
  <2>. SUFFICES ASSUME ~overwritten', NEW j \in off' PROVE ~conn'[j].on
    BY DEF DisabledStaysOff
  <2>1. \A x \in off : ~conn[x].on
    BY <1>17 DEF ConnInv, DisabledStaysOff
  <2>2. a.op \in {"create", "enable"} => i \notin off'
    BY <1>5
  <2>3. a.op \in {"update", "verify", "bump"} => (i \in off' => i \in off)
    BY <1>5
  <2>4. i \in off' => ~conn'[i].on
    BY <1>3, <1>7, <1>10, <1>19, <1>4, <2>1, <2>2, <2>3
  <2>5. j \in Rows
    BY <1>16 DEF ConnTypeOK
  <2>. QED
    BY <1>10, <1>15, <2>1, <2>4, <2>5
<1>23. CountersAddUp'
  <2>. SUFFICES ASSUME ~overwritten', NEW j \in Rows
                PROVE  conn'[j].errors = fails'[j] /\ conn'[j].received + lost'[j] = got'[j]
    BY DEF CountersAddUp
  <2>1. \A x \in Rows : conn[x].errors = fails[x] /\ conn[x].received + lost[x] = got[x]
    BY <1>17 DEF ConnInv, CountersAddUp
  <2>2. a.op = "create" => fails[i] = 0 /\ got[i] = 0 /\ lost[i] = 0
    BY <1>17 DEF ConnInv, ConnTypeOK
  <2>3. conn'[i].errors = fails'[i]
    <3>1. fails'[i] = IF a.op /= "verify" THEN fails[i] ELSE IF a.yes THEN 0 ELSE fails[i] + 1
      BY <1>12
    <3>2. CASE a.op = "create"
      BY <1>7, <1>10, <2>2, <3>1, <3>2
    <3>3. CASE a.op = "verify"
      BY <1>7, <1>10, <1>17, <1>19, <2>1, <3>1, <3>3
    <3>4. CASE a.op \in {"update", "enable", "disable", "bump"}
      BY <1>7, <1>10, <2>1, <3>1, <3>4
    <3>. QED
      BY <1>3, <1>4, <3>2, <3>3, <3>4
  <2>4. conn'[i].received + lost[i] = got'[i]
    <3>1. got'[i] = IF a.op = "bump" THEN got[i] + 1 ELSE got[i]
      BY <1>13
    <3>2. CASE a.op = "create"
      BY <1>7, <1>10, <2>2, <3>1, <3>2
    <3>3. CASE a.op = "bump"
      <4>1. conn'[i].received = conn[i].received + 1
        BY <1>7, <1>10, <1>19, <3>3
      <4>2. conn[i].received \in Nat /\ lost[i] \in Nat /\ got[i] \in Nat
        BY <1>3, <1>11 DEF ConnRows
      <4>. QED
        BY <2>1, <3>1, <3>3, <4>1, <4>2
    <3>4. CASE a.op \in {"update", "enable", "disable", "verify"}
      BY <1>7, <1>10, <2>1, <3>1, <3>4
    <3>. QED
      BY <1>3, <1>4, <3>2, <3>3, <3>4
  <2>. QED
    BY <1>5, <1>10, <1>14, <2>1, <2>3, <2>4
<1>. QED
  BY <1>9, <1>16, <1>20, <1>21, <1>22, <1>23 DEF ConnInv

\* A refused send: the enabled rows are unverified, and copies of them are outdated.
LEMMA TokenErrors ==
  ASSUME ConnInv, RecordTokenError
  PROVE  ConnInv'
<1>. DEFINE hit == {i \in Rows : conn[i].on}
            cols == {"verified", "errors"}
<1>1. /\ conn' = [i \in Rows |-> IF i \in hit
                                 THEN [conn[i] EXCEPT !.verified = FALSE,
                                      !.errors = conn[i].errors + 1] ELSE conn[i]]
      /\ fails' = [i \in Rows |-> IF i \in hit THEN fails[i] + 1 ELSE fails[i]]
      /\ ask' = [k \in Askers |-> IF k \in Pending /\ ask[k].row \in hit THEN Outdated(ask[k],
           cols) ELSE ask[k]]
      /\ accepted' = accepted /\ good' = good /\ off' = off /\ got' = got
           /\ lost' = lost /\ overwritten' = overwritten
  BY DEF RecordTokenError
<1>2. cols \in SUBSET Columns /\ hit \subseteq Rows
  BY DEF Columns
<1>3. good' = good /\ off' = off /\ got' = got /\ lost' = lost /\ overwritten' = overwritten
  BY <1>1
<1>. HIDE DEF cols, hit
<1>4. ASSUME NEW i \in Rows
      PROVE  /\ conn'[i] \in ConnRows /\ conn'[i].made = conn[i].made /\ conn'[i].on = conn[i].on
             /\ conn'[i].secret = conn[i].secret /\ conn'[i].received = conn[i].received
             /\ (conn'[i].verified => conn[i].verified)
             /\ (conn[i].errors = fails[i] => conn'[i].errors = fails'[i]) /\ fails'[i] \in Nat
             /\ (i \notin hit => conn'[i] = conn[i] /\ fails'[i] = fails[i])
  <2>1. conn[i] \in ConnRows /\ conn[i].errors \in Nat /\ conn[i].errors + 1 \in Nat
             /\ fails[i] \in Nat
    BY DEF ConnInv, ConnTypeOK, ConnRows
  <2>2. CASE i \notin hit
    BY <1>1, <2>1, <2>2
  <2>3. CASE i \in hit
    <3>1. conn'[i] = [conn[i] EXCEPT !.verified = FALSE, !.errors = conn[i].errors + 1]
               /\ fails'[i] = fails[i] + 1
      BY <1>1, <2>3
    <3>. PICK w : w = conn'[i]
      OBVIOUS
    <3>2. w \in ConnRows /\ ~w.verified
      BY <2>1, <3>1 DEF ConnRows
    <3>3. w.made = conn[i].made /\ w.on = conn[i].on
      BY <2>1, <3>1 DEF ConnRows
    <3>4. w.secret = conn[i].secret /\ w.received = conn[i].received
               /\ w.errors = conn[i].errors + 1
      BY <2>1, <3>1 DEF ConnRows
    <3>. QED
      BY <2>1, <2>3, <3>1, <3>2, <3>3, <3>4
  <2>. QED
    BY <2>2, <2>3
<1>5. ASSUME NEW o \in Askers PROVE ask'[o] \in AskRows /\ CopyIsCurrent(o)'
  <2>1. ask[o] \in AskRows /\ CopyIsCurrent(o)
    BY DEF ConnInv, ConnTypeOK
  <2>2. CASE ~(o \in Pending /\ ask[o].row \in hit)
    <3>1. ask'[o] = ask[o]
      BY <1>1, <2>2
    <3>2. ask[o].at \in {"platform", "write"} => ask[o].row \in Rows
               /\ conn'[ask[o].row] = conn[ask[o].row]
      BY <1>4, <2>1, <2>2 DEF CopyIsCurrent, Pending
    <3>3. \A j \in Rows : ActiveExists(j)' <=> ActiveExists(j)
      BY <1>4 DEF ActiveExists
    <3>4. CASE o \in Pending
      <4>1. PICK j \in Rows : j = ask[o].row /\ conn'[j] = conn[j]
        BY <3>2, <3>4 DEF Pending
      <4>2. ActiveExists(j)' <=> ActiveExists(j)
        BY <3>3
      <4>3. o \in Pending' <=> o \in Pending
        BY <3>1 DEF Pending
      <4>. QED
        BY <1>3, <2>1, <3>1, <3>4, <4>1, <4>2 DEF CopyIsCurrent
    <3>5. CASE o \notin Pending
      BY <3>1, <3>5, <2>1 DEF CopyIsCurrent, Pending
    <3>. QED
      BY <2>1, <3>1, <3>4, <3>5
  <2>3. CASE o \in Pending /\ ask[o].row \in hit
    <3>1. ask'[o] = Outdated(ask[o], cols)
      BY <1>1, <2>3
    <3>2. /\ ask'[o] \in AskRows
          /\ ask'[o].at = ask[o].at /\ ask'[o].op = ask[o].op /\ ask'[o].row = ask[o].row
          /\ ask'[o].copy = ask[o].copy /\ ask'[o].flag = ask[o].flag
               /\ ask'[o].secret = ask[o].secret
          /\ ask'[o].yes = ask[o].yes /\ ask'[o].stale = ask[o].stale \cup cols
      BY <1>2, <2>1, <3>1, OutdatedFacts
    <3>3. "verified" \in ask'[o].stale /\ "errors" \in ask'[o].stale
               /\ ask[o].stale \subseteq ask'[o].stale
      BY <3>2 DEF cols
    <3>4. PICK j \in Rows : j = ask[o].row
      BY <1>2, <2>3
    <3>5. ActiveExists(j)' <=> ActiveExists(j)
      BY <1>4 DEF ActiveExists
    <3>6. /\ conn'[j].made = conn[j].made /\ conn'[j].on = conn[j].on
          /\ conn'[j].secret = conn[j].secret /\ conn'[j].received = conn[j].received
      BY <1>4
    <3>7. /\ j \in Rows /\ ask[o].op /= "none" /\ (ask[o].op /= "create" => conn[j].made)
          /\ ask[o].op = "update" => ask[o].flag = "keep"
          /\ ask[o].op = "enable" => ask[o].secret = ask[o].copy.secret
          /\ ask[o].op = "verify" /\ ask[o].yes => ask[o].copy.secret \in good
          /\ "on" \notin ask[o].stale => ask[o].copy.on = conn[j].on
          /\ "secret" \notin ask[o].stale => ask[o].copy.secret = conn[j].secret
          /\ "received" \notin ask[o].stale => ask[o].copy.received = conn[j].received
          /\ ask[o].op = "create" => "on" \in ask[o].stale \/ ~conn[j].made
          /\ ask[o].op = "create" \/ (ask[o].op = "enable" /\ ~ask[o].copy.on) =>
               "on" \in ask[o].stale \/ ~ActiveExists(j)
      BY <2>1, <2>3, <3>4 DEF CopyIsCurrent
    <3>8. PICK w : w = ask'[o]
      OBVIOUS
    <3>9. /\ j = w.row /\ w.op = ask[o].op /\ w.copy = ask[o].copy /\ w.flag = ask[o].flag
          /\ w.secret = ask[o].secret /\ (w.yes <=> ask[o].yes)
               /\ w.stale = ask[o].stale \cup cols
          /\ "verified" \in w.stale /\ "errors" \in w.stale
      BY <3>2, <3>3, <3>4, <3>8
    <3>10. PICK v : v = conn'[j]
      OBVIOUS
    <3>11. /\ v.made = conn[j].made /\ (v.on <=> conn[j].on) /\ v.secret = conn[j].secret
           /\ v.received = conn[j].received
      BY <3>6, <3>10
    <3>12. \A c : c \notin w.stale => c \notin ask[o].stale
      BY <3>9
    <3>13. /\ w.op /= "none" /\ (w.op /= "create" => v.made)
           /\ (w.op = "update" => w.flag = "keep")
           /\ (w.op = "enable" => w.secret = w.copy.secret)
           /\ (w.op = "verify" /\ w.yes => w.copy.secret \in good')
      BY <1>3, <3>7, <3>9, <3>11
    <3>14. /\ ("on" \notin w.stale => (w.copy.on <=> v.on))
           /\ ("secret" \notin w.stale => w.copy.secret = v.secret)
           /\ ("received" \notin w.stale => w.copy.received = v.received)
      BY <3>7, <3>9, <3>11, <3>12
    <3>15. /\ (w.op = "create" \/ (w.op = "enable" /\ ~w.copy.on)) =>
                ("on" \in w.stale \/ ~ActiveExists(j)')
           /\ (w.op = "create" => ("on" \in w.stale \/ ~v.made))
      BY <3>5, <3>7, <3>9, <3>11
    <3>16. w.copy.on \in BOOLEAN /\ v.on \in BOOLEAN
      BY <1>4, <2>1, <3>9, <3>10 DEF AskRows, ConnRows
    <3>. QED
      BY <3>2, <3>4, <3>8, <3>9, <3>10, <3>13, <3>14, <3>15, <3>16 DEF CopyIsCurrent
  <2>. QED
    BY <2>2, <2>3
<1>6. conn' \in [Rows -> ConnRows] /\ fails' \in [Rows -> Nat] /\ ask' \in [Askers -> AskRows]
  <2>1. conn' = [i \in Rows |-> conn'[i]] /\ fails' = [i \in Rows |-> fails'[i]]
             /\ ask' = [k \in Askers |-> ask'[k]]
    BY <1>1
  <2>. QED
    BY <1>4, <1>5, <2>1
<1>7. ConnTypeOK'
  <2>1. ASSUME NEW j \in Rows, ~conn'[j].made
        PROVE  ~conn'[j].on /\ ~conn'[j].verified /\ fails'[j] = 0 /\ got'[j] = 0 /\ lost'[j] = 0
    <3>1. ~conn[j].made /\ ~conn[j].on /\ ~conn[j].verified /\ fails[j] = 0 /\ got[j] = 0
          /\ lost[j] = 0
      BY <1>4, <2>1 DEF ConnInv, ConnTypeOK
    <3>. QED
      BY <1>4, <1>3, <3>1 DEF hit
  <2>2. \A j \in off : j \in Rows /\ conn'[j].made
    BY <1>4 DEF ConnInv, ConnTypeOK
  <2>3. got \in [Rows -> Nat] /\ lost \in [Rows -> Nat] /\ overwritten \in BOOLEAN /\ good \subseteq Secrets
    BY DEF ConnInv, ConnTypeOK
  <2>. QED
    BY <1>6, <1>3, <2>1, <2>2, <2>3 DEF ConnTypeOK
<1>8. OneEnabledUnlessRaced' /\ DisabledStaysOff'
  BY <1>1, <1>4 DEF ConnInv, ConnTypeOK, OneEnabledUnlessRaced, DisabledStaysOff
<1>9. VerifiedWereAccepted'
  <2>. SUFFICES ASSUME ~overwritten', NEW j \in Rows, conn'[j].verified
                PROVE  conn'[j].secret \in good'
    BY DEF VerifiedWereAccepted
  <2>1. conn[j].verified /\ conn'[j].secret = conn[j].secret
    BY <1>4
  <2>. QED
    BY <1>3, <2>1 DEF ConnInv, VerifiedWereAccepted
<1>10. CountersAddUp'
  <2>1. ASSUME NEW j \in Rows, conn[j].errors = fails[j] PROVE conn'[j].errors = fails'[j]
    <3>1. fails[j] \in Nat /\ fails'[j] \in Nat
      BY <1>6 DEF ConnInv, ConnTypeOK
    <3>. QED
      BY <1>4, <2>1, <3>1
  <2>. QED
    BY <1>1, <1>4, <2>1 DEF ConnInv, CountersAddUp
<1>. QED
  BY <1>5, <1>7, <1>8, <1>9, <1>10 DEF ConnInv

\* Every step keeps the invariant.
LEMMA ConnStep == ConnInv /\ [ConnNext]_connVars => ConnInv'
<1>. SUFFICES ASSUME ConnInv, [ConnNext]_connVars PROVE ConnInv'
  OBVIOUS
<1>1. ASSUME UNCHANGED connVars \/ \E s \in Secrets : Revoke(s) PROVE ConnInv'
  <2>1. /\ conn' = conn /\ ask' = ask /\ good' = good /\ off' = off /\ fails' = fails
             /\ got' = got /\ lost' = lost
        /\ overwritten' = overwritten
    BY <1>1 DEF Revoke, connVars
  <2>2. ConnTypeOK'
    BY <2>1 DEF ConnInv, ConnTypeOK
  <2>3. \A k \in Askers : CopyIsCurrent(k)'
    BY <2>1 DEF ConnInv, CopyIsCurrent, Pending, ActiveExists
  <2>. QED
    BY <2>1, <2>2, <2>3
       DEF ConnInv, OneEnabledUnlessRaced, VerifiedWereAccepted, DisabledStaysOff, CountersAddUp
<1>. QED
  BY <1>1, TokenErrors, ConnReads, ConnAnswers, ConnWrites, BumpsSwallowed DEF ConnNext

\* Unless a request wrote from an outdated copy: at most one connection of a platform is enabled, a
\* disabled one stays so, a verified one has a secret the platform has accepted, and the counters are
\* the failures on record and the messages received but for those the database did not let be
\* counted, whatever sends of other teams are refused in between (ConnInv).
THEOREM ConnectionsAreTrue == ConnSpec => []ConnInv
BY ConnInitially, ConnStep, PTL DEF ConnSpec

-----------------------------------------------------------------------------
(* Auto-reply rules.                                                        *)

\* What RuleIsWhole says of one rule.
Whole(r) ==
  /\ \A e, f \in Editing(r) : e = f
  /\ RetiredIsOff(r)
  /\ rule[r].state = "live" => CondsOfOne(r) /\ ActsOfOne(r)

\* A rule x that is edited by e alone, which has the statements T left to make.
OfOneMaking(x, T, e) ==
  /\ x.state /= "live" => ~x.active /\ T = {ThrowAway}
  /\ Retire \in T => T = {Retire, ThrowAway}
  /\ x.state = "live" =>
       /\ \/ /\ \A i \in Parts : InsertCond(i) \in T <=> ClearConds \in T
             /\ \E f \in Editors : x.conds = {f} \X Parts
          \/ ClearConds \notin T /\ x.conds = {e} \X {i \in Parts : InsertCond(i) \notin T}
       /\ \/ /\ InsertAct \in T <=> ClearActs \in T
             /\ \E f \in Editors : x.acts = {f}
          \/ ClearActs \notin T /\ InsertAct \in T /\ x.acts = {}

\* A rule that nobody edits.
LEMMA NoEditor ==
  \A r \in Rules :
    Editing(r) = {} =>
      (Whole(r) <=> /\ rule[r].state /= "live" => ~rule[r].active
                    /\ rule[r].state = "live" =>
                         /\ \E f \in Editors : rule[r].conds = {f} \X Parts
                         /\ \E f \in Editors : rule[r].acts = {f})
  BY DEF Whole, RetiredIsOff, CondsOfOne, ActsOfOne

\* A whole rule has at most one editor.
LEMMA AtMostOne ==
  \A r \in Rules : Whole(r) => Editing(r) = {} \/ \E e \in Editors : Editing(r) = {e}
  BY DEF Whole, Editing

\* The statements' places in a request.
LEMMA StatementNumbers ==
  /\ \A b \in BOOLEAN : SetActive(b)[1] = 1
  /\ ClearConds[1] = 2 /\ \A i : InsertCond(i)[1] = 3 /\ InsertCond(i)[2] = i
  /\ ClearActs[1] = 4 /\ InsertAct[1] = 5 /\ Retire[1] = 6 /\ ThrowAway[1] = 7
  BY DEF SetActive, ClearConds, InsertCond, ClearActs, InsertAct, Retire, ThrowAway

\* There are no others.
LEMMA StatementIsOne ==
  \A s \in Statements :
    \/ s[1] = 1
    \/ s = ClearConds
    \/ \E i \in Parts : s = InsertCond(i)
    \/ s = ClearActs \/ s = InsertAct \/ s = Retire \/ s = ThrowAway
  BY StatementNumbers DEF Statements, ReplaceConds, ReplaceActs, Conditions

\* What each statement makes of a rule, field by field.
LEMMA WrittenIs ==
  ASSUME NEW e \in Editors, NEW s \in Statements, NEW x \in RuleRows, NEW y, y = RuleWritten(e,
         s, x),
         s /= ThrowAway
  PROVE  /\ y \in RuleRows
         /\ s[1] = 1 => y.state = x.state /\ y.conds = x.conds /\ y.acts = x.acts
         /\ s = ClearConds => y.state = x.state /\ y.conds = {} /\ y.acts = x.acts
         /\ \A i \in Parts : s = InsertCond(i) =>
              y.state = x.state /\ y.conds = x.conds \cup {<<e, i>>} /\ y.acts = x.acts
         /\ s = ClearActs => y.state = x.state /\ y.conds = x.conds /\ y.acts = {}
         /\ s = InsertAct => y.state = x.state /\ y.conds = x.conds /\ y.acts = x.acts \cup {e}
         /\ s = Retire => y.state = "deleted" /\ ~y.active
         /\ s[1] /= 1 /\ s /= Retire => (y.active <=> x.active)
<1> USE DEF RuleRows
<1>1. /\ x = [state |-> x.state, active |-> x.active, conds |-> x.conds, acts |-> x.acts]
      /\ x.state \in {"none", "live", "deleted"} /\ x.active \in BOOLEAN
      /\ x.conds \subseteq Editors \X Parts /\ x.acts \subseteq Editors
  OBVIOUS
<1>2. CASE s[1] = 1
  <2>1. PICK b : b = (s = SetActive(TRUE))
    OBVIOUS
  <2>2. b \in BOOLEAN
    BY <2>1
  <2>3. y = [x EXCEPT !.active = b]
    BY <1>2, <2>1, StatementNumbers DEF RuleWritten
  <2>4. s /= ClearConds /\ s /= ClearActs /\ s /= InsertAct /\ s /= Retire
             /\ \A i \in Parts : s /= InsertCond(i)
    BY <1>2, StatementNumbers
  <2> QED BY <1>2, <2>2, <2>3, <2>4
<1>3. CASE s = ClearConds
  <2>1. y = [x EXCEPT !.conds = {}]
    BY <1>3, StatementNumbers DEF RuleWritten
  <2>2. s[1] = 2 /\ s /= ClearActs /\ s /= InsertAct /\ s /= Retire
             /\ \A i \in Parts : s /= InsertCond(i)
    BY <1>3, StatementNumbers
  <2> QED BY <1>3, <1>1, <2>1, <2>2
<1>4. CASE \E i \in Parts : s = InsertCond(i)
  <2>1. PICK i \in Parts : s = InsertCond(i)
    BY <1>4
  <2>2. s[1] = 3 /\ s[2] = i
    BY <2>1, StatementNumbers
  <2>3. y = [x EXCEPT !.conds = x.conds \cup {<<e, i>>}]
    BY <2>2, StatementNumbers DEF RuleWritten
  <2>4. s /= ClearConds /\ s /= ClearActs /\ s /= InsertAct /\ s /= Retire
    BY <2>2, StatementNumbers
  <2>5. \A j \in Parts : s = InsertCond(j) => j = i
    BY <2>1 DEF InsertCond
  <2> QED BY <1>1, <2>2, <2>3, <2>4, <2>5
<1>5. CASE s = ClearActs
  <2>1. y = [x EXCEPT !.acts = {}]
    BY <1>5, StatementNumbers DEF RuleWritten
  <2>2. s[1] = 4 /\ s /= ClearConds /\ s /= InsertAct /\ s /= Retire
             /\ \A i \in Parts : s /= InsertCond(i)
    BY <1>5, StatementNumbers
  <2> QED BY <1>5, <1>1, <2>1, <2>2
<1>6. CASE s = InsertAct
  <2>1. y = [x EXCEPT !.acts = x.acts \cup {e}]
    BY <1>6, StatementNumbers DEF RuleWritten
  <2>2. s[1] = 5 /\ s /= ClearConds /\ s /= ClearActs /\ s /= Retire
             /\ \A i \in Parts : s /= InsertCond(i)
    BY <1>6, StatementNumbers
  <2> QED BY <1>6, <1>1, <2>1, <2>2
<1>7. CASE s = Retire
  <2>1. y = [x EXCEPT !.state = "deleted", !.active = FALSE]
    BY <1>7, StatementNumbers DEF RuleWritten
  <2>2. s[1] = 6 /\ s /= ClearConds /\ s /= ClearActs /\ s /= InsertAct
             /\ \A i \in Parts : s /= InsertCond(i)
    BY <1>7, StatementNumbers
  <2>3. y = [state |-> "deleted", active |-> FALSE, conds |-> x.conds, acts |-> x.acts]
    BY <2>1, <1>1
  <2>4. y \in RuleRows
    BY <2>3, <1>1
  <2>5. y.state = "deleted" /\ ~y.active
    BY <2>3
  <2> QED BY <1>7, <2>2, <2>4, <2>5
<1> QED BY <1>2, <1>3, <1>4, <1>5, <1>6, <1>7, StatementIsOne

\* The next statement of a rule's only editor leaves it of one making.
LEMMA WrittenOfOneMaking ==
  ASSUME NEW x \in RuleRows, NEW T \in SUBSET Statements, NEW e \in Editors, NEW s \in T,
         \A u \in T : ~Before(u, s), s /= ThrowAway, ThrowAway \in T, OfOneMaking(x, T, e)
  PROVE  OfOneMaking(RuleWritten(e, s, x), T \ {s}, e)
<1>1. PICK y : y = RuleWritten(e, s, x)
  OBVIOUS
<1> SUFFICES OfOneMaking(y, T \ {s}, e)
  BY <1>1
<1>2. s \in Statements
  OBVIOUS
<1>3. /\ s[1] = 1 => y.state = x.state /\ y.conds = x.conds /\ y.acts = x.acts
      /\ s = ClearConds => y.state = x.state /\ y.conds = {} /\ y.acts = x.acts
      /\ \A i \in Parts : s = InsertCond(i) =>
           y.state = x.state /\ y.conds = x.conds \cup {<<e, i>>} /\ y.acts = x.acts
      /\ s = ClearActs => y.state = x.state /\ y.conds = x.conds /\ y.acts = {}
      /\ s = InsertAct => y.state = x.state /\ y.conds = x.conds /\ y.acts = x.acts \cup {e}
      /\ s = Retire => y.state = "deleted" /\ ~y.active
  BY <1>2, <1>1, WrittenIs
<1>4. x.state = "live"
  BY DEF OfOneMaking
<1>5. ThrowAway \in T \ {s}
  OBVIOUS
<1>6. \A u \in T : ~(u[1] < s[1])
  BY DEF Before
<1>7. Retire \in T \ {s} => T \ {s} = {Retire, ThrowAway}
  BY DEF OfOneMaking
<1>8. Retire \in T => s = Retire
  BY DEF OfOneMaking
<1>9. CASE s[1] = 1
  <2>1. y.state = x.state /\ y.conds = x.conds /\ y.acts = x.acts
    BY <1>3, <1>9
  <2>2. s /= ClearConds /\ s /= ClearActs /\ s /= InsertAct /\ \A i \in Parts : s /= InsertCond(i)
    BY <1>9, StatementNumbers
  <2> QED BY <1>4, <1>7, <2>1, <2>2 DEF OfOneMaking
<1>10. CASE s = ClearConds
  <2>1. y.state = x.state /\ y.conds = {} /\ y.acts = x.acts
    BY <1>3, <1>10
  <2>2. s /= ClearActs /\ s /= InsertAct /\ \A i \in Parts : s /= InsertCond(i)
    BY <1>10, StatementNumbers
  <2>3. \A i \in Parts : InsertCond(i) \in T
    BY <1>10, <1>4 DEF OfOneMaking
  <2>4. {e} \X {i \in Parts : InsertCond(i) \notin T \ {s}} = {}
    BY <2>2, <2>3
  <2> QED BY <1>4, <1>7, <1>10, <2>1, <2>2, <2>4 DEF OfOneMaking
<1>11. ASSUME NEW i \in Parts, s = InsertCond(i) PROVE OfOneMaking(y, T \ {s}, e)
  <2>1. y.state = x.state /\ y.conds = x.conds \cup {<<e, i>>} /\ y.acts = x.acts
    BY <1>3, <1>11
  <2>2. s /= ClearConds /\ s /= ClearActs /\ s /= InsertAct
    BY <1>11, StatementNumbers
  <2>3. ClearConds \notin T
    BY <1>11, StatementNumbers, <1>6
  <2>4. x.conds = {e} \X {j \in Parts : InsertCond(j) \notin T}
    BY <1>4, <1>11, <2>3 DEF OfOneMaking
  <2>5. \A j \in Parts : InsertCond(j) \notin T \ {s} <=> InsertCond(j) \notin T \/ j = i
    BY <1>11, StatementNumbers
  <2>6. y.conds = {e} \X {j \in Parts : InsertCond(j) \notin T \ {s}}
    BY <2>1, <2>4, <2>5
  <2> QED BY <1>4, <1>7, <2>1, <2>2, <2>3, <2>6 DEF OfOneMaking
<1>12. CASE s = ClearActs
  <2>1. y.state = x.state /\ y.conds = x.conds /\ y.acts = {}
    BY <1>3, <1>12
  <2>2. s /= ClearConds /\ s /= InsertAct /\ \A i \in Parts : s /= InsertCond(i)
    BY <1>12, StatementNumbers
  <2> QED BY <1>4, <1>7, <1>12, <2>1, <2>2 DEF OfOneMaking
<1>13. CASE s = InsertAct
  <2>1. y.state = x.state /\ y.conds = x.conds /\ y.acts = x.acts \cup {e}
    BY <1>3, <1>13
  <2>2. s /= ClearConds /\ s /= ClearActs /\ \A i \in Parts : s /= InsertCond(i)
    BY <1>13, StatementNumbers
  <2>3. ClearActs \notin T
    BY <1>13, StatementNumbers, <1>6
  <2>4. y.acts = {e}
    BY <1>4, <1>13, <2>1, <2>3 DEF OfOneMaking
  <2> QED BY <1>4, <1>7, <1>13, <2>1, <2>2, <2>3, <2>4 DEF OfOneMaking
<1>14. CASE s = Retire
  <2>1. y.state = "deleted" /\ ~y.active
    BY <1>3, <1>14
  <2>2. T \ {s} = {ThrowAway}
    BY <1>14, <1>5 DEF OfOneMaking
  <2>3. ThrowAway /= Retire
    BY StatementNumbers
  <2> QED BY <2>1, <2>2, <2>3 DEF OfOneMaking
<1> QED BY <1>9, <1>10, <1>11, <1>12, <1>13, <1>14, <1>2, StatementIsOne

\* A rule that one request edits is whole when it is of that one's making.
LEMMA SoleEditor ==
  \A r \in Rules, e \in Editors :
    Editing(r) = {e} => (Whole(r) <=> OfOneMaking(rule[r], editing[e].todo, e))
<1> SUFFICES ASSUME NEW r \in Rules, NEW e \in Editors, Editing(r) = {e}
             PROVE  Whole(r) <=> OfOneMaking(rule[r], editing[e].todo, e)
  OBVIOUS
<1>1. RetiredIsOff(r) <=>
        /\ rule[r].state /= "live" => ~rule[r].active /\ editing[e].todo = {ThrowAway}
        /\ Retire \in editing[e].todo => editing[e].todo = {Retire, ThrowAway}
  BY DEF RetiredIsOff
<1>2. CondsOfOne(r) <=>
        \/ /\ \A i \in Parts : InsertCond(i) \in editing[e].todo <=> ClearConds \in editing[e].todo
           /\ \E f \in Editors : rule[r].conds = {f} \X Parts
        \/ /\ ClearConds \notin editing[e].todo
           /\ rule[r].conds = {e} \X {i \in Parts : InsertCond(i) \notin editing[e].todo}
  BY DEF CondsOfOne
<1>3. ActsOfOne(r) <=>
        \/ /\ InsertAct \in editing[e].todo <=> ClearActs \in editing[e].todo
           /\ \E f \in Editors : rule[r].acts = {f}
        \/ ClearActs \notin editing[e].todo /\ InsertAct \in editing[e].todo /\ rule[r].acts = {}
  BY DEF ActsOfOne
<1> QED BY <1>1, <1>2, <1>3 DEF Whole, OfOneMaking

\* The same, after a step.
LEMMA SoleEditorNext ==
  ASSUME NEW r \in Rules, NEW e \in Editors, (Editing(r) = {e})'
  PROVE  Whole(r)' <=> OfOneMaking(rule'[r], editing'[e].todo, e)
<1>1. RetiredIsOff(r)' <=>
        /\ rule'[r].state /= "live" => ~rule'[r].active /\ editing'[e].todo = {ThrowAway}
        /\ Retire \in editing'[e].todo => editing'[e].todo = {Retire, ThrowAway}
  BY DEF RetiredIsOff
<1>2. CondsOfOne(r)' <=>
        \/ /\ \A i \in Parts : InsertCond(i) \in editing'[e].todo <=> ClearConds \in editing'[e].todo
           /\ \E f \in Editors : rule'[r].conds = {f} \X Parts
        \/ /\ ClearConds \notin editing'[e].todo
           /\ rule'[r].conds = {e} \X {i \in Parts : InsertCond(i) \notin editing'[e].todo}
  BY DEF CondsOfOne
<1>3. ActsOfOne(r)' <=>
        \/ /\ InsertAct \in editing'[e].todo <=> ClearActs \in editing'[e].todo
           /\ \E f \in Editors : rule'[r].acts = {f}
        \/ ClearActs \notin editing'[e].todo /\ InsertAct \in editing'[e].todo
             /\ rule'[r].acts = {}
  BY DEF ActsOfOne
<1> QED BY <1>1, <1>2, <1>3 DEF Whole, OfOneMaking

\* A rule that a step does not concern stays whole.
LEMMA OtherRule ==
  ASSUME NEW r \in Rules, Whole(r), rule'[r] = rule[r],
         \A e \in Editors : \/ editing'[e] = editing[e]
                            \/ editing[e].rule /= r /\ editing'[e].rule /= r
  PROVE  Whole(r)'
<1>1. Editing(r)' = Editing(r)
  BY DEF Editing
<1>2. \A e \in Editing(r) : editing'[e] = editing[e]
  BY DEF Editing
<1>3. RetiredIsOff(r)'
  BY <1>1, <1>2 DEF Whole, RetiredIsOff
<1>4. CondsOfOne(r) => CondsOfOne(r)'
  BY <1>1, <1>2 DEF CondsOfOne
<1>5. ActsOfOne(r) => ActsOfOne(r)'
  BY <1>1, <1>2 DEF ActsOfOne
<1> QED BY <1>1, <1>3, <1>4, <1>5 DEF Whole

\* The invariant's parts.
LEMMA RulesParts ==
  RulesInv <=> /\ RulesTypeOK
               /\ \A r \in Rules \ mixed : Whole(r)
               /\ CachedIsCurrent
               /\ \A m \in Messages : LoadIsCurrent(m)
  BY DEF RulesInv, RuleIsWhole, Whole

\* No rule is written.
LEMMA RulesInitially == RulesInit => RulesInv
<1> SUFFICES ASSUME RulesInit PROVE RulesInv
  OBVIOUS
<1> USE RulesAssumption DEF RulesInit
<1>1. RulesTypeOK
  <2>1. Unwritten \in RuleRows /\ NoEdit \in Edits
    BY DEF RuleRows, Edits, Unwritten
  <2>2. NotLoading \in Loads /\ NotCached \in [full : BOOLEAN, rules : SUBSET Copies]
    BY DEF Loads, LoadRows, NotLoading, NotCached
  <2>3. rule \in [Rules -> RuleRows] /\ editing \in [Editors -> Edits]
    BY <2>1
  <2>4. loading \in [Messages -> Loads] /\ cached \in [full : BOOLEAN, rules : SUBSET Copies]
    BY <2>2
  <2>5. edits \in 0..MaxEdits /\ broken \in 0..MaxBroken
    OBVIOUS
  <2> QED BY <2>3, <2>4, <2>5 DEF RulesTypeOK
<1>2. ASSUME NEW r \in Rules PROVE Whole(r)
  <2>1. Editing(r) = {}
    BY DEF Editing, NoEdit
  <2>2. rule[r].state = "none" /\ ~rule[r].active
    BY DEF Unwritten
  <2> QED BY <2>1, <2>2 DEF Whole, RetiredIsOff
<1>3. CachedIsCurrent
  BY DEF CachedIsCurrent, NotCached
<1>4. \A m \in Messages : LoadIsCurrent(m)
  BY DEF LoadIsCurrent, NotLoading
<1> QED BY <1>1, <1>2, <1>3, <1>4, RulesParts

\* What a request in flight has left to do.
LEMMA EditFacts ==
  RulesTypeOK => \A e \in Editors :
    /\ editing[e] = NoEdit \/ /\ editing[e].rule \in Rules
                              /\ editing[e].todo \subseteq Statements
                                   /\ ThrowAway \in editing[e].todo
    /\ editing[e] = NoEdit <=> editing[e].rule = 0
    /\ editing[e] = NoEdit => editing[e].todo = {}
<1> SUFFICES ASSUME RulesTypeOK, NEW e \in Editors
    PROVE  /\ editing[e] = NoEdit \/ /\ editing[e].rule \in Rules
                                     /\ editing[e].todo \subseteq Statements
                                          /\ ThrowAway \in editing[e].todo
           /\ editing[e] = NoEdit <=> editing[e].rule = 0
           /\ editing[e] = NoEdit => editing[e].todo = {}
  OBVIOUS
<1>1. editing[e] \in Edits
  BY DEF RulesTypeOK
<1>2. editing[e] = NoEdit \/ /\ editing[e].rule \in Rules
                             /\ editing[e].todo \subseteq Statements
                                  /\ ThrowAway \in editing[e].todo
  BY <1>1 DEF Edits
<1>3. editing[e] = NoEdit => editing[e].rule = 0 /\ editing[e].todo = {}
  BY DEF NoEdit
<1>4. 0 \notin Rules
  BY RulesAssumption
<1> QED BY <1>2, <1>3, <1>4

\* A request begins: what it asks for becomes its todo.
LEMMA AskedType ==
  ASSUME RulesTypeOK, NEW e \in Editors, NEW r \in Rules, NEW T \in SUBSET Statements,
         EditAsked(e, r, T)
  PROVE  /\ editing' \in [Editors -> Edits] /\ editing'[e] = [rule |-> r,
              todo |-> T \cup {ThrowAway}]
         /\ \A f \in Editors \ {e} : editing'[f] = editing[f]
         /\ mixed' \subseteq Rules /\ edits' \in 0..MaxEdits
         /\ ~Settled'
         /\ mixed \subseteq mixed' /\ (r \notin mixed' => Editing(r) = {})
<1>1. ThrowAway \in Statements
  BY DEF Statements
<1>2. [rule |-> r, todo |-> T \cup {ThrowAway}] \in Edits
  BY <1>1 DEF Edits
<1>3. editing' \in [Editors -> Edits] /\ editing'[e] = [rule |-> r, todo |-> T \cup {ThrowAway}]
  BY <1>2 DEF EditAsked, RulesTypeOK
<1>4. \A f \in Editors \ {e} : editing'[f] = editing[f]
  BY DEF EditAsked, RulesTypeOK
<1>5. mixed' \subseteq Rules /\ edits' \in 0..MaxEdits
  BY RulesAssumption DEF EditAsked, RulesTypeOK
<1>6. editing'[e] /= NoEdit
  BY <1>3, RulesAssumption DEF NoEdit
<1>7. ~Settled'
  BY <1>6 DEF Settled
<1>8. mixed \subseteq mixed' /\ (r \notin mixed' => Editing(r) = {})
  BY DEF EditAsked
<1> QED BY <1>3, <1>4, <1>5, <1>7, <1>8

\* While a request is in flight nothing is promised of the cache.
LEMMA Unsettled ==
  ASSUME ~Settled'
  PROVE  CachedIsCurrent' /\ \A m \in Messages : LoadIsCurrent(m)'
  BY DEF CachedIsCurrent, LoadIsCurrent

\* The rules a request does not edit stay whole when it begins.
LEMMA AskedOthers ==
  ASSUME RulesInv, NEW e \in Editors, NEW r \in Rules, NEW T \in SUBSET Statements,
         EditAsked(e, r, T), \A q \in Rules \ {r} : rule'[q] = rule[q]
  PROVE  \A q \in Rules \ mixed' : q /= r => Whole(q)'
<1> SUFFICES ASSUME NEW q \in Rules, q \notin mixed', q /= r PROVE Whole(q)'
  OBVIOUS
<1>1. RulesTypeOK /\ editing[e] = NoEdit
  BY DEF RulesInv, EditAsked
<1>2. q \notin mixed /\ Whole(q)
  BY <1>1, AskedType, RulesParts
<1>3. editing'[e] = [rule |-> r, todo |-> T \cup {ThrowAway}]
           /\ \A f \in Editors \ {e} : editing'[f] = editing[f]
  BY <1>1, AskedType
<1>4. \A f \in Editors : \/ editing'[f] = editing[f]
                         \/ editing[f].rule /= q /\ editing'[f].rule /= q
  BY <1>1, <1>3, RulesAssumption DEF NoEdit
<1> QED BY <1>2, <1>4, OtherRule

\* A request that mixes with no other is its rule's only editor.
LEMMA SoleAsker ==
  ASSUME RulesTypeOK, NEW e \in Editors, NEW r \in Rules, NEW T \in SUBSET Statements,
         EditAsked(e, r, T), r \notin mixed'
  PROVE  (Editing(r) = {e})'
<1>1. Editing(r) = {}
  BY AskedType
<1>2. editing'[e] = [rule |-> r, todo |-> T \cup {ThrowAway}]
           /\ \A f \in Editors \ {e} : editing'[f] = editing[f]
  BY AskedType
<1>3. editing'[e].rule = r /\ \A f \in Editors \ {e} : editing'[f] = editing[f]
  BY <1>2
<1> QED BY <1>1, <1>3 DEF Editing

\* A rule is created.
LEMMA CreateKeeps ==
  ASSUME RulesInv, NEW e \in Editors, NEW r \in Rules, CreateRule(e, r)
  PROVE  RulesInv'
<1> DEFINE T == Conditions \cup {InsertAct}
<1>1. RulesTypeOK
  BY DEF RulesInv
<1>2. T \in SUBSET Statements /\ EditAsked(e, r, T)
  BY DEF CreateRule, Statements, ReplaceConds, ReplaceActs
<1>3. PICK active \in BOOLEAN :
        rule' = [rule EXCEPT ![r] = [state |-> "live", active |-> active, conds |-> {},
             acts |-> {}]]
  BY DEF CreateRule
<1>4. [state |-> "live", active |-> active, conds |-> {}, acts |-> {}] \in RuleRows
  BY DEF RuleRows
<1>5. rule' \in [Rules -> RuleRows] /\ \A q \in Rules \ {r} : rule'[q] = rule[q]
  BY <1>1, <1>3, <1>4 DEF RulesTypeOK
<1>6. rule'[r] = [state |-> "live", active |-> active, conds |-> {}, acts |-> {}]
  BY <1>1, <1>3 DEF RulesTypeOK
<1>7. RulesTypeOK'
  <2>1. editing' \in [Editors -> Edits] /\ mixed' \subseteq Rules /\ edits' \in 0..MaxEdits
    BY <1>1, <1>2, AskedType
  <2>2. UNCHANGED <<cached, loading, late, dirty, broken>>
    BY <1>2 DEF EditAsked
  <2> QED BY <1>1, <1>5, <2>1, <2>2 DEF RulesTypeOK
<1>8. ASSUME r \notin mixed' PROVE Whole(r)'
  <2>1. (Editing(r) = {e})'
    BY <1>1, <1>2, <1>8, SoleAsker
  <2>2. PICK U : U = T \cup {ThrowAway}
    OBVIOUS
  <2>3. editing'[e] = [rule |-> r, todo |-> T \cup {ThrowAway}]
    BY <1>1, <1>2, AskedType
  <2>4. editing'[e].todo = U
    BY <2>3, <2>2
  <2>5. /\ ClearConds \notin U /\ ClearActs \notin U /\ Retire \notin U /\ InsertAct \in U
        /\ \A i \in Parts : InsertCond(i) \in U
    BY <2>2, StatementNumbers DEF Conditions
  <2>6. PICK x : x = rule'[r]
    OBVIOUS
  <2>7. x.state = "live" /\ x.conds = {} /\ x.acts = {}
    BY <1>6, <2>6
  <2>8. {} = {e} \X {i \in Parts : InsertCond(i) \notin U}
    BY <2>5
  <2>9. OfOneMaking(x, U, e)
    BY <2>5, <2>7, <2>8 DEF OfOneMaking
  <2> QED BY <2>1, <2>4, <2>6, <2>9, SoleEditorNext
<1>9. \A q \in Rules \ mixed' : q /= r => Whole(q)'
  BY <1>2, <1>5, AskedOthers
<1>10. ~Settled'
  BY <1>1, <1>2, AskedType
<1>11. \A q \in Rules \ mixed' : Whole(q)'
  BY <1>8, <1>9
<1>12. CachedIsCurrent' /\ \A m \in Messages : LoadIsCurrent(m)'
  BY <1>10, Unsettled
<1> QED BY <1>7, <1>11, <1>12 DEF RulesInv, RuleIsWhole, Whole

\* A whole rule is of the making of the request that begins to edit it.
LEMMA AskedOfOne ==
  ASSUME NEW x \in RuleRows, x.state = "live", NEW e \in Editors, NEW b \in BOOLEAN,
         NEW fields \in SUBSET {"active", "conds", "acts"}, NEW U \in SUBSET Statements,
         U = (IF "active" \in fields THEN {SetActive(b)} ELSE {})
             \cup (IF "conds" \in fields THEN ReplaceConds ELSE {})
             \cup (IF "acts" \in fields THEN ReplaceActs ELSE {}) \cup {ThrowAway},
         \E f \in Editors : x.conds = {f} \X Parts, \E f \in Editors : x.acts = {f}
  PROVE  OfOneMaking(x, U, e)
<1>1. Retire \notin U
  BY StatementNumbers DEF ReplaceConds, ReplaceActs, Conditions
<1>2. \A i \in Parts : InsertCond(i) \in U <=> "conds" \in fields
  BY StatementNumbers DEF ReplaceConds, ReplaceActs, Conditions
<1>3. ClearConds \in U <=> "conds" \in fields
  BY StatementNumbers DEF ReplaceConds, ReplaceActs, Conditions
<1>4. InsertAct \in U <=> "acts" \in fields
  BY StatementNumbers DEF ReplaceConds, ReplaceActs, Conditions
<1>5. ClearActs \in U <=> "acts" \in fields
  BY StatementNumbers DEF ReplaceConds, ReplaceActs, Conditions
<1> QED BY <1>1, <1>2, <1>3, <1>4, <1>5 DEF OfOneMaking

\* A request that only begins: the rule it edits is whole, and nothing is written yet.
LEMMA AskedKeeps ==
  ASSUME RulesInv, NEW e \in Editors, NEW r \in Rules, NEW T \in SUBSET Statements,
         EditAsked(e, r, T), UNCHANGED rule,
         Editing(r) = {} /\ Whole(r) => OfOneMaking(rule[r], T \cup {ThrowAway}, e)
  PROVE  RulesInv'
<1>1. RulesTypeOK
  BY DEF RulesInv
<1>2. editing'[e] = [rule |-> r, todo |-> T \cup {ThrowAway}]
  BY <1>1, AskedType
<1>3. editing' \in [Editors -> Edits] /\ mixed' \subseteq Rules /\ edits' \in 0..MaxEdits
  BY <1>1, AskedType
<1>4. mixed \subseteq mixed' /\ (r \notin mixed' => Editing(r) = {})
  BY <1>1, AskedType
<1>5. RulesTypeOK'
  <2>1. UNCHANGED <<cached, loading, late, dirty, broken>>
    BY DEF EditAsked
  <2> QED BY <1>1, <1>3, <2>1 DEF RulesTypeOK
<1>6. ASSUME r \notin mixed' PROVE Whole(r)'
  <2>1. (Editing(r) = {e})'
    BY <1>1, <1>6, SoleAsker
  <2>2. Editing(r) = {} /\ Whole(r)
    BY <1>6, <1>4, RulesParts
  <2>3. OfOneMaking(rule'[r], editing'[e].todo, e)
    BY <1>2, <2>2
  <2> QED BY <2>1, <2>3, SoleEditorNext
<1>7. \A q \in Rules \ mixed' : q /= r => Whole(q)'
  BY AskedOthers
<1>8. ~Settled'
  BY <1>1, AskedType
<1>9. CachedIsCurrent' /\ \A m \in Messages : LoadIsCurrent(m)'
  BY <1>8, Unsettled
<1> QED BY <1>5, <1>6, <1>7, <1>9 DEF RulesInv, RuleIsWhole, Whole

\* A rule is updated.
LEMMA UpdateKeeps ==
  ASSUME RulesInv, NEW e \in Editors, NEW r \in Rules,
         NEW fields \in SUBSET {"active", "conds", "acts"}, UpdateRule(e, r, fields)
  PROVE  RulesInv'
<1>1. PICK b \in BOOLEAN :
        EditAsked(e, r, (IF "active" \in fields THEN {SetActive(b)} ELSE {})
                        \cup (IF "conds" \in fields THEN ReplaceConds ELSE {})
                        \cup (IF "acts" \in fields THEN ReplaceActs ELSE {}))
  BY DEF UpdateRule
<1>2. PICK T : T = (IF "active" \in fields THEN {SetActive(b)} ELSE {})
                   \cup (IF "conds" \in fields THEN ReplaceConds ELSE {})
                   \cup (IF "acts" \in fields THEN ReplaceActs ELSE {})
  OBVIOUS
<1>3. EditAsked(e, r, T) /\ UNCHANGED rule /\ rule[r].state = "live"
  BY <1>1, <1>2 DEF UpdateRule
<1>4. T \in SUBSET Statements
  BY <1>2 DEF Statements
<1>5. PICK U : U = T \cup {ThrowAway}
  OBVIOUS
<1>6. U \in SUBSET Statements
  BY <1>4, <1>5 DEF Statements
<1>7. PICK x : x = rule[r]
  OBVIOUS
<1>8. x \in RuleRows /\ x.state = "live"
  BY <1>3, <1>7 DEF RulesInv, RulesTypeOK
<1>9. ASSUME Editing(r) = {}, Whole(r) PROVE OfOneMaking(x, U, e)
  <2>1. (\E f \in Editors : x.conds = {f} \X Parts) /\ (\E f \in Editors : x.acts = {f})
    BY <1>7, <1>8, <1>9, NoEditor
  <2>2. U = (IF "active" \in fields THEN {SetActive(b)} ELSE {})
            \cup (IF "conds" \in fields THEN ReplaceConds ELSE {})
            \cup (IF "acts" \in fields THEN ReplaceActs ELSE {}) \cup {ThrowAway}
    BY <1>2, <1>5
  <2> QED BY <1>6, <1>8, <2>1, <2>2, AskedOfOne
<1> QED BY <1>3, <1>4, <1>5, <1>7, <1>9, AskedKeeps

\* A rule is deleted.
LEMMA DeleteKeeps ==
  ASSUME RulesInv, NEW e \in Editors, NEW r \in Rules, DeleteRule(e, r)
  PROVE  RulesInv'
<1>1. {Retire} \in SUBSET Statements /\ EditAsked(e, r, {Retire}) /\ UNCHANGED rule
  BY DEF DeleteRule, Statements
<1>2. PICK x : x = rule[r]
  OBVIOUS
<1>3. PICK U : U = {Retire} \cup {ThrowAway}
  OBVIOUS
<1>4. ASSUME Editing(r) = {}, Whole(r) PROVE OfOneMaking(x, U, e)
  <2>1. (\E f \in Editors : x.conds = {f} \X Parts) /\ (\E f \in Editors : x.acts = {f})
    BY <1>2, <1>4, NoEditor DEF DeleteRule
  <2>2. /\ U = {Retire, ThrowAway} /\ ClearConds \notin U /\ ClearActs \notin U
             /\ InsertAct \notin U
        /\ \A i \in Parts : InsertCond(i) \notin U
    BY <1>3, StatementNumbers
  <2>3. x.state = "live"
    BY <1>2 DEF DeleteRule
  <2> QED BY <2>1, <2>2, <2>3 DEF OfOneMaking
<1> QED BY <1>1, <1>2, <1>3, <1>4, AskedKeeps

\* A statement of the request is written.
LEMMA WriteKeeps ==
  ASSUME RulesInv, NEW e \in Editors, WriteRule(e)
  PROVE  RulesInv'
<1>1. RulesTypeOK
  BY DEF RulesInv
<1>2. PICK s \in editing[e].todo \ {ThrowAway} :
        /\ IsNext(e, s)
        /\ rule' = [rule EXCEPT ![editing[e].rule] = RuleWritten(e, s, @)]
        /\ editing' = [editing EXCEPT ![e].todo = @ \ {s}]
        /\ UNCHANGED <<cached, loading, late, dirty, mixed, edits, broken>>
  BY DEF WriteRule
<1>3. PICK T : T = editing[e].todo
  OBVIOUS
<1>4. PICK r : r = editing[e].rule
  OBVIOUS
<1>5. r \in Rules /\ T \in SUBSET Statements /\ ThrowAway \in T /\ s \in T /\ s /= ThrowAway
  BY <1>1, <1>2, <1>3, <1>4, EditFacts
<1>6. PICK y : y = RuleWritten(e, s, rule[r])
  OBVIOUS
<1>7. PICK x : x = rule[r]
  OBVIOUS
<1>8. x \in RuleRows
  BY <1>1, <1>5, <1>7 DEF RulesTypeOK
<1>9. y \in RuleRows
  BY <1>5, <1>6, <1>7, <1>8, WrittenIs
<1>10. rule' = [rule EXCEPT ![r] = y]
  BY <1>2, <1>4, <1>6
<1>11. /\ editing[e] = [rule |-> r, todo |-> T]
       /\ editing'= [editing EXCEPT ![e] = [rule |-> r, todo |-> T \ {s}]]
  <2>1. editing[e] \in Edits /\ editing[e] /= NoEdit
    BY <1>1, <1>4, <1>5, EditFacts, RulesAssumption DEF RulesTypeOK
  <2>2. editing[e] = [rule |-> r, todo |-> T]
    BY <2>1, <1>3, <1>4 DEF Edits
  <2>3. [editing[e] EXCEPT !.todo = T \ {s}] = [rule |-> r, todo |-> T \ {s}]
    BY <2>2
  <2>4. editing' = [editing EXCEPT ![e] = [editing[e] EXCEPT !.todo = T \ {s}]]
    BY <1>1, <1>2, <1>3 DEF RulesTypeOK
  <2> QED BY <2>2, <2>3, <2>4
<1>12. /\ rule'[r] = y /\ \A q \in Rules \ {r} : rule'[q] = rule[q]
       /\ editing'[e] = [rule |-> r, todo |-> T \ {s}]
            /\ \A f \in Editors \ {e} : editing'[f] = editing[f]
  BY <1>1, <1>5, <1>10, <1>11 DEF RulesTypeOK
<1>13. RulesTypeOK'
  <2>1. [rule |-> r, todo |-> T \ {s}] \in Edits
    BY <1>5 DEF Edits
  <2>2. rule' \in [Rules -> RuleRows] /\ editing' \in [Editors -> Edits]
    BY <1>1, <1>5, <1>9, <1>10, <1>11, <2>1 DEF RulesTypeOK
  <2>3. UNCHANGED <<cached, loading, late, dirty, mixed, edits, broken>>
    BY <1>2
  <2> QED BY <1>1, <2>2, <2>3 DEF RulesTypeOK
<1>14. ASSUME r \notin mixed PROVE Whole(r)'
  <2>1. Whole(r)
    BY <1>5, <1>14, RulesParts
  <2>2. e \in Editing(r)
    BY <1>4 DEF Editing
  <2>3. Editing(r) = {e}
    BY <1>5, <2>1, <2>2, AtMostOne
  <2>4. OfOneMaking(x, T, e)
    BY <1>3, <1>5, <1>7, <2>1, <2>3, SoleEditor
  <2>5. \A u \in T : ~Before(u, s)
    BY <1>2, <1>3 DEF IsNext
  <2>6. OfOneMaking(RuleWritten(e, s, x), T \ {s}, e)
    BY <1>5, <1>8, <2>4, <2>5, WrittenOfOneMaking
  <2>7. OfOneMaking(rule'[r], editing'[e].todo, e)
    BY <1>6, <1>7, <1>12, <2>6
  <2>8. (Editing(r) = {e})'
    BY <1>12, <2>3 DEF Editing
  <2> QED BY <1>5, <2>7, <2>8, SoleEditorNext
<1>15. ASSUME NEW q \in Rules \ mixed, q /= r PROVE Whole(q)'
  <2>1. Whole(q)
    BY RulesParts
  <2>2. \A f \in Editors : editing'[f] = editing[f] \/ (editing[f].rule /= q
             /\ editing'[f].rule /= q)
    BY <1>4, <1>12, <1>15
  <2> QED BY <1>12, <1>15, <2>1, <2>2, OtherRule
<1>16. ~Settled'
  BY <1>5, <1>12, RulesAssumption DEF Settled, NoEdit
<1>17. CachedIsCurrent' /\ \A m \in Messages : LoadIsCurrent(m)'
  BY <1>16, Unsettled
<1>18. mixed' = mixed
  BY <1>2
<1> QED BY <1>13, <1>14, <1>15, <1>17, <1>18 DEF RulesInv, RuleIsWhole, Whole

\* A request is over, answered or failed: the rules it does not edit stay whole.
LEMMA EndedOthers ==
  ASSUME RulesInv, NEW e \in Editors, editing' = [editing EXCEPT ![e] = NoEdit], UNCHANGED rule
  PROVE  \A q \in Rules \ mixed : q /= editing[e].rule => Whole(q)'
<1> SUFFICES ASSUME NEW q \in Rules \ mixed, q /= editing[e].rule PROVE Whole(q)'
  OBVIOUS
<1>1. Whole(q)
  BY RulesParts
<1>2. editing'[e].rule = 0 /\ \A f \in Editors \ {e} : editing'[f] = editing[f]
  BY DEF RulesInv, RulesTypeOK, NoEdit
<1>3. \A f \in Editors : editing'[f] = editing[f] \/ (editing[f].rule /= q
           /\ editing'[f].rule /= q)
  BY <1>2, RulesAssumption
<1> QED BY <1>1, <1>3, OtherRule

\* A rule that nobody edits any more.
LEMMA NoEditorNext ==
  ASSUME NEW r \in Rules, (Editing(r) = {})',
         rule'[r].state /= "live" => ~rule'[r].active,
         rule'[r].state = "live" =>
           /\ \E f \in Editors : rule'[r].conds = {f} \X Parts
           /\ \E f \in Editors : rule'[r].acts = {f}
  PROVE  Whole(r)'
  BY DEF Whole, RetiredIsOff, CondsOfOne, ActsOfOne

\* A request throws the entry away and is answered.
LEMMA InvalidateKeeps ==
  ASSUME RulesInv, NEW e \in Editors, Invalidate(e)
  PROVE  RulesInv'
<1>1. RulesTypeOK
  BY DEF RulesInv
<1>2. /\ editing[e].todo = {ThrowAway} /\ editing' = [editing EXCEPT ![e] = NoEdit]
      /\ cached' = NotCached /\ late' = FALSE /\ dirty' = FALSE
      /\ loading' = [m \in Messages |-> IF loading[m].at = "idle" THEN NotLoading
                                        ELSE [loading[m] EXCEPT !.late = TRUE]]
      /\ UNCHANGED <<rule, mixed, edits, broken>>
  BY DEF Invalidate
<1>3. PICK r : r = editing[e].rule
  OBVIOUS
<1>4. r \in Rules
  BY <1>1, <1>2, <1>3, EditFacts
<1>5. RulesTypeOK'
  <2>1. NoEdit \in Edits /\ NotCached \in [full : BOOLEAN, rules : SUBSET Copies]
    BY DEF Edits, NotCached
  <2>2. ASSUME NEW m \in Messages
        PROVE  (IF loading[m].at = "idle" THEN NotLoading
               ELSE [loading[m] EXCEPT !.late = TRUE]) \in Loads
    <3>1. loading[m] \in Loads /\ NotLoading \in Loads
      BY <1>1 DEF RulesTypeOK, Loads, LoadRows, NotLoading
    <3> QED BY <3>1 DEF Loads, LoadRows
  <2>3. loading' \in [Messages -> Loads]
    BY <1>2, <2>2
  <2>4. editing' \in [Editors -> Edits]
    BY <1>1, <1>2, <2>1 DEF RulesTypeOK
  <2>5. cached' \in [full : BOOLEAN, rules : SUBSET Copies] /\ late' \in BOOLEAN
             /\ dirty' \in BOOLEAN
    BY <1>2, <2>1
  <2>6. UNCHANGED <<rule, mixed, edits, broken>>
    BY <1>2
  <2> QED BY <1>1, <2>3, <2>4, <2>5, <2>6 DEF RulesTypeOK
<1>6. ASSUME r \notin mixed PROVE Whole(r)'
  <2>1. Whole(r)
    BY <1>4, <1>6, RulesParts
  <2>2. Editing(r) = {e}
    BY <1>3, <1>4, <2>1, AtMostOne DEF Editing
  <2>3. PICK T : T = {ThrowAway}
    OBVIOUS
  <2>4. PICK x : x = rule[r]
    OBVIOUS
  <2>5. OfOneMaking(x, T, e)
    BY <1>2, <1>4, <2>1, <2>2, <2>3, <2>4, SoleEditor
  <2>6. /\ ClearConds \notin T /\ ClearActs \notin T /\ InsertAct \notin T
        /\ \A i \in Parts : InsertCond(i) \notin T
    BY <2>3, StatementNumbers
  <2>7. {i \in Parts : InsertCond(i) \notin T} = Parts
    BY <2>6
  <2>8. /\ x.state /= "live" => ~x.active
        /\ x.state = "live" => /\ \E f \in Editors : x.conds = {f} \X Parts
                               /\ \E f \in Editors : x.acts = {f}
    BY <2>5, <2>6, <2>7 DEF OfOneMaking
  <2>9. (Editing(r) = {})'
    BY <1>1, <1>2, <1>4, <2>2, RulesAssumption DEF Editing, NoEdit, RulesTypeOK
  <2>10. rule'[r] = x
    BY <1>2, <2>4
  <2> QED BY <1>4, <2>8, <2>9, <2>10, NoEditorNext
<1>7. \A q \in Rules \ mixed : q /= r => Whole(q)'
  BY <1>2, <1>3, EndedOthers
<1>8. CachedIsCurrent'
  BY <1>2 DEF CachedIsCurrent, NotCached
<1>9. ASSUME NEW m \in Messages PROVE LoadIsCurrent(m)'
  <2>1. loading'[m] = IF loading[m].at = "idle" THEN NotLoading
             ELSE [loading[m] EXCEPT !.late = TRUE]
    BY <1>2
  <2>2. loading[m] \in Loads
    BY <1>1 DEF RulesTypeOK
  <2>3. loading'[m].at = "idle" \/ loading'[m].late
    BY <2>1, <2>2 DEF NotLoading, Loads, LoadRows
  <2> QED BY <2>3 DEF LoadIsCurrent
<1>10. mixed' = mixed
  BY <1>2
<1> QED BY <1>5, <1>6, <1>7, <1>8, <1>9, <1>10 DEF RulesInv, RuleIsWhole, Whole

\* A statement fails: its rule is mixed from then on.
LEMMA WriteFailsKeeps ==
  ASSUME RulesInv, NEW e \in Editors, WriteFails(e)
  PROVE  RulesInv'
<1>1. RulesTypeOK
  BY DEF RulesInv
<1>2. /\ editing[e].todo \ {ThrowAway} /= {} /\ editing' = [editing EXCEPT ![e] = NoEdit]
      /\ broken < MaxBroken /\ broken' = broken + 1
      /\ dirty' = TRUE /\ mixed' = mixed \cup {editing[e].rule}
      /\ UNCHANGED <<rule, cached, loading, late, edits>>
  BY DEF WriteFails
<1>3. editing[e].rule \in Rules
  BY <1>1, <1>2, EditFacts
<1>4. RulesTypeOK'
  <2>1. NoEdit \in Edits
    BY DEF Edits
  <2>2. editing' \in [Editors -> Edits]
    BY <1>1, <1>2, <2>1 DEF RulesTypeOK
  <2>3. mixed' \subseteq Rules /\ dirty' \in BOOLEAN
    BY <1>1, <1>2, <1>3 DEF RulesTypeOK
  <2>4. broken \in Nat /\ broken < MaxBroken /\ broken' = broken + 1 /\ MaxBroken \in Nat
    BY <1>1, <1>2, RulesAssumption DEF RulesTypeOK
  <2>5. broken' \in 0..MaxBroken
    BY <2>4
  <2>6. UNCHANGED <<rule, cached, loading, late, edits>>
    BY <1>2
  <2> QED BY <1>1, <2>2, <2>3, <2>5, <2>6 DEF RulesTypeOK
<1>5. \A q \in Rules \ mixed' : Whole(q)'
  BY <1>2, EndedOthers
<1>6. ~Settled'
  BY <1>2 DEF Settled
<1>7. CachedIsCurrent' /\ \A m \in Messages : LoadIsCurrent(m)'
  BY <1>6, Unsettled
<1> QED BY <1>4, <1>5, <1>7 DEF RulesInv, RuleIsWhole, Whole

\* An evaluation's step leaves the rules and their editors alone.
LEMMA RulesLeft ==
  ASSUME RulesInv, UNCHANGED <<rule, editing, dirty, mixed>>
  PROVE  /\ \A q \in Rules \ mixed' : Whole(q)'
         /\ Applicable' = Applicable /\ (Settled' <=> Settled)
         /\ \A S : CopiesOf(S)' = CopiesOf(S)
<1>1. ASSUME NEW q \in Rules \ mixed' PROVE Whole(q)'
  BY RulesParts, OtherRule
<1>2. Applicable' = Applicable /\ (Settled' <=> Settled)
  BY DEF Applicable, Settled
<1> QED BY <1>1, <1>2 DEF CopiesOf

\* What LoadIsCurrent says of an evaluation l.
IsCurrent(l) ==
  Settled /\ l.at /= "idle" /\ ~l.late =>
    /\ l.todo \subseteq Applicable /\ l.rules = CopiesOf(Applicable \ l.todo)
    /\ l.at = "acts" => l.read \in l.todo /\ l.conds = rule[l.read].conds

\* One evaluation moves: what it then has is current, and so is the entry.
LEMMA OneLoad ==
  ASSUME RulesInv, NEW m \in Messages, NEW l \in Loads, IsCurrent(l),
         loading' = [loading EXCEPT ![m] = l], UNCHANGED <<rule, editing, dirty, mixed, edits>>,
         cached' \in [full : BOOLEAN, rules : SUBSET Copies], late' \in BOOLEAN,
         broken' \in 0..MaxBroken,
         cached'.full /\ ~late' /\ Settled => cached'.rules = CopiesOf(Applicable)
  PROVE  RulesInv'
<1>1. RulesTypeOK'
  <2>1. loading' \in [Messages -> Loads]
    BY DEF RulesInv, RulesTypeOK
  <2> QED BY <2>1 DEF RulesInv, RulesTypeOK
<1>2. \A q \in Rules \ mixed' : Whole(q)'
  BY RulesLeft
<1>3. Applicable' = Applicable /\ (Settled' <=> Settled) /\ \A S : CopiesOf(S)' = CopiesOf(S)
  BY RulesLeft
<1>4. CachedIsCurrent'
  BY <1>3 DEF CachedIsCurrent, CopiesOf
<1>5. ASSUME NEW k \in Messages PROVE LoadIsCurrent(k)'
  <2>1. loading'[k] = IF k = m THEN l ELSE loading[k]
    BY DEF RulesInv, RulesTypeOK
  <2>2. IsCurrent(loading[k])
    BY DEF RulesInv, LoadIsCurrent, IsCurrent
  <2>3. PICK i : i = loading'[k]
    OBVIOUS
  <2>4. IsCurrent(i)
    BY <2>1, <2>2, <2>3
  <2>5. Settled' /\ i.at /= "idle" /\ ~i.late =>
          /\ i.todo \subseteq Applicable' /\ i.rules = CopiesOf(Applicable \ i.todo)
          /\ i.at = "acts" => i.read \in i.todo /\ i.conds = rule'[i.read].conds
    BY <1>3, <2>4 DEF IsCurrent
  <2>6. CopiesOf(Applicable \ i.todo) = {[rule |-> r, conds |-> rule'[r].conds,
             acts |-> rule'[r].acts] :
                                          r \in Applicable' \ i.todo}
    BY <1>3 DEF CopiesOf
  <2> QED BY <2>3, <2>5, <2>6 DEF LoadIsCurrent, CopiesOf
<1> QED BY <1>1, <1>2, <1>4, <1>5 DEF RulesInv, RuleIsWhole, Whole

\* An evaluation reads the rows.
LEMMA ReadRowsKeeps ==
  ASSUME RulesInv, NEW m \in Messages, ReadRows(m)
  PROVE  RulesInv'
<1>1. PICK l : l = [NotLoading EXCEPT !.at = "rule", !.todo = Applicable]
  OBVIOUS
<1>2. l = [at |-> "rule", todo |-> Applicable, read |-> 0, conds |-> {}, rules |-> {},
           late |-> FALSE]
  BY <1>1 DEF NotLoading
<1>3. l \in Loads
  BY <1>2 DEF Loads, LoadRows, Applicable
<1>4. CopiesOf(Applicable \ l.todo) = {}
  BY <1>2 DEF CopiesOf
<1>5. IsCurrent(l)
  BY <1>2, <1>4 DEF IsCurrent
<1>6. loading' = [loading EXCEPT ![m] = l] /\ UNCHANGED <<rule, editing, cached, late, dirty,
           mixed, edits, broken>>
  BY <1>1 DEF ReadRows
<1>7. /\ cached' \in [full : BOOLEAN, rules : SUBSET Copies] /\ late' \in BOOLEAN
      /\ broken' \in 0..MaxBroken
      /\ cached'.full /\ ~late' /\ Settled => cached'.rules = CopiesOf(Applicable)
  BY <1>6 DEF RulesInv, RulesTypeOK, CachedIsCurrent
<1> QED BY <1>3, <1>5, <1>6, <1>7, OneLoad

\* It reads a rule's conditions.
LEMMA ReadCondsKeeps ==
  ASSUME RulesInv, NEW m \in Messages, ReadConds(m)
  PROVE  RulesInv'
<1>1. PICK r \in loading[m].todo :
        loading' = [loading EXCEPT ![m] =
          [loading[m] EXCEPT !.at = "acts", !.read = r, !.conds = rule[r].conds]]
  BY DEF ReadConds
<1>2. loading[m] \in Loads /\ loading[m].at = "rule"
  BY DEF RulesInv, RulesTypeOK, ReadConds
<1>3. PICK k : k = loading[m]
  OBVIOUS
<1>4. PICK c : c = rule[r].conds
  OBVIOUS
<1>5. r \in Rules /\ c \subseteq Editors \X Parts
  <2>1. r \in Rules
    BY <1>1, <1>2 DEF Loads, LoadRows
  <2>2. rule[r] \in RuleRows
    BY <2>1 DEF RulesInv, RulesTypeOK
  <2> QED BY <1>4, <2>1, <2>2 DEF RuleRows
<1>6. PICK l : l = [k EXCEPT !.at = "acts", !.read = r, !.conds = c]
  OBVIOUS
<1>7. loading' = [loading EXCEPT ![m] = l]
  BY <1>1, <1>3, <1>4, <1>6
<1>8. k \in LoadRows
  BY <1>2, <1>3 DEF Loads
<1>9. l \in LoadRows
  BY <1>5, <1>6, <1>8 DEF LoadRows
<1>10. l.at = "acts" /\ l.read = r /\ l.conds = c /\ l.todo = k.todo /\ l.rules = k.rules
  BY <1>6, <1>8 DEF LoadRows
<1>11. l.late <=> k.late
  BY <1>6, <1>8 DEF LoadRows
<1>12. l \in Loads
  BY <1>5, <1>9, <1>10 DEF Loads
<1>13. IsCurrent(k)
  BY <1>3 DEF RulesInv, LoadIsCurrent, IsCurrent
<1>14. IsCurrent(l)
  BY <1>1, <1>2, <1>3, <1>4, <1>10, <1>11, <1>13 DEF IsCurrent
<1>15. UNCHANGED <<rule, editing, cached, late, dirty, mixed, edits, broken>>
  BY DEF ReadConds
<1>16. /\ cached' \in [full : BOOLEAN, rules : SUBSET Copies] /\ late' \in BOOLEAN
       /\ broken' \in 0..MaxBroken
       /\ cached'.full /\ ~late' /\ Settled => cached'.rules = CopiesOf(Applicable)
  BY <1>15 DEF RulesInv, RulesTypeOK, CachedIsCurrent
<1> QED BY <1>7, <1>12, <1>14, <1>15, <1>16, OneLoad

\* It reads the rule's actions.
LEMMA ReadActsKeeps ==
  ASSUME RulesInv, NEW m \in Messages, ReadActs(m)
  PROVE  RulesInv'
<1>1. PICK k : k = loading[m]
  OBVIOUS
<1>2. k \in Loads /\ k.at = "acts"
  BY <1>1 DEF RulesInv, RulesTypeOK, ReadActs
<1>3. PICK r : r = k.read
  OBVIOUS
<1>4. PICK x : x = [rule |-> r, conds |-> k.conds, acts |-> rule[r].acts]
  OBVIOUS
<1>5. PICK l : l = [NotLoading EXCEPT !.at = "rule", !.todo = k.todo \ {r},
           !.rules = k.rules \cup {x}, !.late = k.late]
  OBVIOUS
<1>6. loading' = [loading EXCEPT ![m] = l] /\ UNCHANGED <<rule, editing, cached, late, dirty,
           mixed, edits, broken>>
  BY <1>1, <1>3, <1>4, <1>5 DEF ReadActs
<1>7. r \in Rules /\ k.conds \subseteq Editors \X Parts
  BY <1>2, <1>3 DEF Loads, LoadRows
<1>8. x \in Copies
  <2>1. rule[r] \in RuleRows
    BY <1>7 DEF RulesInv, RulesTypeOK
  <2> QED BY <1>4, <1>7, <2>1 DEF RuleRows, Copies
<1>9. k \in LoadRows /\ NotLoading \in LoadRows
  BY <1>2 DEF Loads, LoadRows, NotLoading
<1>10. k.late \in BOOLEAN /\ k.todo \subseteq Rules /\ k.rules \subseteq Copies
  BY <1>9 DEF LoadRows
<1>11. l \in LoadRows
  BY <1>5, <1>8, <1>9, <1>10 DEF LoadRows
<1>12. l.at = "rule" /\ l.todo = k.todo \ {r} /\ l.rules = k.rules \cup {x}
  BY <1>5, <1>9 DEF LoadRows
<1>13. l.late <=> k.late
  BY <1>5, <1>9, <1>10 DEF LoadRows
<1>14. l \in Loads
  BY <1>11, <1>12 DEF Loads
<1>15. IsCurrent(k)
  BY <1>1 DEF RulesInv, LoadIsCurrent, IsCurrent
<1>16. ASSUME Settled, ~k.late PROVE l.rules = CopiesOf(Applicable \ l.todo)
  <2>1. /\ k.todo \subseteq Applicable /\ k.rules = CopiesOf(Applicable \ k.todo)
        /\ r \in k.todo /\ k.conds = rule[r].conds
    BY <1>2, <1>3, <1>15, <1>16 DEF IsCurrent
  <2>2. x = [rule |-> r, conds |-> rule[r].conds, acts |-> rule[r].acts]
    BY <1>4, <2>1
  <2>3. Applicable \ l.todo = (Applicable \ k.todo) \cup {r}
    BY <1>12, <2>1
  <2>4. CopiesOf((Applicable \ k.todo) \cup {r}) = CopiesOf(Applicable \ k.todo) \cup {x}
    BY <2>2 DEF CopiesOf
  <2> QED BY <1>12, <2>1, <2>3, <2>4
<1>17. IsCurrent(l)
  BY <1>2, <1>12, <1>13, <1>15, <1>16 DEF IsCurrent
<1>18. /\ cached' \in [full : BOOLEAN, rules : SUBSET Copies] /\ late' \in BOOLEAN
       /\ broken' \in 0..MaxBroken
       /\ cached'.full /\ ~late' /\ Settled => cached'.rules = CopiesOf(Applicable)
  BY <1>6 DEF RulesInv, RulesTypeOK, CachedIsCurrent
<1> QED BY <1>6, <1>14, <1>17, <1>18, OneLoad

\* An evaluation that is over says nothing.
LEMMA NotLoadingIsCurrent == NotLoading \in Loads /\ IsCurrent(NotLoading)
  BY DEF Loads, LoadRows, NotLoading, IsCurrent

\* An evaluation puts the entry.
LEMMA PutRulesKeeps ==
  ASSUME RulesInv, NEW m \in Messages, PutRules(m)
  PROVE  RulesInv'
<1>1. PICK k : k = loading[m]
  OBVIOUS
<1>2. k \in Loads /\ k.at = "rule" /\ k.todo = {}
  BY <1>1 DEF RulesInv, RulesTypeOK, PutRules
<1>3. /\ cached' = [full |-> TRUE, rules |-> k.rules] /\ late' = k.late
      /\ loading' = [loading EXCEPT ![m] = NotLoading]
      /\ UNCHANGED <<rule, editing, dirty, mixed, edits, broken>>
  BY <1>1 DEF PutRules
<1>4. IsCurrent(k)
  BY <1>1 DEF RulesInv, LoadIsCurrent, IsCurrent
<1>5. Applicable \ {} = Applicable
  OBVIOUS
<1>6. cached'.full /\ ~late' /\ Settled => cached'.rules = CopiesOf(Applicable)
  BY <1>2, <1>3, <1>4, <1>5 DEF IsCurrent
<1>7. cached' \in [full : BOOLEAN, rules : SUBSET Copies] /\ late' \in BOOLEAN
  BY <1>2, <1>3 DEF Loads, LoadRows
<1>8. broken' \in 0..MaxBroken
  BY <1>3 DEF RulesInv, RulesTypeOK
<1> QED BY <1>3, <1>6, <1>7, <1>8, NotLoadingIsCurrent, OneLoad

\* A read fails.
LEMMA LoadFailsKeeps ==
  ASSUME RulesInv, NEW m \in Messages, LoadFails(m)
  PROVE  RulesInv'
<1>1. /\ broken < MaxBroken /\ broken' = broken + 1
      /\ loading' = [loading EXCEPT ![m] = NotLoading]
      /\ UNCHANGED <<rule, editing, cached, late, dirty, mixed, edits>>
  BY DEF LoadFails
<1>2. broken' \in 0..MaxBroken
  BY <1>1, RulesAssumption DEF RulesInv, RulesTypeOK
<1>3. /\ cached' \in [full : BOOLEAN, rules : SUBSET Copies] /\ late' \in BOOLEAN
      /\ cached'.full /\ ~late' /\ Settled => cached'.rules = CopiesOf(Applicable)
  BY <1>1 DEF RulesInv, RulesTypeOK, CachedIsCurrent
<1> QED BY <1>1, <1>2, <1>3, NotLoadingIsCurrent, OneLoad

\* The entry's time is up.
LEMMA EntryExpiresKeeps == RulesInv /\ EntryExpires => RulesInv'
<1> SUFFICES ASSUME RulesInv, EntryExpires PROVE RulesInv'
  OBVIOUS
<1>1. cached' = NotCached /\ late' = FALSE /\ UNCHANGED <<rule, editing, loading, dirty, mixed,
           edits, broken>>
  BY DEF EntryExpires
<1>2. RulesTypeOK'
  <2>1. NotCached \in [full : BOOLEAN, rules : SUBSET Copies]
    BY DEF NotCached
  <2> QED BY <1>1, <2>1 DEF RulesInv, RulesTypeOK
<1>3. \A q \in Rules \ mixed' : Whole(q)'
  BY <1>1, RulesLeft
<1>4. CachedIsCurrent'
  BY <1>1 DEF CachedIsCurrent, NotCached
<1>5. ASSUME NEW m \in Messages PROVE LoadIsCurrent(m)'
  <2>1. LoadIsCurrent(m)
    BY DEF RulesInv
  <2> QED BY <1>1, <2>1 DEF LoadIsCurrent, Settled, Applicable, CopiesOf
<1> QED BY <1>2, <1>3, <1>4, <1>5 DEF RulesInv, RuleIsWhole, Whole

\* Every step keeps the invariant.
LEMMA RulesStep == RulesInv /\ [RulesNext]_ruleVars => RulesInv'
<1> SUFFICES ASSUME RulesInv, [RulesNext]_ruleVars PROVE RulesInv'
  OBVIOUS
<1>1. CASE UNCHANGED ruleVars
  BY <1>1 DEF ruleVars, RulesInv, RulesTypeOK, RuleIsWhole, RetiredIsOff, CondsOfOne, ActsOfOne,
     Editing,
              CachedIsCurrent, LoadIsCurrent, Settled, Applicable, CopiesOf
<1>2. CASE RulesNext
  BY <1>2, CreateKeeps, UpdateKeeps, DeleteKeeps, WriteKeeps, InvalidateKeeps, WriteFailsKeeps,
     ReadRowsKeeps, ReadCondsKeeps, ReadActsKeeps, PutRulesKeeps, LoadFailsKeeps,
          EntryExpiresKeeps
     DEF RulesNext
<1> QED BY <1>1, <1>2

\* A rule has the conditions and the action of one request, and the engine's copy of the rules is the
\* stored one once every edit is answered, but for rules two requests wrote at once, failures and
\* entries put late (RulesInv).
THEOREM RulesAreCurrent == RulesSpec => []RulesInv
  BY RulesInitially, RulesStep, PTL DEF RulesSpec

-----------------------------------------------------------------------------
(* Business hours.                                                          *)

\* There are no hours.
LEMMA HoursInitially == HoursInit => HoursTypeOK /\ HoursAreThoseAsked
<1> SUFFICES ASSUME HoursInit PROVE HoursTypeOK /\ HoursAreThoseAsked
  OBVIOUS
<1>1. posting \in [Posters -> {NotPosting} \cup {p \in Requested : p.done <= Len(p.asked)}]
  BY DEF HoursInit
<1> QED BY <1>1 DEF HoursInit, HoursTypeOK, HoursAreThoseAsked

\* A request that is at work has inserted the first of what it listed.
LEMMA PostingFacts ==
  ASSUME HoursTypeOK, NEW q \in Posters
  PROVE  /\ posting[q].at = "idle" => posting[q] = NotPosting
         /\ posting[q] /= NotPosting => /\ posting[q].asked \in Seq(Entries)
              /\ posting[q].done \in Nat
                                        /\ posting[q].done <= Len(posting[q].asked)
                                        /\ posting[q].at = "insert"
         /\ posting[q].done < Len(posting[q].asked) => posting[q] /= NotPosting
<1>1. posting[q] \in {NotPosting} \cup {p \in Requested : p.done <= Len(p.asked)}
  BY DEF HoursTypeOK
<1>2. CASE posting[q] = NotPosting
  BY <1>2 DEF NotPosting
<1>3. CASE posting[q] \in Requested /\ posting[q].done <= Len(posting[q].asked)
  BY <1>3 DEF Requested, NotPosting
<1> QED BY <1>1, <1>2, <1>3

\* What a list's next entry adds.
LEMMA ListedOne ==
  ASSUME NEW s \in Seq(Entries), NEW n \in Nat, n < Len(s)
  PROVE  /\ s[n + 1] \in Entries
         /\ Listed(s, n) \cup {s[n + 1]} = Listed(s, n + 1)
         /\ Listed(s, 0) = {}
<1>1. \A i : i \in 1..(n + 1) <=> i \in 1..n \/ i = n + 1
  OBVIOUS
<1>2. s[n + 1] \in Entries
  OBVIOUS
<1>3. Listed(s, n) \cup {s[n + 1]} = Listed(s, n + 1)
  BY <1>1 DEF Listed
<1> QED BY <1>2, <1>3 DEF Listed

\* The old rows are deleted.
LEMMA ReplaceKeepsHours ==
  ASSUME HoursTypeOK, HoursAreThoseAsked, NEW q \in Posters, NEW n \in 1..MaxEntries,
         NEW s \in [1..n -> Entries], ReplaceSchedules(q, s)
  PROVE  HoursTypeOK' /\ HoursAreThoseAsked'
<1>1. /\ posting[q].at = "idle" /\ hourRows' = {} /\ UNCHANGED settled
      /\ posting' = [posting EXCEPT ![q] = [at |-> "insert", asked |-> s, done |-> 0]]
      /\ overlaid' = (overlaid \/ \E p \in Posters : posting[p].at /= "idle")
  BY DEF ReplaceSchedules
<1>2. s \in Seq(Entries) /\ Len(s) = n
  BY HoursAssumption
<1>3. PICK r : r = [at |-> "insert", asked |-> s, done |-> 0]
  OBVIOUS
<1>4. r \in Requested /\ r.done <= Len(r.asked) /\ r.asked = s /\ r.done = 0
  BY <1>2, <1>3 DEF Requested
<1>5. posting' \in [Posters -> {NotPosting} \cup {p \in Requested : p.done <= Len(p.asked)}]
  BY <1>1, <1>3, <1>4 DEF HoursTypeOK
<1>6. overlaid' \in BOOLEAN
  BY <1>1 DEF HoursTypeOK
<1>7. HoursTypeOK'
  BY <1>1, <1>5, <1>6 DEF HoursTypeOK
<1>8. ASSUME ~overlaid' PROVE HoursAreThoseAsked'
  <2>1. \A p \in Posters : posting[p] = NotPosting
    BY <1>1, <1>8, PostingFacts
  <2>2. posting'[q] = r /\ \A p \in Posters \ {q} : posting'[p] = NotPosting
    BY <1>1, <1>3, <2>1 DEF HoursTypeOK
  <2>3. Listed(s, 0) = {}
    BY DEF Listed
  <2> QED BY <1>1, <1>4, <2>2, <2>3 DEF HoursAreThoseAsked
<1>9. overlaid' => HoursAreThoseAsked'
  BY DEF HoursAreThoseAsked
<1> QED BY <1>7, <1>8, <1>9

\* The next row is inserted, or refused.
LEMMA InsertKeepsHours ==
  ASSUME HoursTypeOK, HoursAreThoseAsked, NEW q \in Posters, InsertRow(q)
  PROVE  HoursTypeOK' /\ HoursAreThoseAsked'
<1>1. PICK k : k = posting[q]
  OBVIOUS
<1>2. PICK x : x = k.asked[k.done + 1]
  OBVIOUS
<1>3. k.done < Len(k.asked) /\ k \in Requested /\ k.asked \in Seq(Entries) /\ k.done \in Nat
  <2>1. k.done < Len(k.asked)
    BY <1>1 DEF InsertRow
  <2>2. k /= NotPosting
    BY <1>1, <2>1, PostingFacts
  <2> QED BY <1>1, <2>1, <2>2 DEF HoursTypeOK, Requested
<1>4. x \in Entries /\ Listed(k.asked, k.done) \cup {x} = Listed(k.asked, k.done + 1)
  BY <1>2, <1>3, ListedOne
<1>5. CASE \E y \in hourRows : y.day = x.day
  <2>1. posting' = [posting EXCEPT ![q] = NotPosting] /\ overlaid' = TRUE
             /\ UNCHANGED <<hourRows, settled>>
    BY <1>1, <1>2, <1>5 DEF InsertRow
  <2>2. posting' \in [Posters -> {NotPosting} \cup {p \in Requested : p.done <= Len(p.asked)}]
    BY <2>1 DEF HoursTypeOK
  <2> QED BY <2>1, <2>2 DEF HoursTypeOK, HoursAreThoseAsked
<1>6. CASE ~\E y \in hourRows : y.day = x.day
  <2>1. /\ hourRows' = hourRows \cup {x} /\ posting' = [posting EXCEPT ![q].done = @ + 1]
        /\ UNCHANGED <<overlaid, settled>>
    BY <1>1, <1>2, <1>6 DEF InsertRow
  <2>2. PICK r : r = [at |-> "insert", asked |-> k.asked, done |-> k.done + 1]
    OBVIOUS
  <2>3. k = [at |-> "insert", asked |-> k.asked, done |-> k.done]
    BY <1>3 DEF Requested
  <2>4. [k EXCEPT !.done = k.done + 1] = r
    BY <2>2, <2>3
  <2>5. posting' = [posting EXCEPT ![q] = r]
    BY <1>1, <2>1, <2>4 DEF HoursTypeOK
  <2>6. r \in Requested /\ r.done <= Len(r.asked) /\ r.asked = k.asked /\ r.done = k.done + 1
    BY <1>3, <2>2 DEF Requested
  <2>7. posting' \in [Posters -> {NotPosting} \cup {p \in Requested : p.done <= Len(p.asked)}]
    BY <2>5, <2>6 DEF HoursTypeOK
  <2>8. \A a, b \in hourRows' : a.day = b.day => a = b
    BY <1>6, <2>1 DEF HoursTypeOK
  <2>9. HoursTypeOK'
    BY <1>4, <2>1, <2>7, <2>8 DEF HoursTypeOK
  <2>10. ASSUME ~overlaid PROVE HoursAreThoseAsked'
    <3>1. k /= NotPosting
      BY <1>1, <1>3, PostingFacts
    <3>2. hourRows = Listed(k.asked, k.done) /\ \A p \in Posters \ {q} : posting[p] = NotPosting
      BY <1>1, <2>10, <3>1 DEF HoursAreThoseAsked
    <3>3. hourRows' = Listed(r.asked, r.done)
      BY <1>4, <2>1, <2>6, <3>2
    <3>4. posting'[q] = r /\ \A p \in Posters \ {q} : posting'[p] = NotPosting
      BY <2>5, <3>2 DEF HoursTypeOK
    <3> QED BY <3>3, <3>4 DEF HoursAreThoseAsked
  <2>11. overlaid => HoursAreThoseAsked'
    BY <2>1 DEF HoursAreThoseAsked
  <2> QED BY <2>9, <2>10, <2>11
<1> QED BY <1>5, <1>6

\* The request is answered.
LEMMA AnswerKeepsHours ==
  ASSUME HoursTypeOK, HoursAreThoseAsked, NEW q \in Posters, AnswerReplaced(q)
  PROVE  HoursTypeOK' /\ HoursAreThoseAsked'
<1>1. /\ posting[q].at = "insert" /\ posting[q].done = Len(posting[q].asked)
      /\ settled' = Listed(posting[q].asked, posting[q].done)
      /\ posting' = [posting EXCEPT ![q] = NotPosting]
      /\ UNCHANGED <<hourRows, overlaid>>
  BY DEF AnswerReplaced
<1>2. PICK k : k = posting[q]
  OBVIOUS
<1>3. k /= NotPosting
  BY <1>1, <1>2 DEF NotPosting
<1>4. k.asked \in Seq(Entries) /\ k.done \in Nat /\ k.done = Len(k.asked)
  BY <1>1, <1>2, <1>3, PostingFacts
<1>5. Listed(k.asked, k.done) \subseteq Entries
  BY <1>4 DEF Listed
<1>6. posting' \in [Posters -> {NotPosting} \cup {p \in Requested : p.done <= Len(p.asked)}]
  BY <1>1 DEF HoursTypeOK
<1>7. HoursTypeOK'
  BY <1>1, <1>2, <1>5, <1>6 DEF HoursTypeOK
<1>8. ASSUME ~overlaid PROVE HoursAreThoseAsked'
  <2>1. hourRows = Listed(k.asked, k.done) /\ \A p \in Posters \ {q} : posting[p] = NotPosting
    BY <1>2, <1>3, <1>8 DEF HoursAreThoseAsked
  <2>2. \A p \in Posters : posting'[p] = NotPosting
    BY <1>1, <2>1 DEF HoursTypeOK
  <2> QED BY <1>1, <1>2, <2>1, <2>2 DEF HoursAreThoseAsked
<1>9. overlaid => HoursAreThoseAsked'
  BY <1>1 DEF HoursAreThoseAsked
<1> QED BY <1>7, <1>8, <1>9

\* A statement fails.
LEMMA FailKeepsHours ==
  ASSUME HoursTypeOK, HoursAreThoseAsked, NEW q \in Posters, InsertFails(q)
  PROVE  HoursTypeOK' /\ HoursAreThoseAsked'
<1>1. posting' = [posting EXCEPT ![q] = NotPosting] /\ overlaid' = TRUE /\ UNCHANGED <<hourRows,
           settled>>
  BY DEF InsertFails
<1>2. posting' \in [Posters -> {NotPosting} \cup {p \in Requested : p.done <= Len(p.asked)}]
  BY <1>1 DEF HoursTypeOK
<1> QED BY <1>1, <1>2 DEF HoursTypeOK, HoursAreThoseAsked

\* Every step keeps what is said of the rows.
LEMMA HoursStep ==
  HoursTypeOK /\ HoursAreThoseAsked /\ [HoursNext]_hourVars => HoursTypeOK' /\ HoursAreThoseAsked'
<1> SUFFICES ASSUME HoursTypeOK, HoursAreThoseAsked, [HoursNext]_hourVars
             PROVE  HoursTypeOK' /\ HoursAreThoseAsked'
  OBVIOUS
<1>1. CASE UNCHANGED hourVars
  BY <1>1 DEF hourVars, HoursTypeOK, HoursAreThoseAsked
<1>2. CASE HoursNext
  BY <1>2, ReplaceKeepsHours, InsertKeepsHours, AnswerKeepsHours, FailKeepsHours DEF HoursNext
<1> QED BY <1>1, <1>2

\* Multiplication keeps the order.
LEMMA TimesGrows == ASSUME NEW a \in Nat, NEW b \in Nat, NEW N \in Nat,
     a <= b PROVE a * N <= b * N
  OBVIOUS

\* From minute o of day e to minute m of day d, going forward, in a week of W days of N minutes.
Elapsed(W, N, d, e, m, o) ==
  IF d = e /\ m < o THEN W * N + m - o
  ELSE IF d >= e THEN (d - e) * N + m - o
  ELSE (W + d - e) * N + m - o

\* The model's arithmetic, modulo the week.
SinceOpening(W, N, d, e, m, o) == (d * N + m + W * N - (e * N + o)) % (W * N)

\* It is the time elapsed.
LEMMA Clock ==
  ASSUME NEW W \in Nat \ {0}, NEW N \in Nat \ {0}, NEW d \in 0..(W - 1), NEW e \in 0..(W - 1),
         NEW m \in 0..(N - 1), NEW o \in 0..(N - 1)
  PROVE  SinceOpening(W, N, d, e, m, o) = Elapsed(W, N, d, e, m, o)
<1>1. ASSUME NEW P \in Nat \ {0}, NEW a \in Nat, a < P PROVE a % P = a /\ (a + P) % P = a
  BY <1>1
<1>2. PICK P : P = W * N
  OBVIOUS
<1>3. P \in Nat \ {0} /\ N <= P
  <2>1. P \in Nat /\ 1 * N <= W * N
    BY <1>2, TimesGrows
  <2> QED BY <1>2, <2>1
<1>4. PICK D : D = d * N
  OBVIOUS
<1>5. PICK E : E = e * N
  OBVIOUS
<1>6. D \in Nat /\ E \in Nat
  BY <1>4, <1>5
<1> SUFFICES (D + m + P - (E + o)) % P = Elapsed(W, N, d, e, m, o)
  BY <1>2, <1>4, <1>5 DEF SinceOpening
<1>7. CASE d = e /\ m >= o
  <2>1. D + m + P - (E + o) = (m - o) + P
    BY <1>3, <1>4, <1>5, <1>6, <1>7
  <2>2. m - o \in Nat /\ m - o < P
    BY <1>3, <1>7
  <2>3. ((m - o) + P) % P = m - o
    BY <1>1, <1>3, <2>2
  <2>4. Elapsed(W, N, d, e, m, o) = m - o
    BY <1>7 DEF Elapsed
  <2> QED BY <2>1, <2>3, <2>4
<1>8. CASE d = e /\ m < o
  <2>1. D + m + P - (E + o) = P + m - o
    BY <1>3, <1>4, <1>5, <1>6, <1>8
  <2>2. P + m - o \in Nat /\ P + m - o < P
    BY <1>3, <1>8
  <2>3. (P + m - o) % P = P + m - o
    BY <1>1, <1>3, <2>2
  <2>4. Elapsed(W, N, d, e, m, o) = P + m - o
    BY <1>2, <1>8 DEF Elapsed
  <2> QED BY <2>1, <2>3, <2>4
<1>9. CASE d > e
  <2>1. PICK K : K = (d - e) * N
    OBVIOUS
  <2>2. D = E + K
    BY <1>4, <1>5, <2>1
  <2>3. 1 * N <= K /\ K <= (W - 1) * N /\ K \in Nat
    <3>1. d - e \in Nat /\ 1 <= d - e /\ d - e <= W - 1 /\ W - 1 \in Nat
      BY <1>9
    <3> QED BY <2>1, <3>1, TimesGrows
  <2>4. (W - 1) * N = P - N
    BY <1>2
  <2>5. K + m - o \in Nat /\ K + m - o < P
    BY <1>3, <2>3, <2>4
  <2>6. D + m + P - (E + o) = (K + m - o) + P
    BY <1>3, <1>6, <2>2, <2>3
  <2>7. ((K + m - o) + P) % P = K + m - o
    BY <1>1, <1>3, <2>5
  <2>8. Elapsed(W, N, d, e, m, o) = K + m - o
    BY <1>9, <2>1 DEF Elapsed
  <2> QED BY <2>6, <2>7, <2>8
<1>10. CASE d < e
  <2>1. PICK K : K = (W + d - e) * N
    OBVIOUS
  <2>2. D + P - E = K
    BY <1>2, <1>4, <1>5, <2>1
  <2>3. 1 * N <= K /\ K <= (W - 1) * N /\ K \in Nat
    <3>1. W + d - e \in Nat /\ 1 <= W + d - e /\ W + d - e <= W - 1 /\ W - 1 \in Nat
      BY <1>10
    <3> QED BY <2>1, <3>1, TimesGrows
  <2>4. (W - 1) * N = P - N
    BY <1>2
  <2>5. K + m - o \in Nat /\ K + m - o < P
    BY <1>3, <2>3, <2>4
  <2>6. D + m + P - (E + o) = K + m - o
    BY <1>3, <1>6, <2>2, <2>3
  <2>7. (K + m - o) % P = K + m - o
    BY <1>1, <1>3, <2>5
  <2>8. Elapsed(W, N, d, e, m, o) = K + m - o
    BY <1>10, <2>1 DEF Elapsed
  <2> QED BY <2>6, <2>7, <2>8
<1> QED BY <1>7, <1>8, <1>9, <1>10

\* Fewer than two days' minutes since the opening: it was today, or yesterday.
LEMMA WithinTwoDays ==
  ASSUME NEW W \in Nat \ {0}, NEW N \in Nat \ {0}, NEW d \in 0..(W - 1), NEW e \in 0..(W - 1),
         NEW m \in 0..(N - 1), NEW o \in 0..(N - 1), NEW c \in 0..(N - 1),
         Elapsed(W, N, d, e, m, o) < N - o + c
  PROVE  \/ d = e /\ (m >= o \/ m < c)
         \/ d = e + 1 /\ m < c
         \/ d = 0 /\ e = W - 1 /\ m < c
<1>1. CASE d = e /\ m < o
  <2>1. W * N + m < N + c
    BY <1>1 DEF Elapsed
  <2>2. 1 * N <= W * N
    BY TimesGrows
  <2> QED BY <1>1, <2>1, <2>2
<1>2. CASE d > e
  <2>1. PICK k : k = d - e
    OBVIOUS
  <2>2. k \in Nat /\ 1 <= k
    BY <1>2, <2>1
  <2>3. k * N + m < N + c
    BY <1>2, <2>1 DEF Elapsed
  <2>4. ~(2 <= k)
    BY <2>2, <2>3, TimesGrows
  <2>5. k = 1 /\ m < c
    BY <2>2, <2>3, <2>4
  <2> QED BY <2>1, <2>5
<1>3. CASE d < e
  <2>1. PICK k : k = W + d - e
    OBVIOUS
  <2>2. k \in Nat /\ 1 <= k
    BY <1>3, <2>1
  <2>3. k * N + m < N + c
    BY <1>3, <2>1 DEF Elapsed
  <2>4. ~(2 <= k)
    BY <2>2, <2>3, TimesGrows
  <2>5. k = 1 /\ m < c
    BY <2>2, <2>3, <2>4
  <2> QED BY <2>1, <2>5
<1> QED BY <1>1, <1>2, <1>3

\* A window within a day runs exactly while the clock shows so.
LEMMA WithinOneDay ==
  ASSUME NEW W \in Nat \ {0}, NEW N \in Nat \ {0}, NEW d \in 0..(W - 1), NEW e \in 0..(W - 1),
         NEW m \in 0..(N - 1), NEW o \in 0..(N - 1), NEW c \in 0..(N - 1), o < c
  PROVE  Elapsed(W, N, d, e, m, o) < c - o <=> d = e /\ m >= o /\ m < c
<1>1. CASE d = e /\ m < o
  <2>1. 1 * N <= W * N
    BY TimesGrows
  <2> QED BY <1>1, <2>1 DEF Elapsed
<1>2. CASE d = e /\ m >= o
  BY <1>2 DEF Elapsed
<1>3. CASE d > e
  <2>1. PICK k : k = d - e
    OBVIOUS
  <2>2. k \in Nat /\ 1 <= k
    BY <1>3, <2>1
  <2>3. 1 * N <= k * N
    BY <2>2, TimesGrows
  <2> QED BY <1>3, <2>1, <2>3 DEF Elapsed
<1>4. CASE d < e
  <2>1. PICK k : k = W + d - e
    OBVIOUS
  <2>2. k \in Nat /\ 1 <= k
    BY <1>4, <2>1
  <2>3. 1 * N <= k * N
    BY <2>2, TimesGrows
  <2> QED BY <1>4, <2>1, <2>3 DEF Elapsed
<1> QED BY <1>1, <1>2, <1>3, <1>4

\* The day before, modulo the week.
LEMMA DayBefore ==
  ASSUME NEW d \in Days
  PROVE  Yesterday(d) = IF d = 0 THEN Week - 1 ELSE d - 1
<1>1. ASSUME NEW P \in Nat \ {0}, NEW a \in Nat, a < P PROVE a % P = a /\ (a + P) % P = a
  BY <1>1
<1>2. Week \in Nat \ {0} /\ d \in 0..(Week - 1)
  BY HoursAssumption DEF Days
<1>3. CASE d = 0
  <2>1. Week - 1 \in Nat /\ Week - 1 < Week /\ d + Week - 1 = Week - 1
    BY <1>2, <1>3
  <2> QED BY <1>1, <1>2, <1>3, <2>1 DEF Yesterday
<1>4. CASE d /= 0
  <2>1. d - 1 \in Nat /\ d - 1 < Week /\ d + Week - 1 = (d - 1) + Week
    BY <1>2, <1>4
  <2> QED BY <1>1, <1>2, <1>4, <2>1 DEF Yesterday
<1> QED BY <1>3, <1>4

\* Whatever the rows are, the decision is as the windows are meant.
LEMMA DecidesAsMeant == HoursTypeOK => OpenAsScheduled
<1> SUFFICES ASSUME HoursTypeOK, NEW d \in Days, NEW m \in Minutes
    PROVE  /\ HoursRunning(d, m) => WithinBusinessHours(d, m)
           /\ WithinBusinessHours(d, m) /\ (\A x \in Active : ~PastMidnight(x)) =>
                HoursRunning(d, m) \/ Active = {}
  BY DEF OpenAsScheduled
<1>1. /\ Week \in Nat \ {0} /\ Midnight \in Nat \ {0} /\ d \in 0..(Week - 1)
           /\ m \in 0..(Midnight - 1)
  BY HoursAssumption DEF Days, Minutes
<1>2. ASSUME NEW x \in Active
      PROVE  /\ x.day \in 0..(Week - 1) /\ x.open \in 0..(Midnight - 1)
                  /\ x.close \in 0..(Midnight - 1)
             /\ Since(x, d, m) = Elapsed(Week, Midnight, d, x.day, m, x.open)
  <2>1. x.day \in 0..(Week - 1) /\ x.open \in 0..(Midnight - 1) /\ x.close \in 0..(Midnight - 1)
    BY HoursAssumption DEF HoursTypeOK, Active, Days, Minutes
  <2>2. PICK e : e = x.day
    OBVIOUS
  <2>3. PICK o : o = x.open
    OBVIOUS
  <2>4. SinceOpening(Week, Midnight, d, e, m, o) = Elapsed(Week, Midnight, d, e, m, o)
    BY <1>1, <2>1, <2>2, <2>3, Clock
  <2>5. Since(x, d, m) = Elapsed(Week, Midnight, d, x.day, m, x.open)
    BY <2>2, <2>3, <2>4 DEF Since, SinceOpening
  <2> QED BY <2>1, <2>5
<1>3. ASSUME NEW x \in Active, Since(x, d, m) < Runs(x) PROVE WithinBusinessHours(d, m)
  <2>1. CASE PastMidnight(x)
    <3>1. Elapsed(Week, Midnight, d, x.day, m, x.open) < Midnight - x.open + x.close
      BY <1>2, <1>3, <2>1 DEF Runs
    <3>2. \/ d = x.day /\ (m >= x.open \/ m < x.close)
          \/ d = x.day + 1 /\ m < x.close
          \/ d = 0 /\ x.day = Week - 1 /\ m < x.close
      BY <1>1, <1>2, <3>1, WithinTwoDays
    <3>3. d = x.day \/ x.day = Yesterday(d)
      BY <1>1, <1>2, <3>2, DayBefore
    <3>4. CASE d = x.day /\ (m >= x.open \/ m < x.close)
      BY <2>1, <3>4 DEF WithinBusinessHours, InsideToday
    <3>5. CASE d /= x.day /\ m < x.close
      BY <2>1, <3>3, <3>5 DEF WithinBusinessHours, StillOpen
    <3> QED BY <3>2, <3>4, <3>5
  <2>2. CASE ~PastMidnight(x)
    <3>1. x.open < x.close
      BY <1>2, <2>2 DEF PastMidnight
    <3>2. PICK v : v = Elapsed(Week, Midnight, d, x.day, m, x.open)
      OBVIOUS
    <3>3. v < x.close - x.open
      BY <1>2, <1>3, <2>2, <3>2 DEF Runs
    <3>4. x.day \in 0..(Week - 1) /\ x.open \in 0..(Midnight - 1) /\ x.close \in 0..(Midnight - 1)
      BY <1>2
    <3>5. Elapsed(Week, Midnight, d, x.day, m, x.open) < x.close - x.open
            <=> d = x.day /\ m >= x.open /\ m < x.close
      BY <1>1, <3>4, <3>1, WithinOneDay, Zenon
    <3>6. d = x.day /\ m >= x.open /\ m < x.close
      BY <3>2, <3>3, <3>5
    <3> QED BY <2>2, <3>6 DEF WithinBusinessHours, InsideToday
  <2> QED BY <2>1, <2>2
<1>4. ASSUME WithinBusinessHours(d, m), \A x \in Active : ~PastMidnight(x), Active /= {}
      PROVE  HoursRunning(d, m)
  <2>1. PICK x \in Active : x.day = d /\ InsideToday(x, m)
    BY <1>4 DEF WithinBusinessHours, StillOpen
  <2>2. x.open < x.close /\ m >= x.open /\ m < x.close
    BY <1>2, <1>4, <2>1 DEF PastMidnight, InsideToday
  <2>3. PICK v : v = Elapsed(Week, Midnight, d, x.day, m, x.open)
    OBVIOUS
  <2>4. x.day \in 0..(Week - 1) /\ x.open \in 0..(Midnight - 1) /\ x.close \in 0..(Midnight - 1)
    BY <1>2
  <2>5. Elapsed(Week, Midnight, d, x.day, m, x.open) < x.close - x.open
          <=> d = x.day /\ m >= x.open /\ m < x.close
    <3>1. x.open < x.close
      BY <2>2
    <3> QED BY <1>1, <2>4, <3>1, WithinOneDay, Zenon
  <2>6. Since(x, d, m) < x.close - x.open
    BY <1>2, <2>1, <2>2, <2>3, <2>5
  <2>7. Since(x, d, m) < Runs(x)
    BY <1>4, <2>6 DEF Runs
  <2> QED BY <2>7 DEF HoursRunning
<1> QED BY <1>3, <1>4 DEF HoursRunning

\* The hours are those of the request answered last, unless two overlapped or one failed, and no
\* instant inside a window counts as off hours, for every length of the week and of the day (HoursInv).
THEOREM HoursAreKept == HoursSpec => []HoursInv
<1>1. HoursSpec => [](HoursTypeOK /\ HoursAreThoseAsked)
  BY HoursInitially, HoursStep, PTL DEF HoursSpec
<1>2. HoursTypeOK /\ HoursAreThoseAsked => HoursInv
  BY DecidesAsMeant DEF HoursInv
<1> QED BY <1>1, <1>2, PTL

-----------------------------------------------------------------------------
(* Collaboration.                                                           *)

\* The part of the invariant that every step keeps by itself.
CollabSteady == CollabTypeOK /\ OneUnlessCrossed /\ ToldAgrees

\* The bounds are numbers.
LEMMA CollabNumbers ==
  /\ VIEWER_CAP \in Nat /\ VIEWER_CAP > 0 /\ TYPING_TTL \in Nat /\ PRESENCE_TTL \in Nat
  /\ MaxClock \in Nat /\ MaxAsked \in Nat
BY CollabAssumption

\* A conversation's viewers are finitely many.
LEMMA RoomIsFinite ==
  \A c \in Convs : IsFiniteSet(Room(c)) /\ IsFiniteSet(Joined(c))
<1>1. \A c \in Convs : Room(c) \subseteq Users /\ Joined(c) \subseteq Users
  BY DEF Room, Joined
<1>. QED
  BY <1>1, CollabAssumption, FS_Subset

\* The viewers who came by joining do not grow in number, if none is added.
LEMMA FewerJoined ==
  ASSUME NEW c \in Convs, Cardinality(Joined(c)) <= VIEWER_CAP, Joined(c)' \subseteq Joined(c)
  PROVE  Cardinality(Joined(c)') <= VIEWER_CAP
<1>1. IsFiniteSet(Joined(c)) /\ IsFiniteSet(Joined(c)')
  BY RoomIsFinite, FS_Subset
<1>2. Cardinality(Joined(c)') <= Cardinality(Joined(c))
  BY <1>1, FS_Subset
<1>. QED
  BY <1>1, <1>2, CollabNumbers, FS_CardinalityType

\* Nobody is there.
LEMMA CollabInitially == CollabInit => CollabInv
<1>. SUFFICES ASSUME CollabInit PROVE CollabInv
  OBVIOUS
<1>1. Absent \in Viewers /\ Quiet \in Tellings
  BY CollabNumbers DEF Absent, Viewers, Quiet, Tellings, Events
<1>2. CollabTypeOK
  BY <1>1, CollabNumbers DEF CollabInit, CollabTypeOK, Events, Quiet
<1>3. \A c \in Convs : Joined(c) = {}
  BY DEF CollabInit, Joined, Room, Absent
<1>4. JoinsWithinCap
  BY <1>3, FS_EmptySet, CollabNumbers DEF JoinsWithinCap
<1>5. \A p \in Convs \X Users : About(p) = {} /\ Agrees(p, toldOthers[p])
  BY CollabNumbers DEF CollabInit, About, Quiet, Agrees, Absent, Expired
<1>. QED
  BY <1>2, <1>4, <1>5 DEF CollabInv, OneUnlessCrossed, ToldAgrees

\* A request about p changes p as its event says, and is to tell it.
LEMMA AskedIsSteady ==
  ASSUME CollabSteady, NEW t \in Tabs, NEW p \in Convs \X Users, NEW e \in Events, Asks(t, p, e),
         viewer' \in [Convs \X Users -> Viewers], ~viewer'[p].in => viewer'[p] = Absent,
         \A q \in Convs \X Users : q /= p => viewer'[q] = viewer[q],
         Agrees(p, e)', collabClock' = collabClock, viewing' = viewing, toldOthers' = toldOthers
  PROVE  CollabSteady'
<1>1. [at |-> "tell", pair |-> p, event |-> e] \in Tellings
  BY DEF Tellings
<1>2. /\ telling[t].at = "idle" /\ telling'[t] = [at |-> "tell", pair |-> p, event |-> e]
      /\ telling' \in [Tabs -> Tellings] /\ \A s \in Tabs : s /= t => telling'[s] = telling[s]
      /\ asked' \in 0..MaxAsked
      /\ crossing' = IF About(p) = {} THEN crossing ELSE crossing \cup {p}
  BY <1>1, CollabNumbers DEF Asks, CollabSteady, CollabTypeOK, Quiet
<1>3. CollabTypeOK'
  <2>1. \A s \in Tabs : telling'[s].at = "tell" => telling'[s].pair \in Convs \X Users
    BY <1>2 DEF CollabSteady, CollabTypeOK
  <2>2. \A q \in Convs \X Users : ~viewer'[q].in => viewer'[q] = Absent
    BY DEF CollabSteady, CollabTypeOK
  <2>. QED
    BY <1>2, <2>1, <2>2 DEF CollabSteady, CollabTypeOK
<1>4. About(p)' = About(p) \cup {t} /\ t \notin About(p)
  BY <1>2 DEF About
<1>5. ASSUME NEW q \in Convs \X Users, q /= p
      PROVE  /\ About(q)' = About(q) /\ \A s \in About(q) : telling'[s] = telling[s]
             /\ q \in crossing' <=> q \in crossing
  BY <1>2, <1>5 DEF About
<1>6. OneUnlessCrossed'
  BY <1>2, <1>4, <1>5 DEF CollabSteady, OneUnlessCrossed
<1>7. ASSUME NEW q \in Convs \X Users, q \notin crossing'
      PROVE  /\ About(q)' = {} => Agrees(q, toldOthers[q])'
             /\ \A s \in About(q)' : Agrees(q, telling[s].event)'
  <2>1. CASE q = p
    BY <1>2, <1>4, <1>7, <2>1
  <2>2. CASE q /= p
    BY <1>5, <1>7, <2>2 DEF CollabSteady, ToldAgrees, Agrees, Expired
  <2>. QED
    BY <2>1, <2>2
<1>. QED
  BY <1>3, <1>6, <1>7 DEF CollabSteady, ToldAgrees

\* A viewer joins.
LEMMA Joins ==
  ASSUME CollabInv, NEW t \in Tabs, NEW c \in Convs, NEW u \in Users, Join(t, c, u)
  PROVE  CollabInv'
<1>1. PICK p \in Convs \X Users : p = <<c, u>>
  OBVIOUS
<1>2. CollabSteady
  BY DEF CollabInv, CollabSteady
<1>3. /\ viewer[p].in \/ Cardinality(Room(c)) < VIEWER_CAP
      /\ viewer' = IF viewer[p].in THEN viewer
                   ELSE [viewer EXCEPT ![p] = [in |-> TRUE, joined |-> TRUE, typing |-> 0]]
      /\ Asks(t, p, "joined") /\ collabClock' = collabClock /\ viewing' = viewing
           /\ toldOthers' = toldOthers
  BY <1>1 DEF Join
<1>4. [in |-> TRUE, joined |-> TRUE, typing |-> 0] \in Viewers
  BY CollabNumbers DEF Viewers
<1>5. /\ viewer' \in [Convs \X Users -> Viewers] /\ viewer'[p].in
      /\ \A q \in Convs \X Users : q /= p => viewer'[q] = viewer[q]
  BY <1>2, <1>3, <1>4 DEF CollabSteady, CollabTypeOK
<1>6. Agrees(p, "joined")'
  BY <1>5 DEF Agrees
<1>7. CollabSteady'
  BY <1>2, <1>3, <1>5, <1>6, AskedIsSteady DEF Events
<1>8. ASSUME NEW d \in Convs PROVE Cardinality(Joined(d)') <= VIEWER_CAP
  <2>1. CASE d /= c \/ viewer[p].in
    <3>1. \A v \in Users : viewer'[<<d, v>>] = viewer[<<d, v>>]
      BY <1>1, <1>3, <1>5, <2>1
    <3>2. Joined(d)' \subseteq Joined(d)
      BY <3>1 DEF Joined, Room
    <3>. QED
      BY <3>2, FewerJoined DEF CollabInv, JoinsWithinCap
  <2>2. CASE d = c /\ ~viewer[p].in
    <3>1. \A v \in Users : v /= u => viewer'[<<c, v>>] = viewer[<<c, v>>]
      BY <1>1, <1>5
    <3>2. Joined(c)' \subseteq Room(c) \cup {u}
      BY <3>1 DEF Joined, Room
    <3>3. u \notin Room(c)
      BY <1>1, <2>2 DEF Room
    <3>4. IsFiniteSet(Room(c)) /\ Cardinality(Room(c) \cup {u}) = Cardinality(Room(c)) + 1
          /\ IsFiniteSet(Room(c) \cup {u})
      BY <3>3, RoomIsFinite, FS_AddElement
    <3>5. Cardinality(Joined(c)') <= Cardinality(Room(c)) + 1 /\ IsFiniteSet(Joined(c)')
      BY <3>2, <3>4, FS_Subset
    <3>6. Cardinality(Room(c)) < VIEWER_CAP
      BY <1>3, <2>2
    <3>. QED
      BY <2>2, <3>4, <3>5, <3>6, CollabNumbers, FS_CardinalityType
  <2>. QED
    BY <2>1, <2>2
<1>. QED
  BY <1>7, <1>8 DEF CollabInv, CollabSteady, JoinsWithinCap

\* A request that lets nobody join.
LEMMA AskedWithoutJoining ==
  ASSUME CollabInv, NEW t \in Tabs, NEW p \in Convs \X Users, NEW e \in Events, Asks(t, p, e),
         viewer' \in [Convs \X Users -> Viewers], ~viewer'[p].in => viewer'[p] = Absent,
         \A q \in Convs \X Users : q /= p => viewer'[q] = viewer[q],
         viewer'[p].in /\ viewer'[p].joined => viewer[p].in /\ viewer[p].joined,
         Agrees(p, e)', collabClock' = collabClock, viewing' = viewing, toldOthers' = toldOthers
  PROVE  CollabInv'
<1>1. CollabSteady'
  BY AskedIsSteady DEF CollabInv, CollabSteady
<1>2. ASSUME NEW d \in Convs PROVE Cardinality(Joined(d)') <= VIEWER_CAP
  <2>1. ASSUME NEW v \in Users, viewer'[<<d, v>>].in, viewer'[<<d, v>>].joined
        PROVE  viewer[<<d, v>>].in /\ viewer[<<d, v>>].joined
    BY <2>1
  <2>2. Joined(d)' \subseteq Joined(d)
    BY <2>1 DEF Joined, Room
  <2>. QED
    BY <2>2, FewerJoined DEF CollabInv, JoinsWithinCap
<1>. QED
  BY <1>1, <1>2 DEF CollabInv, CollabSteady, JoinsWithinCap

\* A viewer leaves.
LEMMA Leaves ==
  ASSUME CollabInv, NEW t \in Tabs, NEW c \in Convs, NEW u \in Users, Leave(t, c, u)
  PROVE  CollabInv'
<1>1. PICK p \in Convs \X Users : p = <<c, u>>
  OBVIOUS
<1>2. /\ viewer' = [viewer EXCEPT ![p] = Absent] /\ Asks(t, p, "left")
      /\ collabClock' = collabClock /\ viewing' = viewing /\ toldOthers' = toldOthers
  BY <1>1 DEF Leave
<1>3. Absent \in Viewers /\ ~Absent.in /\ Absent.typing = 0
  BY CollabNumbers DEF Absent, Viewers
<1>4. /\ viewer' \in [Convs \X Users -> Viewers] /\ viewer'[p] = Absent
      /\ \A q \in Convs \X Users : q /= p => viewer'[q] = viewer[q]
  BY <1>2, <1>3 DEF CollabInv, CollabTypeOK
<1>5. Agrees(p, "left")'
  BY <1>2, <1>3, <1>4 DEF Agrees, Expired, CollabInv, CollabTypeOK
<1>. QED
  BY <1>2, <1>3, <1>4, <1>5, AskedWithoutJoining DEF Events

\* A viewer types.
LEMMA Types ==
  ASSUME CollabInv, NEW t \in Tabs, NEW c \in Convs, NEW u \in Users, NEW active \in BOOLEAN,
         SetTyping(t, c, u, active)
  PROVE  CollabInv'
<1>1. PICK p \in Convs \X Users : p = <<c, u>>
  OBVIOUS
<1>. DEFINE x == IF active THEN collabClock + TYPING_TTL ELSE 0
            e == IF active THEN "start" ELSE "stop"
<1>2. x \in 0..(MaxClock + TYPING_TTL) /\ (~active => x = 0) /\ e \in Events
      /\ e \in {"start", "stop"} /\ (active => e = "start")
  BY CollabNumbers DEF CollabInv, CollabTypeOK, Events
<1>3. /\ viewer' = [viewer EXCEPT ![p].in = TRUE, ![p].typing = x] /\ Asks(t, p, e)
      /\ collabClock' = collabClock /\ viewing' = viewing /\ toldOthers' = toldOthers
  BY <1>1 DEF SetTyping
<1>. HIDE DEF x, e
<1>4. viewer \in [Convs \X Users -> Viewers] /\ viewer[p] \in Viewers
  BY DEF CollabInv, CollabTypeOK
<1>5. /\ viewer' \in [Convs \X Users -> Viewers]
      /\ viewer'[p].in /\ viewer'[p].typing = x /\ viewer'[p].joined = viewer[p].joined
      /\ \A q \in Convs \X Users : q /= p => viewer'[q] = viewer[q]
  BY <1>2, <1>3, <1>4 DEF Viewers
<1>6. viewer[p].joined => viewer[p].in
  BY DEF CollabInv, CollabTypeOK, Absent
<1>7. PICK f \in Events : f = e
  BY <1>2
<1>8. Agrees(p, f)'
  BY <1>2, <1>3, <1>5, <1>7 DEF Agrees, Expired, CollabInv, CollabTypeOK
<1>. QED
  BY <1>3, <1>5, <1>6, <1>7, <1>8, AskedWithoutJoining

\* A step that changes nothing but the rooms' lapsed indicators, the clock and the presence.
LEMMA RoomsStand ==
  ASSUME CollabInv, CollabTypeOK', telling' = telling, crossing' = crossing,
         toldOthers' = toldOthers,
         collabClock' >= collabClock,
         \A p \in Convs \X Users :
           /\ viewer'[p].in = viewer[p].in /\ viewer'[p].joined = viewer[p].joined
           /\ viewer'[p].typing = viewer[p].typing \/ viewer'[p].typing = 0
  PROVE  CollabInv'
<1>1. \A p \in Convs \X Users : About(p)' = About(p)
  BY DEF About
<1>2. OneUnlessCrossed'
  BY <1>1 DEF CollabInv, OneUnlessCrossed
<1>3. ASSUME NEW p \in Convs \X Users, NEW e \in Events, Agrees(p, e) PROVE Agrees(p, e)'
  <2>1. collabClock \in Nat /\ collabClock' \in Nat /\ viewer[p].typing \in Nat
    BY CollabNumbers DEF CollabInv, CollabTypeOK, Viewers
  <2>. QED
    BY <1>3, <2>1 DEF Agrees, Expired
<1>4. ToldAgrees'
  <2>1. ASSUME NEW p \in (Convs \X Users) \ crossing, About(p) = {}
        PROVE  Agrees(p, toldOthers[p])'
    <3>1. PICK e \in Events : e = toldOthers[p]
      BY DEF CollabInv, CollabTypeOK
    <3>2. Agrees(p, e)'
      BY <1>3, <2>1, <3>1 DEF CollabInv, ToldAgrees
    <3>. QED
      BY <3>1, <3>2
  <2>2. ASSUME NEW p \in (Convs \X Users) \ crossing, NEW t \in About(p)
        PROVE  Agrees(p, telling[t].event)'
    <3>1. PICK e \in Events : e = telling[t].event
      BY DEF CollabInv, CollabTypeOK, Tellings, About
    <3>2. Agrees(p, e)'
      BY <1>3, <2>2, <3>1 DEF CollabInv, ToldAgrees
    <3>. QED
      BY <3>1, <3>2
  <2>. QED
    BY <1>1, <2>1, <2>2 DEF ToldAgrees
<1>5. ASSUME NEW d \in Convs PROVE Cardinality(Joined(d)') <= VIEWER_CAP
  <2>1. Joined(d)' \subseteq Joined(d)
    BY DEF Joined, Room
  <2>. QED
    BY <2>1, FewerJoined DEF CollabInv, JoinsWithinCap
<1>. QED
  BY <1>2, <1>4, <1>5 DEF CollabInv, JoinsWithinCap

\* The room is told.
LEMMA Emits ==
  ASSUME CollabInv, NEW t \in Tabs, Emit(t)
  PROVE  CollabInv'
<1>1. PICK p \in Convs \X Users : p = telling[t].pair
  BY DEF Emit, CollabInv, CollabTypeOK
<1>2. PICK e \in Events : e = telling[t].event
  BY DEF CollabInv, CollabTypeOK, Tellings
<1>3. /\ telling[t].at = "tell" /\ toldOthers' = [toldOthers EXCEPT ![p] = e]
      /\ telling' = [telling EXCEPT ![t] = Quiet]
      /\ viewer' = viewer /\ collabClock' = collabClock /\ viewing' = viewing
           /\ crossing' = crossing /\ asked' = asked
  BY <1>1, <1>2 DEF Emit
<1>4. Quiet \in Tellings /\ Quiet.at = "idle"
  BY DEF Quiet, Tellings, Events
<1>5. /\ telling' \in [Tabs -> Tellings] /\ telling'[t] = Quiet /\ (\A s \in Tabs : s /= t
           => telling'[s] = telling[s])
      /\ toldOthers' \in [Convs \X Users -> Events] /\ toldOthers'[p] = e
      /\ \A q \in Convs \X Users : q /= p => toldOthers'[q] = toldOthers[q]
  BY <1>3, <1>4 DEF CollabInv, CollabTypeOK
<1>6. CollabTypeOK'
  BY <1>3, <1>4, <1>5 DEF CollabInv, CollabTypeOK
<1>7. t \in About(p) /\ About(p)' = About(p) \ {t}
  BY <1>1, <1>3, <1>4, <1>5 DEF About
<1>8. \A q \in Convs \X Users : q /= p => About(q)' = About(q)
           /\ \A s \in About(q) : telling'[s] = telling[s]
  BY <1>1, <1>3, <1>4, <1>5 DEF About
<1>9. OneUnlessCrossed'
  BY <1>3, <1>7, <1>8 DEF CollabInv, OneUnlessCrossed
<1>10. \A q \in Convs \X Users, f \in Events : Agrees(q, f)' <=> Agrees(q, f)
  BY <1>3 DEF Agrees, Expired
<1>11. ASSUME NEW q \in Convs \X Users, q \notin crossing'
       PROVE  /\ About(q)' = {} => Agrees(q, toldOthers[q])'
              /\ \A s \in About(q)' : Agrees(q, telling[s].event)'
  <2>1. CASE q = p
    <3>1. Agrees(p, e)' /\ About(p)' = {}
      BY <1>1, <1>2, <1>3, <1>7, <1>10, <1>11, <2>1 DEF CollabInv, ToldAgrees, OneUnlessCrossed
    <3>. QED
      BY <1>5, <2>1, <3>1 DEF Agrees, Expired
  <2>2. CASE q /= p
    BY <1>3, <1>5, <1>8, <1>11, <2>2 DEF CollabInv, ToldAgrees, Agrees, Expired
  <2>. QED
    BY <2>1, <2>2
<1>12. \A d \in Convs : Joined(d)' = Joined(d)
  BY <1>3 DEF Joined, Room
<1>. QED
  BY <1>6, <1>9, <1>11, <1>12 DEF CollabInv, ToldAgrees, JoinsWithinCap

\* Every step keeps the invariant.
LEMMA CollabStep == CollabInv /\ [CollabNext]_collabVars => CollabInv'
<1>. SUFFICES ASSUME CollabInv, [CollabNext]_collabVars PROVE CollabInv'
  OBVIOUS
<1>1. ASSUME NEW t \in Tabs, NEW c \in Convs, NEW u \in Users,
             Join(t, c, u) \/ Leave(t, c, u) \/ \E active \in BOOLEAN : SetTyping(t, c, u, active)
      PROVE  CollabInv'
  BY <1>1, Joins, Leaves, Types
<1>2. ASSUME NEW u \in Users, SetPresence(u) PROVE CollabInv'
  <2>1. CollabTypeOK'
    BY <1>2, CollabNumbers DEF CollabInv, CollabTypeOK, SetPresence
  <2>. QED
    BY <1>2, <2>1, RoomsStand, CollabNumbers DEF SetPresence, CollabInv, CollabTypeOK
<1>3. ASSUME Cleanup PROVE CollabInv'
  <2>1. \A x \in Viewers : [x EXCEPT !.typing = 0] \in Viewers
             /\ [x EXCEPT !.typing = 0].in = x.in
                           /\ [x EXCEPT !.typing = 0].joined = x.joined
                                /\ [x EXCEPT !.typing = 0].typing = 0
    BY CollabNumbers DEF Viewers
  <2>2. viewer \in [Convs \X Users -> Viewers] /\ DOMAIN viewer = Convs \X Users
    BY DEF CollabInv, CollabTypeOK
  <2>3. \A p \in Convs \X Users :
          viewer'[p] = IF Expired(viewer[p].typing) THEN [viewer[p] EXCEPT !.typing = 0] ELSE viewer[p]
    BY <1>3, <2>2 DEF Cleanup
  <2>4. viewer' \in [Convs \X Users -> Viewers]
    BY <1>3, <2>1, <2>2 DEF Cleanup
  <2>5. \A p \in Convs \X Users :
           /\ viewer'[p].in = viewer[p].in /\ viewer'[p].joined = viewer[p].joined
           /\ viewer'[p].typing = viewer[p].typing \/ viewer'[p].typing = 0
    <3>. TAKE p \in Convs \X Users
    <3>1. viewer[p] \in Viewers
      BY <2>2
    <3>2. viewer'[p] = viewer[p] \/ viewer'[p] = [viewer[p] EXCEPT !.typing = 0]
      BY <2>3
    <3>. QED
      BY <2>1, <3>1, <3>2
  <2>6. ASSUME NEW p \in Convs \X Users, ~viewer'[p].in PROVE viewer'[p] = Absent
    <3>1. viewer[p] = Absent
      BY <2>5, <2>6 DEF CollabInv, CollabTypeOK
    <3>2. [Absent EXCEPT !.typing = 0] = Absent
      BY DEF Absent
    <3>. QED
      BY <2>3, <3>1, <3>2
  <2>7. viewing' \in [Users -> 0..(MaxClock + PRESENCE_TTL)]
    BY <1>3, CollabNumbers DEF Cleanup, CollabInv, CollabTypeOK
  <2>8. CollabTypeOK'
    BY <1>3, <2>4, <2>6, <2>7 DEF Cleanup, CollabInv, CollabTypeOK
  <2>. QED
    BY <1>3, <2>5, <2>8, RoomsStand, CollabNumbers DEF Cleanup, CollabInv, CollabTypeOK
<1>4. ASSUME ClockTicks PROVE CollabInv'
  <2>1. CollabTypeOK' /\ collabClock' >= collabClock
    BY <1>4, CollabNumbers DEF ClockTicks, CollabInv, CollabTypeOK
  <2>. QED
    BY <1>4, <2>1, RoomsStand DEF ClockTicks
<1>5. ASSUME UNCHANGED collabVars PROVE CollabInv'
  <2>1. CollabTypeOK' /\ collabClock' >= collabClock
    BY <1>5, CollabNumbers DEF collabVars, CollabInv, CollabTypeOK
  <2>. QED
    BY <1>5, <2>1, RoomsStand DEF collabVars
<1>. QED
  BY <1>1, <1>2, <1>3, <1>4, <1>5, Emits DEF CollabNext

\* Joining never takes a room past its capacity, a person has one entry unless requests crossed, and
\* whoever is told agrees with the room once nothing is left to tell (CollabInv).
THEOREM RoomsAreKnown == CollabSpec => []CollabInv
BY CollabInitially, CollabStep, PTL DEF CollabSpec

\* No step but a request ends a fresh sign of presence.
LEMMA FreshStep == CollabInv /\ [CollabNext]_collabVars => [FreshSignsEndByRequest]_collabVars
<1>. SUFFICES ASSUME CollabInv, CollabNext PROVE FreshSignsEndByRequest
  OBVIOUS
<1>1. /\ viewer \in [Convs \X Users -> Viewers] /\ DOMAIN viewer = Convs \X Users
      /\ telling \in [Tabs -> Tellings] /\ collabClock \in Nat
      /\ viewing \in [Users -> Nat]
  BY CollabNumbers DEF CollabInv, CollabTypeOK
<1>2. ASSUME NEW p \in Convs \X Users, ~Expired(viewer[p].typing), viewer'[p].typing = 0
      PROVE  \E t \in Tabs : telling'[t].pair = p /\ telling'[t].event \in {"left", "stop"}
  <2>1. viewer[p].typing \in Nat /\ viewer[p].typing /= 0 /\ viewer[p] \in Viewers
    BY <1>1, <1>2, CollabNumbers DEF Expired, Viewers
  <2>2. ASSUME NEW t \in Tabs, NEW c \in Convs, NEW u \in Users, Join(t, c, u) PROVE FALSE
    <3>1. PICK q \in Convs \X Users : q = <<c, u>>
      OBVIOUS
    <3>2. viewer'[p] = viewer[p] \/ (p = q /\ ~viewer[q].in)
      BY <1>1, <2>2, <3>1 DEF Join
    <3>3. ~viewer[p].in => viewer[p].typing = 0
      BY DEF CollabInv, CollabTypeOK, Absent
    <3>. QED
      BY <1>2, <2>1, <3>2, <3>3
  <2>3. ASSUME NEW t \in Tabs, NEW q \in Convs \X Users, NEW e, Asks(t, q, e)
        PROVE  telling'[t].pair = q /\ telling'[t].event = e
    BY <1>1, <2>3 DEF Asks
  <2>4. ASSUME NEW t \in Tabs, NEW c \in Convs, NEW u \in Users, Leave(t, c, u)
        PROVE  telling'[t].pair = p /\ telling'[t].event = "left"
    <3>1. PICK q \in Convs \X Users : q = <<c, u>>
      OBVIOUS
    <3>2. q /= p => viewer'[p] = viewer[p]
      BY <1>1, <2>4, <3>1 DEF Leave
    <3>. QED
      BY <1>2, <2>1, <2>3, <2>4, <3>1, <3>2 DEF Leave
  <2>5. ASSUME NEW t \in Tabs, NEW c \in Convs, NEW u \in Users, NEW active \in BOOLEAN,
               SetTyping(t, c, u, active)
        PROVE  telling'[t].pair = p /\ telling'[t].event = "stop"
    <3>1. PICK q \in Convs \X Users : q = <<c, u>>
      OBVIOUS
    <3>2. viewer' = [viewer EXCEPT ![q].in = TRUE,
               ![q].typing = IF active THEN collabClock + TYPING_TTL ELSE 0]
          /\ Asks(t, q, IF active THEN "start" ELSE "stop")
      BY <2>5, <3>1 DEF SetTyping
    <3>3. q /= p => viewer'[p] = viewer[p]
      BY <1>1, <3>2
    <3>4. viewer'[q].typing = IF active THEN collabClock + TYPING_TTL ELSE 0
      BY <1>1, <3>2 DEF Viewers
    <3>5. q = p
      BY <1>2, <2>1, <3>3
    <3>6. collabClock + TYPING_TTL /= 0
      BY <1>1, CollabAssumption
    <3>7. ~active
      BY <1>2, <3>4, <3>5, <3>6
    <3>. QED
      BY <2>3, <3>2, <3>5, <3>7
  <2>6. ~Cleanup
    BY <1>1, <1>2, <2>1 DEF Cleanup
  <2>7. viewer' /= viewer
    BY <1>2, <2>1
  <2>. QED
    BY <2>2, <2>4, <2>5, <2>6, <2>7 DEF CollabNext, Emit, SetPresence, ClockTicks
<1>3. ASSUME NEW u \in Users, ~Expired(viewing[u]) PROVE viewing'[u] /= 0
  <2>1. viewing[u] /= 0
    BY <1>1, <1>3 DEF Expired
  <2>2. ASSUME NEW w \in Users, SetPresence(w) PROVE viewing'[u] /= 0
    <3>1. collabClock + PRESENCE_TTL /= 0
      BY <1>1, CollabAssumption
    <3>. QED
      BY <1>1, <2>1, <2>2, <3>1 DEF SetPresence
  <2>3. ASSUME Cleanup PROVE viewing'[u] /= 0
    BY <1>3, <2>1, <2>3 DEF Cleanup
  <2>. QED
    BY <2>1, <2>2, <2>3 DEF CollabNext, Join, Leave, SetTyping, Emit, ClockTicks
<1>. QED
  BY <1>1, <1>2, <1>3 DEF FreshSignsEndByRequest

\* The cleaner takes away only what has gone stale (FreshStays).
THEOREM FreshSignsStay == CollabSpec => FreshStays
<1>1. CollabInv /\ [CollabNext]_collabVars => [FreshSignsEndByRequest]_collabVars
  BY FreshStep
<1>. QED
  BY <1>1, RoomsAreKnown, PTL DEF CollabSpec, FreshStays

-----------------------------------------------------------------------------
(* The notification inbox.                                                  *)

\* A row in UTC ends as lapsed only when its time has come.
UtcDue ==
  \A i \in DOMAIN notes : notes[i].expiry.ahead = 0 /\ notes[i].end = "lapsed" =>
    notes[i].expiry.at # 0 /\ notes[i].expiry.at <= instant

\* What is so of the notifications.
NotesOK ==
  /\ notes \in Seq(NoteRows)
  /\ \A i \in DOMAIN notes : notes[i].readAt <= instant
       /\ (notes[i].here <=> notes[i].end = "none")
  /\ pushed = DOMAIN notes
  /\ standing \in [Staff -> {"active", "off", "purged"}]
  /\ instant \in 1 .. LastInstant
  /\ OwnersExist /\ UtcDue

\* What is so of the batches.
BatchesOK ==
  /\ batch \in [Batches -> BatchRows] /\ refused \in 0 .. MaxInsertFaults
  /\ \A b \in Batches : /\ batch[b].state = "idle" => batch[b] = NoBatch
                        /\ \A k \in DOMAIN batch[b].ids : batch[b].ids[k] \in DOMAIN notes
  /\ AnswersAddUp

\* What is so of the pages.
ScreensOK ==
  /\ screen \in [Screens -> [op : {"none", "read", "delete"}, id : Nat]]
  /\ \A s \in Screens : screen[s].op # "none" => screen[s].id \in DOMAIN notes

\* What is listed is what is there and has not lapsed, so of a row in UTC only its end matters.
LEMMA UtcKept ==
  notes \in Seq(NoteRows) /\ instant \in Nat => (UtcExpiryKept <=> UtcDue)
<1>. SUFFICES ASSUME notes \in Seq(NoteRows), instant \in Nat PROVE UtcExpiryKept <=> UtcDue
  OBVIOUS
<1>1. ASSUME NEW i \in DOMAIN notes, notes[i].expiry.ahead = 0
      PROVE  notes[i].here =>
               (i \in Inbox(notes[i].owner) <=> ~(notes[i].expiry.at # 0
                    /\ notes[i].expiry.at <= instant))
  <2>1. notes[i] \in NoteRows
    OBVIOUS
  <2>2. notes[i].expiry.at + notes[i].expiry.ahead = notes[i].expiry.at
    BY <1>1, <2>1 DEF NoteRows, Moments
  <2>. QED
    BY <2>2 DEF LapsedNow, Inbox
<1>. QED
  BY <1>1 DEF UtcExpiryKept, UtcDue

\* The invariant's parts.
LEMMA ThreeParts == NotInv <=> NotesOK /\ BatchesOK /\ ScreensOK
<1>1. instant \in 1 .. LastInstant => instant \in Nat
  BY NotificationsAssumption
<1>. QED
  BY <1>1, UtcKept DEF NotInv, NotTypeOK, NotesOK, BatchesOK, ScreensOK

\* A notification is stored at the end.
LEMMA Appended ==
  ASSUME NEW S, NEW s \in Seq(S), NEW e \in S
  PROVE  /\ Append(s, e) \in Seq(S) /\ Len(s) \in Nat /\ Len(s) + 1 \in Nat
         /\ DOMAIN Append(s, e) = DOMAIN s \cup {Len(s) + 1} /\ Len(s) + 1 \notin DOMAIN s
         /\ \A i \in DOMAIN s : Append(s, e)[i] = s[i]
         /\ Append(s, e)[Len(s) + 1] = e
<1>1. Len(s) \in Nat /\ DOMAIN s = 1..Len(s) /\ Append(s, e) \in Seq(S) /\ Len(Append(s,
           e)) = Len(s) + 1
  OBVIOUS
<1>2. DOMAIN Append(s, e) = 1..(Len(s) + 1)
  BY <1>1
<1>3. 1..(Len(s) + 1) = (1..Len(s)) \cup {Len(s) + 1} /\ Len(s) + 1 \notin 1..Len(s)
  BY <1>1
<1>. QED
  BY <1>1, <1>2, <1>3

-----------------------------------------------------------------------------
\* What is so of the notifications stays so when one is stored.
LEMMA Grown ==
  ASSUME NotesOK, NEW a \in Staff, NEW e \in Moments, Store(a, e), UNCHANGED <<standing, instant>>
  PROVE  /\ NotesOK' /\ DOMAIN notes' = DOMAIN notes \cup {Len(notes) + 1}
         /\ Len(notes) + 1 \notin DOMAIN notes /\ Len(notes) + 1 \in Nat
         /\ \A i \in DOMAIN notes : notes'[i] = notes[i]
<1>1. PICK r : r = [owner |-> a, expiry |-> e, readAt |-> 0, here |-> TRUE, end |-> "none"]
  OBVIOUS
<1>2. instant \in 1 .. LastInstant /\ LastInstant \in Nat /\ notes \in Seq(NoteRows)
           /\ 0 \in 0 .. LastInstant
  BY NotificationsAssumption DEF NotesOK
<1>3. r \in NoteRows /\ r.owner = a /\ r.expiry = e /\ r.readAt = 0 /\ r.here /\ r.end = "none"
  BY <1>1, <1>2 DEF NoteRows
<1>4. notes' = Append(notes, r) /\ pushed' = pushed \cup {Len(notes) + 1}
           /\ standing[a] # "purged"
  BY <1>1 DEF Store, HasAccount
<1>5. /\ notes' \in Seq(NoteRows) /\ DOMAIN notes' = DOMAIN notes \cup {Len(notes) + 1}
      /\ Len(notes) + 1 \notin DOMAIN notes /\ Len(notes) + 1 \in Nat
      /\ (\A i \in DOMAIN notes : notes'[i] = notes[i]) /\ notes'[Len(notes) + 1] = r
  BY <1>2, <1>3, <1>4, Appended
<1>6. \A i \in DOMAIN notes' : notes'[i].readAt <= instant'
           /\ (notes'[i].here <=> notes'[i].end = "none")
  BY <1>2, <1>3, <1>5 DEF NotesOK
<1>7. OwnersExist'
  BY <1>3, <1>4, <1>5 DEF NotesOK, OwnersExist
<1>8. UtcDue'
  BY <1>3, <1>5 DEF NotesOK, UtcDue
<1>. QED
  BY <1>4, <1>5, <1>6, <1>7, <1>8 DEF NotesOK

\* What a statement over rows may make of one of them.
Later(n, m) ==
  /\ m \in NoteRows /\ m.owner = n.owner /\ m.expiry = n.expiry
  /\ m.readAt = n.readAt \/ (n.readAt = 0 /\ m.readAt = instant)
  /\ m.here => n.here
  /\ m.here <=> m.end = "none"
  /\ m.end = n.end \/ m.end \in {"deleted", "purged"} \/ (m.end = "lapsed" /\ LapsedNow(n))

\* A statement over rows keeps the book of notes, if those it leaves have an account.
LEMMA Rewritten ==
  ASSUME NotesOK, notes' \in Seq(NoteRows), DOMAIN notes' = DOMAIN notes,
         \A i \in DOMAIN notes : Later(notes[i], notes'[i]),
         UNCHANGED <<pushed, instant>>, standing' \in [Staff -> {"active", "off", "purged"}],
         \A i \in DOMAIN notes : notes'[i].here => standing'[notes[i].owner] # "purged"
  PROVE  NotesOK'
<1>1. instant \in 1 .. LastInstant /\ LastInstant \in Nat /\ instant \in Nat
  BY NotificationsAssumption DEF NotesOK
<1>2. ASSUME NEW i \in DOMAIN notes
      PROVE  /\ notes'[i].readAt <= instant /\ (notes'[i].here <=> notes'[i].end = "none")
             /\ notes'[i].owner = notes[i].owner
             /\ notes'[i].expiry.ahead = 0 /\ notes'[i].end = "lapsed" =>
                  notes'[i].expiry.at # 0 /\ notes'[i].expiry.at <= instant
  <2>1. Later(notes[i], notes'[i]) /\ notes[i] \in NoteRows
    BY DEF NotesOK
  <2>2. notes'[i].readAt <= instant
    BY <1>1, <2>1 DEF Later, NotesOK
  <2>3. ASSUME notes'[i].expiry.ahead = 0, notes'[i].end = "lapsed"
        PROVE  notes'[i].expiry.at # 0 /\ notes'[i].expiry.at <= instant
    <3>1. notes[i].expiry = notes'[i].expiry /\ notes[i].expiry.at \in Nat
      BY <2>1 DEF Later, NoteRows, Moments
    <3>2. notes[i].end = "lapsed" \/ LapsedNow(notes[i])
      BY <2>1, <2>3 DEF Later
    <3>3. CASE notes[i].end = "lapsed"
      BY <2>3, <3>1, <3>3 DEF NotesOK, UtcDue
    <3>4. CASE LapsedNow(notes[i])
      <4>1. notes[i].expiry.at + notes[i].expiry.ahead = notes[i].expiry.at
        BY <2>3, <3>1
      <4>. QED
        BY <3>1, <3>4, <4>1 DEF LapsedNow
    <3>. QED
      BY <3>2, <3>3, <3>4
  <2>. QED
    BY <2>1, <2>2, <2>3 DEF Later
<1>3. UtcDue' /\ OwnersExist'
  BY <1>2 DEF UtcDue, OwnersExist
<1>. QED
  BY <1>2, <1>3 DEF NotesOK

\* Rows that stay keep what is said of them.
LEMMA RowsKept ==
  ASSUME NotesOK, NEW n \in NoteRows, \E i \in DOMAIN notes : n = notes[i]
  PROVE  Later(n, n) /\ (n.here => standing[n.owner] # "purged")
BY DEF NotesOK, OwnersExist, Later

-----------------------------------------------------------------------------
\* A step that stores nothing leaves the batches as they are.
LEMMA BatchesRest ==
  ASSUME BatchesOK, UNCHANGED <<batch, refused>>, DOMAIN notes \subseteq DOMAIN notes',
         \A a \in Staff : standing[a] = "purged" => standing'[a] = "purged"
  PROVE  BatchesOK'
<1>1. Faults' = Faults
  BY DEF Faults, FaultsOf
<1>2. AnswersAddUp'
  <2>1. ASSUME NEW b \in Batches, NEW k \in DOMAIN batch[b].missed,
               batch[b].missed[k].why = "gone"
        PROVE  standing'[batch[b].missed[k].to] = "purged"
    <3>1. batch[b].missed \in Seq(Misses)
      BY DEF BatchesOK, BatchRows
    <3>2. PICK q \in Seq(Misses) : q = batch[b].missed
      BY <3>1
    <3>3. q[k] \in Misses
      BY <3>2
    <3>4. batch[b].missed[k].to \in Staff
      BY <3>2, <3>3 DEF Misses
    <3>. QED
      BY <2>1, <3>4 DEF BatchesOK, AnswersAddUp
  <2>. QED
    BY <1>1, <2>1 DEF BatchesOK, AnswersAddUp
<1>. QED
  BY <1>2 DEF BatchesOK

\* And the pages.
LEMMA ScreensRest ==
  ASSUME ScreensOK, screen' = screen, DOMAIN notes \subseteq DOMAIN notes'
  PROVE  ScreensOK'
BY DEF ScreensOK

\* One batch moves: the ids it adds are new rows.
LEMMA OneBatch ==
  ASSUME BatchesOK, NEW b \in Batches, NEW r \in BatchRows, batch' = [batch EXCEPT ![b] = r],
         standing' = standing, DOMAIN notes \subseteq DOMAIN notes',
              refused' \in 0 .. MaxInsertFaults,
         r.state # "idle",
         \A k \in DOMAIN r.ids : /\ r.ids[k] \in DOMAIN notes'
                                 /\ \/ r.ids[k] \notin DOMAIN notes
                                    \/ k \in DOMAIN batch[b].ids /\ r.ids[k] = batch[b].ids[k],
         \A k, l \in DOMAIN r.ids : r.ids[k] = r.ids[l] => k = l,
         \A k \in DOMAIN r.missed : r.missed[k].why = "gone"
              => standing[r.missed[k].to] = "purged",
         IsFiniteSet(Faults'), Cardinality(Faults') = refused'
  PROVE  BatchesOK'
<1>1. /\ batch' \in [Batches -> BatchRows] /\ batch'[b] = r
      /\ \A c \in Batches \ {b} : batch'[c] = batch[c]
  BY DEF BatchesOK
<1>2. \A c \in Batches : /\ batch'[c].state = "idle" => batch'[c] = NoBatch
                         /\ \A k \in DOMAIN batch'[c].ids : batch'[c].ids[k] \in DOMAIN notes'
  BY <1>1 DEF BatchesOK
<1>3. ASSUME NEW c \in Batches, NEW d \in Batches,
             NEW k \in DOMAIN batch'[c].ids, NEW l \in DOMAIN batch'[d].ids,
             batch'[c].ids[k] = batch'[d].ids[l]
      PROVE  c = d /\ k = l
  <2>1. \A e \in Batches : \A m \in DOMAIN batch[e].ids : batch[e].ids[m] \in DOMAIN notes
    BY DEF BatchesOK
  <2>2. \A e, f \in Batches : \A m \in DOMAIN batch[e].ids, n \in DOMAIN batch[f].ids :
          batch[e].ids[m] = batch[f].ids[n] => e = f /\ m = n
    BY DEF BatchesOK, AnswersAddUp
  <2>3. CASE c = b /\ d = b
    BY <1>1, <1>3, <2>3
  <2>4. CASE c # b /\ d # b
    BY <1>1, <1>3, <2>2, <2>4
  <2>5. CASE c = b /\ d # b
    BY <1>1, <1>3, <2>1, <2>2, <2>5
  <2>6. CASE c # b /\ d = b
    BY <1>1, <1>3, <2>1, <2>2, <2>6
  <2>. QED
    BY <2>3, <2>4, <2>5, <2>6
<1>4. \A c \in Batches : \A k \in DOMAIN batch'[c].missed :
        batch'[c].missed[k].why = "gone" => standing'[batch'[c].missed[k].to] = "purged"
  BY <1>1 DEF BatchesOK, AnswersAddUp
<1>. QED
  BY <1>1, <1>2, <1>3, <1>4 DEF BatchesOK, AnswersAddUp

\* A batch under way, field by field.
LEMMA BatchAt ==
  ASSUME BatchesOK, NEW b \in Batches
  PROVE  /\ batch[b] \in BatchRows /\ batch[b].state \in {"idle", "sending", "answered"}
         /\ batch[b].todo \in Seq(Items) /\ batch[b].ids \in Seq(Nat)
              /\ batch[b].missed \in Seq(Misses)
         /\ batch[b].todo # <<>> => batch[b].state # "idle"
         /\ batch[b].state = "idle" => FaultsOf(b) = {}
<1>1. batch[b] \in BatchRows /\ (batch[b].state = "idle" => batch[b] = NoBatch)
  BY DEF BatchesOK
<1>2. batch[b].state = "idle" => batch[b].todo = <<>> /\ batch[b].missed = <<>>
  BY <1>1 DEF NoBatch
<1>3. batch[b].missed = <<>> => FaultsOf(b) = {}
  BY DEF FaultsOf
<1>. QED
  BY <1>1, <1>2, <1>3 DEF BatchRows

\* Faults only change where a batch's own do.
LEMMA FaultsElsewhere ==
  ASSUME BatchesOK, NEW b \in Batches, NEW r \in BatchRows, batch' = [batch EXCEPT ![b] = r],
         {k \in DOMAIN r.missed : r.missed[k].why = "fault"} = FaultsOf(b)
  PROVE  Faults' = Faults /\ IsFiniteSet(Faults') /\ Cardinality(Faults') = refused
<1>1. batch'[b] = r /\ \A c \in Batches \ {b} : batch'[c] = batch[c]
  BY DEF BatchesOK
<1>2. \A c \in Batches : FaultsOf(c)' = FaultsOf(c)
  BY <1>1 DEF FaultsOf
<1>3. Faults' = Faults
  BY <1>2 DEF Faults
<1>. QED
  BY <1>3 DEF BatchesOK, AnswersAddUp

\* A batch begins.
LEMMA BeginKeeps ==
  ASSUME BatchesOK, NotesOK, NEW b \in Batches, NEW list \in Seq(Staff), NEW e \in Moments,
         Begin(b, list, e)
  PROVE  BatchesOK'
<1>1. PICK todo : todo = [k \in DOMAIN list |-> [to |-> list[k], expiry |-> e]]
  OBVIOUS
<1>2. todo \in Seq(Items)
  <2>1. DOMAIN list = 1..Len(list) /\ Len(list) \in Nat
             /\ \A k \in 1..Len(list) : list[k] \in Staff
    OBVIOUS
  <2>2. \A k \in 1..Len(list) : [to |-> list[k], expiry |-> e] \in Items
    BY <2>1 DEF Items
  <2>3. todo \in [1..Len(list) -> Items]
    BY <1>1, <2>1, <2>2
  <2>. QED
    BY <2>1, <2>3
<1>3. PICK r : r = [NoBatch EXCEPT !.state = "sending", !.todo = todo]
  OBVIOUS
<1>4. r \in BatchRows /\ r.state = "sending" /\ r.ids = <<>> /\ r.missed = <<>>
  <2>1. <<>> \in Seq(Nat) /\ <<>> \in Seq(Misses)
    OBVIOUS
  <2>2. r = [state |-> "sending", todo |-> todo, ids |-> <<>>, missed |-> <<>>]
    BY <1>3 DEF NoBatch
  <2>. QED
    BY <1>2, <2>1, <2>2 DEF BatchRows
<1>5. batch[b].state = "idle" /\ batch' = [batch EXCEPT ![b] = r]
      /\ UNCHANGED <<notes, standing, refused>>
  BY <1>1, <1>3 DEF Begin
<1>6. {k \in DOMAIN r.missed : r.missed[k].why = "fault"} = FaultsOf(b)
  BY <1>4, <1>5, BatchAt
<1>7. IsFiniteSet(Faults') /\ Cardinality(Faults') = refused'
  BY <1>4, <1>5, <1>6, FaultsElsewhere
<1>8. refused \in 0 .. MaxInsertFaults
  BY DEF BatchesOK
<1>9. DOMAIN r.ids = {} /\ DOMAIN r.missed = {}
  BY <1>4
<1>. QED
  BY <1>4, <1>5, <1>7, <1>8, <1>9, OneBatch

\* The notifications and the pages are left alone.
LEMMA Rest ==
  ASSUME NEW s \in Seq(Items), s # <<>>
  PROVE  Tail(s) \in Seq(Items) /\ Head(s) \in Items /\ Head(s).to \in Staff
         /\ Head(s).expiry \in Moments
<1>1. Tail(s) \in Seq(Items) /\ Head(s) \in Items
  OBVIOUS
<1>. QED
  BY <1>1 DEF Items

\* A batch stores one more.
LEMMA SentKeeps ==
  ASSUME NotInv, NEW b \in Batches, SentTo(b)
  PROVE  NotInv'
<1>1. NotesOK /\ BatchesOK /\ ScreensOK
  BY ThreeParts
<1>. DEFINE n == Head(batch[b].todo)
<1>2. /\ batch[b].todo # <<>> /\ Store(n.to, n.expiry)
           /\ batch' = [batch EXCEPT ![b] = SentOne(b)]
      /\ UNCHANGED <<standing, screen, instant, refused>>
  BY DEF SentTo
<1>3. Tail(batch[b].todo) \in Seq(Items) /\ n.to \in Staff /\ n.expiry \in Moments
  BY <1>1, <1>2, BatchAt, Rest
<1>4. /\ NotesOK' /\ DOMAIN notes' = DOMAIN notes \cup {Len(notes) + 1}
      /\ Len(notes) + 1 \notin DOMAIN notes /\ Len(notes) + 1 \in Nat
  BY <1>1, <1>2, <1>3, Grown
<1>5. PICK ids : ids = Append(batch[b].ids, Len(notes) + 1)
  OBVIOUS
<1>6. /\ ids \in Seq(Nat) /\ DOMAIN ids = DOMAIN batch[b].ids \cup {Len(batch[b].ids) + 1}
      /\ Len(batch[b].ids) + 1 \notin DOMAIN batch[b].ids
      /\ \A k \in DOMAIN batch[b].ids : ids[k] = batch[b].ids[k]
      /\ ids[Len(batch[b].ids) + 1] = Len(notes) + 1
  <2>1. PICK old \in Seq(Nat) : old = batch[b].ids
    BY <1>1, BatchAt
  <2>2. PICK new \in Nat : new = Len(notes) + 1
    BY <1>4
  <2>3. ids = Append(old, new)
    BY <1>5, <2>1, <2>2
  <2>4. /\ Append(old, new) \in Seq(Nat) /\ Len(old) + 1 \notin DOMAIN old
        /\ DOMAIN Append(old, new) = DOMAIN old \cup {Len(old) + 1}
        /\ \A k \in DOMAIN old : Append(old, new)[k] = old[k]
        /\ Append(old, new)[Len(old) + 1] = new
    BY Appended
  <2>. QED
    BY <2>1, <2>2, <2>3, <2>4
<1>7. PICK r : r = SentOne(b)
  OBVIOUS
<1>8. r \in BatchRows /\ r.state = batch[b].state /\ r.ids = ids /\ r.missed = batch[b].missed
  BY <1>1, <1>3, <1>5, <1>6, <1>7, BatchAt DEF SentOne, BatchRows
<1>9. IsFiniteSet(Faults') /\ Cardinality(Faults') = refused'
  <2>1. {k \in DOMAIN r.missed : r.missed[k].why = "fault"} = FaultsOf(b)
    BY <1>8 DEF FaultsOf
  <2>. QED
    BY <1>1, <1>2, <1>7, <1>8, <2>1, FaultsElsewhere
<1>10. \A k \in DOMAIN batch[b].ids : batch[b].ids[k] \in DOMAIN notes
  BY <1>1 DEF BatchesOK
<1>11. \A k \in DOMAIN r.ids : /\ r.ids[k] \in DOMAIN notes'
                               /\ \/ r.ids[k] \notin DOMAIN notes
                                  \/ k \in DOMAIN batch[b].ids /\ r.ids[k] = batch[b].ids[k]
  BY <1>4, <1>6, <1>8, <1>10
<1>12. \A k, l \in DOMAIN batch[b].ids : batch[b].ids[k] = batch[b].ids[l] => k = l
  BY <1>1 DEF BatchesOK, AnswersAddUp
<1>13. \A k, l \in DOMAIN r.ids : r.ids[k] = r.ids[l] => k = l
  BY <1>4, <1>6, <1>8, <1>10, <1>12
<1>14. \A k \in DOMAIN r.missed : r.missed[k].why = "gone" => standing[r.missed[k].to] = "purged"
  BY <1>1, <1>8 DEF BatchesOK, AnswersAddUp
<1>15. refused' \in 0 .. MaxInsertFaults /\ r.state # "idle"
  BY <1>1, <1>2, <1>8, BatchAt DEF BatchesOK
<1>16. BatchesOK'
  BY <1>1, <1>2, <1>4, <1>7, <1>8, <1>9, <1>11, <1>13, <1>14, <1>15, OneBatch
<1>17. ScreensOK'
  BY <1>1, <1>2, <1>4, ScreensRest
<1>. QED
  BY <1>4, <1>16, <1>17, ThreeParts, PTL

\* A batch passes a recipient over.
LEMMA SkipKeeps ==
  ASSUME NotInv, NEW b \in Batches, SkipRecipient(b)
  PROVE  NotInv'
<1>1. NotesOK /\ BatchesOK /\ ScreensOK
  BY ThreeParts
<1>2. /\ batch[b].todo # <<>> /\ UNCHANGED <<notes, pushed, standing, screen, instant>>
  BY DEF SkipRecipient
<1>3. PICK to \in Staff : to = Head(batch[b].todo).to /\ Tail(batch[b].todo) \in Seq(Items)
  BY <1>1, <1>2, BatchAt, Rest
<1>4. PICK why \in {"gone", "fault"} :
        /\ batch' = [batch EXCEPT ![b] = Skipped(b, why)]
        /\ why = "gone" => standing[to] = "purged" /\ refused' = refused
        /\ why = "fault" => refused < MaxInsertFaults /\ refused' = refused + 1
  BY <1>3 DEF SkipRecipient, HasAccount
<1>5. PICK m : m = [to |-> to, why |-> why]
  OBVIOUS
<1>6. m \in Misses /\ m.to = to /\ m.why = why
  BY <1>5 DEF Misses
<1>7. PICK missed : missed = Append(batch[b].missed, m)
  OBVIOUS
<1>8. PICK new : new = Len(batch[b].missed) + 1
  OBVIOUS
<1>9. /\ missed \in Seq(Misses) /\ DOMAIN missed = DOMAIN batch[b].missed \cup {new}
      /\ new \notin DOMAIN batch[b].missed
      /\ \A k \in DOMAIN batch[b].missed : missed[k] = batch[b].missed[k]
      /\ missed[new] = m
  BY <1>1, <1>6, <1>7, <1>8, BatchAt, Appended
<1>10. PICK r : r = Skipped(b, why)
  OBVIOUS
<1>11. r \in BatchRows /\ r.state = batch[b].state /\ r.ids = batch[b].ids /\ r.missed = missed
  BY <1>1, <1>3, <1>5, <1>7, <1>9, <1>10, BatchAt DEF Skipped, BatchRows
<1>12. refused \in Nat /\ refused' \in 0 .. MaxInsertFaults /\ IsFiniteSet(Faults)
            /\ Cardinality(Faults) = refused
  BY <1>1, <1>4, NotificationsAssumption DEF BatchesOK, AnswersAddUp
<1>13. batch'[b] = r /\ \A c \in Batches \ {b} : batch'[c] = batch[c]
  BY <1>1, <1>4, <1>10 DEF BatchesOK
<1>14. IsFiniteSet(Faults') /\ Cardinality(Faults') = refused'
  <2>1. CASE why = "gone"
    <3>1. {k \in DOMAIN r.missed : r.missed[k].why = "fault"} = FaultsOf(b)
      BY <1>6, <1>9, <1>11, <2>1 DEF FaultsOf
    <3>. QED
      BY <1>1, <1>4, <1>10, <1>11, <2>1, <3>1, FaultsElsewhere
  <2>2. CASE why = "fault"
    <3>1. FaultsOf(b)' = FaultsOf(b) \cup {new} /\ new \notin FaultsOf(b)
      BY <1>6, <1>9, <1>11, <1>13, <2>2 DEF FaultsOf
    <3>2. \A c \in Batches \ {b} : FaultsOf(c)' = FaultsOf(c)
      BY <1>13 DEF FaultsOf
    <3>3. \A f : f \in Faults <=> \E c \in Batches : \E k \in FaultsOf(c) : f = <<c, k>>
      BY DEF Faults
    <3>4. \A f : f \in Faults' <=> \E c \in Batches : \E k \in FaultsOf(c)' : f = <<c, k>>
      BY DEF Faults
    <3>5. Faults' = Faults \cup {<<b, new>>}
      BY <3>1, <3>2, <3>3, <3>4
    <3>6. <<b, new>> \notin Faults
      BY <3>1, <3>3
    <3>. QED
      BY <1>4, <1>12, <2>2, <3>5, <3>6, FS_AddElement
  <2>. QED
    BY <2>1, <2>2
<1>15. \A k \in DOMAIN r.ids : r.ids[k] \in DOMAIN notes' /\ r.ids[k] = batch[b].ids[k]
  BY <1>1, <1>2, <1>11 DEF BatchesOK
<1>16. \A k, l \in DOMAIN r.ids : r.ids[k] = r.ids[l] => k = l
  BY <1>1, <1>11 DEF BatchesOK, AnswersAddUp
<1>17. \A k \in DOMAIN batch[b].missed :
         batch[b].missed[k].why = "gone" => standing[batch[b].missed[k].to] = "purged"
  BY <1>1 DEF BatchesOK, AnswersAddUp
<1>18. \A k \in DOMAIN r.missed : r.missed[k].why = "gone" => standing[r.missed[k].to] = "purged"
  BY <1>4, <1>6, <1>9, <1>11, <1>17
<1>19. r.state # "idle"
  BY <1>1, <1>2, <1>11, BatchAt
<1>20. BatchesOK'
  BY <1>1, <1>2, <1>4, <1>10, <1>11, <1>12, <1>14, <1>15, <1>16, <1>18, <1>19, OneBatch
<1>21. NotesOK'
  BY <1>1, <1>2 DEF NotesOK, OwnersExist, UtcDue
<1>22. ScreensOK'
  BY <1>1, <1>2, ScreensRest
<1>. QED
  BY <1>20, <1>21, <1>22, ThreeParts, PTL

\* A batch is answered.
LEMMA FinishKeeps ==
  ASSUME BatchesOK, NEW b \in Batches, FinishBatch(b)
  PROVE  BatchesOK'
<1>1. batch[b].state = "sending" /\ batch' = [batch EXCEPT ![b].state = "answered"]
      /\ UNCHANGED <<notes, standing, refused>>
  BY DEF FinishBatch
<1>2. PICK r : r = [batch[b] EXCEPT !.state = "answered"]
  OBVIOUS
<1>3. /\ r \in BatchRows /\ r.state = "answered" /\ r.ids = batch[b].ids
           /\ r.missed = batch[b].missed
      /\ batch' = [batch EXCEPT ![b] = r]
  BY <1>1, <1>2, BatchAt DEF BatchRows
<1>4. {k \in DOMAIN r.missed : r.missed[k].why = "fault"} = FaultsOf(b)
  BY <1>3 DEF FaultsOf
<1>5. IsFiniteSet(Faults') /\ Cardinality(Faults') = refused'
  BY <1>1, <1>3, <1>4, FaultsElsewhere
<1>6. \A k \in DOMAIN r.ids : r.ids[k] \in DOMAIN notes' /\ r.ids[k] = batch[b].ids[k]
  BY <1>1, <1>3 DEF BatchesOK
<1>7. \A k, l \in DOMAIN r.ids : r.ids[k] = r.ids[l] => k = l
  BY <1>3 DEF BatchesOK, AnswersAddUp
<1>8. \A k \in DOMAIN r.missed : r.missed[k].why = "gone" => standing[r.missed[k].to] = "purged"
  BY <1>3 DEF BatchesOK, AnswersAddUp
<1>9. refused' \in 0 .. MaxInsertFaults
  BY <1>1 DEF BatchesOK
<1>. QED
  BY <1>1, <1>3, <1>5, <1>6, <1>7, <1>8, <1>9, OneBatch

-----------------------------------------------------------------------------
\* Pages: what they looked up exists, and what they write is one row's next.
LEMMA ScreenMoves ==
  ASSUME ScreensOK, NEW s \in Screens, NEW op \in {"none", "read", "delete"}, NEW i \in Nat,
         screen' = [screen EXCEPT ![s] = [op |-> op, id |-> i]],
         op # "none" => i \in DOMAIN notes', DOMAIN notes \subseteq DOMAIN notes'
  PROVE  ScreensOK'
<1>1. PICK r : r = [op |-> op, id |-> i]
  OBVIOUS
<1>2. r \in [op : {"none", "read", "delete"}, id : Nat] /\ r.op = op /\ r.id = i
  BY <1>1
<1>3. screen' = [screen EXCEPT ![s] = r]
  BY <1>1
<1>. QED
  BY <1>2, <1>3 DEF ScreensOK

\* A page's statement changes one row.
LEMMA WroteOne ==
  ASSUME NotesOK, NEW i \in DOMAIN notes, NEW m, notes' = [notes EXCEPT ![i] = m],
         Later(notes[i], m),
         UNCHANGED <<pushed, standing, instant>>
  PROVE  NotesOK' /\ DOMAIN notes' = DOMAIN notes
<1>1. notes \in Seq(NoteRows) /\ m \in NoteRows
  BY DEF NotesOK, Later
<1>2. /\ notes' \in Seq(NoteRows) /\ DOMAIN notes' = DOMAIN notes /\ notes'[i] = m
      /\ \A j \in DOMAIN notes : j # i => notes'[j] = notes[j]
  BY <1>1
<1>3. \A j \in DOMAIN notes : Later(notes[j], notes[j]) /\ (notes[j].here
           => standing[notes[j].owner] # "purged")
  BY <1>1, RowsKept
<1>4. \A j \in DOMAIN notes : Later(notes[j], notes'[j])
  BY <1>2, <1>3
<1>5. \A j \in DOMAIN notes : notes'[j].here => standing'[notes[j].owner] # "purged"
  BY <1>3, <1>4 DEF Later
<1>6. standing' \in [Staff -> {"active", "off", "purged"}]
  BY DEF NotesOK
<1>. QED
  BY <1>2, <1>4, <1>5, <1>6, Rewritten

\* A notification is marked read.
LEMMA MarkReadKeeps ==
  ASSUME NotInv, NEW s \in Screens, MarkRead(s)
  PROVE  NotInv'
<1>1. NotesOK /\ BatchesOK /\ ScreensOK
  BY ThreeParts
<1>2. /\ screen[s].op = "read" /\ screen' = [screen EXCEPT ![s] = NoScreen]
      /\ UNCHANGED <<pushed, standing, batch, instant, refused>>
      /\ notes' = [notes EXCEPT ![screen[s].id] =
                     IF notes[screen[s].id].here THEN Stamped(notes[screen[s].id])
                          ELSE notes[screen[s].id]]
  BY DEF MarkRead
<1>3. PICK i \in DOMAIN notes : i = screen[s].id
  BY <1>1, <1>2 DEF ScreensOK
<1>4. notes[i] \in NoteRows /\ instant \in 0 .. LastInstant
  BY <1>1, NotificationsAssumption DEF NotesOK
<1>5. Later(notes[i], notes[i])
  BY <1>1, <1>4, RowsKept
<1>6. Later(notes[i], Stamped(notes[i]))
  BY <1>4, <1>5 DEF Later, Stamped, NoteRows
<1>7. NotesOK' /\ DOMAIN notes' = DOMAIN notes
  <2>1. PICK m : m = IF notes[i].here THEN Stamped(notes[i]) ELSE notes[i]
    OBVIOUS
  <2>2. Later(notes[i], m) /\ notes' = [notes EXCEPT ![i] = m]
    BY <1>2, <1>3, <1>5, <1>6, <2>1
  <2>. QED
    BY <1>1, <1>2, <2>2, WroteOne
<1>8. BatchesOK'
  BY <1>1, <1>2, <1>7, BatchesRest
<1>9. ScreensOK'
  BY <1>1, <1>2, <1>7, ScreenMoves DEF NoScreen
<1>. QED
  BY <1>7, <1>8, <1>9, ThreeParts, PTL

\* A notification is deleted.
LEMMA DeleteOneKeeps ==
  ASSUME NotInv, NEW s \in Screens, DeleteOne(s)
  PROVE  NotInv'
<1>1. NotesOK /\ BatchesOK /\ ScreensOK
  BY ThreeParts
<1>2. /\ screen[s].op = "delete" /\ screen' = [screen EXCEPT ![s] = NoScreen]
      /\ UNCHANGED <<pushed, standing, batch, instant, refused>>
      /\ notes' = [notes EXCEPT ![screen[s].id] = IF notes[screen[s].id].here
                     THEN Removed(notes[screen[s].id], "deleted") ELSE notes[screen[s].id]]
  BY DEF DeleteOne
<1>3. PICK i \in DOMAIN notes : i = screen[s].id
  BY <1>1, <1>2 DEF ScreensOK
<1>4. notes[i] \in NoteRows
  BY <1>1 DEF NotesOK
<1>5. Later(notes[i], notes[i])
  BY <1>1, <1>4, RowsKept
<1>6. Later(notes[i], Removed(notes[i], "deleted"))
  BY <1>4, <1>5 DEF Later, Removed, NoteRows
<1>7. NotesOK' /\ DOMAIN notes' = DOMAIN notes
  <2>1. PICK m : m = IF notes[i].here THEN Removed(notes[i], "deleted") ELSE notes[i]
    OBVIOUS
  <2>2. Later(notes[i], m) /\ notes' = [notes EXCEPT ![i] = m]
    BY <1>2, <1>3, <1>5, <1>6, <2>1
  <2>. QED
    BY <1>1, <1>2, <2>2, WroteOne
<1>8. BatchesOK'
  BY <1>1, <1>2, <1>7, BatchesRest
<1>9. ScreensOK'
  BY <1>1, <1>2, <1>7, ScreenMoves DEF NoScreen
<1>. QED
  BY <1>7, <1>8, <1>9, ThreeParts, PTL

\* All of an inbox are marked read.
LEMMA MarkAllKeeps ==
  ASSUME NotInv, NEW a \in Staff, MarkAllRead(a)
  PROVE  NotInv'
<1>1. NotesOK /\ BatchesOK /\ ScreensOK
  BY ThreeParts
<1>2. /\ notes' = [i \in DOMAIN notes |->
                     IF i \in UnreadOf(a) THEN [notes[i] EXCEPT !.readAt = instant] ELSE notes[i]]
      /\ UNCHANGED <<pushed, standing, batch, screen, instant, refused>>
  BY DEF MarkAllRead
<1>3. notes \in Seq(NoteRows) /\ instant \in 0 .. LastInstant
           /\ standing \in [Staff -> {"active", "off", "purged"}]
  BY <1>1, NotificationsAssumption DEF NotesOK
<1>4. ASSUME NEW i \in DOMAIN notes
      PROVE  Later(notes[i], notes'[i]) /\ (notes'[i].here => standing[notes[i].owner] # "purged")
  <2>1. notes[i] \in NoteRows /\ Later(notes[i], notes[i]) /\ (notes[i].here
             => standing[notes[i].owner] # "purged")
    BY <1>1, <1>3, RowsKept
  <2>2. CASE i \in UnreadOf(a)
    <3>1. notes'[i] = [notes[i] EXCEPT !.readAt = instant] /\ notes[i].readAt = 0
      BY <1>2, <2>2 DEF UnreadOf
    <3>. QED
      BY <1>3, <2>1, <3>1 DEF Later, NoteRows
  <2>3. CASE i \notin UnreadOf(a)
    BY <1>2, <2>1, <2>3
  <2>. QED
    BY <2>2, <2>3
<1>5. notes' \in Seq(NoteRows) /\ DOMAIN notes' = DOMAIN notes
  <2>1. DOMAIN notes = 1..Len(notes) /\ Len(notes) \in Nat
    BY <1>3
  <2>2. notes' = [i \in 1..Len(notes) |-> notes'[i]]
             /\ \A i \in 1..Len(notes) : notes'[i] \in NoteRows
    BY <1>2, <1>4, <2>1 DEF Later
  <2>. QED
    BY <2>1, <2>2
<1>6. NotesOK'
  BY <1>1, <1>2, <1>3, <1>4, <1>5, Rewritten
<1>7. BatchesOK'
  BY <1>1, <1>2, <1>5, BatchesRest
<1>8. ScreensOK'
  BY <1>1, <1>2, <1>5, ScreensRest
<1>. QED
  BY <1>6, <1>7, <1>8, ThreeParts, PTL

\* The lapsed ones are removed.
LEMMA CleanupKeeps ==
  ASSUME NotInv, CleanupExpired
  PROVE  NotInv'
<1>1. NotesOK /\ BatchesOK /\ ScreensOK
  BY ThreeParts
<1>2. /\ notes' = [i \in DOMAIN notes |->
                     IF notes[i].here /\ LapsedNow(notes[i]) THEN Removed(notes[i],
                          "lapsed") ELSE notes[i]]
      /\ UNCHANGED <<pushed, standing, batch, screen, instant, refused>>
  BY DEF CleanupExpired
<1>3. notes \in Seq(NoteRows) /\ standing \in [Staff -> {"active", "off", "purged"}]
  BY <1>1 DEF NotesOK
<1>4. ASSUME NEW i \in DOMAIN notes
      PROVE  Later(notes[i], notes'[i]) /\ (notes'[i].here => standing[notes[i].owner] # "purged")
  <2>1. notes[i] \in NoteRows /\ Later(notes[i], notes[i]) /\ (notes[i].here
             => standing[notes[i].owner] # "purged")
    BY <1>1, <1>3, RowsKept
  <2>2. CASE notes[i].here /\ LapsedNow(notes[i])
    <3>1. PICK m : m = notes'[i] /\ m = Removed(notes[i], "lapsed")
      BY <1>2, <2>2
    <3>2. m \in NoteRows /\ m.owner = notes[i].owner /\ m.expiry = notes[i].expiry
      BY <2>1, <3>1 DEF Removed, NoteRows
    <3>3. m.readAt = notes[i].readAt /\ ~m.here /\ m.end = "lapsed"
      BY <2>1, <3>1 DEF Removed, NoteRows
    <3>. QED
      BY <2>2, <3>1, <3>2, <3>3 DEF Later
  <2>3. CASE ~(notes[i].here /\ LapsedNow(notes[i]))
    BY <1>2, <2>1, <2>3
  <2>. QED
    BY <2>2, <2>3
<1>5. notes' \in Seq(NoteRows) /\ DOMAIN notes' = DOMAIN notes
  <2>1. DOMAIN notes = 1..Len(notes) /\ Len(notes) \in Nat
    BY <1>3
  <2>2. notes' = [i \in 1..Len(notes) |-> notes'[i]]
             /\ \A i \in 1..Len(notes) : notes'[i] \in NoteRows
    BY <1>2, <1>4, <2>1 DEF Later
  <2>. QED
    BY <2>1, <2>2
<1>6. NotesOK'
  BY <1>1, <1>2, <1>3, <1>4, <1>5, Rewritten
<1>7. BatchesOK'
  BY <1>1, <1>2, <1>5, BatchesRest
<1>8. ScreensOK'
  BY <1>1, <1>2, <1>5, ScreensRest
<1>. QED
  BY <1>6, <1>7, <1>8, ThreeParts, PTL

\* An account is purged, and its inbox with it.
LEMMA PurgeKeeps ==
  ASSUME NotInv, NEW a \in Staff, PurgeMember(a)
  PROVE  NotInv'
<1>1. NotesOK /\ BatchesOK /\ ScreensOK
  BY ThreeParts
<1>2. /\ notes' = [i \in DOMAIN notes |->
                     IF notes[i].here /\ notes[i].owner = a THEN Removed(notes[i],
                          "purged") ELSE notes[i]]
      /\ standing' = [standing EXCEPT ![a] = "purged"]
      /\ UNCHANGED <<pushed, batch, screen, instant, refused>>
  BY DEF PurgeMember, EmptiedFor
<1>3. notes \in Seq(NoteRows) /\ standing \in [Staff -> {"active", "off", "purged"}]
  BY <1>1 DEF NotesOK
<1>4. /\ standing' \in [Staff -> {"active", "off", "purged"}] /\ standing'[a] = "purged"
      /\ \A s \in Staff : s # a => standing'[s] = standing[s]
  BY <1>2, <1>3
<1>5. ASSUME NEW i \in DOMAIN notes
      PROVE  Later(notes[i], notes'[i]) /\ (notes'[i].here
             => standing'[notes[i].owner] # "purged")
  <2>1. notes[i] \in NoteRows /\ Later(notes[i], notes[i]) /\ (notes[i].here
             => standing[notes[i].owner] # "purged")
    BY <1>1, <1>3, RowsKept
  <2>2. /\ notes[i] \in NoteRows /\ Later(notes[i], notes[i]) /\ (notes[i].here
             => standing[notes[i].owner] # "purged")
        /\ notes[i].owner \in Staff
    BY <2>1 DEF NoteRows
  <2>3. CASE notes[i].here /\ notes[i].owner = a
    <3>1. PICK m : m = notes'[i] /\ m = Removed(notes[i], "purged")
      BY <1>2, <2>3
    <3>2. m \in NoteRows /\ m.owner = notes[i].owner /\ m.expiry = notes[i].expiry
      BY <2>2, <3>1 DEF Removed, NoteRows
    <3>3. m.readAt = notes[i].readAt /\ ~m.here /\ m.end = "purged"
      BY <2>2, <3>1 DEF Removed, NoteRows
    <3>. QED
      BY <3>1, <3>2, <3>3 DEF Later
  <2>4. CASE ~(notes[i].here /\ notes[i].owner = a)
    BY <1>2, <1>4, <2>2, <2>4
  <2>. QED
    BY <2>3, <2>4
<1>6. notes' \in Seq(NoteRows) /\ DOMAIN notes' = DOMAIN notes
  <2>1. DOMAIN notes = 1..Len(notes) /\ Len(notes) \in Nat
    BY <1>3
  <2>2. notes' = [i \in 1..Len(notes) |-> notes'[i]]
             /\ \A i \in 1..Len(notes) : notes'[i] \in NoteRows
    BY <1>2, <1>5, <2>1 DEF Later
  <2>. QED
    BY <2>1, <2>2
<1>7. NotesOK'
  BY <1>1, <1>2, <1>4, <1>5, <1>6, Rewritten
<1>8. BatchesOK'
  BY <1>1, <1>2, <1>4, <1>6, BatchesRest
<1>9. ScreensOK'
  BY <1>1, <1>2, <1>6, ScreensRest
<1>. QED
  BY <1>7, <1>8, <1>9, ThreeParts, PTL

\* A notification is created by itself.
LEMMA StoredAlone ==
  ASSUME NotInv, NEW a \in Staff, NEW e \in Moments, Store(a, e),
         UNCHANGED <<standing, batch, screen, instant, refused>>
  PROVE  NotInv'
<1>1. NotesOK /\ BatchesOK /\ ScreensOK
  BY ThreeParts
<1>2. NotesOK' /\ DOMAIN notes \subseteq DOMAIN notes'
  BY <1>1, Grown
<1>3. BatchesOK' /\ ScreensOK'
  BY <1>1, <1>2, BatchesRest, ScreensRest
<1>. QED
  BY <1>2, <1>3, ThreeParts, PTL

\* An hour from now is a moment.
LEMMA InAnHour == instant \in Nat => ExpiryIn(1) \in Moments
BY DEF ExpiryIn, Moments

\* A page looks its notification up.
LEMMA LookedUp ==
  ASSUME NotInv, NEW s \in Screens, NEW op \in {"read", "delete"}, NEW i \in DOMAIN notes,
         FindOwned(s, op, i)
  PROVE  NotInv'
<1>1. NotesOK /\ BatchesOK /\ ScreensOK
  BY ThreeParts
<1>2. screen' = [screen EXCEPT ![s] = [op |-> op, id |-> i]]
      /\ UNCHANGED <<notes, pushed, standing, batch, instant, refused>>
  BY DEF FindOwned
<1>3. i \in Nat
  BY <1>1 DEF NotesOK
<1>4. ScreensOK'
  BY <1>1, <1>2, <1>3, ScreenMoves
<1>5. NotesOK'
  BY <1>1, <1>2 DEF NotesOK, OwnersExist, UtcDue
<1>6. BatchesOK'
  BY <1>1, <1>2, BatchesRest
<1>. QED
  BY <1>4, <1>5, <1>6, ThreeParts, PTL

\* The recipients' lists are sequences of accounts.
LEMMA ListsOfStaff ==
  ASSUME NEW q \in Listings(ActiveStaff)
  PROVE  q \in Seq(Staff)
<1>1. ActiveStaff \subseteq Staff /\ IsFiniteSet(ActiveStaff)
  BY NotificationsAssumption, FS_Subset DEF ActiveStaff
<1>2. Cardinality(ActiveStaff) \in Nat
  BY <1>1, FS_CardinalityType
<1>3. q \in [1..Cardinality(ActiveStaff) -> ActiveStaff]
  BY DEF Listings
<1>. QED
  BY <1>1, <1>2, <1>3

\* The ways a batch may begin.
LEMMA BatchBegins ==
  ASSUME NotInv, NEW b \in Batches, NEW list \in Seq(Staff), NEW e \in Moments, Begin(b, list, e)
  PROVE  NotInv'
<1>1. NotesOK /\ BatchesOK /\ ScreensOK
  BY ThreeParts
<1>2. UNCHANGED <<notes, pushed, standing, screen, instant, refused>>
  BY DEF Begin
<1>3. BatchesOK'
  BY <1>1, BeginKeeps
<1>4. NotesOK'
  BY <1>1, <1>2 DEF NotesOK, OwnersExist, UtcDue
<1>5. ScreensOK'
  BY <1>1, <1>2, ScreensRest
<1>. QED
  BY <1>3, <1>4, <1>5, ThreeParts, PTL

\* The ways it may go on.
LEMMA BatchEnds ==
  ASSUME NotInv, NEW b \in Batches, FinishBatch(b)
  PROVE  NotInv'
<1>1. NotesOK /\ BatchesOK /\ ScreensOK
  BY ThreeParts
<1>2. UNCHANGED <<notes, pushed, standing, screen, instant, refused>>
  BY DEF FinishBatch
<1>3. BatchesOK'
  BY <1>1, FinishKeeps
<1>4. NotesOK'
  BY <1>1, <1>2 DEF NotesOK, OwnersExist, UtcDue
<1>5. ScreensOK'
  BY <1>1, <1>2, ScreensRest
<1>. QED
  BY <1>3, <1>4, <1>5, ThreeParts, PTL

\* The clock moves on.
LEMMA InstantKeeps ==
  ASSUME NotInv, NextInstant
  PROVE  NotInv'
<1>1. NotesOK /\ BatchesOK /\ ScreensOK
  BY ThreeParts
<1>2. instant < LastInstant /\ instant' = instant + 1
      /\ UNCHANGED <<notes, pushed, standing, batch, screen, refused>>
  BY DEF NextInstant
<1>3. instant \in 1 .. LastInstant /\ LastInstant \in Nat /\ notes \in Seq(NoteRows)
  BY <1>1, NotificationsAssumption DEF NotesOK
<1>4. instant' \in 1 .. LastInstant
  BY <1>2, <1>3
<1>5. ASSUME NEW i \in DOMAIN notes
      PROVE  /\ notes[i].readAt <= instant + 1
             /\ notes[i].expiry.at <= instant => notes[i].expiry.at <= instant + 1
  <2>1. notes[i] \in NoteRows /\ notes[i].readAt <= instant
    BY <1>1, <1>3 DEF NotesOK
  <2>2. notes[i].readAt \in Nat /\ notes[i].expiry.at \in Nat
    BY <1>3, <2>1 DEF NoteRows, Moments
  <2>. QED
    BY <1>3, <2>1, <2>2
<1>6. NotesOK'
  <2>1. UtcDue'
    BY <1>1, <1>2, <1>5 DEF NotesOK, UtcDue
  <2>2. OwnersExist'
    BY <1>1, <1>2 DEF NotesOK, OwnersExist
  <2>. QED
    BY <1>1, <1>2, <1>4, <1>5, <2>1, <2>2 DEF NotesOK
<1>7. BatchesOK' /\ ScreensOK'
  BY <1>1, <1>2, BatchesRest, ScreensRest
<1>. QED
  BY <1>6, <1>7, ThreeParts, PTL

-----------------------------------------------------------------------------
\* The inboxes are empty.
LEMMA NotInitially == NotInit => NotInv
<1>. SUFFICES ASSUME NotInit PROVE NotInv
  OBVIOUS
<1>1. /\ notes = <<>> /\ pushed = {} /\ standing \in [Staff -> {"active", "off"}]
      /\ batch = [b \in Batches |-> NoBatch] /\ screen = [s \in Screens |-> NoScreen]
      /\ instant = 1 /\ refused = 0
  BY DEF NotInit
<1>2. DOMAIN notes = {} /\ notes \in Seq(NoteRows)
  BY <1>1
<1>3. instant \in 1 .. LastInstant /\ refused \in 0 .. MaxInsertFaults
  BY <1>1, NotificationsAssumption
<1>4. NotesOK
  BY <1>1, <1>2, <1>3 DEF NotesOK, OwnersExist, UtcDue
<1>5. /\ NoBatch \in BatchRows /\ NoBatch.ids = <<>> /\ NoBatch.missed = <<>>
      /\ DOMAIN NoBatch.ids = {} /\ DOMAIN NoBatch.missed = {}
  BY DEF NoBatch, BatchRows
<1>6. \A b \in Batches : FaultsOf(b) = {}
  BY <1>1, <1>5 DEF FaultsOf
<1>7. Faults = {}
  BY <1>6 DEF Faults
<1>8. IsFiniteSet(Faults) /\ Cardinality(Faults) = refused
  BY <1>1, <1>7, FS_EmptySet
<1>9. BatchesOK
  BY <1>1, <1>3, <1>5, <1>8 DEF BatchesOK, AnswersAddUp
<1>10. ScreensOK
  BY <1>1 DEF ScreensOK, NoScreen
<1>. QED
  BY <1>4, <1>9, <1>10, ThreeParts

\* Nothing happens.
LEMMA NotRests ==
  ASSUME NotInv, UNCHANGED notVars
  PROVE  NotInv'
<1>1. NotesOK /\ BatchesOK /\ ScreensOK
  BY ThreeParts
<1>2. NotesOK'
  BY <1>1 DEF notVars, NotesOK, OwnersExist, UtcDue
<1>3. BatchesOK' /\ ScreensOK'
  BY <1>1, BatchesRest, ScreensRest DEF notVars
<1>. QED
  BY <1>2, <1>3, ThreeParts, PTL

\* Every step keeps the invariant.
LEMMA NotStep == NotInv /\ [NotNext]_notVars => NotInv'
<1>. SUFFICES ASSUME NotInv, NotNext PROVE NotInv'
  BY NotRests
<1>1. ExpiryIn(1) \in Moments /\ Expiries \subseteq Moments /\ Lists \subseteq Seq(Staff)
  BY InAnHour, NotificationsAssumption DEF NotInv, NotTypeOK, Moments
<1>2. ASSUME NEW a \in Staff,
             (\E e \in Expiries : CreateNotification(a, e)) \/ TriggerOne(a)
                  \/ MarkAllRead(a) \/ PurgeMember(a)
      PROVE  NotInv'
  <2>1. CASE \E e \in Expiries : CreateNotification(a, e)
    BY <1>1, <2>1, StoredAlone DEF CreateNotification
  <2>2. CASE TriggerOne(a)
    BY <1>1, <2>2, StoredAlone DEF TriggerOne
  <2>. QED
    BY <1>2, <2>1, <2>2, MarkAllKeeps, PurgeKeeps
<1>3. ASSUME NEW b \in Batches,
             \/ \E list \in Lists : TriggerSystem(b, list) \/ \E e \in Expiries : BulkCreate(b,
                  list, e)
             \/ Broadcast(b) \/ SentTo(b) \/ SkipRecipient(b) \/ FinishBatch(b)
      PROVE  NotInv'
  <2>1. CASE \E list \in Lists : TriggerSystem(b, list) \/ \E e \in Expiries : BulkCreate(b,
             list, e)
    BY <1>1, <2>1, BatchBegins DEF TriggerSystem, BulkCreate
  <2>2. CASE Broadcast(b)
    BY <1>1, <2>2, ListsOfStaff, BatchBegins DEF Broadcast
  <2>. QED
    BY <1>3, <2>1, <2>2, SentKeeps, SkipKeeps, BatchEnds
<1>4. ASSUME NEW s \in Screens,
             \/ \E op \in {"read", "delete"}, i \in DOMAIN notes : FindOwned(s, op, i)
             \/ MarkRead(s) \/ DeleteOne(s)
      PROVE  NotInv'
  BY <1>4, LookedUp, MarkReadKeeps, DeleteOneKeeps
<1>. QED
  BY <1>2, <1>3, <1>4, CleanupKeeps, InstantKeeps DEF NotNext

\* No notification outlives its owner's account or ends before its time, and a batch's answer counts
\* each recipient once, whoever is purged between two statements (NotInv).
THEOREM NoticesAreKept == NotSpec => []NotInv
BY NotInitially, NotStep, PTL DEF NotSpec

\* No step moves the moment of a first reading.
LEMMA ReadingStands ==
  ASSUME NotInv, NotNext, NEW i \in DOMAIN notes, notes[i].readAt # 0
  PROVE  notes'[i].readAt = notes[i].readAt
<1>1. notes \in Seq(NoteRows) /\ notes[i] \in NoteRows /\ i \in DOMAIN notes
  BY DEF NotInv, NotTypeOK
<1>2. ASSUME NEW a \in Staff, NEW e, Store(a, e) PROVE notes'[i] = notes[i]
  <2>1. PICK r : notes' = Append(notes, r)
    BY <1>2 DEF Store
  <2>. QED
    BY <1>1, <2>1
<1>3. ASSUME NEW how PROVE Removed(notes[i], how).readAt = notes[i].readAt
  BY <1>1 DEF Removed, NoteRows
<1>4. Stamped(notes[i]).readAt = notes[i].readAt
  BY <1>1 DEF Stamped, NoteRows
<1>5. ASSUME NEW a \in Staff, MarkAllRead(a) PROVE notes'[i] = notes[i]
  <2>1. i \notin UnreadOf(a)
    BY DEF UnreadOf
  <2>. QED
    BY <1>1, <1>5, <2>1 DEF MarkAllRead
<1>6. ASSUME NEW s \in Screens, MarkRead(s) \/ DeleteOne(s)
      PROVE  notes'[i].readAt = notes[i].readAt
  <2>1. PICK m : m = screen[s].id
    OBVIOUS
  <2>2. \/ notes' = [notes EXCEPT ![m] = IF notes[m].here THEN Stamped(notes[m]) ELSE notes[m]]
        \/ notes' = [notes EXCEPT ![m] = IF notes[m].here THEN Removed(notes[m],
             "deleted") ELSE notes[m]]
    BY <1>6, <2>1 DEF MarkRead, DeleteOne
  <2>3. CASE m = i
    <3>1. notes'[i] \in {Stamped(notes[i]), Removed(notes[i], "deleted"), notes[i]}
      BY <1>1, <2>2, <2>3
    <3>. QED
      BY <1>3, <1>4, <3>1
  <2>4. CASE m # i
    BY <1>1, <2>2, <2>4
  <2>. QED
    BY <2>3, <2>4
<1>7. ASSUME CleanupExpired \/ \E a \in Staff : PurgeMember(a)
      PROVE  notes'[i].readAt = notes[i].readAt
  <2>1. notes'[i] = notes[i] \/ \E how : notes'[i] = Removed(notes[i], how)
    BY <1>1, <1>7 DEF CleanupExpired, PurgeMember, EmptiedFor
  <2>. QED
    BY <1>3, <2>1
<1>8. ASSUME NEW a \in Staff,
             (\E e \in Expiries : CreateNotification(a, e)) \/ TriggerOne(a)
      PROVE  notes'[i] = notes[i]
  BY <1>2, <1>8 DEF CreateNotification, TriggerOne
<1>9. ASSUME NEW b \in Batches,
             \/ \E list \in Lists : TriggerSystem(b, list) \/ \E e \in Expiries : BulkCreate(b,
                  list, e)
             \/ Broadcast(b) \/ SentTo(b) \/ SkipRecipient(b) \/ FinishBatch(b)
      PROVE  notes'[i] = notes[i]
  <2>1. CASE SentTo(b)
    <3>1. batch[b].todo # <<>> /\ batch[b].todo \in Seq(Items)
      BY <2>1, BatchAt, ThreeParts DEF SentTo
    <3>2. Head(batch[b].todo).to \in Staff
      BY <3>1, Rest
    <3>3. Store(Head(batch[b].todo).to, Head(batch[b].todo).expiry)
      BY <2>1 DEF SentTo
    <3>. QED
      BY <1>2, <3>2, <3>3
  <2>2. CASE ~SentTo(b)
    <3>1. notes' = notes
      BY <1>9, <2>2 DEF TriggerSystem, BulkCreate, Broadcast, Begin, SkipRecipient, FinishBatch
    <3>. QED
      BY <3>1
  <2>. QED
    BY <2>1, <2>2
<1>10. ASSUME \/ \E s \in Screens, op \in {"read", "delete"}, k \in DOMAIN notes : FindOwned(s,
                   op, k)
              \/ NextInstant
       PROVE  notes' = notes
  BY <1>10 DEF FindOwned, NextInstant
<1>. QED
  BY <1>5, <1>6, <1>7, <1>8, <1>9, <1>10 DEF NotNext

\* The moment a notification was first read at stands (FirstReadingStands).
THEOREM ReadingsStand == NotSpec => FirstReadingStands
<1>. DEFINE A == \A i \in DOMAIN notes : notes[i].readAt # 0 => notes'[i].readAt = notes[i].readAt
<1>1. NotInv /\ [NotNext]_notVars => [A]_notVars
  BY ReadingStands
<1>. QED
  BY <1>1, NoticesAreKept, PTL DEF NotSpec, FirstReadingStands

-----------------------------------------------------------------------------
(* The workbench.                                                           *)

\* The workbench begins as its parts do.
LEMMA PartsBegin ==
  Init => /\ UpInit /\ SessInit /\ LabelInit /\ ConnInit
          /\ RulesInit /\ HoursInit /\ CollabInit /\ NotInit
  BY DEF Init

\* A step of the workbench is a step of one part, and leaves the others alone.
LEMMA PartsStep ==
  [Next]_vars =>
    /\ [UpNext]_upVars /\ [SessNext]_sessVars /\ [LabelNext]_labelVars /\ [ConnNext]_connVars
    /\ [RulesNext]_ruleVars /\ [HoursNext]_hourVars /\ [CollabNext]_collabVars
         /\ [NotNext]_notVars
  BY DEF Next, vars

\* So a run of the workbench is one of each part.
LEMMA PartsRun ==
  Spec => /\ UpSpec /\ SessSpec /\ LabelSpec /\ ConnSpec
          /\ RulesSpec /\ HoursSpec /\ CollabSpec /\ NotSpec
  BY PartsBegin, PartsStep, PTL
     DEF Spec, UpSpec, SessSpec, LabelSpec, ConnSpec, RulesSpec, HoursSpec, CollabSpec, NotSpec

\* A stored rule is of one making, the engine's copy is current, and the hours decide as they are
\* written (AutoReplyInv).
THEOREM AutoRepliesAreRight == Spec => []AutoReplyInv
<1>1. RulesInv /\ HoursInv => AutoReplyInv
  BY DEF AutoReplyInv
<1> QED BY <1>1, PartsRun, RulesAreCurrent, HoursAreKept, PTL

\* Each part's promises hold of the workbench.
THEOREM WorkbenchIsSound ==
  Spec => [](UpInv /\ SessInv /\ LabelInv /\ ConnInv /\ AutoReplyInv /\ CollabInv /\ NotInv)
  BY PartsRun, FilesAreKept, SessionsFollow, LabelsAreKept, ConnectionsAreTrue,
     AutoRepliesAreRight,
     RoomsAreKnown, NoticesAreKept, PTL

\* No step of the workbench puts a message into a closed session, lapses a fresh sign of presence, or
\* moves the moment a notification was first read at (WorkbenchSteps).
THEOREM WorkbenchStepsHold == Spec => WorkbenchSteps
  BY PartsRun, MessagesGoToActive, FreshSignsStay, ReadingsStand, PTL DEF WorkbenchSteps
==============================================================================
