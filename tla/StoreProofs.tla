------------------------------ MODULE StoreProofs ------------------------------
(***************************************************************************)
(* For any number of versions, objects, requests and workers, and whatever *)
(* the limits: each component of the store keeps an invariant of its own,   *)
(* which the steps of the others leave alone, and the properties of the     *)
(* suite follow from these. The copy comes first, under ItemCopy's own      *)
(* names: its rows move together, so a deletion job only ever exists for a  *)
(* session that came to nothing, and a request that has seen the object     *)
(* still has it whenever it may publish.                                    *)
(***************************************************************************)
EXTENDS Store, FiniteSetTheorems, TLAPS

Phases == {"idle", "resolved", "reserved", "copying", "copied", "stated", "failing"}

DeletionRow == [status : {"none", "queued", "processing", "removed", "succeeded", "failed"},
                attempts : 0..MaxPurges]

CopyTypes ==
    /\ source \in {"ready", "trashed", "purged"}
    /\ session \in {"none", "initiated", "completed", "aborted", "expired"}
    /\ version \in {"none", "pending", "ready", "failed", "deleting", "deleted"}
    /\ overdue \in BOOLEAN /\ object \in BOOLEAN /\ late \in BOOLEAN /\ told \in BOOLEAN
    /\ deletion \in DeletionRow
    /\ deletion.status = "queued" => deletion.attempts < MaxPurges
    /\ request \in [Request -> Phases]

RowsMoveTogether ==
    /\ session = "none" <=> version = "none"
    /\ session = "initiated" <=> version = "pending"
    /\ session = "completed" <=> version = "ready"
    /\ session \in {"none", "initiated", "completed"} => deletion = NoDeletion

SeenIsThere ==
    \A r \in Request : request[r] = "stated" =>
        object \/ session \in {"aborted", "expired"}

CopyInvariant ==
    /\ CopyTypes
    /\ RowsMoveTogether
    /\ SeenIsThere
    /\ PublishedCopyStored
    /\ AnsweredCopyStays

LEMMA CopyTypesSuffice == CopyTypes => TypeOK
  BY DEF CopyTypes, TypeOK, DeletionRow, Phases

LEMMA CopyInit == Init => CopyInvariant
<1> SUFFICES ASSUME Init PROVE CopyInvariant
  OBVIOUS
<1>1. deletion = NoDeletion /\ deletion \in DeletionRow /\ deletion.status # "queued"
  BY PurgesAssumption DEF Init, NoDeletion, DeletionRow
<1>2. request \in [Request -> Phases] /\ \A r \in Request : request[r] = "idle"
  BY DEF Init, Phases
<1>3. CopyTypes
  BY <1>1, <1>2 DEF Init, CopyTypes
<1>4. RowsMoveTogether /\ SeenIsThere /\ PublishedCopyStored /\ AnsweredCopyStays
  BY <1>1, <1>2 DEF Init, RowsMoveTogether, SeenIsThere, PublishedCopyStored, AnsweredCopyStays
<1> QED BY <1>3, <1>4 DEF CopyInvariant

\* How a request moves, and which requests have seen the object afterwards.
LEMMA PhaseStep ==
  ASSUME CopyTypes, NEW r \in Request, NEW phase \in Phases, Becomes(r, phase)
  PROVE  /\ request' \in [Request -> Phases]
         /\ \A q \in Request : request'[q] = "stated" =>
                phase = "stated" \/ request[q] = "stated"
  BY DEF CopyTypes, Becomes

\* A step that leaves the rows alone and removes nothing.
LEMMA QuietStep ==
  ASSUME CopyInvariant, UNCHANGED rows,
         source' \in {"ready", "trashed", "purged"},
         object' \in BOOLEAN, late' \in BOOLEAN, object => object',
         told' = told \/ (told' = TRUE /\ session = "completed"),
         request' \in [Request -> Phases],
         \A q \in Request : request'[q] = "stated" => object' \/ request[q] = "stated"
  PROVE  CopyInvariant'
<1>0. told' \in BOOLEAN
  <2>1. told \in BOOLEAN
    BY DEF CopyInvariant, CopyTypes
  <2>2. CASE told' = told
    BY <2>1, <2>2
  <2>3. CASE told' = TRUE
    BY <2>3
  <2> QED BY <2>2, <2>3
<1>1. CopyTypes'
  BY <1>0 DEF CopyInvariant, CopyTypes, rows
<1>2. RowsMoveTogether'
  BY DEF CopyInvariant, RowsMoveTogether, rows
<1>3. SeenIsThere'
  BY DEF CopyInvariant, SeenIsThere, rows
<1>4. PublishedCopyStored'
  BY DEF CopyInvariant, PublishedCopyStored, rows
<1>5. AnsweredCopyStays'
  <2>1. CASE told' = told
    BY <2>1 DEF CopyInvariant, AnsweredCopyStays, rows
  <2>2. CASE session = "completed"
    BY <2>2 DEF CopyInvariant, AnsweredCopyStays, RowsMoveTogether, rows
  <2> QED BY <2>1, <2>2
<1> QED BY <1>1, <1>2, <1>3, <1>4, <1>5 DEF CopyInvariant

\* Giving a session up that is not completed queues its clean-up.
LEMMA GiveUpStep ==
  ASSUME CopyInvariant, NEW outcome \in {"aborted", "expired"}, GiveUp(outcome),
         session # "completed",
         UNCHANGED <<source, overdue, object, late, told>>,
         request' \in [Request -> Phases],
         \A q \in Request : request'[q] = "stated" => request[q] = "stated"
  PROVE  CopyInvariant'
<1>1. session' = outcome /\ version' = "failed" /\ told = FALSE
  BY DEF GiveUp, CopyInvariant, AnsweredCopyStays, CopyTypes
<1>2. deletion' \in DeletionRow /\ (deletion'.status = "queued" => deletion'.attempts < MaxPurges)
  BY PurgesAssumption DEF GiveUp, Queued, CopyInvariant, CopyTypes, DeletionRow
<1>3. CopyTypes'
  BY <1>1, <1>2 DEF CopyInvariant, CopyTypes
<1>4. RowsMoveTogether' /\ SeenIsThere' /\ PublishedCopyStored' /\ AnsweredCopyStays'
  BY <1>1 DEF RowsMoveTogether, SeenIsThere, PublishedCopyStored, AnsweredCopyStays
<1> QED BY <1>3, <1>4 DEF CopyInvariant

\* The purge only ever works for a session that came to nothing.
LEMMA PurgeStep ==
  ASSUME CopyInvariant, deletion # NoDeletion,
         UNCHANGED <<source, session, overdue, late, request, told>>,
         object' \in BOOLEAN,
         version' = version \/ version' \in {"deleting", "deleted"},
         deletion' \in DeletionRow,
         deletion'.status = "queued" => deletion'.attempts < MaxPurges
  PROVE  CopyInvariant'
<1>1. session \in {"aborted", "expired"}
  BY DEF CopyInvariant, CopyTypes, RowsMoveTogether
<1>2. version \notin {"none", "pending", "ready"} /\ told = FALSE
  BY <1>1 DEF CopyInvariant, CopyTypes, RowsMoveTogether, AnsweredCopyStays
<1>3. CopyTypes'
  BY DEF CopyInvariant, CopyTypes
<1>4. RowsMoveTogether' /\ SeenIsThere' /\ PublishedCopyStored' /\ AnsweredCopyStays'
  BY <1>1, <1>2 DEF RowsMoveTogether, SeenIsThere, PublishedCopyStored, AnsweredCopyStays
<1> QED BY <1>3, <1>4 DEF CopyInvariant

LEMMA ReserveStep ==
  ASSUME CopyInvariant, NEW r \in Request, ReserveUpload(r)
  PROVE  CopyInvariant'
<1>1. PICK phase \in {"reserved", "idle"} : Becomes(r, phase)
  BY DEF ReserveUpload
<1>2. /\ request' \in [Request -> Phases]
      /\ \A q \in Request : request'[q] = "stated" => request[q] = "stated"
  BY <1>1, PhaseStep DEF CopyInvariant, Phases
<1>3. CASE session = "none"
  <2>1. session' = "initiated" /\ version' = "pending" /\ told' = told
    BY <1>3 DEF ReserveUpload
  <2>2. CopyTypes'
    BY <1>2, <2>1 DEF ReserveUpload, CopyInvariant, CopyTypes
  <2>3. ~\E q \in Request : request[q] = "stated" /\ ~object
    BY <1>3 DEF CopyInvariant, SeenIsThere
  <2>4. RowsMoveTogether' /\ PublishedCopyStored' /\ AnsweredCopyStays'
    BY <1>3, <2>1 DEF ReserveUpload, CopyInvariant, RowsMoveTogether, PublishedCopyStored,
       AnsweredCopyStays
  <2>5. SeenIsThere'
    BY <1>2, <2>3 DEF ReserveUpload, SeenIsThere
  <2> QED BY <2>2, <2>4, <2>5 DEF CopyInvariant
<1>4. CASE session # "none"
  <2>1. UNCHANGED rows /\ UNCHANGED <<source, object, late>>
    BY <1>4 DEF ReserveUpload, rows
  <2>2. told' = told \/ (told' = TRUE /\ session = "completed")
    <3>1. CASE session = "completed" /\ told' = TRUE
      BY <3>1
    <3>2. CASE UNCHANGED <<session, version, told>>
      BY <3>2
    <3> QED BY <1>4, <3>1, <3>2, Zenon DEF ReserveUpload
  <2>3. told \in BOOLEAN /\ object \in BOOLEAN /\ late \in BOOLEAN
       /\ source \in {"ready", "trashed", "purged"}
    BY DEF CopyInvariant, CopyTypes
  <2>4. UNCHANGED rows /\ source' \in {"ready", "trashed", "purged"}
    BY <2>1, <2>3
  <2>5. object' \in BOOLEAN /\ late' \in BOOLEAN /\ (object => object')
    BY <2>1, <2>3
  <2> QED BY <1>2, <2>2, <2>4, <2>5, QuietStep
<1> QED BY <1>3, <1>4

LEMMA CompleteStep ==
  ASSUME CopyInvariant, NEW r \in Request, CompleteUpload(r)
  PROVE  CopyInvariant'
<1>1. /\ request' \in [Request -> Phases]
      /\ \A q \in Request : request'[q] = "stated" => request[q] = "stated"
  BY PhaseStep DEF CompleteUpload, CopyInvariant, Phases
<1>2. CASE Completable /\ session' = "completed" /\ version' = "ready" /\ told' = TRUE
  <2>1. object /\ object' = object
    BY <1>2 DEF CompleteUpload, Completable, CopyInvariant, SeenIsThere
  <2>2. CopyTypes'
    BY <1>1, <1>2 DEF CompleteUpload, CopyInvariant, CopyTypes
  <2>3. deletion' = NoDeletion
    BY <1>2 DEF CompleteUpload, Completable, CopyInvariant, RowsMoveTogether
  <2>4. RowsMoveTogether' /\ SeenIsThere' /\ PublishedCopyStored' /\ AnsweredCopyStays'
    BY <1>2, <2>1, <2>3
       DEF RowsMoveTogether, SeenIsThere, PublishedCopyStored, AnsweredCopyStays
  <2> QED BY <2>2, <2>4 DEF CopyInvariant
<1>3. CASE UNCHANGED <<session, version>>
  <2>1. UNCHANGED rows /\ UNCHANGED <<source, object, late>>
    BY <1>3 DEF CompleteUpload, rows
  <2>2. told' = told \/ (told' = TRUE /\ session = "completed")
    <3>1. CASE session' = "completed" /\ told' = TRUE
      BY <1>3, <3>1
    <3>2. CASE session = "completed" /\ told' = TRUE
      BY <3>2
    <3>3. CASE UNCHANGED <<session, version, told>>
      BY <3>3
    <3> QED BY <3>1, <3>2, <3>3, Zenon DEF CompleteUpload
  <2>3. told \in BOOLEAN /\ object \in BOOLEAN /\ late \in BOOLEAN
       /\ source \in {"ready", "trashed", "purged"}
    BY DEF CopyInvariant, CopyTypes
  <2>4. UNCHANGED rows /\ source' \in {"ready", "trashed", "purged"}
    BY <2>1, <2>3
  <2>5. object' \in BOOLEAN /\ late' \in BOOLEAN /\ (object => object')
    BY <2>1, <2>3
  <2> QED BY <1>1, <2>2, <2>4, <2>5, QuietStep
<1> QED BY <1>2, <1>3 DEF CompleteUpload

\* The steps of a request that write no row.
LEMMA TransferStep ==
  ASSUME CopyInvariant, NEW r \in Request,
         \/ ResolveAccessibleFile(r) \/ CheckObjects(r) \/ CopyObject(r)
         \/ StatLegacyObject(r) \/ RequestDies(r)
  PROVE  CopyInvariant'
<1>1. PICK phase \in Phases :
        Becomes(r, phase) /\ (phase = "stated" => object /\ object' = object)
  BY DEF ResolveAccessibleFile, CheckObjects, CopyObject, StatLegacyObject, RequestDies, Phases
<1>2. /\ request' \in [Request -> Phases]
      /\ \A q \in Request : request'[q] = "stated" => object' \/ request[q] = "stated"
  BY <1>1, PhaseStep DEF CopyInvariant
<1>3. UNCHANGED rows /\ source' = source /\ told' = told
  BY DEF ResolveAccessibleFile, CheckObjects, CopyObject, StatLegacyObject, RequestDies
<1>4. object' \in BOOLEAN /\ late' \in BOOLEAN /\ (object => object')
  BY DEF CopyInvariant, CopyTypes, ResolveAccessibleFile, CheckObjects, CopyObject,
     StatLegacyObject, RequestDies
<1>5. told \in BOOLEAN /\ source \in {"ready", "trashed", "purged"}
  BY DEF CopyInvariant, CopyTypes
<1> QED BY <1>2, <1>3, <1>4, <1>5, QuietStep

LEMMA AbortStep ==
  ASSUME CopyInvariant, NEW r \in Request, AbortUpload(r)
  PROVE  CopyInvariant'
<1>1. /\ request' \in [Request -> Phases]
      /\ \A q \in Request : request'[q] = "stated" => request[q] = "stated"
  BY PhaseStep DEF AbortUpload, CopyInvariant, Phases
<1>2. CASE Abortable /\ GiveUp("aborted")
  BY <1>1, <1>2, GiveUpStep DEF AbortUpload, Abortable
<1>3. CASE UNCHANGED <<session, version, deletion>>
  <2>1. UNCHANGED rows /\ UNCHANGED <<source, object, late, told>>
    BY <1>3 DEF AbortUpload, rows
  <2>2. CopyTypes
    BY DEF CopyInvariant
  <2> QED BY <1>1, <2>1, <2>2, QuietStep DEF CopyTypes
<1> QED BY <1>2, <1>3 DEF AbortUpload

\* The purge's own steps keep its counter within its limit.
LEMMA PurgeActions ==
  ASSUME CopyInvariant,
         ClaimBlobDeletionJob \/ DeleteObject \/ CompleteBlobDeletionJob \/ PurgeFails
  PROVE  CopyInvariant'
<1>1. deletion \in DeletionRow /\ object \in BOOLEAN
      /\ (deletion.status = "queued" => deletion.attempts < MaxPurges)
  BY DEF CopyInvariant, CopyTypes
<1>2. deletion # NoDeletion
  BY DEF ClaimBlobDeletionJob, DeleteObject, CompleteBlobDeletionJob, PurgeFails, NoDeletion
<1>3. CASE ClaimBlobDeletionJob
  <2>1. deletion' \in DeletionRow /\ deletion'.status = "processing"
    BY <1>1, <1>3, PurgesAssumption DEF ClaimBlobDeletionJob, DeletionRow
  <2> QED BY <1>1, <1>2, <1>3, <2>1, PurgeStep DEF ClaimBlobDeletionJob
<1>4. CASE DeleteObject
  <2>1. deletion' \in DeletionRow /\ deletion'.status = "removed"
    BY <1>1, <1>4 DEF DeleteObject, DeletionRow
  <2> QED BY <1>1, <1>2, <1>4, <2>1, PurgeStep DEF DeleteObject
<1>5. CASE CompleteBlobDeletionJob
  <2>1. deletion' \in DeletionRow /\ deletion'.status = "succeeded"
    BY <1>1, <1>5 DEF CompleteBlobDeletionJob, DeletionRow
  <2> QED BY <1>1, <1>2, <1>5, <2>1, PurgeStep DEF CompleteBlobDeletionJob
<1>6. CASE PurgeFails
  <2>1. deletion' \in DeletionRow
        /\ (deletion'.status = "queued" => deletion'.attempts < MaxPurges)
    BY <1>1, <1>6, PurgesAssumption DEF PurgeFails, Spent, DeletionRow
  <2> QED BY <1>1, <1>2, <1>6, <2>1, PurgeStep DEF PurgeFails
<1> QED BY <1>3, <1>4, <1>5, <1>6

LEMMA NextPreserves == CopyInvariant /\ [Next]_vars => CopyInvariant'
<1> SUFFICES ASSUME CopyInvariant, [Next]_vars PROVE CopyInvariant'
  OBVIOUS
<1>0. CopyTypes
  BY DEF CopyInvariant
<1>1. ASSUME NEW r \in Request,
             \/ ResolveAccessibleFile(r) \/ ReserveUpload(r) \/ CheckObjects(r)
             \/ CopyObject(r) \/ StatLegacyObject(r) \/ CompleteUpload(r)
             \/ AbortUpload(r) \/ RequestDies(r)
      PROVE  CopyInvariant'
  BY <1>1, ReserveStep, CompleteStep, TransferStep, AbortStep
<1>2. CASE SourceLeaves
  BY <1>0, <1>2, QuietStep DEF SourceLeaves, CopyTypes
<1>3. CASE LateCopyLands
  <2>1. object' = object \/ object' = TRUE
    BY <1>3, Zenon DEF LateCopyLands
  <2>2. UNCHANGED <<source, rows, request, told>> /\ late' = FALSE
    BY <1>3 DEF LateCopyLands
  <2> QED BY <1>0, <2>1, <2>2, QuietStep DEF CopyTypes
<1>4. CASE DeadlinePasses
  BY <1>4 DEF DeadlinePasses, CopyInvariant, CopyTypes, RowsMoveTogether, SeenIsThere,
     PublishedCopyStored, AnsweredCopyStays
<1>5. CASE MarkUploadExpired
  BY <1>0, <1>5, GiveUpStep DEF MarkUploadExpired, CopyTypes
<1>6. CASE ClaimBlobDeletionJob \/ DeleteObject \/ CompleteBlobDeletionJob \/ PurgeFails
  BY <1>6, PurgeActions
<1>7. CASE UNCHANGED vars
  BY <1>0, <1>7, QuietStep DEF vars, rows, CopyTypes
<1> QED BY <1>1, <1>2, <1>3, <1>4, <1>5, <1>6, <1>7 DEF Next

\* The invariant holds of every reachable state, of any instance.
THEOREM CopyInvariance == Spec => []CopyInvariant
<1> QED BY CopyInit, NextPreserves, PTL DEF Spec

\* The rows, the requests and the deletion's counter stay within their types
\* (upload_session, file_version and blob_deletion_job).
THEOREM CopyTypeCorrect == Spec => []TypeOK
<1>1. CopyInvariant => TypeOK
  BY CopyTypesSuffice DEF CopyInvariant
<1> QED BY <1>1, CopyInvariance, PTL

\* A published copy keeps its bytes, however many requests give the session up,
\* are answered late or are purged after (CopyItem, AbortUpload, the purge worker).
THEOREM CopyStored == Spec => []PublishedCopyStored
<1>1. CopyInvariant => PublishedCopyStored
  BY DEF CopyInvariant
<1> QED BY <1>1, CopyInvariance, PTL

\* What one request answered, no other request with its key takes back
\* (ReserveUpload's replay, CompleteUpload, AbortUpload).
THEOREM CopyAnswered == Spec => []AnsweredCopyStays
<1>1. CopyInvariant => AnsweredCopyStays
  BY DEF CopyInvariant
<1> QED BY <1>1, CopyInvariance, PTL

-----------------------------------------------------------------------------
(* Scans and publication. *)

ScannerRow == [version : 0..Scanning.versions, attempt : Nat,
               phase : {"idle", "scanning", "scanned", "failing"}, clean : BOOLEAN]

\* The columns of every row, and what a scanner knows.
ScanTypes ==
    /\ state \in [Scan!Version -> {"pending", "quarantined", "ready", "deleting", "deleted"}]
    /\ current \in Scan!Version \cup {0}
    /\ scan \in [Scan!Version -> Scan!Rows!JobRow({"clean", "infected"})]
    /\ condemned \in [Scan!Version -> {"none", "queued", "processing", "succeeded"}]
    /\ stored \in [Scan!Version -> BOOLEAN] /\ pinned \in BOOLEAN
    /\ scanner \in [Scanning.scanner -> ScannerRow]

\* What a version's state says of its scan, its deletion and its object.
ScanVersion(v) ==
    /\ state[v] = "pending" => scan[v].status = "none" /\ condemned[v] = "none"
    /\ state[v] = "quarantined" =>
         /\ stored[v] /\ scan[v].status \in {"queued", "processing", "infected", "failed"}
         /\ \/ condemned[v] = "none"
            \/ condemned[v] = "queued" /\ scan[v].status \in {"infected", "failed"}
    /\ state[v] = "ready" =>
         stored[v] /\ scan[v].status = "clean" /\ condemned[v] = "none" /\ v \notin Scanning.infected
    /\ state[v] \in {"deleting", "deleted"} => scan[v].status \in {"infected", "failed"}

\* A scanner has a version in hand, and calls only clean bytes clean.
ScanWorker(w) ==
    /\ scanner[w].phase # "idle" => scanner[w].version \in Scan!Version
    /\ scanner[w].clean => scanner[w].version \notin Scanning.infected

ScanInv ==
    /\ ScanTypes /\ Scan!NewestCleanShown
    /\ \A v \in Scan!Version : ScanVersion(v)
    /\ \A w \in Scanning.scanner : ScanWorker(w)

\* What scans assume of their constants.
LEMMA ScanConstants ==
    /\ Scanning.versions \in Nat /\ Scanning.attempts \in Nat /\ Scanning.attempts # 0
    /\ Scanning.infected \subseteq Scan!Version
BY StoreAssumption DEF Scan!VersionsAssumption, Scan!AttemptsAssumption

\* A queued, retried, ended or lapsed job is a job.
LEMMA ScanRows ==
  ASSUME NEW j \in Scan!Rows!JobRow({"clean", "infected"})
  PROVE  /\ Scan!Rows!NoJob \in Scan!Rows!JobRow({"clean", "infected"})
         /\ Scan!Rows!QueuedJob \in Scan!Rows!JobRow({"clean", "infected"})
         /\ Scan!Rows!GivenBack(j) \in Scan!Rows!JobRow({"clean", "infected"})
         /\ Scan!Rows!Recovered(j) \in Scan!Rows!JobRow({"clean", "infected"})
         /\ Scan!Rows!Claimable(j) => Scan!Rows!Claimed(j) \in Scan!Rows!JobRow({"clean", "infected"})
         /\ \A r \in {"clean", "infected"} : Scan!Rows!Ended(j, r) \in Scan!Rows!JobRow({"clean", "infected"})
         /\ Scan!Rows!LeaseLost(j) \in Scan!Rows!JobRow({"clean", "infected"})
BY ScanConstants DEF Scan!Rows!JobRow, Scan!Rows!NoJob, Scan!Rows!QueuedJob, Scan!Rows!GivenBack,
   Scan!Rows!Recovered, Scan!Rows!Claimable, Scan!Rows!Claimed, Scan!Rows!Ended, Scan!Rows!LeaseLost

\* Before the first upload is complete the invariant holds.
LEMMA ScanInit == Scan!Init => ScanInv
<1> SUFFICES ASSUME Scan!Init PROVE ScanInv
  OBVIOUS
<1> USE ScanConstants DEF Scan!Init
<1>1. ScanTypes
  <2>1. Scan!Rows!NoJob \in Scan!Rows!JobRow({"clean", "infected"})
    BY DEF Scan!Rows!JobRow, Scan!Rows!NoJob
  <2>2. Scan!Off \in ScannerRow
    BY DEF ScannerRow, Scan!Off
  <2> QED
    BY <2>1, <2>2 DEF ScanTypes
<1>2. Scan!NewestCleanShown
  BY DEF Scan!NewestCleanShown
<1>3. \A v \in Scan!Version : ScanVersion(v)
  BY DEF ScanVersion, Scan!Rows!NoJob
<1>4. \A w \in Scanning.scanner : ScanWorker(w)
  BY DEF ScanWorker, Scan!Off
<1> QED
  BY <1>1, <1>2, <1>3, <1>4 DEF ScanInv

\* A step of a scanner that moves no row of a version.
LEMMA ScanMoves ==
  ASSUME ScanInv, NEW w \in Scanning.scanner, NEW r \in ScannerRow,
         scanner' = [scanner EXCEPT ![w] = r],
         UNCHANGED <<state, current, scan, condemned, stored, pinned>>,
         r.phase # "idle" => r.version \in Scan!Version,
         r.clean => r.version \notin Scanning.infected
  PROVE  ScanInv'
<1>1. ScanTypes'
  BY DEF ScanInv, ScanTypes
<1>2. Scan!NewestCleanShown'
  BY DEF ScanInv, Scan!NewestCleanShown
<1>3. \A v \in Scan!Version : ScanVersion(v)'
  BY DEF ScanInv, ScanVersion
<1>4. \A u \in Scanning.scanner : ScanWorker(u)'
  BY DEF ScanInv, ScanTypes, ScanWorker
<1> QED
  BY <1>1, <1>2, <1>3, <1>4 DEF ScanInv

\* Reading, failing and dying only move the scanner.
LEMMA ScanReads ==
  ASSUME ScanInv, NEW w \in Scanning.scanner,
         Scan!Scan(w) \/ Scan!ScanFails(w) \/ Scan!ScannerDies(w)
  PROVE  ScanInv'
<1> USE DEF ScanInv, ScanTypes, ScanWorker, Scan!Goes
<1>1. scanner[w] \in ScannerRow
  OBVIOUS
<1>2. CASE Scan!Scan(w)
  <2> DEFINE r == [version |-> scanner[w].version,
                   phase |-> IF stored[scanner[w].version] THEN "scanned" ELSE "failing",
                   attempt |-> scanner[w].attempt, clean |-> scanner[w].version \notin Scanning.infected]
  <2>1. r \in ScannerRow /\ (r.phase # "idle" => r.version \in Scan!Version)
        /\ (r.clean => r.version \notin Scanning.infected)
    BY <1>1, <1>2 DEF Scan!Scan, ScannerRow
  <2>2. scanner' = [scanner EXCEPT ![w] = r] /\ UNCHANGED <<state, current, scan, condemned, stored, pinned>>
    BY <1>2 DEF Scan!Scan
  <2> HIDE DEF r
  <2> QED
    BY <2>1, <2>2, ScanMoves
<1>3. CASE Scan!ScanFails(w)
  <2> DEFINE r == [version |-> scanner[w].version, phase |-> "failing",
                   attempt |-> scanner[w].attempt, clean |-> scanner[w].clean]
  <2>1. r \in ScannerRow /\ (r.phase # "idle" => r.version \in Scan!Version)
        /\ (r.clean => r.version \notin Scanning.infected)
    BY <1>1, <1>3 DEF Scan!ScanFails, ScannerRow
  <2>2. scanner' = [scanner EXCEPT ![w] = r] /\ UNCHANGED <<state, current, scan, condemned, stored, pinned>>
    BY <1>3 DEF Scan!ScanFails
  <2> HIDE DEF r
  <2> QED
    BY <2>1, <2>2, ScanMoves
<1>4. CASE Scan!ScannerDies(w)
  <2>1. Scan!Off \in ScannerRow /\ Scan!Off.phase = "idle" /\ Scan!Off.clean = FALSE
    BY ScanConstants DEF Scan!Off, ScannerRow
  <2> QED
    BY <1>4, <2>1, ScanMoves DEF Scan!ScannerDies
<1> QED
  BY <1>2, <1>3, <1>4

\* A step that changes the rows of one version, which stays unpublished.
LEMMA ScanChanges ==
  ASSUME ScanInv, NEW v \in Scan!Version, ScanTypes',
         UNCHANGED <<current, scanner, pinned>>, state[v] # "ready", state'[v] # "ready",
         \A u \in Scan!Version \ {v} : /\ state'[u] = state[u] /\ scan'[u] = scan[u]
                                       /\ condemned'[u] = condemned[u] /\ stored'[u] = stored[u],
         ScanVersion(v)'
  PROVE  ScanInv'
<1>1. {u \in Scan!Version : state'[u] = "ready"} = {u \in Scan!Version : state[u] = "ready"}
  OBVIOUS
<1>2. Scan!NewestCleanShown'
  BY <1>1 DEF ScanInv, Scan!NewestCleanShown
<1>3. \A u \in Scan!Version : ScanVersion(u)'
  BY DEF ScanInv, ScanVersion
<1>4. \A w \in Scanning.scanner : ScanWorker(w)'
  BY DEF ScanInv, ScanWorker
<1> QED
  BY <1>2, <1>3, <1>4 DEF ScanInv

\* An upload that completes waits for its scan.
LEMMA ScanUploads ==
  ASSUME ScanInv, NEW v \in Scan!Version, Scan!CompleteUpload(v) PROVE ScanInv'
<1> USE DEF ScanInv, Scan!CompleteUpload
<1>1. Scan!Rows!QueuedJob \in Scan!Rows!JobRow({"clean", "infected"}) /\ Scan!Rows!QueuedJob.status = "queued"
  BY ScanConstants DEF Scan!Rows!JobRow, Scan!Rows!QueuedJob
<1>2. ScanTypes'
  BY <1>1 DEF ScanTypes
<1>3. ScanVersion(v)
  OBVIOUS
<1>4. condemned[v] = "none"
  BY <1>3 DEF ScanVersion
<1>5. state'[v] = "quarantined" /\ stored'[v] = TRUE /\ scan'[v].status = "queued"
      /\ condemned'[v] = "none"
  BY <1>1, <1>4 DEF ScanTypes
<1>6. ScanVersion(v)'
  BY <1>5 DEF ScanVersion
<1> QED
  BY <1>2, <1>3, <1>6, ScanChanges DEF ScanTypes

\* A user chooses among what was found clean.
LEMMA ScanRestores ==
  ASSUME ScanInv, NEW v \in Scan!Version, Scan!RestoreFileVersion(v) PROVE ScanInv'
<1> USE DEF ScanInv, Scan!RestoreFileVersion
<1>1. ScanTypes'
  BY DEF ScanTypes
<1>2. Scan!NewestCleanShown'
  BY DEF Scan!NewestCleanShown
<1>3. \A u \in Scan!Version : ScanVersion(u)'
  BY DEF ScanVersion
<1>4. \A w \in Scanning.scanner : ScanWorker(w)'
  BY DEF ScanWorker
<1> QED
  BY <1>1, <1>2, <1>3, <1>4

\* A lease that runs out leaves its job to be recovered.
LEMMA ScanLapses ==
  ASSUME ScanInv, NEW v \in Scan!Version, Scan!LeaseLapses(v) PROVE ScanInv'
<1> USE DEF ScanInv, ScanTypes, Scan!LeaseLapses
<1>1. Scan!Rows!LeaseLost(scan[v]) \in Scan!Rows!JobRow({"clean", "infected"})
      /\ Scan!Rows!LeaseLost(scan[v]).status = scan[v].status
  BY ScanRows DEF Scan!Rows!LeaseLost
<1>2. ScanTypes'
  BY <1>1
<1>3. state[v] = "quarantined"
  BY DEF ScanVersion
<1>4. ScanVersion(v)'
  BY <1>1 DEF ScanVersion
<1> QED
  BY <1>2, <1>3, <1>4, ScanChanges

\* The purge worker only takes what was condemned, and then its object.
LEMMA ScanPurges ==
  ASSUME ScanInv, NEW v \in Scan!Version, Scan!ClaimBlobDeletionJob(v) \/ Scan!PurgeBlob(v)
  PROVE  ScanInv'
<1> USE DEF ScanInv, ScanTypes, ScanVersion
<1>1. CASE Scan!ClaimBlobDeletionJob(v)
  <2>1. ScanTypes' /\ state[v] # "ready" /\ state'[v] # "ready"
    BY <1>1 DEF Scan!ClaimBlobDeletionJob
  <2>2. ScanVersion(v)'
    BY <1>1 DEF Scan!ClaimBlobDeletionJob, Scan!Condemned
  <2> QED
    BY <1>1, <2>1, <2>2, ScanChanges DEF Scan!ClaimBlobDeletionJob
<1>2. CASE Scan!PurgeBlob(v)
  <2>1. ScanTypes' /\ state[v] # "ready" /\ state'[v] # "ready"
    BY <1>2 DEF Scan!PurgeBlob
  <2>2. ScanVersion(v)'
    BY <1>2 DEF Scan!PurgeBlob
  <2> QED
    BY <1>2, <2>1, <2>2, ScanChanges DEF Scan!PurgeBlob
<1> QED
  BY <1>1, <1>2

\* Recovery gives lapsed jobs back, and condemns the versions whose attempts
\* are used up.
LEMMA ScanRecovers ==
  ASSUME ScanInv, NEW R, R = [v \in Scan!Version |-> Scan!Rows!Recovered(scan[v])],
         Scan!CondemnLapsed(R)
  PROVE  /\ R \in [Scan!Version -> Scan!Rows!JobRow({"clean", "infected"})]
         /\ condemned' \in [Scan!Version -> {"none", "queued", "processing", "succeeded"}]
         /\ \A v \in Scan!Version :
              /\ R[v].status # scan[v].status =>
                scan[v].status = "processing" /\ state[v] = "quarantined" /\ R[v].status \in {"queued", "failed"}
              /\ condemned'[v] # condemned[v] =>
                   /\ state[v] = "quarantined" /\ condemned[v] = "none"
                   /\ condemned'[v] = "queued" /\ R[v].status = "failed"
              /\ R[v].status = "queued" => condemned'[v] = condemned[v]
<1> USE DEF ScanInv, ScanTypes
<1>1. \A v \in Scan!Version : R[v] = Scan!Rows!Recovered(scan[v])
  OBVIOUS
<1>2. R \in [Scan!Version -> Scan!Rows!JobRow({"clean", "infected"})]
  BY ScanRows
<1>3. \A v \in Scan!Version :
        R[v] # scan[v] => scan[v].status = "processing" /\ R[v].status \in {"queued", "failed"}
  BY <1>1 DEF Scan!Rows!Recovered, Scan!Rows!Lapsed, Scan!Rows!GivenBack
<1>4. \A v \in Scan!Version : R[v] # scan[v] => state[v] = "quarantined"
  BY <1>3 DEF ScanVersion
<1>5. \A v \in Scan!Version : condemned'[v] =
         IF scan[v] # R[v] /\ R[v].status = "failed" /\ condemned[v] = "none" THEN "queued" ELSE condemned[v]
  BY DEF Scan!CondemnLapsed, Scan!QueueDeletions
<1>6. condemned' \in [Scan!Version -> {"none", "queued", "processing", "succeeded"}]
  BY DEF Scan!CondemnLapsed, Scan!QueueDeletions
<1> QED
  BY <1>2, <1>3, <1>4, <1>5, <1>6

\* Claiming a job, after recovery.
LEMMA ScanClaims ==
  ASSUME ScanInv, NEW w \in Scanning.scanner, Scan!ClaimMalwareScanJob(w) PROVE ScanInv'
<1> PICK R : R = [v \in Scan!Version |-> Scan!Rows!Recovered(scan[v])]
  OBVIOUS
<1> DEFINE C == {v \in Scan!Version : Scan!Rows!Claimable(R[v]) /\ state[v] = "quarantined"}
<1>1. /\ Scan!CondemnLapsed(R) /\ UNCHANGED <<state, current, stored, pinned>>
      /\ \/ scan' = R /\ UNCHANGED scanner
         \/ \E v \in C :
              /\ scan' = [R EXCEPT ![v] = Scan!Rows!Claimed(R[v])]
              /\ scanner' = [scanner EXCEPT ![w] = [version |-> v, attempt |-> R[v].attempts + 1,
                                                    phase |-> "scanning", clean |-> FALSE]]
  BY DEF Scan!ClaimMalwareScanJob
<1>2. /\ R \in [Scan!Version -> Scan!Rows!JobRow({"clean", "infected"})]
      /\ condemned' \in [Scan!Version -> {"none", "queued", "processing", "succeeded"}]
      /\ \A v \in Scan!Version :
           /\ R[v].status # scan[v].status =>
                scan[v].status = "processing" /\ state[v] = "quarantined" /\ R[v].status \in {"queued", "failed"}
           /\ condemned'[v] # condemned[v] =>
                /\ state[v] = "quarantined" /\ condemned[v] = "none"
                /\ condemned'[v] = "queued" /\ R[v].status = "failed"
           /\ R[v].status = "queued" => condemned'[v] = condemned[v]
  BY <1>1, ScanRecovers
<1>3. ScanTypes' /\ \A u \in Scanning.scanner : ScanWorker(u)'
  <2>1. CASE scan' = R /\ UNCHANGED scanner
    BY <1>1, <1>2, <2>1 DEF ScanInv, ScanTypes, ScanWorker
  <2>2. ASSUME NEW v \in C, scan' = [R EXCEPT ![v] = Scan!Rows!Claimed(R[v])],
               scanner' = [scanner EXCEPT ![w] = [version |-> v, attempt |-> R[v].attempts + 1,
                                                  phase |-> "scanning", clean |-> FALSE]]
        PROVE  ScanTypes' /\ \A u \in Scanning.scanner : ScanWorker(u)'
    <3>1. v \in Scan!Version /\ Scan!Rows!Claimable(R[v])
          /\ R[v] \in Scan!Rows!JobRow({"clean", "infected"})
      BY <1>2
    <3>2. Scan!Rows!Claimed(R[v]) \in Scan!Rows!JobRow({"clean", "infected"})
      BY <3>1, ScanRows
    <3>3. R[v].attempts \in Nat
      BY <3>1, ScanConstants DEF Scan!Rows!JobRow
    <3>4. [version |-> v, attempt |-> R[v].attempts + 1, phase |-> "scanning", clean |-> FALSE] \in ScannerRow
      BY <3>1, <3>3, ScanConstants DEF ScannerRow, Scan!Version
    <3> HIDE DEF C
    <3>5. ScanTypes'
      BY <1>1, <1>2, <2>2, <3>1, <3>2, <3>4 DEF ScanInv, ScanTypes
    <3>6. \A u \in Scanning.scanner : ScanWorker(u)'
      BY <2>2, <3>1, <3>4 DEF ScanInv, ScanTypes, ScanWorker
    <3> QED
      BY <3>5, <3>6
  <2> HIDE DEF C
  <2> QED
    BY <1>1, <2>1, <2>2
<1>4. \A v \in Scan!Version : ScanVersion(v)'
  <2> SUFFICES ASSUME NEW v \in Scan!Version PROVE ScanVersion(v)'
    OBVIOUS
  <2>0. ScanVersion(v) /\ UNCHANGED <<state, stored>>
    BY <1>1 DEF ScanInv
  <2>1. CASE scan'[v] = R[v]
    BY <1>2, <2>0, <2>1 DEF ScanVersion
  <2>2. ASSUME NEW u \in C, scan' = [R EXCEPT ![u] = Scan!Rows!Claimed(R[u])]
        PROVE  ScanVersion(v)'
    <3>1. u \in Scan!Version /\ R[u].status = "queued" /\ state[u] = "quarantined"
      BY DEF Scan!Rows!Claimable
    <3>2. scan'[u].status = "processing"
      BY <1>2, <2>2, <3>1 DEF Scan!Rows!Claimed
    <3> HIDE DEF C
    <3>3. CASE v = u
      <4>1. condemned'[v] = condemned[v] /\ scan[v].status \notin {"infected", "failed"}
        BY <1>2, <2>0, <3>1, <3>3 DEF ScanVersion
      <4> QED
        BY <2>0, <3>1, <3>2, <3>3, <4>1 DEF ScanVersion
    <3>4. CASE v # u
      <4>1. scan'[v] = R[v]
        BY <1>2, <2>2, <3>1, <3>4
      <4> QED
        BY <2>1, <4>1
    <3> QED
      BY <3>3, <3>4
  <2> HIDE DEF C
  <2> QED
    BY <1>1, <2>1, <2>2
<1>5. Scan!NewestCleanShown'
  BY <1>1 DEF ScanInv, Scan!NewestCleanShown
<1> QED
  BY <1>3, <1>4, <1>5 DEF ScanInv

\* A scanner gives its job back, or the job is given up and the version
\* condemned.
LEMMA ScanGivesUp ==
  ASSUME ScanInv, NEW w \in Scanning.scanner, Scan!FailMalwareScanJob(w) PROVE ScanInv'
<1> DEFINE v == scanner[w].version
           failed == Scan!Rows!GivenBack(scan[v])
<1> USE DEF ScanInv, ScanTypes
<1>1. v \in Scan!Version
  BY DEF Scan!FailMalwareScanJob, ScanWorker
<1>2. Scan!Off \in ScannerRow /\ Scan!Off.phase = "idle" /\ Scan!Off.clean = FALSE
  BY ScanConstants DEF Scan!Off, ScannerRow
<1>3. scanner' = [scanner EXCEPT ![w] = Scan!Off] /\ UNCHANGED <<state, current, stored, pinned>>
  BY DEF Scan!FailMalwareScanJob
<1>4. \A u \in Scanning.scanner : ScanWorker(u)'
  BY <1>2, <1>3 DEF ScanWorker
<1>5. Scan!NewestCleanShown'
  BY <1>3 DEF Scan!NewestCleanShown
<1>6. CASE Scan!Rows!Holds(scan[v], scanner[w].attempt)
  <2>1. scan' = [scan EXCEPT ![v] = failed]
        /\ Scan!QueueDeletions(IF failed.status = "failed" THEN {v} ELSE {})
    BY <1>6 DEF Scan!FailMalwareScanJob
  <2>2. scan[v].status = "processing" /\ state[v] = "quarantined"
    BY <1>1, <1>6 DEF Scan!Rows!Holds, ScanVersion
  <2>3. failed \in Scan!Rows!JobRow({"clean", "infected"}) /\ failed.status \in {"failed", "queued"}
    BY <1>1, ScanRows DEF Scan!Rows!GivenBack
  <2> HIDE DEF failed, v
  <2>4. condemned' = [u \in Scan!Version |-> IF u = v /\ failed.status = "failed" /\ condemned[u] = "none"
                                             THEN "queued" ELSE condemned[u]]
    BY <2>1 DEF Scan!QueueDeletions
  <2>5. ScanTypes'
    BY <1>1, <1>2, <1>3, <2>1, <2>3, <2>4
  <2>6. \A u \in Scan!Version : ScanVersion(u)'
    BY <1>1, <1>3, <2>1, <2>2, <2>3, <2>4 DEF ScanVersion
  <2> QED
    BY <1>4, <1>5, <2>5, <2>6
<1>7. CASE ~Scan!Rows!Holds(scan[v], scanner[w].attempt)
  <2>1. UNCHANGED <<scan, condemned>>
    BY <1>7 DEF Scan!FailMalwareScanJob
  <2>2. ScanTypes' /\ \A u \in Scan!Version : ScanVersion(u)'
    BY <1>2, <1>3, <2>1 DEF ScanVersion
  <2> QED
    BY <1>4, <1>5, <2>2
<1> QED
  BY <1>6, <1>7

\* A verdict is published, or condemns its version; one that comes too late
\* does neither.
LEMMA ScanCompletes ==
  ASSUME ScanInv, NEW w \in Scanning.scanner, Scan!CompleteMalwareScanJob(w) PROVE ScanInv'
<1> DEFINE v == scanner[w].version
           held == Scan!Rows!Holds(scan[v], scanner[w].attempt) /\ state[v] = "quarantined"
<1>1. ScanTypes /\ v \in Scan!Version /\ scanner[w] \in ScannerRow /\ ScanVersion(v) /\ ScanWorker(w)
  BY DEF ScanInv, ScanTypes, ScanWorker, Scan!CompleteMalwareScanJob
<1>2. PICK r \in ScannerRow : /\ scanner' = [scanner EXCEPT ![w] = r]
                              /\ r.phase # "idle" => r.version \in Scan!Version
                              /\ r.clean => r.version \notin Scanning.infected
  <2> DEFINE f == [version |-> v, phase |-> "failing", attempt |-> scanner[w].attempt,
                   clean |-> scanner[w].clean]
  <2>1. scanner' = [scanner EXCEPT ![w] = Scan!Off] \/ scanner' = [scanner EXCEPT ![w] = f]
    BY DEF Scan!CompleteMalwareScanJob, Scan!Goes
  <2>2. f \in ScannerRow /\ f.version \in Scan!Version /\ (f.clean => f.version \notin Scanning.infected)
    BY <1>1 DEF ScanWorker, ScannerRow
  <2>3. Scan!Off \in ScannerRow /\ Scan!Off.phase = "idle" /\ Scan!Off.clean = FALSE
    BY ScanConstants DEF Scan!Off, ScannerRow
  <2> HIDE DEF f
  <2> QED
    BY <2>1, <2>2, <2>3
<1>3. UNCHANGED <<stored, pinned>>
  BY DEF Scan!CompleteMalwareScanJob
<1>4. scanner' \in [Scanning.scanner -> ScannerRow] /\ \A u \in Scanning.scanner : ScanWorker(u)'
  BY <1>2 DEF ScanInv, ScanTypes, ScanWorker
<1>5. CASE held /\ scanner[w].clean
  <2>1. /\ state' = [state EXCEPT ![v] = "ready"]
        /\ current' = IF Scan!MakesCurrent(v) THEN v ELSE current
        /\ scan' = [scan EXCEPT ![v] = Scan!Rows!Ended(scan[v], "clean")] /\ UNCHANGED condemned
    BY <1>5 DEF Scan!CompleteMalwareScanJob
  <2>2. Scan!Rows!Ended(scan[v], "clean") \in Scan!Rows!JobRow({"clean", "infected"})
        /\ Scan!Rows!Ended(scan[v], "clean").status = "clean"
    BY <1>1, ScanRows DEF ScanTypes, Scan!Rows!Ended
  <2>3. condemned[v] = "none" /\ stored[v] /\ v \notin Scanning.infected /\ state[v] = "quarantined"
    BY <1>1, <1>5 DEF ScanVersion, ScanWorker, Scan!Rows!Holds
  <2> HIDE DEF v, held
  <2>4. ScanTypes'
    BY <1>1, <1>3, <1>4, <2>1, <2>2 DEF ScanTypes
  <2>5. \A u \in Scan!Version : ScanVersion(u)'
    BY <1>1, <1>3, <2>1, <2>2, <2>3 DEF ScanInv, ScanTypes, ScanVersion
  <2>6. Scan!NewestCleanShown'
    <3>1. SUFFICES ASSUME ~pinned PROVE /\ current' \in Scan!Version /\ state'[current'] = "ready"
                                        /\ \A u \in Scan!Version : state'[u] = "ready" => u <= current'
      BY <1>1, <1>3, <2>1 DEF Scan!NewestCleanShown, ScanTypes
    <3>2. \A u \in Scan!Version : state'[u] = "ready" <=> state[u] = "ready" \/ u = v
      BY <1>1, <2>1 DEF ScanTypes
    <3>3. v \in Int /\ \A u \in Scan!Version : u \in Int
      BY <1>1, ScanConstants DEF Scan!Version
    <3>4. CASE Scan!MakesCurrent(v)
      <4>1. current' = v /\ \A u \in Scan!Version : state[u] = "ready" => ~(u > v)
        BY <2>1, <3>4 DEF Scan!MakesCurrent
      <4> QED
        BY <1>1, <3>2, <3>3, <4>1
    <3>5. CASE ~Scan!MakesCurrent(v)
      <4>1. PICK u \in Scan!Version : u > v /\ state[u] = "ready"
        BY <3>5 DEF Scan!MakesCurrent
      <4>2. /\ current \in Scan!Version /\ state[current] = "ready"
            /\ \A x \in Scan!Version : state[x] = "ready" => x <= current
        BY <3>1, <4>1 DEF ScanInv, Scan!NewestCleanShown
      <4>3. current' = current /\ current >= u /\ v <= current
        BY <2>1, <3>3, <3>5, <4>1, <4>2
      <4> QED
        BY <3>2, <4>2, <4>3
    <3> QED
      BY <3>4, <3>5
  <2> QED
    BY <1>4, <2>4, <2>5, <2>6 DEF ScanInv
<1>6. CASE held /\ ~scanner[w].clean
  <2>1. /\ scan' = [scan EXCEPT ![v] = Scan!Rows!Ended(scan[v], "infected")]
        /\ Scan!QueueDeletions({v}) /\ UNCHANGED <<state, current>>
    BY <1>6 DEF Scan!CompleteMalwareScanJob
  <2>2. Scan!Rows!Ended(scan[v], "infected") \in Scan!Rows!JobRow({"clean", "infected"})
        /\ Scan!Rows!Ended(scan[v], "infected").status = "infected"
    BY <1>1, ScanRows DEF ScanTypes, Scan!Rows!Ended
  <2>3. state[v] = "quarantined"
    BY <1>6
  <2> HIDE DEF v, held
  <2>4. condemned' = [u \in Scan!Version |-> IF u = v /\ condemned[u] = "none" THEN "queued" ELSE condemned[u]]
    BY <2>1 DEF Scan!QueueDeletions
  <2>5. ScanTypes'
    BY <1>1, <1>3, <1>4, <2>1, <2>2, <2>4 DEF ScanTypes
  <2>6. \A u \in Scan!Version : ScanVersion(u)'
    BY <1>1, <1>3, <2>1, <2>2, <2>3, <2>4 DEF ScanInv, ScanTypes, ScanVersion
  <2>7. Scan!NewestCleanShown'
    BY <1>3, <2>1 DEF ScanInv, Scan!NewestCleanShown
  <2> QED
    BY <1>4, <2>5, <2>6, <2>7 DEF ScanInv
<1>7. CASE ~held
  <2>1. UNCHANGED <<state, current, scan, condemned, stored, pinned>>
    BY <1>7 DEF Scan!CompleteMalwareScanJob
  <2> QED
    BY <1>2, <2>1, ScanMoves
<1> QED
  BY <1>5, <1>6, <1>7

\* Every step of the component preserves the invariant.
LEMMA ScanStep == ScanInv /\ Scan!Next => ScanInv'
BY ScanUploads, ScanRestores, ScanLapses, ScanPurges, ScanClaims, ScanReads, ScanCompletes, ScanGivesUp
   DEF Scan!Next

\* So does a step of another one.
LEMMA ScanRests == ScanInv /\ UNCHANGED scanVars => ScanInv'
BY DEF scanVars, ScanInv, ScanTypes, Scan!NewestCleanShown, ScanVersion, ScanWorker

\* The invariant always holds.
LEMMA ScanInvariant == SuiteSpec => []ScanInv
<1>1. SuiteInit => ScanInv
  BY ScanInit DEF SuiteInit
<1>2. ScanInv /\ [SuiteNext]_suiteVars => ScanInv'
  BY ScanStep, ScanRests DEF SuiteNext, suiteVars
<1> QED
  BY <1>1, <1>2, PTL DEF SuiteSpec

\* The invariant is what the run checks of scans, and more.
LEMMA ScanSafe == ScanInv => Scan!TypeOK /\ Scan!OnlyCleanPublished /\ Scan!NewestCleanShown
BY DEF ScanInv, ScanTypes, ScannerRow, ScanVersion, Scan!TypeOK, Scan!OnlyCleanPublished

-----------------------------------------------------------------------------
(* Previews. *)

PreviewRow == Preview!Rows!JobRow({"succeeded"})
RendererRow == [version : Previewing.version \cup {Absent}, attempt : Nat,
                phase : {"idle", "reading", "stored", "failing"}]

\* An attempt that may still be recorded.
InHand == {"reading", "stored"}

\* The columns of every row, and what a renderer knows.
PreviewTypes ==
    /\ original \in [Previewing.version -> {"ready", "deleting", "deleted"}]
    /\ preview \in [Previewing.version -> PreviewRow]
    /\ artifact \in [Previewing.version -> 0..Previewing.attempts]
    /\ artifacts \in [Previewing.version -> SUBSET (1..Previewing.attempts)]
    /\ renderer \in [Previewing.worker -> RendererRow]
    /\ purge \in [Previewing.version -> {"none", "claimed", "listed", "deleted", "done"}]
    /\ listed \in [Previewing.version -> 0..Previewing.attempts]

\* What is recorded, listed and purged of a version.
PreviewVersion(v) ==
    /\ artifact[v] <= preview[v].attempts /\ listed[v] <= preview[v].attempts
    /\ original[v] = "ready" =>
         /\ purge[v] = "none"
         /\ artifact[v] # 0 => artifact[v] \in artifacts[v]
         /\ artifact[v] # 0 <=> preview[v].status = "succeeded"
    /\ purge[v] \in {"claimed", "listed", "deleted"} => original[v] = "deleting"
    /\ purge[v] = "done" <=> original[v] = "deleted"
    /\ purge[v] \in {"listed", "deleted"} /\ artifact[v] # 0 => artifact[v] = listed[v]
    /\ purge[v] = "done" => artifact[v] = 0
    /\ purge[v] \in {"deleted", "done"} => listed[v] \notin artifacts[v]

\* An attempt in hand is neither recorded nor listed by a purge; once stored,
\* its object stays.
PreviewWorker(w) ==
    LET a == renderer[w].attempt  v == renderer[w].version IN
    /\ renderer[w].phase # "idle" => v \in Previewing.version /\ a \in 1..preview[v].attempts
    /\ renderer[w].phase \in InHand => a # artifact[v] /\ a # listed[v]
    /\ renderer[w].phase = "stored" => a \in artifacts[v]

\* No two workers have one attempt in hand.
PreviewApart(u, w) ==
    /\ renderer[u].phase \in InHand /\ renderer[w].phase \in InHand
    /\ renderer[u].version = renderer[w].version
    => renderer[u].attempt # renderer[w].attempt

PreviewInv ==
    /\ PreviewTypes
    /\ \A v \in Previewing.version : PreviewVersion(v)
    /\ \A w \in Previewing.worker : PreviewWorker(w)
    /\ \A u, w \in Previewing.worker : u # w => PreviewApart(u, w)

\* What previews assume of their constants.
LEMMA PreviewConstants == Previewing.attempts \in Nat /\ Previewing.attempts # 0
BY StoreAssumption DEF Preview!AttemptsAssumption

\* What becomes of a job is a job; a result or a lost lease is no attempt.
LEMMA PreviewRows ==
  ASSUME NEW j \in PreviewRow
  PROVE  /\ j.attempts \in Nat /\ j.attempts <= Previewing.attempts
         /\ Preview!Rows!QueuedJob \in PreviewRow
         /\ Preview!Rows!GivenBack(j) \in PreviewRow /\ Preview!Rows!GivenBack(j).attempts = j.attempts
         /\ Preview!Rows!GivenBack(j).status \in {"queued", "failed"}
         /\ Preview!Rows!Recovered(j) \in PreviewRow /\ Preview!Rows!Recovered(j).attempts = j.attempts
         /\ Preview!Rows!Recovered(j).status = "succeeded" <=> j.status = "succeeded"
         /\ Preview!Rows!LeaseLost(j) \in PreviewRow /\ Preview!Rows!LeaseLost(j).attempts = j.attempts
         /\ Preview!Rows!LeaseLost(j).status = j.status
         /\ \A r \in {"failed", "succeeded"} :
              Preview!Rows!Ended(j, r) \in PreviewRow /\ Preview!Rows!Ended(j, r).attempts = j.attempts
         /\ Preview!Rows!Claimable(j) =>
              /\ Preview!Rows!Claimed(j) \in PreviewRow
              /\ Preview!Rows!Claimed(j).attempts = j.attempts + 1
              /\ j.status = "queued"
<1> USE PreviewConstants DEF PreviewRow, Preview!Rows!JobRow
<1>1. j.attempts \in Nat /\ j.attempts <= Previewing.attempts
  OBVIOUS
<1>2. Preview!Rows!QueuedJob \in PreviewRow
  BY DEF Preview!Rows!QueuedJob
<1>3. Preview!Rows!GivenBack(j) \in PreviewRow /\ Preview!Rows!GivenBack(j).attempts = j.attempts
      /\ Preview!Rows!GivenBack(j).status \in {"queued", "failed"}
  BY DEF Preview!Rows!GivenBack
<1>4. Preview!Rows!Recovered(j) \in PreviewRow /\ Preview!Rows!Recovered(j).attempts = j.attempts
      /\ (Preview!Rows!Recovered(j).status = "succeeded" <=> j.status = "succeeded")
  BY <1>3 DEF Preview!Rows!Recovered, Preview!Rows!Lapsed
<1>5. Preview!Rows!LeaseLost(j) \in PreviewRow /\ Preview!Rows!LeaseLost(j).attempts = j.attempts
      /\ Preview!Rows!LeaseLost(j).status = j.status
  BY DEF Preview!Rows!LeaseLost
<1>6. \A r \in {"failed", "succeeded"} :
        Preview!Rows!Ended(j, r) \in PreviewRow /\ Preview!Rows!Ended(j, r).attempts = j.attempts
  BY DEF Preview!Rows!Ended
<1>7. Preview!Rows!Claimable(j) =>
        /\ Preview!Rows!Claimed(j) \in PreviewRow
        /\ Preview!Rows!Claimed(j).attempts = j.attempts + 1
        /\ j.status = "queued"
  BY DEF Preview!Rows!Claimable, Preview!Rows!Claimed
<1> HIDE DEF PreviewRow
<1> QED
  BY <1>1, <1>2, <1>3, <1>4, <1>5, <1>6, <1>7

\* Before any preview is asked for the invariant holds.
LEMMA PreviewInit == Preview!Init => PreviewInv
<1> SUFFICES ASSUME Preview!Init PROVE PreviewInv
  OBVIOUS
<1> USE PreviewConstants DEF Preview!Init
<1>1. Preview!Rows!NoJob \in PreviewRow /\ Preview!Rows!NoJob.attempts = 0 /\ Preview!Rows!NoJob.status = "none"
  BY DEF PreviewRow, Preview!Rows!JobRow, Preview!Rows!NoJob
<1>2. Preview!Off \in RendererRow /\ Preview!Off.phase = "idle"
  BY DEF RendererRow, Preview!Off
<1>3. PreviewTypes
  BY <1>1, <1>2 DEF PreviewTypes
<1>4. \A v \in Previewing.version : PreviewVersion(v)
  BY <1>1 DEF PreviewVersion
<1>5. \A w \in Previewing.worker : PreviewWorker(w)
  BY <1>2 DEF PreviewWorker, InHand
<1>6. \A u, w \in Previewing.worker : u # w => PreviewApart(u, w)
  BY <1>2 DEF PreviewApart, InHand
<1> QED
  BY <1>3, <1>4, <1>5, <1>6 DEF PreviewInv

\* A step of a worker that moves no row of a version, and takes no attempt up.
LEMMA PreviewMoves ==
  ASSUME PreviewInv, NEW w \in Previewing.worker, NEW r \in RendererRow,
         renderer' = [renderer EXCEPT ![w] = r],
         UNCHANGED <<original, preview, artifact, artifacts, purge, listed>>,
         r.phase \in {"idle", "failing"},
         r.phase # "idle" => /\ renderer[w].phase # "idle"
                             /\ r.version = renderer[w].version /\ r.attempt = renderer[w].attempt
  PROVE  PreviewInv'
<1> USE DEF PreviewInv, PreviewTypes
<1>1. PreviewTypes'
  OBVIOUS
<1>2. \A v \in Previewing.version : PreviewVersion(v)'
  BY DEF PreviewVersion
<1>3. \A u \in Previewing.worker : PreviewWorker(u)'
  BY DEF PreviewWorker, InHand
<1>4. \A u, x \in Previewing.worker : u # x => PreviewApart(u, x)'
  BY DEF PreviewApart, InHand
<1> QED
  BY <1>1, <1>2, <1>3, <1>4

\* A job that changes with no attempt and no success.
LEMMA PreviewTurns ==
  ASSUME PreviewInv, UNCHANGED <<original, artifact, artifacts, renderer, purge, listed>>,
         preview' \in [Previewing.version -> PreviewRow],
         \A v \in Previewing.version :
            /\ preview'[v].attempts = preview[v].attempts
            /\ original[v] = "ready" => (preview'[v].status = "succeeded" <=> preview[v].status = "succeeded")
  PROVE  PreviewInv'
<1> USE DEF PreviewInv, PreviewTypes
<1>1. PreviewTypes'
  OBVIOUS
<1>2. \A v \in Previewing.version : PreviewVersion(v)'
  BY DEF PreviewVersion
<1>3. \A u \in Previewing.worker : PreviewWorker(u)'
  BY DEF PreviewWorker, InHand
<1>4. \A u, x \in Previewing.worker : u # x => PreviewApart(u, x)'
  BY DEF PreviewApart
<1> QED
  BY <1>1, <1>2, <1>3, <1>4

\* Asking for a preview, or losing a lease.
LEMMA PreviewAsks ==
  ASSUME PreviewInv, NEW v \in Previewing.version,
         Preview!GetOrQueuePreview(v) \/ Preview!LeaseLapses(v)
  PROVE  PreviewInv'
<1>1. CASE Preview!GetOrQueuePreview(v)
  <2>1. /\ preview[v].attempts = 0 /\ preview[v].status = "none"
        /\ Preview!Rows!QueuedJob.attempts = 0 /\ Preview!Rows!QueuedJob.status = "queued"
    BY <1>1 DEF Preview!GetOrQueuePreview, Preview!Rows!NoJob, Preview!Rows!QueuedJob
  <2>2. Preview!Rows!QueuedJob \in PreviewRow
    BY PreviewRows DEF PreviewInv, PreviewTypes
  <2>3. preview' = [preview EXCEPT ![v] = Preview!Rows!QueuedJob]
        /\ UNCHANGED <<original, artifact, artifacts, renderer, purge, listed>>
    BY <1>1 DEF Preview!GetOrQueuePreview
  <2> QED
    BY <2>1, <2>2, <2>3, PreviewTurns DEF PreviewInv, PreviewTypes
<1>2. CASE Preview!LeaseLapses(v)
  <2> DEFINE j == Preview!Rows!LeaseLost(preview[v])
  <2>1. preview' = [preview EXCEPT ![v] = j]
        /\ UNCHANGED <<original, artifact, artifacts, renderer, purge, listed>>
    BY <1>2 DEF Preview!LeaseLapses
  <2>2. j \in PreviewRow /\ j.attempts = preview[v].attempts /\ j.status = preview[v].status
    BY PreviewRows DEF PreviewInv, PreviewTypes
  <2> HIDE DEF j
  <2> QED
    BY <2>1, <2>2, PreviewTurns DEF PreviewInv, PreviewTypes
<1> QED
  BY <1>1, <1>2

\* Recovery and retirement give jobs back or end them; neither is an attempt.
LEMMA PreviewRetires ==
  ASSUME PreviewInv, NEW v \in Previewing.version
  PROVE  /\ Preview!Retired(v) \in PreviewRow /\ Preview!Retired(v).attempts = preview[v].attempts
         /\ original[v] = "ready" =>
              (Preview!Retired(v).status = "succeeded" <=> preview[v].status = "succeeded")
<1> DEFINE r == Preview!Rows!Recovered(preview[v])
<1>1. r \in PreviewRow /\ r.attempts = preview[v].attempts
      /\ (r.status = "succeeded" <=> preview[v].status = "succeeded")
  BY PreviewRows DEF PreviewInv, PreviewTypes
<1>2. Preview!Rows!Ended(r, "failed") \in PreviewRow /\ Preview!Rows!Ended(r, "failed").attempts = r.attempts
  BY <1>1, PreviewRows
<1>3. Preview!Retired(v) = IF original[v] # "ready" /\ r.status \in {"queued", "processing"}
                           THEN Preview!Rows!Ended(r, "failed") ELSE r
  BY DEF Preview!Retired
<1> HIDE DEF r
<1> QED
  BY <1>1, <1>2, <1>3

\* Claiming a job starts an attempt nobody else has had.
LEMMA PreviewClaims ==
  ASSUME PreviewInv, NEW w \in Previewing.worker, Preview!ClaimPreviewJob(w) PROVE PreviewInv'
<1> PICK R : R = [v \in Previewing.version |-> Preview!Retired(v)]
  OBVIOUS
<1>1. /\ UNCHANGED <<original, artifact, artifacts, purge, listed>>
      /\ \/ preview' = R /\ UNCHANGED renderer
         \/ \E v \in Previewing.version :
              /\ Preview!Rows!Claimable(R[v])  /\ original[v] = "ready"
              /\ preview' = [R EXCEPT ![v] = Preview!Rows!Claimed(R[v])]
              /\ renderer' = [renderer EXCEPT ![w] =
                   [version |-> v, attempt |-> R[v].attempts + 1, phase |-> "reading"]]
  BY DEF Preview!ClaimPreviewJob
<1>2. /\ R \in [Previewing.version -> PreviewRow]
      /\ \A v \in Previewing.version :
            /\ R[v].attempts = preview[v].attempts
            /\ original[v] = "ready" => (R[v].status = "succeeded" <=> preview[v].status = "succeeded")
  BY PreviewRetires
<1>3. CASE preview' = R /\ UNCHANGED renderer
  BY <1>1, <1>2, <1>3, PreviewTurns
<1>4. ASSUME NEW v \in Previewing.version,
             Preview!Rows!Claimable(R[v]), original[v] = "ready",
             preview' = [R EXCEPT ![v] = Preview!Rows!Claimed(R[v])],
             renderer' = [renderer EXCEPT ![w] =
                   [version |-> v, attempt |-> R[v].attempts + 1, phase |-> "reading"]]
      PROVE  PreviewInv'
  <2> PICK a : a = preview[v].attempts + 1
    OBVIOUS
  <2> PICK r : r = [version |-> v, attempt |-> a, phase |-> "reading"]
    OBVIOUS
  <2>1. R[v] \in PreviewRow /\ preview[v] \in PreviewRow /\ preview[v].attempts \in Nat /\ R[v].status = "queued"
    BY <1>2, <1>4, PreviewRows DEF PreviewInv, PreviewTypes
  <2>2. /\ a \in Nat /\ r \in RendererRow /\ r.version = v /\ r.attempt = a /\ r.phase = "reading"
        /\ renderer' = [renderer EXCEPT ![w] = r]
    <3>1. R[v].attempts + 1 = a /\ a \in Nat
      BY <1>2, <2>1
    <3>2. renderer' = [renderer EXCEPT ![w] = r]
      BY <1>4, <3>1
    <3> QED
      BY <3>1, <3>2 DEF RendererRow
  <2>3. /\ preview' \in [Previewing.version -> PreviewRow] /\ preview'[v].attempts = a
        /\ preview'[v].status # "succeeded"
    <3>1. /\ Preview!Rows!Claimed(R[v]) \in PreviewRow
          /\ Preview!Rows!Claimed(R[v]).attempts = R[v].attempts + 1
      BY <1>4, <2>1, PreviewRows
    <3>2. Preview!Rows!Claimed(R[v]).status = "processing"
      BY DEF Preview!Rows!Claimed
    <3> QED
      BY <1>2, <1>4, <3>1, <3>2
  <2>4. \A u \in Previewing.version \ {v} :
          /\ preview'[u].attempts = preview[u].attempts
          /\ original[u] = "ready" => (preview'[u].status = "succeeded" <=> preview[u].status = "succeeded")
    BY <1>2, <1>4
  <2>5. \A u \in Previewing.version : preview[u].attempts \in Nat
    BY PreviewRows DEF PreviewInv, PreviewTypes
  <2>6. PreviewTypes'
    BY <1>1, <2>2, <2>3 DEF PreviewInv, PreviewTypes
  <2>7. \A u \in Previewing.version : PreviewVersion(u)'
    <3>1. artifact[v] \in Nat /\ listed[v] \in Nat /\ a >= preview[v].attempts
      BY <2>1, PreviewConstants DEF PreviewInv, PreviewTypes
    <3>2. PreviewVersion(v)'
      BY SMTT(60), <1>1, <1>2, <1>4, <2>1, <2>3, <3>1 DEF PreviewInv, PreviewVersion
    <3>3. \A u \in Previewing.version \ {v} : PreviewVersion(u)'
      BY <1>1, <2>4 DEF PreviewInv, PreviewVersion
    <3> QED
      BY <3>2, <3>3
  <2>8. \A u \in Previewing.worker : PreviewWorker(u)'
    <3>1. PreviewWorker(w)'
      <4>1. /\ renderer'[w] = r /\ artifact[v] \in Nat /\ listed[v] \in Nat
            /\ artifact[v] <= preview[v].attempts /\ listed[v] <= preview[v].attempts
        BY <2>2, PreviewConstants DEF PreviewInv, PreviewTypes, PreviewVersion
      <4>2. a \in 1..preview'[v].attempts /\ a # artifact[v] /\ a # listed[v]
        BY <2>1, <2>3, <4>1
      <4> QED
        BY <1>1, <2>2, <4>1, <4>2 DEF PreviewWorker
    <3>2. ASSUME NEW u \in Previewing.worker \ {w} PROVE PreviewWorker(u)'
      <4>1. renderer'[u] = renderer[u] /\ PreviewWorker(u) /\ renderer[u].attempt \in Nat
        BY <2>2 DEF PreviewInv, PreviewTypes, RendererRow
      <4>2. renderer[u].phase # "idle" =>
               /\ renderer[u].version \in Previewing.version
               /\ preview'[renderer[u].version].attempts \in Nat
               /\ preview'[renderer[u].version].attempts >= preview[renderer[u].version].attempts
        BY <2>1, <2>2, <2>3, <2>4, <2>5, <4>1 DEF PreviewWorker
      <4> QED
        BY <1>1, <2>5, <4>1, <4>2 DEF PreviewWorker
    <3> QED
      BY <3>1, <3>2
  <2>9. \A u, x \in Previewing.worker : u # x => PreviewApart(u, x)'
    <3>1. \A u \in Previewing.worker \ {w} :
            renderer'[u] = renderer[u] /\ (renderer[u].phase \in InHand /\ renderer[u].version = v
                                           => renderer[u].attempt # a)
      BY <2>1, <2>2 DEF PreviewInv, PreviewTypes, PreviewWorker, InHand
    <3>2. renderer'[w] = r
      BY <2>2 DEF PreviewInv, PreviewTypes
    <3> QED
      BY <2>2, <3>1, <3>2 DEF PreviewInv, PreviewApart
  <2> QED
    BY <2>6, <2>7, <2>8, <2>9 DEF PreviewInv
<1> QED
  BY <1>1, <1>3, <1>4

\* A stored object is that of an attempt in hand; storing may be cut short.
LEMMA PreviewStores ==
  ASSUME PreviewInv, NEW w \in Previewing.worker, Preview!StoreArtifact(w) PROVE PreviewInv'
<1> PICK a : a = renderer[w].attempt
  OBVIOUS
<1> PICK v : v = renderer[w].version
  OBVIOUS
<1>1. /\ UNCHANGED <<original, preview, artifact, purge, listed>>
      /\ artifacts' = [artifacts EXCEPT ![v] = artifacts[v] \cup {a}]
      /\ renderer[w].phase = "reading"
  BY DEF Preview!StoreArtifact
<1>2. PICK r : /\ renderer' = [renderer EXCEPT ![w] = r] /\ r.phase \in {"stored", "failing"}
               /\ r.version = v /\ r.attempt = a /\ r \in RendererRow
  <2>1. PICK p \in {"stored", "failing"} : renderer' = [renderer EXCEPT ![w] =
              [version |-> v, attempt |-> a, phase |-> p]]
    BY DEF Preview!StoreArtifact, Preview!Goes, Preview!At
  <2>2. renderer[w] \in RendererRow
    BY DEF PreviewInv, PreviewTypes
  <2>3. [version |-> v, attempt |-> a, phase |-> p] \in RendererRow
    BY <2>2 DEF RendererRow
  <2> QED
    BY <2>1, <2>3
<1>3. /\ v \in Previewing.version /\ a \in 1..preview[v].attempts
      /\ a # artifact[v] /\ a # listed[v] /\ PreviewVersion(v)
  BY <1>1 DEF PreviewInv, PreviewWorker, InHand
<1>4. a \in 1..Previewing.attempts
  <2>1. preview[v] \in PreviewRow
    BY <1>3 DEF PreviewInv, PreviewTypes
  <2>2. preview[v].attempts \in Nat /\ preview[v].attempts <= Previewing.attempts
    BY <2>1, PreviewRows
  <2> QED
    BY <1>3, <2>2, PreviewConstants
<1>5. PreviewTypes'
  BY <1>1, <1>2, <1>3, <1>4 DEF PreviewInv, PreviewTypes
<1>6. artifacts \in [Previewing.version -> SUBSET (1..Previewing.attempts)]
      /\ renderer \in [Previewing.worker -> RendererRow]
  BY DEF PreviewInv, PreviewTypes
<1>7. \A u \in Previewing.version : PreviewVersion(u)'
  BY <1>1, <1>3, <1>6 DEF PreviewInv, PreviewVersion
<1>8. \A u \in Previewing.worker : PreviewWorker(u)'
  <2>1. PreviewWorker(w)'
    BY <1>1, <1>2, <1>3, <1>6 DEF PreviewWorker
  <2>2. \A u \in Previewing.worker \ {w} : PreviewWorker(u)'
    BY <1>1, <1>2, <1>3, <1>6 DEF PreviewInv, PreviewWorker, InHand
  <2> QED
    BY <2>1, <2>2
<1>9. \A u, x \in Previewing.worker : u # x => PreviewApart(u, x)'
  <2>1. /\ renderer'[w].version = renderer[w].version /\ renderer'[w].attempt = renderer[w].attempt
        /\ renderer[w].phase \in InHand /\ \A x \in Previewing.worker \ {w} : renderer'[x] = renderer[x]
    BY <1>1, <1>2, <1>6 DEF InHand
  <2> QED
    BY <2>1 DEF PreviewInv, PreviewApart
<1> QED
  BY <1>5, <1>7, <1>8, <1>9 DEF PreviewInv

\* Failing and dying only move the worker.
LEMMA PreviewDrops ==
  ASSUME PreviewInv, NEW w \in Previewing.worker, Preview!RenderFails(w) \/ Preview!WorkerDies(w)
  PROVE  PreviewInv'
<1>1. CASE Preview!RenderFails(w)
  <2> PICK r : r = Preview!At(w, "failing")
    OBVIOUS
  <2>1. /\ renderer' = [renderer EXCEPT ![w] = r]
        /\ UNCHANGED <<original, preview, artifact, artifacts, purge, listed>>
        /\ renderer[w].phase # "idle"
    BY <1>1 DEF Preview!RenderFails, Preview!Goes
  <2>2. r \in RendererRow /\ r.version = renderer[w].version /\ r.attempt = renderer[w].attempt /\ r.phase = "failing"
    BY DEF PreviewInv, PreviewTypes, Preview!At, RendererRow
  <2> QED
    BY <2>1, <2>2, PreviewMoves
<1>2. CASE Preview!WorkerDies(w)
  <2>1. Preview!Off \in RendererRow /\ Preview!Off.phase = "idle"
    BY DEF RendererRow, Preview!Off
  <2>2. /\ renderer' = [renderer EXCEPT ![w] = Preview!Off]
        /\ UNCHANGED <<original, preview, artifact, artifacts, purge, listed>>
    BY <1>2 DEF Preview!WorkerDies
  <2> QED
    BY <2>1, <2>2, PreviewMoves
<1> QED
  BY <1>1, <1>2

\* A failed attempt gives its job back, if it still holds it.
LEMMA PreviewFails ==
  ASSUME PreviewInv, NEW w \in Previewing.worker, Preview!FailPreviewJob(w) PROVE PreviewInv'
<1> PICK v : v = renderer[w].version
  OBVIOUS
<1> USE DEF PreviewInv, PreviewTypes
<1>1. /\ UNCHANGED <<original, artifact, artifacts, purge, listed>>
      /\ renderer' = [renderer EXCEPT ![w] = Preview!Off] /\ v \in Previewing.version
  BY DEF Preview!FailPreviewJob, PreviewWorker
<1>2. /\ preview' \in [Previewing.version -> PreviewRow]
      /\ \A u \in Previewing.version : /\ preview'[u].attempts = preview[u].attempts
                                       /\ preview'[u].status = "succeeded" <=> preview[u].status = "succeeded"
  <2> DEFINE j == Preview!Rows!GivenBack(preview[v])
  <2>1. CASE preview' = preview
    BY <2>1
  <2>2. CASE preview' = [preview EXCEPT ![v] = j] /\ preview[v].status = "processing"
    <3>1. j \in PreviewRow /\ j.attempts = preview[v].attempts /\ j.status \in {"queued", "failed"}
      BY <1>1, PreviewRows
    <3> HIDE DEF j
    <3> QED
      BY <1>1, <2>2, <3>1
  <2> QED
    BY <2>1, <2>2 DEF Preview!FailPreviewJob, Preview!Rows!Holds
<1>3. Preview!Off \in RendererRow /\ Preview!Off.phase = "idle"
  BY DEF RendererRow, Preview!Off
<1>4. PreviewTypes'
  BY <1>1, <1>2, <1>3
<1>5. \A u \in Previewing.version : PreviewVersion(u)'
  BY <1>1, <1>2 DEF PreviewVersion
<1>6. \A u \in Previewing.worker : PreviewWorker(u)'
  BY <1>1, <1>2, <1>3 DEF PreviewWorker, InHand
<1>7. \A u, x \in Previewing.worker : u # x => PreviewApart(u, x)'
  BY <1>1, <1>3 DEF PreviewApart, InHand
<1> QED
  BY <1>4, <1>5, <1>6, <1>7

\* An attempt is recorded under its lease, while the version is ready.
LEMMA PreviewCompletes ==
  ASSUME PreviewInv, NEW w \in Previewing.worker, Preview!CompletePreviewJob(w) PROVE PreviewInv'
<1> PICK v : v = renderer[w].version
  OBVIOUS
<1> PICK a : a = renderer[w].attempt
  OBVIOUS
<1> PICK f : f = Preview!At(w, "failing")
  OBVIOUS
<1>1. /\ UNCHANGED <<original, artifacts, purge, listed>> /\ renderer[w].phase = "stored"
  BY DEF Preview!CompletePreviewJob
<1>2. f \in RendererRow /\ f.version = v /\ f.attempt = a /\ f.phase = "failing"
      /\ Preview!Off \in RendererRow /\ Preview!Off.phase = "idle"
  BY DEF PreviewInv, PreviewTypes, Preview!At, RendererRow, Preview!Off
<1>3. v \in Previewing.version /\ a \in 1..preview[v].attempts /\ a \in artifacts[v]
      /\ a # artifact[v] /\ a # listed[v] /\ PreviewVersion(v)
  BY <1>1 DEF PreviewInv, PreviewWorker, InHand
<1>4. CASE Preview!MayRecord(v, a)
  <2>1. PICK r \in {Preview!Off, f} : renderer' = [renderer EXCEPT ![w] = r]
    BY <1>4 DEF Preview!CompletePreviewJob
  <2>2. /\ artifact' = [artifact EXCEPT ![v] = a]
        /\ preview' = [preview EXCEPT ![v] = Preview!Rows!Ended(preview[v], "succeeded")]
    BY <1>4 DEF Preview!CompletePreviewJob
  <2>3. preview[v].attempts = a /\ original[v] = "ready"
    BY <1>4 DEF Preview!MayRecord, Preview!Rows!Holds
  <2>4. preview[v] \in PreviewRow
    BY <1>3 DEF PreviewInv, PreviewTypes
  <2>5. /\ preview' \in [Previewing.version -> PreviewRow]
        /\ preview'[v].status = "succeeded" /\ preview'[v].attempts = a
        /\ \A u \in Previewing.version \ {v} : preview'[u] = preview[u]
    <3> PICK j : j = Preview!Rows!Ended(preview[v], "succeeded")
      OBVIOUS
    <3>1. j \in PreviewRow /\ j.attempts = a /\ j.status = "succeeded"
      BY <2>3, <2>4, PreviewRows DEF Preview!Rows!Ended
    <3> QED
      BY <1>3, <2>2, <3>1 DEF PreviewInv, PreviewTypes
  <2>6. a \in 1..Previewing.attempts /\ a # 0 /\ a \in Nat /\ listed[v] <= a
    BY <1>3, <2>3, <2>4, PreviewRows, PreviewConstants DEF PreviewVersion
  <2>7. PreviewTypes'
    BY <1>1, <1>2, <1>3, <2>1, <2>2, <2>5, <2>6 DEF PreviewInv, PreviewTypes
  <2>8. /\ artifact'[v] = a /\ \A u \in Previewing.version \ {v} : artifact'[u] = artifact[u]
        /\ renderer'[w].phase \notin InHand
        /\ renderer'[w].phase = "failing" => renderer'[w].version = v /\ renderer'[w].attempt = a
        /\ renderer'[w].phase \in {"idle", "failing"}
        /\ \A u \in Previewing.worker \ {w} : renderer'[u] = renderer[u]
    BY <1>2, <1>3, <2>1, <2>2 DEF PreviewInv, PreviewTypes, InHand
  <2>9. \A u \in Previewing.version : PreviewVersion(u)'
    <3>1. PreviewVersion(v)'
      BY <1>1, <1>3, <2>3, <2>5, <2>6, <2>8 DEF PreviewVersion
    <3>2. \A u \in Previewing.version \ {v} : PreviewVersion(u)'
      BY <1>1, <2>5, <2>8 DEF PreviewInv, PreviewVersion
    <3> QED
      BY <3>1, <3>2
  <2>10. \A u \in Previewing.worker : PreviewWorker(u)'
    <3>1. PreviewWorker(w)'
      BY <1>3, <2>3, <2>5, <2>8 DEF PreviewWorker, InHand
    <3>2. ASSUME NEW u \in Previewing.worker \ {w} PROVE PreviewWorker(u)'
      <4>1. PreviewWorker(u) /\ PreviewApart(u, w) /\ renderer[w].phase \in InHand
        BY <1>1 DEF PreviewInv, InHand
      <4>2. \A x \in Previewing.version : preview'[x].attempts = preview[x].attempts
        BY <2>3, <2>5
      <4>3. renderer[u].phase \in InHand /\ renderer[u].version = v => renderer[u].attempt # a
        BY <4>1 DEF PreviewApart
      <4>4. renderer[u].phase \in InHand => renderer[u].phase # "idle"
        BY DEF InHand
      <4> QED
        BY <1>1, <2>8, <4>1, <4>2, <4>3, <4>4 DEF PreviewWorker
    <3> QED
      BY <3>1, <3>2
  <2>11. \A u, x \in Previewing.worker : u # x => PreviewApart(u, x)'
    BY <2>8 DEF PreviewInv, PreviewApart
  <2> QED
    BY <2>7, <2>9, <2>10, <2>11 DEF PreviewInv
<1>5. CASE ~Preview!MayRecord(v, a)
  <2>1. renderer' = [renderer EXCEPT ![w] = f] /\ UNCHANGED <<artifact, preview>>
    BY <1>5 DEF Preview!CompletePreviewJob, Preview!Goes
  <2> QED
    BY <1>1, <1>2, <2>1, PreviewMoves
<1> QED
  BY <1>4, <1>5

\* A purge that is claimed, listed, carried out, done or given up.
LEMMA PreviewPurges ==
  ASSUME PreviewInv, NEW v \in Previewing.version,
         \/ Preview!ClaimBlobDeletionJob(v) \/ Preview!PreviewArtifactsForVersion(v)
         \/ Preview!DeleteArtifact(v) \/ Preview!CompleteBlobDeletionJob(v) \/ Preview!PurgeFails(v)
  PROVE  PreviewInv'
<1> USE DEF Preview!ClaimBlobDeletionJob, Preview!PreviewArtifactsForVersion, Preview!DeleteArtifact,
            Preview!CompleteBlobDeletionJob, Preview!PurgeFails
<1>1. UNCHANGED <<preview, renderer>> /\ PreviewTypes /\ PreviewVersion(v)
  BY DEF PreviewInv
<1>2. PreviewTypes'
  <2> USE <1>1 DEF PreviewTypes
  <2>1. artifact[v] \in 0..Previewing.attempts /\ 0 \in 0..Previewing.attempts
        /\ artifacts[v] \ {listed[v]} \in SUBSET (1..Previewing.attempts)
    BY PreviewConstants
  <2>2. original' \in [Previewing.version -> {"ready", "deleting", "deleted"}]
    OBVIOUS
  <2>3. purge' \in [Previewing.version -> {"none", "claimed", "listed", "deleted", "done"}]
    OBVIOUS
  <2>4. artifact' \in [Previewing.version -> 0..Previewing.attempts]
        /\ listed' \in [Previewing.version -> 0..Previewing.attempts]
    BY <2>1
  <2>5. artifacts' \in [Previewing.version -> SUBSET (1..Previewing.attempts)]
    BY <2>1
  <2> QED
    BY <2>2, <2>3, <2>4, <2>5
<1>3. \A u \in Previewing.version \ {v} :
        /\ original'[u] = original[u] /\ artifact'[u] = artifact[u] /\ artifacts'[u] = artifacts[u]
        /\ purge'[u] = purge[u] /\ listed'[u] = listed[u]
  BY <1>1 DEF PreviewTypes
<1>4. preview[v].attempts \in Nat
  BY PreviewRows DEF PreviewInv, PreviewTypes
<1>5. PreviewVersion(v)'
  <2> USE <1>1, <1>4 DEF PreviewTypes, PreviewVersion
  <2>1. CASE Preview!ClaimBlobDeletionJob(v)
    BY <2>1
  <2>2. CASE Preview!PreviewArtifactsForVersion(v)
    BY <2>2
  <2>3. CASE Preview!DeleteArtifact(v)
    BY <2>3
  <2>4. CASE Preview!CompleteBlobDeletionJob(v)
    BY <2>4
  <2>5. CASE Preview!PurgeFails(v)
    BY <2>5
  <2> QED
    BY <2>1, <2>2, <2>3, <2>4, <2>5
<1>6. \A u \in Previewing.version : PreviewVersion(u)'
  BY <1>1, <1>3, <1>5 DEF PreviewInv, PreviewVersion
<1>7. /\ artifact'[v] \in {artifact[v], 0} /\ listed'[v] \in {listed[v], artifact[v]}
      /\ artifacts'[v] \in {artifacts[v], artifacts[v] \ {listed[v]}}
  BY <1>1 DEF PreviewTypes
<1>8. ASSUME NEW w \in Previewing.worker PROVE PreviewWorker(w)'
  <2>1. PreviewWorker(w)
    BY DEF PreviewInv
  <2>2. CASE renderer[w].version # v
    BY <1>1, <1>3, <2>1, <2>2 DEF PreviewWorker, InHand
  <2>3. CASE renderer[w].version = v
    BY <1>1, <1>4, <1>7, <2>1, <2>3 DEF PreviewWorker, InHand
  <2> QED
    BY <2>2, <2>3
<1>9. \A u, x \in Previewing.worker : u # x => PreviewApart(u, x)'
  BY <1>1 DEF PreviewInv, PreviewApart
<1> QED
  BY <1>2, <1>6, <1>8, <1>9 DEF PreviewInv

\* Every step of the component preserves the invariant.
LEMMA PreviewStep == PreviewInv /\ Preview!Next => PreviewInv'
BY PreviewAsks, PreviewClaims, PreviewStores, PreviewDrops, PreviewFails, PreviewCompletes, PreviewPurges
   DEF Preview!Next

\* So does a step of another one.
LEMMA PreviewRests == PreviewInv /\ UNCHANGED previewVars => PreviewInv'
BY DEF previewVars, PreviewInv, PreviewTypes, PreviewVersion, PreviewWorker, PreviewApart

\* The invariant always holds.
LEMMA PreviewInvariant == SuiteSpec => []PreviewInv
<1>1. SuiteInit => PreviewInv
  BY PreviewInit DEF SuiteInit
<1>2. PreviewInv /\ [SuiteNext]_suiteVars => PreviewInv'
  BY PreviewStep, PreviewRests DEF SuiteNext, suiteVars
<1> QED
  BY <1>1, <1>2, PTL DEF SuiteSpec

\* The invariant is what the run checks of previews, and more.
LEMMA PreviewSafe == PreviewInv => Preview!TypeOK /\ Preview!ReadyPreviewStored /\ Preview!PurgedPreviewGone
<1> SUFFICES ASSUME PreviewInv PROVE Preview!TypeOK /\ Preview!ReadyPreviewStored /\ Preview!PurgedPreviewGone
  OBVIOUS
<1>1. Preview!TypeOK
  BY DEF PreviewInv, PreviewTypes, RendererRow, Preview!TypeOK, PreviewRow
<1>2. Preview!ReadyPreviewStored
  BY DEF PreviewInv, PreviewVersion, Preview!ReadyPreviewStored
<1>3. Preview!PurgedPreviewGone
  BY DEF PreviewInv, PreviewVersion, Preview!PurgedPreviewGone
<1> QED
  BY <1>1, <1>2, <1>3

-----------------------------------------------------------------------------
(* Messages. *)

MailRow == Mail!Rows!JobRow({"delivered"})
SenderRow == [message : Mailing.message \cup {Absent}, attempt : Nat,
              phase : {"idle", "sending", "sent", "failing"}]

\* The workers about to hand a message to the mail server.
Sending(m) == {w \in Mailing.sender : sender[w].phase = "sending" /\ sender[w].message = m}

\* The columns of every row, and what a sender knows.
MailTypes ==
    /\ outbox \in [Mailing.message -> MailRow] /\ sent \in [Mailing.message -> Nat]
    /\ sender \in [Mailing.sender -> SenderRow]

\* What was sent and what may still be sent are attempts.
MailMessage(m) ==
    /\ IsFiniteSet(Sending(m)) /\ sent[m] + Cardinality(Sending(m)) <= outbox[m].attempts
    /\ outbox[m].status = "delivered" => sent[m] > 0

MailWorker(w) ==
    /\ sender[w].phase # "idle" => sender[w].message \in Mailing.message
    /\ sender[w].phase = "sent" => sent[sender[w].message] > 0

MailInv ==
    /\ MailTypes
    /\ \A m \in Mailing.message : MailMessage(m)
    /\ \A w \in Mailing.sender : MailWorker(w)

\* What messages assume of their constants.
LEMMA MailConstants == Mailing.attempts \in Nat /\ Mailing.attempts # 0
BY StoreAssumption DEF Mail!AttemptsAssumption

\* What becomes of a row is a row; only a claim counts as an attempt, and what
\* was delivered stays so.
LEMMA MailRows ==
  ASSUME NEW j \in MailRow
  PROVE  /\ j.attempts \in Nat /\ j.attempts <= Mailing.attempts
         /\ Mail!Rows!QueuedJob \in MailRow
         /\ Mail!Rows!GivenBack(j) \in MailRow /\ Mail!Rows!GivenBack(j).attempts = j.attempts
         /\ Mail!Rows!GivenBack(j).status # "delivered"
         /\ Mail!Rows!Recovered(j) \in MailRow /\ Mail!Rows!Recovered(j).attempts = j.attempts
         /\ j.status = "delivered" => Mail!Rows!Recovered(j) = j
         /\ Mail!Rows!Recovered(j).status = "delivered" => j.status = "delivered"
         /\ Mail!Rows!LeaseLost(j) \in MailRow /\ Mail!Rows!LeaseLost(j).attempts = j.attempts
         /\ Mail!Rows!LeaseLost(j).status = j.status
         /\ Mail!Rows!Ended(j, "delivered") \in MailRow
         /\ Mail!Rows!Ended(j, "delivered").attempts = j.attempts
         /\ Mail!Rows!Claimable(j) =>
              /\ Mail!Rows!Claimed(j) \in MailRow
              /\ Mail!Rows!Claimed(j).attempts = j.attempts + 1
              /\ Mail!Rows!Claimed(j).status = "processing" /\ j.status = "queued"
<1> USE MailConstants DEF MailRow, Mail!Rows!JobRow
<1>1. j.attempts \in Nat /\ j.attempts <= Mailing.attempts
  OBVIOUS
<1>2. Mail!Rows!QueuedJob \in MailRow
  BY DEF Mail!Rows!QueuedJob
<1>3. Mail!Rows!GivenBack(j) \in MailRow /\ Mail!Rows!GivenBack(j).attempts = j.attempts
      /\ Mail!Rows!GivenBack(j).status # "delivered"
  BY DEF Mail!Rows!GivenBack
<1>4. Mail!Rows!Recovered(j) \in MailRow /\ Mail!Rows!Recovered(j).attempts = j.attempts
      /\ (j.status = "delivered" => Mail!Rows!Recovered(j) = j)
      /\ (Mail!Rows!Recovered(j).status = "delivered" => j.status = "delivered")
  BY <1>3 DEF Mail!Rows!Recovered, Mail!Rows!Lapsed
<1>5. Mail!Rows!LeaseLost(j) \in MailRow /\ Mail!Rows!LeaseLost(j).attempts = j.attempts
      /\ Mail!Rows!LeaseLost(j).status = j.status
  BY DEF Mail!Rows!LeaseLost
<1>6. Mail!Rows!Ended(j, "delivered") \in MailRow /\ Mail!Rows!Ended(j, "delivered").attempts = j.attempts
  BY DEF Mail!Rows!Ended
<1>7. Mail!Rows!Claimable(j) =>
        /\ Mail!Rows!Claimed(j) \in MailRow
        /\ Mail!Rows!Claimed(j).attempts = j.attempts + 1
        /\ Mail!Rows!Claimed(j).status = "processing" /\ j.status = "queued"
  BY DEF Mail!Rows!Claimable, Mail!Rows!Claimed
<1> HIDE DEF MailRow
<1> QED
  BY <1>1, <1>2, <1>3, <1>4, <1>5, <1>6, <1>7

\* Before anything is sent the invariant holds.
LEMMA MailInit == Mail!Init => MailInv
<1> SUFFICES ASSUME Mail!Init PROVE MailInv
  OBVIOUS
<1> USE DEF Mail!Init
<1>1. Mail!Rows!NoJob \in MailRow /\ Mail!Rows!NoJob.attempts = 0 /\ Mail!Rows!NoJob.status = "none"
  BY MailConstants DEF MailRow, Mail!Rows!JobRow, Mail!Rows!NoJob
<1>2. Mail!Off \in SenderRow /\ Mail!Off.phase = "idle"
  BY DEF SenderRow, Mail!Off
<1>3. MailTypes
  BY <1>1, <1>2 DEF MailTypes
<1>4. ASSUME NEW m \in Mailing.message PROVE MailMessage(m)
  <2>1. Sending(m) = {}
    BY <1>2 DEF Sending
  <2>2. IsFiniteSet(Sending(m)) /\ Cardinality(Sending(m)) = 0
    BY <2>1, FS_EmptySet
  <2> QED
    BY <1>1, <2>2 DEF MailMessage
<1>5. \A w \in Mailing.sender : MailWorker(w)
  BY <1>2 DEF MailWorker
<1> QED
  BY <1>3, <1>4, <1>5 DEF MailInv

\* A row that changes with no attempt and no delivery.
LEMMA MailTurns ==
  ASSUME MailInv, UNCHANGED <<sent, sender>>,
         outbox' \in [Mailing.message -> MailRow],
         \A m \in Mailing.message : /\ outbox'[m].attempts = outbox[m].attempts
                                    /\ outbox'[m].status = "delivered" => outbox[m].status = "delivered"
  PROVE  MailInv'
<1>1. MailTypes' /\ \A w \in Mailing.sender : MailWorker(w)'
  BY DEF MailInv, MailTypes, MailWorker
<1>2. \A m \in Mailing.message : MailMessage(m)'
  <2>1. \A m \in Mailing.message : Sending(m)' = Sending(m)
    BY DEF Sending
  <2> QED
    BY <2>1 DEF MailInv, MailMessage
<1> QED
  BY <1>1, <1>2 DEF MailInv

\* Queueing a message, or losing a lease.
LEMMA MailQueues ==
  ASSUME MailInv, NEW m \in Mailing.message, Mail!Enqueue(m) \/ Mail!LeaseLapses(m)
  PROVE  MailInv'
<1>1. PICK j \in MailRow : /\ outbox' = [outbox EXCEPT ![m] = j] /\ j.attempts = outbox[m].attempts
                           /\ j.status = "delivered" => outbox[m].status = "delivered"
  <2>0. outbox[m] \in MailRow
    BY DEF MailInv, MailTypes
  <2>1. CASE Mail!Enqueue(m)
    <3>1. outbox' = [outbox EXCEPT ![m] = Mail!Rows!QueuedJob] /\ outbox[m].attempts = 0
          /\ Mail!Rows!QueuedJob.attempts = 0 /\ Mail!Rows!QueuedJob.status = "queued"
      BY <2>1 DEF Mail!Enqueue, Mail!Rows!NoJob, Mail!Rows!QueuedJob
    <3> QED
      BY <2>0, <3>1, MailRows
  <2>2. CASE Mail!LeaseLapses(m)
    <3>1. outbox' = [outbox EXCEPT ![m] = Mail!Rows!LeaseLost(outbox[m])]
      BY <2>2 DEF Mail!LeaseLapses
    <3> QED
      BY <2>0, <3>1, MailRows
  <2> QED
    BY <2>1, <2>2
<1>2. UNCHANGED <<sent, sender>>
  BY DEF Mail!Enqueue, Mail!LeaseLapses
<1> QED
  BY <1>1, <1>2, MailTurns DEF MailInv, MailTypes

\* A sender that has done with its message, or fails, sends it no more.
LEMMA MailMoves ==
  ASSUME MailInv, NEW w \in Mailing.sender, NEW r \in SenderRow,
         sender' = [sender EXCEPT ![w] = r], r.phase # "sending",
         r.phase # "idle" => r.message \in Mailing.message,
         r.phase = "sent" => sent'[r.message] > 0,
         sent' \in [Mailing.message -> Nat], \A m \in Mailing.message : sent'[m] >= sent[m],
         outbox' \in [Mailing.message -> MailRow],
         \A m \in Mailing.message :
            /\ outbox'[m].attempts = outbox[m].attempts
            /\ outbox'[m].status = "delivered" => sent[m] > 0
            /\ \/ sent'[m] = sent[m]
               \/ sent'[m] = sent[m] + 1 /\ w \in Sending(m)
  PROVE  MailInv'
<1>1. MailTypes'
  BY DEF MailInv, MailTypes
<1>2. ASSUME NEW m \in Mailing.message PROVE MailMessage(m)'
  <2>1. Sending(m)' = Sending(m) \ {w}
    BY DEF MailInv, MailTypes, Sending
  <2>2. IsFiniteSet(Sending(m)) /\ sent[m] + Cardinality(Sending(m)) <= outbox[m].attempts
    BY DEF MailInv, MailMessage
  <2>3. /\ IsFiniteSet(Sending(m) \ {w}) /\ Cardinality(Sending(m)) \in Nat
        /\ Cardinality(Sending(m) \ {w}) =
             IF w \in Sending(m) THEN Cardinality(Sending(m)) - 1 ELSE Cardinality(Sending(m))
    BY <2>2, FS_RemoveElement, FS_CardinalityType
  <2>4. sent[m] \in Nat /\ sent'[m] \in Nat /\ outbox[m].attempts \in Nat
    BY MailRows DEF MailInv, MailTypes
  <2>5. sent'[m] + Cardinality(Sending(m) \ {w}) <= outbox'[m].attempts
    BY <2>2, <2>3, <2>4
  <2> QED
    BY <2>1, <2>3, <2>4, <2>5 DEF MailMessage
<1>3. ASSUME NEW u \in Mailing.sender PROVE MailWorker(u)'
  <2>1. CASE u = w
    BY <2>1 DEF MailInv, MailTypes, MailWorker
  <2>2. CASE u # w
    BY <2>2 DEF MailInv, MailTypes, MailWorker
  <2> QED
    BY <2>1, <2>2
<1> QED
  BY <1>1, <1>2, <1>3 DEF MailInv

\* Sending, whether the worker hears of it or not.
LEMMA MailSends ==
  ASSUME MailInv, NEW w \in Mailing.sender, Mail!Send(w) PROVE MailInv'
<1> PICK m : m = sender[w].message
  OBVIOUS
<1>1. m \in Mailing.message /\ w \in Sending(m) /\ sender[w] \in SenderRow /\ UNCHANGED outbox
  BY DEF MailInv, MailTypes, MailWorker, Mail!Send, Sending
<1>2. \A p \in {"sent", "failing"} :
        /\ [message |-> m, attempt |-> sender[w].attempt, phase |-> p] \in SenderRow
        /\ [message |-> m, attempt |-> sender[w].attempt, phase |-> p].phase = p
        /\ [message |-> m, attempt |-> sender[w].attempt, phase |-> p].message = m
  BY <1>1 DEF SenderRow
<1>3. PICK r \in SenderRow : /\ sender' = [sender EXCEPT ![w] = r] /\ r.phase \in {"sent", "failing"}
                             /\ r.message = m
                             /\ \/ sent' = [sent EXCEPT ![m] = sent[m] + 1]
                                \/ sent' = sent /\ r.phase = "failing"
  BY <1>2 DEF Mail!Send, Mail!Goes
<1>4. sent \in [Mailing.message -> Nat] /\ outbox \in [Mailing.message -> MailRow]
      /\ \A x \in Mailing.message : outbox[x].status = "delivered" => sent[x] > 0
  BY DEF MailInv, MailTypes, MailMessage
<1>5. /\ sent' \in [Mailing.message -> Nat] /\ \A x \in Mailing.message : sent'[x] >= sent[x]
      /\ r.phase = "sent" => sent'[m] > 0
      /\ \A x \in Mailing.message :
            sent'[x] = sent[x] \/ (sent'[x] = sent[x] + 1 /\ w \in Sending(x))
  BY <1>1, <1>3, <1>4
<1> QED
  BY <1>1, <1>3, <1>4, <1>5, MailMoves

\* The outcome is recorded by whoever still holds the row; a worker may die.
LEMMA MailEnds ==
  ASSUME MailInv, NEW w \in Mailing.sender,
         \/ Mail!CompleteNotificationJob(w) \/ Mail!FailNotificationJob(w) \/ Mail!WorkerDies(w)
  PROVE  MailInv'
<1> PICK m : m = sender[w].message
  OBVIOUS
<1>1. Mail!Off \in SenderRow /\ Mail!Off.phase = "idle"
  BY DEF SenderRow, Mail!Off
<1>2. sender' = [sender EXCEPT ![w] = Mail!Off] /\ sent' = sent
  BY DEF Mail!CompleteNotificationJob, Mail!FailNotificationJob, Mail!WorkerDies
<1>3. sent \in [Mailing.message -> Nat] /\ outbox \in [Mailing.message -> MailRow]
      /\ \A x \in Mailing.message : outbox[x].status = "delivered" => sent[x] > 0
  BY DEF MailInv, MailTypes, MailMessage
<1>4. /\ outbox' \in [Mailing.message -> MailRow]
      /\ \A x \in Mailing.message : /\ outbox'[x].attempts = outbox[x].attempts
                                    /\ outbox'[x].status = "delivered" => sent[x] > 0
  <2>1. CASE outbox' = outbox
    BY <1>3, <2>1
  <2>2. CASE Mail!CompleteNotificationJob(w) /\ outbox' # outbox
    <3> PICK j : j = Mail!Rows!Ended(outbox[m], "delivered")
      OBVIOUS
    <3>1. outbox' = [outbox EXCEPT ![m] = j]
      BY <2>2 DEF Mail!CompleteNotificationJob
    <3>2. m \in Mailing.message /\ sent[m] > 0
      BY <2>2 DEF Mail!CompleteNotificationJob, Mail!Confirmed, MailInv, MailWorker
    <3>3. j \in MailRow /\ j.attempts = outbox[m].attempts
      BY <1>3, <3>2, MailRows
    <3> QED
      BY <1>3, <3>1, <3>2, <3>3
  <2>3. CASE Mail!FailNotificationJob(w) /\ outbox' # outbox
    <3> PICK j : j = Mail!Rows!GivenBack(outbox[m])
      OBVIOUS
    <3>1. outbox' = [outbox EXCEPT ![m] = j]
      BY <2>3 DEF Mail!FailNotificationJob
    <3>2. m \in Mailing.message
      BY <2>3 DEF Mail!FailNotificationJob, MailInv, MailWorker
    <3>3. j \in MailRow /\ j.attempts = outbox[m].attempts /\ j.status # "delivered"
      BY <1>3, <3>2, MailRows
    <3> QED
      BY <1>3, <3>1, <3>2, <3>3
  <2> QED
    BY <2>1, <2>2, <2>3 DEF Mail!WorkerDies
<1>5. \A x \in Mailing.message : sent'[x] >= sent[x]
  BY <1>2, <1>3
<1> QED
  BY <1>1, <1>2, <1>3, <1>4, <1>5, MailMoves

\* A claim is an attempt, and may send the message once more.
LEMMA MailClaims ==
  ASSUME MailInv, NEW w \in Mailing.sender, Mail!ClaimNotificationJob(w) PROVE MailInv'
<1> PICK R : R = [m \in Mailing.message |-> Mail!Rows!Recovered(outbox[m])]
  OBVIOUS
<1>1. /\ sent' = sent /\ sender[w] = Mail!Off
      /\ \/ outbox' = R /\ UNCHANGED sender
         \/ \E m \in Mailing.message :
              /\ Mail!Rows!Claimable(R[m])
              /\ outbox' = [R EXCEPT ![m] = Mail!Rows!Claimed(R[m])]
              /\ sender' = [sender EXCEPT ![w] =
                   [message |-> m, attempt |-> R[m].attempts + 1, phase |-> "sending"]]
  BY DEF Mail!ClaimNotificationJob, Mail!Recover
<1>2. /\ R \in [Mailing.message -> MailRow]
      /\ \A m \in Mailing.message :
            /\ R[m].attempts = outbox[m].attempts
            /\ R[m].status = "delivered" => outbox[m].status = "delivered"
  BY MailRows DEF MailInv, MailTypes
<1>3. CASE outbox' = R /\ UNCHANGED sender
  BY <1>1, <1>2, <1>3, MailTurns
<1>4. ASSUME NEW m \in Mailing.message, Mail!Rows!Claimable(R[m]),
             outbox' = [R EXCEPT ![m] = Mail!Rows!Claimed(R[m])],
             sender' = [sender EXCEPT ![w] =
                   [message |-> m, attempt |-> R[m].attempts + 1, phase |-> "sending"]]
      PROVE  MailInv'
  <2>1. R[m] \in MailRow /\ R[m].attempts \in Nat
    BY <1>2, MailRows
  <2>2. PICK r : r = [message |-> m, attempt |-> R[m].attempts + 1, phase |-> "sending"]
    OBVIOUS
  <2>3. r \in SenderRow /\ r.message = m /\ r.phase = "sending"
    BY <2>1, <2>2 DEF SenderRow
  <2>4. sender' = [sender EXCEPT ![w] = r] /\ sender \in [Mailing.sender -> SenderRow]
        /\ sent \in [Mailing.message -> Nat]
    BY <1>4, <2>2 DEF MailInv, MailTypes
  <2>5. PICK j : j = Mail!Rows!Claimed(R[m])
    OBVIOUS
  <2>6. j \in MailRow /\ j.attempts = outbox[m].attempts + 1 /\ j.status = "processing"
    <3>1. j \in MailRow /\ j.attempts = R[m].attempts + 1 /\ j.status = "processing"
      BY <1>4, <2>1, <2>5, MailRows
    <3> QED
      BY <1>2, <3>1
  <2>7. outbox' = [R EXCEPT ![m] = j]
    BY <1>4, <2>5
  <2>8. MailTypes'
    BY <1>1, <1>2, <2>3, <2>4, <2>6, <2>7 DEF MailTypes
  <2>9. ASSUME NEW x \in Mailing.message PROVE MailMessage(x)'
    <3>1. MailMessage(x) /\ IsFiniteSet(Sending(x)) /\ sent[x] \in Nat /\ outbox[x].attempts \in Nat
      BY MailRows DEF MailInv, MailTypes, MailMessage
    <3>2. CASE x = m
      <4>1. w \notin Sending(m) /\ Sending(m)' = Sending(m) \cup {w}
        BY <1>1, <2>3, <2>4 DEF Sending, Mail!Off
      <4>2. IsFiniteSet(Sending(m)) /\ Cardinality(Sending(m)) \in Nat
        BY <3>1, <3>2, FS_CardinalityType
      <4>3. IsFiniteSet(Sending(m) \cup {w}) /\ Cardinality(Sending(m) \cup {w}) = Cardinality(Sending(m)) + 1
        BY <4>1, <4>2, FS_AddElement
      <4>4. outbox'[m] = j
        BY <1>2, <2>7
      <4>5. sent'[m] + Cardinality(Sending(m) \cup {w}) <= outbox'[m].attempts
        BY <1>1, <2>6, <3>1, <3>2, <4>2, <4>3, <4>4 DEF MailMessage
      <4> QED
        BY <2>6, <3>2, <4>1, <4>3, <4>4, <4>5 DEF MailMessage
    <3>3. CASE x # m
      <4>1. Sending(x)' = Sending(x)
        BY <1>1, <2>3, <2>4, <3>3 DEF Sending, Mail!Off
      <4>2. outbox'[x] = R[x]
        BY <1>2, <2>7, <3>3
      <4> QED
        BY <1>1, <1>2, <3>1, <4>1, <4>2 DEF MailMessage
    <3> QED
      BY <3>2, <3>3
  <2>10. \A u \in Mailing.sender : MailWorker(u)'
    BY <1>1, <2>3, <2>4 DEF MailInv, MailWorker
  <2> QED
    BY <2>8, <2>9, <2>10 DEF MailInv
<1> QED
  BY <1>1, <1>3, <1>4

\* Every step of the component preserves the invariant.
LEMMA MailStep == MailInv /\ Mail!Next => MailInv'
BY MailQueues, MailClaims, MailSends, MailEnds DEF Mail!Next

\* So does a step of another one.
LEMMA MailRests == MailInv /\ UNCHANGED mailVars => MailInv'
BY DEF mailVars, MailInv, MailTypes, MailMessage, MailWorker, Sending

\* The invariant always holds.
LEMMA MailInvariant == SuiteSpec => []MailInv
<1>1. SuiteInit => MailInv
  BY MailInit DEF SuiteInit
<1>2. MailInv /\ [SuiteNext]_suiteVars => MailInv'
  BY MailStep, MailRests DEF SuiteNext, suiteVars
<1> QED
  BY <1>1, <1>2, PTL DEF SuiteSpec

\* The invariant is what the run checks of messages, and more.
LEMMA MailSafe == MailInv => Mail!TypeOK /\ Mail!DeliveredWasSent /\ Mail!SendsAreAttempts
<1> SUFFICES ASSUME MailInv PROVE Mail!TypeOK /\ Mail!DeliveredWasSent /\ Mail!SendsAreAttempts
  OBVIOUS
<1>1. \A m \in Mailing.message :
        /\ sent[m] \in Nat /\ outbox[m].attempts \in Nat /\ outbox[m].attempts <= Mailing.attempts
        /\ Cardinality(Sending(m)) \in Nat /\ sent[m] + Cardinality(Sending(m)) <= outbox[m].attempts
        /\ Sending(m) # {} => Cardinality(Sending(m)) # 0
  BY MailRows, FS_CardinalityType, FS_EmptySet DEF MailInv, MailTypes, MailMessage
<1>2. Mail!TypeOK
  <2>1. \A m \in Mailing.message : sent[m] \in 0..Mailing.attempts
    BY <1>1, MailConstants
  <2> QED
    BY <2>1 DEF MailInv, MailTypes, MailRow, SenderRow, Mail!TypeOK
<1>3. Mail!DeliveredWasSent
  BY DEF MailInv, MailMessage, Mail!DeliveredWasSent
<1>4. Mail!SendsAreAttempts
  <2> SUFFICES ASSUME NEW m \in Mailing.message
               PROVE  sent[m] + (IF \E w \in Mailing.sender :
                                      /\ sender[w].message = m /\ sender[w].phase = "sending"
                                      /\ sender[w].attempt = outbox[m].attempts
                                 THEN 1 ELSE 0) <= outbox[m].attempts
    BY DEF Mail!SendsAreAttempts
  <2>1. CASE Sending(m) # {}
    BY <1>1, <2>1
  <2>2. CASE Sending(m) = {}
    <3>1. sent[m] <= outbox[m].attempts
      BY <1>1
    <3>2. ~\E w \in Mailing.sender : sender[w].message = m /\ sender[w].phase = "sending"
      BY <2>2 DEF Sending
    <3> QED
      BY <1>1, <3>1, <3>2
  <2> QED
    BY <2>1, <2>2
<1> QED
  BY <1>2, <1>3, <1>4

\* What was delivered stays so.
LEMMA MailStays == MailInv /\ [Mail!Next]_mailVars =>
    (\A m \in Mailing.message : outbox[m].status = "delivered" => outbox'[m] = outbox[m])
<1> SUFFICES ASSUME MailInv, [Mail!Next]_mailVars, NEW m \in Mailing.message, outbox[m].status = "delivered"
             PROVE  outbox'[m] = outbox[m]
  OBVIOUS
<1> USE DEF MailInv, MailTypes
<1>1. ASSUME NEW x \in Mailing.message, Mail!Enqueue(x) \/ Mail!LeaseLapses(x) PROVE outbox'[m] = outbox[m]
  BY <1>1 DEF Mail!Enqueue, Mail!LeaseLapses, Mail!Rows!NoJob
<1>2. ASSUME NEW w \in Mailing.sender, Mail!ClaimNotificationJob(w) PROVE outbox'[m] = outbox[m]
  <2> PICK R : R = [x \in Mailing.message |-> Mail!Rows!Recovered(outbox[x])]
    OBVIOUS
  <2>1. R[m] = outbox[m] /\ R \in [Mailing.message -> MailRow]
    BY MailRows
  <2>2. \/ outbox' = R
        \/ \E x \in Mailing.message :
             Mail!Rows!Claimable(R[x]) /\ outbox' = [R EXCEPT ![x] = Mail!Rows!Claimed(R[x])]
    BY <1>2 DEF Mail!ClaimNotificationJob, Mail!Recover
  <2>3. ASSUME NEW x \in Mailing.message, Mail!Rows!Claimable(R[x]),
               outbox' = [R EXCEPT ![x] = Mail!Rows!Claimed(R[x])]
        PROVE  outbox'[m] = outbox[m]
    <3>1. R[x].status = "queued"
      BY <2>1, <2>3, MailRows
    <3>2. x # m
      BY <2>1, <3>1
    <3> QED
      BY <2>1, <2>3, <3>2
  <2> QED
    BY <2>1, <2>2, <2>3
<1>3. ASSUME NEW w \in Mailing.sender, Mail!Send(w) \/ Mail!WorkerDies(w) PROVE outbox'[m] = outbox[m]
  BY <1>3 DEF Mail!Send, Mail!WorkerDies
<1>4. ASSUME NEW w \in Mailing.sender, Mail!CompleteNotificationJob(w) \/ Mail!FailNotificationJob(w)
      PROVE  outbox'[m] = outbox[m]
  BY <1>4 DEF Mail!CompleteNotificationJob, Mail!FailNotificationJob, Mail!Rows!Holds
<1>5. CASE UNCHANGED mailVars
  BY <1>5 DEF mailVars
<1> QED
  BY <1>1, <1>2, <1>3, <1>4, <1>5 DEF Mail!Next

-----------------------------------------------------------------------------
(* Storage quota. Sums are numbers of bytes: sets, and how they grow. *)

\* The instance counts sets as everything else does.
LEMMA QuotaCounts == ASSUME NEW S PROVE Quota!Cardinality(S) = Cardinality(S)
BY DEF Quota!Cardinality, Cardinality

\* Which bytes there are.
LEMMA BytesAre ==
  ASSUME NEW V, NEW f, NEW p
  PROVE  p \in Quota!Bytes(V, f) <=> \E v \in V : \E b \in 1..f[v] : p = <<v, b>>
BY DEF Quota!Bytes

\* More versions with more bytes each are more bytes.
LEMMA BytesGrow ==
  ASSUME NEW V, NEW W, V \subseteq W, NEW f, NEW g,
         \A v \in V : f[v] \in Nat /\ g[v] \in Nat /\ f[v] <= g[v],
         IsFiniteSet(Quota!Bytes(W, g))
  PROVE  /\ IsFiniteSet(Quota!Bytes(V, f))
         /\ Cardinality(Quota!Bytes(V, f)) <= Cardinality(Quota!Bytes(W, g))
<1>1. ASSUME NEW p \in Quota!Bytes(V, f) PROVE p \in Quota!Bytes(W, g)
  <2>1. PICK v \in V : \E b \in 1..f[v] : p = <<v, b>>
    BY BytesAre
  <2>2. PICK b \in 1..f[v] : p = <<v, b>>
    BY <2>1
  <2>3. v \in W /\ b \in 1..g[v]
    BY <2>2
  <2> QED
    BY <2>2, <2>3, BytesAre
<1>2. Quota!Bytes(V, f) \in SUBSET Quota!Bytes(W, g)
  BY <1>1
<1> QED
  BY <1>2, FS_Subset

\* One version with n bytes adds no more than n.
LEMMA BytesAdd ==
  ASSUME NEW V, NEW v, NEW f, NEW g, g[v] \in Nat, \A u \in V \ {v} : g[u] = f[u],
         IsFiniteSet(Quota!Bytes(V, f))
  PROVE  /\ IsFiniteSet(Quota!Bytes(V \cup {v}, g))
         /\ Cardinality(Quota!Bytes(V \cup {v}, g)) <= Cardinality(Quota!Bytes(V, f)) + g[v]
<1> DEFINE One == {v} \X (1..g[v])
           All == Quota!Bytes(V, f) \cup One
<1>1. IsFiniteSet(1..g[v]) /\ Cardinality(1..g[v]) = g[v]
  BY FS_Interval
<1>2. IsFiniteSet({v}) /\ Cardinality({v}) = 1
  BY FS_Singleton
<1>3. IsFiniteSet(One) /\ Cardinality(One) = g[v]
  <2>1. IsFiniteSet(One) /\ Cardinality(One) = Cardinality({v}) * Cardinality(1..g[v])
    BY <1>1, <1>2, FS_Product
  <2>2. 1 * g[v] = g[v]
    OBVIOUS
  <2> QED
    BY <1>1, <1>2, <2>1, <2>2
<1>4. IsFiniteSet(All) /\ Cardinality(All) = Cardinality(Quota!Bytes(V, f)) + Cardinality(One)
                                             - Cardinality(Quota!Bytes(V, f) \cap One)
  <2> HIDE DEF One
  <2> QED
    BY <1>3, FS_Union
<1>5. IsFiniteSet(Quota!Bytes(V, f) \cap One)
  <2>1. (Quota!Bytes(V, f) \cap One) \in SUBSET One
    OBVIOUS
  <2> QED
    BY <1>3, <2>1, FS_Subset
<1>6. Cardinality(Quota!Bytes(V, f) \cap One) \in Nat /\ Cardinality(Quota!Bytes(V, f)) \in Nat
  BY <1>5, FS_CardinalityType
<1>7. ASSUME NEW p \in Quota!Bytes(V \cup {v}, g) PROVE p \in All
  <2>1. PICK u \in V \cup {v} : \E b \in 1..g[u] : p = <<u, b>>
    BY BytesAre
  <2>2. CASE u = v
    BY <2>1, <2>2
  <2>3. CASE u # v
    <3>1. u \in V /\ \E b \in 1..f[u] : p = <<u, b>>
      BY <2>1, <2>3
    <3> QED
      BY <3>1, BytesAre
  <2> QED
    BY <2>2, <2>3
<1>8. Quota!Bytes(V \cup {v}, g) \in SUBSET All
  BY <1>7
<1>9. /\ IsFiniteSet(Quota!Bytes(V \cup {v}, g))
      /\ Cardinality(Quota!Bytes(V \cup {v}, g)) <= Cardinality(All)
  BY <1>4, <1>8, FS_Subset
<1> HIDE DEF One, All
<1>10. Cardinality(Quota!Bytes(V \cup {v}, g)) \in Nat /\ Cardinality(All) \in Nat
  BY <1>4, <1>9, FS_CardinalityType
<1> QED
  BY <1>3, <1>4, <1>6, <1>9, <1>10

\* The bytes of versions apart add up.
LEMMA BytesSplit ==
  ASSUME NEW V, NEW A, NEW B, V = A \cup B, A \cap B = {}, NEW f, IsFiniteSet(Quota!Bytes(V, f))
  PROVE  /\ Cardinality(Quota!Bytes(A, f)) + Cardinality(Quota!Bytes(B, f)) = Cardinality(Quota!Bytes(V, f))
         /\ Cardinality(Quota!Bytes(A, f)) \in Nat /\ Cardinality(Quota!Bytes(B, f)) \in Nat
<1>1. Quota!Bytes(V, f) = Quota!Bytes(A, f) \cup Quota!Bytes(B, f)
  BY DEF Quota!Bytes
<1>2. Quota!Bytes(A, f) \cap Quota!Bytes(B, f) = {}
  <2> SUFFICES ASSUME NEW p, p \in Quota!Bytes(A, f), p \in Quota!Bytes(B, f) PROVE FALSE
    OBVIOUS
  <2>1. PICK u \in A : \E b \in 1..f[u] : p = <<u, b>>
    BY BytesAre
  <2>2. PICK w \in B : \E c \in 1..f[w] : p = <<w, c>>
    BY BytesAre
  <2> QED
    BY <2>1, <2>2
<1>3. IsFiniteSet(Quota!Bytes(A, f)) /\ IsFiniteSet(Quota!Bytes(B, f))
  BY <1>1, FS_Subset
<1>4. Cardinality(Quota!Bytes(A, f)) \in Nat /\ Cardinality(Quota!Bytes(B, f)) \in Nat
  BY <1>3, FS_CardinalityType
<1>5. Cardinality(Quota!Bytes(V, f)) = Cardinality(Quota!Bytes(A, f)) + Cardinality(Quota!Bytes(B, f))
                                       - Cardinality(Quota!Bytes(A, f) \cap Quota!Bytes(B, f))
  BY <1>1, <1>3, FS_Union
<1>6. Cardinality(Quota!Bytes(A, f) \cap Quota!Bytes(B, f)) = 0
  BY <1>2, FS_EmptySet
<1> QED
  BY <1>4, <1>5, <1>6

\* What a reservation has read.
CallRow == [version : Charging.version \cup {Absent}, bytes : Nat, used : Int]

Waiting == {"initiated", "completing"}

\* The columns of every row, and what a reservation has read.
QuotaTypes ==
    /\ charged \in [Charging.version -> {"none", "pending", "quarantined", "ready",
                                         "failed", "deleting", "deleted"}]
    /\ reserved \in [Charging.version -> {"none", "initiated", "completing", "completed",
                                          "failed", "aborted", "expired"}]
    /\ expected \in [Charging.version -> Charging.size \cup {0}]
    /\ received \in [Charging.version -> Charging.received \cup Charging.size \cup {0}]
    /\ bytes \in [Charging.version -> Nat]
    /\ account \in Charging.client \cup {Absent}
    /\ call \in [Charging.client -> CallRow]

\* An upload not yet over has only its reservation to be charged for.
QuotaVersion(v) ==
    /\ bytes[v] \in {0, expected[v]}
    /\ reserved[v] \in Waiting <=> charged[v] = "pending"
    /\ charged[v] \in {"none", "pending"} => bytes[v] = 0 /\ received[v] = 0

\* Whoever reserves holds the account, and nothing was charged since it read.
QuotaCall(c) ==
    /\ call[c].version # Absent => account = c /\ charged[call[c].version] = "none"
                                   /\ call[c].bytes \in Charging.size
    /\ call[c].version = Absent => call[c] = Quota!Off
    /\ call[c].used # -1 => Cardinality(Quota!Bytes(Quota!Charged, Quota!Charge)) <= call[c].used

QuotaInv ==
    /\ QuotaTypes
    /\ \A v \in Charging.version : QuotaVersion(v)
    /\ \A c \in Charging.client : QuotaCall(c)
    /\ IsFiniteSet(Quota!Bytes(Quota!Charged, Quota!Charge))
    /\ Cardinality(Quota!Bytes(Quota!Charged, expected)) <= Charging.quota

\* What the account assumes of its constants.
LEMMA QuotaConstants ==
    /\ Charging.quota \in Nat /\ Charging.size \subseteq Nat /\ Charging.received \subseteq Nat
    /\ Absent \notin Charging.version /\ Absent \notin Charging.client
BY StoreAssumption DEF Quota!QuotaAssumption

\* A version is charged for at least its reservation, and the charges are
\* numbers of bytes.
LEMMA QuotaCharges ==
  ASSUME QuotaTypes, NEW v \in Charging.version
  PROVE  /\ expected[v] \in Nat /\ received[v] \in Nat /\ bytes[v] \in Nat
         /\ Quota!Charge[v] \in Nat /\ expected[v] <= Quota!Charge[v]
         /\ received[v] <= Quota!Charge[v] /\ bytes[v] <= Quota!Charge[v]
         /\ Quota!Charge[v] \in {expected[v], received[v], bytes[v]}
<1>1. expected[v] \in Nat /\ received[v] \in Nat /\ bytes[v] \in Nat
  BY QuotaConstants DEF QuotaTypes
<1>2. Quota!Charge[v] = Quota!ChargedVersionBytes(v)
  BY DEF Quota!Charge
<1> QED
  BY <1>1, <1>2 DEF Quota!ChargedVersionBytes, Quota!Greatest

\* The two sums together are what is charged.
LEMMA QuotaSum ==
  ASSUME QuotaInv
  PROVE  /\ Quota!Committed + Quota!Reserved = Cardinality(Quota!Bytes(Quota!Charged, Quota!Charge))
         /\ Cardinality(Quota!Bytes(Quota!Charged, Quota!Charge)) \in Nat
<1> DEFINE A == {v \in Quota!Charged : ~Quota!ActiveReservation(v)}
           B == {v \in Quota!Charged : Quota!ActiveReservation(v)}
<1>1. Quota!Charged = A \cup B /\ A \cap B = {}
  OBVIOUS
<1>2. Quota!Committed = Cardinality(Quota!Bytes(A, Quota!Charge))
      /\ Quota!Reserved = Cardinality(Quota!Bytes(B, Quota!Charge))
  BY QuotaCounts DEF Quota!Committed, Quota!Reserved
<1> HIDE DEF A, B
<1> QED
  BY <1>1, <1>2, BytesSplit, FS_CardinalityType DEF QuotaInv

\* Before anything is reserved the invariant holds.
LEMMA QuotaInit == Quota!Init => QuotaInv
<1> SUFFICES ASSUME Quota!Init PROVE QuotaInv
  OBVIOUS
<1> USE QuotaConstants DEF Quota!Init
<1>1. Quota!Off \in CallRow /\ Quota!Off.version = Absent /\ Quota!Off.used = -1
  BY DEF CallRow, Quota!Off
<1>2. QuotaTypes
  BY <1>1 DEF QuotaTypes
<1>3. \A v \in Charging.version : QuotaVersion(v)
  BY DEF QuotaVersion, Waiting
<1>4. \A c \in Charging.client : QuotaCall(c)
  BY <1>1 DEF QuotaCall
<1>5. Quota!Charged = {}
  BY DEF Quota!Charged
<1>6. Quota!Bytes(Quota!Charged, Quota!Charge) = {} /\ Quota!Bytes(Quota!Charged, expected) = {}
  BY <1>5 DEF Quota!Bytes
<1> QED
  BY <1>2, <1>3, <1>4, <1>6, FS_EmptySet DEF QuotaInv

\* A reservation that locks, reads or leaves changes no charge.
LEMMA QuotaReads ==
  ASSUME QuotaInv, UNCHANGED <<charged, reserved, expected, received, bytes>>,
         account' \in Charging.client \cup {Absent}, call' \in [Charging.client -> CallRow],
         \A c \in Charging.client : QuotaCall(c)'
  PROVE  QuotaInv'
<1>1. Quota!Charged' = Quota!Charged /\ Quota!Charge' = Quota!Charge
  BY DEF Quota!Charged, Quota!Charge, Quota!ChargedVersionBytes
<1>2. QuotaTypes' /\ \A v \in Charging.version : QuotaVersion(v)'
  BY DEF QuotaInv, QuotaTypes, QuotaVersion
<1> QED
  BY <1>1, <1>2 DEF QuotaInv, Quota!Bytes

\* Taking the account's row, reading under it and rolling back.
LEMMA QuotaLocks ==
  ASSUME QuotaInv, NEW c \in Charging.client,
         Quota!LockAccount(c) \/ Quota!AccountStorageUsage(c) \/ Quota!RollBack(c)
  PROVE  QuotaInv'
<1> USE QuotaConstants
<1>0. QuotaTypes /\ call \in [Charging.client -> CallRow] /\ QuotaCall(c) /\ call[c] \in CallRow
  BY DEF QuotaInv, QuotaTypes
<1>1. UNCHANGED <<charged, reserved, expected, received, bytes>>
  BY DEF Quota!LockAccount, Quota!AccountStorageUsage, Quota!RollBack, Quota!rows
<1>2. Quota!Charged' = Quota!Charged /\ Quota!Charge' = Quota!Charge
  BY <1>1 DEF Quota!Charged, Quota!Charge, Quota!ChargedVersionBytes
<1>3. Quota!Off \in CallRow /\ Quota!Off.version = Absent /\ Quota!Off.used = -1
  BY DEF CallRow, Quota!Off
<1>4. CASE Quota!LockAccount(c)
  <2>1. PICK v \in Charging.version, n \in Charging.size :
           charged[v] = "none" /\ call' = [call EXCEPT ![c] = [version |-> v, bytes |-> n, used |-> -1]]
    BY <1>4 DEF Quota!LockAccount
  <2>2. PICK r : r = [version |-> v, bytes |-> n, used |-> -1]
    OBVIOUS
  <2>3. r \in CallRow /\ r.version = v /\ r.bytes = n /\ r.used = -1
    BY <2>2 DEF CallRow
  <2>4. account = Absent /\ account' = c
    BY <1>4 DEF Quota!LockAccount, Quota!AccountFree
  <2>5. \A d \in Charging.client : call[d].version = Absent /\ call[d].used = -1
    BY <1>3, <2>4 DEF QuotaInv, QuotaCall
  <2>6. \A d \in Charging.client : QuotaCall(d)'
    <3>1. call'[c] = r /\ \A d \in Charging.client \ {c} : call'[d] = call[d]
      BY <1>0, <2>1, <2>2
    <3>2. QuotaCall(c)'
      BY <1>1, <2>1, <2>3, <2>4, <3>1 DEF QuotaCall
    <3>3. \A d \in Charging.client \ {c} : QuotaCall(d)'
      BY <2>5, <3>1 DEF QuotaInv, QuotaCall, Quota!Off
    <3> QED
      BY <3>2, <3>3
  <2>7. call' \in [Charging.client -> CallRow]
    BY <1>0, <2>1, <2>2, <2>3
  <2> QED
    BY <1>1, <2>4, <2>6, <2>7, QuotaReads
<1>5. CASE Quota!AccountStorageUsage(c)
  <2> PICK t : t = Quota!Committed + Quota!Reserved
    OBVIOUS
  <2>1. t \in Nat /\ t = Cardinality(Quota!Bytes(Quota!Charged, Quota!Charge))
    BY QuotaSum
  <2>2. PICK r : r = [version |-> call[c].version, bytes |-> call[c].bytes, used |-> t]
    OBVIOUS
  <2>3. r \in CallRow /\ r.version = call[c].version /\ r.bytes = call[c].bytes /\ r.used = t
    BY <1>0, <2>1, <2>2 DEF CallRow
  <2>4. call' = [call EXCEPT ![c] = r] /\ account' = account /\ call[c] # Quota!Off
    BY <1>5, <2>2 DEF Quota!AccountStorageUsage
  <2>5. call'[c] = r /\ \A d \in Charging.client \ {c} : call'[d] = call[d]
    BY <1>0, <2>4
  <2>6. QuotaCall(c)'
    <3>1. call[c].version # Absent
      BY <1>0, <2>4 DEF QuotaCall
    <3>2. t <= t
      BY <2>1
    <3> QED
      BY <1>0, <1>1, <1>2, <2>1, <2>3, <2>4, <2>5, <3>1, <3>2 DEF QuotaCall, Quota!Bytes
  <2>7. \A d \in Charging.client \ {c} : QuotaCall(d)'
    BY <1>1, <1>2, <2>4, <2>5 DEF QuotaInv, QuotaCall, Quota!Bytes, Quota!Off
  <2>8. call' \in [Charging.client -> CallRow] /\ account' \in Charging.client \cup {Absent}
    BY <1>0, <2>3, <2>4 DEF QuotaTypes
  <2> QED
    BY <1>1, <2>6, <2>7, <2>8, QuotaReads
<1>6. CASE Quota!RollBack(c)
  <2>1. call[c] # Quota!Off /\ call' = [call EXCEPT ![c] = Quota!Off] /\ account' = Absent
    BY <1>6 DEF Quota!RollBack, Quota!Leave
  <2>2. account = c
    BY <1>0, <2>1 DEF QuotaCall
  <2>3. call'[c] = Quota!Off /\ \A d \in Charging.client \ {c} : call'[d] = call[d] /\ call[d] = Quota!Off
    BY <1>0, <2>1, <2>2 DEF QuotaInv, QuotaCall
  <2>4. \A d \in Charging.client : QuotaCall(d)'
    BY <1>3, <2>3 DEF QuotaCall, Quota!Off
  <2>5. call' \in [Charging.client -> CallRow]
    BY <1>0, <1>3, <2>1
  <2> QED
    BY <1>1, <2>1, <2>4, <2>5, QuotaReads
<1> QED
  BY <1>4, <1>5, <1>6

\* What a version's step must keep: its own row, and that no charge grows
\* under a reservation.
LEMMA QuotaKeeps ==
  ASSUME QuotaInv, NEW v \in Charging.version, UNCHANGED <<account, call, expected>>,
         QuotaTypes', QuotaVersion(v)', charged[v] # "none",
         \A u \in Charging.version \ {v} : /\ charged'[u] = charged[u] /\ reserved'[u] = reserved[u]
                                           /\ bytes'[u] = bytes[u] /\ received'[u] = received[u],
         Quota!Charged' \subseteq Quota!Charged,
         IsFiniteSet(Quota!Bytes(Quota!Charged', Quota!Charge')),
         \/ account = Absent
         \/ Cardinality(Quota!Bytes(Quota!Charged', Quota!Charge'))
              <= Cardinality(Quota!Bytes(Quota!Charged, Quota!Charge))
  PROVE  QuotaInv'
<1> USE QuotaConstants
<1>1. \A u \in Charging.version : QuotaVersion(u)'
  BY DEF QuotaInv, QuotaVersion
<1>2. Cardinality(Quota!Bytes(Quota!Charged', Quota!Charge')) \in Nat
      /\ Cardinality(Quota!Bytes(Quota!Charged, Quota!Charge)) \in Nat
  BY FS_CardinalityType DEF QuotaInv
<1>3. \A c \in Charging.client : QuotaCall(c)'
  <2> SUFFICES ASSUME NEW c \in Charging.client PROVE QuotaCall(c)'
    OBVIOUS
  <2>1. QuotaCall(c) /\ call[c].used \in Int
    BY DEF QuotaInv, QuotaTypes, CallRow
  <2>2. Quota!Bytes(Quota!Charged, Quota!Charge)' = Quota!Bytes(Quota!Charged', Quota!Charge')
    BY DEF Quota!Bytes
  <2>3. call[c].version # Absent => charged'[call[c].version] = "none"
    <3>1. call[c].version \in Charging.version \cup {Absent}
      BY DEF QuotaInv, QuotaTypes, CallRow
    <3> QED
      BY <2>1, <3>1 DEF QuotaCall
  <2>4. call[c].used # -1 => Cardinality(Quota!Bytes(Quota!Charged', Quota!Charge')) <= call[c].used
    <3>1. CASE account = Absent
      BY <2>1, <3>1 DEF QuotaCall, Quota!Off
    <3>2. CASE Cardinality(Quota!Bytes(Quota!Charged', Quota!Charge'))
                 <= Cardinality(Quota!Bytes(Quota!Charged, Quota!Charge))
      BY <1>2, <2>1, <3>2 DEF QuotaCall
    <3> QED
      BY <3>1, <3>2
  <2> QED
    BY <2>1, <2>2, <2>3, <2>4 DEF QuotaCall, Quota!Off
<1>4. /\ IsFiniteSet(Quota!Bytes(Quota!Charged', expected))
      /\ Cardinality(Quota!Bytes(Quota!Charged', expected)) <= Cardinality(Quota!Bytes(Quota!Charged, expected))
      /\ IsFiniteSet(Quota!Bytes(Quota!Charged, expected))
  <2>1. \A u \in Quota!Charged : /\ expected[u] \in Nat /\ Quota!Charge[u] \in Nat
                                 /\ expected[u] <= Quota!Charge[u]
    BY QuotaCharges DEF QuotaInv, Quota!Charged
  <2>2. IsFiniteSet(Quota!Bytes(Quota!Charged, expected))
    BY <2>1, BytesGrow DEF QuotaInv
  <2>3. \A u \in Quota!Charged' : expected[u] \in Nat /\ expected[u] <= expected[u]
    BY <2>1
  <2> QED
    BY <2>2, <2>3, BytesGrow
<1>5. Cardinality(Quota!Bytes(Quota!Charged', expected)) <= Charging.quota
  <2>1. Cardinality(Quota!Bytes(Quota!Charged, expected)) <= Charging.quota
    BY DEF QuotaInv
  <2>2. Cardinality(Quota!Bytes(Quota!Charged', expected)) \in Nat
        /\ Cardinality(Quota!Bytes(Quota!Charged, expected)) \in Nat
    BY <1>4, FS_CardinalityType
  <2> QED
    BY <1>4, <2>1, <2>2
<1>6. /\ Quota!Bytes(Quota!Charged, Quota!Charge)' = Quota!Bytes(Quota!Charged', Quota!Charge')
      /\ Quota!Bytes(Quota!Charged, expected)' = Quota!Bytes(Quota!Charged', expected)
  BY DEF Quota!Bytes
<1> QED
  BY <1>1, <1>3, <1>5, <1>6 DEF QuotaInv

\* A step that leaves what every version is charged, or ends the charge of one.
LEMMA QuotaFrees ==
  ASSUME QuotaInv, NEW v \in Charging.version, UNCHANGED <<account, call, expected, received, bytes>>,
         QuotaTypes', QuotaVersion(v)', charged[v] # "none", charged'[v] # "none",
         charged[v] = "deleted" => charged'[v] = "deleted",
         \A u \in Charging.version \ {v} : charged'[u] = charged[u] /\ reserved'[u] = reserved[u]
  PROVE  QuotaInv' /\ Quota!Charge' = Quota!Charge
<1>1. Quota!Charge' = Quota!Charge
  BY DEF Quota!Charge, Quota!ChargedVersionBytes
<1>2. Quota!Charged' \subseteq Quota!Charged
  BY DEF Quota!Charged
<1>3. \A u \in Quota!Charged : Quota!Charge[u] \in Nat /\ Quota!Charge[u] <= Quota!Charge[u]
  BY QuotaCharges DEF QuotaInv, Quota!Charged
<1>4. /\ IsFiniteSet(Quota!Bytes(Quota!Charged', Quota!Charge))
      /\ Cardinality(Quota!Bytes(Quota!Charged', Quota!Charge))
           <= Cardinality(Quota!Bytes(Quota!Charged, Quota!Charge))
  BY <1>2, <1>3, BytesGrow DEF QuotaInv
<1> QED
  BY <1>1, <1>2, <1>4, QuotaKeeps

\* Queueing a completion, giving an upload up, publishing and purging.
LEMMA QuotaMoves ==
  ASSUME QuotaInv, NEW v \in Charging.version,
         \/ Quota!QueueUploadCompletion(v) \/ Quota!EndUpload(v) \/ Quota!CompleteMalwareScanJob(v)
         \/ Quota!ClaimBlobDeletionJob(v) \/ Quota!CompleteBlobDeletionJob(v)
  PROVE  QuotaInv' /\ Quota!Charge' = Quota!Charge
<1> USE DEF Quota!QueueUploadCompletion, Quota!EndUpload, Quota!CompleteMalwareScanJob,
            Quota!ClaimBlobDeletionJob, Quota!CompleteBlobDeletionJob, Quota!ActiveReservation
<1>1. QuotaTypes /\ QuotaVersion(v) /\ UNCHANGED <<account, call, expected, received, bytes>>
  BY DEF QuotaInv
<1>2. charged' \in [Charging.version -> {"none", "pending", "quarantined", "ready",
                                         "failed", "deleting", "deleted"}]
  BY <1>1 DEF QuotaTypes
<1>3. reserved' \in [Charging.version -> {"none", "initiated", "completing", "completed",
                                          "failed", "aborted", "expired"}]
  BY <1>1 DEF QuotaTypes
<1>4. QuotaTypes'
  BY <1>1, <1>2, <1>3 DEF QuotaTypes
<1>5. \A u \in Charging.version \ {v} : charged'[u] = charged[u] /\ reserved'[u] = reserved[u]
  BY <1>1 DEF QuotaTypes
<1>6. QuotaVersion(v)' /\ charged[v] # "none" /\ charged'[v] # "none"
      /\ (charged[v] = "deleted" => charged'[v] = "deleted")
  <2> USE <1>1 DEF QuotaTypes, QuotaVersion, Waiting
  <2>1. CASE Quota!QueueUploadCompletion(v)
    BY <2>1
  <2>2. CASE Quota!EndUpload(v)
    BY <2>2
  <2>3. CASE Quota!CompleteMalwareScanJob(v)
    BY <2>3
  <2>4. CASE Quota!ClaimBlobDeletionJob(v)
    BY <2>4
  <2>5. CASE Quota!CompleteBlobDeletionJob(v)
    BY <2>5
  <2> QED
    BY <2>1, <2>2, <2>3, <2>4, <2>5
<1> QED
  BY <1>1, <1>4, <1>5, <1>6, QuotaFrees

\* What arrived may be more than was announced: it is charged for, while
\* nobody reserves.
LEMMA QuotaCompletes ==
  ASSUME QuotaInv, NEW v \in Charging.version, Quota!CompleteUpload(v)
  PROVE  /\ QuotaInv' /\ v \in Quota!Charged /\ Quota!Charged' = Quota!Charged
         /\ \A u \in Charging.version : Quota!Charge[u] <= Quota!Charge'[u]
<1> USE QuotaConstants
<1>1. QuotaTypes /\ QuotaVersion(v) /\ UNCHANGED <<account, call, expected>> /\ account = Absent
  BY DEF QuotaInv, Quota!CompleteUpload
<1>2. PICK n \in Charging.received \cup {expected[v]} :
        /\ received' = [received EXCEPT ![v] = n]
        /\ \/ /\ n # expected[v] /\ reserved' = [reserved EXCEPT ![v] = "failed"]
              /\ charged' = [charged EXCEPT ![v] = "failed"] /\ bytes' = bytes
           \/ /\ n = expected[v] /\ reserved' = [reserved EXCEPT ![v] = "completed"]
              /\ bytes' = [bytes EXCEPT ![v] = n]
              /\ \E s \in {"ready", "quarantined"} : charged' = [charged EXCEPT ![v] = s]
  BY DEF Quota!CompleteUpload
<1>3. n \in Nat /\ expected[v] \in Charging.size \cup {0}
      /\ n \in Charging.received \cup Charging.size \cup {0}
  BY <1>1, <1>2 DEF QuotaTypes
<1>4. charged[v] = "pending" /\ bytes[v] = 0 /\ received[v] = 0
  BY <1>1 DEF Quota!CompleteUpload, Quota!ActiveReservation, QuotaVersion, Waiting
<1>5. received' \in [Charging.version -> Charging.received \cup Charging.size \cup {0}]
      /\ bytes' \in [Charging.version -> Nat]
  BY <1>1, <1>2, <1>3 DEF QuotaTypes
<1>6. charged' \in [Charging.version -> {"none", "pending", "quarantined", "ready",
                                         "failed", "deleting", "deleted"}]
      /\ reserved' \in [Charging.version -> {"none", "initiated", "completing", "completed",
                                             "failed", "aborted", "expired"}]
  BY <1>1, <1>2 DEF QuotaTypes
<1>7. QuotaTypes'
  BY <1>1, <1>5, <1>6 DEF QuotaTypes
<1>8. /\ \A u \in Charging.version \ {v} :
           /\ charged'[u] = charged[u] /\ reserved'[u] = reserved[u]
           /\ bytes'[u] = bytes[u] /\ received'[u] = received[u]
      /\ charged'[v] \in {"failed", "ready", "quarantined"} /\ reserved'[v] \in {"failed", "completed"}
      /\ bytes'[v] \in {0, expected[v]} /\ received'[v] = n
  BY <1>1, <1>2, <1>4 DEF QuotaTypes
<1>9. QuotaVersion(v)'
  BY <1>1, <1>8 DEF QuotaVersion, Waiting
<1>10. v \in Quota!Charged /\ Quota!Charged' = Quota!Charged
  <2>1. \A u \in Charging.version :
           charged'[u] \notin {"none", "deleted"} <=> charged[u] \notin {"none", "deleted"}
    BY <1>4, <1>8
  <2> QED
    BY <1>4, <2>1 DEF Quota!Charged
<1>11. \A u \in Charging.version \ {v} : Quota!Charge'[u] = Quota!Charge[u]
  BY <1>1, <1>8 DEF Quota!Charge, Quota!ChargedVersionBytes
<1>12. Quota!Charge[v] \in Nat /\ Quota!Charge[v] = expected[v] /\ Quota!Charge'[v] \in Nat
       /\ expected[v] <= Quota!Charge'[v]
  <2>1. Quota!Charge[v] = Quota!ChargedVersionBytes(v) /\ Quota!Charge'[v] = Quota!ChargedVersionBytes(v)'
    BY DEF Quota!Charge
  <2>2. expected[v] \in Nat /\ expected'[v] = expected[v]
    BY <1>1, <1>3
  <2> QED
    BY <1>3, <1>4, <1>8, <2>1, <2>2 DEF Quota!ChargedVersionBytes, Quota!Greatest
<1>13. IsFiniteSet(Quota!Bytes(Quota!Charged, Quota!Charge'))
  <2>1. Quota!Charged \cup {v} = Quota!Charged
    BY <1>10
  <2>2. \A u \in Quota!Charged \ {v} : Quota!Charge'[u] = Quota!Charge[u]
    BY <1>11 DEF Quota!Charged
  <2> QED
    BY <1>12, <2>1, <2>2, BytesAdd DEF QuotaInv
<1>14. QuotaInv'
  BY <1>1, <1>4, <1>7, <1>8, <1>9, <1>10, <1>13, QuotaKeeps
<1>15. \A u \in Charging.version : Quota!Charge[u] <= Quota!Charge'[u]
  <2>1. \A u \in Charging.version : Quota!Charge[u] \in Nat
    BY <1>1, QuotaCharges
  <2> QED
    BY <1>11, <1>12, <2>1
<1> QED
  BY <1>10, <1>14, <1>15

\* A reservation is admitted by what was charged when its transaction read it.
LEMMA QuotaReserves ==
  ASSUME QuotaInv, NEW c \in Charging.client, Quota!ReserveUpload(c)
  PROVE  /\ QuotaInv' /\ Quota!Charged \subseteq Quota!Charged'
         /\ \A u \in Quota!Charged : Quota!Charge'[u] = Quota!Charge[u]
<1> USE QuotaConstants
<1> PICK v : v = call[c].version
  OBVIOUS
<1> PICK n : n = call[c].bytes
  OBVIOUS
<1> PICK t : t = Cardinality(Quota!Bytes(Quota!Charged, Quota!Charge))
  OBVIOUS
<1>1. QuotaTypes /\ QuotaCall(c) /\ call[c] \in CallRow /\ call[c] # Quota!Off /\ call[c].used # -1
  BY DEF QuotaInv, QuotaTypes, Quota!ReserveUpload
<1>2. v \in Charging.version /\ n \in Charging.size /\ n \in Nat /\ charged[v] = "none" /\ account = c
      /\ t \in Nat /\ t <= call[c].used /\ call[c].used \in Int
  BY <1>1, QuotaSum DEF QuotaCall, CallRow
<1>3. call' = [call EXCEPT ![c] = Quota!Off] /\ account' = Absent
  BY DEF Quota!ReserveUpload, Quota!Leave
<1>4. Quota!Off \in CallRow /\ Quota!Off.version = Absent /\ Quota!Off.used = -1
  BY DEF CallRow, Quota!Off
<1>5. call'[c] = Quota!Off /\ \A d \in Charging.client \ {c} : call'[d] = call[d] /\ call[d] = Quota!Off
  BY <1>1, <1>2, <1>3 DEF QuotaInv, QuotaTypes, QuotaCall
<1>6. \A d \in Charging.client : QuotaCall(d)'
  BY <1>4, <1>5 DEF QuotaCall, Quota!Off
<1>7. call' \in [Charging.client -> CallRow]
  BY <1>1, <1>3, <1>4 DEF QuotaTypes
<1>8. CASE ~Quota!FitsQuota(c)
  <2>1. UNCHANGED <<charged, reserved, expected, received, bytes>>
    BY <1>8 DEF Quota!ReserveUpload, Quota!rows
  <2>2. QuotaInv'
    BY <1>3, <1>6, <1>7, <2>1, QuotaReads
  <2> QED
    BY <2>1, <2>2 DEF Quota!Charged, Quota!Charge, Quota!ChargedVersionBytes
<1>9. CASE Quota!FitsQuota(c)
  <2>1. /\ charged' = [charged EXCEPT ![v] = "pending"]
        /\ reserved' = [reserved EXCEPT ![v] = "initiated"]
        /\ expected' = [expected EXCEPT ![v] = n] /\ UNCHANGED <<received, bytes>>
    BY <1>9 DEF Quota!ReserveUpload
  <2>2. n <= Charging.quota - call[c].used
    BY <1>9 DEF Quota!FitsQuota
  <2>3. QuotaVersion(v) /\ bytes[v] = 0 /\ received[v] = 0
    BY <1>2 DEF QuotaInv, QuotaVersion
  <2>4. charged' \in [Charging.version -> {"none", "pending", "quarantined", "ready",
                                           "failed", "deleting", "deleted"}]
        /\ reserved' \in [Charging.version -> {"none", "initiated", "completing", "completed",
                                               "failed", "aborted", "expired"}]
    BY <1>1, <2>1 DEF QuotaTypes
  <2>5. expected' \in [Charging.version -> Charging.size \cup {0}]
    BY <1>1, <1>2, <2>1 DEF QuotaTypes
  <2>6. QuotaTypes'
    BY <1>1, <1>3, <1>7, <2>1, <2>4, <2>5 DEF QuotaTypes
  <2>7. /\ charged'[v] = "pending" /\ reserved'[v] = "initiated" /\ expected'[v] = n
        /\ \A u \in Charging.version \ {v} :
             charged'[u] = charged[u] /\ reserved'[u] = reserved[u] /\ expected'[u] = expected[u]
    BY <1>1, <1>2, <2>1 DEF QuotaTypes
  <2>8. \A u \in Charging.version : QuotaVersion(u)'
    <3>1. QuotaVersion(v)'
      BY <2>1, <2>3, <2>7 DEF QuotaVersion, Waiting
    <3>2. \A u \in Charging.version \ {v} : QuotaVersion(u)'
      BY <2>1, <2>7 DEF QuotaInv, QuotaVersion
    <3> QED
      BY <3>1, <3>2
  <2>9. v \notin Quota!Charged /\ Quota!Charged' = Quota!Charged \cup {v} /\ Quota!Charged \subseteq Charging.version
    BY <1>2, <2>7 DEF Quota!Charged
  <2>10. \A u \in Charging.version \ {v} : Quota!Charge'[u] = Quota!Charge[u]
    BY <2>1, <2>7 DEF Quota!Charge, Quota!ChargedVersionBytes
  <2>11. Quota!Charge'[v] \in Nat
    <3>1. Quota!Charge'[v] = Quota!ChargedVersionBytes(v)'
      BY <1>2 DEF Quota!Charge
    <3> QED
      BY <1>2, <2>1, <2>3, <2>7, <3>1 DEF Quota!ChargedVersionBytes, Quota!Greatest
  <2>12. IsFiniteSet(Quota!Bytes(Quota!Charged \cup {v}, Quota!Charge'))
    <3>1. \A u \in Quota!Charged \ {v} : Quota!Charge'[u] = Quota!Charge[u]
      BY <2>9, <2>10
    <3> QED
      BY <2>11, <3>1, BytesAdd DEF QuotaInv
  <2>13. /\ IsFiniteSet(Quota!Bytes(Quota!Charged, expected))
         /\ Cardinality(Quota!Bytes(Quota!Charged, expected)) <= t
    <3>1. \A u \in Quota!Charged : /\ expected[u] \in Nat /\ Quota!Charge[u] \in Nat
                                   /\ expected[u] <= Quota!Charge[u]
      BY <1>1, <2>9, QuotaCharges
    <3> QED
      BY <3>1, BytesGrow DEF QuotaInv
  <2>14. /\ IsFiniteSet(Quota!Bytes(Quota!Charged \cup {v}, expected'))
         /\ Cardinality(Quota!Bytes(Quota!Charged \cup {v}, expected'))
              <= Cardinality(Quota!Bytes(Quota!Charged, expected)) + n
    <3>1. expected'[v] \in Nat /\ \A u \in Quota!Charged \ {v} : expected'[u] = expected[u]
      BY <1>2, <2>7, <2>9
    <3> QED
      BY <2>7, <2>13, <3>1, BytesAdd
  <2>15. Cardinality(Quota!Bytes(Quota!Charged \cup {v}, expected')) <= Charging.quota
    <3>1. Cardinality(Quota!Bytes(Quota!Charged \cup {v}, expected')) \in Nat
          /\ Cardinality(Quota!Bytes(Quota!Charged, expected)) \in Nat
      BY <2>13, <2>14, FS_CardinalityType
    <3> QED
      BY <1>2, <2>2, <2>13, <2>14, <3>1
  <2>16. /\ Quota!Bytes(Quota!Charged, Quota!Charge)' = Quota!Bytes(Quota!Charged', Quota!Charge')
         /\ Quota!Bytes(Quota!Charged, expected)' = Quota!Bytes(Quota!Charged', expected')
    BY DEF Quota!Bytes
  <2>17. QuotaInv'
    BY <1>6, <2>6, <2>8, <2>9, <2>12, <2>15, <2>16 DEF QuotaInv
  <2> QED
    BY <2>9, <2>10, <2>17
<1> QED
  BY <1>8, <1>9

\* Every step of the component preserves the invariant.
LEMMA QuotaStep == QuotaInv /\ Quota!Next => QuotaInv'
<1> SUFFICES ASSUME QuotaInv, Quota!Next PROVE QuotaInv'
  OBVIOUS
<1>1. ASSUME NEW c \in Charging.client,
             \/ Quota!LockAccount(c) \/ Quota!AccountStorageUsage(c) \/ Quota!ReserveUpload(c)
             \/ Quota!RollBack(c)
      PROVE  QuotaInv'
  BY <1>1, QuotaLocks, QuotaReserves
<1>2. ASSUME NEW v \in Charging.version, Quota!CompleteUpload(v) PROVE QuotaInv'
  BY <1>2, QuotaCompletes
<1>3. ASSUME NEW v \in Charging.version,
             \/ Quota!QueueUploadCompletion(v) \/ Quota!EndUpload(v) \/ Quota!CompleteMalwareScanJob(v)
             \/ Quota!ClaimBlobDeletionJob(v) \/ Quota!CompleteBlobDeletionJob(v)
      PROVE  QuotaInv'
  BY <1>3, QuotaMoves
<1> QED
  BY <1>1, <1>2, <1>3 DEF Quota!Next

\* So does a step of another one.
LEMMA QuotaRests == QuotaInv /\ UNCHANGED quotaVars => QuotaInv'
<1> SUFFICES ASSUME QuotaInv, UNCHANGED quotaVars PROVE QuotaInv'
  OBVIOUS
<1>1. UNCHANGED <<charged, reserved, expected, received, bytes>> /\ UNCHANGED <<account, call>>
  BY DEF quotaVars
<1>2. Quota!Charged' = Quota!Charged /\ Quota!Charge' = Quota!Charge
  BY <1>1 DEF Quota!Charged, Quota!Charge, Quota!ChargedVersionBytes
<1>3. \A c \in Charging.client : QuotaCall(c)'
  BY <1>1, <1>2 DEF QuotaInv, QuotaCall, Quota!Bytes, Quota!Off
<1>4. account' \in Charging.client \cup {Absent} /\ call' \in [Charging.client -> CallRow]
  BY <1>1 DEF QuotaInv, QuotaTypes
<1> QED
  BY <1>1, <1>3, <1>4, QuotaReads

\* The invariant always holds.
LEMMA QuotaInvariant == SuiteSpec => []QuotaInv
<1>1. SuiteInit => QuotaInv
  BY QuotaInit DEF SuiteInit
<1>2. QuotaInv /\ [SuiteNext]_suiteVars => QuotaInv'
  BY QuotaStep, QuotaRests DEF SuiteNext, suiteVars
<1> QED
  BY <1>1, <1>2, PTL DEF SuiteSpec

\* The invariant is what the run checks of the account, and more.
LEMMA QuotaSafe == QuotaInv => AdmittedWithinQuota
<1> SUFFICES ASSUME QuotaInv PROVE AdmittedWithinQuota
  OBVIOUS
<1>1. Quota!TypeOK
  BY DEF QuotaInv, QuotaTypes, QuotaVersion, Waiting, Quota!TypeOK, Quota!ActiveReservation
<1>2. Quota!AdmittedWithinQuota
  BY QuotaCounts DEF QuotaInv, Quota!AdmittedWithinQuota
<1> QED
  BY <1>1, <1>2 DEF AdmittedWithinQuota

\* What was admitted fits the quota, however many servers reserve at once and
\* whatever sizes they ask for.
THEOREM QuotaCorrect == SuiteSpec => []AdmittedWithinQuota
BY QuotaInvariant, QuotaSafe, PTL

\* What is charged is a number, before and after a step.
QuotaNumbered ==
    /\ Quota!Committed + Quota!Reserved = Cardinality(Quota!Bytes(Quota!Charged, Quota!Charge))
    /\ Cardinality(Quota!Bytes(Quota!Charged, Quota!Charge)) \in Nat
    /\ IsFiniteSet(Quota!Bytes(Quota!Charged, Quota!Charge))
    /\ \A v \in Charging.version : Quota!Charge[v] \in Nat

LEMMA QuotaNumbers == QuotaInv => QuotaNumbered
<1>1. QuotaInv => \A v \in Charging.version : Quota!Charge[v] \in Nat
  BY QuotaCharges DEF QuotaInv
<1>2. QuotaInv => IsFiniteSet(Quota!Bytes(Quota!Charged, Quota!Charge))
  BY DEF QuotaInv
<1> QED
  BY <1>1, <1>2, QuotaSum DEF QuotaNumbered

LEMMA QuotaNumbersThen == QuotaInv' =>
    /\ Quota!Committed' + Quota!Reserved' = Cardinality(Quota!Bytes(Quota!Charged, Quota!Charge)')
    /\ Cardinality(Quota!Bytes(Quota!Charged, Quota!Charge)') \in Nat
    /\ IsFiniteSet(Quota!Bytes(Quota!Charged, Quota!Charge)')
    /\ \A v \in Charging.version : Quota!Charge'[v] \in Nat
<1>1. QuotaInv' => QuotaNumbered'
  BY QuotaNumbers, PTL
<1> QED
  BY <1>1 DEF QuotaNumbered

\* Only the end of a deletion gives bytes back.
LEMMA QuotaLasts == QuotaInv /\ [Quota!Next]_quotaVars =>
    (Quota!Committed' + Quota!Reserved' < Quota!Committed + Quota!Reserved =>
        \E v \in Charging.version : charged[v] = "deleting" /\ charged'[v] = "deleted")
<1> SUFFICES ASSUME QuotaInv, [Quota!Next]_quotaVars,
                    Quota!Committed' + Quota!Reserved' < Quota!Committed + Quota!Reserved,
                    ~\E v \in Charging.version : charged[v] = "deleting" /\ charged'[v] = "deleted"
             PROVE  FALSE
  OBVIOUS
<1> PICK t : t = Cardinality(Quota!Bytes(Quota!Charged, Quota!Charge))
  OBVIOUS
<1> PICK n : n = Cardinality(Quota!Bytes(Quota!Charged', Quota!Charge'))
  OBVIOUS
<1>1. QuotaInv'
  BY QuotaStep, QuotaRests
<1>2. t = Quota!Committed + Quota!Reserved /\ t \in Nat
  BY QuotaSum
<1>3. n = Quota!Committed' + Quota!Reserved' /\ n \in Nat /\ IsFiniteSet(Quota!Bytes(Quota!Charged', Quota!Charge'))
  <2>1. Quota!Bytes(Quota!Charged, Quota!Charge)' = Quota!Bytes(Quota!Charged', Quota!Charge')
    BY DEF Quota!Bytes
  <2> QED
    BY <1>1, <2>1, QuotaNumbersThen
<1>4. /\ Quota!Charged \subseteq Quota!Charged'
      /\ \A u \in Quota!Charged : Quota!Charge[u] <= Quota!Charge'[u]
      => t <= n
  <2> SUFFICES ASSUME Quota!Charged \subseteq Quota!Charged',
                      \A u \in Quota!Charged : Quota!Charge[u] <= Quota!Charge'[u]
               PROVE  t <= n
    OBVIOUS
  <2>1. \A u \in Quota!Charged : Quota!Charge[u] \in Nat
    BY QuotaCharges DEF QuotaInv, Quota!Charged
  <2>2. \A u \in Quota!Charged : Quota!Charge'[u] \in Nat
    BY <1>1, QuotaNumbersThen DEF Quota!Charged
  <2> QED
    BY <1>3, <2>1, <2>2, BytesGrow
<1>5. ~(Quota!Charged \subseteq Quota!Charged' /\ \A u \in Quota!Charged : Quota!Charge[u] <= Quota!Charge'[u])
  BY <1>2, <1>3, <1>4
<1>6. \A u \in Quota!Charged : Quota!Charge[u] \in Nat
  BY QuotaCharges DEF QuotaInv, Quota!Charged
<1>7. ~(UNCHANGED <<charged, reserved, expected, received, bytes>>)
  <2> SUFFICES ASSUME UNCHANGED <<charged, reserved, expected, received, bytes>> PROVE FALSE
    OBVIOUS
  <2>1. Quota!Charged' = Quota!Charged /\ Quota!Charge' = Quota!Charge
    BY DEF Quota!Charged, Quota!Charge, Quota!ChargedVersionBytes
  <2> QED
    BY <1>5, <1>6, <2>1
<1>8. ASSUME NEW c \in Charging.client,
             Quota!LockAccount(c) \/ Quota!AccountStorageUsage(c) \/ Quota!RollBack(c)
      PROVE  FALSE
  BY <1>7, <1>8 DEF Quota!LockAccount, Quota!AccountStorageUsage, Quota!RollBack, Quota!rows
<1>9. ASSUME NEW c \in Charging.client, Quota!ReserveUpload(c) PROVE FALSE
  BY <1>5, <1>6, <1>9, QuotaReserves
<1>10. ASSUME NEW v \in Charging.version, Quota!CompleteUpload(v) PROVE FALSE
  <2>1. Quota!Charged \subseteq Charging.version
    BY DEF Quota!Charged
  <2> QED
    BY <1>5, <1>10, <2>1, QuotaCompletes
<1>11. ASSUME NEW v \in Charging.version,
              \/ Quota!QueueUploadCompletion(v) \/ Quota!EndUpload(v) \/ Quota!CompleteMalwareScanJob(v)
              \/ Quota!ClaimBlobDeletionJob(v) \/ Quota!CompleteBlobDeletionJob(v)
       PROVE  FALSE
  <2>1. Quota!Charge' = Quota!Charge
    BY <1>11, QuotaMoves
  <2>2. Quota!Charged \subseteq Quota!Charged'
    <3>1. charged \in [Charging.version -> {"none", "pending", "quarantined", "ready",
                                            "failed", "deleting", "deleted"}]
      BY DEF QuotaInv, QuotaTypes
    <3> QED
      BY <1>11, <3>1 DEF Quota!Charged, Quota!QueueUploadCompletion, Quota!EndUpload,
         Quota!CompleteMalwareScanJob, Quota!ClaimBlobDeletionJob, Quota!CompleteBlobDeletionJob
  <2> QED
    BY <1>5, <1>6, <2>1, <2>2
<1>12. CASE UNCHANGED quotaVars
  BY <1>7, <1>12 DEF quotaVars
<1> QED
  BY <1>8, <1>9, <1>10, <1>11, <1>12 DEF Quota!Next

-----------------------------------------------------------------------------
(* Staging keys. *)

LoopPhase == {"looking", "cleaning", "recording", "claiming", "working", "resting"}
AskedRow == [upload : Staged.upload \cup {Staging!None}, at : Nat]
LoopRow == [phase : LoopPhase, upload : Staged.upload \cup {Staging!None}]

\* The rows, the store, and what requests and loops know.
StagingTypes ==
    /\ now \in Nat /\ now # 0 /\ now <= Staged.maxTime
    /\ job \in [Staged.upload -> {"open", "queued", "processing", "succeeded", "failed"}]
    /\ due \in [Staged.upload -> Nat] /\ until \in [Staged.upload -> Nat]
    /\ cleaned \subseteq Staged.upload /\ putting \subseteq Staged.upload
    /\ staged \subseteq Staged.upload /\ missed \subseteq Staged.upload
    /\ asked \in [Staged.request -> AskedRow] /\ loop \in [Staged.worker -> LoopRow]

\* A cleanup is due once for each published upload, after every URL for it has
\* ended: those still to be given out were asked for before the publication.
StagingUrls(u) ==
    /\ due[u] # 0 <=> job[u] = "succeeded"
    /\ until[u] <= now + Staged.ttl
    /\ job[u] = "succeeded" =>
         until[u] + Staged.delay <= due[u] + Staged.writeTimeout + Staged.ttl

StagingRequest(r) ==
    asked[r].upload # Staging!None =>
        /\ asked[r].at <= now
        /\ job[asked[r].upload] = "succeeded" => asked[r].at + Staged.delay <= due[asked[r].upload]

\* A loop cleans what is due, and works on what no other one works on.
StagingLoop(w) ==
    /\ loop[w].phase \in {"cleaning", "recording"} =>
         /\ loop[w].upload \in Staged.upload
         /\ job[loop[w].upload] = "succeeded" /\ due[loop[w].upload] <= now
    /\ loop[w].phase = "working" =>
         /\ loop[w].upload \in Staged.upload /\ job[loop[w].upload] = "processing"
         /\ \A v \in Staged.worker \ {w} :
              loop[v].phase = "working" => loop[v].upload # loop[w].upload

\* The staged object of u was removed when it was due.
Gone(u) ==
    \/ u \in cleaned
    \/ \E w \in Staged.worker : loop[w].phase = "recording" /\ loop[w].upload = u

StagingGone(u) ==
    /\ u \in cleaned => job[u] = "succeeded" /\ due[u] <= now
    /\ Gone(u) /\ u \in staged \cup putting => u \in missed

StagingInv ==
    /\ StagingTypes
    /\ \A u \in Staged.upload : StagingUrls(u) /\ StagingGone(u)
    /\ \A r \in Staged.request : StagingRequest(r)
    /\ \A w \in Staged.worker : StagingLoop(w)

\* What staging assumes of its constants.
LEMMA StagingConstants ==
  /\ Staged.ttl \in Nat /\ Staged.delay \in Nat /\ Staged.writeTimeout \in Nat
  /\ Staged.maxTime \in Nat /\ Staged.maxTime # 0
  /\ Staged.ttl + Staged.writeTimeout < Staged.delay
BY StoreAssumption DEF Staging!TimesAssumption

\* Before anything is stored the invariant holds.
LEMMA StagingInit == Staging!Init => StagingInv
<1> SUFFICES ASSUME Staging!Init PROVE StagingInv
  OBVIOUS
<1> USE StagingConstants DEF Staging!Init
<1>1. Staging!Idle \in AskedRow /\ Staging!Idle.upload = Staging!None
  BY DEF Staging!Idle, AskedRow
<1>2. [phase |-> "looking", upload |-> Staging!None] \in LoopRow
  BY DEF LoopRow, LoopPhase
<1>3. StagingTypes
  BY <1>1, <1>2 DEF StagingTypes
<1> QED
  BY <1>1, <1>3 DEF StagingInv, StagingUrls, StagingGone, Gone, StagingRequest, StagingLoop

\* Time passes.
LEMMA StagingTick == StagingInv /\ Staging!Tick => StagingInv'
<1> SUFFICES ASSUME StagingInv, Staging!Tick PROVE StagingInv'
  OBVIOUS
<1> USE StagingConstants DEF StagingInv, Staging!Tick, Staging!rows, Staging!store
<1>1. StagingTypes'
  BY DEF StagingTypes
<1>2. \A u \in Staged.upload : StagingUrls(u)' /\ StagingGone(u)'
  BY DEF StagingTypes, StagingUrls, StagingGone, Gone
<1>3. \A r \in Staged.request : StagingRequest(r)'
  BY DEF StagingTypes, AskedRow, StagingRequest
<1>4. \A w \in Staged.worker : StagingLoop(w)'
  BY DEF StagingTypes, LoopRow, StagingLoop
<1> QED
  BY <1>1, <1>2, <1>3, <1>4

\* A request reads the upload, and gives out a URL or nothing.
LEMMA StagingAsks ==
  ASSUME StagingInv, NEW r \in Staged.request,
         \/ \E u \in Staged.upload : Staging!GetActiveUpload(r, u)
         \/ Staging!PresignPut(r) \/ Staging!RequestFails(r)
  PROVE  StagingInv'
<1> USE StagingConstants DEF StagingInv, Staging!rows, Staging!store
<1>1. UNCHANGED <<now, job, due, cleaned, putting, staged, loop, missed>>
  BY DEF Staging!GetActiveUpload, Staging!PresignPut, Staging!RequestFails
<1>2. Staging!Idle \in AskedRow /\ Staging!Idle.upload = Staging!None
  BY DEF Staging!Idle, AskedRow
<1>3. PICK q \in AskedRow :
        /\ asked' = [asked EXCEPT ![r] = q]
        /\ q.upload # Staging!None => q.at = now /\ job[q.upload] = "open"
  <2>1. CASE \E u \in Staged.upload : Staging!GetActiveUpload(r, u)
    <3>1. PICK u \in Staged.upload : Staging!GetActiveUpload(r, u)
      BY <2>1
    <3>2. [upload |-> u, at |-> now] \in AskedRow
      BY DEF AskedRow, StagingTypes
    <3>3. PICK q : q = [upload |-> u, at |-> now]
      OBVIOUS
    <3>4. asked' = [asked EXCEPT ![r] = q] /\ job[u] = "open"
      BY <3>1, <3>3 DEF Staging!GetActiveUpload
    <3>5. q \in AskedRow /\ q.at = now /\ q.upload = u
      BY <3>2, <3>3
    <3> QED
      BY <3>4, <3>5
  <2>2. CASE Staging!PresignPut(r) \/ Staging!RequestFails(r)
    BY <1>2, <2>2 DEF Staging!PresignPut, Staging!RequestFails
  <2> QED
    BY <2>1, <2>2
<1>4. /\ until' \in [Staged.upload -> Nat]
      /\ \A u \in Staged.upload :
           until'[u] = until[u] \/ (/\ until'[u] = now + Staged.ttl
                                    /\ asked[r].upload = u /\ u # Staging!None
                                    /\ now <= asked[r].at + Staged.writeTimeout)
  <2>1. until \in [Staged.upload -> Nat] /\ now + Staged.ttl \in Nat
    BY DEF StagingTypes
  <2>2. CASE until' = until
    BY <2>1, <2>2
  <2>3. CASE until' # until
    <3>1. Staging!PresignPut(r)
      BY <2>3 DEF Staging!GetActiveUpload, Staging!RequestFails
    <3>2. PICK v : v = asked[r].upload
      OBVIOUS
    <3>3. /\ until' = [until EXCEPT ![v] = now + Staged.ttl] /\ v # Staging!None
          /\ now <= asked[r].at + Staged.writeTimeout
      BY <2>3, <3>1, <3>2 DEF Staging!PresignPut
    <3> QED
      BY <2>1, <3>2, <3>3
  <2> QED
    BY <2>2, <2>3
<1>5. StagingTypes'
  BY <1>1, <1>3, <1>4 DEF StagingTypes
<1>6. ASSUME NEW u \in Staged.upload PROVE StagingUrls(u)' /\ StagingGone(u)'
  <2>1. StagingGone(u)'
    BY <1>1 DEF StagingGone, Gone
  <2>2. until[u] \in Nat /\ until'[u] \in Nat /\ due[u] \in Nat /\ now \in Nat /\ asked[r].at \in Nat
    BY <1>4 DEF StagingTypes, AskedRow
  <2> HIDE DEF StagingInv
  <2>0. StagingUrls(u) /\ UNCHANGED <<now, job, due>>
    BY <1>1 DEF StagingInv
  <2>3. CASE until'[u] = until[u]
    BY <2>0, <2>1, <2>3 DEF StagingUrls
  <2>4. CASE until'[u] # until[u]
    <3>1. /\ until'[u] = now + Staged.ttl /\ now <= asked[r].at + Staged.writeTimeout
          /\ job[u] = "succeeded" => asked[r].at + Staged.delay <= due[u]
      BY <1>4, <2>4 DEF StagingInv, StagingRequest
    <3>2. /\ until'[u] <= now + Staged.ttl
          /\ job[u] = "succeeded" =>
               until'[u] + Staged.delay <= due[u] + Staged.writeTimeout + Staged.ttl
      BY <2>2, <3>1
    <3> QED
      BY <2>0, <2>1, <3>2 DEF StagingUrls
  <2> QED
    BY <2>1, <2>3, <2>4
<1>7. \A p \in Staged.request : StagingRequest(p)'
  BY <1>1, <1>3 DEF StagingTypes, StagingRequest
<1>8. \A w \in Staged.worker : StagingLoop(w)'
  BY <1>1 DEF StagingLoop
<1> QED
  BY <1>5, <1>6, <1>7, <1>8

\* A PUT begins while its URL is valid, and ends at any time.
LEMMA StagingPuts ==
  ASSUME StagingInv, NEW u \in Staged.upload, Staging!BeginPut(u) \/ Staging!EndPut(u)
  PROVE  StagingInv'
<1> USE StagingConstants DEF StagingInv, Staging!rows, Staging!store
<1>1. UNCHANGED <<now, job, due, cleaned, until, asked, loop, missed>>
  BY DEF Staging!BeginPut, Staging!EndPut
<1>2. /\ putting' \subseteq Staged.upload /\ staged' \subseteq Staged.upload
      /\ staged' \cup putting' \subseteq staged \cup putting \cup {u}
      /\ u \notin staged \cup putting => now <= until[u]
  BY DEF StagingTypes, Staging!BeginPut, Staging!EndPut
<1>3. StagingTypes'
  BY <1>1, <1>2 DEF StagingTypes
<1>4. ASSUME NEW v \in Staged.upload PROVE StagingUrls(v)' /\ StagingGone(v)'
  <2>1. StagingUrls(v)'
    BY <1>1 DEF StagingUrls
  <2>2. Gone(v) => job[v] = "succeeded" /\ due[v] <= now
    BY DEF Gone, StagingGone, StagingLoop
  <2>3. now <= until[v] => ~Gone(v)
    BY <2>2 DEF StagingTypes, StagingUrls
  <2>4. StagingGone(v)'
    BY <1>1, <1>2, <2>3 DEF StagingGone, Gone
  <2> QED
    BY <2>1, <2>4
<1>5. \A r \in Staged.request : StagingRequest(r)'
  BY <1>1 DEF StagingRequest
<1>6. \A w \in Staged.worker : StagingLoop(w)'
  BY <1>1 DEF StagingLoop
<1> QED
  BY <1>3, <1>4, <1>5, <1>6

\* An upload is handed in.
LEMMA StagingQueues ==
  ASSUME StagingInv, NEW u \in Staged.upload, Staging!QueueUploadCompletion(u) PROVE StagingInv'
<1> USE StagingConstants DEF StagingInv, Staging!store, Staging!QueueUploadCompletion
<1>1. StagingTypes'
  BY DEF StagingTypes
<1>2. \A v \in Staged.upload : StagingUrls(v)' /\ StagingGone(v)'
  BY DEF StagingTypes, StagingUrls, StagingGone, Gone
<1>3. \A r \in Staged.request : StagingRequest(r)'
  BY DEF StagingTypes, AskedRow, StagingRequest
<1>4. \A w \in Staged.worker : StagingLoop(w)'
  BY DEF StagingTypes, LoopRow, StagingLoop
<1> QED
  BY <1>1, <1>2, <1>3, <1>4

\* A loop turns to an upload, or to none; another upload is not touched.
LEMMA StagingTurns ==
  ASSUME StagingInv, NEW w \in Staged.worker, NEW l \in LoopRow,
         loop' = [loop EXCEPT ![w] = l], l.phase # "working",
         l.phase \in {"cleaning", "recording"} =>
            /\ l.upload \in Staged.upload
            /\ job[l.upload] = "succeeded" /\ due[l.upload] <= now,
         UNCHANGED <<now, job, due, until, putting, asked>>,
         cleaned' \subseteq Staged.upload, cleaned \subseteq cleaned',
         \A u \in cleaned' \ cleaned : loop[w].phase = "recording" /\ loop[w].upload = u,
         staged' \subseteq staged, missed \subseteq missed', missed' \subseteq Staged.upload,
         l.phase = "recording" => l.upload \notin staged' /\ (l.upload \in putting => l.upload \in missed')
  PROVE  StagingInv'
<1> USE StagingConstants DEF StagingInv
<1>1. StagingTypes'
  BY DEF StagingTypes
<1>2. ASSUME NEW u \in Staged.upload PROVE StagingUrls(u)' /\ StagingGone(u)'
  <2>1. StagingUrls(u)'
    BY DEF StagingUrls
  <2>2. u \in cleaned' => job[u] = "succeeded" /\ due[u] <= now
    BY DEF StagingGone, StagingLoop
  <2>3. Gone(u)' => Gone(u) \/ (l.phase = "recording" /\ l.upload = u)
    BY DEF StagingTypes, Gone
  <2>4. StagingGone(u)'
    BY <2>2, <2>3 DEF StagingGone
  <2> QED
    BY <2>1, <2>4
<1>3. \A r \in Staged.request : StagingRequest(r)'
  BY DEF StagingRequest
<1>4. \A v \in Staged.worker : StagingLoop(v)'
  BY DEF StagingTypes, StagingLoop
<1> QED
  BY <1>1, <1>2, <1>3, <1>4

\* The steps of a loop that publish nothing and accept nothing.
LEMMA StagingCleans ==
  ASSUME StagingInv, NEW w \in Staged.worker,
         \/ Staging!NextUploadStagingCleanup(w) \/ Staging!DeleteObject(w) \/ Staging!DeleteFails(w)
         \/ Staging!CompleteUploadStagingCleanup(w) \/ Staging!Rest(w)
  PROVE  StagingInv'
<1> USE DEF Staging!rows, Staging!store
<1>1. /\ StagingTypes /\ StagingLoop(w)
      /\ cleaned \subseteq Staged.upload /\ missed \subseteq Staged.upload /\ staged \subseteq Staged.upload
  BY DEF StagingInv, StagingTypes
<1>2. \A p \in {"looking", "claiming"} : [phase |-> p, upload |-> Staging!None] \in LoopRow
  BY DEF LoopRow, LoopPhase
<1>3. \A p \in {"cleaning", "recording"}, u \in Staged.upload : [phase |-> p, upload |-> u] \in LoopRow
  BY DEF LoopRow, LoopPhase
<1>4. CASE Staging!NextUploadStagingCleanup(w)
  <2>1. PICK l \in LoopRow :
          /\ loop' = [loop EXCEPT ![w] = l] /\ l.phase \in {"claiming", "cleaning"}
          /\ l.phase = "cleaning" => l.upload \in Staging!Due
    <3>1. CASE Staging!Due = {}
      BY <1>2, <1>4, <3>1 DEF Staging!NextUploadStagingCleanup, Staging!Goes
    <3>2. CASE Staging!Due # {}
      <4>1. PICK u \in Staging!Due : Staging!Goes(w, "cleaning", u)
        BY <1>4, <3>2 DEF Staging!NextUploadStagingCleanup
      <4> QED
        BY <1>3, <4>1 DEF Staging!Goes, Staging!Due
    <3> QED
      BY <3>1, <3>2
  <2>2. UNCHANGED <<now, job, due, cleaned, until, putting, staged, asked, missed>>
    BY <1>4 DEF Staging!NextUploadStagingCleanup
  <2> QED
    BY <1>1, <2>1, <2>2, StagingTurns DEF Staging!Due
<1>5. CASE Staging!DeleteObject(w)
  <2>1. PICK u : u = loop[w].upload
    OBVIOUS
  <2>2. u \in Staged.upload /\ job[u] = "succeeded" /\ due[u] <= now
    BY <1>1, <1>5, <2>1 DEF StagingLoop, Staging!DeleteObject
  <2>3. PICK l \in LoopRow : loop' = [loop EXCEPT ![w] = l] /\ l.phase = "recording" /\ l.upload = u
    BY <1>3, <1>5, <2>1, <2>2 DEF Staging!DeleteObject, Staging!Goes
  <2>4. /\ staged' = staged \ {u} /\ missed' = missed \cup ({u} \cap putting)
        /\ UNCHANGED <<now, job, due, cleaned, until, putting, asked>>
    BY <1>5, <2>1 DEF Staging!DeleteObject
  <2> QED
    BY <1>1, <2>2, <2>3, <2>4, StagingTurns
<1>6. CASE Staging!DeleteFails(w) \/ Staging!Rest(w) \/ Staging!CompleteUploadStagingCleanup(w)
  <2>1. PICK l \in LoopRow : loop' = [loop EXCEPT ![w] = l] /\ l.phase = "looking"
    BY <1>2, <1>6 DEF Staging!DeleteFails, Staging!Rest, Staging!Resumes, Staging!Goes,
                      Staging!CompleteUploadStagingCleanup
  <2>2. UNCHANGED <<now, job, due, until, putting, staged, asked, missed>>
    BY <1>6 DEF Staging!DeleteFails, Staging!Rest, Staging!CompleteUploadStagingCleanup
  <2>3. /\ cleaned \subseteq cleaned' /\ cleaned' \subseteq Staged.upload
        /\ \A u \in cleaned' \ cleaned : loop[w].phase = "recording" /\ loop[w].upload = u
    <3>1. CASE UNCHANGED cleaned
      BY <1>1, <3>1
    <3>2. CASE Staging!CompleteUploadStagingCleanup(w)
      <4>1. loop[w].phase = "recording" /\ cleaned' = cleaned \cup {loop[w].upload}
        BY <3>2 DEF Staging!CompleteUploadStagingCleanup
      <4> QED
        BY <1>1, <4>1 DEF StagingLoop
    <3> QED
      BY <1>6, <3>1, <3>2 DEF Staging!DeleteFails, Staging!Rest
  <2> QED
    BY <1>1, <2>1, <2>2, <2>3, StagingTurns
<1> QED
  BY <1>4, <1>5, <1>6

\* An upload that was handed in is taken, by one loop.
LEMMA StagingClaims ==
  ASSUME StagingInv, NEW w \in Staged.worker, Staging!ClaimUploadCompletionJob(w) PROVE StagingInv'
<1> USE DEF Staging!store
<1>1. StagingTypes /\ cleaned \subseteq Staged.upload /\ missed \subseteq Staged.upload
  BY DEF StagingInv, StagingTypes
<1>2. UNCHANGED <<now, due, cleaned, until, putting, staged, asked, missed>>
  BY DEF Staging!ClaimUploadCompletionJob
<1>3. CASE Staging!Goes(w, "resting", Staging!None) /\ UNCHANGED job
  <2>1. PICK l \in LoopRow : loop' = [loop EXCEPT ![w] = l] /\ l.phase = "resting"
    <3>1. [phase |-> "resting", upload |-> Staging!None] \in LoopRow
      BY DEF LoopRow, LoopPhase
    <3> QED
      BY <1>3, <3>1 DEF Staging!Goes
  <2> QED
    BY <1>1, <1>2, <1>3, <2>1, StagingTurns
<1>4. ASSUME NEW u \in Staged.upload, job[u] = "queued", job' = [job EXCEPT ![u] = "processing"],
             Staging!Goes(w, "working", u)
      PROVE  StagingInv'
  <2>1. PICK l \in LoopRow : loop' = [loop EXCEPT ![w] = l] /\ l.phase = "working" /\ l.upload = u
    <3>1. [phase |-> "working", upload |-> u] \in LoopRow
      BY DEF LoopRow, LoopPhase
    <3> QED
      BY <1>4, <3>1 DEF Staging!Goes
  <2> USE <1>2, <1>4, <2>1, StagingConstants DEF StagingInv
  <2>2. StagingTypes'
    BY DEF StagingTypes
  <2>3. \A v \in Staged.upload : StagingUrls(v)' /\ StagingGone(v)'
    BY DEF StagingTypes, StagingUrls, StagingGone, Gone
  <2>4. \A r \in Staged.request : StagingRequest(r)'
    BY DEF StagingTypes, AskedRow, StagingRequest
  <2>5. ASSUME NEW v \in Staged.worker PROVE StagingLoop(v)'
    <3>1. CASE v = w
      BY <3>1 DEF StagingTypes, StagingLoop
    <3>2. CASE v # w
      <4>1. loop'[v] = loop[v] /\ loop'[w] = l /\ StagingLoop(v) /\ loop \in [Staged.worker -> LoopRow]
        BY <3>2 DEF StagingTypes
      <4>2. loop[v].phase = "working" => loop[v].upload # u
        BY <4>1 DEF StagingLoop
      <4> QED
        BY <4>1, <4>2 DEF StagingTypes, StagingLoop
    <3> QED
      BY <3>1, <3>2
  <2> QED
    BY <2>2, <2>3, <2>4, <2>5
<1> QED
  BY <1>3, <1>4 DEF Staging!ClaimUploadCompletionJob

\* It is published, its cleanup due when no URL for it can be valid, or refused.
LEMMA StagingProcesses ==
  ASSUME StagingInv, NEW w \in Staged.worker, Staging!Process(w) PROVE StagingInv'
<1> USE StagingConstants DEF StagingInv, Staging!store
<1> PICK u : u = loop[w].upload
  OBVIOUS
<1>1. /\ u \in Staged.upload /\ job[u] = "processing" /\ loop[w].phase = "working"
      /\ \A v \in Staged.worker \ {w} : loop[v].phase = "working" => loop[v].upload # u
  BY DEF Staging!Process, StagingLoop
<1>2. PICK l \in LoopRow : loop' = [loop EXCEPT ![w] = l] /\ l.phase = "looking"
  <2>1. [phase |-> "looking", upload |-> Staging!None] \in LoopRow
    BY DEF LoopRow, LoopPhase
  <2> QED
    BY <2>1 DEF Staging!Process, Staging!Goes
<1>3. UNCHANGED <<now, cleaned, until, putting, staged, asked, missed>>
  BY DEF Staging!Process
<1>4. PICK s \in {"succeeded", "failed"} :
        /\ job' = [job EXCEPT ![u] = s]
        /\ s = "succeeded" => due' = [due EXCEPT ![u] = now + Staged.delay]
        /\ s = "failed" => due' = due
  BY DEF Staging!Process, Staging!CleanupAfter
<1>5. StagingTypes'
  <2>1. now + Staged.delay \in Nat /\ due \in [Staged.upload -> Nat]
    BY DEF StagingTypes
  <2>2. due' \in [Staged.upload -> Nat]
    BY <1>4, <2>1
  <2> QED
    BY <1>2, <1>3, <1>4, <2>2 DEF StagingTypes
<1>6. ASSUME NEW v \in Staged.upload PROVE StagingUrls(v)' /\ StagingGone(v)'
  <2>1. v # u => job'[v] = job[v] /\ due'[v] = due[v]
    BY <1>4 DEF StagingTypes
  <2>2. job'[u] = s /\ (s = "succeeded" => due'[u] = now + Staged.delay) /\ (s = "failed" => due'[u] = due[u])
    BY <1>1, <1>4 DEF StagingTypes
  <2>3. due[v] \in Nat /\ until[v] \in Nat /\ now \in Nat /\ now # 0
    BY DEF StagingTypes
  <2>4. StagingUrls(v)'
    BY <1>1, <1>3, <2>1, <2>2, <2>3 DEF StagingUrls
  <2>5. Gone(v)' => Gone(v)
    BY <1>2, <1>3 DEF StagingTypes, Gone
  <2>6. StagingGone(v)'
    BY <1>1, <1>3, <2>1, <2>5 DEF StagingGone
  <2> QED
    BY <2>4, <2>6
<1>7. ASSUME NEW r \in Staged.request PROVE StagingRequest(r)'
  BY <1>1, <1>3, <1>4 DEF StagingTypes, AskedRow, StagingRequest
<1>8. ASSUME NEW v \in Staged.worker PROVE StagingLoop(v)'
  <2>1. CASE v = w
    BY <1>2, <2>1 DEF StagingTypes, StagingLoop
  <2>2. CASE v # w
    <3>1. loop'[v] = loop[v] /\ StagingLoop(v)
      BY <1>2, <2>2 DEF StagingTypes
    <3>2. loop[v].phase \in {"cleaning", "recording", "working"} => loop[v].upload # u
      BY <1>1, <2>2, <3>1 DEF StagingLoop
    <3>3. loop[v].phase \in {"cleaning", "recording", "working"} =>
            job'[loop[v].upload] = job[loop[v].upload] /\ due'[loop[v].upload] = due[loop[v].upload]
      BY <1>4, <3>1, <3>2 DEF StagingTypes, StagingLoop
    <3>4. \A x \in Staged.worker : loop'[x].phase = "working" => loop'[x] = loop[x]
      BY <1>2 DEF StagingTypes
    <3> QED
      BY <1>3, <3>1, <3>3, <3>4 DEF StagingLoop
  <2> QED
    BY <2>1, <2>2
<1> QED
  BY <1>5, <1>6, <1>7, <1>8

\* Every step of the component preserves the invariant.
LEMMA StagingStep == StagingInv /\ Staging!Next => StagingInv'
BY StagingTick, StagingAsks, StagingPuts, StagingQueues, StagingCleans, StagingClaims, StagingProcesses
   DEF Staging!Next

\* So does a step of another one.
LEMMA StagingRests == StagingInv /\ UNCHANGED stagingVars => StagingInv'
BY DEF stagingVars, StagingInv, StagingTypes, StagingUrls, StagingGone, Gone, StagingRequest, StagingLoop

\* The invariant always holds.
LEMMA StagingInvariant == SuiteSpec => []StagingInv
<1>1. SuiteInit => StagingInv
  BY StagingInit DEF SuiteInit
<1>2. StagingInv /\ [SuiteNext]_suiteVars => StagingInv'
  BY StagingStep, StagingRests DEF SuiteNext, suiteVars
<1> QED
  BY <1>1, <1>2, PTL DEF SuiteSpec

\* The invariant is what the run checks of staging keys, and more.
LEMMA StagingSafe == StagingInv => Staging!TypeOK /\ Staging!CleanedStaysClean
<1> SUFFICES ASSUME StagingInv PROVE Staging!TypeOK /\ Staging!CleanedStaysClean
  OBVIOUS
<1>1. Staging!TypeOK
  <2>1. now \in 1..Staged.maxTime
    BY StagingConstants DEF StagingInv, StagingTypes
  <2> QED
    BY <2>1 DEF StagingInv, StagingTypes, StagingUrls, StagingGone, LoopRow, LoopPhase, Staging!TypeOK
<1>2. Staging!CleanedStaysClean
  BY DEF StagingInv, StagingTypes, StagingGone, Gone, Staging!CleanedStaysClean
<1> QED
  BY <1>1, <1>2

-----------------------------------------------------------------------------
(* The import. *)

ImportRunRow == [phase : {"idle", "check", "locked", "done", "failed"},
                 at : Import!Key \cup {Absent}, todo : SUBSET Import!Key,
                 listed : SUBSET Import!Key, known : SUBSET Import!Key]

\* The bucket, the rows and the runs.
ImportTypes ==
    /\ bucket \subseteq Import!Key /\ record \subseteq Import!Key /\ own \subseteq Importing.name
    /\ folder \in [Importing.folderName -> {"none", "live", "trashed"}]
    /\ DOMAIN file = Import!Key /\ file = [k \in Import!Key |-> file[k]]
    /\ run \in [Importing.run -> ImportRunRow]

\* A key has a file as soon as it has a version, and one with a name has it when
\* it is recorded.
ImportFile(k) ==
    /\ file[k].state \in {"none", "ready", "deleted"} /\ file[k].live \in BOOLEAN
    /\ file[k].state = "none" => file[k] = Import!NoFile
    /\ file[k].live => file[k].state = "ready"
    /\ Importing.fileName[k] # Absent => (k \in record <=> file[k].state # "none")

\* The names of live siblings differ, as item_active_sibling_name_unique sees them.
ImportNames ==
    /\ \A j, k \in Import!Key :
         file[j].live /\ file[k].live /\ j # k /\ file[j].place = file[k].place
         => Importing.lower[file[j].name] # Importing.lower[file[k].name]
    /\ \A k \in Import!Key : file[k].live /\ file[k].place = Importing.root =>
         /\ \A n \in own : Importing.lower[n] # Importing.lower[file[k].name]
         /\ \A f \in Importing.folderName :
              folder[f] = "live" => Importing.lower[f] # Importing.lower[file[k].name]

\* A run works on what it listed, and locks for what was not recorded when it began.
ImportRun(r) ==
    /\ run[r].todo \subseteq run[r].listed /\ run[r].known \subseteq record
    /\ run[r].phase = "locked" => run[r].at \in run[r].todo /\ run[r].at \notin run[r].known

ImportInv ==
    /\ ImportTypes /\ ImportNames
    /\ \A k \in Import!Key : ImportFile(k)
    /\ \A r \in Importing.run : ImportRun(r)

\* What the import assumes of its constants.
LEMMA ImportConstants ==
  /\ Importing.folder \in [Import!Key -> Importing.folderName \cup {Importing.root}]
  /\ Importing.fileName \in [Import!Key -> Importing.name \cup {Absent}]
  /\ \A k \in Import!Key : Importing.fileName[k] = Absent => Importing.folder[k] # Importing.root
  /\ Absent \notin Import!Key
BY StoreAssumption DEF Import!KeyAssumption

\* What the index forbids, row by row.
LEMMA ImportTaken ==
  ASSUME NEW place, NEW name, NEW k
  PROVE  Import!Taken(place, name, k) <=>
           \/ \E j \in Import!Key \ {k} : /\ file[j].live /\ file[j].place = place
                                         /\ Importing.lower[file[j].name] = Importing.lower[name]
           \/ place = Importing.root /\ \E n \in own : Importing.lower[n] = Importing.lower[name]
           \/ place = Importing.root /\ \E f \in Importing.folderName :
                folder[f] = "live" /\ Importing.lower[f] = Importing.lower[name]
<1> DEFINE Files == {file[j].name : j \in {i \in Import!Key \ {k} : file[i].live /\ file[i].place = place}}
           Others == IF place = Importing.root
                     THEN own \cup {f \in Importing.folderName : folder[f] = "live"} ELSE {}
<1>1. Import!LiveNames(place, k) = Files \cup Others
  BY DEF Import!LiveNames
<1>2. \A n : (n \in Files) <=>
               (\E j \in Import!Key \ {k} : file[j].live /\ file[j].place = place /\ n = file[j].name)
  OBVIOUS
<1>3. \A n : (n \in Others) <=>
               (place = Importing.root /\ (n \in own \/ (n \in Importing.folderName /\ folder[n] = "live")))
  OBVIOUS
<1> HIDE DEF Files, Others
<1> QED
  BY <1>1, <1>2, <1>3 DEF Import!Taken

\* Names that differ are what the run checks.
LEMMA ImportApart ==
  ASSUME ImportNames, NEW k \in Import!Key, file[k].live
  PROVE  ~Import!Taken(file[k].place, file[k].name, k)
BY ImportTaken DEF ImportNames

\* Before the first run the invariant holds.
LEMMA ImportInit == Import!Init => ImportInv
<1> SUFFICES ASSUME Import!Init PROVE ImportInv
  OBVIOUS
<1> USE ImportConstants DEF Import!Init
<1>1. Import!NotRunning \in ImportRunRow
  BY DEF Import!NotRunning, ImportRunRow
<1>2. ImportTypes
  BY <1>1 DEF ImportTypes
<1>3. \A k \in Import!Key : ImportFile(k)
  BY DEF ImportFile, Import!NoFile
<1>4. ImportNames
  BY DEF ImportNames, Import!NoFile
<1>5. \A r \in Importing.run : ImportRun(r)
  BY DEF ImportRun, Import!NotRunning
<1> QED
  BY <1>2, <1>3, <1>4, <1>5 DEF ImportInv

\* A run moves, and leaves the catalogue as it is.
LEMMA ImportMoves ==
  ASSUME ImportInv, NEW r \in Importing.run, NEW q \in ImportRunRow,
         run' = [run EXCEPT ![r] = q], q.todo \subseteq q.listed, q.known \subseteq record,
         q.phase = "locked" => q.at \in q.todo /\ q.at \notin q.known,
         UNCHANGED <<bucket, folder, file, own, record>>
  PROVE  ImportInv'
<1>1. ImportTypes'
  BY DEF ImportInv, ImportTypes
<1>2. ImportNames' /\ \A k \in Import!Key : ImportFile(k)'
  BY DEF ImportInv, ImportNames, ImportFile
<1>3. \A p \in Importing.run : ImportRun(p)'
  BY DEF ImportInv, ImportTypes, ImportRun
<1> QED
  BY <1>1, <1>2, <1>3 DEF ImportInv

\* The row a run goes on with.
ImportWent(r, phase, k, todo) ==
    \E q \in ImportRunRow :
       /\ run' = [run EXCEPT ![r] = q] /\ q.todo \subseteq q.listed /\ q.known \subseteq record
       /\ q.phase = phase /\ q.at = k /\ q.todo = todo /\ q.known = run[r].known

\* It keeps what it has listed and known.
LEMMA ImportGoes ==
  ASSUME ImportInv, NEW r \in Importing.run, NEW phase \in {"check", "locked", "done", "failed"},
         NEW k \in Import!Key \cup {Absent}, NEW todo \in SUBSET run[r].todo,
         Import!Goes(r, phase, k, todo)
  PROVE  ImportWent(r, phase, k, todo)
<1> PICK q : q = [phase |-> phase, at |-> k, todo |-> todo, listed |-> run[r].listed, known |-> run[r].known]
  OBVIOUS
<1>1. run[r] \in ImportRunRow /\ run[r].todo \subseteq run[r].listed /\ run[r].known \subseteq record
  BY DEF ImportInv, ImportTypes, ImportRun
<1>2. q \in ImportRunRow
  BY <1>1 DEF ImportRunRow
<1>3. run' = [run EXCEPT ![r] = q]
  BY DEF Import!Goes
<1> QED
  BY <1>1, <1>2, <1>3 DEF ImportWent

\* Listing, looking up, ending and dying.
LEMMA ImportRuns ==
  ASSUME ImportInv, NEW r \in Importing.run,
         \/ Import!ListLegacyObjects(r) \/ Import!CheckImported(r)
         \/ Import!Reconciled(r) \/ Import!Interrupted(r)
  PROVE  ImportInv'
<1> USE ImportConstants
<1>1. CASE Import!ListLegacyObjects(r)
  <2> PICK q : q = [phase |-> "check", at |-> Absent, listed |-> bucket, known |-> record,
                    todo |-> Import!Listed(bucket)]
    OBVIOUS
  <2>1. Import!Listed(bucket) \subseteq bucket /\ bucket \subseteq Import!Key /\ record \subseteq Import!Key
    BY DEF Import!Listed, ImportInv, ImportTypes
  <2>2. q \in ImportRunRow
    BY <2>1 DEF ImportRunRow
  <2>3. run' = [run EXCEPT ![r] = q] /\ UNCHANGED <<bucket, folder, file, own, record>>
    BY <1>1 DEF Import!ListLegacyObjects
  <2> QED
    BY <2>1, <2>2, <2>3, ImportMoves
<1>2. CASE Import!CheckImported(r)
  <2>1. PICK k \in Import!First(run[r].todo) :
          IF Import!AlreadyImported(k) THEN Import!Further(r, k) ELSE Import!Goes(r, "locked", k, run[r].todo)
    BY <1>2 DEF Import!CheckImported
  <2>2. /\ k \in run[r].todo /\ k \in Import!Key /\ run[r].known \subseteq record
        /\ UNCHANGED <<bucket, folder, file, own, record>>
    BY <1>2 DEF Import!First, Import!CheckImported, ImportInv, ImportTypes, ImportRunRow, ImportRun
  <2>3. CASE Import!AlreadyImported(k)
    <3>1. Import!Goes(r, "check", Absent, run[r].todo \ {k}) /\ run[r].todo \ {k} \in SUBSET run[r].todo
      BY <2>1, <2>3 DEF Import!Further
    <3>0. ImportWent(r, "check", Absent, run[r].todo \ {k})
      BY <2>2, <3>1, ImportGoes
    <3>2. PICK q \in ImportRunRow :
            /\ run' = [run EXCEPT ![r] = q] /\ q.todo \subseteq q.listed /\ q.known \subseteq record
            /\ q.phase = "check"
      BY <3>0 DEF ImportWent
    <3> QED
      BY <2>2, <3>2, ImportMoves
  <2>4. CASE ~Import!AlreadyImported(k)
    <3>1. Import!Goes(r, "locked", k, run[r].todo) /\ k \notin record /\ run[r].todo \in SUBSET run[r].todo
      BY <2>1, <2>4 DEF Import!AlreadyImported
    <3>0. ImportWent(r, "locked", k, run[r].todo)
      BY <2>2, <3>1, ImportGoes
    <3>2. PICK q \in ImportRunRow :
            /\ run' = [run EXCEPT ![r] = q] /\ q.todo \subseteq q.listed /\ q.known \subseteq record
            /\ q.at = k /\ q.todo = run[r].todo
      BY <3>0 DEF ImportWent
    <3> QED
      BY <2>2, <3>1, <3>2, ImportMoves
  <2> QED
    BY <2>3, <2>4
<1>3. CASE Import!Reconciled(r)
  <2>1. /\ Import!Goes(r, "done", Absent, {}) /\ {} \in SUBSET run[r].todo
        /\ UNCHANGED <<bucket, folder, file, own, record>>
    BY <1>3 DEF Import!Reconciled
  <2>0. ImportWent(r, "done", Absent, {})
    BY <2>1, ImportGoes
  <2>2. PICK q \in ImportRunRow :
          /\ run' = [run EXCEPT ![r] = q] /\ q.todo \subseteq q.listed /\ q.known \subseteq record
          /\ q.phase = "done"
    BY <2>0 DEF ImportWent
  <2> QED
    BY <2>1, <2>2, ImportMoves
<1>4. CASE Import!Interrupted(r)
  <2>1. Import!NotRunning \in ImportRunRow
    BY DEF Import!NotRunning, ImportRunRow
  <2>2. run' = [run EXCEPT ![r] = Import!NotRunning] /\ UNCHANGED <<bucket, folder, file, own, record>>
    BY <1>4 DEF Import!Interrupted
  <2>3. Import!NotRunning.todo = {} /\ Import!NotRunning.known = {} /\ Import!NotRunning.phase = "idle"
    BY DEF Import!NotRunning
  <2> QED
    BY <2>1, <2>2, <2>3, ImportMoves
<1> QED
  BY <1>1, <1>2, <1>3, <1>4

\* The transaction that imports an object, rolled back when a name is taken.
LEMMA ImportImports ==
  ASSUME ImportInv, NEW r \in Importing.run, Import!ImportLegacyObject(r) PROVE ImportInv'
<1> USE ImportConstants
<1> PICK k : k = run[r].at
  OBVIOUS
<1>1. k \in Import!Key /\ run[r].phase = "locked" /\ k \in run[r].todo
      /\ record' = Import!Recorded(k) /\ UNCHANGED <<bucket, own>>
  BY DEF Import!ImportLegacyObject, ImportInv, ImportTypes, ImportRunRow, ImportRun
<1>2. CASE Import!Refused(k)
  <2>1. /\ Import!Goes(r, "failed", k, run[r].todo) /\ run[r].todo \in SUBSET run[r].todo
        /\ UNCHANGED <<bucket, folder, file, own, record>>
    BY <1>1, <1>2 DEF Import!ImportLegacyObject, Import!Recorded
  <2>0. ImportWent(r, "failed", k, run[r].todo)
    BY <1>1, <2>1, ImportGoes
  <2>2. PICK q \in ImportRunRow :
          /\ run' = [run EXCEPT ![r] = q] /\ q.todo \subseteq q.listed /\ q.known \subseteq record
          /\ q.phase = "failed"
    BY <2>0 DEF ImportWent
  <2> QED
    BY <2>1, <2>2, ImportMoves
<1>3. CASE ~Import!Refused(k)
  <2> DEFINE f == Importing.folder[k]
             new == f # Importing.root /\ folder[f] = "none"
  <2>1. /\ record' = record \cup {k} /\ Import!EnsureLegacyFolder(k) /\ Import!RecordFile(k)
        /\ Import!Goes(r, "check", Absent, run[r].todo \ {k}) /\ run[r].todo \ {k} \in SUBSET run[r].todo
    BY <1>1, <1>3 DEF Import!ImportLegacyObject, Import!Recorded, Import!Further
  <2>0. ImportWent(r, "check", Absent, run[r].todo \ {k})
    BY <1>1, <2>1, ImportGoes
  <2>2. PICK q \in ImportRunRow :
          /\ run' = [run EXCEPT ![r] = q] /\ q.todo \subseteq q.listed /\ q.known \subseteq record
          /\ q.phase = "check"
    BY <2>0 DEF ImportWent
  <2>3. /\ ~(new /\ Import!Taken(Importing.root, f, Absent))
        /\ Importing.fileName[k] # Absent /\ (file[k] = Import!NoFile \/ file[k].live) =>
             ~Import!Taken(f, Importing.fileName[k], k)
    BY <1>3 DEF Import!Refused, Import!FolderRefused, Import!FileRefused
  <2>4. /\ folder \in [Importing.folderName -> {"none", "live", "trashed"}]
        /\ f \in Importing.folderName \cup {Importing.root}
        /\ folder' = IF new THEN [folder EXCEPT ![f] = "live"] ELSE folder
    BY <1>1, <2>1 DEF Import!EnsureLegacyFolder, ImportInv, ImportTypes
  <2>5. /\ folder' \in [Importing.folderName -> {"none", "live", "trashed"}]
        /\ \A g \in Importing.folderName : folder'[g] = "live" => folder[g] = "live" \/ (new /\ g = f)
    BY <2>4
  <2>6. PICK i : i = [name |-> Importing.fileName[k], place |-> f, state |-> "ready",
                      live |-> (file[k] = Import!NoFile \/ file[k].live)]
    OBVIOUS
  <2>7. /\ i.live = (file[k] = Import!NoFile \/ file[k].live)
        /\ i.state = "ready" /\ i.name = Importing.fileName[k] /\ i.place = f
    BY <2>6
  <2>8. file' = IF Importing.fileName[k] = Absent THEN file ELSE [file EXCEPT ![k] = i]
    BY <2>1, <2>6 DEF Import!RecordFile
  <2>9. /\ DOMAIN file' = Import!Key /\ file' = [j \in Import!Key |-> file'[j]]
        /\ \A j \in Import!Key \ {k} : file'[j] = file[j]
        /\ Importing.fileName[k] # Absent => file'[k] = i
        /\ Importing.fileName[k] = Absent => file'[k] = file[k]
    BY <1>1, <2>8 DEF ImportInv, ImportTypes
  <2>10. ImportTypes'
    BY <1>1, <2>1, <2>2, <2>5, <2>9 DEF ImportInv, ImportTypes
  <2>11. ASSUME NEW j \in Import!Key PROVE ImportFile(j)'
    <3>0. ImportFile(j)
      BY DEF ImportInv
    <3>1. CASE j # k
      BY <2>1, <2>9, <3>0, <3>1 DEF ImportFile
    <3>2. CASE j = k /\ Importing.fileName[k] = Absent
      BY <2>1, <2>9, <3>0, <3>2 DEF ImportFile
    <3>3. CASE j = k /\ Importing.fileName[k] # Absent
      <4>1. i.live \in BOOLEAN
        BY <2>7
      <4> QED
        BY <2>1, <2>7, <2>9, <3>0, <3>3, <4>1 DEF ImportFile
    <3> QED
      BY <3>1, <3>2, <3>3
  <2>12. ImportNames'
    <3>1. ImportNames
      BY DEF ImportInv
    <3>2. new => \A j \in Import!Key : file[j].live /\ file[j].place = Importing.root =>
            Importing.lower[f] # Importing.lower[file[j].name]
      BY <2>3, ImportTaken
    <3>3. Importing.fileName[k] # Absent /\ i.live =>
            /\ \A j \in Import!Key \ {k} : file[j].live /\ file[j].place = f =>
                 Importing.lower[file[j].name] # Importing.lower[i.name]
            /\ f = Importing.root =>
                 /\ \A n \in own : Importing.lower[n] # Importing.lower[i.name]
                 /\ \A g \in Importing.folderName :
                      folder[g] = "live" => Importing.lower[g] # Importing.lower[i.name]
      BY <2>3, <2>7, ImportTaken
    <3>4. ASSUME NEW j \in Import!Key, NEW l \in Import!Key, file'[j].live, file'[l].live, j # l,
                 file'[j].place = file'[l].place
          PROVE  Importing.lower[file'[j].name] # Importing.lower[file'[l].name]
      <4>1. CASE Importing.fileName[k] = Absent
        BY <2>9, <3>1, <3>4, <4>1 DEF ImportNames
      <4>2. CASE Importing.fileName[k] # Absent /\ j # k /\ l # k
        BY <2>9, <3>1, <3>4, <4>2 DEF ImportNames
      <4>3. CASE Importing.fileName[k] # Absent /\ j = k
        <5>1. /\ file'[j] = i /\ i.live /\ l \in Import!Key \ {k} /\ file'[l] = file[l]
              /\ file[l].live /\ file[l].place = f
          BY <2>7, <2>9, <3>4, <4>3
        <5> HIDE DEF f, new
        <5> QED
          BY <3>3, <4>3, <5>1
      <4>4. CASE Importing.fileName[k] # Absent /\ l = k
        <5>1. /\ file'[l] = i /\ i.live /\ j \in Import!Key \ {k} /\ file'[j] = file[j]
              /\ file[j].live /\ file[j].place = f
          BY <2>7, <2>9, <3>4, <4>4
        <5> HIDE DEF f, new
        <5> QED
          BY <3>3, <4>4, <5>1
      <4> QED
        BY <4>1, <4>2, <4>3, <4>4
    <3>5. ASSUME NEW j \in Import!Key, file'[j].live, file'[j].place = Importing.root
          PROVE  /\ \A n \in own' : Importing.lower[n] # Importing.lower[file'[j].name]
                 /\ \A g \in Importing.folderName :
                      folder'[g] = "live" => Importing.lower[g] # Importing.lower[file'[j].name]
      <4>1. CASE file'[j] = file[j]
        <5>1. \A n \in own : Importing.lower[n] # Importing.lower[file[j].name]
          BY <3>1, <3>5, <4>1 DEF ImportNames
        <5>2. \A g \in Importing.folderName :
                folder[g] = "live" => Importing.lower[g] # Importing.lower[file[j].name]
          BY <3>1, <3>5, <4>1 DEF ImportNames
        <5> QED
          BY <1>1, <2>5, <3>2, <3>5, <4>1, <5>1, <5>2
      <4>2. CASE file'[j] # file[j]
        <5>1. j = k /\ Importing.fileName[k] # Absent /\ file'[j] = i /\ f = Importing.root /\ ~new
          BY <2>7, <2>9, <3>5, <4>2
        <5> QED
          BY <1>1, <2>5, <3>3, <3>5, <5>1
      <4> QED
        BY <4>1, <4>2
    <3> QED
      BY <3>4, <3>5 DEF ImportNames
  <2>13. \A p \in Importing.run : ImportRun(p)'
    BY <2>1, <2>2 DEF ImportInv, ImportTypes, ImportRun
  <2> QED
    BY <2>10, <2>11, <2>12, <2>13 DEF ImportInv
<1> QED
  BY <1>2, <1>3

\* A user changes a file that is there, gives it a free name, or gives it up.
LEMMA ImportChanges ==
  ASSUME ImportInv, NEW k \in Import!Key, NEW i,
         file' = [file EXCEPT ![k] = i], file[k].state # "none",
         i.state \in {"ready", "deleted"}, i.live \in BOOLEAN, i.live => i.state = "ready",
         i.live => i.place = file[k].place /\ file[k].live /\ ~Import!Taken(i.place, i.name, k),
         bucket' \subseteq bucket, UNCHANGED <<folder, own, record, run>>
  PROVE  ImportInv'
<1>1. /\ DOMAIN file' = Import!Key /\ file' = [j \in Import!Key |-> file'[j]]
      /\ \A j \in Import!Key \ {k} : file'[j] = file[j]
      /\ file'[k] = i
  BY DEF ImportInv, ImportTypes
<1>2. ImportTypes'
  BY <1>1 DEF ImportInv, ImportTypes
<1>3. ASSUME NEW j \in Import!Key PROVE ImportFile(j)'
  <2>1. ImportFile(j)
    BY DEF ImportInv
  <2>2. CASE j = k
    BY <1>1, <2>1, <2>2 DEF ImportFile
  <2>3. CASE j # k
    BY <1>1, <2>1, <2>3 DEF ImportFile
  <2> QED
    BY <2>2, <2>3
<1>4. ImportNames'
  <2>1. ImportNames
    BY DEF ImportInv
  <2>2. i.live =>
          /\ \A j \in Import!Key \ {k} : file[j].live /\ file[j].place = i.place =>
               Importing.lower[file[j].name] # Importing.lower[i.name]
          /\ i.place = Importing.root =>
               /\ \A n \in own : Importing.lower[n] # Importing.lower[i.name]
               /\ \A g \in Importing.folderName :
                    folder[g] = "live" => Importing.lower[g] # Importing.lower[i.name]
    BY ImportTaken
  <2>3. ASSUME NEW j \in Import!Key, NEW l \in Import!Key, file'[j].live, file'[l].live, j # l,
               file'[j].place = file'[l].place
        PROVE  Importing.lower[file'[j].name] # Importing.lower[file'[l].name]
    <3>1. CASE j # k /\ l # k
      BY <1>1, <2>1, <2>3, <3>1 DEF ImportNames
    <3>2. CASE j = k
      BY <1>1, <2>2, <2>3, <3>2
    <3>3. CASE l = k
      BY <1>1, <2>2, <2>3, <3>3
    <3> QED
      BY <3>1, <3>2, <3>3
  <2>4. ASSUME NEW j \in Import!Key, file'[j].live, file'[j].place = Importing.root
        PROVE  /\ \A n \in own' : Importing.lower[n] # Importing.lower[file'[j].name]
               /\ \A g \in Importing.folderName :
                    folder'[g] = "live" => Importing.lower[g] # Importing.lower[file'[j].name]
    <3>1. CASE j # k
      BY <1>1, <2>1, <2>4, <3>1 DEF ImportNames
    <3>2. CASE j = k
      BY <1>1, <2>2, <2>4, <3>2
    <3> QED
      BY <3>1, <3>2
  <2> QED
    BY <2>3, <2>4 DEF ImportNames
<1>5. \A r \in Importing.run : ImportRun(r)'
  BY DEF ImportInv, ImportRun
<1> QED
  BY <1>2, <1>3, <1>4, <1>5 DEF ImportInv

\* Renaming, trashing and purging a file.
LEMMA ImportUses ==
  ASSUME ImportInv, NEW k \in Import!Key,
         Import!UserRenames(k) \/ Import!UserTrashes(k) \/ Import!Purged(k)
  PROVE  ImportInv'
<1>1. ImportFile(k) /\ bucket \subseteq Import!Key
  BY DEF ImportInv, ImportTypes
<1>2. CASE Import!UserRenames(k)
  <2>1. PICK n \in Importing.name :
          /\ ~Import!Taken(file[k].place, n, k)
          /\ file' = [file EXCEPT ![k] =
                [name |-> n, place |-> file[k].place, live |-> TRUE, state |-> file[k].state]]
    BY <1>2 DEF Import!UserRenames
  <2>2. PICK i : i = [name |-> n, place |-> file[k].place, live |-> TRUE, state |-> file[k].state]
    OBVIOUS
  <2>3. /\ file' = [file EXCEPT ![k] = i] /\ i.live = TRUE /\ i.state = file[k].state
        /\ i.place = file[k].place /\ i.name = n /\ file[k].live
        /\ UNCHANGED <<bucket, folder, own, record, run>>
    BY <1>2, <2>1, <2>2 DEF Import!UserRenames
  <2>4. i.state = "ready" /\ file[k].state = "ready"
    BY <1>1, <2>3 DEF ImportFile
  <2> QED
    BY <2>1, <2>3, <2>4, ImportChanges
<1>3. CASE Import!UserTrashes(k)
  <2>1. PICK i : i = Import!Trashed(file[k])
    OBVIOUS
  <2>2. /\ file' = [file EXCEPT ![k] = i] /\ i.live = FALSE /\ i.state = file[k].state /\ file[k].live
        /\ UNCHANGED <<bucket, folder, own, record, run>>
    BY <1>3, <2>1 DEF Import!UserTrashes, Import!Trashed
  <2>3. i.state = "ready" /\ file[k].state = "ready"
    BY <1>1, <2>2 DEF ImportFile
  <2> QED
    BY <2>2, <2>3, ImportChanges
<1>4. CASE Import!Purged(k)
  <2>1. PICK i : i = [name |-> file[k].name, place |-> file[k].place, live |-> FALSE, state |-> "deleted"]
    OBVIOUS
  <2>2. /\ file' = [file EXCEPT ![k] = i] /\ i.live = FALSE /\ i.state = "deleted" /\ file[k].state = "ready"
        /\ bucket' \subseteq bucket /\ UNCHANGED <<folder, own, record, run>>
    BY <1>4, <2>1 DEF Import!Purged
  <2> QED
    BY <2>2, ImportChanges
<1> QED
  BY <1>2, <1>3, <1>4

\* Trashing a folder trashes what is in it.
LEMMA ImportTrashes ==
  ASSUME ImportInv, NEW f \in Importing.folderName, Import!UserTrashesFolder(f) PROVE ImportInv'
<1>1. /\ \A k \in Import!Key : file'[k] = file[k] \/ file'[k] = Import!Trashed(file[k])
      /\ DOMAIN file' = Import!Key /\ file' = [k \in Import!Key |-> file'[k]]
      /\ folder' \in [Importing.folderName -> {"none", "live", "trashed"}]
      /\ \A g \in Importing.folderName : folder'[g] = "live" => folder[g] = "live"
      /\ UNCHANGED <<bucket, own, record, run>>
  BY DEF Import!UserTrashesFolder, ImportInv, ImportTypes
<1>2. \A k \in Import!Key : file'[k] = file[k] \/
        (/\ file'[k].live = FALSE /\ file'[k].state = file[k].state
         /\ file[k].state = "none" => file'[k] = Import!NoFile)
  <2> SUFFICES ASSUME NEW k \in Import!Key, file'[k] = Import!Trashed(file[k])
               PROVE  /\ file'[k].live = FALSE /\ file'[k].state = file[k].state
                      /\ file[k].state = "none" => file'[k] = Import!NoFile
    BY <1>1
  <2>1. file'[k].live = FALSE /\ file'[k].state = file[k].state
    BY DEF Import!Trashed
  <2>2. file[k].state = "none" => file[k] = Import!NoFile
    BY DEF ImportInv, ImportFile
  <2>3. Import!Trashed(Import!NoFile) = Import!NoFile
    BY DEF Import!Trashed, Import!NoFile
  <2> QED
    BY <2>1, <2>2, <2>3
<1>3. ImportTypes'
  BY <1>1 DEF ImportInv, ImportTypes
<1>4. ASSUME NEW k \in Import!Key PROVE ImportFile(k)'
  <2>1. ImportFile(k) /\ record' = record
    BY <1>1 DEF ImportInv
  <2>2. CASE file'[k] = file[k]
    BY <2>1, <2>2 DEF ImportFile
  <2>3. CASE /\ file'[k].live = FALSE /\ file'[k].state = file[k].state
             /\ file[k].state = "none" => file'[k] = Import!NoFile
    BY <2>1, <2>3 DEF ImportFile
  <2> QED
    BY <1>2, <2>2, <2>3
<1>5. ImportNames'
  <2>1. \A k \in Import!Key : file'[k].live => file'[k] = file[k]
    BY <1>2
  <2> QED
    BY <1>1, <2>1 DEF ImportInv, ImportNames
<1>6. \A r \in Importing.run : ImportRun(r)'
  BY <1>1 DEF ImportInv, ImportRun
<1> QED
  BY <1>3, <1>4, <1>5, <1>6 DEF ImportInv

\* A user adds a file under a free name.
LEMMA ImportAdds ==
  ASSUME ImportInv, NEW n \in Importing.name, Import!UserUploads(n) PROVE ImportInv'
<1> USE ImportConstants DEF Import!UserUploads
<1>1. \A k \in Import!Key : file[k].live /\ file[k].place = Importing.root =>
        Importing.lower[n] # Importing.lower[file[k].name]
  BY ImportTaken
<1>2. ImportTypes' /\ \A k \in Import!Key : ImportFile(k)'
  BY DEF ImportInv, ImportTypes, ImportFile
<1>3. ImportNames'
  BY <1>1 DEF ImportInv, ImportNames
<1>4. \A r \in Importing.run : ImportRun(r)'
  BY DEF ImportInv, ImportRun
<1> QED
  BY <1>2, <1>3, <1>4 DEF ImportInv

\* Every step of the component preserves the invariant.
LEMMA ImportStep == ImportInv /\ Import!Next => ImportInv'
BY ImportRuns, ImportImports, ImportUses, ImportTrashes, ImportAdds DEF Import!Next

\* So does a step of another one.
LEMMA ImportRests == ImportInv /\ UNCHANGED importVars => ImportInv'
BY DEF importVars, ImportInv, ImportTypes, ImportNames, ImportFile, ImportRun

\* The invariant always holds.
LEMMA ImportInvariant == SuiteSpec => []ImportInv
<1>1. SuiteInit => ImportInv
  BY ImportInit DEF SuiteInit
<1>2. ImportInv /\ [SuiteNext]_suiteVars => ImportInv'
  BY ImportStep, ImportRests DEF SuiteNext, suiteVars
<1> QED
  BY <1>1, <1>2, PTL DEF SuiteSpec

\* The invariant is what the run checks of the import, and more.
LEMMA ImportSafe == ImportInv => Import!TypeOK /\ Import!CataloguedOnce
<1> SUFFICES ASSUME ImportInv PROVE Import!TypeOK /\ Import!CataloguedOnce
  OBVIOUS
<1>1. Import!TypeOK
  BY DEF ImportInv, ImportTypes, ImportFile, ImportRun, ImportRunRow, Import!TypeOK
<1>2. Import!CataloguedOnce
  <2>1. \A k \in Import!Key : file[k].state # "none" <=> file[k] # Import!NoFile
    <3>1. Import!NoFile.state = "none"
      BY DEF Import!NoFile
    <3> QED
      BY <3>1 DEF ImportInv, ImportFile
  <2> QED
    BY <2>1, ImportApart DEF ImportInv, ImportFile, Import!CataloguedOnce
<1> QED
  BY <1>1, <1>2

\* An import changes the file of no key that was recorded when its run began.
LEMMA ImportLeaves == ImportInv =>
    (\A r \in Importing.run : Import!ImportLegacyObject(r) => \A k \in run[r].known : file'[k] = file[k])
<1> SUFFICES ASSUME ImportInv, NEW r \in Importing.run, Import!ImportLegacyObject(r), NEW k \in run[r].known
             PROVE  file'[k] = file[k]
  OBVIOUS
<1> PICK j : j = run[r].at
  OBVIOUS
<1>1. j # k /\ k \in Import!Key /\ file = [x \in Import!Key |-> file[x]]
  BY DEF Import!ImportLegacyObject, ImportInv, ImportRun, ImportTypes
<1>2. UNCHANGED file \/ \E i : file' = [file EXCEPT ![j] = i]
  BY DEF Import!ImportLegacyObject, Import!RecordFile
<1> QED
  BY <1>1, <1>2

-----------------------------------------------------------------------------
(* The audit. *)

Unsealed == {"none", "pending"}

AuditTypes ==
    /\ kept \in [Auditing.version -> {"none", "pending", "ready", "failed", "deleting", "deleted"}]
    /\ key \in [Auditing.version -> Nat] /\ tried \in [Auditing.version -> Nat]
    /\ erased \in [Auditing.version -> {"none", "queued", "processing", "removed", "failed", "succeeded"}]
    /\ objects \subseteq Audit!ObjectKey /\ touched \subseteq Auditing.version

\* A version has the key of its last attempt once it is published, and none before.
AuditVersion(v) ==
    /\ tried[v] <= Auditing.attempts /\ key[v] <= Auditing.attempts
    /\ key[v] # 0 => key[v] = tried[v]
    /\ kept[v] \in Unsealed => key[v] = 0
    /\ kept[v] = "ready" => key[v] # 0

\* What a row read as required names is still its version's, and is to be seen
\* yet, or was seen, or is gone for good.
AuditRow(r) ==
    /\ r.version \in Auditing.version
    /\ r.required => /\ kept[r.version] \notin Unsealed /\ r.key = key[r.version]
                     /\ Audit!NameOf(r) \in objects => Audit!NameOf(r) \in audit.left \cup audit.seen

\* A version nobody touched is as its row says, and its objects as they were seen.
AuditUntouched(v) ==
    /\ \A r \in audit.rows : r.version = v =>
         /\ r.key = key[v]
         /\ Audit!Required(v) \/ Audit!InUpload(v) \/ Audit!CleanupQueued(v)
         /\ r.required <=> Audit!Required(v)
         /\ r.cleanup <=> Audit!CleanupQueued(v)
    /\ Audit!Required(v) \/ Audit!InUpload(v) \/ Audit!CleanupQueued(v) =>
         \E r \in audit.rows : r.version = v
    /\ \A n \in 1..Auditing.attempts :
         <<v, n>> \in audit.seen <=> <<v, n>> \notin audit.left /\ <<v, n>> \in objects

\* A version reported missing has no object, and gets none.
AuditMissing(v) == v \in Auditing.version /\ kept[v] \notin Unsealed /\ <<v, key[v]>> \notin objects

AuditReported(v) ==
    /\ v \in report.missing <=> Audit!Required(v) /\ ~Audit!CleanupQueued(v) /\ <<v, key[v]>> \notin objects
    /\ \A n \in 1..Auditing.attempts :
         <<v, n>> \in report.orphans <=>
             /\ <<v, n>> \in objects
             /\ key[v] = n => ~(Audit!Required(v) \/ Audit!CleanupQueued(v))

AuditInv ==
    /\ AuditTypes
    /\ \A v \in Auditing.version : AuditVersion(v)
    /\ audit.phase = "listing" =>
         /\ \A r \in audit.rows : AuditRow(r)
         /\ \A v \in Auditing.version \ touched : AuditUntouched(v)
    /\ \A v \in report.missing : AuditMissing(v)
    /\ report.made => \A v \in Auditing.version \ touched : AuditReported(v)

\* What the audit assumes of its constants.
LEMMA AuditConstants == Auditing.attempts \in Nat /\ Auditing.attempts # 0
BY StoreAssumption DEF Audit!AttemptsAssumption

\* Before anything is stored the invariant holds.
LEMMA AuditInit == Audit!Init => AuditInv
<1> SUFFICES ASSUME Audit!Init PROVE AuditInv
  OBVIOUS
<1> USE AuditConstants DEF Audit!Init
<1>1. AuditTypes
  BY DEF AuditTypes
<1>2. \A v \in Auditing.version : AuditVersion(v)
  BY DEF AuditVersion
<1>3. audit.phase # "listing" /\ report.missing = {} /\ report.made = FALSE
  BY DEF Audit!NoAudit, Audit!NoReport
<1> QED
  BY <1>1, <1>2, <1>3 DEF AuditInv

\* A step on one version: it is touched, and gains an object while it is uploaded only.
LEMMA AuditTouches ==
  ASSUME AuditInv, NEW v \in Auditing.version, UNCHANGED <<audit, report>>, touched' = touched \cup {v},
         AuditTypes', AuditVersion(v)',
         \A w \in Auditing.version \ {v} :
            kept'[w] = kept[w] /\ key'[w] = key[w] /\ tried'[w] = tried[w] /\ erased'[w] = erased[w],
         \A w \in Auditing.version, n \in Nat :
            /\ <<w, n>> \in objects' => <<w, n>> \in objects \/ (w = v /\ kept[v] \in Unsealed)
            /\ <<w, n>> \in objects => <<w, n>> \in objects' \/ w = v,
         kept[v] \notin Unsealed => kept'[v] \notin Unsealed /\ key'[v] = key[v]
  PROVE  AuditInv'
<1>0. key \in [Auditing.version -> Nat] /\ key' \in [Auditing.version -> Nat]
  BY DEF AuditInv, AuditTypes
<1>1. \A w \in Auditing.version : AuditVersion(w)'
  BY DEF AuditInv, AuditVersion
<1>2. ASSUME audit.phase = "listing", NEW r \in audit.rows PROVE AuditRow(r)'
  <2>1. AuditRow(r)
    BY <1>2 DEF AuditInv
  <2>2. CASE r.required
    <3>1. /\ r.version \in Auditing.version /\ kept[r.version] \notin Unsealed /\ r.key = key[r.version]
          /\ <<r.version, r.key>> \in objects => <<r.version, r.key>> \in audit.left \cup audit.seen
      BY <2>1, <2>2 DEF AuditRow, Audit!NameOf
    <3>2. kept'[r.version] \notin Unsealed /\ r.key = key'[r.version]
      BY <3>1
    <3>3. <<r.version, r.key>> \in objects' => <<r.version, r.key>> \in objects
      BY <1>0, <3>1
    <3> QED
      BY <3>1, <3>2, <3>3 DEF AuditRow, Audit!NameOf
  <2>3. CASE ~r.required
    BY <2>1, <2>3 DEF AuditRow
  <2> QED
    BY <2>2, <2>3
<1>3. ASSUME NEW w \in Auditing.version \ {v}
      PROVE  /\ (Audit!Required(w) <=> Audit!Required(w)') /\ (Audit!InUpload(w) <=> Audit!InUpload(w)')
             /\ (Audit!CleanupQueued(w) <=> Audit!CleanupQueued(w)') /\ key'[w] = key[w]
             /\ \A n \in Nat : <<w, n>> \in objects <=> <<w, n>> \in objects'
  BY DEF Audit!Required, Audit!InUpload, Audit!CleanupQueued
<1>4. \A n \in 1..Auditing.attempts : n \in Nat
  BY AuditConstants
<1>5. ASSUME audit.phase = "listing", NEW w \in Auditing.version \ touched' PROVE AuditUntouched(w)'
  <2>1. AuditUntouched(w) /\ w \in Auditing.version \ {v}
    BY <1>5 DEF AuditInv
  <2> QED
    BY <1>3, <1>4, <2>1 DEF AuditUntouched
<1>6. ASSUME NEW w \in report.missing PROVE AuditMissing(w)'
  <2>1. AuditMissing(w)
    BY DEF AuditInv
  <2>2. kept'[w] \notin Unsealed /\ key'[w] = key[w] /\ key[w] \in Nat
    BY <1>0, <2>1 DEF AuditMissing
  <2> QED
    BY <2>1, <2>2 DEF AuditMissing
<1>7. ASSUME report.made, NEW w \in Auditing.version \ touched' PROVE AuditReported(w)'
  <2>1. AuditReported(w) /\ w \in Auditing.version \ {v}
    BY <1>7 DEF AuditInv
  <2> QED
    BY <1>0, <1>3, <1>4, <2>1 DEF AuditReported
<1> QED
  BY <1>1, <1>2, <1>5, <1>6, <1>7 DEF AuditInv

\* An upload reserves, seals, is published or ends.
LEMMA AuditUploads ==
  ASSUME AuditInv, NEW v \in Auditing.version,
         \/ Audit!ReserveUpload(v) \/ Audit!Seal(v) \/ Audit!CompleteUpload(v) \/ Audit!EndUpload(v)
  PROVE  AuditInv'
<1> USE AuditConstants DEF Audit!Moves, Audit!Deletes, Audit!Touch, Unsealed
<1>1. /\ AuditTypes /\ AuditVersion(v) /\ UNCHANGED <<audit, report>> /\ touched' = touched \cup {v}
      /\ kept[v] \in Unsealed
  BY DEF AuditInv, Audit!ReserveUpload, Audit!Seal, Audit!CompleteUpload, Audit!EndUpload
<1>2. tried[v] < Auditing.attempts => tried[v] + 1 \in 1..Auditing.attempts /\ tried[v] + 1 \in Nat
  BY <1>1 DEF AuditTypes
<1>3. /\ AuditTypes' /\ AuditVersion(v)'
      /\ \A w \in Auditing.version \ {v} :
            kept'[w] = kept[w] /\ key'[w] = key[w] /\ tried'[w] = tried[w] /\ erased'[w] = erased[w]
      /\ \A w \in Auditing.version, n \in Nat :
            /\ <<w, n>> \in objects' => <<w, n>> \in objects \/ w = v
            /\ <<w, n>> \in objects => <<w, n>> \in objects'
  <2>1. CASE Audit!ReserveUpload(v)
    BY <1>1, <2>1 DEF Audit!ReserveUpload, AuditTypes, AuditVersion
  <2>2. CASE Audit!Seal(v)
    <3>1. <<v, tried'[v]>> \in Audit!ObjectKey /\ tried'[v] = tried[v] + 1
      BY <1>1, <1>2, <2>2 DEF Audit!Seal, AuditTypes, Audit!ObjectKey
    <3>2. objects' = objects \cup {<<v, tried'[v]>>}
      BY <2>2 DEF Audit!Seal
    <3> QED
      BY <1>1, <1>2, <2>2, <3>1, <3>2 DEF Audit!Seal, AuditTypes, AuditVersion
  <2>3. CASE Audit!CompleteUpload(v)
    BY <1>1, <2>3 DEF Audit!CompleteUpload, AuditTypes, AuditVersion
  <2>4. CASE Audit!EndUpload(v)
    BY <1>1, <2>4 DEF Audit!EndUpload, AuditTypes, AuditVersion
  <2> QED
    BY <2>1, <2>2, <2>3, <2>4
<1> QED
  BY <1>1, <1>3, AuditTouches

\* A published version is deleted, or its object is lost.
LEMMA AuditDeletes ==
  ASSUME AuditInv, NEW v \in Auditing.version,
         \/ Audit!QueueExpiredTrash(v) \/ Audit!CancelDeletion(v) \/ Audit!ClaimBlobDeletionJob(v)
         \/ Audit!DeleteObject(v) \/ Audit!FailBlobDeletionJob(v) \/ Audit!CompleteBlobDeletionJob(v)
         \/ Audit!ObjectLost(v)
  PROVE  AuditInv'
<1> USE AuditConstants DEF Audit!Moves, Audit!Deletes, Audit!Touch
<1> DEFINE States == {"none", "pending", "ready", "failed", "deleting", "deleted"}
           Deletions == {"none", "queued", "processing", "removed", "failed", "succeeded"}
<1>1. /\ AuditTypes /\ AuditVersion(v) /\ UNCHANGED <<audit, report, key, tried>> /\ touched' = touched \cup {v}
  BY DEF AuditInv, Audit!QueueExpiredTrash, Audit!CancelDeletion, Audit!ClaimBlobDeletionJob,
     Audit!DeleteObject, Audit!FailBlobDeletionJob, Audit!CompleteBlobDeletionJob, Audit!ObjectLost
<1>2. PICK s \in States : kept' = [kept EXCEPT ![v] = s] /\ (s = kept[v] \/ s \in {"deleting", "deleted"})
  <2>1. kept[v] \in States /\ kept = [kept EXCEPT ![v] = kept[v]]
    BY <1>1 DEF AuditTypes
  <2> QED
    BY <2>1 DEF Audit!QueueExpiredTrash, Audit!CancelDeletion, Audit!ClaimBlobDeletionJob,
     Audit!DeleteObject, Audit!FailBlobDeletionJob, Audit!CompleteBlobDeletionJob, Audit!ObjectLost
<1>3. PICK d \in Deletions : erased' = [erased EXCEPT ![v] = d]
  <2>1. erased[v] \in Deletions /\ erased = [erased EXCEPT ![v] = erased[v]]
    BY <1>1 DEF AuditTypes
  <2> QED
    BY <2>1 DEF Audit!QueueExpiredTrash, Audit!CancelDeletion, Audit!ClaimBlobDeletionJob,
     Audit!DeleteObject, Audit!FailBlobDeletionJob, Audit!CompleteBlobDeletionJob, Audit!ObjectLost
<1>4. objects' \subseteq objects /\ (\A o \in objects : o \in objects' \/ o = <<v, key[v]>>)
  BY DEF Audit!QueueExpiredTrash, Audit!CancelDeletion, Audit!ClaimBlobDeletionJob,
     Audit!DeleteObject, Audit!FailBlobDeletionJob, Audit!CompleteBlobDeletionJob, Audit!ObjectLost
<1>5. AuditTypes'
  BY <1>1, <1>2, <1>3, <1>4 DEF AuditTypes
<1>6. kept'[v] = s /\ \A w \in Auditing.version \ {v} : kept'[w] = kept[w] /\ erased'[w] = erased[w]
  BY <1>1, <1>2, <1>3 DEF AuditTypes
<1>7. AuditVersion(v)'
  BY <1>1, <1>2, <1>6 DEF AuditVersion, Unsealed
<1>8. \A w \in Auditing.version, n \in Nat :
        /\ <<w, n>> \in objects' => <<w, n>> \in objects
        /\ <<w, n>> \in objects => <<w, n>> \in objects' \/ w = v
  BY <1>4
<1>9. kept[v] \notin Unsealed => kept'[v] \notin Unsealed /\ key'[v] = key[v]
  BY <1>1, <1>2, <1>6 DEF Unsealed
<1> QED
  BY <1>1, <1>5, <1>6, <1>7, <1>8, <1>9, AuditTouches

\* The rows are read; nothing has been touched since.
LEMMA AuditReads == AuditInv /\ Audit!ListExpectedBlobs => AuditInv'
<1> SUFFICES ASSUME AuditInv, Audit!ListExpectedBlobs PROVE AuditInv'
  OBVIOUS
<1> USE DEF Audit!ListExpectedBlobs
<1>1. AuditTypes' /\ (\A v \in Auditing.version : AuditVersion(v)')
  BY DEF AuditInv, AuditTypes, AuditVersion
<1>2. report'.missing = {} /\ report'.made = FALSE
  BY DEF Audit!NoReport
<1>3. audit'.rows = Audit!Expected /\ audit'.left = Audit!ObjectKey /\ audit'.seen = {}
  OBVIOUS
<1>4. \A r \in Audit!Expected :
        /\ r.version \in Auditing.version /\ r.key = key[r.version]
        /\ r.required = Audit!Required(r.version) /\ r.cleanup = Audit!CleanupQueued(r.version)
        /\ Audit!Required(r.version) \/ Audit!InUpload(r.version) \/ Audit!CleanupQueued(r.version)
  BY DEF Audit!Expected, Audit!Row
<1>5. \A v \in Auditing.version : Audit!Required(v) \/ Audit!InUpload(v) \/ Audit!CleanupQueued(v) =>
        \E r \in Audit!Expected : r.version = v
  <2>1. \A v \in Auditing.version : Audit!Row(v).version = v
    BY DEF Audit!Row
  <2>2. \A v \in Auditing.version : Audit!Required(v) \/ Audit!InUpload(v) \/ Audit!CleanupQueued(v) =>
          Audit!Row(v) \in Audit!Expected
    BY DEF Audit!Expected
  <2> QED
    BY <2>1, <2>2
<1>6. UNCHANGED <<kept, key, tried, objects, erased>>
  OBVIOUS
<1>7. \A v \in Auditing.version, n \in 1..Auditing.attempts : <<v, n>> \in Audit!ObjectKey
  BY DEF Audit!ObjectKey
<1>8. ASSUME NEW r \in audit'.rows PROVE AuditRow(r)'
  <2>1. r.required => kept[r.version] \notin Unsealed
    BY <1>3, <1>4 DEF Audit!Required, Unsealed
  <2>2. Audit!NameOf(r) \in objects => Audit!NameOf(r) \in Audit!ObjectKey
    BY DEF AuditInv, AuditTypes
  <2> QED
    BY <1>3, <1>4, <1>6, <2>1, <2>2 DEF AuditRow, Audit!NameOf
<1>9. ASSUME NEW v \in Auditing.version PROVE AuditUntouched(v)'
  <2>1. /\ Audit!Required(v) <=> Audit!Required(v)'
        /\ Audit!InUpload(v) <=> Audit!InUpload(v)'
        /\ Audit!CleanupQueued(v) <=> Audit!CleanupQueued(v)'
    BY <1>6 DEF Audit!Required, Audit!InUpload, Audit!CleanupQueued
  <2> QED
    BY <1>3, <1>4, <1>5, <1>6, <1>7, <2>1 DEF AuditUntouched
<1> QED
  BY <1>1, <1>2, <1>8, <1>9 DEF AuditInv

\* A key is listed: its object is seen if it is there now.
LEMMA AuditSees ==
  ASSUME AuditInv, NEW k \in Audit!ObjectKey, Audit!ListAuditObjects(k) PROVE AuditInv'
<1> USE DEF Audit!ListAuditObjects
<1>1. /\ audit'.phase = audit.phase /\ audit'.rows = audit.rows /\ audit'.left = audit.left \ {k}
      /\ audit'.seen = audit.seen \cup ({k} \cap objects) /\ k \in audit.left
      /\ UNCHANGED <<kept, key, tried, objects, erased, report, touched>>
  OBVIOUS
<1>2. AuditTypes' /\ (\A v \in Auditing.version : AuditVersion(v)')
  BY <1>1 DEF AuditInv, AuditTypes, AuditVersion
<1>3. ASSUME audit.phase = "listing", NEW r \in audit.rows PROVE AuditRow(r)'
  BY <1>1, <1>3 DEF AuditInv, AuditRow, Audit!NameOf
<1>4. ASSUME audit.phase = "listing", NEW v \in Auditing.version \ touched PROVE AuditUntouched(v)'
  <2>1. AuditUntouched(v)
    BY <1>4 DEF AuditInv
  <2>2. /\ Audit!Required(v) <=> Audit!Required(v)'
        /\ Audit!InUpload(v) <=> Audit!InUpload(v)'
        /\ Audit!CleanupQueued(v) <=> Audit!CleanupQueued(v)'
    BY <1>1 DEF Audit!Required, Audit!InUpload, Audit!CleanupQueued
  <2>3. ASSUME NEW n \in 1..Auditing.attempts, <<v, n>> \notin audit'.left
        PROVE  <<v, n>> \in audit'.seen <=> <<v, n>> \in objects
    <3>0. (<<v, n>> \in audit'.seen <=> (<<v, n>> \in audit.seen \/ (<<v, n>> = k /\ k \in objects)))
      BY <1>1
    <3>1. CASE <<v, n>> = k
      BY <3>0, <3>1, <2>1, <2>3 DEF AuditUntouched
    <3>2. CASE <<v, n>> # k
      BY <1>1, <2>1, <2>3, <3>0, <3>2 DEF AuditUntouched
    <3> QED
      BY <3>1, <3>2
  <2> QED
    BY <1>1, <2>1, <2>2, <2>3 DEF AuditUntouched
<1>5. \A v \in report.missing : AuditMissing(v)'
  BY <1>1 DEF AuditInv, AuditMissing
<1>6. ASSUME report.made, NEW v \in Auditing.version \ touched PROVE AuditReported(v)'
  BY <1>1, <1>6 DEF AuditInv, AuditReported, Audit!Required, Audit!CleanupQueued
<1> QED
  BY <1>1, <1>2, <1>3, <1>4, <1>5, <1>6 DEF AuditInv

\* The comparison, when everything was listed.
LEMMA AuditCompares == AuditInv /\ Audit!Compare => AuditInv'
<1> SUFFICES ASSUME AuditInv, Audit!Compare PROVE AuditInv'
  OBVIOUS
<1>1. /\ audit.phase = "listing" /\ audit.left = {} /\ audit' = Audit!NoAudit
      /\ UNCHANGED <<kept, key, tried, objects, erased, touched>>
  BY DEF Audit!Compare
<1>2. /\ \A v : v \in report'.missing <=>
             \E r \in audit.rows : /\ Audit!Missed(r) /\ Audit!NameOf(r) \notin audit.seen
                                   /\ r.version = v
      /\ \A o : o \in report'.orphans <=>
             o \in audit.seen /\ ~\E r \in audit.rows : Audit!NameOf(r) = o
  BY DEF Audit!Compare, Audit!RowsRead
<1>3. AuditTypes' /\ (\A v \in Auditing.version : AuditVersion(v)') /\ audit'.phase # "listing"
  BY <1>1 DEF AuditInv, AuditTypes, AuditVersion, Audit!NoAudit
<1>4. \A r \in audit.rows : AuditRow(r)
  BY <1>1 DEF AuditInv
<1>5. ASSUME NEW v \in report'.missing PROVE AuditMissing(v)'
  <2>1. PICK r \in audit.rows : Audit!Missed(r) /\ Audit!NameOf(r) \notin audit.seen /\ r.version = v
    BY <1>2
  <2> QED
    BY <1>1, <1>4, <2>1 DEF AuditRow, AuditMissing, Audit!Missed, Audit!NameOf
<1>6. ASSUME NEW v \in Auditing.version \ touched PROVE AuditReported(v)'
  <2>1. AuditUntouched(v) /\ AuditVersion(v) /\ key[v] \in Nat
    BY <1>1 DEF AuditInv, AuditTypes
  <2>2. \A n \in 1..Auditing.attempts : <<v, n>> \in audit.seen <=> <<v, n>> \in objects
    BY <1>1, <2>1 DEF AuditUntouched
  <2>3. Audit!Required(v) => key[v] \in 1..Auditing.attempts
    BY <2>1, AuditConstants DEF AuditVersion, Audit!Required
  <2>4. v \in report'.missing <=> (Audit!Required(v) /\ ~Audit!CleanupQueued(v) /\ <<v, key[v]>> \notin objects)
    <3>1. ASSUME v \in report'.missing
          PROVE  Audit!Required(v) /\ ~Audit!CleanupQueued(v) /\ <<v, key[v]>> \notin objects
      <4>1. PICK r \in audit.rows : Audit!Missed(r) /\ Audit!NameOf(r) \notin audit.seen /\ r.version = v
        BY <1>2, <3>1
      <4>2. Audit!Required(v) /\ ~Audit!CleanupQueued(v) /\ r.key = key[v]
        BY <2>1, <4>1 DEF AuditUntouched, Audit!Missed
      <4> QED
        BY <2>2, <2>3, <4>1, <4>2 DEF Audit!NameOf
    <3>2. ASSUME Audit!Required(v), ~Audit!CleanupQueued(v), <<v, key[v]>> \notin objects
          PROVE  v \in report'.missing
      <4>1. PICK r \in audit.rows : r.version = v
        BY <2>1, <3>2 DEF AuditUntouched
      <4>2. r.key = key[v] /\ Audit!Missed(r)
        BY <2>1, <3>2, <4>1 DEF AuditUntouched, Audit!Missed
      <4>3. Audit!NameOf(r) \notin audit.seen
        BY <2>2, <2>3, <3>2, <4>1, <4>2 DEF Audit!NameOf
      <4> QED
        BY <1>2, <4>1, <4>2, <4>3
    <3> QED
      BY <3>1, <3>2
  <2>5. ASSUME NEW n \in 1..Auditing.attempts
        PROVE  <<v, n>> \in report'.orphans <=>
                 (<<v, n>> \in objects /\ (key[v] = n => ~(Audit!Required(v) \/ Audit!CleanupQueued(v))))
    <3>1. Audit!InUpload(v) => key[v] # n
      BY <2>1, AuditConstants DEF AuditVersion, Audit!InUpload, Unsealed
    <3>2. (\E r \in audit.rows : Audit!NameOf(r) = <<v, n>>) <=>
            (key[v] = n /\ (Audit!Required(v) \/ Audit!CleanupQueued(v)))
      BY <2>1, <3>1 DEF AuditUntouched, Audit!NameOf
    <3>3. <<v, n>> \in report'.orphans <=>
            (<<v, n>> \in audit.seen /\ ~\E r \in audit.rows : Audit!NameOf(r) = <<v, n>>)
      BY <1>2
    <3> QED
      BY <2>2, <3>2, <3>3
  <2>6. /\ (Audit!Required(v) <=> Audit!Required(v)')
        /\ (Audit!CleanupQueued(v) <=> Audit!CleanupQueued(v)')
    BY <1>1 DEF Audit!Required, Audit!CleanupQueued
  <2> QED
    BY <1>1, <2>4, <2>5, <2>6 DEF AuditReported
<1> QED
  BY <1>1, <1>3, <1>5, <1>6 DEF AuditInv

\* An audit that fails reports nothing.
LEMMA AuditEnds == AuditInv /\ Audit!AuditFails => AuditInv'
<1> SUFFICES ASSUME AuditInv, Audit!AuditFails PROVE AuditInv'
  OBVIOUS
<1>1. UNCHANGED <<kept, key, tried, objects, erased, report, touched>> /\ audit'.phase # "listing"
  BY DEF Audit!AuditFails, Audit!NoAudit
<1>2. AuditTypes' /\ (\A v \in Auditing.version : AuditVersion(v)')
  BY <1>1 DEF AuditInv, AuditTypes, AuditVersion
<1>3. \A v \in report.missing : AuditMissing(v)'
  BY <1>1 DEF AuditInv, AuditMissing
<1>4. ASSUME report.made, NEW v \in Auditing.version \ touched PROVE AuditReported(v)'
  BY <1>1, <1>4 DEF AuditInv, AuditReported, Audit!Required, Audit!CleanupQueued
<1> QED
  BY <1>1, <1>2, <1>3, <1>4 DEF AuditInv

\* Every step of the component preserves the invariant.
LEMMA AuditStep == AuditInv /\ Audit!Next => AuditInv'
BY AuditUploads, AuditDeletes, AuditReads, AuditSees, AuditCompares, AuditEnds DEF Audit!Next

\* So does a step of another one.
LEMMA AuditRests == AuditInv /\ UNCHANGED auditVars => AuditInv'
BY DEF auditVars, AuditInv, AuditTypes, AuditVersion, AuditRow, AuditUntouched, AuditMissing, AuditReported,
       Audit!Required, Audit!InUpload, Audit!CleanupQueued

\* The invariant always holds.
LEMMA AuditInvariant == SuiteSpec => []AuditInv
<1>1. SuiteInit => AuditInv
  BY AuditInit DEF SuiteInit
<1>2. AuditInv /\ [SuiteNext]_suiteVars => AuditInv'
  BY AuditStep, AuditRests DEF SuiteNext, suiteVars
<1> QED
  BY <1>1, <1>2, PTL DEF SuiteSpec

\* The invariant is what the run checks of the audit, and more.
LEMMA AuditSafe == AuditInv => Audit!TypeOK /\ Audit!MissingIsMissing /\ Audit!UntouchedReportedRight
<1> SUFFICES ASSUME AuditInv
             PROVE  Audit!TypeOK /\ Audit!MissingIsMissing /\ Audit!UntouchedReportedRight
  OBVIOUS
<1>1. Audit!TypeOK
  <2>1. \A v \in Auditing.version : key[v] \in 0..Auditing.attempts /\ tried[v] \in 0..Auditing.attempts
    BY AuditConstants DEF AuditInv, AuditTypes, AuditVersion
  <2> QED
    BY <2>1 DEF AuditInv, AuditTypes, AuditVersion, Audit!TypeOK
<1>2. Audit!MissingIsMissing
  BY DEF AuditInv, AuditMissing, Audit!MissingIsMissing
<1>3. Audit!UntouchedReportedRight
  BY DEF AuditInv, AuditReported, Audit!UntouchedReportedRight
<1> QED
  BY <1>1, <1>2, <1>3

-----------------------------------------------------------------------------
(* The handshake. *)

HandPhase == {"idle", "opening", "attaching", "yielding", "refused", "listing", "listed"}
MaybeId == Handshake!UploadId \cup {0}
OpenerRow == [phase : HandPhase, id : MaybeId, own : MaybeId, seen : SUBSET Handing.part]
CancelRow == [phase : {"idle", "parts", "row"}, id : MaybeId]

HandTypes ==
    /\ status \in {"initiated", "uploading", "completing", "aborted", "expired"}
    /\ expired \in BOOLEAN /\ attached \in MaybeId
    /\ recorded \subseteq Handing.part /\ open \subseteq Handshake!UploadId /\ lost \subseteq Handshake!UploadId
    /\ parts \in [Handshake!UploadId -> SUBSET Handing.part]
    /\ opened \in Nat /\ opened <= Handing.opened /\ attached <= opened
    /\ handling \in [Handing.request -> OpenerRow] /\ cancel \in [Handing.cancel -> CancelRow]

\* The session's own upload is there once it is uploading; its parts are.
HandSession ==
    /\ status = "initiated" => attached = 0
    /\ status = "uploading" => attached # 0
    /\ attached = 0 => recorded = {}
    /\ attached \in Handshake!UploadId => recorded \subseteq parts[attached]
    /\ open \subseteq {attached} \cup {handling[r].own : r \in Handing.request} \cup lost

\* An upload that was opened is one request's alone, and the session's only where
\* that request attached it; no one gives up what the session has, or it is lost.
HandRequest(r) ==
    /\ handling[r].own <= opened
    /\ handling[r].phase = "attaching" =>
         handling[r].own # 0 /\ handling[r].own # attached /\ handling[r].own \in open \cup lost
    /\ handling[r].phase \in {"yielding", "refused"} =>
         handling[r].own # 0 /\ (handling[r].own = attached => attached \in lost)
    /\ handling[r].phase = "yielding" => handling[r].own # attached
    /\ handling[r].phase \in {"yielding", "listing"} => handling[r].id = attached /\ attached # 0
    /\ handling[r].phase = "listing" => handling[r].own \in {0, attached}
    /\ handling[r].phase \in {"idle", "opening", "listed"} => handling[r].own = 0
    /\ handling[r].phase = "listed" => attached # 0 /\ handling[r].seen \subseteq parts[attached]

OwnsApart ==
    \A r, q \in Handing.request : r # q /\ handling[r].own # 0 => handling[r].own # handling[q].own

\* Where the session's upload was closed, a cancellation is about to end the session.
HandClosed ==
    Handshake!Transferring /\ attached # 0 /\ attached \notin open \cup lost =>
        \E c \in Handing.cancel : cancel[c].phase = "row" /\ cancel[c].id = attached

HandCancel(c) ==
    /\ cancel[c].id \in {0, attached}
    /\ cancel[c].phase = "parts" => cancel[c].id # 0

HandInv ==
    /\ HandTypes /\ HandSession /\ OwnsApart /\ HandClosed
    /\ \A r \in Handing.request : HandRequest(r)
    /\ \A c \in Handing.cancel : HandCancel(c)

\* What the handshake assumes of its constants.
LEMMA HandConstants == Handing.opened \in Nat /\ Handing.opened # 0
BY StoreAssumption DEF Handshake!OpenedAssumption

\* An identifier is a number from one on.
LEMMA HandIds ==
  /\ \A i : i \in Handshake!UploadId <=> (i \in Nat /\ i # 0 /\ i <= Handing.opened)
  /\ \A i : i \in MaybeId <=> (i \in Nat /\ i <= Handing.opened)
BY HandConstants DEF Handshake!UploadId, MaybeId

\* A request that rests holds nothing.
LEMMA HandRests ==
  /\ Handshake!Resting \in OpenerRow /\ Handshake!Resting.own = 0
  /\ Handshake!Resting.phase = "idle" /\ Handshake!Resting.id = 0
BY HandIds, HandConstants DEF Handshake!Resting, Handshake!None, OpenerRow, HandPhase

\* Before any request the invariant holds.
LEMMA HandInit == Handshake!Init => HandInv
<1> SUFFICES ASSUME Handshake!Init PROVE HandInv
  OBVIOUS
<1> USE HandConstants, HandIds DEF Handshake!Init, Handshake!None
<1>1. Handshake!Resting \in OpenerRow /\ Handshake!Resting.own = 0 /\ Handshake!Resting.phase = "idle"
  BY DEF Handshake!Resting, OpenerRow, HandPhase
<1>2. Handshake!NoCancel \in CancelRow /\ Handshake!NoCancel.id = 0 /\ Handshake!NoCancel.phase = "idle"
  BY DEF Handshake!NoCancel, CancelRow
<1>3. HandTypes
  <2>1. parts \in [Handshake!UploadId -> SUBSET Handing.part]
    OBVIOUS
  <2>2. handling \in [Handing.request -> OpenerRow] /\ cancel \in [Handing.cancel -> CancelRow]
    BY <1>1, <1>2
  <2>3. opened \in Nat /\ opened <= Handing.opened /\ attached = 0 /\ attached \in MaybeId
    OBVIOUS
  <2>4. expired \in BOOLEAN
    OBVIOUS
  <2> QED
    BY <2>1, <2>2, <2>3, <2>4 DEF HandTypes
<1>4. HandSession /\ OwnsApart /\ HandClosed
  <2>1. 0 \notin Handshake!UploadId /\ attached = 0 /\ recorded = {} /\ open = {} /\ status = "initiated"
    OBVIOUS
  <2>2. HandSession
    BY <2>1 DEF HandSession
  <2>3. \A r \in Handing.request : handling[r].own = 0
    BY <1>1
  <2>4. OwnsApart
    BY <2>3 DEF OwnsApart
  <2>5. HandClosed
    BY <2>1 DEF HandClosed
  <2> QED
    BY <2>2, <2>4, <2>5
<1>5. \A r \in Handing.request : HandRequest(r)
  BY <1>1 DEF HandRequest
<1>6. \A c \in Handing.cancel : HandCancel(c)
  BY <1>2 DEF HandCancel
<1> QED
  BY <1>3, <1>4, <1>5, <1>6 DEF HandInv

\* A request moves and leaves the session's row alone: it opens an upload of its own,
\* keeps the one it has, or gives it up, closed or lost.
LEMMA HandMoves ==
  ASSUME HandInv, NEW r \in Handing.request, NEW q \in OpenerRow, handling' = [handling EXCEPT ![r] = q],
         UNCHANGED <<status, expired, attached, parts, cancel>>,
         opened' \in Nat, opened <= opened', opened' <= Handing.opened,
         recorded' \subseteq Handing.part, attached = 0 => recorded' = {},
         attached \in Handshake!UploadId => recorded' \subseteq parts[attached],
         lost \subseteq lost', lost' \subseteq Handshake!UploadId, open' \subseteq Handshake!UploadId,
         open' \subseteq open \cup {q.own},
         handling[r].own \in open' => handling[r].own \in {q.own, attached} \cup lost',
         \A i \in open : i \in open' \cup lost' \/ (i # attached /\ i = handling[r].own),
         q.own = 0 \/ q.own = handling[r].own \/ q.own > opened,
         HandRequest(r)'
  PROVE  HandInv'
<1> USE HandConstants, HandIds
<1>0. /\ \A p \in Handing.request \ {r} : handling'[p] = handling[p]
      /\ handling'[r] = q /\ handling' \in [Handing.request -> OpenerRow]
  BY DEF HandInv, HandTypes
<1>1. HandTypes'
  BY <1>0 DEF HandInv, HandTypes
<1>2. HandSession'
  <2>1. open' \subseteq {attached} \cup {handling'[p].own : p \in Handing.request} \cup lost'
    <3> SUFFICES ASSUME NEW i \in open', i # attached, i \notin lost'
                 PROVE  \E p \in Handing.request : i = handling'[p].own
      OBVIOUS
    <3>1. CASE i = q.own
      BY <1>0, <3>1
    <3>2. CASE i \in open
      <4>1. PICK p \in Handing.request : i = handling[p].own
        BY <3>2 DEF HandInv, HandSession
      <4> QED
        BY <1>0, <4>1
    <3> QED
      BY <3>1, <3>2
  <2> QED
    BY <2>1 DEF HandInv, HandSession
<1>3. OwnsApart'
  <2>1. \A p \in Handing.request \ {r} : q.own # 0 => q.own # handling[p].own
    <3> TAKE p \in Handing.request \ {r}
    <3>1. handling[p].own \in Nat /\ handling[p].own <= opened /\ opened \in Nat
      BY DEF HandInv, HandTypes, HandRequest, OpenerRow
    <3>2. handling[r].own # 0 => handling[r].own # handling[p].own
      BY DEF HandInv, OwnsApart
    <3>3. q.own \in Nat
      BY DEF OpenerRow
    <3> QED
      BY <3>1, <3>2, <3>3
  <2> QED
    BY <1>0, <2>1 DEF HandInv, OwnsApart
<1>4. HandClosed'
  BY DEF HandInv, HandClosed, Handshake!Transferring
<1>5. ASSUME NEW p \in Handing.request \ {r} PROVE HandRequest(p)'
  <2>1. HandRequest(p) /\ handling'[p] = handling[p] /\ handling[p].own \in Nat /\ opened \in Nat
    BY <1>0 DEF HandInv, HandTypes, OpenerRow
  <2>2. handling[p].own # 0 => handling[p].own # handling[r].own
    BY DEF HandInv, OwnsApart
  <2> QED
    BY <2>1, <2>2 DEF HandRequest
<1>6. \A c \in Handing.cancel : HandCancel(c)'
  BY DEF HandInv, HandCancel
<1> QED
  BY <1>1, <1>2, <1>3, <1>4, <1>5, <1>6 DEF HandInv

\* Loading the session, and opening an upload where there is none.
LEMMA HandOpens ==
  ASSUME HandInv, NEW r \in Handing.request, Handshake!LoadUpload(r) \/ Handshake!NewMultipartUpload(r)
  PROVE  HandInv'
<1> USE HandConstants, HandIds DEF Handshake!row, Handshake!store, Handshake!None
<1>1. /\ handling[r] \in OpenerRow /\ HandRequest(r) /\ HandTypes /\ HandSession
      /\ handling \in [Handing.request -> OpenerRow] /\ opened \in Nat /\ opened <= Handing.opened
  BY DEF HandInv, HandTypes
<1>2. CASE Handshake!LoadUpload(r)
  <2>1. PICK q : q = [phase |-> IF attached = 0 THEN "opening" ELSE "listing", id |-> attached, own |-> 0, seen |-> {}]
    OBVIOUS
  <2>2. /\ q \in OpenerRow /\ q.own = 0 /\ q.id = attached
        /\ q.phase = (IF attached = 0 THEN "opening" ELSE "listing")
    BY <1>1, <2>1 DEF OpenerRow, HandPhase, HandTypes
  <2>3. /\ handling' = [handling EXCEPT ![r] = q] /\ handling[r].own = 0
        /\ UNCHANGED <<status, expired, attached, recorded, open, parts, opened, cancel, lost>>
    BY <1>2, <2>1 DEF Handshake!LoadUpload, Handshake!Goes, Handshake!Resting
  <2>4. HandRequest(r)'
    BY <1>1, <2>2, <2>3 DEF HandRequest
  <2>5. 0 \notin open
    BY <1>1 DEF HandTypes
  <2>6. /\ open' \subseteq open \cup {q.own} /\ \A i \in open : i \in open'
        /\ handling[r].own \notin open' /\ lost \subseteq lost'
        /\ attached = 0 => recorded' = {}
        /\ attached \in Handshake!UploadId => recorded' \subseteq parts[attached]
    BY <1>1, <2>3, <2>5 DEF HandTypes, HandSession
  <2>7. opened' \in Nat /\ opened <= opened' /\ opened' <= Handing.opened
    BY <1>1, <2>3
  <2> QED
    BY <1>1, <2>2, <2>3, <2>4, <2>6, <2>7, HandMoves DEF HandTypes
<1>3. CASE Handshake!NewMultipartUpload(r)
  <2>1. PICK q : q = [phase |-> "attaching", id |-> 0, own |-> opened + 1, seen |-> {}]
    OBVIOUS
  <2>2. opened' = opened + 1 /\ opened < Handing.opened /\ opened + 1 \in Handshake!UploadId
    BY <1>1, <1>3 DEF Handshake!NewMultipartUpload
  <2>3. q \in OpenerRow /\ q.own = opened + 1 /\ q.phase = "attaching"
    BY <2>1, <2>2 DEF OpenerRow, HandPhase
  <2>4. /\ handling' = [handling EXCEPT ![r] = q] /\ handling[r].own = 0
        /\ UNCHANGED <<status, expired, attached, recorded, parts, cancel, lost>>
        /\ open' = open \cup {opened + 1}
    BY <1>1, <1>3, <2>1, <2>2 DEF Handshake!NewMultipartUpload, Handshake!Goes, HandRequest
  <2>5. attached # opened + 1 /\ handling'[r] = q
    BY <1>1, <2>4 DEF HandTypes
  <2>6. HandRequest(r)'
    BY <1>1, <2>2, <2>3, <2>4, <2>5 DEF HandRequest
  <2>7. 0 \notin open' /\ open' \subseteq Handshake!UploadId
    BY <1>1, <2>2, <2>4 DEF HandTypes
  <2>8. /\ open' \subseteq open \cup {q.own} /\ \A i \in open : i \in open'
        /\ handling[r].own \notin open' /\ lost \subseteq lost'
        /\ attached = 0 => recorded' = {}
        /\ attached \in Handshake!UploadId => recorded' \subseteq parts[attached]
    BY <1>1, <2>3, <2>4, <2>7 DEF HandTypes, HandSession
  <2>9. opened' \in Nat /\ opened <= opened' /\ opened' <= Handing.opened /\ q.own > opened
    BY <1>1, <2>2, <2>3
  <2> QED
    BY <1>1, <2>2, <2>3, <2>4, <2>6, <2>7, <2>8, <2>9, HandMoves DEF HandTypes
<1> QED
  BY <1>2, <1>3

\* The first to attach its upload wins; all others hear of it, or of nothing.
LEMMA HandAttaches ==
  ASSUME HandInv, NEW r \in Handing.request, Handshake!AttachMultipartUpload(r) PROVE HandInv'
<1> USE HandConstants, HandIds DEF Handshake!row, Handshake!store, Handshake!None
<1> PICK mine : mine = handling[r].own
  OBVIOUS
<1>1. /\ handling[r] \in OpenerRow /\ HandRequest(r) /\ HandTypes /\ HandSession
      /\ handling \in [Handing.request -> OpenerRow] /\ opened \in Nat /\ opened <= Handing.opened
      /\ handling[r].phase = "attaching" /\ mine # 0 /\ mine # attached /\ mine \in Handshake!UploadId
      /\ mine <= opened /\ mine \in open \cup lost
  <2>1. handling[r] \in OpenerRow /\ HandRequest(r)
    BY DEF HandInv, HandTypes
  <2>2. handling[r].phase = "attaching" /\ mine # 0 /\ mine # attached /\ mine <= opened /\ mine \in open \cup lost
    BY <2>1 DEF Handshake!AttachMultipartUpload, HandRequest
  <2>3. mine \in Handshake!UploadId
    BY <2>1, <2>2 DEF OpenerRow
  <2> QED
    BY <2>1, <2>2, <2>3 DEF HandInv, HandTypes
<1>2. UNCHANGED <<expired, recorded, open, parts, opened, cancel>>
  BY DEF Handshake!AttachMultipartUpload
<1>3. ASSUME NEW p \in {"yielding", "listing", "refused"}, NEW i \in MaybeId, Handshake!Goes(r, p, i, mine, {})
      PROVE  \E q \in OpenerRow : handling' = [handling EXCEPT ![r] = q] /\ q.phase = p /\ q.own = mine /\ q.id = i
  <2>1. PICK q : q = [phase |-> p, id |-> i, own |-> mine, seen |-> {}]
    OBVIOUS
  <2>2. q \in OpenerRow /\ q.phase = p /\ q.own = mine /\ q.id = i
    BY <1>1, <2>1 DEF OpenerRow, HandPhase
  <2>3. handling' = [handling EXCEPT ![r] = q]
    BY <1>3, <2>1 DEF Handshake!Goes
  <2> QED
    BY <2>2, <2>3
<1>4. mine \notin {0} /\ 0 \in MaybeId /\ attached \in MaybeId /\ mine \in MaybeId
  BY <1>1 DEF HandTypes
<1>5. CASE ~Handshake!Attachable
  <2>1. Handshake!Goes(r, "refused", 0, mine, {}) /\ UNCHANGED <<attached, status, lost>>
    BY <1>5 DEF Handshake!AttachMultipartUpload
  <2>2. PICK q \in OpenerRow : handling' = [handling EXCEPT ![r] = q] /\ q.phase = "refused" /\ q.own = mine
    BY <1>3, <1>4, <2>1
  <2>3. handling'[r] = q
    BY <1>1, <2>2
  <2>4. HandRequest(r)'
    BY <1>1, <1>2, <2>1, <2>2, <2>3 DEF HandRequest
  <2>5. /\ open' \subseteq open \cup {q.own} /\ \A i \in open : i \in open'
        /\ lost \subseteq lost' /\ lost' \subseteq Handshake!UploadId /\ open' \subseteq Handshake!UploadId
        /\ attached = 0 => recorded' = {} /\ recorded' \subseteq Handing.part
        /\ attached \in Handshake!UploadId => recorded' \subseteq parts[attached]
    BY <1>1, <1>2, <2>1 DEF HandTypes, HandSession
  <2>6. opened' \in Nat /\ opened <= opened' /\ opened' <= Handing.opened /\ recorded' \subseteq Handing.part
    BY <1>1, <1>2 DEF HandTypes
  <2> QED
    BY <1>1, <1>2, <2>1, <2>2, <2>4, <2>5, <2>6, HandMoves
<1>6. CASE Handshake!Attachable
  <2>1. /\ attached' = (IF attached = 0 THEN mine ELSE attached) /\ status' = "uploading"
        /\ \/ /\ Handshake!Goes(r, IF attached' # mine THEN "yielding" ELSE "listing", attached', mine, {})
              /\ UNCHANGED lost
           \/ Handshake!Goes(r, "refused", 0, mine, {}) /\ lost' = lost \cup ({mine} \cap {attached'})
    BY <1>6 DEF Handshake!AttachMultipartUpload, Handshake!FirstAttached
  <2>2. attached' \in MaybeId /\ attached' # 0 /\ (attached # 0 => attached' = attached)
    BY <1>1, <1>4, <2>1
  <2>3. PICK q \in OpenerRow :
          /\ handling' = [handling EXCEPT ![r] = q] /\ q.own = mine
          /\ \/ /\ q.phase = (IF attached' # mine THEN "yielding" ELSE "listing")
                /\ q.id = attached' /\ UNCHANGED lost
             \/ q.phase = "refused" /\ lost' = lost \cup ({mine} \cap {attached'})
    <3>1. CASE UNCHANGED lost /\ attached' # mine /\ Handshake!Goes(r, "yielding", attached', mine, {})
      BY <1>3, <2>2, <3>1
    <3>2. CASE UNCHANGED lost /\ attached' = mine /\ Handshake!Goes(r, "listing", attached', mine, {})
      BY <1>3, <2>2, <3>2
    <3>3. CASE Handshake!Goes(r, "refused", 0, mine, {}) /\ lost' = lost \cup ({mine} \cap {attached'})
      BY <1>3, <1>4, <3>3
    <3> QED
      BY <2>1, <3>1, <3>2, <3>3
  <2>4. /\ handling'[r] = q /\ \A p \in Handing.request \ {r} : handling'[p] = handling[p]
        /\ handling' \in [Handing.request -> OpenerRow]
    BY <1>1, <2>3
  <2>5. lost \subseteq lost' /\ lost' \subseteq Handshake!UploadId
    BY <1>1, <2>3 DEF HandTypes
  <2>6. HandTypes'
    BY <1>1, <1>2, <2>1, <2>2, <2>4, <2>5 DEF HandTypes
  <2>7. attached' # attached => attached = 0 /\ attached' = mine
    BY <2>1
  <2>8. HandSession'
    <3>1. {handling'[p].own : p \in Handing.request} = {handling[p].own : p \in Handing.request}
      BY <2>3, <2>4
    <3>2. open' \subseteq {attached'} \cup {handling'[p].own : p \in Handing.request} \cup lost'
      BY <1>1, <1>2, <2>2, <2>5, <3>1 DEF HandSession, HandTypes
    <3> QED
      BY <1>1, <1>2, <2>1, <2>2, <3>2 DEF HandSession
  <2>9. OwnsApart'
    BY <2>3, <2>4 DEF HandInv, OwnsApart
  <2>10. HandRequest(r)'
    BY <1>1, <1>2, <2>1, <2>2, <2>3, <2>4 DEF HandRequest
  <2>11. ASSUME NEW p \in Handing.request \ {r} PROVE HandRequest(p)'
    <3>1. HandRequest(p) /\ handling'[p] = handling[p]
      BY <2>4 DEF HandInv
    <3>2. handling[p].own # mine
      BY <1>1 DEF HandInv, OwnsApart
    <3>3. CASE attached' = attached
      BY <1>2, <2>5, <3>1, <3>3 DEF HandRequest
    <3>4. CASE attached = 0 /\ attached' = mine
      BY <1>2, <2>5, <3>1, <3>2, <3>4 DEF HandRequest
    <3> QED
      BY <2>7, <3>3, <3>4
  <2>12. \A c \in Handing.cancel : HandCancel(c)'
    BY <1>2, <2>2 DEF HandInv, HandCancel
  <2>13. HandClosed'
    <3>1. CASE attached' = attached
      BY <1>2, <1>6, <2>5, <3>1 DEF HandInv, HandClosed, Handshake!Attachable, Handshake!Transferring
    <3>2. CASE attached = 0 /\ attached' = mine
      BY <1>1, <1>2, <2>5, <3>2 DEF HandInv, HandClosed
    <3> QED
      BY <2>7, <3>1, <3>2
  <2> QED
    BY <2>6, <2>8, <2>9, <2>10, <2>11, <2>12, <2>13 DEF HandInv
<1> QED
  BY <1>5, <1>6

\* A request gives up the upload it opened, which is not the session's.
LEMMA HandGivesUp ==
  ASSUME HandInv, NEW r \in Handing.request, Handshake!AbortOwn(r) PROVE HandInv'
<1> USE HandConstants, HandIds DEF Handshake!row, Handshake!None
<1>1. /\ handling[r] \in OpenerRow /\ HandRequest(r) /\ HandTypes /\ HandSession
      /\ handling \in [Handing.request -> OpenerRow] /\ opened \in Nat /\ opened <= Handing.opened
  BY DEF HandInv, HandTypes
<1>2. /\ handling[r].phase \in {"yielding", "refused"} /\ handling[r].own # 0
      /\ handling[r].own \in Handshake!UploadId /\ (handling[r].own = attached => attached \in lost)
  BY <1>1 DEF Handshake!AbortOwn, HandRequest, OpenerRow
<1>3. /\ UNCHANGED <<status, expired, attached, recorded, parts, opened, cancel>>
      /\ \/ open' = open \ {handling[r].own} /\ UNCHANGED lost
         \/ lost' = lost \cup {handling[r].own} /\ UNCHANGED open
  BY DEF Handshake!AbortOwn, Handshake!GivenUp
<1>4. PICK q \in OpenerRow : /\ handling' = [handling EXCEPT ![r] = q] /\ q.own = 0
                             /\ \/ q.phase = "listing" /\ q.id = handling[r].id /\ handling[r].phase = "yielding"
                                \/ q.phase = "idle"
  <2>1. CASE handling[r].phase = "yielding"
    <3>1. PICK q : q = [phase |-> "listing", id |-> handling[r].id, own |-> 0, seen |-> {}]
      OBVIOUS
    <3>2. q \in OpenerRow /\ q.own = 0 /\ q.phase = "listing" /\ q.id = handling[r].id
      BY <1>1, <3>1 DEF OpenerRow, HandPhase
    <3>3. handling' = [handling EXCEPT ![r] = q]
      BY <2>1, <3>1 DEF Handshake!AbortOwn, Handshake!Goes
    <3> QED
      BY <2>1, <3>2, <3>3
  <2>2. CASE handling[r].phase # "yielding"
    BY <2>2, HandRests DEF Handshake!AbortOwn
  <2> QED
    BY <2>1, <2>2
<1>5. handling'[r] = q
  BY <1>1, <1>4
<1>6. HandRequest(r)'
  BY <1>1, <1>3, <1>4, <1>5 DEF HandRequest
<1>7. /\ open' \subseteq open /\ lost \subseteq lost' /\ lost' \subseteq Handshake!UploadId
      /\ open' \subseteq Handshake!UploadId
      /\ handling[r].own \in open' => handling[r].own \in lost'
      /\ \A i \in open : i \in open' \cup lost' \/ (i # attached /\ i = handling[r].own)
  BY <1>1, <1>2, <1>3 DEF HandTypes
<1>8. /\ opened' \in Nat /\ opened <= opened' /\ opened' <= Handing.opened /\ recorded' \subseteq Handing.part
      /\ attached = 0 => recorded' = {}
      /\ attached \in Handshake!UploadId => recorded' \subseteq parts[attached]
  BY <1>1, <1>3 DEF HandTypes, HandSession
<1> QED
  BY <1>3, <1>4, <1>6, <1>7, <1>8, HandMoves

\* Listing the parts and recording them; both are of the session's upload.
LEMMA HandLists ==
  ASSUME HandInv, NEW r \in Handing.request,
         Handshake!ListMultipartParts(r) \/ Handshake!ReplaceUploadParts(r)
  PROVE  HandInv'
<1> USE HandConstants, HandIds DEF Handshake!row, Handshake!store, Handshake!None
<1>1. /\ handling[r] \in OpenerRow /\ HandRequest(r) /\ HandTypes /\ HandSession
      /\ handling \in [Handing.request -> OpenerRow] /\ opened \in Nat /\ opened <= Handing.opened
  BY DEF HandInv, HandTypes
<1>2. /\ UNCHANGED <<status, expired, attached, open, parts, opened, cancel, lost>>
      /\ open \subseteq Handshake!UploadId /\ lost \subseteq Handshake!UploadId
      /\ handling[r].own \in open => handling[r].own \in {attached} \cup lost
  BY <1>1 DEF Handshake!ListMultipartParts, Handshake!ReplaceUploadParts, HandTypes, HandRequest
<1>3. CASE Handshake!ListMultipartParts(r)
  <2>1. handling[r].phase = "listing" /\ handling[r].id = attached /\ attached \in Handshake!UploadId
        /\ UNCHANGED recorded
    BY <1>1, <1>3 DEF Handshake!ListMultipartParts, HandRequest, HandTypes
  <2>2. PICK q \in OpenerRow : /\ handling' = [handling EXCEPT ![r] = q] /\ q.own = 0
                               /\ \/ q.phase = "listed" /\ q.seen = parts[attached]
                                  \/ q.phase = "idle"
    <3>1. CASE handling[r].id \in open
      <4>1. PICK q : q = [phase |-> "listed", id |-> 0, own |-> 0, seen |-> parts[attached]]
        OBVIOUS
      <4>2. q \in OpenerRow /\ q.own = 0 /\ q.phase = "listed" /\ q.seen = parts[attached]
        BY <1>1, <2>1, <4>1 DEF OpenerRow, HandPhase, HandTypes
      <4>3. handling' = [handling EXCEPT ![r] = q]
        BY <1>3, <2>1, <3>1, <4>1 DEF Handshake!ListMultipartParts, Handshake!Goes
      <4> QED
        BY <4>2, <4>3
    <3>2. CASE handling[r].id \notin open
      BY <1>3, <3>2, HandRests DEF Handshake!ListMultipartParts
    <3> QED
      BY <3>1, <3>2
  <2>3. handling'[r] = q
    BY <1>1, <2>2
  <2>4. HandRequest(r)'
    BY <1>1, <1>2, <2>1, <2>2, <2>3 DEF HandRequest
  <2>5. recorded' \subseteq Handing.part /\ recorded' \subseteq parts[attached]
    BY <1>1, <2>1 DEF HandTypes, HandSession
  <2>6. /\ open' \subseteq open \cup {q.own} /\ open' \subseteq Handshake!UploadId
        /\ lost \subseteq lost' /\ lost' \subseteq Handshake!UploadId
        /\ handling[r].own \in open' => handling[r].own \in {q.own, attached} \cup lost'
        /\ \A i \in open : i \in open' \cup lost' \/ (i # attached /\ i = handling[r].own)
        /\ attached # 0 /\ q.own = 0
    BY <1>2, <2>1, <2>2
  <2>7. opened' \in Nat /\ opened <= opened' /\ opened' <= Handing.opened
    BY <1>1, <1>2
  <2> QED
    BY <1>2, <2>2, <2>4, <2>5, <2>6, <2>7, HandMoves
<1>4. CASE Handshake!ReplaceUploadParts(r)
  <2>1. /\ handling[r].phase = "listed" /\ recorded' = handling[r].seen /\ attached # 0
        /\ recorded' \subseteq parts[attached] /\ recorded' \subseteq Handing.part
        /\ handling' = [handling EXCEPT ![r] = Handshake!Resting]
    BY <1>1, <1>4 DEF Handshake!ReplaceUploadParts, Handshake!Listed, HandRequest, OpenerRow
  <2>2. PICK q \in OpenerRow : handling' = [handling EXCEPT ![r] = q] /\ q.own = 0 /\ q.phase = "idle"
    BY <2>1, HandRests
  <2>3. handling'[r] = q
    BY <1>1, <2>2
  <2>4. HandRequest(r)'
    BY <1>1, <1>2, <2>2, <2>3 DEF HandRequest
  <2>6. /\ open' \subseteq open \cup {q.own} /\ open' \subseteq Handshake!UploadId
        /\ lost \subseteq lost' /\ lost' \subseteq Handshake!UploadId
        /\ handling[r].own \in open' => handling[r].own \in {q.own, attached} \cup lost'
        /\ \A i \in open : i \in open' \cup lost' \/ (i # attached /\ i = handling[r].own)
        /\ attached # 0 /\ q.own = 0
    BY <1>2, <2>1, <2>2
  <2>7. opened' \in Nat /\ opened <= opened' /\ opened' <= Handing.opened
    BY <1>1, <1>2
  <2> QED
    BY <1>2, <2>1, <2>2, <2>4, <2>6, <2>7, HandMoves
<1> QED
  BY <1>3, <1>4

\* A request dies, and loses the upload it opened.
LEMMA HandDies ==
  ASSUME HandInv, NEW r \in Handing.request, Handshake!RequestDies(r) PROVE HandInv'
<1> USE HandConstants, HandIds DEF Handshake!row, Handshake!store, Handshake!None
<1>1. /\ handling[r] \in OpenerRow /\ HandRequest(r) /\ HandTypes /\ HandSession
      /\ handling \in [Handing.request -> OpenerRow] /\ opened \in Nat /\ opened <= Handing.opened
  BY DEF HandInv, HandTypes
<1>2. /\ UNCHANGED <<status, expired, attached, recorded, open, parts, opened, cancel>>
      /\ lost' = lost \cup ({handling[r].own} \ {0, attached})
  BY DEF Handshake!RequestDies
<1>3. PICK q \in OpenerRow : handling' = [handling EXCEPT ![r] = q] /\ q.own = 0 /\ q.phase = "idle"
  BY HandRests DEF Handshake!RequestDies
<1>4. handling'[r] = q /\ handling[r].own \in MaybeId
  BY <1>1, <1>3 DEF OpenerRow
<1>5. HandRequest(r)'
  BY <1>1, <1>2, <1>3, <1>4 DEF HandRequest
<1>6. /\ lost \subseteq lost' /\ lost' \subseteq Handshake!UploadId /\ open' \subseteq Handshake!UploadId
      /\ 0 \notin open /\ (handling[r].own \in open => handling[r].own \in {attached} \cup lost')
  BY <1>1, <1>2, <1>4 DEF HandTypes
<1>7. /\ recorded' \subseteq Handing.part /\ (attached = 0 => recorded' = {})
      /\ attached \in Handshake!UploadId => recorded' \subseteq parts[attached]
  BY <1>1, <1>2 DEF HandTypes, HandSession
<1>8. /\ open' \subseteq open \cup {q.own} /\ (\A i \in open : i \in open' \cup lost')
      /\ handling[r].own \in open' => handling[r].own \in {q.own, attached} \cup lost'
  BY <1>2, <1>6
<1>9. opened' \in Nat /\ opened <= opened' /\ opened' <= Handing.opened
  BY <1>1, <1>2
<1> QED
  BY <1>2, <1>3, <1>5, <1>6, <1>7, <1>8, <1>9, HandMoves

\* Parts go up, the deadline passes, the session is expired or handed over.
LEMMA HandSettles ==
  ASSUME HandInv,
         \/ \E p \in Handing.part : Handshake!PutPart(p)
         \/ Handshake!DeadlinePasses \/ Handshake!MarkUploadExpired \/ Handshake!QueueUploadCompletion
  PROVE  HandInv'
<1> USE HandConstants, HandIds DEF Handshake!row, Handshake!store, Handshake!None
<1>1. HandTypes /\ HandSession /\ OwnsApart /\ HandClosed
  BY DEF HandInv
<1>2. UNCHANGED <<attached, recorded, open, opened, handling, cancel, lost>>
  BY DEF Handshake!PutPart, Handshake!DeadlinePasses, Handshake!MarkUploadExpired, Handshake!QueueUploadCompletion
<1>3. /\ parts' \in [Handshake!UploadId -> SUBSET Handing.part]
      /\ \A i \in Handshake!UploadId : parts[i] \subseteq parts'[i]
  <2>1. CASE \E p \in Handing.part : Handshake!PutPart(p)
    BY <1>1, <2>1 DEF HandTypes, Handshake!PutPart
  <2>2. CASE UNCHANGED parts
    BY <1>1, <2>2 DEF HandTypes
  <2> QED
    BY <2>1, <2>2 DEF Handshake!DeadlinePasses, Handshake!MarkUploadExpired, Handshake!QueueUploadCompletion
<1>4. \/ UNCHANGED status
      \/ status' = "expired"
      \/ status' = "completing"
  BY DEF Handshake!PutPart, Handshake!DeadlinePasses, Handshake!MarkUploadExpired, Handshake!QueueUploadCompletion
<1>5. expired' \in BOOLEAN
  BY <1>1 DEF HandTypes, Handshake!PutPart, Handshake!DeadlinePasses, Handshake!MarkUploadExpired,
     Handshake!QueueUploadCompletion
<1>6. HandTypes'
  BY <1>1, <1>2, <1>3, <1>4, <1>5 DEF HandTypes
<1>7. HandSession'
  BY <1>1, <1>2, <1>3, <1>4 DEF HandTypes, HandSession
<1>8. OwnsApart' /\ HandClosed'
  BY <1>1, <1>2, <1>4 DEF OwnsApart, HandClosed, Handshake!Transferring
<1>9. ASSUME NEW r \in Handing.request PROVE HandRequest(r)'
  <2>1. HandRequest(r) /\ attached \in MaybeId
    BY DEF HandInv, HandTypes
  <2>2. attached # 0 => parts[attached] \subseteq parts'[attached]
    BY <1>3, <2>1
  <2> QED
    BY <1>2, <2>1, <2>2 DEF HandRequest
<1>10. \A c \in Handing.cancel : HandCancel(c)'
  BY <1>2 DEF HandInv, HandCancel
<1> QED
  BY <1>6, <1>7, <1>8, <1>9, <1>10 DEF HandInv

\* A cancellation closes the session's upload and ends the session, or dies between.
LEMMA HandCancels ==
  ASSUME HandInv, NEW c \in Handing.cancel,
         \/ Handshake!AbortUploadReservation(c) \/ Handshake!AbortAttached(c)
         \/ Handshake!AbortUpload(c) \/ Handshake!CancelDies(c)
  PROVE  HandInv'
<1> USE HandConstants, HandIds DEF Handshake!row, Handshake!store, Handshake!None
<1>1. /\ HandTypes /\ HandSession /\ OwnsApart /\ HandClosed /\ HandCancel(c)
      /\ cancel \in [Handing.cancel -> CancelRow] /\ cancel[c] \in CancelRow
  BY DEF HandInv, HandTypes
<1>2. UNCHANGED <<expired, attached, recorded, parts, opened, handling>>
  BY DEF Handshake!AbortUploadReservation, Handshake!AbortAttached, Handshake!AbortUpload, Handshake!CancelDies
<1>3. Handshake!NoCancel \in CancelRow /\ Handshake!NoCancel.phase = "idle" /\ Handshake!NoCancel.id = 0
  BY DEF Handshake!NoCancel, CancelRow
<1>4. PICK q \in CancelRow :
        /\ cancel' = [cancel EXCEPT ![c] = q] /\ q.id \in {0, attached} /\ (q.phase = "parts" => q.id # 0)
        /\ \/ /\ cancel[c].phase = "idle" /\ UNCHANGED <<status, open, lost>>
           \/ /\ cancel[c].phase = "parts" /\ open' = open \ {attached} /\ UNCHANGED <<status, lost>>
              /\ q.phase = "row" /\ q.id = attached
           \/ /\ UNCHANGED <<open, lost>> /\ status' \in {"aborted", status} /\ status' \notin {"initiated", "uploading"}
           \/ UNCHANGED <<status, open>> /\ lost' = lost \cup ({cancel[c].id} \ {0})
  <2>1. CASE Handshake!AbortUploadReservation(c)
    <3>1. PICK q : q = [id |-> attached, phase |-> IF attached = 0 THEN "row" ELSE "parts"]
      OBVIOUS
    <3>2. q \in CancelRow /\ q.id = attached /\ (q.phase = "parts" => q.id # 0)
      BY <1>1, <3>1 DEF CancelRow, HandTypes
    <3>3. cancel' = [cancel EXCEPT ![c] = q] /\ cancel[c].phase = "idle" /\ UNCHANGED <<status, open, lost>>
      BY <1>3, <2>1, <3>1 DEF Handshake!AbortUploadReservation
    <3> QED
      BY <3>2, <3>3
  <2>2. CASE Handshake!AbortAttached(c)
    <3>1. PICK q : q = [id |-> cancel[c].id, phase |-> "row"]
      OBVIOUS
    <3>2. cancel[c].phase = "parts" /\ cancel[c].id = attached
      BY <1>1, <2>2 DEF Handshake!AbortAttached, HandCancel
    <3>3. q \in CancelRow /\ q.id = attached /\ q.phase = "row"
      BY <1>1, <3>1, <3>2 DEF CancelRow
    <3>4. cancel' = [cancel EXCEPT ![c] = q] /\ UNCHANGED <<status, lost>> /\ open' = open \ {attached}
      BY <2>2, <3>1, <3>2 DEF Handshake!AbortAttached
    <3> QED
      BY <3>2, <3>3, <3>4
  <2>3. CASE Handshake!AbortUpload(c)
    <3>1. /\ cancel' = [cancel EXCEPT ![c] = Handshake!NoCancel] /\ UNCHANGED <<open, lost>>
          /\ status' \in {"aborted", status} /\ status' \notin {"initiated", "uploading"}
      BY <2>3 DEF Handshake!AbortUpload, Handshake!Transferring
    <3> QED
      BY <1>3, <3>1
  <2>4. CASE Handshake!CancelDies(c)
    <3>1. /\ cancel' = [cancel EXCEPT ![c] = Handshake!NoCancel] /\ UNCHANGED <<status, open>>
          /\ lost' = lost \cup ({cancel[c].id} \ {0})
      BY <2>4 DEF Handshake!CancelDies
    <3> QED
      BY <1>3, <3>1
  <2> QED
    BY <2>1, <2>2, <2>3, <2>4
<1>5. /\ cancel'[c] = q /\ \A d \in Handing.cancel \ {c} : cancel'[d] = cancel[d]
      /\ cancel' \in [Handing.cancel -> CancelRow]
  BY <1>1, <1>4
<1>6. /\ open' \subseteq open /\ lost \subseteq lost' /\ lost' \subseteq Handshake!UploadId
      /\ \A i \in open : i # attached => i \in open'
      /\ status' \in {"initiated", "uploading"} => status' = status
      /\ status' \in {"initiated", "uploading", "completing", "aborted", "expired"}
  BY <1>1, <1>4 DEF HandTypes, CancelRow
<1>7. HandTypes'
  BY <1>1, <1>2, <1>5, <1>6 DEF HandTypes
<1>8. HandSession' /\ OwnsApart'
  BY <1>1, <1>2, <1>6 DEF HandSession, OwnsApart
<1>9. ASSUME NEW r \in Handing.request PROVE HandRequest(r)'
  <2>1. HandRequest(r)
    BY DEF HandInv
  <2> QED
    BY <1>2, <1>6, <2>1 DEF HandRequest
<1>10. \A d \in Handing.cancel : HandCancel(d)'
  BY <1>2, <1>4, <1>5 DEF HandInv, HandCancel
<1>11. HandClosed'
  <2> SUFFICES ASSUME status' \in {"initiated", "uploading"}, attached # 0, attached \notin open', attached \notin lost'
               PROVE  \E d \in Handing.cancel : cancel'[d].phase = "row" /\ cancel'[d].id = attached
    BY <1>2 DEF HandClosed, Handshake!Transferring
  <2>1. CASE attached \in open
    BY <1>4, <1>5, <2>1
  <2>2. CASE attached \notin open
    <3>1. PICK d \in Handing.cancel : cancel[d].phase = "row" /\ cancel[d].id = attached
      BY <1>1, <1>6, <2>2 DEF HandClosed, Handshake!Transferring
    <3>2. CASE d # c
      BY <1>5, <3>1, <3>2
    <3>3. CASE d = c
      BY <1>4, <1>5, <3>1, <3>3
    <3> QED
      BY <3>2, <3>3
  <2> QED
    BY <2>1, <2>2
<1> QED
  BY <1>7, <1>8, <1>9, <1>10, <1>11 DEF HandInv

\* Every step of the handshake keeps the invariant.
LEMMA HandStep == HandInv /\ Handshake!Next => HandInv'
<1> SUFFICES ASSUME HandInv, Handshake!Next PROVE HandInv'
  OBVIOUS
<1>1. CASE \E r \in Handing.request :
             \/ Handshake!LoadUpload(r) \/ Handshake!NewMultipartUpload(r)
             \/ Handshake!AttachMultipartUpload(r) \/ Handshake!AbortOwn(r)
             \/ Handshake!ListMultipartParts(r) \/ Handshake!ReplaceUploadParts(r)
             \/ Handshake!RequestDies(r)
  BY <1>1, HandOpens, HandAttaches, HandGivesUp, HandLists, HandDies
<1>2. CASE \E c \in Handing.cancel :
             \/ Handshake!AbortUploadReservation(c) \/ Handshake!AbortAttached(c)
             \/ Handshake!AbortUpload(c) \/ Handshake!CancelDies(c)
  BY <1>2, HandCancels
<1>3. CASE \/ \E p \in Handing.part : Handshake!PutPart(p)
           \/ Handshake!DeadlinePasses \/ Handshake!MarkUploadExpired \/ Handshake!QueueUploadCompletion
  BY <1>3, HandSettles
<1> QED
  BY <1>1, <1>2, <1>3 DEF Handshake!Next

\* Nor does a step of another component touch it.
LEMMA HandStays == HandInv /\ UNCHANGED handshakeVars => HandInv'
BY DEF HandInv, HandTypes, HandSession, HandRequest, OwnsApart, HandClosed, HandCancel,
   handshakeVars, Handshake!Transferring

\* The handshake's invariant holds in every state of the suite.
LEMMA HandInvariant == SuiteSpec => []HandInv
<1>1. SuiteInit => HandInv
  BY HandInit DEF SuiteInit
<1>2. HandInv /\ [SuiteNext]_suiteVars => HandInv'
  BY HandStep, HandStays DEF SuiteNext, suiteVars
<1> QED
  BY <1>1, <1>2, PTL DEF SuiteSpec

\* What the invariant says of the handshake's properties.
LEMMA HandSafe ==
  HandInv => /\ Handshake!TypeOK /\ Handshake!AttachedStaysOpen
             /\ Handshake!OthersAreGivenUp /\ Handshake!RecordedPartsStored
<1> SUFFICES ASSUME HandInv
             PROVE  /\ Handshake!TypeOK /\ Handshake!AttachedStaysOpen
                    /\ Handshake!OthersAreGivenUp /\ Handshake!RecordedPartsStored
  OBVIOUS
<1> USE HandConstants, HandIds DEF Handshake!None
<1>1. HandTypes /\ HandSession /\ HandClosed
  BY DEF HandInv
<1>2. Handshake!TypeOK
  <2>1. /\ attached \in Handshake!UploadId \cup {0} /\ opened \in 0..Handing.opened
    BY <1>1 DEF HandTypes
  <2>2. /\ \A r \in Handing.request : handling[r].phase \in HandPhase
        /\ \A c \in Handing.cancel : cancel[c].phase \in {"idle", "parts", "row"}
    BY <1>1 DEF HandTypes, OpenerRow, CancelRow
  <2>3. expired \in BOOLEAN
    BY <1>1 DEF HandTypes
  <2> QED
    BY <1>1, <2>1, <2>2, <2>3 DEF HandTypes, HandSession, HandPhase, Handshake!TypeOK
<1>3. Handshake!NoCancel.phase = "idle"
  BY DEF Handshake!NoCancel
<1>4. Handshake!AttachedStaysOpen
  BY <1>1, <1>3 DEF HandClosed, Handshake!AttachedStaysOpen
<1>5. Handshake!OthersAreGivenUp
  BY <1>1 DEF HandSession, Handshake!OthersAreGivenUp
<1>6. Handshake!RecordedPartsStored
  BY <1>1 DEF HandTypes, HandSession, Handshake!RecordedPartsStored
<1> QED
  BY <1>2, <1>4, <1>5, <1>6

-----------------------------------------------------------------------------
(* The plan of the parts. *)

\* What the plan assumes of its constants.
LEMMA PlanConstants ==
  /\ Planning.maxSize \in Nat \ {0} /\ Planning.threshold \in Nat \ {0}
  /\ Planning.defaultPart \in Nat \ {0} /\ Planning.alignment \in Nat \ {0}
  /\ Planning.maxParts \in Nat \ {0} /\ Planning.batch \in Nat \ {0}
  /\ Planning.largeCopy \in Nat \ {0} /\ Planning.copyRange \in Nat \ {0}
  /\ Planning.defaultPart % Planning.alignment = 0
  /\ Planning.maxSize <= Planning.maxParts * Planning.copyRange
BY StoreAssumption DEF Plan!PartAssumption

\* Whole numbers divided and multiplied.
LEMMA DivBounds ==
  \A a \in Nat, b \in Nat \ {0} :
    a \div b \in Nat /\ b * (a \div b) <= a /\ a < b * (a \div b) + b
OBVIOUS

LEMMA Times == \A a, b, c \in Nat : a * b \in Nat /\ (a <= b => a * c <= b * c) /\ a * b = b * a
OBVIOUS

LEMMA Cancelled == \A a, b \in Nat, c \in Nat \ {0} : a * c < b * c => a < b
BY Times

LEMMA Rest ==
  \A a \in Nat, b \in Nat \ {0} : a % b = a - b * (a \div b)
OBVIOUS

LEMMA OneLess == \A a \in Nat \ {0}, b \in Nat : (a - 1) * b = a * b - b /\ (a + 1) * b = a * b + b
OBVIOUS

\* A multiple leaves nothing over, and what leaves nothing over is a multiple.
LEMMA Multiples ==
  ASSUME NEW a \in Nat, NEW b \in Nat \ {0}
  PROVE  /\ (a * b) % b = 0
         /\ a % b = 0 => a = (a \div b) * b /\ (a # 0 => b <= a)
<1>1. PICK q : q = (a * b) \div b
  OBVIOUS
<1>2. a * b \in Nat
  OBVIOUS
<1>3. q \in Nat /\ b * q <= a * b /\ a * b < b * q + b
  BY <1>1, <1>2, DivBounds
<1>4. q <= a
  <2> SUFFICES ASSUME a + 1 <= q PROVE FALSE
    BY <1>3
  <2>1. (a + 1) * b <= q * b
    BY <1>3, Times
  <2> QED
    BY <1>3, <2>1, Times, OneLess
<1>5. a <= q
  <2> SUFFICES ASSUME q + 1 <= a PROVE FALSE
    BY <1>3
  <2>1. (q + 1) * b <= a * b
    BY <1>3, Times
  <2> QED
    BY <1>3, <2>1, Times, OneLess
<1>6. (a * b) % b = 0
  <2>1. (a * b) % b = a * b - b * q
    BY <1>1, <1>2, Rest
  <2>2. q = a
    BY <1>3, <1>4, <1>5
  <2> QED
    BY <2>1, <2>2, Times
<1>7. PICK k : k = a \div b
  OBVIOUS
<1>8. a % b = 0 => a = k * b
  BY <1>7, DivBounds, Rest, Times
<1>9. k \in Nat
  BY <1>7, DivBounds
<1>10. k # 0 => b <= k * b
  BY <1>9, Times
<1> QED
  BY <1>6, <1>7, <1>8, <1>9, <1>10

\* An injection into a finite set counts no more than the set has, and as many only
\* where it leaves nothing out.
LEMMA Counting ==
  ASSUME NEW S, NEW T, IsFiniteSet(T), NEW f \in [S -> T], \A x, y \in S : f[x] = f[y] => x = y
  PROVE  /\ IsFiniteSet(S) /\ Cardinality(S) <= Cardinality(T)
         /\ Cardinality(S) = Cardinality(T) <=> \A t \in T : \E x \in S : f[x] = t
<1>1. f \in Injection(S, T)
  BY DEF Injection, IsInjective
<1>2. f \in Surjection(S, T) <=> \A t \in T : \E x \in S : f[x] = t
  BY DEF Surjection
<1> QED
  BY <1>1, <1>2, FS_Injection

\* Rounding up is the least number of parts that hold it all.
LEMMA RoundedUp ==
  ASSUME NEW a \in Nat, NEW b \in Nat \ {0}
  PROVE  /\ Plan!RoundUp(a, b) \in Nat /\ a <= Plan!RoundUp(a, b) * b
         /\ a # 0 => Plan!RoundUp(a, b) # 0 /\ (Plan!RoundUp(a, b) - 1) * b < a
         /\ \A c \in Nat : a <= c * b => Plan!RoundUp(a, b) <= c
<1> DEFINE R == (a + b - 1) \div b
<1>1. R \in Nat /\ b * R <= a + b - 1 /\ a + b - 1 < b * R + b
  <2>1. a + b - 1 \in Nat
    OBVIOUS
  <2> QED
    BY <2>1, DivBounds
<1>2. Plan!RoundUp(a, b) = R
  BY DEF Plan!RoundUp
<1> HIDE DEF R
<1>3. a <= R * b /\ R * b < a + b
  BY <1>1, Times
<1>4. a # 0 => R # 0 /\ (R - 1) * b < a
  BY <1>1, <1>3, OneLess
<1>5. ASSUME NEW c \in Nat, a <= c * b PROVE R <= c
  <2>1. CASE R = 0
    BY <2>1
  <2>2. CASE R # 0
    <3>1. (R - 1) * b < c * b /\ R - 1 \in Nat
      BY <1>1, <1>3, <1>5, <2>2, OneLess, Times
    <3> QED
      BY <1>1, <3>1, Cancelled
  <2> QED
    BY <2>1, <2>2
<1> QED
  BY <1>1, <1>2, <1>3, <1>4, <1>5

\* The part size is aligned, not below the default, enough, and the least that is.
LEMMA PartSizeFits ==
  ASSUME NEW s \in Nat, s # 0, NEW p, p = Plan!AdaptivePartSize(s)
  PROVE  /\ p \in Nat \ {0} /\ p % Planning.alignment = 0 /\ p >= Planning.defaultPart
         /\ s <= p * Planning.maxParts /\ p <= s + Planning.defaultPart
         /\ \A q \in 1..(p - 1) :
              ~(q % Planning.alignment = 0 /\ q >= Planning.defaultPart /\ q * Planning.maxParts >= s)
<1> USE PlanConstants
<1> DEFINE A == Planning.alignment
           D == Planning.defaultPart
           M == Planning.maxParts
           least == Plan!RoundUp(s, M)
<1>0. A \in Nat \ {0} /\ D \in Nat \ {0} /\ M \in Nat \ {0} /\ D % A = 0
  OBVIOUS
<1>1. least \in Nat \ {0} /\ s <= least * M /\ \A c \in Nat : s <= c * M => least <= c
  BY <1>0, RoundedUp
<1>2. p = IF least > D THEN Plan!RoundUp(least, A) * A ELSE D
  BY DEF Plan!AdaptivePartSize, Plan!Aligned
<1> HIDE DEF A, D, M, least
<1>3. CASE least > D
  <2> DEFINE R == Plan!RoundUp(least, A)
  <2>1. /\ R \in Nat /\ least <= R * A /\ R # 0 /\ (R - 1) * A < least
        /\ \A c \in Nat : least <= c * A => R <= c
    BY <1>0, <1>1, RoundedUp
  <2>2. p = R * A
    BY <1>2, <1>3
  <2> HIDE DEF R
  <2>3. p \in Nat \ {0} /\ p >= least /\ p > D
    BY <1>0, <1>1, <1>3, <2>1, <2>2, Times
  <2>4. p % A = 0
    <3>1. (R * A) % A = 0
      BY <1>0, <2>1, Multiples
    <3> QED
      BY <2>2, <3>1
  <2>5. s <= p * M
    <3>1. least * M <= p * M
      BY <1>0, <1>1, <2>3, Times
    <3> QED
      BY <1>0, <1>1, <2>3, <3>1, Times
  <2>6. p <= s + D
    <3>1. least <= s
      <4>1. s <= s * M
        BY <1>0, Times
      <4> QED
        BY <1>1, <4>1
    <3>2. A <= D
      BY <1>0, Multiples
    <3>3. (R - 1) * A = p - A
      BY <1>0, <2>1, <2>2, OneLess
    <3> QED
      BY <1>0, <1>1, <2>1, <2>3, <3>1, <3>2, <3>3
  <2>7. ASSUME NEW q \in 1..(p - 1), q % A = 0, q * M >= s PROVE FALSE
    <3>1. q \in Nat /\ q < p /\ least <= q
      BY <1>0, <1>1, <2>3, <2>7, Times
    <3>2. q \div A \in Nat /\ q = (q \div A) * A
      BY <1>0, <2>7, <3>1, DivBounds, Multiples
    <3>3. R <= q \div A
      BY <1>1, <2>1, <3>1, <3>2
    <3>4. p <= q
      BY <1>0, <2>1, <2>2, <3>2, <3>3, Times
    <3> QED
      BY <2>3, <3>1, <3>4
  <2> QED
    BY <1>0, <2>3, <2>4, <2>5, <2>6, <2>7 DEF A, D, M
<1>4. CASE ~(least > D)
  <2>1. p = D
    BY <1>2, <1>4
  <2>2. s <= p * M
    <3>1. least * M <= D * M
      BY <1>0, <1>1, <1>4, Times
    <3> QED
      BY <1>0, <1>1, <2>1, <3>1, Times
  <2> QED
    BY <1>0, <2>1, <2>2 DEF A, D, M
<1> QED
  BY <1>3, <1>4

\* Every part has a length, the last what is left, and they follow on one another.
LEMMA PartLengths ==
  ASSUME NEW s \in Nat \ {0}, NEW p \in Nat \ {0}, NEW c, c = Plan!PartCount(s, p), NEW n \in 1..c
  PROVE  /\ c \in Nat \ {0} /\ Plan!PartLength(s, p, n) \in 1..p
         /\ (n - 1) * p + Plan!PartLength(s, p, n) <= s
         /\ IF n = c THEN Plan!PartLength(s, p, n) = s - (n - 1) * p ELSE Plan!PartLength(s, p, n) = p
<1>1. c \in Nat \ {0} /\ s <= c * p /\ (c - 1) * p < s
  BY RoundedUp DEF Plan!PartCount
<1>2. Plan!PartLength(s, p, n) = IF n = c THEN s - (n - 1) * p ELSE p
  BY DEF Plan!PartLength
<1>3. n \in Nat \ {0} /\ n - 1 \in Nat /\ (n - 1) * p \in Nat /\ (n - 1) * p = n * p - p
  BY <1>1, OneLess, Times
<1>4. CASE n = c
  <2>1. PICK z \in Nat : z = (n - 1) * p
    BY <1>3
  <2>2. z < s /\ s <= z + p
    BY <1>1, <1>3, <1>4, <2>1
  <2>3. s - z \in 1..p /\ z + (s - z) <= s
    BY <2>2
  <2> QED
    BY <1>1, <1>2, <1>4, <2>1, <2>3
<1>5. CASE n # c
  <2>1. n * p <= (c - 1) * p
    BY <1>1, <1>3, <1>5, Times
  <2> QED
    BY <1>1, <1>2, <1>3, <1>5, <2>1, Times
<1> QED
  BY <1>4, <1>5

\* Where a byte of a part lies in the file.
PlaceOf(p, b) == (b[1] - 1) * p + b[2]

\* No two bytes of the parts lie in one place.
LEMMA PlacesApart ==
  ASSUME NEW p \in Nat \ {0}, NEW m \in Nat \ {0}, NEW n \in Nat \ {0}, NEW i \in 1..p, NEW j \in 1..p,
         (m - 1) * p + i = (n - 1) * p + j
  PROVE  m = n /\ i = j
<1>1. ASSUME NEW x \in Nat \ {0}, NEW y \in Nat \ {0}, x < y, NEW k \in 1..p, NEW l \in 1..p
      PROVE  (x - 1) * p + k < (y - 1) * p + l
  <2>1. x * p <= (y - 1) * p
    BY <1>1, Times
  <2>2. (x - 1) * p = x * p - p /\ x * p \in Nat /\ (y - 1) * p \in Nat
    BY OneLess, Times
  <2> QED
    BY <2>1, <2>2
<1>2. ~(m < n) /\ ~(n < m)
  BY <1>1
<1>3. (m - 1) * p \in Nat
  BY Times
<1> QED
  BY <1>2, <1>3

\* The plan's invariant: the file and its part size, and the numbers signed so far.
PlanInv ==
    /\ size \in Nat /\ size <= Planning.maxSize
    /\ partSize = Plan!ReservedPartSize(size)
    /\ DOMAIN signed \subseteq 1..Plan!PartCount(size, partSize)
    /\ partSize = 0 => DOMAIN signed = {}
    /\ \A n \in DOMAIN signed : signed[n] = Plan!PartLength(size, partSize, n)

\* At the start nothing is signed.
LEMMA PlanInit == Plan!Init => PlanInv
BY PlanConstants DEF Plan!Init, PlanInv

\* A batch of numbers is signed, each in range.
LEMMA PlanStep == PlanInv /\ Plan!Next => PlanInv'
<1> SUFFICES ASSUME PlanInv, NEW numbers \in SUBSET Nat, Plan!PresignUploadParts(numbers) PROVE PlanInv'
  <2>1. ASSUME Plan!Next PROVE \E numbers \in SUBSET Nat : Plan!PresignUploadParts(numbers)
    <3>1. PICK numbers : /\ numbers \in UNION {Plan!kSubset(k, 0..(Planning.maxParts + 1)) : k \in 1..Planning.batch}
                        /\ Plan!PresignUploadParts(numbers)
      BY <2>1 DEF Plan!Next
    <3>2. numbers \subseteq 0..(Planning.maxParts + 1)
      BY <3>1 DEF Plan!kSubset
    <3> QED
      BY <3>1, <3>2
  <2> QED
    BY <2>1
<1>1. size' = size /\ partSize' = partSize /\ partSize # 0
  BY DEF Plan!PresignUploadParts
<1>2. numbers \subseteq DOMAIN signed' /\ DOMAIN signed' = DOMAIN signed \cup numbers
      /\ \A n \in DOMAIN signed' : signed'[n] = Plan!PartLength(size, partSize, n)
  BY DEF Plan!PresignUploadParts
<1>3. \A n \in numbers : n >= 1 /\ n <= Plan!PartCount(size, partSize)
  BY DEF Plan!PresignUploadParts, Plan!InRange
<1>4. DOMAIN signed' \subseteq 1..Plan!PartCount(size, partSize)
  <2>1. Plan!PartCount(size, partSize) \in Nat
    <3>1. size # 0
      BY <1>1, PlanConstants DEF PlanInv, Plan!ReservedPartSize
    <3>2. partSize \in Nat \ {0}
      BY <1>1, <3>1, PartSizeFits DEF PlanInv, Plan!ReservedPartSize
    <3> QED
      BY <3>2, RoundedUp DEF PlanInv, Plan!PartCount
  <2>2. numbers \subseteq 1..Plan!PartCount(size, partSize)
    BY <1>3, <2>1
  <2> QED
    BY <1>2, <2>2 DEF PlanInv
<1>5. partSize' = Plan!ReservedPartSize(size') /\ Plan!PartCount(size', partSize') = Plan!PartCount(size, partSize)
      /\ \A n \in DOMAIN signed' : signed'[n] = Plan!PartLength(size', partSize', n)
  BY <1>1, <1>2 DEF PlanInv
<1> QED
  BY <1>1, <1>4, <1>5 DEF PlanInv

\* Nor does a step of another component touch it.
LEMMA PlanRests == PlanInv /\ UNCHANGED planVars => PlanInv'
BY DEF PlanInv, planVars, Plan!ReservedPartSize, Plan!PartCount, Plan!PartLength

\* The plan's invariant holds in every state of the suite.
LEMMA PlanInvariant == SuiteSpec => []PlanInv
<1>1. SuiteInit => PlanInv
  BY PlanInit DEF SuiteInit
<1>2. PlanInv /\ [SuiteNext]_suiteVars => PlanInv'
  BY PlanStep, PlanRests DEF SuiteNext, suiteVars
<1> QED
  BY <1>1, <1>2, PTL DEF SuiteSpec

\* What the reservation of a large file fixes.
LEMMA PlanShape ==
  ASSUME PlanInv, partSize # 0
  PROVE  /\ size \in Nat \ {0} /\ partSize \in Nat \ {0} /\ partSize = Plan!AdaptivePartSize(size)
         /\ Plan!PartCount(size, partSize) \in Nat \ {0}
         /\ size <= Plan!PartCount(size, partSize) * partSize
         /\ Plan!PartCount(size, partSize) <= Planning.maxParts
<1>1. size \in Nat \ {0} /\ partSize = Plan!AdaptivePartSize(size)
  BY PlanConstants DEF PlanInv, Plan!ReservedPartSize
<1>2. partSize \in Nat \ {0} /\ size <= partSize * Planning.maxParts
  BY <1>1, PartSizeFits
<1>3. size <= Planning.maxParts * partSize
  BY <1>2, PlanConstants, Times
<1> QED
  BY <1>1, <1>2, <1>3, PlanConstants, RoundedUp DEF Plan!PartCount

\* The bytes signed lie in the file, each in a place of its own, and fill it only
\* when every part is signed.
LEMMA SignedBytes ==
  ASSUME PlanInv, partSize # 0
  PROVE  Plan!PartsMakeUpTheFile
<1> DEFINE s == size
           p == partSize
           c == Plan!PartCount(size, partSize)
           D == DOMAIN signed
           B == UNION {{n} \X (1..signed[n]) : n \in D}
           f == [b \in B |-> PlaceOf(p, b)]
<1>1. s \in Nat \ {0} /\ p \in Nat \ {0} /\ c \in Nat \ {0} /\ s <= c * p
  BY PlanShape
<1>2. D \subseteq 1..c /\ \A n \in D : signed[n] = Plan!PartLength(s, p, n)
  BY DEF PlanInv
<1>3. ASSUME NEW n \in D
      PROVE  /\ n \in Nat \ {0} /\ n - 1 \in Nat /\ (n - 1) * p \in Nat
             /\ signed[n] \in 1..p /\ (n - 1) * p + signed[n] <= s
             /\ n = c => signed[n] = s - (n - 1) * p
             /\ n # c => signed[n] = p
  <2>1. n \in 1..c /\ signed[n] = Plan!PartLength(s, p, n)
    BY <1>2
  <2>2. n \in Nat \ {0} /\ n - 1 \in Nat
    BY <1>1, <2>1
  <2>3. (n - 1) * p \in Nat
    BY <1>1, <2>2, Times
  <2> QED
    BY <1>1, <2>1, <2>2, <2>3, PartLengths
<1> HIDE DEF s, p, c, D
<1>4. ASSUME NEW b \in B
      PROVE  b[1] \in D /\ b[2] \in 1..signed[b[1]] /\ b = <<b[1], b[2]>>
  OBVIOUS
<1>5. ASSUME NEW n \in D, NEW i \in 1..signed[n]
      PROVE  <<n, i>> \in B /\ PlaceOf(p, <<n, i>>) = (n - 1) * p + i
  BY DEF PlaceOf
<1>6. ASSUME NEW b \in B PROVE f[b] \in 1..s
  <2>1. f[b] = (b[1] - 1) * p + b[2]
    BY DEF PlaceOf
  <2>2. b[1] \in D /\ b[2] \in 1..signed[b[1]]
    BY <1>4
  <2>3. PICK z \in Nat : z = (b[1] - 1) * p
    BY <1>3, <2>2
  <2>4. z + signed[b[1]] <= s /\ signed[b[1]] \in Nat
    BY <1>3, <2>2, <2>3
  <2> QED
    BY <1>1, <2>1, <2>2, <2>3, <2>4
<1>7. f \in [B -> 1..s]
  BY <1>6
<1>8. ASSUME NEW x \in B, NEW y \in B, f[x] = f[y] PROVE x = y
  <2>1. (x[1] - 1) * p + x[2] = (y[1] - 1) * p + y[2]
    BY <1>8 DEF PlaceOf
  <2>2. x[1] \in D /\ y[1] \in D /\ x[2] \in 1..signed[x[1]] /\ y[2] \in 1..signed[y[1]]
        /\ x = <<x[1], x[2]>> /\ y = <<y[1], y[2]>>
    BY <1>4
  <2>3. x[1] \in Nat \ {0} /\ y[1] \in Nat \ {0} /\ x[2] \in 1..p /\ y[2] \in 1..p
    BY <1>1, <1>3, <2>2
  <2>4. x[1] = y[1] /\ x[2] = y[2]
    <3>1. PICK m, n : m = x[1] /\ n = y[1]
      OBVIOUS
    <3>2. PICK i, j : i = x[2] /\ j = y[2]
      OBVIOUS
    <3>3. m \in Nat \ {0} /\ n \in Nat \ {0} /\ i \in 1..p /\ j \in 1..p /\ p \in Nat \ {0}
          /\ (m - 1) * p + i = (n - 1) * p + j
      BY <1>1, <2>1, <2>3, <3>1, <3>2
    <3>4. m = n /\ i = j
      BY <3>3, PlacesApart
    <3> QED
      BY <3>1, <3>2, <3>4
  <2> QED
    BY <2>2, <2>4
<1> HIDE DEF f, B
<1>9. IsFiniteSet(1..s) /\ Cardinality(1..s) = s
  BY <1>1, FS_Interval
<1>10. /\ IsFiniteSet(B) /\ Cardinality(B) <= s
       /\ Cardinality(B) = s <=> \A t \in 1..s : \E x \in B : f[x] = t
  <2>1. PICK T : T = 1..s
    OBVIOUS
  <2>2. f \in [B -> T] /\ IsFiniteSet(T) /\ Cardinality(T) = s
    BY <1>7, <1>9, <2>1
  <2>3. \A x, y \in B : f[x] = f[y] => x = y
    BY <1>8
  <2>4. /\ IsFiniteSet(B) /\ Cardinality(B) <= Cardinality(T)
        /\ Cardinality(B) = Cardinality(T) <=> \A t \in T : \E x \in B : f[x] = t
    BY <2>2, <2>3, Counting
  <2> QED
    BY <2>1, <2>2, <2>4
<1>11. ASSUME D = 1..c, NEW t \in 1..s PROVE \E x \in B : f[x] = t
  <2>1. PICK k : k = (t - 1) \div p
    OBVIOUS
  <2>2. k \in Nat /\ p * k <= t - 1 /\ t - 1 < p * k + p
    BY <1>1, <2>1, DivBounds
  <2>3. k * p = p * k /\ k * p \in Nat
    BY <1>1, <2>2, Times
  <2>4. k < c
    <3>1. k * p < c * p
      BY <1>1, <2>2, <2>3, Times
    <3> QED
      BY <1>1, <2>2, <3>1, Cancelled
  <2>5. k + 1 \in D /\ (k + 1) - 1 = k
    BY <1>1, <1>11, <2>2, <2>4
  <2>6. t - k * p \in 1..signed[k + 1]
    <3>1. CASE k + 1 = c
      <4>1. signed[k + 1] = s - k * p
        BY <1>3, <2>5, <3>1
      <4> QED
        BY <1>1, <2>2, <2>3, <4>1
    <3>2. CASE k + 1 # c
      <4>1. signed[k + 1] = p
        BY <1>3, <2>5, <3>2
      <4> QED
        BY <1>1, <2>2, <2>3, <4>1
    <3> QED
      BY <3>1, <3>2
  <2>7. <<k + 1, t - k * p>> \in B /\ PlaceOf(p, <<k + 1, t - k * p>>) = k * p + (t - k * p)
    BY <1>5, <2>5, <2>6
  <2>8. k * p + (t - k * p) = t
    BY <2>2, <2>3
  <2> QED
    BY <2>7, <2>8 DEF f
<1>12. ASSUME NEW n \in 1..c, n \notin D PROVE \E t \in 1..s : \A x \in B : f[x] # t
  <2>1. n \in Nat \ {0} /\ (n - 1) * p \in Nat /\ Plan!PartLength(s, p, n) \in 1..p
        /\ (n - 1) * p + Plan!PartLength(s, p, n) <= s
    <3>1. n - 1 \in Nat
      BY <1>1
    <3> QED
      BY <1>1, <3>1, PartLengths, Times DEF c, s, p
  <2>2. PICK t : t = (n - 1) * p + 1
    OBVIOUS
  <2>3. t \in 1..s
    BY <1>1, <2>1, <2>2
  <2>4. ASSUME NEW x \in B, f[x] = t PROVE FALSE
    <3>1. x[1] \in D /\ x[2] \in 1..signed[x[1]] /\ f[x] = (x[1] - 1) * p + x[2]
      BY <1>4 DEF f, PlaceOf
    <3>2. x[1] \in Nat \ {0} /\ x[2] \in 1..p /\ 1 \in 1..p
      BY <1>1, <1>3, <3>1
    <3>3. x[1] = n
      BY <1>1, <2>1, <2>2, <2>4, <3>1, <3>2, PlacesApart
    <3> QED
      BY <1>12, <3>1, <3>3
  <2> QED
    BY <2>3, <2>4
<1>13. Cardinality(B) = s <=> D = 1..c
  BY <1>2, <1>10, <1>11, <1>12
<1>14. Plan!Total(signed) = Cardinality(B)
  BY DEF Plan!Total, Plan!Cardinality, Cardinality, B, D
<1> QED
  BY <1>10, <1>13, <1>14 DEF Plan!PartsMakeUpTheFile, s, c, D

\* The ranges of a copy begin at the multiples of their length and reach the end.
LEMMA RangesWhole ==
  ASSUME PlanInv
  PROVE  Plan!CopyIsWhole
<1> DEFINE R == Planning.copyRange
           M == Planning.maxParts
           s == size
           O == {o \in 0..(s - 1) : o % R = 0}
           f == [o \in O |-> o \div R]
<1> SUFFICES ASSUME s > Planning.largeCopy
             PROVE  /\ \A o \in O : o + Plan!RangeLength(s, o) \in O \cup {s} /\ Plan!RangeLength(s, o) > 0
                    /\ 0 \in O /\ Plan!Cardinality(O) <= M
  BY DEF Plan!CopyIsWhole, Plan!CopyRanges
<1>1. R \in Nat \ {0} /\ M \in Nat \ {0} /\ s \in Nat \ {0} /\ s <= M * R
  <2>1. s \in Nat /\ s <= Planning.maxSize /\ s # 0
    BY PlanConstants DEF PlanInv
  <2>2. M * R \in Nat
    BY PlanConstants, Times
  <2> QED
    BY <2>1, <2>2, PlanConstants
<1>2. \A o : Plan!RangeLength(s, o) = IF s - o < R THEN s - o ELSE R
  BY DEF Plan!RangeLength
<1> HIDE DEF R, M, s
<1>3. ASSUME NEW o \in O
      PROVE  /\ o \in Nat /\ o < s /\ o % R = 0 /\ o \div R \in Nat /\ o = (o \div R) * R
  BY <1>1, DivBounds, Multiples
<1>4. ASSUME NEW o \in O
      PROVE  o + Plan!RangeLength(s, o) \in O \cup {s} /\ Plan!RangeLength(s, o) > 0
  <2>1. CASE s - o < R
    BY <1>1, <1>2, <1>3, <2>1
  <2>2. CASE s - o = R
    BY <1>1, <1>2, <1>3, <2>2
  <2>3. CASE s - o > R
    <3>1. o + R = ((o \div R) + 1) * R
      BY <1>1, <1>3, OneLess
    <3>2. ((o \div R) + 1) * R % R = 0
      BY <1>1, <1>3, Multiples
    <3>3. o + R \in O
      BY <1>1, <1>3, <2>3, <3>1, <3>2
    <3> QED
      BY <1>1, <1>2, <1>3, <2>3, <3>3
  <2> QED
    BY <1>1, <1>3, <2>1, <2>2, <2>3
<1>5. 0 \in O
  <2>1. (0 * R) % R = 0 /\ 0 * R = 0
    BY <1>1, Multiples
  <2> QED
    BY <1>1, <2>1
<1>6. f \in [O -> 0..(M - 1)]
  <2> SUFFICES ASSUME NEW o \in O PROVE o \div R \in 0..(M - 1)
    OBVIOUS
  <2>1. (o \div R) * R < M * R
    <3>1. M * R \in Nat
      BY <1>1, Times
    <3> QED
      BY <1>1, <1>3, <3>1
  <2>2. o \div R < M
    BY <1>1, <1>3, <2>1, Cancelled
  <2> QED
    BY <1>1, <1>3, <2>2
<1>7. \A x, y \in O : f[x] = f[y] => x = y
  BY <1>3
<1>8. IsFiniteSet(0..(M - 1)) /\ Cardinality(0..(M - 1)) = M
  BY <1>1, FS_Interval
<1> HIDE DEF f
<1>9. Cardinality(O) <= M
  <2>1. PICK T : T = 0..(M - 1)
    OBVIOUS
  <2>2. f \in [O -> T] /\ IsFiniteSet(T) /\ Cardinality(T) = M
    BY <1>6, <1>8, <2>1
  <2> HIDE DEF O
  <2> QED
    BY <1>7, <2>2, Counting
<1>10. Plan!Cardinality(O) = Cardinality(O)
  BY DEF Plan!Cardinality, Cardinality
<1> QED
  BY <1>4, <1>5, <1>9, <1>10

\* What the invariant says of the plan's properties.
LEMMA PlanSafe ==
  PlanInv => /\ Plan!TypeOK /\ Plan!SmallestPartSize /\ Plan!PartsMakeUpTheFile /\ Plan!CopyIsWhole
<1> SUFFICES ASSUME PlanInv
             PROVE  /\ Plan!TypeOK /\ Plan!SmallestPartSize /\ Plan!PartsMakeUpTheFile /\ Plan!CopyIsWhole
  OBVIOUS
<1> USE PlanConstants
<1>1. size \in Nat /\ size <= Planning.maxSize
  BY DEF PlanInv
<1>2. CASE partSize = 0
  <2>1. DOMAIN signed = {}
    BY <1>2 DEF PlanInv
  <2>2. Plan!TypeOK
    BY <1>1, <1>2, <2>1 DEF Plan!TypeOK
  <2> QED
    BY <1>2, <2>2, RangesWhole DEF Plan!SmallestPartSize, Plan!PartsMakeUpTheFile
<1>3. CASE partSize # 0
  <2>1. /\ size \in Nat \ {0} /\ partSize \in Nat \ {0} /\ partSize = Plan!AdaptivePartSize(size)
        /\ Plan!PartCount(size, partSize) \in Nat /\ Plan!PartCount(size, partSize) <= Planning.maxParts
    BY <1>3, PlanShape
  <2>2. /\ partSize % Planning.alignment = 0 /\ partSize >= Planning.defaultPart
        /\ size <= partSize * Planning.maxParts /\ partSize <= size + Planning.defaultPart
        /\ \A q \in 1..(partSize - 1) :
             ~(q % Planning.alignment = 0 /\ q >= Planning.defaultPart /\ q * Planning.maxParts >= size)
    BY <2>1, PartSizeFits
  <2>3. Plan!SmallestPartSize
    <3>1. partSize * Planning.maxParts >= size
      BY <2>1, <2>2, Times
    <3> QED
      BY <2>2, <3>1 DEF Plan!SmallestPartSize
  <2>4. Plan!TypeOK
    <3>1. DOMAIN signed \subseteq 1..Planning.maxParts
      BY <2>1 DEF PlanInv
    <3>2. partSize \in 0..(Planning.maxSize + Planning.defaultPart)
      BY <1>1, <2>1, <2>2
    <3>3. \A n \in DOMAIN signed : signed[n] \in 1..partSize
      BY SMTT(60), <2>1, PartLengths DEF PlanInv
    <3> QED
      BY <1>1, <3>1, <3>2, <3>3 DEF Plan!TypeOK
  <2> QED
    BY <1>3, <2>3, <2>4, SignedBytes, RangesWhole
<1> QED
  BY <1>2, <1>3

-----------------------------------------------------------------------------
(* The suite. *)

\* The copy's invariant holds in every state of the suite as in those of the copy.
LEMMA CopyInSuite == SuiteSpec => []CopyInvariant
<1>1. SuiteInit => CopyInvariant
  BY CopyInit DEF SuiteInit
<1>2. CopyInvariant /\ [SuiteNext]_suiteVars => CopyInvariant'
  BY NextPreserves DEF SuiteNext, suiteVars
<1> QED
  BY <1>1, <1>2, PTL DEF SuiteSpec

\* Only clean bytes are published, the newest clean version is the one shown
\* (ScanService, SetFileVersionScanResult), a preview offered is stored, and a purged
\* version leaves none behind (PreviewService, the purge worker).
THEOREM CleanCorrect == SuiteSpec => []OnlyCleanShown
<1>1. ScanInv /\ PreviewInv => OnlyCleanShown
  BY ScanSafe, PreviewSafe DEF OnlyCleanShown
<1> QED
  BY <1>1, ScanInvariant, PreviewInvariant, PTL

\* What the rows say of objects, staging keys, messages and missing bytes is so
\* (cmd/migrate-legacy, the staging cleanup, the outbox, the consistency audit).
THEOREM RowsCorrect == SuiteSpec => []RowsTellTheTruth
<1>1. ImportInv /\ StagingInv /\ MailInv /\ AuditInv => RowsTellTheTruth
  BY ImportSafe, StagingSafe, MailSafe, AuditSafe DEF RowsTellTheTruth
<1> QED
  BY <1>1, ImportInvariant, StagingInvariant, MailInvariant, AuditInvariant, PTL

\* A run of the import leaves what a user made of an object imported before it began
\* (ImportLegacyObject).
LEMMA LaterRunsLeave == SuiteSpec => Import!LaterRunsChangeNothing
<1>1. ImportInv /\ [SuiteNext]_suiteVars =>
        [\A r \in Importing.run : Import!ImportLegacyObject(r) =>
            \A k \in run[r].known : file'[k] = file[k]]_(Import!vars)
  BY ImportLeaves
<1> QED
  BY <1>1, ImportInvariant, PTL DEF SuiteSpec, Import!LaterRunsChangeNothing

\* A message marked delivered stays as it is (CompleteNotificationJob and the claim).
LEMMA DeliveredStays == SuiteSpec => Mail!DeliveredStaysDelivered
<1>1. MailInv /\ [SuiteNext]_suiteVars =>
        [\A m \in Mailing.message : outbox[m].status = "delivered" => outbox'[m] = outbox[m]]_(Mail!vars)
  BY MailStays DEF SuiteNext, suiteVars, mailVars, Mail!vars
<1> QED
  BY <1>1, MailInvariant, PTL DEF SuiteSpec, Mail!DeliveredStaysDelivered

\* A charge ends with the deletion of the bytes it is for (storage_usage).
LEMMA ChargeLasts == SuiteSpec => Quota!ChargeEndsWithDeletion
<1>1. QuotaInv /\ [SuiteNext]_suiteVars =>
        [Quota!Committed' + Quota!Reserved' < Quota!Committed + Quota!Reserved =>
            \E v \in Charging.version : charged[v] = "deleting" /\ charged'[v] = "deleted"]_(Quota!vars)
  BY QuotaLasts DEF SuiteNext, suiteVars, quotaVars, Quota!vars
<1> QED
  BY <1>1, QuotaInvariant, PTL DEF SuiteSpec, Quota!ChargeEndsWithDeletion

\* What was settled stays settled: imported items, delivered messages and charges.
THEOREM SettledCorrect == SuiteSpec => SettledStays
BY LaterRunsLeave, DeliveredStays, ChargeLasts DEF SettledStays

\* The attached multipart upload stays open and those that lost are given up, recorded
\* parts are stored (AttachMultipartUpload, ReplaceUploadParts), the part size is the
\* least that serves, and parts and ranges make up the file exactly
\* (adaptiveMultipartPartSize, PresignUploadParts, copyLargeObject).
THEOREM PartsCorrect == SuiteSpec => []PartsMakeUpTheFile
<1>1. HandInv /\ PlanInv => PartsMakeUpTheFile
  BY HandSafe, PlanSafe DEF PartsMakeUpTheFile
<1> QED
  BY <1>1, HandInvariant, PlanInvariant, PTL

\* In every state of the suite a published copy keeps its bytes and an answered one
\* is not taken back (CopyItem, ReserveUpload, AbortUpload, the purge worker).
THEOREM CopyCorrect == SuiteSpec => [](TypeOK /\ PublishedCopyStored /\ AnsweredCopyStays)
<1>1. CopyInvariant => TypeOK /\ PublishedCopyStored /\ AnsweredCopyStays
  BY CopyTypesSuffice DEF CopyInvariant
<1> QED
  BY <1>1, CopyInSuite, PTL

-----------------------------------------------------------------------------
(* Leased jobs. What each kind of worker does to the rows of its table is, *)
(* row by row, a step of JobLease.                                         *)

\* From row j to row k, as JobLease allows it; ends are the statuses of a result.
LeasedMove(j, k, max, ends) ==
    \/ j.status = "none" /\ k.status = "queued" /\ k.attempts = j.attempts
    \/ /\ j.attempts < max /\ j.status \in {"queued", "processing"}
       /\ k.status = "processing" /\ k.attempts = j.attempts + 1
    \/ j.attempts < max /\ j.status = "processing" /\ k.status = "queued" /\ k.attempts = j.attempts
    \/ j.status = "processing" /\ k.status \in ends /\ k.attempts = j.attempts
    \/ j.status \in {"queued", "processing"} /\ k.status = "failed" /\ k.attempts = j.attempts
    \/ k.status = j.status /\ k.attempts = j.attempts

\* What becomes of a scan job.
ScanMove(v) == LeasedMove(scan[v], scan'[v], Scanning.attempts, {"clean", "infected"})

\* What nobody asked for was not attempted.
ScanUnasked == \A v \in Scan!Version : scan[v].status = "none" => scan[v].attempts = 0

\* Recovery, a claim, a result and a lost lease are moves of a leased job.
LEMMA ScanRowMoves ==
  ASSUME NEW j \in Scan!Rows!JobRow({"clean", "infected"})
  PROVE  LET Move(k) == LeasedMove(j, k, Scanning.attempts, {"clean", "infected"})
             R == Scan!Rows!Recovered(j)
         IN  /\ Move(j) /\ Move(R) /\ Move(Scan!Rows!LeaseLost(j))
             /\ Scan!Rows!Claimable(R) => Move(Scan!Rows!Claimed(R))
             /\ j.status = "processing" =>
                  /\ Move(Scan!Rows!GivenBack(j))
                  /\ Move(Scan!Rows!Ended(j, "clean")) /\ Move(Scan!Rows!Ended(j, "infected"))
<1> USE ScanConstants DEF Scan!Rows!JobRow
<1> DEFINE Move(k) == LeasedMove(j, k, Scanning.attempts, {"clean", "infected"})
           R == Scan!Rows!Recovered(j)
<1>1. j.attempts \in Nat /\ j.attempts <= Scanning.attempts
  OBVIOUS
<1>2. Move(j) /\ Move(Scan!Rows!LeaseLost(j))
  BY DEF LeasedMove, Scan!Rows!LeaseLost
<1>3. j.status = "processing" =>
        /\ Move(Scan!Rows!GivenBack(j))
        /\ Move(Scan!Rows!Ended(j, "clean")) /\ Move(Scan!Rows!Ended(j, "infected"))
  BY <1>1 DEF LeasedMove, Scan!Rows!GivenBack, Scan!Rows!Ended
<1>4. Move(R)
  BY <1>2, <1>3 DEF Scan!Rows!Recovered, Scan!Rows!Lapsed
<1>5. Scan!Rows!Claimable(R) => Move(Scan!Rows!Claimed(R))
  BY <1>1 DEF LeasedMove, Scan!Rows!Claimable, Scan!Rows!Claimed, Scan!Rows!Recovered,
              Scan!Rows!Lapsed, Scan!Rows!GivenBack
<1> QED
  BY <1>2, <1>3, <1>4, <1>5

\* Every step of scans moves each job as a leased job moves.
LEMMA ScanJobsMove ==
  ASSUME ScanInv, ScanUnasked, [Scan!Next]_scanVars
  PROVE  \A v \in Scan!Version : ScanMove(v)
<1> SUFFICES ASSUME NEW v \in Scan!Version PROVE ScanMove(v)
  OBVIOUS
<1> DEFINE Row == Scan!Rows!JobRow({"clean", "infected"})
           Move(k) == LeasedMove(scan[v], k, Scanning.attempts, {"clean", "infected"})
<1>1. scan \in [Scan!Version -> Row] /\ scan[v] \in Row
  BY DEF ScanInv, ScanTypes
<1>2. /\ Move(scan[v]) /\ Move(Scan!Rows!Recovered(scan[v])) /\ Move(Scan!Rows!LeaseLost(scan[v]))
      /\ Scan!Rows!Claimable(Scan!Rows!Recovered(scan[v])) =>
           Move(Scan!Rows!Claimed(Scan!Rows!Recovered(scan[v])))
      /\ scan[v].status = "processing" =>
           /\ Move(Scan!Rows!GivenBack(scan[v]))
           /\ Move(Scan!Rows!Ended(scan[v], "clean")) /\ Move(Scan!Rows!Ended(scan[v], "infected"))
  BY <1>1, ScanRowMoves
<1> SUFFICES Move(scan'[v])
  BY DEF ScanMove
<1>3. scan' = scan => Move(scan'[v])
  BY <1>2
<1>4. ASSUME NEW u \in Scan!Version, Scan!CompleteUpload(u)
      PROVE  Move(scan'[v])
  <2>1. scan[u].status = "none" /\ scan[u].attempts = 0
    BY <1>4 DEF Scan!CompleteUpload, ScanInv, ScanVersion, ScanUnasked
  <2>2. scan'[v] = IF v = u THEN Scan!Rows!QueuedJob ELSE scan[v]
    BY <1>1, <1>4 DEF Scan!CompleteUpload
  <2> QED
    BY <1>2, <2>1, <2>2 DEF LeasedMove, Scan!Rows!QueuedJob
<1>5. ASSUME NEW u \in Scan!Version, Scan!LeaseLapses(u)
      PROVE  Move(scan'[v])
  <2>1. scan'[v] = IF v = u THEN Scan!Rows!LeaseLost(scan[v]) ELSE scan[v]
    BY <1>1, <1>5 DEF Scan!LeaseLapses
  <2> HIDE DEF Move
  <2> QED
    BY <1>2, <2>1
<1>6. ASSUME NEW w \in Scanning.scanner, Scan!ClaimMalwareScanJob(w)
      PROVE  Move(scan'[v])
  <2> PICK R : R = [u \in Scan!Version |-> Scan!Rows!Recovered(scan[u])]
    OBVIOUS
  <2>1. \/ scan' = R
        \/ \E u \in Scan!Version :
             Scan!Rows!Claimable(R[u]) /\ scan' = [R EXCEPT ![u] = Scan!Rows!Claimed(R[u])]
    BY <1>6 DEF Scan!ClaimMalwareScanJob
  <2>2. R[v] = Scan!Rows!Recovered(scan[v])
    OBVIOUS
  <2>3. \/ scan'[v] = R[v]
        \/ Scan!Rows!Claimable(R[v]) /\ scan'[v] = Scan!Rows!Claimed(R[v])
    BY <2>1
  <2> HIDE DEF Move
  <2> QED
    BY <1>2, <2>2, <2>3
<1>7. ASSUME NEW w \in Scanning.scanner, Scan!CompleteMalwareScanJob(w)
      PROVE  Move(scan'[v])
  <2>1. \/ scan' = scan
        \/ \E r \in {"clean", "infected"} :
             /\ scan[scanner[w].version].status = "processing"
             /\ scan' = [scan EXCEPT ![scanner[w].version] = Scan!Rows!Ended(scan[scanner[w].version], r)]
    BY <1>7 DEF Scan!CompleteMalwareScanJob, Scan!Rows!Holds
  <2>2. \/ scan'[v] = scan[v]
        \/ \E r \in {"clean", "infected"} :
             scan[v].status = "processing" /\ scan'[v] = Scan!Rows!Ended(scan[v], r)
    BY <1>1, <2>1
  <2> HIDE DEF Move
  <2> QED
    BY <1>2, <2>2
<1>8. ASSUME NEW w \in Scanning.scanner, Scan!FailMalwareScanJob(w)
      PROVE  Move(scan'[v])
  <2>1. \/ scan' = scan
        \/ /\ scan[scanner[w].version].status = "processing"
           /\ scan' = [scan EXCEPT ![scanner[w].version] = Scan!Rows!GivenBack(scan[scanner[w].version])]
    BY <1>8 DEF Scan!FailMalwareScanJob, Scan!Rows!Holds
  <2>2. \/ scan'[v] = scan[v]
        \/ scan[v].status = "processing" /\ scan'[v] = Scan!Rows!GivenBack(scan[v])
    BY <1>1, <2>1
  <2> HIDE DEF Move
  <2> QED
    BY <1>2, <2>2
<1>9. ASSUME NEW u \in Scan!Version,
             Scan!RestoreFileVersion(u) \/ Scan!ClaimBlobDeletionJob(u) \/ Scan!PurgeBlob(u)
      PROVE  scan' = scan
  BY <1>9 DEF Scan!RestoreFileVersion, Scan!ClaimBlobDeletionJob, Scan!PurgeBlob
<1>10. ASSUME NEW w \in Scanning.scanner, Scan!Scan(w) \/ Scan!ScanFails(w) \/ Scan!ScannerDies(w)
       PROVE  scan' = scan
  BY <1>10 DEF Scan!Scan, Scan!ScanFails, Scan!ScannerDies
<1>11. CASE UNCHANGED scanVars
  BY <1>3, <1>11 DEF scanVars
<1> HIDE DEF Move
<1> QED
  BY <1>3, <1>4, <1>5, <1>6, <1>7, <1>8, <1>9, <1>10, <1>11 DEF Scan!Next

\* So it is a step of JobLease, and what was not asked for stays unattempted.
LEMMA ScanLeased ==
  ASSUME ScanInv, ScanUnasked, [Scan!Next]_scanVars
  PROVE  Scan!Jobs!Next /\ ScanUnasked'
<1>1. \A v \in Scan!Version : ScanMove(v)
  BY ScanJobsMove
<1>2. \A v \in Scan!Version : scan[v].attempts \in Nat
  BY DEF ScanInv, ScanTypes, Scan!Rows!JobRow
<1>3. ScanUnasked'
  BY <1>1 DEF ScanMove, LeasedMove, ScanUnasked
<1>4. ASSUME NEW v \in Scan!Version
      PROVE  \/ Scan!Jobs!Queue(v) \/ Scan!Jobs!Attempt(v) \/ Scan!Jobs!Retry(v)
             \/ Scan!Jobs!Succeed(v) \/ Scan!Jobs!GiveUp(v) \/ Scan!Jobs!Rest(v)
  <2>1. scan[v].attempts \in Nat /\ scan[v].attempts + 0 = scan[v].attempts
    BY <1>2
  <2> QED
    BY <1>1, <2>1 DEF ScanMove, LeasedMove, Scan!ScanStatus, Scan!Jobs!Moves, Scan!Jobs!Queue,
       Scan!Jobs!Attempt, Scan!Jobs!Retry, Scan!Jobs!Succeed, Scan!Jobs!GiveUp, Scan!Jobs!Rest
<1> QED
  BY <1>3, <1>4 DEF Scan!Jobs!Next

\* Scan jobs are leased jobs.
LEMMA ScansLeased == SuiteSpec => Scan!Jobs!SafeSpec
<1>1. SuiteInit => ScanUnasked /\ Scan!Jobs!Init
  BY DEF SuiteInit, Scan!Init, ScanUnasked, Scan!Rows!NoJob, Scan!Jobs!Init, Scan!ScanStatus
<1>2. ScanInv /\ ScanUnasked /\ [SuiteNext]_suiteVars => ScanUnasked' /\ [Scan!Jobs!Next]_(Scan!Jobs!vars)
  BY ScanLeased DEF SuiteNext, suiteVars
<1> QED
  BY <1>1, <1>2, ScanInvariant, PTL DEF SuiteSpec, Scan!Jobs!SafeSpec

\* What becomes of a message, and of a preview job.
MailMove(m) == LeasedMove(outbox[m], outbox'[m], Mailing.attempts, {"delivered"})
PreviewMove(v) == LeasedMove(preview[v], preview'[v], Previewing.attempts, {"succeeded"})

LEMMA MailRowMoves ==
  ASSUME NEW j \in MailRow
  PROVE  LET Move(k) == LeasedMove(j, k, Mailing.attempts, {"delivered"})
             R == Mail!Rows!Recovered(j)
         IN  /\ Move(j) /\ Move(R) /\ Move(Mail!Rows!LeaseLost(j))
             /\ j = Mail!Rows!NoJob => Move(Mail!Rows!QueuedJob)
             /\ Mail!Rows!Claimable(R) => Move(Mail!Rows!Claimed(R))
             /\ j.status = "processing" =>
                  Move(Mail!Rows!GivenBack(j)) /\ Move(Mail!Rows!Ended(j, "delivered"))
<1> USE MailConstants DEF MailRow, Mail!Rows!JobRow
<1> DEFINE Move(k) == LeasedMove(j, k, Mailing.attempts, {"delivered"})
           R == Mail!Rows!Recovered(j)
<1>1. j.attempts \in Nat /\ j.attempts <= Mailing.attempts
  OBVIOUS
<1>2. /\ Move(j) /\ Move(Mail!Rows!LeaseLost(j))
      /\ j = Mail!Rows!NoJob => Move(Mail!Rows!QueuedJob)
  BY DEF LeasedMove, Mail!Rows!LeaseLost, Mail!Rows!NoJob, Mail!Rows!QueuedJob
<1>3. j.status = "processing" =>
        Move(Mail!Rows!GivenBack(j)) /\ Move(Mail!Rows!Ended(j, "delivered"))
  BY <1>1 DEF LeasedMove, Mail!Rows!GivenBack, Mail!Rows!Ended
<1>4. Move(R)
  BY <1>2, <1>3 DEF Mail!Rows!Recovered, Mail!Rows!Lapsed
<1>5. Mail!Rows!Claimable(R) => Move(Mail!Rows!Claimed(R))
  BY <1>1 DEF LeasedMove, Mail!Rows!Claimable, Mail!Rows!Claimed, Mail!Rows!Recovered,
              Mail!Rows!Lapsed, Mail!Rows!GivenBack
<1> QED
  BY <1>2, <1>3, <1>4, <1>5

\* Every step of messages moves each row as a leased job moves.
LEMMA MailJobsMove ==
  ASSUME MailInv, [Mail!Next]_mailVars
  PROVE  \A m \in Mailing.message : MailMove(m)
<1> SUFFICES ASSUME NEW m \in Mailing.message PROVE MailMove(m)
  OBVIOUS
<1> DEFINE Move(k) == LeasedMove(outbox[m], k, Mailing.attempts, {"delivered"})
<1>1. outbox \in [Mailing.message -> MailRow] /\ outbox[m] \in MailRow
  BY DEF MailInv, MailTypes
<1>2. /\ Move(outbox[m]) /\ Move(Mail!Rows!Recovered(outbox[m])) /\ Move(Mail!Rows!LeaseLost(outbox[m]))
      /\ outbox[m] = Mail!Rows!NoJob => Move(Mail!Rows!QueuedJob)
      /\ Mail!Rows!Claimable(Mail!Rows!Recovered(outbox[m])) =>
           Move(Mail!Rows!Claimed(Mail!Rows!Recovered(outbox[m])))
      /\ outbox[m].status = "processing" =>
           Move(Mail!Rows!GivenBack(outbox[m])) /\ Move(Mail!Rows!Ended(outbox[m], "delivered"))
  BY <1>1, MailRowMoves
<1> SUFFICES Move(outbox'[m])
  BY DEF MailMove
<1> HIDE DEF Move
<1>3. outbox' = outbox => Move(outbox'[m])
  BY <1>2
<1>4. ASSUME NEW x \in Mailing.message, Mail!Enqueue(x) \/ Mail!LeaseLapses(x)
      PROVE  Move(outbox'[m])
  <2>1. \/ outbox'[m] = outbox[m] \/ outbox'[m] = Mail!Rows!LeaseLost(outbox[m])
        \/ outbox[m] = Mail!Rows!NoJob /\ outbox'[m] = Mail!Rows!QueuedJob
    BY <1>1, <1>4 DEF Mail!Enqueue, Mail!LeaseLapses
  <2> QED
    BY <1>2, <2>1
<1>5. ASSUME NEW w \in Mailing.sender, Mail!ClaimNotificationJob(w)
      PROVE  Move(outbox'[m])
  <2> PICK R : R = [x \in Mailing.message |-> Mail!Rows!Recovered(outbox[x])]
    OBVIOUS
  <2>1. \/ outbox' = R
        \/ \E x \in Mailing.message :
             Mail!Rows!Claimable(R[x]) /\ outbox' = [R EXCEPT ![x] = Mail!Rows!Claimed(R[x])]
    BY <1>5 DEF Mail!ClaimNotificationJob, Mail!Recover
  <2>2. R[m] = Mail!Rows!Recovered(outbox[m])
    OBVIOUS
  <2>3. \/ outbox'[m] = R[m]
        \/ Mail!Rows!Claimable(R[m]) /\ outbox'[m] = Mail!Rows!Claimed(R[m])
    BY <2>1
  <2> QED
    BY <1>2, <2>2, <2>3
<1>6. ASSUME NEW w \in Mailing.sender, Mail!CompleteNotificationJob(w) \/ Mail!FailNotificationJob(w)
      PROVE  Move(outbox'[m])
  <2> PICK x : x = sender[w].message
    OBVIOUS
  <2>1. \/ outbox' = outbox
        \/ outbox[x].status = "processing" /\ outbox' = [outbox EXCEPT ![x] = Mail!Rows!GivenBack(outbox[x])]
        \/ /\ outbox[x].status = "processing"
           /\ outbox' = [outbox EXCEPT ![x] = Mail!Rows!Ended(outbox[x], "delivered")]
    BY <1>6 DEF Mail!CompleteNotificationJob, Mail!FailNotificationJob, Mail!Rows!Holds
  <2>2. \/ outbox'[m] = outbox[m]
        \/ outbox[m].status = "processing" /\ outbox'[m] = Mail!Rows!GivenBack(outbox[m])
        \/ outbox[m].status = "processing" /\ outbox'[m] = Mail!Rows!Ended(outbox[m], "delivered")
    BY <1>1, <2>1
  <2> QED
    BY <1>2, <2>2
<1>7. ASSUME NEW w \in Mailing.sender, Mail!Send(w) \/ Mail!WorkerDies(w)
      PROVE  outbox' = outbox
  BY <1>7 DEF Mail!Send, Mail!WorkerDies
<1>8. CASE UNCHANGED mailVars
  BY <1>3, <1>8 DEF mailVars
<1> QED
  BY <1>3, <1>4, <1>5, <1>6, <1>7, <1>8 DEF Mail!Next

\* So it is a step of JobLease.
LEMMA MailLeased ==
  ASSUME MailInv, [Mail!Next]_mailVars
  PROVE  Mail!Jobs!Next
<1>1. \A m \in Mailing.message : MailMove(m)
  BY MailJobsMove
<1>2. ASSUME NEW m \in Mailing.message
      PROVE  \/ Mail!Jobs!Queue(m) \/ Mail!Jobs!Attempt(m) \/ Mail!Jobs!Retry(m)
             \/ Mail!Jobs!Succeed(m) \/ Mail!Jobs!GiveUp(m) \/ Mail!Jobs!Rest(m)
  <2>1. outbox[m].attempts \in Nat /\ outbox[m].attempts + 0 = outbox[m].attempts
    BY DEF MailInv, MailTypes, MailRow, Mail!Rows!JobRow
  <2> QED
    BY <1>1, <2>1 DEF MailMove, LeasedMove, Mail!OutboxStatus, Mail!Jobs!Moves, Mail!Jobs!Queue,
       Mail!Jobs!Attempt, Mail!Jobs!Retry, Mail!Jobs!Succeed, Mail!Jobs!GiveUp, Mail!Jobs!Rest
<1> QED
  BY <1>2 DEF Mail!Jobs!Next

LEMMA PreviewRowMoves ==
  ASSUME NEW j \in PreviewRow
  PROVE  LET Move(k) == LeasedMove(j, k, Previewing.attempts, {"succeeded"})
             R == Preview!Rows!Recovered(j)
         IN  /\ Move(j) /\ Move(R) /\ Move(Preview!Rows!LeaseLost(j))
             /\ j = Preview!Rows!NoJob => Move(Preview!Rows!QueuedJob)
             /\ R.status \in {"queued", "processing"} => Move(Preview!Rows!Ended(R, "failed"))
             /\ Preview!Rows!Claimable(R) => Move(Preview!Rows!Claimed(R))
             /\ ~Preview!Rows!Claimable(Preview!Rows!Ended(R, "failed"))
             /\ j.status = "processing" =>
                  Move(Preview!Rows!GivenBack(j)) /\ Move(Preview!Rows!Ended(j, "succeeded"))
<1> USE PreviewConstants DEF PreviewRow, Preview!Rows!JobRow
<1> DEFINE Move(k) == LeasedMove(j, k, Previewing.attempts, {"succeeded"})
           R == Preview!Rows!Recovered(j)
<1>1. j.attempts \in Nat /\ j.attempts <= Previewing.attempts
  OBVIOUS
<1>2. /\ Move(j) /\ Move(Preview!Rows!LeaseLost(j))
      /\ j = Preview!Rows!NoJob => Move(Preview!Rows!QueuedJob)
  BY DEF LeasedMove, Preview!Rows!LeaseLost, Preview!Rows!NoJob, Preview!Rows!QueuedJob
<1>3. j.status = "processing" =>
        Move(Preview!Rows!GivenBack(j)) /\ Move(Preview!Rows!Ended(j, "succeeded"))
  BY <1>1 DEF LeasedMove, Preview!Rows!GivenBack, Preview!Rows!Ended
<1>4. Move(R)
  BY <1>2, <1>3 DEF Preview!Rows!Recovered, Preview!Rows!Lapsed
<1>5. Preview!Rows!Claimable(R) => Move(Preview!Rows!Claimed(R))
  BY <1>1 DEF LeasedMove, Preview!Rows!Claimable, Preview!Rows!Claimed, Preview!Rows!Recovered,
              Preview!Rows!Lapsed, Preview!Rows!GivenBack
<1>6. /\ R.status \in {"queued", "processing"} => Move(Preview!Rows!Ended(R, "failed"))
      /\ ~Preview!Rows!Claimable(Preview!Rows!Ended(R, "failed"))
  BY <1>1 DEF LeasedMove, Preview!Rows!Claimable, Preview!Rows!Ended, Preview!Rows!Recovered,
              Preview!Rows!Lapsed, Preview!Rows!GivenBack
<1> QED
  BY <1>2, <1>3, <1>4, <1>5, <1>6

\* Every step of previews moves each job as a leased job moves.
LEMMA PreviewJobsMove ==
  ASSUME PreviewInv, [Preview!Next]_previewVars
  PROVE  \A v \in Previewing.version : PreviewMove(v)
<1> SUFFICES ASSUME NEW v \in Previewing.version PROVE PreviewMove(v)
  OBVIOUS
<1> DEFINE Move(k) == LeasedMove(preview[v], k, Previewing.attempts, {"succeeded"})
           R(u) == Preview!Rows!Recovered(preview[u])
<1>1. preview \in [Previewing.version -> PreviewRow] /\ preview[v] \in PreviewRow
  BY DEF PreviewInv, PreviewTypes
<1>2. /\ Move(preview[v]) /\ Move(R(v)) /\ Move(Preview!Rows!LeaseLost(preview[v]))
      /\ preview[v] = Preview!Rows!NoJob => Move(Preview!Rows!QueuedJob)
      /\ R(v).status \in {"queued", "processing"} => Move(Preview!Rows!Ended(R(v), "failed"))
      /\ Preview!Rows!Claimable(R(v)) => Move(Preview!Rows!Claimed(R(v)))
      /\ ~Preview!Rows!Claimable(Preview!Rows!Ended(R(v), "failed"))
      /\ preview[v].status = "processing" =>
           Move(Preview!Rows!GivenBack(preview[v])) /\ Move(Preview!Rows!Ended(preview[v], "succeeded"))
  BY <1>1, PreviewRowMoves
<1> SUFFICES Move(preview'[v])
  BY DEF PreviewMove
<1> HIDE DEF Move
<1>3. preview' = preview => Move(preview'[v])
  BY <1>2
<1>4. ASSUME NEW u \in Previewing.version, Preview!GetOrQueuePreview(u) \/ Preview!LeaseLapses(u)
      PROVE  Move(preview'[v])
  <2>1. \/ preview'[v] = preview[v] \/ preview'[v] = Preview!Rows!LeaseLost(preview[v])
        \/ preview[v] = Preview!Rows!NoJob /\ preview'[v] = Preview!Rows!QueuedJob
    BY <1>1, <1>4 DEF Preview!GetOrQueuePreview, Preview!LeaseLapses
  <2> QED
    BY <1>2, <2>1
<1>5. ASSUME NEW w \in Previewing.worker, Preview!ClaimPreviewJob(w)
      PROVE  Move(preview'[v])
  <2> PICK Q : Q = [u \in Previewing.version |-> Preview!Retired(u)]
    OBVIOUS
  <2>1. \/ preview' = Q
        \/ \E u \in Previewing.version :
             Preview!Rows!Claimable(Q[u]) /\ preview' = [Q EXCEPT ![u] = Preview!Rows!Claimed(Q[u])]
    BY <1>5 DEF Preview!ClaimPreviewJob
  <2>2. \/ Q[v] = R(v)
        \/ R(v).status \in {"queued", "processing"} /\ Q[v] = Preview!Rows!Ended(R(v), "failed")
    BY DEF Preview!Retired
  <2>3. \/ preview'[v] = Q[v]
        \/ Preview!Rows!Claimable(Q[v]) /\ preview'[v] = Preview!Rows!Claimed(Q[v])
    BY <2>1
  <2> HIDE DEF R
  <2> QED
    BY <1>2, <2>2, <2>3
<1>6. ASSUME NEW w \in Previewing.worker, Preview!CompletePreviewJob(w) \/ Preview!FailPreviewJob(w)
      PROVE  Move(preview'[v])
  <2> PICK u : u = renderer[w].version
    OBVIOUS
  <2>1. \/ preview' = preview
        \/ preview[u].status = "processing" /\ preview' = [preview EXCEPT ![u] = Preview!Rows!GivenBack(preview[u])]
        \/ /\ preview[u].status = "processing"
           /\ preview' = [preview EXCEPT ![u] = Preview!Rows!Ended(preview[u], "succeeded")]
    BY <1>6 DEF Preview!CompletePreviewJob, Preview!FailPreviewJob, Preview!MayRecord, Preview!Rows!Holds
  <2>2. \/ preview'[v] = preview[v]
        \/ preview[v].status = "processing" /\ preview'[v] = Preview!Rows!GivenBack(preview[v])
        \/ preview[v].status = "processing" /\ preview'[v] = Preview!Rows!Ended(preview[v], "succeeded")
    BY <1>1, <2>1
  <2> QED
    BY <1>2, <2>2
<1>7. ASSUME NEW w \in Previewing.worker,
             Preview!StoreArtifact(w) \/ Preview!RenderFails(w) \/ Preview!WorkerDies(w)
      PROVE  preview' = preview
  BY <1>7 DEF Preview!StoreArtifact, Preview!RenderFails, Preview!WorkerDies
<1>8. ASSUME NEW u \in Previewing.version,
             \/ Preview!ClaimBlobDeletionJob(u) \/ Preview!PreviewArtifactsForVersion(u)
             \/ Preview!DeleteArtifact(u) \/ Preview!CompleteBlobDeletionJob(u) \/ Preview!PurgeFails(u)
      PROVE  preview' = preview
  BY <1>8 DEF Preview!ClaimBlobDeletionJob, Preview!PreviewArtifactsForVersion,
     Preview!DeleteArtifact, Preview!CompleteBlobDeletionJob, Preview!PurgeFails
<1>9. CASE UNCHANGED previewVars
  BY <1>3, <1>9 DEF previewVars
<1> QED
  BY <1>3, <1>4, <1>5, <1>6, <1>7, <1>8, <1>9 DEF Preview!Next

\* So it is a step of JobLease.
LEMMA PreviewLeased ==
  ASSUME PreviewInv, [Preview!Next]_previewVars
  PROVE  Preview!Jobs!Next
<1>1. \A v \in Previewing.version : PreviewMove(v)
  BY PreviewJobsMove
<1>2. ASSUME NEW v \in Previewing.version
      PROVE  \/ Preview!Jobs!Queue(v) \/ Preview!Jobs!Attempt(v) \/ Preview!Jobs!Retry(v)
             \/ Preview!Jobs!Succeed(v) \/ Preview!Jobs!GiveUp(v) \/ Preview!Jobs!Rest(v)
  <2>1. preview[v].attempts \in Nat /\ preview[v].attempts + 0 = preview[v].attempts
    BY DEF PreviewInv, PreviewTypes, PreviewRow, Preview!Rows!JobRow
  <2> QED
    BY <1>1, <2>1 DEF PreviewMove, LeasedMove, Preview!PreviewStatus, Preview!Jobs!Moves, Preview!Jobs!Queue,
       Preview!Jobs!Attempt, Preview!Jobs!Retry, Preview!Jobs!Succeed, Preview!Jobs!GiveUp, Preview!Jobs!Rest
<1> QED
  BY <1>2 DEF Preview!Jobs!Next

LEMMA MessagesLeased == SuiteSpec => Mail!Jobs!SafeSpec
<1>1. SuiteInit => Mail!Jobs!Init
  BY DEF SuiteInit, Mail!Init, Mail!Rows!NoJob, Mail!Jobs!Init, Mail!OutboxStatus
<1>2. MailInv /\ [SuiteNext]_suiteVars => [Mail!Jobs!Next]_(Mail!Jobs!vars)
  BY MailLeased DEF SuiteNext, suiteVars
<1> QED
  BY <1>1, <1>2, MailInvariant, PTL DEF SuiteSpec, Mail!Jobs!SafeSpec

LEMMA PreviewsLeased == SuiteSpec => Preview!Jobs!SafeSpec
<1>1. SuiteInit => Preview!Jobs!Init
  BY DEF SuiteInit, Preview!Init, Preview!Rows!NoJob, Preview!Jobs!Init, Preview!PreviewStatus
<1>2. PreviewInv /\ [SuiteNext]_suiteVars => [Preview!Jobs!Next]_(Preview!Jobs!vars)
  BY PreviewLeased DEF SuiteNext, suiteVars
<1> QED
  BY <1>1, <1>2, PreviewInvariant, PTL DEF SuiteSpec, Preview!Jobs!SafeSpec

\* The scan, message and preview tables are tables of leased jobs, whatever the workers,
\* their attempts, lapses and crashes: a job is queued once, claimed at most MaxAttempts
\* times, retried only while attempts are left, and ends once.
THEOREM LeasesCorrect ==
    SuiteSpec => Scan!Jobs!SafeSpec /\ Mail!Jobs!SafeSpec /\ Preview!Jobs!SafeSpec
BY ScansLeased, MessagesLeased, PreviewsLeased
=============================================================================
