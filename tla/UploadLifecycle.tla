--------------------------- MODULE UploadLifecycle ---------------------------
(***************************************************************************)
(* The life of an upload, from the reservation to a readable version or to *)
(* the release of its bytes: the rows of drive.upload_session,             *)
(* drive.file_version, drive.upload_completion_job and                     *)
(* drive.blob_deletion_job, the objects of the object store, and the       *)
(* processes that race on them: HTTP handlers, the client's presigned PUT  *)
(* requests, completion workers, the purge worker and the expiry loop.     *)
(*                                                                         *)
(* Every PostgreSQL transaction is one action (the code takes row locks),  *)
(* every call to the object store is another one, so a crash, a lapsed     *)
(* lease or another process can come between any two of them.              *)
(*                                                                         *)
(* A session stands for the session, its version and its two jobs: the     *)
(* code creates exactly one version per session, and each job row is       *)
(* unique per session or per version.                                      *)
(***************************************************************************)
EXTENDS Naturals

CONSTANTS
    Session,             \* upload sessions (rows of drive.upload_session)
    MultipartSession,    \* those whose upload_mode is multipart
    Item,                \* file items
    ItemOf,              \* the item each session uploads a version of
    Worker,              \* completion worker goroutines, of all servers
    Purger,              \* purge workers, one per server
    MaxAttempts,         \* upload_completion_job.max_attempts (5)
    MaxDeletions,        \* blob_deletion_job.max_attempts (10)
    RequireMalwareScan,  \* the scan requirement the workers are started with
    NoSession

ASSUME SessionAssumption ==
    /\ MultipartSession \subseteq Session
    /\ ItemOf \in [Session -> Item]
    /\ NoSession \notin Session

ASSUME BoundAssumption ==
    /\ MaxAttempts \in Nat \ {0}
    /\ MaxDeletions \in Nat \ {0}
    /\ RequireMalwareScan \in BOOLEAN

VARIABLES
    sessionStatus,    \* upload_session.status
    overdue,          \* upload_session.expires_at <= now()
    versionState,     \* file_version.state
    storageKey,       \* file_version.storage_key: 0 is the key reserved with
                      \* the version, n > 0 the key of completion attempt n
    isCurrent,        \* file_version.is_current
    jobStatus,        \* upload_completion_job.status
    jobAttempts,      \* upload_completion_job.attempts
    jobLeased,        \* upload_completion_job.lease_expires_at > now()
    stagingCleaned,   \* upload_completion_job.staging_cleaned_at is set
    deletionStatus,   \* blob_deletion_job.status
    deletionAttempts, \* blob_deletion_job.attempts
    deletionLeased,   \* blob_deletion_job.lease_expires_at > now()
    staged,           \* the object under the session's staging key
    multipart,        \* the multipart upload open under the staging key
    sealed,           \* the objects under the version's possible storage keys
    lateCopies,       \* server-side copies whose caller has given up
    worker,           \* where each completion worker is
    purger,           \* where each purge worker is
    abortPC           \* where the abort request of a session is

sessionVars  == <<sessionStatus, overdue>>
versionVars  == <<versionState, storageKey, isCurrent>>
jobVars      == <<jobStatus, jobAttempts, jobLeased, stagingCleaned>>
deletionVars == <<deletionStatus, deletionAttempts, deletionLeased>>
storeVars    == <<staged, multipart, sealed, lateCopies>>
processVars  == <<worker, purger, abortPC>>
rowVars      == <<sessionVars, versionVars, jobVars, deletionVars>>
vars == <<sessionStatus, overdue, versionState, storageKey, isCurrent,
          jobStatus, jobAttempts, jobLeased, stagingCleaned,
          deletionStatus, deletionAttempts, deletionLeased,
          staged, multipart, sealed, lateCopies, worker, purger, abortPC>>

-----------------------------------------------------------------------------
(* The values of the columns, and the bytes an object can hold: "agreed"     *)
(* are the bytes of the SHA-256 digest the session was reserved with,        *)
(* "other" any other bytes of the reserved length (the presigned requests    *)
(* sign the length). Equal bytes have equal ETags.                           *)

SessionStatus == {"none", "initiated", "uploading", "completing", "completed",
                  "aborted", "expired", "failed"}
VersionState  == {"none", "pending", "ready", "quarantined", "failed",
                  "deleting", "deleted"}
JobStatus     == {"none", "queued", "processing", "succeeded", "failed"}
Bytes         == {"agreed", "other"}
Object        == Bytes \cup {"absent"}
Multipart     == Object \cup {"partial"}

Attempt    == 1 .. MaxAttempts
StorageKey == 0 .. MaxAttempts
LateCopy   == [session : Session, attempt : Attempt, etag : Bytes]

WorkerPC == {"stat", "seal", "hash", "publish", "unstage", "failing", "unseal"}
IdleWorker == [pc |-> "idle", session |-> NoSession, attempt |-> 0,
               etag |-> "absent"]
WorkerState == [pc : WorkerPC, session : Session, attempt : Attempt,
                etag : Object] \cup {IdleWorker}

PurgerPC == {"staging", "blob", "confirm", "failing"}
IdlePurger == [pc |-> "idle", session |-> NoSession, attempt |-> 0]
PurgerState == [pc : PurgerPC, session : Session, attempt : 1 .. MaxDeletions]
                 \cup {IdlePurger}

Transferring == {"initiated", "uploading"}
Open         == Transferring \cup {"completing"}
Published    == {"ready", "quarantined"}

TypeOK ==
    /\ sessionStatus \in [Session -> SessionStatus]
    /\ overdue \in [Session -> BOOLEAN]
    /\ versionState \in [Session -> VersionState]
    /\ storageKey \in [Session -> StorageKey]
    /\ isCurrent \in [Session -> BOOLEAN]
    /\ jobStatus \in [Session -> JobStatus]
    /\ jobAttempts \in [Session -> 0 .. MaxAttempts]
    /\ jobLeased \in [Session -> BOOLEAN]
    /\ stagingCleaned \in [Session -> BOOLEAN]
    /\ deletionStatus \in [Session -> JobStatus]
    /\ deletionAttempts \in [Session -> 0 .. MaxDeletions]
    /\ deletionLeased \in [Session -> BOOLEAN]
    /\ staged \in [Session -> Object]
    /\ multipart \in [Session -> Multipart]
    /\ sealed \in [Session -> [StorageKey -> Object]]
    /\ lateCopies \subseteq LateCopy
    /\ worker \in [Worker -> WorkerState]
    /\ purger \in [Purger -> PurgerState]
    /\ abortPC \in [Session -> {"none", "parts", "row"}]

Init ==
    /\ sessionStatus = [s \in Session |-> "none"]
    /\ overdue = [s \in Session |-> FALSE]
    /\ versionState = [s \in Session |-> "none"]
    /\ storageKey = [s \in Session |-> 0]
    /\ isCurrent = [s \in Session |-> FALSE]
    /\ jobStatus = [s \in Session |-> "none"]
    /\ jobAttempts = [s \in Session |-> 0]
    /\ jobLeased = [s \in Session |-> FALSE]
    /\ stagingCleaned = [s \in Session |-> FALSE]
    /\ deletionStatus = [s \in Session |-> "none"]
    /\ deletionAttempts = [s \in Session |-> 0]
    /\ deletionLeased = [s \in Session |-> FALSE]
    /\ staged = [s \in Session |-> "absent"]
    /\ multipart = [s \in Session |-> "absent"]
    /\ sealed = [s \in Session |-> [k \in StorageKey |-> "absent"]]
    /\ lateCopies = {}
    /\ worker = [w \in Worker |-> IdleWorker]
    /\ purger = [p \in Purger |-> IdlePurger]
    /\ abortPC = [s \in Session |-> "none"]

-----------------------------------------------------------------------------
(* The request handlers and the client. *)

\* Faulty: the INSERT is forgotten.
QueueNoDeletion(S) == UNCHANGED deletionStatus

\* Insert a row into blob_deletion_job for every session of S that has none
\* (INSERT ... ON CONFLICT (file_version_id) DO NOTHING).
QueueDeletion(S) ==
    deletionStatus' = [s \in Session |->
        IF s \in S /\ deletionStatus[s] = "none" THEN "queued" ELSE deletionStatus[s]]

\* Versions of S that are still pending become failed.
FailPending(S) ==
    versionState' = [s \in Session |->
        IF s \in S /\ versionState[s] = "pending" THEN "failed" ELSE versionState[s]]

\* Faulty: the item's current version is retired when its successor is reserved.
ReserveAndRetire(s) ==
    /\ sessionStatus[s] = "none"
    /\ sessionStatus' = [sessionStatus EXCEPT ![s] = "initiated"]
    /\ versionState' = [versionState EXCEPT ![s] = "pending"]
    /\ isCurrent' = [t \in Session |-> isCurrent[t] /\ ItemOf[t] # ItemOf[s]]
    /\ UNCHANGED <<overdue, storageKey, jobVars, deletionVars, storeVars,
                   processVars>>

\* A new reservation; a replayed one changes nothing.
ReserveUpload(s) ==
    /\ sessionStatus[s] = "none"
    /\ sessionStatus' = [sessionStatus EXCEPT ![s] = "initiated"]
    /\ versionState' = [versionState EXCEPT ![s] = "pending"]
    /\ UNCHANGED <<overdue, storageKey, isCurrent, jobVars, deletionVars,
                   storeVars, processVars>>

\* ensureMultipartUpload and AttachMultipartUpload, when no other request
\* attaches an upload id to the session at the same time.
AttachMultipartUpload(s) ==
    /\ s \in MultipartSession
    /\ sessionStatus[s] = "initiated"
    /\ ~overdue[s]
    /\ sessionStatus' = [sessionStatus EXCEPT ![s] = "uploading"]
    /\ multipart' = [multipart EXCEPT ![s] = "partial"]
    /\ UNCHANGED <<overdue, versionVars, jobVars, deletionVars,
                   staged, sealed, lateCopies, processVars>>

\* A PUT through a presigned URL of the staging key. Nothing recalls a URL, and
\* a request that began in time may end at any time, so it may land whenever
\* the session exists: after an abort, a publication or a purge as well.
PutStaged(s, bytes) ==
    /\ s \notin MultipartSession
    /\ sessionStatus[s] # "none"
    /\ staged' = [staged EXCEPT ![s] = bytes]
    /\ UNCHANGED <<rowVars, multipart, sealed, lateCopies, processVars>>

\* Presigned part uploads; they need the multipart upload to be still open.
PutParts(s, bytes) ==
    /\ multipart[s] # "absent"
    /\ multipart' = [multipart EXCEPT ![s] = bytes]
    /\ UNCHANGED <<rowVars, staged, sealed, lateCopies, processVars>>

QueueUploadCompletion(s) ==
    /\ sessionStatus[s] \in Transferring
    /\ ~overdue[s]
    /\ sessionStatus' = [sessionStatus EXCEPT ![s] = "completing"]
    /\ jobStatus' = [jobStatus EXCEPT ![s] = "queued"]
    /\ jobLeased' = [jobLeased EXCEPT ![s] = FALSE]
    /\ UNCHANGED <<overdue, versionVars, jobAttempts, stagingCleaned,
                   deletionVars, storeVars, processVars>>

\* RenewUpload only moves the deadline of a session that is not overdue.
DeadlinePasses(s) ==
    /\ sessionStatus[s] \in Open
    /\ ~overdue[s]
    /\ overdue' = [overdue EXCEPT ![s] = TRUE]
    /\ UNCHANGED <<sessionStatus, versionVars, jobVars, deletionVars,
                   storeVars, processVars>>

\* Faulty: the list of overdue sessions is trusted, the row not looked at again.
ExpirableWhenListed(s) == overdue[s]

Expirable(s) == sessionStatus[s] \in Transferring /\ overdue[s]

MarkUploadExpired(s) ==
    /\ Expirable(s)
    /\ sessionStatus' = [sessionStatus EXCEPT ![s] = "expired"]
    /\ FailPending({s})
    /\ QueueDeletion({s})
    /\ UNCHANGED <<overdue, storageKey, isCurrent, jobVars, deletionAttempts,
                   deletionLeased, storeVars, processVars>>

\* The abort handler loads the session, aborts the multipart upload attached
\* to it, if any, and then the row; the row may have moved on in between.
BeginAbort(s) ==
    /\ sessionStatus[s] \in Open
    /\ abortPC[s] = "none"
    /\ abortPC' = [abortPC EXCEPT ![s] =
           IF s \in MultipartSession /\ sessionStatus[s] # "initiated"
           THEN "parts" ELSE "row"]
    /\ UNCHANGED <<rowVars, storeVars, worker, purger>>

AbortParts(s) ==
    /\ abortPC[s] = "parts"
    /\ multipart' = [multipart EXCEPT ![s] = "absent"]
    /\ abortPC' = [abortPC EXCEPT ![s] = "row"]
    /\ UNCHANGED <<rowVars, staged, sealed, lateCopies, worker, purger>>

AbortUpload(s) ==
    /\ abortPC[s] = "row"
    /\ abortPC' = [abortPC EXCEPT ![s] = "none"]
    /\ IF sessionStatus[s] \in Open
       THEN /\ sessionStatus' = [sessionStatus EXCEPT ![s] = "aborted"]
            /\ FailPending({s})
            /\ isCurrent' = [isCurrent EXCEPT ![s] =
                               @ /\ versionState[s] # "pending"]
            /\ QueueDeletion({s})
       ELSE UNCHANGED <<sessionStatus, versionState, isCurrent, deletionStatus>>
    /\ UNCHANGED <<overdue, storageKey, jobVars, deletionAttempts,
                   deletionLeased, storeVars, worker, purger>>

\* The storage call fails, or the server stops while it handles the request.
AbortGivesUp(s) ==
    /\ abortPC[s] # "none"
    /\ abortPC' = [abortPC EXCEPT ![s] = "none"]
    /\ UNCHANGED <<rowVars, storeVars, worker, purger>>

-----------------------------------------------------------------------------
(* The completion workers. *)

\* Faulty: any attempt may hold the lease.
HoldsSomeLease(w) ==
    /\ jobStatus[worker[w].session] = "processing"
    /\ jobLeased[worker[w].session]

\* The worker still owns the attempt it claimed: what every statement that
\* records a result of the attempt asks of the job row.
HoldsLease(w) ==
    /\ jobStatus[worker[w].session] = "processing"
    /\ jobAttempts[worker[w].session] = worker[w].attempt
    /\ jobLeased[worker[w].session]

At(w, pc) == worker[w].pc = pc
MoveTo(w, pc) == worker' = [worker EXCEPT ![w].pc = pc]

\* Faulty: the idle worker keeps its job.
FinishKeepingJob(w) == MoveTo(w, "idle")

Finish(w) == worker' = [worker EXCEPT ![w] = IdleWorker]

\* No renewal reaches the database for joblease.Duration: the worker died, or
\* it hangs, or the database or the network did.
CompletionLeaseLapses(s) ==
    /\ jobStatus[s] = "processing"
    /\ jobLeased[s]
    /\ jobLeased' = [jobLeased EXCEPT ![s] = FALSE]
    /\ UNCHANGED <<sessionVars, versionVars, jobStatus, jobAttempts,
                   stagingCleaned, deletionVars, storeVars, processVars>>

\* Faulty: only leases of jobs that may be tried again are looked for.
LapsedRetryable == {s \in Session : /\ jobStatus[s] = "processing"
                                    /\ ~jobLeased[s]
                                    /\ jobAttempts[s] < MaxAttempts}

LapsedCompletions == {s \in Session : jobStatus[s] = "processing" /\ ~jobLeased[s]}

\* Faulty: every lapsed job is queued again.
NoneExhausted == {}

ExhaustedCompletions == {s \in LapsedCompletions : jobAttempts[s] >= MaxAttempts}

\* The recovery statement of ClaimUploadCompletionJob, for all lapsed jobs.
RecoverCompletionLeases ==
    /\ \E w \in Worker : At(w, "idle")
    /\ LapsedCompletions # {}
    /\ jobStatus' = [s \in Session |->
           CASE s \in ExhaustedCompletions -> "failed"
             [] s \in LapsedCompletions \ ExhaustedCompletions -> "queued"
             [] OTHER -> jobStatus[s]]
    /\ sessionStatus' = [s \in Session |->
           IF s \in ExhaustedCompletions THEN "failed" ELSE sessionStatus[s]]
    /\ FailPending(ExhaustedCompletions)
    /\ isCurrent' = [s \in Session |->
           isCurrent[s] /\ ~(s \in ExhaustedCompletions /\ versionState[s] = "pending")]
    /\ QueueDeletion({s \in ExhaustedCompletions : versionState[s] = "pending"})
    /\ UNCHANGED <<overdue, storageKey, jobAttempts, jobLeased, stagingCleaned,
                   deletionAttempts, deletionLeased, storeVars, processVars>>

\* Faulty: a retry goes on under the number, and the key, of the lapsed attempt.
RetryAttempt(s) == IF jobAttempts[s] = 0 THEN 1 ELSE jobAttempts[s]

NextAttempt(s) == jobAttempts[s] + 1

\* The claim; run_after is when a queued job becomes due, hence at some time.
ClaimUploadCompletionJob(w, s) ==
    /\ At(w, "idle")
    /\ jobStatus[s] = "queued"
    /\ jobAttempts[s] < MaxAttempts
    /\ sessionStatus[s] = "completing"
    /\ versionState[s] = "pending"
    /\ jobStatus' = [jobStatus EXCEPT ![s] = "processing"]
    /\ jobAttempts' = [jobAttempts EXCEPT ![s] = NextAttempt(s)]
    /\ jobLeased' = [jobLeased EXCEPT ![s] = TRUE]
    /\ worker' = [worker EXCEPT ![w] =
           [pc |-> "stat", session |-> s, attempt |-> NextAttempt(s), etag |-> "absent"]]
    /\ UNCHANGED <<sessionVars, versionVars, stagingCleaned, deletionVars,
                   storeVars, purger, abortPC>>

StatStaged(w) ==
    /\ At(w, "stat")
    /\ staged[worker[w].session] # "absent"
    /\ worker' = [worker EXCEPT ![w] =
           [@ EXCEPT !.pc = "seal", !.etag = staged[worker[w].session]]]
    /\ UNCHANGED <<rowVars, storeVars, purger, abortPC>>

\* completeMultipart: with every part there, the parts become the staged object.
CompleteMultipart(w) ==
    LET s == worker[w].session
    IN  /\ At(w, "stat")
        /\ staged[s] = "absent"
        /\ multipart[s] \in Bytes
        /\ staged' = [staged EXCEPT ![s] = multipart[s]]
        /\ multipart' = [multipart EXCEPT ![s] = "absent"]
        /\ UNCHANGED <<rowVars, sealed, lateCopies, processVars>>

\* The copy to the attempt's own key, conditional on the ETag seen before and
\* on the key being free.
Seal(w) ==
    LET s == worker[w].session
    IN  /\ At(w, "seal")
        /\ staged[s] = worker[w].etag
        /\ sealed[s][worker[w].attempt] = "absent"
        /\ sealed' = [sealed EXCEPT ![s][worker[w].attempt] = worker[w].etag]
        /\ MoveTo(w, "hash")
        /\ UNCHANGED <<rowVars, staged, multipart, lateCopies, purger, abortPC>>

\* Faulty: the digest is computed and not compared.
HashUnchecked(w) ==
    /\ At(w, "hash")
    /\ MoveTo(w, "publish")
    /\ UNCHANGED <<rowVars, storeVars, purger, abortPC>>

HashSealed(w) ==
    /\ At(w, "hash")
    /\ sealed[worker[w].session][worker[w].attempt] = "agreed"
    /\ MoveTo(w, "publish")
    /\ UNCHANGED <<rowVars, storeVars, purger, abortPC>>

\* CompleteUpload for a session that a newer attempt has completed: it answers
\* that all is well before it looks at the claim.
FindCompleted(w) ==
    /\ At(w, "publish")
    /\ sessionStatus[worker[w].session] = "completed"
    /\ MoveTo(w, "unstage")
    /\ UNCHANGED <<rowVars, storeVars, purger, abortPC>>

\* Faulty: the version published before stays current.
CurrentWithoutRetiring(s) == [isCurrent EXCEPT ![s] = ~RequireMalwareScan]

\* Which versions are current once s is published: with a scan required it
\* stays in quarantine, else it takes the place of the item's current version.
CurrentOnPublish(s) == [t \in Session |->
    CASE t = s -> ~RequireMalwareScan
      [] t # s /\ ~RequireMalwareScan /\ ItemOf[t] = ItemOf[s]
               /\ versionState[t] = "ready" -> FALSE
      [] OTHER -> isCurrent[t]]

\* CompleteUpload: the fenced publication. The acknowledgement of the commit
\* may be lost, and the worker then takes the attempt for a failed one.
Publish(w) ==
    LET s == worker[w].session
    IN  /\ At(w, "publish")
        /\ sessionStatus[s] = "completing"
        /\ HoldsLease(w)
        /\ sessionStatus' = [sessionStatus EXCEPT ![s] = "completed"]
        /\ versionState' = [versionState EXCEPT ![s] =
                              IF RequireMalwareScan THEN "quarantined" ELSE "ready"]
        /\ storageKey' = [storageKey EXCEPT ![s] = worker[w].attempt]
        /\ isCurrent' = CurrentOnPublish(s)
        /\ jobStatus' = [jobStatus EXCEPT ![s] = "succeeded"]
        /\ jobLeased' = [jobLeased EXCEPT ![s] = FALSE]
        /\ \E acknowledged \in BOOLEAN :
               MoveTo(w, IF acknowledged THEN "unstage" ELSE "failing")
        /\ UNCHANGED <<overdue, jobAttempts, stagingCleaned, deletionVars,
                       storeVars, purger, abortPC>>

\* Best effort: an error is logged and left to the staging cleanup.
DeleteStaged(w) ==
    /\ At(w, "unstage")
    /\ \E deleted \in BOOLEAN :
           staged' = IF deleted THEN [staged EXCEPT ![worker[w].session] = "absent"]
                                ELSE staged
    /\ Finish(w)
    /\ UNCHANGED <<rowVars, multipart, sealed, lateCopies, purger, abortPC>>

\* The attempt fails: a check or a storage call does, the time budget is over,
\* a renewal is refused, or CompleteUpload refuses the attempt. A copy whose
\* caller gave up may still be running in the object store.
WorkFails(w) ==
    LET copy == [session |-> worker[w].session, attempt |-> worker[w].attempt,
                 etag |-> worker[w].etag]
    IN  /\ worker[w].pc \in {"stat", "seal", "hash", "publish"}
        /\ \/ UNCHANGED lateCopies
           \/ At(w, "seal") /\ lateCopies' = lateCopies \cup {copy}
        /\ MoveTo(w, "failing")
        /\ UNCHANGED <<rowVars, staged, multipart, sealed, purger, abortPC>>

\* Faulty: the failed attempt's output is deleted whatever became of the attempt.
DeleteSealAnyway(w) == MoveTo(w, "unseal")

\* A worker that has lost the lease leaves the sealed object alone: an
\* attempt whose commit was not acknowledged may have been published.
LeaveSeal(w) == Finish(w)

\* FailUploadCompletionJob: fenced, and terminal on the last attempt.
FailUploadCompletionJob(w) ==
    LET s == worker[w].session
    IN  /\ At(w, "failing")
        /\ \/ /\ ~HoldsLease(w)
              /\ LeaveSeal(w)
              /\ UNCHANGED <<sessionStatus, versionState, isCurrent, jobStatus,
                             jobLeased, deletionStatus>>
           \/ /\ HoldsLease(w)
              /\ jobAttempts[s] < MaxAttempts
              /\ jobStatus' = [jobStatus EXCEPT ![s] = "queued"]
              /\ jobLeased' = [jobLeased EXCEPT ![s] = FALSE]
              /\ MoveTo(w, "unseal")
              /\ UNCHANGED <<sessionStatus, versionState, isCurrent, deletionStatus>>
           \/ /\ HoldsLease(w)
              /\ jobAttempts[s] >= MaxAttempts
              /\ jobStatus' = [jobStatus EXCEPT ![s] = "failed"]
              /\ jobLeased' = [jobLeased EXCEPT ![s] = FALSE]
              /\ sessionStatus' = [sessionStatus EXCEPT ![s] = "failed"]
              /\ FailPending({s})
              /\ isCurrent' = [isCurrent EXCEPT ![s] =
                                 @ /\ versionState[s] # "pending"]
              /\ QueueDeletion({s})
              /\ MoveTo(w, "unseal")
        /\ UNCHANGED <<overdue, storageKey, jobAttempts, stagingCleaned,
                       deletionAttempts, deletionLeased, storeVars, purger, abortPC>>

\* The output of an attempt that has been fenced off is deleted.
DeleteFailedSeal(w) ==
    /\ At(w, "unseal")
    /\ \E deleted \in BOOLEAN :
           sealed' = IF deleted
                     THEN [sealed EXCEPT ![worker[w].session][worker[w].attempt] = "absent"]
                     ELSE sealed
    /\ Finish(w)
    /\ UNCHANGED <<rowVars, staged, multipart, lateCopies, purger, abortPC>>

\* The process of the worker stops, and is started again.
WorkerDies(w) ==
    LET copy == [session |-> worker[w].session, attempt |-> worker[w].attempt,
                 etag |-> worker[w].etag]
    IN  /\ ~At(w, "idle")
        /\ \/ UNCHANGED lateCopies
           \/ At(w, "seal") /\ lateCopies' = lateCopies \cup {copy}
        /\ Finish(w)
        /\ UNCHANGED <<rowVars, staged, multipart, sealed, purger, abortPC>>

\* The object store finishes a copy nobody waits for any more, or gives it up.
\* The checks that the key is free and the ETag unchanged lie in the past.
LateCopyEnds(c) ==
    /\ c \in lateCopies
    /\ lateCopies' = lateCopies \ {c}
    /\ \E copied \in BOOLEAN :
           sealed' = IF copied
                     THEN [sealed EXCEPT ![c.session][c.attempt] = c.etag] ELSE sealed
    /\ UNCHANGED <<rowVars, staged, multipart, processVars>>

\* The staging cleanup a worker runs, 16 minutes after the publication at the
\* earliest, before it looks for a job.
CleanStaging(w, s) ==
    /\ At(w, "idle")
    /\ jobStatus[s] = "succeeded"
    /\ ~stagingCleaned[s]
    /\ staged' = [staged EXCEPT ![s] = "absent"]
    /\ stagingCleaned' = [stagingCleaned EXCEPT ![s] = TRUE]
    /\ UNCHANGED <<sessionVars, versionVars, jobStatus, jobAttempts, jobLeased,
                   deletionVars, multipart, sealed, lateCopies, processVars>>

-----------------------------------------------------------------------------
(* The purge workers. *)

Purging(p, pc) == purger[p].pc = pc
PurgeNext(p, pc) == purger' = [purger EXCEPT ![p].pc = pc]
FinishPurge(p) == purger' = [purger EXCEPT ![p] = IdlePurger]

HoldsDeletion(p) ==
    /\ deletionStatus[purger[p].session] = "processing"
    /\ deletionAttempts[purger[p].session] = purger[p].attempt
    /\ deletionLeased[purger[p].session]

DeletionLeaseLapses(s) ==
    /\ deletionStatus[s] = "processing"
    /\ deletionLeased[s]
    /\ deletionLeased' = [deletionLeased EXCEPT ![s] = FALSE]
    /\ UNCHANGED <<sessionVars, versionVars, jobVars, deletionStatus,
                   deletionAttempts, storeVars, processVars>>

LapsedDeletions ==
    {s \in Session : deletionStatus[s] = "processing" /\ ~deletionLeased[s]}

RecoverDeletionLeases ==
    /\ \E p \in Purger : Purging(p, "idle")
    /\ LapsedDeletions # {}
    /\ deletionStatus' = [s \in Session |->
           CASE s \in LapsedDeletions /\ deletionAttempts[s] >= MaxDeletions -> "failed"
             [] s \in LapsedDeletions /\ deletionAttempts[s] < MaxDeletions -> "queued"
             [] OTHER -> deletionStatus[s]]
    /\ UNCHANGED <<sessionVars, versionVars, jobVars, deletionAttempts,
                   deletionLeased, storeVars, processVars>>

\* Faulty: a deletion that was interrupted is not taken up again.
PurgeableOnce == {"failed"}

\* Failed and half deleted versions. Ready versions in the trash and infected
\* ones may be purged too; they do not arise in this module.
Purgeable == {"failed", "deleting"}

ClaimBlobDeletionJob(p, s) ==
    /\ Purging(p, "idle")
    /\ deletionStatus[s] = "queued"
    /\ deletionAttempts[s] < MaxDeletions
    /\ versionState[s] \in Purgeable
    /\ versionState' = [versionState EXCEPT ![s] = "deleting"]
    /\ isCurrent' = [isCurrent EXCEPT ![s] = FALSE]
    /\ deletionStatus' = [deletionStatus EXCEPT ![s] = "processing"]
    /\ deletionAttempts' = [deletionAttempts EXCEPT ![s] = @ + 1]
    /\ deletionLeased' = [deletionLeased EXCEPT ![s] = TRUE]
    /\ purger' = [purger EXCEPT ![p] =
                    [pc |-> "staging", session |-> s,
                     attempt |-> deletionAttempts[s] + 1]]
    /\ UNCHANGED <<sessionVars, storageKey, jobVars, storeVars, worker, abortPC>>

\* The multipart upload is aborted under the version's storage key first. None
\* was ever opened there (it is under the staging key), the store answers that
\* there is no such upload, and the worker takes that for success.
PurgeStaged(p) ==
    /\ Purging(p, "staging")
    /\ staged' = [staged EXCEPT ![purger[p].session] = "absent"]
    /\ PurgeNext(p, "blob")
    /\ UNCHANGED <<rowVars, multipart, sealed, lateCopies, worker, abortPC>>

PurgeBlob(p) ==
    LET s == purger[p].session
    IN  /\ Purging(p, "blob")
        /\ sealed' = [sealed EXCEPT ![s][storageKey[s]] = "absent"]
        /\ PurgeNext(p, "confirm")
        /\ UNCHANGED <<rowVars, staged, multipart, lateCopies, worker, abortPC>>

CompleteBlobDeletionJob(p) ==
    LET s == purger[p].session
    IN  /\ Purging(p, "confirm")
        /\ IF HoldsDeletion(p) /\ versionState[s] = "deleting"
           THEN /\ versionState' = [versionState EXCEPT ![s] = "deleted"]
                /\ isCurrent' = [isCurrent EXCEPT ![s] = FALSE]
                /\ deletionStatus' = [deletionStatus EXCEPT ![s] = "succeeded"]
                /\ deletionLeased' = [deletionLeased EXCEPT ![s] = FALSE]
           ELSE UNCHANGED <<versionState, isCurrent, deletionStatus, deletionLeased>>
        /\ FinishPurge(p)
        /\ UNCHANGED <<sessionVars, storageKey, jobVars, deletionAttempts,
                       storeVars, worker, abortPC>>

PurgeFails(p) ==
    /\ purger[p].pc \in {"staging", "blob"}
    /\ PurgeNext(p, "failing")
    /\ UNCHANGED <<rowVars, storeVars, worker, abortPC>>

FailBlobDeletionJob(p) ==
    LET s == purger[p].session
    IN  /\ Purging(p, "failing")
        /\ IF HoldsDeletion(p)
           THEN /\ deletionStatus' = [deletionStatus EXCEPT ![s] =
                       IF deletionAttempts[s] >= MaxDeletions THEN "failed" ELSE "queued"]
                /\ deletionLeased' = [deletionLeased EXCEPT ![s] = FALSE]
           ELSE UNCHANGED <<deletionStatus, deletionLeased>>
        /\ FinishPurge(p)
        /\ UNCHANGED <<sessionVars, versionVars, jobVars, deletionAttempts,
                       storeVars, worker, abortPC>>

PurgerDies(p) ==
    /\ ~Purging(p, "idle")
    /\ FinishPurge(p)
    /\ UNCHANGED <<rowVars, storeVars, worker, abortPC>>
-----------------------------------------------------------------------------
(* The specification. *)

ClientStep(s) ==
    \/ ReserveUpload(s)
    \/ AttachMultipartUpload(s)
    \/ \E bytes \in Bytes : PutStaged(s, bytes)
    \/ \E bytes \in Bytes \cup {"partial"} : PutParts(s, bytes)
    \/ QueueUploadCompletion(s)
    \/ BeginAbort(s)
    \/ AbortParts(s)
    \/ AbortUpload(s)
    \/ AbortGivesUp(s)

\* What time brings about.
TimeStep(s) ==
    \/ DeadlinePasses(s)
    \/ CompletionLeaseLapses(s)
    \/ DeletionLeaseLapses(s)

\* A completion worker works on the job it has claimed.
Work(w) ==
    \/ StatStaged(w)
    \/ CompleteMultipart(w)
    \/ Seal(w)
    \/ HashSealed(w)
    \/ FindCompleted(w)
    \/ Publish(w)
    \/ DeleteStaged(w)
    \/ WorkFails(w)
    \/ FailUploadCompletionJob(w)
    \/ DeleteFailedSeal(w)

WorkerStep(w) ==
    \/ Work(w)
    \/ WorkerDies(w)
    \/ \E s \in Session : ClaimUploadCompletionJob(w, s) \/ CleanStaging(w, s)

\* A purge worker works on the job it has claimed.
Purge(p) ==
    \/ PurgeStaged(p)
    \/ PurgeBlob(p)
    \/ CompleteBlobDeletionJob(p)
    \/ PurgeFails(p)
    \/ FailBlobDeletionJob(p)

PurgerStep(p) ==
    \/ Purge(p)
    \/ PurgerDies(p)
    \/ \E s \in Session : ClaimBlobDeletionJob(p, s)

Next ==
    \/ \E s \in Session : ClientStep(s) \/ TimeStep(s) \/ MarkUploadExpired(s)
    \/ RecoverCompletionLeases
    \/ \E w \in Worker : WorkerStep(w)
    \/ \E c \in lateCopies : LateCopyEnds(c)
    \/ RecoverDeletionLeases
    \/ \E p \in Purger : PurgerStep(p)

Spec == Init /\ [][Next]_vars

\* A lease lapses once nobody renews it; a claimed job is worked on until it
\* ends (every call has a deadline) unless the process stops; the loops of the
\* workers and of the expiry poll for ever. Nothing obliges a client to act.
Fairness ==
    /\ \A s \in Session :
           /\ WF_vars(MarkUploadExpired(s))
           /\ WF_vars(CompletionLeaseLapses(s) /\ \A w \in Worker : worker[w].session # s)
           /\ WF_vars(DeletionLeaseLapses(s) /\ \A p \in Purger : purger[p].session # s)
           /\ WF_vars(\E w \in Worker : ClaimUploadCompletionJob(w, s))
           /\ WF_vars(\E p \in Purger : ClaimBlobDeletionJob(p, s))
    /\ \A w \in Worker : WF_vars(Work(w))
    /\ \A p \in Purger : WF_vars(Purge(p))
    /\ WF_vars(RecoverCompletionLeases)
    /\ WF_vars(RecoverDeletionLeases)

FairSpec == Spec /\ Fairness

-----------------------------------------------------------------------------
(* What makes the component correct. *)

\* What a published version serves are the bytes whose digest the client
\* declared: no lost acknowledgement, revoked lease, overlapping attempt, late
\* copy, clean-up or purge replaces or removes them (upload/worker.go, process).
PublishedIntact ==
    \A s \in Session :
        versionState[s] \in Published => sealed[s][storageKey[s]] = "agreed"

\* An item has at most one current version, which is ready (CompleteUpload
\* retires the previous one, whichever upload finishes first).
OneCurrentVersion ==
    /\ \A s \in Session : isCurrent[s] => versionState[s] = "ready"
    /\ \A s, t \in Session :
           isCurrent[s] /\ isCurrent[t] /\ ItemOf[s] = ItemOf[t] => s = t

\* The rows of a session, changed by five processes, tell one story: a version
\* is pending as long as the session is open; it is published, under the key of
\* the last attempt, exactly when the session and its job have succeeded; a
\* completing session has a live job (repository/upload*.go).
RowsAgree ==
    \A s \in Session :
        /\ sessionStatus[s] = "none" <=> versionState[s] = "none"
        /\ sessionStatus[s] \in Open <=> versionState[s] = "pending"
        /\ sessionStatus[s] = "completed" <=> versionState[s] \in Published
        /\ sessionStatus[s] = "completed" <=> jobStatus[s] = "succeeded"
        /\ sessionStatus[s] = "completing" => jobStatus[s] \in {"queued", "processing"}
        /\ sessionStatus[s] \in Transferring \cup {"none", "expired"} =>
               jobStatus[s] = "none"
        /\ storageKey[s] = IF versionState[s] \in Published THEN jobAttempts[s] ELSE 0

\* The bytes of an upload that came to nothing are never forgotten: from the
\* moment the version fails until it is marked deleted there is a deletion job
\* for it (AbortUpload, MarkUploadExpired, the two terminal failures, purge.go).
CleanupNeverForgotten ==
    \A s \in Session :
        /\ versionState[s] \in {"failed", "deleting"} =>
               deletionStatus[s] \in {"queued", "processing", "failed"}
        /\ versionState[s] = "deleted" <=> deletionStatus[s] = "succeeded"
        /\ deletionStatus[s] # "none" => versionState[s] \in {"failed", "deleting", "deleted"}
        /\ deletionStatus[s] = "processing" => versionState[s] = "deleting"

\* A publication is final: nothing in this component (a stale expiry list, a
\* second request, an abort, an older attempt) takes it back or moves its key.
PublicationIsFinal ==
    [][\A s \in Session :
          versionState[s] \in Published =>
              /\ versionState'[s] = versionState[s]
              /\ storageKey'[s] = storageKey[s]
              /\ sessionStatus'[s] = "completed"]_vars

\* An item that can be read stays readable whatever becomes of its new
\* revisions: the current version gives way only to a version being published.
CurrentSurvives ==
    [][\A s \in Session :
          isCurrent[s] /\ ~isCurrent'[s] =>
              \E t \in Session : /\ ItemOf[t] = ItemOf[s]
                                 /\ isCurrent'[t]
                                 /\ versionState[t] = "pending"]_vars

\* An accepted completion request is settled: whatever workers crash or hang,
\* the upload ends completed or failed, or the user aborts it.
AcceptedCompletionSettles ==
    \A s \in Session : sessionStatus[s] = "completing" ~>
        sessionStatus[s] \in {"completed", "failed", "aborted"}

\* An upload left alone by its client is given up after its deadline, and a
\* failed one has its bytes released unless every deletion attempt failed.
AbandonedUploadReleased ==
    \A s \in Session :
        (versionState[s] = "pending" /\ overdue[s]) \/ versionState[s] = "failed" ~>
            versionState[s] \in Published \cup {"deleted"} \/ deletionStatus[s] = "failed"

-----------------------------------------------------------------------------
(* The inductive invariant. *)

\* Concurrent attempts at one session never share an attempt number, hence
\* never a storage key.
AttemptsDistinct ==
    \A v, w \in Worker :
        /\ worker[v] # IdleWorker
        /\ worker[v].session = worker[w].session
        /\ worker[v].attempt = worker[w].attempt
        => v = w

\* The later steps of an attempt rest on what it sealed; only its own worker
\* publishes it; its output is deleted only when it can be published no more.
AttemptAgrees(w) ==
    LET s == worker[w].session
        n == worker[w].attempt
    IN  worker[w] # IdleWorker =>
            /\ n <= jobAttempts[s]
            /\ worker[w].pc = "seal" => worker[w].etag \in Bytes
            /\ worker[w].pc = "publish" => sealed[s][n] = "agreed"
            /\ worker[w].pc \in {"stat", "seal", "hash", "publish"} /\ n = jobAttempts[s] =>
                   jobStatus[s] # "succeeded"
            /\ worker[w].pc = "unseal" /\ n = jobAttempts[s] =>
                   jobStatus[s] \in {"queued", "failed"}

WorkersAgree == AttemptsDistinct /\ \A w \in Worker : AttemptAgrees(w)

\* A copy still running in the object store is of an attempt that is over and
\* was not published.
CopyAgrees(c) ==
    /\ c.attempt <= jobAttempts[c.session]
    /\ c.attempt = jobAttempts[c.session] => jobStatus[c.session] # "succeeded"
    /\ \A w \in Worker : worker[w].session = c.session /\ worker[w].attempt = c.attempt =>
           worker[w].pc \in {"failing", "unseal"}

CopiesAgree == \A c \in lateCopies : CopyAgrees(c)

\* A purge worker works on a version no upload can publish any more.
PurgersAgree ==
    \A p \in Purger : purger[p] # IdlePurger =>
        versionState[purger[p].session] \in {"deleting", "deleted"}

\* The processes agree with the rows and the store on how far each attempt is,
\* whichever of them was fenced off (joblease, the fences of every statement).
ProcessesAgree == WorkersAgree /\ CopiesAgree /\ PurgersAgree

UploadInvariant ==
    /\ TypeOK
    /\ RowsAgree
    /\ CleanupNeverForgotten
    /\ OneCurrentVersion
    /\ ProcessesAgree
    /\ PublishedIntact
-----------------------------------------------------------------------------
(* The component implements UploadContract. *)

Phase(s) ==
    CASE versionState[s] = "none" -> "unreserved"
      [] versionState[s] = "pending" /\ sessionStatus[s] # "completing" -> "open"
      [] versionState[s] = "pending" /\ sessionStatus[s] = "completing" -> "accepted"
      [] versionState[s] \in Published -> "published"
      [] versionState[s] \in {"failed", "deleting"} -> "discarded"
      [] versionState[s] = "deleted" -> "released"

Content(s) ==
    IF versionState[s] \in Published THEN sealed[s][storageKey[s]] ELSE "absent"

Current(i) ==
    IF \E s \in Session : ItemOf[s] = i /\ isCurrent[s]
    THEN CHOOSE s \in Session : ItemOf[s] = i /\ isCurrent[s] ELSE NoSession

Contract == INSTANCE UploadContract WITH
    phase <- [s \in Session |-> Phase(s)],
    content <- [s \in Session |-> Content(s)],
    current <- [i \in Item |-> Current(i)]

\* The jobs, leases, retries, clean-ups and the object store together behave as
\* the contract says: every step of the code is one step of it, or none.
ImplementsContract == Contract!Spec

\* The same without the promise that an accepted upload is settled in the end.
ImplementsSafeContract == Contract!SafeSpec

-----------------------------------------------------------------------------
(* What documents of the repository say and the code does not keep. *)

\* "Count pending, quarantined, aborted, expired, and failed uploads toward
\* quota until durable blob deletion" (docs/DRIVE_PARITY_CHECKLIST.md:54): once
\* the version is deleted, and charged no more, none of its bytes are left but
\* those a worker at work on the upload is about to deal with.
ReleasedMeansNoBytes ==
    \A s \in Session :
        versionState[s] = "deleted" /\ (\A w \in Worker : worker[w].session # s) =>
            \A k \in StorageKey : sealed[s][k] = "absent"

\* "the durable deletion worker handles multipart abort"
\* (docs/superpowers/plans/2026-09-13-production-readiness.md:43): when the
\* deletion of an expired upload is done, its multipart upload is not open.
ExpiredMultipartAborted ==
    \A s \in Session :
        sessionStatus[s] = "expired" /\ versionState[s] = "deleted" =>
            multipart[s] = "absent"

\* "Failed blob deletion leaves retryable catalog state rather than an untracked
\* orphan" (docs/superpowers/specs/2026-08-24-drive-metadata-database-design.md:373):
\* a half deleted version has a deletion job that some worker will still claim.
FailedDeletionRetryable ==
    \A s \in Session :
        versionState[s] = "deleting" => deletionStatus[s] \in {"queued", "processing"}
=============================================================================
