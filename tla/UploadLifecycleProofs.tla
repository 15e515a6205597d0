------------------------ MODULE UploadLifecycleProofs ------------------------
(***************************************************************************)
(* What holds of UploadLifecycle for any number of sessions, items,        *)
(* workers and purge workers and for any bounds on the attempts.           *)
(*                                                                         *)
(* UploadInvariant is inductive. The argument for the integrity of what is *)
(* published goes: the claim gives every attempt a number of its own       *)
(* (AttemptsDistinct), so no two of them write one key; a worker publishes *)
(* what it has itself sealed and hashed under that key (AttemptAgrees); an *)
(* old copy still running in the store is of an attempt that can be        *)
(* published no more (CopiesAgree); and whoever deletes an object has      *)
(* fenced its attempt off before (AttemptAgrees, PurgersAgree).            *)
(***************************************************************************)
EXTENDS UploadLifecycle, TLAPS

\* A worker that is not idle has a session, an attempt number and a pc.
LEMMA BusyWorker ==
    ASSUME TypeOK, NEW w \in Worker
    PROVE  /\ worker[w] # IdleWorker <=> worker[w].pc # "idle"
           /\ worker[w].session # NoSession => worker[w] # IdleWorker
           /\ worker[w] # IdleWorker =>
                 /\ worker[w] \in [pc : WorkerPC, session : Session, attempt : Attempt,
                    etag : Object]
                 /\ worker[w].pc \in WorkerPC
                 /\ worker[w].session \in Session
                 /\ worker[w].attempt \in Attempt
                 /\ worker[w].etag \in Object
<1>1. worker[w] \in WorkerState
  BY DEF TypeOK
<1>2. CASE worker[w] = IdleWorker
  BY <1>2 DEF IdleWorker
<1>3. CASE worker[w] # IdleWorker
  <2>1. worker[w] \in [pc : WorkerPC, session : Session, attempt : Attempt, etag : Object]
    BY <1>1, <1>3 DEF WorkerState
  <2> QED BY <2>1, <1>3, SessionAssumption DEF WorkerPC
<1> QED BY <1>2, <1>3

\* A worker that goes on keeps its session, its attempt and what it saw.
LEMMA WorkerMoves ==
    ASSUME TypeOK, NEW w \in Worker, worker[w].pc # "idle",
           NEW pc \in WorkerPC, MoveTo(w, pc)
    PROVE  /\ worker' \in [Worker -> WorkerState]
           /\ worker'[w] # IdleWorker
           /\ worker'[w].pc = pc
           /\ worker'[w].session = worker[w].session
           /\ worker'[w].attempt = worker[w].attempt
           /\ worker'[w].etag = worker[w].etag
           /\ \A v \in Worker : v # w => worker'[v] = worker[v]
<1> DEFINE old == worker[w]
           new == [worker[w] EXCEPT !.pc = pc]
<1>1. old \in [pc : WorkerPC, session : Session, attempt : Attempt, etag : Object]
  BY BusyWorker
<1>2. /\ new \in [pc : WorkerPC, session : Session, attempt : Attempt, etag : Object]
      /\ new.pc = pc
      /\ new.session = old.session
      /\ new.attempt = old.attempt
      /\ new.etag = old.etag
  BY <1>1
<1>3. new # IdleWorker
  BY <1>2 DEF WorkerPC, IdleWorker
<1>4. worker \in [Worker -> WorkerState] /\ worker' = [worker EXCEPT ![w] = new]
  BY DEF MoveTo, TypeOK
<1>5. new \in WorkerState
  BY <1>2 DEF WorkerState
<1>6. /\ worker' \in [Worker -> WorkerState]
      /\ worker'[w] = new
      /\ \A v \in Worker : v # w => worker'[v] = worker[v]
  <2> HIDE DEF new, old
  <2> QED BY <1>4, <1>5
<1> QED BY <1>2, <1>3, <1>6

\* A worker that finishes is idle; the others stay where they are.
LEMMA WorkerFinishes ==
    ASSUME TypeOK, NEW w \in Worker, Finish(w)
    PROVE  /\ worker' \in [Worker -> WorkerState]
           /\ worker'[w] = IdleWorker
           /\ \A v \in Worker : v # w => worker'[v] = worker[v]
BY DEF TypeOK, Finish, WorkerState

\* A purge worker that is not idle has a session and an attempt number.
LEMMA BusyPurger ==
    ASSUME TypeOK, NEW p \in Purger
    PROVE  /\ purger[p] # IdlePurger <=> purger[p].pc # "idle"
           /\ purger[p] # IdlePurger =>
                 /\ purger[p] \in [pc : PurgerPC, session : Session,
                    attempt : 1 .. MaxDeletions]
                 /\ purger[p].pc \in PurgerPC
                 /\ purger[p].session \in Session
                 /\ purger[p].attempt \in 1 .. MaxDeletions
<1>1. purger[p] \in PurgerState
  BY DEF TypeOK
<1>2. CASE purger[p] = IdlePurger
  BY <1>2 DEF IdlePurger
<1>3. CASE purger[p] # IdlePurger
  <2>1. purger[p] \in [pc : PurgerPC, session : Session, attempt : 1 .. MaxDeletions]
    BY <1>1, <1>3 DEF PurgerState
  <2> QED BY <2>1, <1>3 DEF PurgerPC
<1> QED BY <1>2, <1>3

\* A purge worker that goes on keeps its session.
LEMMA PurgerMoves ==
    ASSUME TypeOK, NEW p \in Purger, purger[p].pc # "idle",
           NEW pc \in PurgerPC, PurgeNext(p, pc)
    PROVE  /\ purger' \in [Purger -> PurgerState]
           /\ purger'[p] # IdlePurger
           /\ purger'[p].session = purger[p].session
           /\ \A q \in Purger : q # p => purger'[q] = purger[q]
<1> DEFINE new == [purger[p] EXCEPT !.pc = pc]
<1>1. purger[p] \in [pc : PurgerPC, session : Session, attempt : 1 .. MaxDeletions]
  BY BusyPurger
<1>2. /\ new \in [pc : PurgerPC, session : Session, attempt : 1 .. MaxDeletions]
      /\ new.pc = pc
      /\ new.session = purger[p].session
  BY <1>1
<1>3. new # IdlePurger /\ new \in PurgerState
  BY <1>2 DEF PurgerPC, IdlePurger, PurgerState
<1>4. purger \in [Purger -> PurgerState] /\ purger' = [purger EXCEPT ![p] = new]
  BY DEF PurgeNext, TypeOK
<1>5. /\ purger' \in [Purger -> PurgerState]
      /\ purger'[p] = new
      /\ \A q \in Purger : q # p => purger'[q] = purger[q]
  <2> HIDE DEF new
  <2> QED BY <1>3, <1>4
<1> QED BY <1>2, <1>3, <1>5

\* A purge worker that finishes is idle; the others stay where they are.
LEMMA PurgerFinishes ==
    ASSUME TypeOK, NEW p \in Purger, FinishPurge(p)
    PROVE  /\ purger' \in [Purger -> PurgerState]
           /\ purger'[p] = IdlePurger
           /\ \A q \in Purger : q # p => purger'[q] = purger[q]
BY DEF TypeOK, FinishPurge, PurgerState

\* The worker that has seen the staged object remembers its ETag.
LEMMA WorkerStats ==
    ASSUME TypeOK, NEW w \in Worker, StatStaged(w)
    PROVE  /\ worker' \in [Worker -> WorkerState]
           /\ worker'[w] # IdleWorker
           /\ worker'[w].pc = "seal"
           /\ worker'[w].session = worker[w].session
           /\ worker'[w].attempt = worker[w].attempt
           /\ worker'[w].etag \in Bytes
           /\ \A v \in Worker : v # w => worker'[v] = worker[v]
<1> DEFINE new == [worker[w] EXCEPT !.pc = "seal", !.etag = staged[worker[w].session]]
<1>1. /\ worker[w].pc = "stat"
      /\ staged[worker[w].session] # "absent"
      /\ worker' = [worker EXCEPT ![w] = new]
  BY DEF StatStaged, At
<1>2. /\ worker[w] \in [pc : WorkerPC, session : Session, attempt : Attempt, etag : Object]
      /\ worker[w].session \in Session
  BY <1>1, BusyWorker
<1>3. staged[worker[w].session] \in Bytes
  BY <1>1, <1>2 DEF TypeOK, Object
<1>4. /\ new \in [pc : WorkerPC, session : Session, attempt : Attempt, etag : Object]
      /\ new.pc = "seal"
      /\ new.session = worker[w].session
      /\ new.attempt = worker[w].attempt
      /\ new.etag = staged[worker[w].session]
  BY <1>2, <1>3 DEF WorkerPC, Object
<1>5. new # IdleWorker /\ new \in WorkerState
  BY <1>4 DEF IdleWorker, WorkerState
<1>6. /\ worker' \in [Worker -> WorkerState]
      /\ worker'[w] = new
      /\ \A v \in Worker : v # w => worker'[v] = worker[v]
  <2> HIDE DEF new
  <2> QED BY <1>1, <1>5 DEF TypeOK
<1> QED BY <1>3, <1>4, <1>5, <1>6

\* A claim gives the worker the next attempt at the session.
LEMMA WorkerClaims ==
    ASSUME TypeOK, NEW w \in Worker, NEW s \in Session, ClaimUploadCompletionJob(w, s)
    PROVE  /\ NextAttempt(s) = jobAttempts[s] + 1
           /\ NextAttempt(s) \in Attempt
           /\ worker' \in [Worker -> WorkerState]
           /\ worker'[w] # IdleWorker
           /\ worker'[w].pc = "stat"
           /\ worker'[w].session = s
           /\ worker'[w].attempt = jobAttempts[s] + 1
           /\ \A v \in Worker : v # w => worker'[v] = worker[v]
<1> DEFINE new == [pc |-> "stat", session |-> s, attempt |-> NextAttempt(s), etag |-> "absent"]
<1>1. /\ NextAttempt(s) = jobAttempts[s] + 1
      /\ NextAttempt(s) \in Attempt
  BY BoundAssumption DEF TypeOK, ClaimUploadCompletionJob, NextAttempt, Attempt
<1>2. new \in WorkerState /\ new # IdleWorker
  BY <1>1 DEF WorkerState, WorkerPC, Object, IdleWorker
<1>3. worker' = [worker EXCEPT ![w] = new]
  BY DEF ClaimUploadCompletionJob
<1>4. /\ worker' \in [Worker -> WorkerState]
      /\ worker'[w] = new
      /\ \A v \in Worker : v # w => worker'[v] = worker[v]
  <2> HIDE DEF new
  <2> QED BY <1>2, <1>3 DEF TypeOK
<1> QED BY <1>1, <1>2, <1>4

\* A claim gives the purge worker the session.
LEMMA PurgerClaims ==
    ASSUME TypeOK, NEW p \in Purger, NEW s \in Session, ClaimBlobDeletionJob(p, s)
    PROVE  /\ purger' \in [Purger -> PurgerState]
           /\ purger'[p].session = s
           /\ \A q \in Purger : q # p => purger'[q] = purger[q]
<1> DEFINE new == [pc |-> "staging", session |-> s, attempt |-> deletionAttempts[s] + 1]
<1>1. deletionAttempts[s] + 1 \in 1 .. MaxDeletions
  BY BoundAssumption DEF TypeOK, ClaimBlobDeletionJob
<1>2. new \in PurgerState
  BY <1>1 DEF PurgerState, PurgerPC
<1>3. purger' = [purger EXCEPT ![p] = new]
  BY DEF ClaimBlobDeletionJob
<1>4. /\ purger' \in [Purger -> PurgerState]
      /\ purger'[p] = new
      /\ \A q \in Purger : q # p => purger'[q] = purger[q]
  <2> HIDE DEF new
  <2> QED BY <1>2, <1>3 DEF TypeOK
<1> QED BY <1>4

\* Every step keeps the types; that of the late copies rests on what a
\* worker about to seal has seen.
LEMMA TypeStep ==
    ASSUME TypeOK, WorkersAgree, [Next]_vars
    PROVE  TypeOK'
<1> USE SessionAssumption, BoundAssumption
   DEF TypeOK, SessionStatus, VersionState, JobStatus, Bytes, Object, Multipart,
      Attempt, StorageKey, Transferring, Open, Published,
      sessionVars, versionVars, jobVars, deletionVars, storeVars, processVars, rowVars,
      QueueDeletion, FailPending, At, Purging
<1>1. ASSUME NEW s \in Session, ReserveUpload(s) PROVE TypeOK'
  BY <1>1 DEF ReserveUpload
<1>2. ASSUME NEW s \in Session, AttachMultipartUpload(s) PROVE TypeOK'
  BY <1>2 DEF AttachMultipartUpload
<1>3. ASSUME NEW s \in Session, NEW bytes \in Bytes, PutStaged(s, bytes) PROVE TypeOK'
  BY <1>3 DEF PutStaged
<1>4. ASSUME NEW s \in Session, NEW bytes \in Bytes \cup {"partial"}, PutParts(s, bytes)
      PROVE  TypeOK'
  BY <1>4 DEF PutParts
<1>5. ASSUME NEW s \in Session, QueueUploadCompletion(s) PROVE TypeOK'
  BY <1>5 DEF QueueUploadCompletion
<1>6. ASSUME NEW s \in Session, BeginAbort(s) PROVE TypeOK'
  BY <1>6 DEF BeginAbort
<1>7. ASSUME NEW s \in Session, AbortParts(s) PROVE TypeOK'
  BY <1>7 DEF AbortParts
<1>8. ASSUME NEW s \in Session, AbortUpload(s) PROVE TypeOK'
  <2>1. /\ \/ sessionStatus' = sessionStatus
           \/ sessionStatus' = [sessionStatus EXCEPT ![s] = "aborted"]
        /\ versionState' = versionState \/ FailPending({s})
        /\ deletionStatus' = deletionStatus \/ QueueDeletion({s})
        /\ \/ isCurrent' = isCurrent
           \/ isCurrent' = [isCurrent EXCEPT ![s] = @ /\ versionState[s] # "pending"]
    BY <1>8, Zenon DEF AbortUpload
  <2>2. sessionStatus' \in [Session -> SessionStatus]
    BY ZenonT(60), <2>1
  <2>5. /\ versionState' \in [Session -> VersionState]
        /\ deletionStatus' \in [Session -> JobStatus]
    BY <2>1
  <2>3. isCurrent' \in [Session -> BOOLEAN]
    BY <2>1, ZenonT(60)
  <2>4. abortPC' \in [Session -> {"none", "parts", "row"}]
    BY <1>8 DEF AbortUpload
  <2> QED BY <1>8, <2>2, <2>3, <2>4, <2>5 DEF AbortUpload
<1>9. ASSUME NEW s \in Session, AbortGivesUp(s) PROVE TypeOK'
  BY <1>9 DEF AbortGivesUp
<1>10. ASSUME NEW s \in Session, DeadlinePasses(s) PROVE TypeOK'
  BY <1>10 DEF DeadlinePasses
<1>11. ASSUME NEW s \in Session, CompletionLeaseLapses(s) PROVE TypeOK'
  BY <1>11 DEF CompletionLeaseLapses
<1>12. ASSUME NEW s \in Session, DeletionLeaseLapses(s) PROVE TypeOK'
  BY <1>12 DEF DeletionLeaseLapses
<1>13. ASSUME NEW s \in Session, MarkUploadExpired(s) PROVE TypeOK'
  BY <1>13 DEF MarkUploadExpired, Expirable
<1>14. CASE RecoverCompletionLeases
  BY <1>14 DEF RecoverCompletionLeases, LapsedCompletions, ExhaustedCompletions
<1>15. ASSUME NEW w \in Worker, StatStaged(w) PROVE TypeOK'
  BY <1>15, WorkerStats DEF StatStaged
<1>16. ASSUME NEW w \in Worker, CompleteMultipart(w) PROVE TypeOK'
  BY <1>16, BusyWorker DEF CompleteMultipart
<1>17. ASSUME NEW w \in Worker, Seal(w) PROVE TypeOK'
  BY <1>17, BusyWorker, WorkerMoves DEF Seal, WorkerPC
<1>18. ASSUME NEW w \in Worker, HashSealed(w) PROVE TypeOK'
  BY <1>18, BusyWorker, WorkerMoves DEF HashSealed, WorkerPC
<1>19. ASSUME NEW w \in Worker, FindCompleted(w) PROVE TypeOK'
  BY <1>19, BusyWorker, WorkerMoves DEF FindCompleted, WorkerPC
<1>20. ASSUME NEW w \in Worker, Publish(w) PROVE TypeOK'
  <2>1. /\ worker[w].pc # "idle"
        /\ worker[w].session \in Session
        /\ worker[w].attempt \in Attempt
    BY <1>20, BusyWorker DEF Publish
  <2>2. worker' \in [Worker -> WorkerState]
    BY <1>20, <2>1, WorkerMoves DEF Publish, WorkerPC
  <2>3. isCurrent' \in [Session -> BOOLEAN]
    BY <1>20 DEF Publish, CurrentOnPublish
  <2> QED BY <1>20, <2>1, <2>2, <2>3 DEF Publish
<1>21. ASSUME NEW w \in Worker, DeleteStaged(w) PROVE TypeOK'
  <2>1. worker' \in [Worker -> WorkerState]
    BY <1>21, WorkerFinishes DEF DeleteStaged
  <2>2. worker[w].session \in Session
    BY <1>21, BusyWorker DEF DeleteStaged
  <2> QED BY <1>21, <2>1, <2>2 DEF DeleteStaged
<1>22. ASSUME NEW w \in Worker, WorkFails(w) PROVE TypeOK'
  <2>1. worker' \in [Worker -> WorkerState]
    BY <1>22, BusyWorker, WorkerMoves DEF WorkFails, WorkerPC
  <2>2. lateCopies' \subseteq LateCopy
    <3>1. /\ worker[w].session \in Session
          /\ worker[w].attempt \in Attempt
          /\ worker[w].pc = "seal" => worker[w].etag \in Bytes
      BY <1>22, BusyWorker DEF WorkersAgree, AttemptAgrees, WorkFails
    <3> QED BY <1>22, <3>1 DEF WorkFails, LateCopy
  <2> QED BY <1>22, <2>1, <2>2 DEF WorkFails
<1>23. ASSUME NEW w \in Worker, FailUploadCompletionJob(w) PROVE TypeOK'
  <2> DEFINE s == worker[w].session
  <2>1. worker' \in [Worker -> WorkerState]
    BY <1>23, WorkerMoves, WorkerFinishes DEF FailUploadCompletionJob, LeaveSeal, WorkerPC
  <2>2. /\ \/ sessionStatus' = sessionStatus
           \/ sessionStatus' = [sessionStatus EXCEPT ![s] = "failed"]
        /\ versionState' = versionState \/ FailPending({s})
        /\ deletionStatus' = deletionStatus \/ QueueDeletion({s})
        /\ \/ isCurrent' = isCurrent
           \/ isCurrent' = [isCurrent EXCEPT ![s] = @ /\ versionState[s] # "pending"]
    BY <1>23, Zenon DEF FailUploadCompletionJob
  <2>3. \/ jobStatus' = jobStatus /\ jobLeased' = jobLeased
        \/ /\ jobLeased' = [jobLeased EXCEPT ![s] = FALSE]
           /\ \/ jobStatus' = [jobStatus EXCEPT ![s] = "queued"]
              \/ jobStatus' = [jobStatus EXCEPT ![s] = "failed"]
    BY <1>23, Zenon DEF FailUploadCompletionJob
  <2> HIDE DEF s
  <2>4. /\ sessionStatus' \in [Session -> SessionStatus]
        /\ jobStatus' \in [Session -> JobStatus]
        /\ jobLeased' \in [Session -> BOOLEAN]
    <3>1. sessionStatus' \in [Session -> SessionStatus]
      BY ZenonT(60), <2>2
    <3>2. /\ jobStatus' \in [Session -> JobStatus]
          /\ jobLeased' \in [Session -> BOOLEAN]
      BY ZenonT(60), <2>3
    <3> QED BY <3>1, <3>2
  <2>5. /\ versionState' \in [Session -> VersionState]
        /\ deletionStatus' \in [Session -> JobStatus]
    BY <2>2
  <2>6. isCurrent' \in [Session -> BOOLEAN]
    BY <2>2, ZenonT(60)
  <2> QED BY <1>23, <2>1, <2>4, <2>5, <2>6 DEF FailUploadCompletionJob
<1>24. ASSUME NEW w \in Worker, DeleteFailedSeal(w) PROVE TypeOK'
  <2>1. worker' \in [Worker -> WorkerState]
    BY <1>24, WorkerFinishes DEF DeleteFailedSeal
  <2>2. worker[w].session \in Session /\ worker[w].attempt \in Attempt
    BY <1>24, BusyWorker DEF DeleteFailedSeal
  <2>3. sealed' \in [Session -> [StorageKey -> Object]]
    BY SMTT(60), <1>24, <2>2 DEF DeleteFailedSeal
  <2> QED BY <1>24, <2>1, <2>3 DEF DeleteFailedSeal
<1>25. ASSUME NEW w \in Worker, WorkerDies(w) PROVE TypeOK'
  <2>1. worker' \in [Worker -> WorkerState]
    BY <1>25, BusyWorker, WorkerFinishes DEF WorkerDies, WorkerPC
  <2>2. lateCopies' \subseteq LateCopy
    <3>1. /\ worker[w].session \in Session
          /\ worker[w].attempt \in Attempt
          /\ worker[w].pc = "seal" => worker[w].etag \in Bytes
      BY <1>25, BusyWorker DEF WorkersAgree, AttemptAgrees, WorkerDies
    <3> QED BY <1>25, <3>1 DEF WorkerDies, LateCopy
  <2> QED BY <1>25, <2>1, <2>2 DEF WorkerDies
<1>26. ASSUME NEW w \in Worker, NEW s \in Session, ClaimUploadCompletionJob(w, s)
       PROVE  TypeOK'
  <2>1. worker' \in [Worker -> WorkerState] /\ NextAttempt(s) \in 0 .. MaxAttempts
    BY <1>26, WorkerClaims
  <2> QED BY <1>26, <2>1 DEF ClaimUploadCompletionJob
<1>27. ASSUME NEW w \in Worker, NEW s \in Session, CleanStaging(w, s) PROVE TypeOK'
  BY <1>27 DEF CleanStaging
<1>28. ASSUME NEW c \in lateCopies, LateCopyEnds(c) PROVE TypeOK'
  BY <1>28 DEF LateCopyEnds, LateCopy
<1>29. CASE RecoverDeletionLeases
  BY <1>29 DEF RecoverDeletionLeases, LapsedDeletions
<1>30. ASSUME NEW p \in Purger, PurgeStaged(p) PROVE TypeOK'
  BY <1>30, BusyPurger, PurgerMoves DEF PurgeStaged, PurgerPC
<1>31. ASSUME NEW p \in Purger, PurgeBlob(p) PROVE TypeOK'
  BY <1>31, BusyPurger, PurgerMoves DEF PurgeBlob, PurgerPC
<1>32. ASSUME NEW p \in Purger, CompleteBlobDeletionJob(p) PROVE TypeOK'
  <2>1. purger' \in [Purger -> PurgerState]
    BY <1>32, PurgerFinishes DEF CompleteBlobDeletionJob
  <2>2. CASE HoldsDeletion(p) /\ versionState[purger[p].session] = "deleting"
    <3> DEFINE s == purger[p].session
    <3>3. /\ versionState' = [versionState EXCEPT ![s] = "deleted"]
          /\ isCurrent' = [isCurrent EXCEPT ![s] = FALSE]
          /\ deletionStatus' = [deletionStatus EXCEPT ![s] = "succeeded"]
          /\ deletionLeased' = [deletionLeased EXCEPT ![s] = FALSE]
      BY <1>32, <2>2, Zenon DEF CompleteBlobDeletionJob
    <3> HIDE DEF s
    <3>1. /\ versionState' \in [Session -> VersionState]
          /\ deletionStatus' \in [Session -> JobStatus]
      BY <3>3
    <3>2. /\ isCurrent' \in [Session -> BOOLEAN]
          /\ deletionLeased' \in [Session -> BOOLEAN]
      BY <3>3
    <3> QED BY <1>32, <2>1, <3>1, <3>2 DEF CompleteBlobDeletionJob
  <2>3. CASE ~(HoldsDeletion(p) /\ versionState[purger[p].session] = "deleting")
    BY <1>32, <2>1, <2>3 DEF CompleteBlobDeletionJob
  <2> QED BY <2>2, <2>3
<1>33. ASSUME NEW p \in Purger, PurgeFails(p) PROVE TypeOK'
  BY <1>33, BusyPurger, PurgerMoves DEF PurgeFails, PurgerPC
<1>34. ASSUME NEW p \in Purger, FailBlobDeletionJob(p) PROVE TypeOK'
  <2>1. purger' \in [Purger -> PurgerState]
    BY <1>34, PurgerFinishes DEF FailBlobDeletionJob
  <2>2. purger[p].session \in Session
    BY <1>34, BusyPurger DEF FailBlobDeletionJob
  <2> QED BY ZenonT(60), <1>34, <2>1, <2>2 DEF FailBlobDeletionJob
<1>35. ASSUME NEW p \in Purger, PurgerDies(p) PROVE TypeOK'
  BY <1>35, BusyPurger, PurgerFinishes DEF PurgerDies
<1>36. ASSUME NEW p \in Purger, NEW s \in Session, ClaimBlobDeletionJob(p, s)
       PROVE  TypeOK'
  <2>1. purger' \in [Purger -> PurgerState]
    BY <1>36, PurgerClaims
  <2>2. deletionAttempts[s] + 1 \in 0 .. MaxDeletions
    BY <1>36 DEF ClaimBlobDeletionJob
  <2> QED BY <1>36, <2>1, <2>2 DEF ClaimBlobDeletionJob
<1>37. CASE UNCHANGED vars
  BY <1>37 DEF vars
<1> HIDE DEF TypeOK
<1> QED BY <1>1, <1>2, <1>3, <1>4, <1>5, <1>6, <1>7, <1>8, <1>9, <1>10, <1>11, <1>12,
       <1>13, <1>14, <1>15, <1>16, <1>17, <1>18, <1>19, <1>20, <1>21, <1>22, <1>23, <1>24,
          <1>25, <1>26, <1>27, <1>28, <1>29, <1>30, <1>31, <1>32, <1>33, <1>34, <1>35,
             <1>36, <1>37 DEF Next, ClientStep, TimeStep, Work, WorkerStep, Purge,
                PurgerStep

\* The steps that change a column the invariants speak of.
LEMMA RowChanges ==
    ASSUME Next
    PROVE  \/ UNCHANGED <<sessionStatus, versionState, storageKey, isCurrent, jobStatus,
                         jobAttempts, deletionStatus, deletionAttempts>>
           \/ \E s \in Session :
                 \/ ReserveUpload(s) \/ AttachMultipartUpload(s) \/ QueueUploadCompletion(s)
                 \/ AbortUpload(s) \/ MarkUploadExpired(s)
           \/ RecoverCompletionLeases \/ RecoverDeletionLeases
           \/ \E w \in Worker :
                 \/ Publish(w) \/ FailUploadCompletionJob(w)
                 \/ \E s \in Session : ClaimUploadCompletionJob(w, s)
           \/ \E p \in Purger :
                 \/ CompleteBlobDeletionJob(p) \/ FailBlobDeletionJob(p)
                 \/ \E s \in Session : ClaimBlobDeletionJob(p, s)
<1> DEFINE Same == UNCHANGED <<sessionStatus, versionState, storageKey, isCurrent, jobStatus,
                               jobAttempts, deletionStatus, deletionAttempts>>
<1>1. ASSUME NEW s \in Session, ClientStep(s) \/ TimeStep(s)
      PROVE  \/ Same \/ ReserveUpload(s) \/ AttachMultipartUpload(s)
             \/ QueueUploadCompletion(s) \/ AbortUpload(s)
  BY <1>1 DEF ClientStep, TimeStep, PutStaged, PutParts, BeginAbort, AbortParts,
     AbortGivesUp,
     DeadlinePasses, CompletionLeaseLapses, DeletionLeaseLapses,
     rowVars, sessionVars, versionVars, jobVars, deletionVars
<1>2. ASSUME NEW w \in Worker, WorkerStep(w)
      PROVE  \/ Same \/ Publish(w) \/ FailUploadCompletionJob(w)
             \/ \E s \in Session : ClaimUploadCompletionJob(w, s)
  BY <1>2 DEF WorkerStep, Work, StatStaged, CompleteMultipart, Seal, HashSealed,
     FindCompleted,
     DeleteStaged, WorkFails, DeleteFailedSeal, WorkerDies, CleanStaging,
     rowVars, sessionVars, versionVars, jobVars, deletionVars
<1>3. ASSUME NEW p \in Purger, PurgerStep(p)
      PROVE  \/ Same \/ CompleteBlobDeletionJob(p) \/ FailBlobDeletionJob(p)
             \/ \E s \in Session : ClaimBlobDeletionJob(p, s)
  BY <1>3 DEF PurgerStep, Purge, PurgeStaged, PurgeBlob, PurgeFails, PurgerDies,
     rowVars, sessionVars, versionVars, jobVars, deletionVars
<1>4. ASSUME NEW c \in lateCopies, LateCopyEnds(c)
      PROVE  Same
  BY <1>4 DEF LateCopyEnds, rowVars, sessionVars, versionVars, jobVars, deletionVars
<1> HIDE DEF Same
<1>5. \/ Same
      \/ \E s \in Session :
            \/ ReserveUpload(s) \/ AttachMultipartUpload(s) \/ QueueUploadCompletion(s)
            \/ AbortUpload(s) \/ MarkUploadExpired(s)
      \/ RecoverCompletionLeases \/ RecoverDeletionLeases
      \/ \E w \in Worker :
            \/ Publish(w) \/ FailUploadCompletionJob(w)
            \/ \E s \in Session : ClaimUploadCompletionJob(w, s)
      \/ \E p \in Purger :
            \/ CompleteBlobDeletionJob(p) \/ FailBlobDeletionJob(p)
            \/ \E s \in Session : ClaimBlobDeletionJob(p, s)
  BY <1>1, <1>2, <1>3, <1>4 DEF Next
<1> QED BY <1>5 DEF Same

\* A completed deletion is of a version that was being deleted.
LEMMA BlobDeletionCompletes ==
    ASSUME TypeOK, NEW p \in Purger, CompleteBlobDeletionJob(p)
    PROVE  \/ UNCHANGED <<versionState, isCurrent, deletionStatus>>
           \/ \E s \in Session :
                 /\ versionState[s] = "deleting"
                 /\ versionState' = [versionState EXCEPT ![s] = "deleted"]
                 /\ isCurrent' = [isCurrent EXCEPT ![s] = FALSE]
                 /\ deletionStatus' = [deletionStatus EXCEPT ![s] = "succeeded"]
<1>1. purger[p].session \in Session
  BY BusyPurger DEF CompleteBlobDeletionJob, Purging
<1> QED BY <1>1, Zenon DEF CompleteBlobDeletionJob

\* The rows of a session go on telling one story.
LEMMA RowsStep ==
    ASSUME TypeOK, RowsAgree, CleanupNeverForgotten, Next
    PROVE  RowsAgree'
<1> USE SessionAssumption, BoundAssumption
   DEF RowsAgree, TypeOK, Transferring, Open, Published, SessionStatus, VersionState,
       JobStatus, StorageKey
<1>1. ASSUME NEW s \in Session, ReserveUpload(s) PROVE RowsAgree'
  BY <1>1 DEF ReserveUpload, sessionVars, versionVars, jobVars, deletionVars
<1>2. ASSUME NEW s \in Session, AttachMultipartUpload(s) PROVE RowsAgree'
  BY <1>2 DEF AttachMultipartUpload, sessionVars, versionVars, jobVars, deletionVars
<1>3. ASSUME NEW s \in Session, QueueUploadCompletion(s) PROVE RowsAgree'
  BY <1>3 DEF QueueUploadCompletion, sessionVars, versionVars, jobVars, deletionVars
<1>4. ASSUME NEW s \in Session, AbortUpload(s) PROVE RowsAgree'
  BY SMTT(60), <1>4 DEF AbortUpload, FailPending, QueueDeletion, sessionVars, versionVars, jobVars,
     deletionVars
<1>5. ASSUME NEW s \in Session, MarkUploadExpired(s) PROVE RowsAgree'
  BY <1>5 DEF MarkUploadExpired, Expirable, FailPending, QueueDeletion, sessionVars,
     versionVars, jobVars, deletionVars
<1>6. CASE RecoverCompletionLeases
  BY <1>6 DEF RecoverCompletionLeases, LapsedCompletions, ExhaustedCompletions,
     QueueDeletion, FailPending, sessionVars, versionVars, jobVars, deletionVars
<1>7. ASSUME NEW w \in Worker, Publish(w) PROVE RowsAgree'
  BY <1>7, BusyWorker DEF Publish, CurrentOnPublish, HoldsLease, sessionVars, versionVars,
     jobVars, deletionVars
<1>8. ASSUME NEW w \in Worker, FailUploadCompletionJob(w) PROVE RowsAgree'
  BY SMTT(60), <1>8, BusyWorker DEF FailUploadCompletionJob, LeaveSeal, HoldsLease, FailPending,
     QueueDeletion, sessionVars, versionVars, jobVars, deletionVars
<1>9. ASSUME NEW w \in Worker, NEW s \in Session, ClaimUploadCompletionJob(w, s)
      PROVE  RowsAgree'
  BY <1>9 DEF ClaimUploadCompletionJob, NextAttempt, sessionVars, versionVars, jobVars,
     deletionVars
<1>10. CASE RecoverDeletionLeases
  BY <1>10 DEF RecoverDeletionLeases, LapsedDeletions, sessionVars, versionVars, jobVars,
     deletionVars
<1>11. ASSUME NEW p \in Purger, CompleteBlobDeletionJob(p) PROVE RowsAgree'
  BY SMTT(60), <1>11, BusyPurger DEF CompleteBlobDeletionJob, HoldsDeletion, Purging, sessionVars,
     versionVars, jobVars, deletionVars
<1>12. ASSUME NEW p \in Purger, FailBlobDeletionJob(p) PROVE RowsAgree'
  BY SMTT(60), <1>12, BusyPurger DEF FailBlobDeletionJob, HoldsDeletion, Purging, sessionVars,
     versionVars, jobVars, deletionVars
<1>13. ASSUME NEW p \in Purger, NEW s \in Session, ClaimBlobDeletionJob(p, s)
       PROVE  RowsAgree'
  BY <1>13 DEF ClaimBlobDeletionJob, Purgeable, sessionVars, versionVars, jobVars,
     deletionVars
<1>14. CASE UNCHANGED <<sessionStatus, versionState, storageKey, isCurrent, jobStatus,
                      jobAttempts, deletionStatus, deletionAttempts>>
  BY <1>14
<1> QED BY <1>1, <1>2, <1>3, <1>4, <1>5, <1>6, <1>7, <1>8, <1>9, <1>10, <1>11, <1>12,
       <1>13, <1>14, RowChanges

\* The bytes to be deleted are not forgotten by any step.
LEMMA CleanupStep ==
    ASSUME TypeOK, RowsAgree, CleanupNeverForgotten, Next
    PROVE  CleanupNeverForgotten'
<1> USE SessionAssumption, BoundAssumption
   DEF RowsAgree, CleanupNeverForgotten, TypeOK, Transferring, Open, Published,
       SessionStatus, VersionState, JobStatus
<1>1. ASSUME NEW s \in Session, ReserveUpload(s) PROVE CleanupNeverForgotten'
  BY <1>1 DEF ReserveUpload, sessionVars, versionVars, jobVars, deletionVars
<1>2. ASSUME NEW s \in Session, AttachMultipartUpload(s) PROVE CleanupNeverForgotten'
  BY <1>2 DEF AttachMultipartUpload, sessionVars, versionVars, jobVars, deletionVars
<1>3. ASSUME NEW s \in Session, QueueUploadCompletion(s) PROVE CleanupNeverForgotten'
  BY <1>3 DEF QueueUploadCompletion, sessionVars, versionVars, jobVars, deletionVars
<1>4. ASSUME NEW s \in Session, AbortUpload(s) PROVE CleanupNeverForgotten'
  BY <1>4 DEF AbortUpload, FailPending, QueueDeletion, sessionVars, versionVars, jobVars,
     deletionVars
<1>5. ASSUME NEW s \in Session, MarkUploadExpired(s) PROVE CleanupNeverForgotten'
  BY <1>5 DEF MarkUploadExpired, Expirable, FailPending, QueueDeletion, sessionVars,
     versionVars, jobVars, deletionVars
<1>6. CASE RecoverCompletionLeases
  BY <1>6 DEF RecoverCompletionLeases, LapsedCompletions, ExhaustedCompletions,
     QueueDeletion, FailPending, sessionVars, versionVars, jobVars, deletionVars
<1>7. ASSUME NEW w \in Worker, Publish(w) PROVE CleanupNeverForgotten'
  BY <1>7, BusyWorker DEF Publish, CurrentOnPublish, HoldsLease, sessionVars, versionVars,
     jobVars, deletionVars
<1>8. ASSUME NEW w \in Worker, FailUploadCompletionJob(w) PROVE CleanupNeverForgotten'
  BY <1>8, BusyWorker DEF FailUploadCompletionJob, LeaveSeal, HoldsLease, FailPending,
     QueueDeletion, sessionVars, versionVars, jobVars, deletionVars
<1>9. ASSUME NEW w \in Worker, NEW s \in Session, ClaimUploadCompletionJob(w, s)
      PROVE  CleanupNeverForgotten'
  BY <1>9 DEF ClaimUploadCompletionJob, NextAttempt, sessionVars, versionVars, jobVars,
     deletionVars
<1>10. CASE RecoverDeletionLeases
  BY <1>10 DEF RecoverDeletionLeases, LapsedDeletions, sessionVars, versionVars, jobVars,
     deletionVars
<1>11. ASSUME NEW p \in Purger, CompleteBlobDeletionJob(p) PROVE CleanupNeverForgotten'
  BY SMTT(60), <1>11, BlobDeletionCompletes
<1>12. ASSUME NEW p \in Purger, FailBlobDeletionJob(p) PROVE CleanupNeverForgotten'
  BY <1>12, BusyPurger DEF FailBlobDeletionJob, HoldsDeletion, Purging, sessionVars,
     versionVars, jobVars, deletionVars
<1>13. ASSUME NEW p \in Purger, NEW s \in Session, ClaimBlobDeletionJob(p, s)
       PROVE  CleanupNeverForgotten'
  BY <1>13 DEF ClaimBlobDeletionJob, Purgeable, sessionVars, versionVars, jobVars,
     deletionVars
<1>14. CASE UNCHANGED <<sessionStatus, versionState, storageKey, isCurrent, jobStatus,
                      jobAttempts, deletionStatus, deletionAttempts>>
  BY <1>14
<1> QED BY <1>1, <1>2, <1>3, <1>4, <1>5, <1>6, <1>7, <1>8, <1>9, <1>10, <1>11, <1>12,
       <1>13, <1>14, RowChanges

\* An item goes on having one current version at most.
LEMMA CurrentStep ==
    ASSUME TypeOK, RowsAgree, OneCurrentVersion, Next
    PROVE  OneCurrentVersion'
<1> USE SessionAssumption, BoundAssumption
   DEF RowsAgree, OneCurrentVersion, TypeOK, Transferring, Open, Published, SessionStatus,
       VersionState, JobStatus
<1>1. ASSUME NEW s \in Session, ReserveUpload(s) PROVE OneCurrentVersion'
  BY <1>1 DEF ReserveUpload, sessionVars, versionVars, jobVars, deletionVars
<1>2. ASSUME NEW s \in Session, AttachMultipartUpload(s) PROVE OneCurrentVersion'
  BY <1>2 DEF AttachMultipartUpload, sessionVars, versionVars, jobVars, deletionVars
<1>3. ASSUME NEW s \in Session, QueueUploadCompletion(s) PROVE OneCurrentVersion'
  BY <1>3 DEF QueueUploadCompletion, sessionVars, versionVars, jobVars, deletionVars
<1>4. ASSUME NEW s \in Session, AbortUpload(s) PROVE OneCurrentVersion'
  BY <1>4 DEF AbortUpload, FailPending, QueueDeletion, sessionVars, versionVars, jobVars,
     deletionVars
<1>5. ASSUME NEW s \in Session, MarkUploadExpired(s) PROVE OneCurrentVersion'
  BY <1>5 DEF MarkUploadExpired, Expirable, FailPending, QueueDeletion, sessionVars,
     versionVars, jobVars, deletionVars
<1>6. CASE RecoverCompletionLeases
  BY <1>6 DEF RecoverCompletionLeases, LapsedCompletions, ExhaustedCompletions,
     QueueDeletion, FailPending, sessionVars, versionVars, jobVars, deletionVars
<1>7. ASSUME NEW w \in Worker, Publish(w) PROVE OneCurrentVersion'
  BY <1>7, BusyWorker DEF Publish, CurrentOnPublish, HoldsLease, sessionVars, versionVars,
     jobVars, deletionVars
<1>8. ASSUME NEW w \in Worker, FailUploadCompletionJob(w) PROVE OneCurrentVersion'
  BY <1>8, BusyWorker DEF FailUploadCompletionJob, LeaveSeal, HoldsLease, FailPending,
     QueueDeletion, sessionVars, versionVars, jobVars, deletionVars
<1>9. ASSUME NEW w \in Worker, NEW s \in Session, ClaimUploadCompletionJob(w, s)
      PROVE  OneCurrentVersion'
  BY <1>9 DEF ClaimUploadCompletionJob, NextAttempt, sessionVars, versionVars, jobVars,
     deletionVars
<1>10. CASE RecoverDeletionLeases
  BY <1>10 DEF RecoverDeletionLeases, LapsedDeletions, sessionVars, versionVars, jobVars,
     deletionVars
<1>11. ASSUME NEW p \in Purger, CompleteBlobDeletionJob(p) PROVE OneCurrentVersion'
  <2>1. ItemOf' = ItemOf
    OBVIOUS
  <2>2. CASE UNCHANGED <<versionState, isCurrent, deletionStatus>>
    BY <2>2
  <2>3. CASE ~UNCHANGED <<versionState, isCurrent, deletionStatus>>
    <3>1. PICK s \in Session :
             /\ versionState[s] = "deleting"
             /\ versionState' = [versionState EXCEPT ![s] = "deleted"]
             /\ isCurrent' = [isCurrent EXCEPT ![s] = FALSE]
      BY <1>11, <2>3, BlobDeletionCompletes
    <3>2. \A t \in Session : isCurrent'[t] => isCurrent[t] /\ t # s
      BY <3>1, Zenon
    <3> QED BY <3>1, <3>2
  <2> QED BY <2>2, <2>3
<1>12. ASSUME NEW p \in Purger, FailBlobDeletionJob(p) PROVE OneCurrentVersion'
  BY <1>12, BusyPurger DEF FailBlobDeletionJob, HoldsDeletion, Purging, sessionVars,
     versionVars, jobVars, deletionVars
<1>13. ASSUME NEW p \in Purger, NEW s \in Session, ClaimBlobDeletionJob(p, s)
       PROVE  OneCurrentVersion'
  BY <1>13 DEF ClaimBlobDeletionJob, Purgeable, sessionVars, versionVars, jobVars,
     deletionVars
<1>14. CASE UNCHANGED <<sessionStatus, versionState, storageKey, isCurrent, jobStatus,
                      jobAttempts, deletionStatus, deletionAttempts>>
  BY <1>14
<1> QED BY <1>1, <1>2, <1>3, <1>4, <1>5, <1>6, <1>7, <1>8, <1>9, <1>10, <1>11, <1>12,
       <1>13, <1>14, RowChanges

\* A version that is being deleted will not be anything else.
DeletionGoesOn ==
    \A t \in Session : versionState[t] \in {"deleting", "deleted"} =>
        versionState'[t] \in {"deleting", "deleted"}

\* A version once claimed for deletion never leaves it.
LEMMA DeletionStep ==
    ASSUME TypeOK, RowsAgree, CleanupNeverForgotten, Next
    PROVE  DeletionGoesOn
<1> USE SessionAssumption, BoundAssumption
   DEF DeletionGoesOn, RowsAgree, CleanupNeverForgotten, TypeOK, Transferring, Open,
       Published, SessionStatus, VersionState, JobStatus
<1>1. ASSUME NEW s \in Session, ReserveUpload(s) PROVE DeletionGoesOn
  BY <1>1 DEF ReserveUpload, sessionVars, versionVars, jobVars, deletionVars
<1>2. ASSUME NEW s \in Session, AttachMultipartUpload(s) PROVE DeletionGoesOn
  BY <1>2 DEF AttachMultipartUpload, sessionVars, versionVars, jobVars, deletionVars
<1>3. ASSUME NEW s \in Session, QueueUploadCompletion(s) PROVE DeletionGoesOn
  BY <1>3 DEF QueueUploadCompletion, sessionVars, versionVars, jobVars, deletionVars
<1>4. ASSUME NEW s \in Session, AbortUpload(s) PROVE DeletionGoesOn
  BY <1>4 DEF AbortUpload, FailPending, QueueDeletion, sessionVars, versionVars, jobVars,
     deletionVars
<1>5. ASSUME NEW s \in Session, MarkUploadExpired(s) PROVE DeletionGoesOn
  BY <1>5 DEF MarkUploadExpired, Expirable, FailPending, QueueDeletion, sessionVars,
     versionVars, jobVars, deletionVars
<1>6. CASE RecoverCompletionLeases
  BY <1>6 DEF RecoverCompletionLeases, LapsedCompletions, ExhaustedCompletions,
     QueueDeletion, FailPending, sessionVars, versionVars, jobVars, deletionVars
<1>7. ASSUME NEW w \in Worker, Publish(w) PROVE DeletionGoesOn
  BY <1>7, BusyWorker DEF Publish, CurrentOnPublish, HoldsLease, sessionVars, versionVars,
     jobVars, deletionVars
<1>8. ASSUME NEW w \in Worker, FailUploadCompletionJob(w) PROVE DeletionGoesOn
  BY <1>8, BusyWorker DEF FailUploadCompletionJob, LeaveSeal, HoldsLease, FailPending,
     QueueDeletion, sessionVars, versionVars, jobVars, deletionVars
<1>9. ASSUME NEW w \in Worker, NEW s \in Session, ClaimUploadCompletionJob(w, s)
      PROVE  DeletionGoesOn
  BY <1>9 DEF ClaimUploadCompletionJob, NextAttempt, sessionVars, versionVars, jobVars,
     deletionVars
<1>10. CASE RecoverDeletionLeases
  BY <1>10 DEF RecoverDeletionLeases, LapsedDeletions, sessionVars, versionVars, jobVars,
     deletionVars
<1>11. ASSUME NEW p \in Purger, CompleteBlobDeletionJob(p) PROVE DeletionGoesOn
  BY SMTT(60), <1>11, BlobDeletionCompletes
<1>12. ASSUME NEW p \in Purger, FailBlobDeletionJob(p) PROVE DeletionGoesOn
  BY <1>12, BusyPurger DEF FailBlobDeletionJob, HoldsDeletion, Purging, sessionVars,
     versionVars, jobVars, deletionVars
<1>13. ASSUME NEW p \in Purger, NEW s \in Session, ClaimBlobDeletionJob(p, s)
       PROVE  DeletionGoesOn
  BY <1>13 DEF ClaimBlobDeletionJob, Purgeable, sessionVars, versionVars, jobVars,
     deletionVars
<1>14. CASE UNCHANGED <<sessionStatus, versionState, storageKey, isCurrent, jobStatus,
                      jobAttempts, deletionStatus, deletionAttempts>>
  BY <1>14 DEF DeletionGoesOn
<1> QED BY <1>1, <1>2, <1>3, <1>4, <1>5, <1>6, <1>7, <1>8, <1>9, <1>10, <1>11, <1>12,
       <1>13, <1>14, RowChanges

\* Attempts are only counted up, and one that is over stays over.
JobsGoOn ==
    \A t \in Session :
        /\ jobAttempts'[t] >= jobAttempts[t]
        /\ jobAttempts'[t] = jobAttempts[t] /\ jobStatus[t] \in {"queued", "failed"} =>
              jobStatus'[t] \in {"queued", "failed"}

\* Attempts are counted up by claims only; within an attempt a job that has been
\* requeued or has failed stays so.
LEMMA JobsStep ==
    ASSUME TypeOK, RowsAgree, Next
    PROVE  JobsGoOn
<1> USE SessionAssumption, BoundAssumption
   DEF JobsGoOn, RowsAgree, TypeOK, Transferring, Open, Published, SessionStatus,
       VersionState, JobStatus
<1>1. ASSUME NEW s \in Session, ReserveUpload(s) PROVE JobsGoOn
  BY <1>1 DEF ReserveUpload, sessionVars, versionVars, jobVars, deletionVars
<1>2. ASSUME NEW s \in Session, AttachMultipartUpload(s) PROVE JobsGoOn
  BY <1>2 DEF AttachMultipartUpload, sessionVars, versionVars, jobVars, deletionVars
<1>3. ASSUME NEW s \in Session, QueueUploadCompletion(s) PROVE JobsGoOn
  BY <1>3 DEF QueueUploadCompletion, sessionVars, versionVars, jobVars, deletionVars
<1>4. ASSUME NEW s \in Session, AbortUpload(s) PROVE JobsGoOn
  BY <1>4 DEF AbortUpload, FailPending, QueueDeletion, sessionVars, versionVars, jobVars,
     deletionVars
<1>5. ASSUME NEW s \in Session, MarkUploadExpired(s) PROVE JobsGoOn
  BY <1>5 DEF MarkUploadExpired, Expirable, FailPending, QueueDeletion, sessionVars,
     versionVars, jobVars, deletionVars
<1>6. CASE RecoverCompletionLeases
  BY <1>6 DEF RecoverCompletionLeases, LapsedCompletions, ExhaustedCompletions,
     QueueDeletion, FailPending, sessionVars, versionVars, jobVars, deletionVars
<1>7. ASSUME NEW w \in Worker, Publish(w) PROVE JobsGoOn
  BY <1>7, BusyWorker DEF Publish, CurrentOnPublish, HoldsLease, sessionVars, versionVars,
     jobVars, deletionVars
<1>8. ASSUME NEW w \in Worker, FailUploadCompletionJob(w) PROVE JobsGoOn
  BY <1>8, BusyWorker DEF FailUploadCompletionJob, LeaveSeal, HoldsLease, FailPending,
     QueueDeletion, sessionVars, versionVars, jobVars, deletionVars
<1>9. ASSUME NEW w \in Worker, NEW s \in Session, ClaimUploadCompletionJob(w, s)
      PROVE  JobsGoOn
  BY <1>9 DEF ClaimUploadCompletionJob, NextAttempt, sessionVars, versionVars, jobVars,
     deletionVars
<1>10. CASE RecoverDeletionLeases
  BY <1>10 DEF RecoverDeletionLeases, LapsedDeletions, sessionVars, versionVars, jobVars,
     deletionVars
<1>11. ASSUME NEW p \in Purger, CompleteBlobDeletionJob(p) PROVE JobsGoOn
  BY <1>11, BusyPurger DEF CompleteBlobDeletionJob, HoldsDeletion, Purging, sessionVars,
     versionVars, jobVars, deletionVars
<1>12. ASSUME NEW p \in Purger, FailBlobDeletionJob(p) PROVE JobsGoOn
  BY <1>12, BusyPurger DEF FailBlobDeletionJob, HoldsDeletion, Purging, sessionVars,
     versionVars, jobVars, deletionVars
<1>13. ASSUME NEW p \in Purger, NEW s \in Session, ClaimBlobDeletionJob(p, s)
       PROVE  JobsGoOn
  BY <1>13 DEF ClaimBlobDeletionJob, Purgeable, sessionVars, versionVars, jobVars,
     deletionVars
<1>14. CASE UNCHANGED <<sessionStatus, versionState, storageKey, isCurrent, jobStatus,
                      jobAttempts, deletionStatus, deletionAttempts>>
  BY <1>14 DEF JobsGoOn
<1> QED BY <1>1, <1>2, <1>3, <1>4, <1>5, <1>6, <1>7, <1>8, <1>9, <1>10, <1>11, <1>12,
       <1>13, <1>14, RowChanges

\* No completion job becomes succeeded.
NoneSucceeds == \A t \in Session : jobStatus'[t] = "succeeded" => jobStatus[t] = "succeeded"

\* Only a publication lets a completion job succeed.
LEMMA SucceedStep ==
    ASSUME TypeOK, RowsAgree, Next, ~\E w \in Worker : Publish(w)
    PROVE  NoneSucceeds
<1> USE SessionAssumption, BoundAssumption
   DEF NoneSucceeds, RowsAgree, TypeOK, Transferring, Open, Published, SessionStatus,
       VersionState, JobStatus
<1>1. ASSUME NEW s \in Session, ReserveUpload(s) PROVE NoneSucceeds
  BY <1>1 DEF ReserveUpload, sessionVars, versionVars, jobVars, deletionVars
<1>2. ASSUME NEW s \in Session, AttachMultipartUpload(s) PROVE NoneSucceeds
  BY <1>2 DEF AttachMultipartUpload, sessionVars, versionVars, jobVars, deletionVars
<1>3. ASSUME NEW s \in Session, QueueUploadCompletion(s) PROVE NoneSucceeds
  BY <1>3 DEF QueueUploadCompletion, sessionVars, versionVars, jobVars, deletionVars
<1>4. ASSUME NEW s \in Session, AbortUpload(s) PROVE NoneSucceeds
  BY <1>4 DEF AbortUpload, FailPending, QueueDeletion, sessionVars, versionVars, jobVars,
     deletionVars
<1>5. ASSUME NEW s \in Session, MarkUploadExpired(s) PROVE NoneSucceeds
  BY <1>5 DEF MarkUploadExpired, Expirable, FailPending, QueueDeletion, sessionVars,
     versionVars, jobVars, deletionVars
<1>6. CASE RecoverCompletionLeases
  BY <1>6 DEF RecoverCompletionLeases, LapsedCompletions, ExhaustedCompletions,
     QueueDeletion, FailPending, sessionVars, versionVars, jobVars, deletionVars
<1>7. ASSUME NEW w \in Worker, FailUploadCompletionJob(w) PROVE NoneSucceeds
  BY <1>7, BusyWorker DEF FailUploadCompletionJob, LeaveSeal, HoldsLease, FailPending,
     QueueDeletion, sessionVars, versionVars, jobVars, deletionVars
<1>8. ASSUME NEW w \in Worker, NEW s \in Session, ClaimUploadCompletionJob(w, s)
      PROVE  NoneSucceeds
  BY <1>8 DEF ClaimUploadCompletionJob, NextAttempt, sessionVars, versionVars, jobVars,
     deletionVars
<1>9. CASE RecoverDeletionLeases
  BY <1>9 DEF RecoverDeletionLeases, LapsedDeletions, sessionVars, versionVars, jobVars,
     deletionVars
<1>10. ASSUME NEW p \in Purger, CompleteBlobDeletionJob(p) PROVE NoneSucceeds
  BY <1>10, BusyPurger DEF CompleteBlobDeletionJob, HoldsDeletion, Purging, sessionVars,
     versionVars, jobVars, deletionVars
<1>11. ASSUME NEW p \in Purger, FailBlobDeletionJob(p) PROVE NoneSucceeds
  BY <1>11, BusyPurger DEF FailBlobDeletionJob, HoldsDeletion, Purging, sessionVars,
     versionVars, jobVars, deletionVars
<1>12. ASSUME NEW p \in Purger, NEW s \in Session, ClaimBlobDeletionJob(p, s)
       PROVE  NoneSucceeds
  BY <1>12 DEF ClaimBlobDeletionJob, Purgeable, sessionVars, versionVars, jobVars,
     deletionVars
<1>13. CASE UNCHANGED <<sessionStatus, versionState, storageKey, isCurrent, jobStatus,
                      jobAttempts, deletionStatus, deletionAttempts>>
  BY <1>13 DEF NoneSucceeds
<1> QED BY <1>1, <1>2, <1>3, <1>4, <1>5, <1>6, <1>7, <1>8, <1>9, <1>10, <1>11, <1>12,
       <1>13, RowChanges

\* Only a purge worker moves a purge worker.
LEMMA OthersLeavePurgers ==
    ASSUME Next, ~\E p \in Purger : PurgerStep(p)
    PROVE  purger' = purger
<1>1. ASSUME NEW s \in Session, ClientStep(s) \/ TimeStep(s) \/ MarkUploadExpired(s)
      PROVE  purger' = purger
  BY <1>1 DEF ClientStep, TimeStep, ReserveUpload, AttachMultipartUpload, PutStaged,
       PutParts, QueueUploadCompletion, BeginAbort, AbortParts, AbortUpload,
       AbortGivesUp, DeadlinePasses, CompletionLeaseLapses, DeletionLeaseLapses,
       MarkUploadExpired, processVars
<1>2. ASSUME NEW w \in Worker, WorkerStep(w)
      PROVE  purger' = purger
  BY <1>2 DEF WorkerStep, Work, StatStaged, CompleteMultipart, Seal, HashSealed,
       FindCompleted, Publish, DeleteStaged, WorkFails, FailUploadCompletionJob,
       DeleteFailedSeal, WorkerDies, ClaimUploadCompletionJob, CleanStaging, processVars
<1>3. ASSUME RecoverCompletionLeases \/ RecoverDeletionLeases
                 \/ \E c \in lateCopies : LateCopyEnds(c)
      PROVE  purger' = purger
  BY <1>3 DEF RecoverCompletionLeases, RecoverDeletionLeases, LateCopyEnds, processVars
<1> QED BY <1>1, <1>2, <1>3 DEF Next

\* Only a completion worker moves a completion worker.
LEMMA OthersLeaveWorkers ==
    ASSUME Next, ~\E w \in Worker : WorkerStep(w)
    PROVE  worker' = worker
<1>1. ASSUME NEW s \in Session, ClientStep(s) \/ TimeStep(s) \/ MarkUploadExpired(s)
      PROVE  worker' = worker
  BY <1>1 DEF ClientStep, TimeStep, ReserveUpload, AttachMultipartUpload, PutStaged,
       PutParts, QueueUploadCompletion, BeginAbort, AbortParts, AbortUpload,
       AbortGivesUp, DeadlinePasses, CompletionLeaseLapses, DeletionLeaseLapses,
       MarkUploadExpired, processVars
<1>2. ASSUME NEW p \in Purger, PurgerStep(p)
      PROVE  worker' = worker
  BY <1>2 DEF PurgerStep, Purge, PurgeStaged, PurgeBlob, CompleteBlobDeletionJob,
       PurgeFails, FailBlobDeletionJob, PurgerDies, ClaimBlobDeletionJob
<1>3. ASSUME RecoverCompletionLeases \/ RecoverDeletionLeases
                 \/ \E c \in lateCopies : LateCopyEnds(c)
      PROVE  worker' = worker
  BY <1>3 DEF RecoverCompletionLeases, RecoverDeletionLeases, LateCopyEnds, processVars
<1> QED BY <1>1, <1>2, <1>3 DEF Next

\* What a purge worker works on stays out of reach of a publication.
LEMMA PurgersStep ==
    ASSUME TypeOK, RowsAgree, CleanupNeverForgotten, PurgersAgree, Next
    PROVE  PurgersAgree'
<1>1. DeletionGoesOn
  BY DeletionStep
<1>2. ASSUME NEW p \in Purger, NEW s \in Session, ClaimBlobDeletionJob(p, s)
      PROVE  PurgersAgree'
  <2>1. versionState'[s] = "deleting"
    BY <1>2 DEF ClaimBlobDeletionJob, TypeOK
  <2> QED BY <1>1, <1>2, <2>1, PurgerClaims, BusyPurger DEF PurgersAgree, DeletionGoesOn
<1>3. ASSUME NEW p \in Purger, PurgeStaged(p) \/ PurgeBlob(p) \/ PurgeFails(p)
      PROVE  PurgersAgree'
  <2>1. \E pc \in PurgerPC : purger[p].pc # "idle" /\ PurgeNext(p, pc)
    BY <1>3 DEF PurgeStaged, PurgeBlob, PurgeFails, Purging, PurgerPC
  <2> QED BY <1>1, <2>1, PurgerMoves, BusyPurger DEF PurgersAgree, DeletionGoesOn
<1>4. ASSUME NEW p \in Purger,
             CompleteBlobDeletionJob(p) \/ FailBlobDeletionJob(p) \/ PurgerDies(p)
      PROVE  PurgersAgree'
  <2>1. FinishPurge(p)
    BY <1>4 DEF CompleteBlobDeletionJob, FailBlobDeletionJob, PurgerDies
  <2> QED BY <1>1, <2>1, PurgerFinishes, BusyPurger DEF PurgersAgree, DeletionGoesOn
<1>5. CASE purger' = purger
  BY <1>1, <1>5, BusyPurger DEF PurgersAgree, DeletionGoesOn
<1> QED BY <1>2, <1>3, <1>4, <1>5, OthersLeavePurgers DEF PurgerStep, Purge

\* What the step of a worker can do to it.
LEMMA WorkerStepShape ==
    ASSUME NEW v \in Worker, WorkerStep(v)
    PROVE  \/ \E s \in Session : ClaimUploadCompletionJob(v, s)
           \/ StatStaged(v)
           \/ worker' = worker
           \/ Finish(v)
           \/ \E pc \in WorkerPC :
                 /\ worker[v].pc # "idle"
                 /\ MoveTo(v, pc)
                 /\ worker[v].pc \in {"failing", "unseal"} => pc = "unseal"
BY DEF WorkerStep, Work, CompleteMultipart, Seal, HashSealed, FindCompleted, Publish,
     DeleteStaged, WorkFails, FailUploadCompletionJob, DeleteFailedSeal, WorkerDies,
     CleanStaging, LeaveSeal, At, WorkerPC, processVars

\* A worker keeps its attempt until it is idle, and once it is failing it
\* can only go on to delete what it has sealed.
LEMMA WorkersKeepAttempts ==
    ASSUME TypeOK, Next, NEW w \in Worker, worker'[w] # IdleWorker,
           ~\E s \in Session : ClaimUploadCompletionJob(w, s)
    PROVE  /\ worker[w] # IdleWorker
           /\ worker'[w].session = worker[w].session
           /\ worker'[w].attempt = worker[w].attempt
           /\ worker[w].pc \in {"failing", "unseal"} => worker'[w].pc \in {"failing",
              "unseal"}
<1>1. ASSUME NEW v \in Worker, NEW s \in Session, v # w, ClaimUploadCompletionJob(v, s)
      PROVE  worker'[w] = worker[w]
  BY <1>1, WorkerClaims
<1>2. ASSUME NEW v \in Worker, NEW pc \in WorkerPC, worker[v].pc # "idle", MoveTo(v, pc), v # w
      PROVE  worker'[w] = worker[w]
  BY <1>2, WorkerMoves
<1>3. ASSUME NEW v \in Worker, Finish(v)
      PROVE  v # w /\ worker'[w] = worker[w]
  BY <1>3, WorkerFinishes
<1>4. ASSUME NEW v \in Worker, StatStaged(v), v # w
      PROVE  worker'[w] = worker[w]
  BY <1>4, WorkerStats
<1>5. ASSUME NEW pc \in WorkerPC, worker[w].pc # "idle", MoveTo(w, pc),
             worker[w].pc \in {"failing", "unseal"} => pc = "unseal"
      PROVE  /\ worker[w] # IdleWorker
             /\ worker'[w].session = worker[w].session
             /\ worker'[w].attempt = worker[w].attempt
             /\ worker[w].pc \in {"failing", "unseal"} => worker'[w].pc \in {"failing",
                "unseal"}
  BY <1>5, WorkerMoves, BusyWorker
<1>7. CASE StatStaged(w)
  <2>1. worker[w].pc = "stat"
    BY <1>7 DEF StatStaged, At
  <2> QED BY <1>7, <2>1, WorkerStats, BusyWorker
<1>8. CASE worker'[w] = worker[w]
  BY <1>8
<1> QED BY <1>1, <1>2, <1>3, <1>4, <1>5, <1>7, <1>8, WorkerStepShape, OthersLeaveWorkers

\* No step gives two workers one attempt.
LEMMA DistinctStep ==
    ASSUME TypeOK, WorkersAgree, Next
    PROVE  AttemptsDistinct'
<1> SUFFICES ASSUME NEW v \in Worker, NEW w \in Worker,
                    worker'[v] # IdleWorker, worker'[w] # IdleWorker,
                    worker'[v].session = worker'[w].session,
                    worker'[v].attempt = worker'[w].attempt,
                    v # w
             PROVE  FALSE
  <2>1. ASSUME NEW v \in Worker, NEW w \in Worker, worker'[v] # IdleWorker,
               worker'[v].session = worker'[w].session
        PROVE  worker'[w] # IdleWorker
    <3>1. worker' \in [Worker -> WorkerState]
      BY TypeStep DEF TypeOK
    <3>2. worker'[v].session \in Session
      BY <2>1, <3>1 DEF WorkerState
    <3> QED BY <2>1, <3>2, SessionAssumption DEF IdleWorker
  <2> QED BY <2>1 DEF AttemptsDistinct
<1>1. ASSUME NEW x \in Worker, NEW y \in Worker, x # y, NEW s \in Session,
             ClaimUploadCompletionJob(x, s), worker'[y] # IdleWorker
      PROVE  worker'[x].session # worker'[y].session \/ worker'[x].attempt # worker'[y].attempt
  <2>1. /\ worker'[y] = worker[y]
        /\ worker'[x].session = s
        /\ worker'[x].attempt = jobAttempts[s] + 1
    BY <1>1, WorkerClaims
  <2>2. worker[y].session = s => worker[y].attempt <= jobAttempts[s]
    BY <1>1, <2>1 DEF WorkersAgree, AttemptAgrees
  <2>3. worker[y].attempt \in Nat /\ jobAttempts[s] \in Nat
    BY <1>1, <2>1, BusyWorker, BoundAssumption DEF TypeOK, Attempt
  <2> QED BY <2>1, <2>2, <2>3
<1>2. CASE ~\E s \in Session : ClaimUploadCompletionJob(v, s) \/ ClaimUploadCompletionJob(w, s)
  BY <1>2, WorkersKeepAttempts DEF WorkersAgree, AttemptsDistinct
<1> QED BY <1>1, <1>2

\* The steps that change an object under a storage key.
LEMMA SealedChanges ==
    ASSUME Next
    PROVE  \/ sealed' = sealed
           \/ \E w \in Worker : Seal(w) \/ DeleteFailedSeal(w)
           \/ \E c \in lateCopies : LateCopyEnds(c)
           \/ \E p \in Purger : PurgeBlob(p)
<1>1. ASSUME NEW s \in Session, ClientStep(s) \/ TimeStep(s) \/ MarkUploadExpired(s)
      PROVE  sealed' = sealed
  BY <1>1 DEF ClientStep, TimeStep, ReserveUpload, AttachMultipartUpload, PutStaged,
       PutParts, QueueUploadCompletion, BeginAbort, AbortParts, AbortUpload,
       AbortGivesUp, DeadlinePasses, CompletionLeaseLapses, DeletionLeaseLapses,
       MarkUploadExpired, storeVars
<1>2. ASSUME NEW w \in Worker, WorkerStep(w)
      PROVE  sealed' = sealed \/ Seal(w) \/ DeleteFailedSeal(w)
  BY <1>2 DEF WorkerStep, Work, StatStaged, CompleteMultipart, HashSealed,
       FindCompleted, Publish, DeleteStaged, WorkFails, FailUploadCompletionJob,
       WorkerDies, ClaimUploadCompletionJob, CleanStaging, storeVars
<1>3. ASSUME NEW p \in Purger, PurgerStep(p)
      PROVE  sealed' = sealed \/ PurgeBlob(p)
  BY <1>3 DEF PurgerStep, Purge, PurgeStaged, CompleteBlobDeletionJob,
       PurgeFails, FailBlobDeletionJob, PurgerDies, ClaimBlobDeletionJob, storeVars
<1>4. ASSUME RecoverCompletionLeases \/ RecoverDeletionLeases
      PROVE  sealed' = sealed
  BY <1>4 DEF RecoverCompletionLeases, RecoverDeletionLeases, storeVars
<1> QED BY <1>1, <1>2, <1>3, <1>4 DEF Next

\* The steps that change the copies left to themselves.
LEMMA CopiesChange ==
    ASSUME Next
    PROVE  \/ lateCopies' \subseteq lateCopies
           \/ \E w \in Worker :
                 /\ WorkFails(w) \/ WorkerDies(w)
                 /\ worker[w].pc = "seal"
                 /\ lateCopies' = lateCopies \cup {[session |-> worker[w].session,
                       attempt |-> worker[w].attempt, etag |-> worker[w].etag]}
<1>1. ASSUME NEW s \in Session, ClientStep(s) \/ TimeStep(s) \/ MarkUploadExpired(s)
      PROVE  lateCopies' = lateCopies
  BY <1>1 DEF ClientStep, TimeStep, ReserveUpload, AttachMultipartUpload, PutStaged,
       PutParts, QueueUploadCompletion, BeginAbort, AbortParts, AbortUpload,
       AbortGivesUp, DeadlinePasses, CompletionLeaseLapses, DeletionLeaseLapses,
       MarkUploadExpired, storeVars
<1>2. ASSUME NEW w \in Worker, WorkerStep(w)
      PROVE  lateCopies' = lateCopies \/ WorkFails(w) \/ WorkerDies(w)
  BY <1>2 DEF WorkerStep, Work, StatStaged, CompleteMultipart, HashSealed, Seal,
     DeleteFailedSeal,
       FindCompleted, Publish, DeleteStaged, FailUploadCompletionJob,
       ClaimUploadCompletionJob, CleanStaging, storeVars
<1>3. ASSUME NEW p \in Purger, PurgerStep(p)
      PROVE  lateCopies' = lateCopies
  BY <1>3 DEF PurgerStep, Purge, PurgeStaged, CompleteBlobDeletionJob, PurgeBlob,
       PurgeFails, FailBlobDeletionJob, PurgerDies, ClaimBlobDeletionJob, storeVars
<1>4. ASSUME RecoverCompletionLeases \/ RecoverDeletionLeases
                 \/ \E c \in lateCopies : LateCopyEnds(c)
      PROVE  lateCopies' \subseteq lateCopies
  BY <1>4 DEF RecoverCompletionLeases, RecoverDeletionLeases, LateCopyEnds, storeVars
<1>5. ASSUME NEW w \in Worker, WorkFails(w) \/ WorkerDies(w)
      PROVE  \/ lateCopies' = lateCopies
             \/ /\ worker[w].pc = "seal"
                /\ lateCopies' = lateCopies \cup {[session |-> worker[w].session,
                       attempt |-> worker[w].attempt, etag |-> worker[w].etag]}
  BY <1>5 DEF WorkFails, WorkerDies, At
<1> QED BY <1>1, <1>2, <1>3, <1>4, <1>5 DEF Next

\* Neither a late copy nor another process touches what a worker that has
\* checked the digest is about to publish.
LEMMA SealsStay ==
    ASSUME UploadInvariant, Next,
           NEW w \in Worker, worker[w].pc = "publish", worker'[w] = worker[w]
    PROVE  sealed'[worker[w].session][worker[w].attempt] =
               sealed[worker[w].session][worker[w].attempt]
<1> DEFINE s == worker[w].session
           n == worker[w].attempt
<1>1. /\ TypeOK /\ RowsAgree /\ PurgersAgree /\ CopiesAgree
      /\ AttemptsDistinct
  BY DEF UploadInvariant, ProcessesAgree, WorkersAgree
<1>2. /\ worker[w] # IdleWorker
      /\ s \in Session
      /\ n \in Attempt
      /\ sealed \in [Session -> [StorageKey -> Object]]
  BY <1>1, BusyWorker DEF TypeOK
<1>3. ASSUME NEW v \in Worker, Seal(v) \/ DeleteFailedSeal(v)
      PROVE  sealed'[s][n] = sealed[s][n]
  <2>1. v # w
    BY <1>3, <1>1, WorkerMoves, WorkerFinishes DEF Seal, DeleteFailedSeal, At, WorkerPC
  <2>2. worker[v].session # s \/ worker[v].attempt # n
    BY <1>1, <1>2, <2>1 DEF AttemptsDistinct
  <2>3. \E b \in Object :
           \/ sealed' = sealed
           \/ sealed' = [sealed EXCEPT ![worker[v].session][worker[v].attempt] = b]
    <3>1. CASE Seal(v)
      BY <1>1, <3>1, BusyWorker DEF Seal, At
    <3>2. CASE DeleteFailedSeal(v)
      BY <3>2 DEF DeleteFailedSeal, Object
    <3> QED BY <1>3, <3>1, <3>2
  <2>4. PICK b \in Object :
           \/ sealed' = sealed
           \/ sealed' = [sealed EXCEPT ![worker[v].session][worker[v].attempt] = b]
    BY <2>3
  <2>5. n \in StorageKey
    BY <1>2, BoundAssumption DEF Attempt, StorageKey
  <2> HIDE DEF s, n
  <2> QED BY <1>2, <2>2, <2>4, <2>5
<1>4. ASSUME NEW c \in lateCopies, LateCopyEnds(c)
      PROVE  sealed'[s][n] = sealed[s][n]
  <2>1. c.session # s \/ c.attempt # n
    BY <1>1 DEF CopiesAgree, CopyAgrees
  <2> QED BY <1>2, <1>4, <2>1 DEF LateCopyEnds
<1>5. ASSUME NEW p \in Purger, PurgeBlob(p)
      PROVE  sealed'[s][n] = sealed[s][n]
  <2>1. storageKey[purger[p].session] = 0
    BY <1>1, <1>5, BusyPurger DEF PurgeBlob, Purging, PurgersAgree, RowsAgree, Published
  <2>2. n # 0
    BY <1>2, BoundAssumption DEF Attempt
  <2> QED BY <1>2, <1>5, <2>1, <2>2 DEF PurgeBlob
<1> QED BY <1>3, <1>4, <1>5, SealedChanges

\* A worker that does not move goes on agreeing with the rows.
LEMMA AttemptStays ==
    ASSUME UploadInvariant, Next, NEW w \in Worker, worker'[w] = worker[w],
           worker[w].pc \in {"stat", "seal", "hash", "publish"}
              /\ jobStatus'[worker[w].session] = "succeeded"
              /\ jobStatus[worker[w].session] # "succeeded"
              => worker[w].attempt # jobAttempts[worker[w].session]
    PROVE  AttemptAgrees(w)'
<1> SUFFICES ASSUME worker[w] # IdleWorker PROVE AttemptAgrees(w)'
  BY DEF AttemptAgrees
<1> DEFINE s == worker[w].session
           n == worker[w].attempt
<1>1. TypeOK /\ RowsAgree /\ AttemptAgrees(w)
  BY DEF UploadInvariant, ProcessesAgree, WorkersAgree
<1>2. JobsGoOn
  BY <1>1, JobsStep
<1>3. TypeOK'
  BY <1>1, TypeStep DEF UploadInvariant, ProcessesAgree
<1>4. s \in Session /\ n \in Nat /\ jobAttempts[s] \in Nat /\ jobAttempts'[s] \in Nat
  BY <1>1, <1>3, BusyWorker, BoundAssumption DEF TypeOK, Attempt
<1>5. worker[w].pc = "publish" => sealed'[s][n] = "agreed"
  BY <1>1, SealsStay DEF AttemptAgrees
<1> QED BY <1>1, <1>2, <1>4, <1>5 DEF AttemptAgrees, JobsGoOn

\* Every worker goes on agreeing with the rows and the store.
LEMMA AttemptsStep ==
    ASSUME UploadInvariant, Next, NEW w \in Worker
    PROVE  AttemptAgrees(w)'
<1>1. /\ TypeOK /\ RowsAgree /\ AttemptsDistinct /\ AttemptAgrees(w)
      /\ \A v \in Worker : AttemptAgrees(v)
  BY DEF UploadInvariant, ProcessesAgree, WorkersAgree
<1>2. TypeOK'
  BY <1>1, TypeStep DEF UploadInvariant, ProcessesAgree
<1> DEFINE s == worker[w].session
           n == worker[w].attempt
<1>3. CASE worker'[w] = IdleWorker
  BY <1>3 DEF AttemptAgrees
<1>4. ASSUME NEW v \in Worker, Publish(v), v # w
      PROVE  AttemptAgrees(w)'
  <2>1. worker'[w] = worker[w]
    BY <1>1, <1>4, WorkerMoves DEF Publish, At, WorkerPC
  <2>2. CASE worker[w] = IdleWorker
    BY <1>3, <2>1, <2>2
  <2>3. CASE worker[w] # IdleWorker
    <3>1. worker[v].session # s \/ worker[v].attempt # n
      BY <1>1, <1>4, <2>3 DEF AttemptsDistinct
    <3>2. s \in Session
      BY <1>1, <2>3, BusyWorker
    <3>3. jobStatus'[s] = "succeeded" /\ jobStatus[s] # "succeeded" => n # jobAttempts[s]
      BY <1>1, <1>4, <3>1, <3>2 DEF Publish, HoldsLease, TypeOK
    <3> QED BY <2>1, <3>3, AttemptStays
  <2> QED BY <2>2, <2>3
<1>5. CASE Publish(w)
  <2>1. /\ worker[w].pc = "publish"
        /\ worker[w] # IdleWorker
    BY <1>1, <1>5, BusyWorker DEF Publish, At
  <2>2. /\ worker'[w].pc \in {"unstage", "failing"}
        /\ worker'[w].session = s
        /\ worker'[w].attempt = n
    BY <1>1, <1>5, <2>1, WorkerMoves DEF Publish, WorkerPC
  <2>3. jobAttempts' = jobAttempts
    BY <1>5 DEF Publish
  <2> QED BY <1>1, <2>1, <2>2, <2>3 DEF AttemptAgrees
<1>6. CASE worker'[w] = worker[w] /\ ~\E v \in Worker : Publish(v)
  <2>1. NoneSucceeds
    BY <1>1, <1>6, SucceedStep
  <2>2. worker[w] # IdleWorker => s \in Session
    BY <1>1, BusyWorker
  <2> QED BY <1>3, <1>6, <2>1, <2>2, AttemptStays DEF NoneSucceeds
<1>7. ASSUME NEW t \in Session, ClaimUploadCompletionJob(w, t)
      PROVE  AttemptAgrees(w)'
  <2>1. /\ worker'[w].pc = "stat"
        /\ worker'[w].session = t
        /\ worker'[w].attempt = jobAttempts[t] + 1
        /\ NextAttempt(t) = jobAttempts[t] + 1
    BY <1>1, <1>7, WorkerClaims
  <2>2. /\ jobAttempts'[t] = jobAttempts[t] + 1
        /\ jobStatus'[t] = "processing"
    BY <1>1, <1>7, <2>1 DEF ClaimUploadCompletionJob, TypeOK
  <2>3. jobAttempts[t] \in Nat
    BY <1>1, BoundAssumption DEF TypeOK
  <2> QED BY <2>1, <2>2, <2>3 DEF AttemptAgrees
<1>8. CASE StatStaged(w)
  <2>1. /\ worker'[w].pc = "seal"
        /\ worker'[w].session = s
        /\ worker'[w].attempt = n
        /\ worker'[w].etag \in Bytes
        /\ worker[w].pc = "stat"
    BY <1>1, <1>8, WorkerStats DEF StatStaged, At
  <2>2. worker[w] # IdleWorker
    BY <1>1, <2>1, BusyWorker
  <2> QED BY <1>1, <1>8, <2>1, <2>2 DEF AttemptAgrees, StatStaged, rowVars, jobVars
<1>9. CASE Seal(w)
  <2>1. /\ worker'[w].pc = "hash"
        /\ worker'[w].session = s
        /\ worker'[w].attempt = n
        /\ worker[w].pc = "seal"
        /\ worker[w] # IdleWorker
    BY <1>1, <1>9, WorkerMoves, BusyWorker DEF Seal, At, WorkerPC
  <2> QED BY <1>1, <1>9, <2>1 DEF AttemptAgrees, Seal, rowVars, jobVars
<1>10. CASE HashSealed(w)
  <2>1. /\ worker'[w].pc = "publish"
        /\ worker'[w].session = s
        /\ worker'[w].attempt = n
        /\ worker[w].pc = "hash"
        /\ worker[w] # IdleWorker
    BY <1>1, <1>10, WorkerMoves, BusyWorker DEF HashSealed, At, WorkerPC
  <2> QED BY <1>1, <1>10, <2>1 DEF AttemptAgrees, HashSealed, rowVars, jobVars, storeVars
<1>11. CASE FindCompleted(w) \/ WorkFails(w)
  <2>1. /\ worker'[w].pc \in {"unstage", "failing"}
        /\ worker'[w].session = s
        /\ worker'[w].attempt = n
        /\ worker[w] # IdleWorker
    BY <1>1, <1>11, WorkerMoves, BusyWorker DEF FindCompleted, WorkFails, At, WorkerPC
  <2> QED BY <1>1, <1>11, <2>1 DEF AttemptAgrees, FindCompleted, WorkFails, rowVars, jobVars
<1>12. CASE FailUploadCompletionJob(w) /\ worker'[w] # IdleWorker
  <2>1. /\ worker[w].pc = "failing"
        /\ worker[w] # IdleWorker
        /\ s \in Session
    BY <1>1, <1>12, BusyWorker DEF FailUploadCompletionJob, At
  <2>2. /\ HoldsLease(w)
        /\ MoveTo(w, "unseal")
        /\ jobStatus'[s] \in {"queued", "failed"}
        /\ jobAttempts' = jobAttempts
    BY <1>1, <1>12, <2>1, WorkerFinishes DEF FailUploadCompletionJob, LeaveSeal, TypeOK
  <2>3. /\ worker'[w].pc = "unseal"
        /\ worker'[w].session = s
        /\ worker'[w].attempt = n
    BY <1>1, <2>1, <2>2, WorkerMoves DEF WorkerPC
  <2> QED BY <1>1, <2>1, <2>2, <2>3 DEF AttemptAgrees
<1>13. ASSUME NEW v \in Worker, WorkerStep(v), v # w
       PROVE  worker'[w] = worker[w]
  <2>1. \/ \E t \in Session : ClaimUploadCompletionJob(v, t)
        \/ StatStaged(v)
        \/ worker' = worker
        \/ Finish(v)
        \/ \E pc \in WorkerPC : worker[v].pc # "idle" /\ MoveTo(v, pc)
    BY <1>13, WorkerStepShape
  <2> QED BY <1>1, <1>13, <2>1, WorkerClaims, WorkerStats, WorkerFinishes, WorkerMoves
<1>14. ASSUME WorkerStep(w), worker'[w] # IdleWorker
       PROVE  AttemptAgrees(w)' \/ worker'[w] = worker[w]
  <2>1. Finish(w) => worker'[w] = IdleWorker
    BY <1>1, WorkerFinishes
  <2> QED BY <1>5, <1>7, <1>8, <1>9, <1>10, <1>11, <1>12, <1>14, <2>1
       DEF WorkerStep, Work, CompleteMultipart, DeleteStaged, DeleteFailedSeal, WorkerDies,
           CleanStaging, processVars
<1> QED BY <1>3, <1>4, <1>5, <1>6, <1>13, <1>14, OthersLeaveWorkers

\* Every late copy goes on being of an attempt that is over.
LEMMA CopiesStep ==
    ASSUME UploadInvariant, Next
    PROVE  CopiesAgree'
<1>1. /\ TypeOK /\ RowsAgree /\ AttemptsDistinct /\ CopiesAgree
      /\ \A v \in Worker : AttemptAgrees(v)
  BY DEF UploadInvariant, ProcessesAgree, WorkersAgree
<1>2. JobsGoOn
  BY <1>1, JobsStep
<1>3. TypeOK'
  BY <1>1, TypeStep DEF UploadInvariant, ProcessesAgree
<1>4. ASSUME NEW c \in lateCopies
      PROVE  CopyAgrees(c)'
  <2> DEFINE s == c.session
             n == c.attempt
  <2>1. s \in Session /\ n \in Nat /\ jobAttempts[s] \in Nat /\ jobAttempts'[s] \in Nat
    BY <1>1, <1>3, BoundAssumption DEF TypeOK, LateCopy, Attempt
  <2>2. /\ n <= jobAttempts[s]
        /\ n = jobAttempts[s] => jobStatus[s] # "succeeded"
        /\ \A w \in Worker : worker[w].session = s /\ worker[w].attempt = n =>
              worker[w].pc \in {"failing", "unseal"}
    BY <1>1 DEF CopiesAgree, CopyAgrees
  <2>3. n <= jobAttempts'[s]
    BY <1>2, <2>1, <2>2 DEF JobsGoOn
  <2>4. ASSUME n = jobAttempts'[s]
        PROVE  jobStatus'[s] # "succeeded"
    <3>1. n = jobAttempts[s]
      BY <1>2, <2>1, <2>2, <2>4 DEF JobsGoOn
    <3>2. CASE \E w \in Worker : Publish(w)
      <4>1. PICK w \in Worker : Publish(w)
        BY <3>2
      <4>2. worker[w].session # s
        BY <2>2, <3>1, <4>1 DEF Publish, HoldsLease, At
      <4> QED BY <1>1, <2>1, <2>2, <3>1, <4>1, <4>2 DEF Publish, TypeOK
    <3>3. CASE ~\E w \in Worker : Publish(w)
      BY <1>1, <2>1, <2>2, <3>1, <3>3, SucceedStep DEF NoneSucceeds
    <3> QED BY <3>2, <3>3
  <2>5. ASSUME NEW w \in Worker, worker'[w].session = s, worker'[w].attempt = n
        PROVE  worker'[w].pc \in {"failing", "unseal"}
    <3>1. worker'[w] # IdleWorker
      BY <2>1, <2>5, SessionAssumption DEF IdleWorker
    <3>2. ~\E t \in Session : ClaimUploadCompletionJob(w, t)
      BY <1>1, <2>1, <2>2, <2>5, WorkerClaims
    <3> QED BY <1>1, <2>2, <2>5, <3>1, <3>2, WorkersKeepAttempts
  <2> QED BY <2>3, <2>4, <2>5 DEF CopyAgrees
<1>5. ASSUME NEW w \in Worker, WorkFails(w) \/ WorkerDies(w), worker[w].pc = "seal",
             NEW c, c = [session |-> worker[w].session, attempt |-> worker[w].attempt,
                         etag |-> worker[w].etag]
      PROVE  CopyAgrees(c)'
  <2> DEFINE s == worker[w].session
             n == worker[w].attempt
  <2>1. /\ worker[w] # IdleWorker
        /\ s \in Session
        /\ c.session = s /\ c.attempt = n
    BY <1>1, <1>5, BusyWorker
  <2>2. /\ n <= jobAttempts[s]
        /\ n = jobAttempts[s] => jobStatus[s] # "succeeded"
    BY <1>1, <1>5, <2>1 DEF AttemptAgrees
  <2>3. jobAttempts' = jobAttempts /\ jobStatus' = jobStatus
    BY <1>5 DEF WorkFails, WorkerDies, rowVars, jobVars
  <2>4. ASSUME NEW v \in Worker, worker'[v].session = s, worker'[v].attempt = n
        PROVE  worker'[v].pc \in {"failing", "unseal"}
    <3>1. Finish(w) \/ MoveTo(w, "failing")
      BY <1>5 DEF WorkFails, WorkerDies
    <3>2. CASE v = w
      BY <1>1, <1>5, <2>1, <2>4, <3>1, <3>2, WorkerMoves, WorkerFinishes, SessionAssumption
         DEF WorkerPC, IdleWorker
    <3>3. CASE v # w
      <4>1. worker'[v] = worker[v]
        BY <1>1, <1>5, <3>1, <3>3, WorkerMoves, WorkerFinishes DEF WorkerPC
      <4> QED BY <1>1, <2>1, <2>4, <3>3, <4>1 DEF AttemptsDistinct
    <3> QED BY <3>2, <3>3
  <2> QED BY <2>1, <2>2, <2>3, <2>4 DEF CopyAgrees
<1> QED BY <1>4, <1>5, CopiesChange DEF CopiesAgree

\* What a step that is no publication of t leaves of it.
Kept(t) ==
    /\ versionState[t] \in Published =>
          /\ versionState'[t] = versionState[t]
          /\ storageKey'[t] = storageKey[t]
          /\ sessionStatus'[t] = "completed"
    /\ versionState'[t] \in Published /\ versionState[t] \notin Published =>
          \E w \in Worker : Publish(w) /\ worker[w].session = t

\* A publication is final, and made by a worker.
LEMMA PublicationStep ==
    ASSUME TypeOK, RowsAgree, CleanupNeverForgotten, Next, NEW t \in Session
    PROVE  Kept(t)
<1> USE DEF RowsAgree, CleanupNeverForgotten, TypeOK, Transferring, Open, Published,
       SessionStatus, VersionState, JobStatus
<1>1. ASSUME NEW s \in Session, ReserveUpload(s) PROVE Kept(t)
  BY <1>1 DEF Kept, ReserveUpload, sessionVars, versionVars, jobVars, deletionVars
<1>2. ASSUME NEW s \in Session, AttachMultipartUpload(s) PROVE Kept(t)
  BY <1>2 DEF Kept, AttachMultipartUpload, sessionVars, versionVars, jobVars, deletionVars
<1>3. ASSUME NEW s \in Session, QueueUploadCompletion(s) PROVE Kept(t)
  BY <1>3 DEF Kept, QueueUploadCompletion, sessionVars, versionVars, jobVars, deletionVars
<1>4. ASSUME NEW s \in Session, AbortUpload(s) PROVE Kept(t)
  BY <1>4 DEF Kept, AbortUpload, FailPending, QueueDeletion, sessionVars, versionVars,
     jobVars, deletionVars
<1>5. ASSUME NEW s \in Session, MarkUploadExpired(s) PROVE Kept(t)
  BY <1>5 DEF Kept, MarkUploadExpired, Expirable, FailPending, QueueDeletion, sessionVars,
     versionVars, jobVars, deletionVars
<1>6. CASE RecoverCompletionLeases
  BY <1>6 DEF Kept, RecoverCompletionLeases, LapsedCompletions, ExhaustedCompletions,
     QueueDeletion, FailPending, sessionVars, versionVars, jobVars, deletionVars
<1>7. ASSUME NEW w \in Worker, Publish(w) PROVE Kept(t)
  <2> DEFINE s == worker[w].session
  <2>1. s \in Session /\ versionState[s] = "pending"
    BY <1>7, BusyWorker DEF Publish, At
  <2>2. CASE t = s
    BY <1>7, <2>1, <2>2 DEF Kept
  <2>3. CASE t # s
    <3>1. PICK state : versionState' = [versionState EXCEPT ![s] = state]
      BY <1>7, Zenon DEF Publish
    <3>2. storageKey' = [storageKey EXCEPT ![s] = worker[w].attempt]
      BY <1>7, Zenon DEF Publish
    <3>3. sessionStatus' = [sessionStatus EXCEPT ![s] = "completed"]
      BY <1>7, Zenon DEF Publish
    <3> HIDE DEF s
    <3>4. /\ versionState'[t] = versionState[t]
          /\ storageKey'[t] = storageKey[t]
          /\ sessionStatus'[t] = sessionStatus[t]
      BY <2>3, <3>1, <3>2, <3>3 DEF TypeOK
    <3> QED BY <3>4 DEF Kept
  <2> QED BY <2>2, <2>3
<1>8. ASSUME NEW w \in Worker, FailUploadCompletionJob(w) PROVE Kept(t)
  BY <1>8, BusyWorker DEF Kept, FailUploadCompletionJob, LeaveSeal, HoldsLease,
     FailPending, QueueDeletion, sessionVars, versionVars, jobVars, deletionVars
<1>9. ASSUME NEW w \in Worker, NEW s \in Session, ClaimUploadCompletionJob(w, s)
      PROVE  Kept(t)
  BY <1>9 DEF Kept, ClaimUploadCompletionJob, NextAttempt, sessionVars, versionVars,
     jobVars, deletionVars
<1>10. CASE RecoverDeletionLeases
  BY <1>10 DEF Kept, RecoverDeletionLeases, LapsedDeletions, sessionVars, versionVars,
     jobVars, deletionVars
<1>11. ASSUME NEW p \in Purger, CompleteBlobDeletionJob(p) PROVE Kept(t)
  BY <1>11, BlobDeletionCompletes DEF Kept, CompleteBlobDeletionJob, sessionVars
<1>12. ASSUME NEW p \in Purger, FailBlobDeletionJob(p) PROVE Kept(t)
  BY <1>12, BusyPurger DEF Kept, FailBlobDeletionJob, HoldsDeletion, Purging, sessionVars,
     versionVars, jobVars, deletionVars
<1>13. ASSUME NEW p \in Purger, NEW s \in Session, ClaimBlobDeletionJob(p, s)
       PROVE  Kept(t)
  BY <1>13 DEF Kept, ClaimBlobDeletionJob, Purgeable, sessionVars, versionVars, jobVars,
     deletionVars
<1>14. CASE UNCHANGED <<sessionStatus, versionState, storageKey, isCurrent, jobStatus,
                      jobAttempts, deletionStatus, deletionAttempts>>
  BY <1>14 DEF Kept
<1> QED BY <1>1, <1>2, <1>3, <1>4, <1>5, <1>6, <1>7, <1>8, <1>9, <1>10, <1>11, <1>12,
       <1>13, <1>14, RowChanges DEF Kept

\* A published version goes on serving the agreed bytes.
LEMMA IntactStep ==
    ASSUME UploadInvariant, Next
    PROVE  PublishedIntact'
<1>1. /\ TypeOK /\ RowsAgree /\ CleanupNeverForgotten /\ PurgersAgree /\ CopiesAgree
      /\ \A v \in Worker : AttemptAgrees(v)
      /\ PublishedIntact
  BY DEF UploadInvariant, ProcessesAgree, WorkersAgree
<1> SUFFICES ASSUME NEW t \in Session, versionState'[t] \in Published
             PROVE  sealed'[t][storageKey'[t]] = "agreed"
  BY DEF PublishedIntact
<1>2. Kept(t)
  BY <1>1, PublicationStep
<1>3. CASE versionState[t] \notin Published
  <2>1. PICK w \in Worker : Publish(w) /\ worker[w].session = t
    BY <1>2, <1>3 DEF Kept
  <2>2. worker[w] # IdleWorker /\ worker[w].pc = "publish"
    BY <1>1, <2>1, BusyWorker DEF Publish, At
  <2>3. sealed[t][worker[w].attempt] = "agreed"
    BY <1>1, <2>1, <2>2 DEF AttemptAgrees
  <2>4. storageKey'[t] = worker[w].attempt /\ sealed' = sealed
    BY <1>1, <2>1 DEF Publish, TypeOK, storeVars
  <2> QED BY <2>3, <2>4
<1>4. CASE versionState[t] \in Published
  <2> DEFINE k == storageKey[t]
  <2>1. /\ sealed[t][k] = "agreed"
        /\ k = jobAttempts[t]
        /\ jobStatus[t] = "succeeded"
        /\ storageKey'[t] = k
        /\ k \in StorageKey
        /\ sealed \in [Session -> [StorageKey -> Object]]
    BY <1>1, <1>2, <1>4 DEF PublishedIntact, RowsAgree, Kept, TypeOK
  <2>2. ASSUME NEW w \in Worker, Seal(w)
        PROVE  sealed'[t][k] = "agreed"
    <3>1. worker[w].session # t \/ worker[w].attempt # k
      BY <2>1, <2>2 DEF Seal
    <3>2. sealed' = [sealed EXCEPT ![worker[w].session][worker[w].attempt] = worker[w].etag]
      BY <2>2 DEF Seal
    <3> HIDE DEF k
    <3> QED BY <2>1, <3>1, <3>2
  <2>3. ASSUME NEW w \in Worker, DeleteFailedSeal(w)
        PROVE  sealed'[t][k] = "agreed"
    <3>1. worker[w] # IdleWorker /\ worker[w].pc = "unseal"
      BY <1>1, <2>3, BusyWorker DEF DeleteFailedSeal, At
    <3>2. worker[w].session # t \/ worker[w].attempt # k
      BY <1>1, <2>1, <3>1 DEF AttemptAgrees
    <3>3. \/ sealed' = sealed
          \/ sealed' = [sealed EXCEPT ![worker[w].session][worker[w].attempt] = "absent"]
      BY <2>3 DEF DeleteFailedSeal
    <3> HIDE DEF k
    <3> QED BY <2>1, <3>2, <3>3
  <2>4. ASSUME NEW c \in lateCopies, LateCopyEnds(c)
        PROVE  sealed'[t][k] = "agreed"
    <3>1. c.session # t \/ c.attempt # k
      BY <1>1, <2>1 DEF CopiesAgree, CopyAgrees
    <3>2. sealed' = sealed \/ sealed' = [sealed EXCEPT ![c.session][c.attempt] = c.etag]
      BY <2>4 DEF LateCopyEnds
    <3> HIDE DEF k
    <3> QED BY <2>1, <3>1, <3>2
  <2>5. ASSUME NEW p \in Purger, PurgeBlob(p)
        PROVE  sealed'[t][k] = "agreed"
    <3>1. purger[p].session # t
      BY <1>1, <1>4, <2>5, BusyPurger DEF PurgeBlob, Purging, PurgersAgree, Published
    <3>2. sealed' = [sealed EXCEPT
                       ![purger[p].session][storageKey[purger[p].session]] = "absent"]
      BY <2>5 DEF PurgeBlob
    <3> HIDE DEF k
    <3> QED BY <2>1, <3>1, <3>2
  <2>6. CASE sealed' = sealed
    BY <2>1, <2>6
  <2> QED BY <2>1, <2>2, <2>3, <2>4, <2>5, <2>6, SealedChanges
<1> QED BY <1>3, <1>4

\* The invariant holds at first.
LEMMA InitEstablishes == Init => UploadInvariant
<1> SUFFICES ASSUME Init PROVE UploadInvariant
  OBVIOUS
<1>1. TypeOK
  BY BoundAssumption DEF Init, TypeOK, SessionStatus, VersionState, JobStatus, StorageKey,
     Object,
     Multipart, WorkerState, PurgerState
<1>2. RowsAgree /\ CleanupNeverForgotten /\ OneCurrentVersion /\ PublishedIntact
  BY DEF Init, RowsAgree, CleanupNeverForgotten, OneCurrentVersion, PublishedIntact, Open,
     Published, Transferring
<1>3. ProcessesAgree
  BY DEF Init, ProcessesAgree, WorkersAgree, AttemptsDistinct, AttemptAgrees, CopiesAgree,
     PurgersAgree
<1> QED BY <1>1, <1>2, <1>3 DEF UploadInvariant

\* The invariant is inductive.
LEMMA NextPreserves == UploadInvariant /\ [Next]_vars => UploadInvariant'
<1> SUFFICES ASSUME UploadInvariant, [Next]_vars PROVE UploadInvariant'
  OBVIOUS
<1>1. CASE Next
  <2>1. /\ TypeOK /\ RowsAgree /\ CleanupNeverForgotten /\ OneCurrentVersion
        /\ WorkersAgree /\ PurgersAgree
    BY DEF UploadInvariant, ProcessesAgree
  <2>2. TypeOK'
    BY <1>1, <2>1, TypeStep
  <2>3. RowsAgree' /\ CleanupNeverForgotten' /\ OneCurrentVersion'
    BY <1>1, <2>1, RowsStep, CleanupStep, CurrentStep
  <2>4. WorkersAgree'
    BY <1>1, <2>1, DistinctStep, AttemptsStep DEF WorkersAgree
  <2>5. CopiesAgree' /\ PurgersAgree'
    BY <1>1, <2>1, CopiesStep, PurgersStep
  <2>6. PublishedIntact'
    BY <1>1, IntactStep
  <2> QED BY <2>2, <2>3, <2>4, <2>5, <2>6 DEF UploadInvariant, ProcessesAgree
<1>2. CASE UNCHANGED vars
  <2>1. TypeOK'
    BY <1>2 DEF UploadInvariant, TypeOK, vars
  <2>2. RowsAgree' /\ CleanupNeverForgotten' /\ OneCurrentVersion' /\ PublishedIntact'
    BY <1>2 DEF UploadInvariant, RowsAgree, CleanupNeverForgotten, OneCurrentVersion,
       PublishedIntact, vars
  <2>3. ProcessesAgree'
    BY <1>2 DEF UploadInvariant, ProcessesAgree, WorkersAgree, AttemptsDistinct,
       AttemptAgrees, CopiesAgree, CopyAgrees, PurgersAgree, vars
  <2> QED BY <2>1, <2>2, <2>3 DEF UploadInvariant
<1> QED BY <1>1, <1>2

\* The inductive invariant holds of every behaviour.
THEOREM Invariance == Spec => []UploadInvariant
<1> QED BY InitEstablishes, NextPreserves, PTL DEF Spec

\* Every column, object and process has a value of its type.
THEOREM TypeCorrect == Spec => []TypeOK
<1>1. UploadInvariant => TypeOK
  BY DEF UploadInvariant
<1> QED BY <1>1, Invariance, PTL

\* Whatever workers crash, hang, overlap or lose their leases, a published
\* version serves the bytes whose digest the client declared (process and its
\* fenced statements, upload/worker.go, repository/upload*.go).
THEOREM Integrity == Spec => []PublishedIntact
<1>1. UploadInvariant => PublishedIntact
  BY DEF UploadInvariant
<1> QED BY <1>1, Invariance, PTL

\* The rows of a session tell one story for ever (repository/upload*.go).
THEOREM Consistency == Spec => []RowsAgree
<1>1. UploadInvariant => RowsAgree
  BY DEF UploadInvariant
<1> QED BY <1>1, Invariance, PTL

\* The bytes of an upload that came to nothing always have a deletion job.
THEOREM Remembrance == Spec => []CleanupNeverForgotten
<1>1. UploadInvariant => CleanupNeverForgotten
  BY DEF UploadInvariant
<1> QED BY <1>1, Invariance, PTL

\* An item never has two current versions, nor a current one that is not ready.
THEOREM Uniqueness == Spec => []OneCurrentVersion
<1>1. UploadInvariant => OneCurrentVersion
  BY DEF UploadInvariant
<1> QED BY <1>1, Invariance, PTL

\* Workers, late copies and purge workers, fenced off or not, agree with the
\* rows and the store on how far each attempt is (joblease, the fences).
THEOREM Agreement == Spec => []ProcessesAgree
<1>1. UploadInvariant => ProcessesAgree
  BY DEF UploadInvariant
<1> QED BY <1>1, Invariance, PTL

\* No step of any process takes a publication back or moves its storage key
\* (CompleteUpload, AbortUpload, MarkUploadExpired, the terminal failures).
THEOREM Finality == Spec => PublicationIsFinal
<1>1. UploadInvariant /\ [Next]_vars =>
        [\A s \in Session :
            versionState[s] \in Published =>
                /\ versionState'[s] = versionState[s]
                /\ storageKey'[s] = storageKey[s]
                /\ sessionStatus'[s] = "completed"]_vars
  BY PublicationStep DEF UploadInvariant, Kept
<1> QED BY <1>1, Invariance, PTL DEF Spec, PublicationIsFinal

\* What is current changes with a publication only.
LEMMA CurrentStays ==
    ASSUME UploadInvariant, Next, \A w \in Worker : ~Publish(w)
    PROVE  isCurrent' = isCurrent
<1>1. /\ TypeOK
      /\ \A t \in Session : isCurrent[t] => versionState[t] = "ready"
      /\ isCurrent \in [Session -> BOOLEAN]
  BY DEF UploadInvariant, OneCurrentVersion, TypeOK
<1>2. ASSUME NEW t \in Session, versionState[t] # "ready"
      PROVE  [isCurrent EXCEPT ![t] = FALSE] = isCurrent
  <2>1. isCurrent[t] = FALSE
    BY <1>1, <1>2
  <2> QED BY <1>1, <2>1
<1>3. ASSUME NEW t \in Session
      PROVE  [isCurrent EXCEPT ![t] = @ /\ versionState[t] # "pending"] = isCurrent
  <2>1. (isCurrent[t] /\ versionState[t] # "pending") = isCurrent[t]
    BY <1>1
  <2>2. [isCurrent EXCEPT ![t] = isCurrent[t]] = isCurrent
    BY <1>1
  <2> QED BY <2>1, <2>2
<1>4. ASSUME NEW t \in Session,
             \/ ReserveUpload(t) \/ AttachMultipartUpload(t) \/ QueueUploadCompletion(t)
             \/ MarkUploadExpired(t) \/ AbortUpload(t)
      PROVE  isCurrent' = isCurrent
  BY <1>3, <1>4 DEF ReserveUpload, AttachMultipartUpload, QueueUploadCompletion,
     MarkUploadExpired, AbortUpload, versionVars
<1>5. CASE RecoverCompletionLeases
  <2>1. \A t \in Session : isCurrent'[t] = isCurrent[t]
    BY <1>1, <1>5 DEF RecoverCompletionLeases
  <2>2. isCurrent' = [t \in Session |-> isCurrent'[t]]
    BY <1>5 DEF RecoverCompletionLeases
  <2> QED BY <1>1, <2>1, <2>2
<1>6. CASE RecoverDeletionLeases
  BY <1>6 DEF RecoverDeletionLeases, versionVars
<1>7. ASSUME NEW w \in Worker, FailUploadCompletionJob(w)
      PROVE  isCurrent' = isCurrent
  <2>1. worker[w].session \in Session
    BY <1>1, <1>7, BusyWorker DEF FailUploadCompletionJob, At
  <2> QED BY <1>3, <1>7, <2>1 DEF FailUploadCompletionJob
<1>8. ASSUME NEW w \in Worker, NEW t \in Session, ClaimUploadCompletionJob(w, t)
      PROVE  isCurrent' = isCurrent
  BY <1>8 DEF ClaimUploadCompletionJob, versionVars
<1>9. ASSUME NEW p \in Purger, CompleteBlobDeletionJob(p)
      PROVE  isCurrent' = isCurrent
  BY <1>1, <1>2, <1>9, BlobDeletionCompletes
<1>10. ASSUME NEW p \in Purger, FailBlobDeletionJob(p)
       PROVE  isCurrent' = isCurrent
  BY <1>10 DEF FailBlobDeletionJob, versionVars
<1>11. ASSUME NEW p \in Purger, NEW t \in Session, ClaimBlobDeletionJob(p, t)
       PROVE  isCurrent' = isCurrent
  BY <1>2, <1>11 DEF ClaimBlobDeletionJob, Purgeable
<1> QED BY <1>4, <1>5, <1>6, <1>7, <1>8, <1>9, <1>10, <1>11, RowChanges

\* The publication of a version by a worker, and what is current after it.
LEMMA PublishedCurrent ==
    ASSUME UploadInvariant, NEW w \in Worker, Publish(w)
    PROVE  LET t == worker[w].session
           IN  /\ t \in Session
               /\ versionState[t] = "pending"
               /\ isCurrent'[t] = ~RequireMalwareScan
               /\ \A s \in Session :
                     isCurrent'[s] # isCurrent[s] => ~RequireMalwareScan /\ ItemOf[s] = ItemOf[t]
<1>1. TypeOK /\ RowsAgree /\ OneCurrentVersion
  BY DEF UploadInvariant
<1> DEFINE t == worker[w].session
<1>2. t \in Session /\ versionState[t] = "pending"
  BY <1>1, BusyWorker DEF Publish, At, RowsAgree, Open
<1>3. isCurrent' = CurrentOnPublish(t)
  BY DEF Publish
<1> HIDE DEF t
<1>4. isCurrent[t] = FALSE
  BY <1>1, <1>2 DEF OneCurrentVersion, TypeOK
<1>5. isCurrent'[t] = ~RequireMalwareScan
  BY <1>2, <1>3 DEF CurrentOnPublish
<1>6. ASSUME NEW s \in Session, isCurrent'[s] # isCurrent[s]
      PROVE  ~RequireMalwareScan /\ ItemOf[s] = ItemOf[t]
  <2>1. CASE s = t
    BY <1>4, <1>5, <1>6, <2>1, BoundAssumption
  <2>2. CASE s # t
    BY <1>3, <1>6, <2>2 DEF CurrentOnPublish
  <2> QED BY <2>1, <2>2
<1> QED BY <1>2, <1>5, <1>6 DEF t

\* A current version stays current in every step but a publication for its item.
LEMMA CurrentGivesWay ==
    ASSUME UploadInvariant, [Next]_vars, NEW s \in Session, isCurrent[s], ~isCurrent'[s]
    PROVE  \E t \in Session : /\ ItemOf[t] = ItemOf[s]
                              /\ isCurrent'[t]
                              /\ versionState[t] = "pending"
<1>1. isCurrent' # isCurrent
  OBVIOUS
<1>2. PICK w \in Worker : Publish(w)
  BY <1>1, CurrentStays DEF vars
<1> QED BY <1>2, PublishedCurrent

\* Whatever becomes of its new revisions, an item that can be read stays readable
\* until the step that publishes the next version (CompleteUpload).
THEOREM Survival == Spec => CurrentSurvives
<1>1. UploadInvariant /\ [Next]_vars =>
        [\A s \in Session :
            isCurrent[s] /\ ~isCurrent'[s] =>
                \E t \in Session : /\ ItemOf[t] = ItemOf[s]
                                   /\ isCurrent'[t]
                                   /\ versionState[t] = "pending"]_vars
  BY CurrentGivesWay
<1> QED BY <1>1, Invariance, PTL DEF Spec, CurrentSurvives
==============================================================================
