--------------------------- MODULE ConsistencyAudit ---------------------------
(***************************************************************************)
(* The audit of a drive: what the rows say should be stored is read first, *)
(* the bucket is listed afterwards, object by object, and the two are      *)
(* compared, while uploads are sealed and published, versions are purged   *)
(* and objects get lost. Which steps an upload takes is UploadLifecycle's  *)
(* matter; here it seals an object for each attempt and publishes the last *)
(* one. The key reserved with the version stays empty. What the listing    *)
(* leaves out (staged objects, previews) is left out.                      *)
(***************************************************************************)
EXTENDS Naturals

CONSTANTS
    Version,       \* file versions of the drive
    MaxAttempts    \* upload_completion_job.max_attempts

AttemptsAssumption == MaxAttempts \in Nat \ {0}

VARIABLES
    state,         \* file_version.state
    key,           \* the attempt whose object storage_key names, 0 before
    tried,         \* attempts that sealed an object
    objects,       \* objects stored, by version and attempt
    deletion,      \* blob_deletion_job.status, and whether the bytes are gone
    audit,         \* the rows read, keys still to list, objects seen
    report,        \* what the last audit found
    touched        \* history: versions changed since the rows were read

vars == <<state, key, tried, objects, deletion, audit, report, touched>>
ObjectKey == Version \X (1..MaxAttempts)
NoReport == [made |-> FALSE, missing |-> {}, orphans |-> {}]
NoAudit == [phase |-> "idle", rows |-> {}, left |-> {}, seen |-> {}]

Init ==
    /\ state = [v \in Version |-> "none"] /\ key = [v \in Version |-> 0]
    /\ tried = [v \in Version |-> 0] /\ objects = {}
    /\ deletion = [v \in Version |-> "none"]
    /\ audit = NoAudit /\ report = NoReport /\ touched = {}

Touch(v) == touched' = touched \cup {v} /\ UNCHANGED <<audit, report>>
Moves(v, from, to) == state[v] = from /\ state' = [state EXCEPT ![v] = to]
Deletes(v, from, to) == deletion[v] = from /\ deletion' = [deletion EXCEPT ![v] = to]

ReserveUpload(v) ==
    /\ Moves(v, "none", "pending") /\ Touch(v)
    /\ UNCHANGED <<key, tried, objects, deletion>>

(* A worker that dies after this leaves its object under a key of its own. *)
Seal(v) ==
    /\ state[v] = "pending" /\ tried[v] < MaxAttempts
    /\ tried' = [tried EXCEPT ![v] = @ + 1]
    /\ objects' = objects \cup {<<v, tried'[v]>>}
    /\ Touch(v) /\ UNCHANGED <<state, key, deletion>>

(* Quarantined versions are required like published ones.                  *)
CompleteUpload(v) ==
    /\ tried[v] > 0 /\ Moves(v, "pending", "ready")
    /\ key' = [key EXCEPT ![v] = tried[v]]
    /\ Touch(v) /\ UNCHANGED <<tried, objects, deletion>>

EndUpload(v) ==
    /\ Moves(v, "pending", "failed") /\ Deletes(v, "none", "queued")
    /\ Touch(v) /\ UNCHANGED <<key, tried, objects>>

QueueExpiredTrash(v) ==
    /\ state[v] = "ready" /\ Deletes(v, "none", "queued")
    /\ Touch(v) /\ UNCHANGED <<state, key, tried, objects>>

CancelDeletion(v) ==
    /\ state[v] = "ready" /\ Deletes(v, "queued", "none")
    /\ Touch(v) /\ UNCHANGED <<state, key, tried, objects>>

ClaimBlobDeletionJob(v) ==
    /\ Deletes(v, "queued", "processing") /\ state' = [state EXCEPT ![v] = "deleting"]
    /\ Touch(v) /\ UNCHANGED <<key, tried, objects>>

DeleteObject(v) ==
    /\ Deletes(v, "processing", "removed") /\ objects' = objects \ {<<v, key[v]>>}
    /\ Touch(v) /\ UNCHANGED <<state, key, tried>>

(* Another attempt, or none: the store fails, or the lease lapses, also     *)
(* when the bytes are gone already.                                        *)
FailBlobDeletionJob(v) ==
    /\ deletion[v] \in {"processing", "removed"}
    /\ \E s \in {"queued", "failed"} : deletion' = [deletion EXCEPT ![v] = s]
    /\ Touch(v) /\ UNCHANGED <<state, key, tried, objects>>

CompleteBlobDeletionJob(v) ==
    /\ Deletes(v, "removed", "succeeded") /\ Moves(v, "deleting", "deleted")
    /\ Touch(v) /\ UNCHANGED <<key, tried, objects>>

(* A disk fails, or an operator errs: the database is not told.            *)
ObjectLost(v) ==
    /\ <<v, key[v]>> \in objects /\ objects' = objects \ {<<v, key[v]>>}
    /\ Touch(v) /\ UNCHANGED <<state, key, tried, deletion>>

-----------------------------------------------------------------------------
Required(v) == state[v] = "ready"
CleanupQueued(v) == deletion[v] \in {"queued", "processing", "removed"}
InUpload(v) == state[v] = "pending"
Row(v) == [version |-> v, key |-> key[v], required |-> Required(v),
           cleanup |-> CleanupQueued(v)]
Expected == {Row(v) : v \in {u \in Version : Required(u) \/ InUpload(u) \/ CleanupQueued(u)}}

ListExpectedBlobs ==
    /\ audit.phase = "idle"
    /\ audit' = [phase |-> "listing", rows |-> Expected, left |-> ObjectKey, seen |-> {}]
    /\ report' = NoReport /\ touched' = {}
    /\ UNCHANGED <<state, key, tried, objects, deletion>>

(* Keys come in the bucket's order; any order is allowed here.             *)
ListAuditObjects(k) ==
    /\ k \in audit.left
    /\ audit' = [phase |-> audit.phase, rows |-> audit.rows, left |-> audit.left \ {k},
                  seen |-> audit.seen \cup ({k} \cap objects)]
    /\ UNCHANGED <<state, key, tried, objects, deletion, report, touched>>

\* Faulty: the rows are read after the listing.
RowsReadLast == Expected

RowsRead == audit.rows

\* Faulty: a blob about to be deleted is missed like any other.
MissedAnyway(r) == r.required

Missed(r) == r.required /\ ~r.cleanup

NameOf(r) == <<r.version, r.key>>

(* Sizes and ETags are compared too: an object, once sealed, keeps them.   *)
Compare ==
    /\ audit.phase = "listing" /\ audit.left = {}
    /\ report' = [made |-> TRUE,
           missing |-> {r.version : r \in {q \in RowsRead :
                            Missed(q) /\ NameOf(q) \notin audit.seen}},
           orphans |-> audit.seen \ {NameOf(r) : r \in RowsRead}]
    /\ audit' = NoAudit
    /\ UNCHANGED <<state, key, tried, objects, deletion, touched>>

(* The store or the database fails, or the caller is no manager any more.  *)
AuditFails ==
    /\ audit.phase = "listing" /\ audit' = NoAudit
    /\ UNCHANGED <<state, key, tried, objects, deletion, report, touched>>

Next ==
    \/ \E v \in Version :
        \/ ReserveUpload(v) \/ Seal(v) \/ CompleteUpload(v) \/ EndUpload(v)
        \/ QueueExpiredTrash(v) \/ CancelDeletion(v) \/ ClaimBlobDeletionJob(v)
        \/ DeleteObject(v) \/ FailBlobDeletionJob(v) \/ CompleteBlobDeletionJob(v)
        \/ ObjectLost(v)
    \/ ListExpectedBlobs \/ Compare \/ AuditFails
    \/ \E k \in ObjectKey : ListAuditObjects(k)

Spec == Init /\ [][Next]_vars
-----------------------------------------------------------------------------
TypeOK ==
    /\ state \in [Version -> {"none", "pending", "ready", "failed", "deleting", "deleted"}]
    /\ key \in [Version -> 0..MaxAttempts] /\ tried \in [Version -> 0..MaxAttempts]
    /\ objects \subseteq ObjectKey
    /\ \A v \in Version : key[v] # 0 => key[v] = tried[v]

(* No alarm for nothing: a version reported missing, and still offered     *)
(* when the report is read, has no bytes. Uploads published and versions   *)
(* purged while the bucket is listed do not look like losses.              *)
MissingIsMissing ==
    \A v \in report.missing :
        Required(v) /\ ~CleanupQueued(v) => <<v, key[v]>> \notin objects

(* What nobody touched while the audit ran is reported as it is: lost if   *)
(* it is offered and not stored, stray if it is stored and named neither   *)
(* by an offer nor by a deletion under way: the object of an attempt that  *)
(* died, or of a deletion that was given up.                               *)
UntouchedReportedRight ==
    report.made => \A v \in Version \ touched :
        /\ v \in report.missing <=>
               Required(v) /\ ~CleanupQueued(v) /\ <<v, key[v]>> \notin objects
        /\ \A n \in 1..MaxAttempts :
               <<v, n>> \in report.orphans <=>
                   /\ <<v, n>> \in objects
                   /\ key[v] = n => ~(Required(v) \/ CleanupQueued(v))
=============================================================================
