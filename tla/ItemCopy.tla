------------------------------- MODULE ItemCopy -------------------------------
(***************************************************************************)
(* Copying a file: requests carrying one idempotency key reserve, or find, *)
(* one upload session, copy the source's bytes in the store straight to    *)
(* the key of the session's version, and complete the session themselves.  *)
(* No job and no lease guards the copy; abort, expiry and purge work on    *)
(* the same rows, and copying 5 GB may outlive its request.                *)
(***************************************************************************)
EXTENDS Naturals

CONSTANTS
    Request,       \* requests with the key, the first one and its retries
    MaxPurges      \* blob_deletion_job.max_attempts

ASSUME PurgesAssumption == MaxPurges \in Nat \ {0}

VARIABLES
    source,        \* the file copied: "ready", "trashed" or "purged"
    session,       \* upload_session.status
    overdue,       \* its deadline has passed
    version,       \* file_version.state of the copy
    object,        \* an object is stored at the version's key
    late,          \* a copy runs on in the store after its request gave up
    deletion,      \* blob_deletion_job of the version
    request,       \* how far each request is
    told           \* history: a client was told that the copy exists

vars == <<source, session, overdue, version, object, late, deletion, request, told>>

rows == <<session, overdue, version, deletion>>

NoDeletion == [status |-> "none", attempts |-> 0]
Queued     == [status |-> "queued", attempts |-> 0]

Init ==
    /\ source = "ready"
    /\ session = "none" /\ overdue = FALSE
    /\ version = "none" /\ object = FALSE /\ late = FALSE
    /\ deletion = NoDeletion
    /\ request = [r \in Request |-> "idle"]
    /\ told = FALSE

Becomes(r, phase) == request' = [request EXCEPT ![r] = phase]

(* Trashed, the source can no longer be asked for; purged, its bytes are   *)
(* gone.                                                                   *)
SourceLeaves ==
    /\ source' = IF source = "ready" THEN "trashed" ELSE "purged"
    /\ source # "purged"
    /\ UNCHANGED <<rows, object, late, request, told>>

ResolveAccessibleFile(r) ==
    /\ request[r] = "idle" /\ source = "ready"
    /\ Becomes(r, "resolved")
    /\ UNCHANGED <<source, rows, object, late, told>>

(* Only a completed session answers a replay; any other is worked on again.*)
ReserveUpload(r) ==
    /\ request[r] = "resolved"
    /\ \/ /\ session = "none"
          /\ session' = "initiated" /\ version' = "pending"
          /\ Becomes(r, "reserved") /\ UNCHANGED told
       \/ /\ session = "completed"
          /\ Becomes(r, "idle") /\ told' = TRUE /\ UNCHANGED <<session, version>>
       \/ /\ session \notin {"none", "completed"}
          /\ Becomes(r, "reserved") /\ UNCHANGED <<session, version, told>>
    /\ UNCHANGED <<source, overdue, object, late, deletion>>

(* The source must be stored and the key free.                             *)
CheckObjects(r) ==
    /\ request[r] = "reserved"
    /\ Becomes(r, IF source # "purged" /\ ~object THEN "copying" ELSE "failing")
    /\ UNCHANGED <<source, rows, object, late, told>>

CopyObject(r) ==
    /\ request[r] = "copying"
    /\ \/ /\ source # "purged" /\ object' = TRUE
          /\ Becomes(r, "copied") /\ UNCHANGED late
       \/ /\ late' \in {late, TRUE} /\ UNCHANGED object
          /\ Becomes(r, "failing")
    /\ UNCHANGED <<source, rows, told>>

LateCopyLands ==
    /\ late /\ late' = FALSE
    /\ object' \in {object, TRUE}
    /\ UNCHANGED <<source, rows, request, told>>

StatLegacyObject(r) ==
    /\ request[r] = "copied"
    /\ \/ object /\ Becomes(r, "stated")
       \/ Becomes(r, "failing")
    /\ UNCHANGED <<source, rows, object, late, told>>

\* Faulty: what became of the session since it was loaded is not looked at.
OpenWhenReserved == session # "completed"

Completable == session = "initiated" /\ ~overdue

(* Publishes, or finds the session published by a retry, or is refused;    *)
(* nobody aborts the session then.                                         *)
CompleteUpload(r) ==
    /\ request[r] = "stated" /\ Becomes(r, "idle")
    /\ \/ /\ Completable
          /\ session' = "completed" /\ version' = "ready" /\ told' = TRUE
       \/ /\ session = "completed"
          /\ told' = TRUE /\ UNCHANGED <<session, version>>
       \/ /\ session # "completed"
          /\ UNCHANGED <<session, version, told>>
    /\ UNCHANGED <<source, overdue, object, late, deletion>>

\* Faulty: a completed session is given up like any other.
AbortableUnlessEnded == session \notin {"aborted", "expired"}

Abortable == session \notin {"aborted", "expired", "completed"}

\* Faulty: the version fails, and nothing is queued to clean up after it.
GiveUpUnqueued(status) ==
    session' = status /\ version' = "failed" /\ UNCHANGED deletion

GiveUp(status) ==
    /\ session' = status /\ version' = "failed"
    /\ deletion' = IF deletion = NoDeletion THEN Queued ELSE deletion

(* Called, errors ignored, when a request's copy fails.                    *)
AbortUpload(r) ==
    /\ request[r] = "failing" /\ Becomes(r, "idle")
    /\ \/ Abortable /\ GiveUp("aborted")
       \/ UNCHANGED <<session, version, deletion>>
    /\ UNCHANGED <<source, overdue, object, late, told>>

(* The server dies, or the client leaves and the context is cancelled: the *)
(* session is not aborted, and the copy may go on in the store.            *)
RequestDies(r) ==
    /\ request[r] # "idle" /\ Becomes(r, "idle")
    /\ late' \in IF request[r] = "copying" THEN {late, TRUE} ELSE {late}
    /\ UNCHANGED <<source, rows, object, told>>

DeadlinePasses ==
    /\ session = "initiated" /\ ~overdue /\ overdue' = TRUE
    /\ UNCHANGED <<source, session, version, deletion, object, late, request, told>>

MarkUploadExpired ==
    /\ session = "initiated" /\ overdue
    /\ GiveUp("expired")
    /\ UNCHANGED <<source, overdue, object, late, request, told>>

ClaimBlobDeletionJob ==
    /\ deletion.status = "queued" /\ version \in {"failed", "deleting"}
    /\ deletion' = [status |-> "processing", attempts |-> deletion.attempts + 1]
    /\ version' = "deleting"
    /\ UNCHANGED <<source, session, overdue, object, late, request, told>>

DeleteObject ==
    /\ deletion.status = "processing"
    /\ object' = FALSE
    /\ deletion' = [deletion EXCEPT !.status = "removed"]
    /\ UNCHANGED <<source, session, overdue, version, late, request, told>>

CompleteBlobDeletionJob ==
    /\ deletion.status = "removed"
    /\ version' = "deleted"
    /\ deletion' = [deletion EXCEPT !.status = "succeeded"]
    /\ UNCHANGED <<source, session, overdue, object, late, request, told>>

\* Faulty: one attempt too many.
PastLimit == deletion.attempts > MaxPurges

Spent == deletion.attempts >= MaxPurges

(* The store refuses, or the purge worker dies and its lease runs out.     *)
PurgeFails ==
    /\ deletion.status \in {"processing", "removed"}
    /\ deletion' = [deletion EXCEPT
          !.status = IF Spent THEN "failed" ELSE "queued"]
    /\ UNCHANGED <<source, session, overdue, version, object, late, request, told>>

Purge == ClaimBlobDeletionJob \/ DeleteObject \/ CompleteBlobDeletionJob

Copy(r) ==
    \/ ResolveAccessibleFile(r) \/ ReserveUpload(r) \/ CheckObjects(r)
    \/ CopyObject(r) \/ StatLegacyObject(r) \/ CompleteUpload(r) \/ AbortUpload(r)

Next ==
    \/ \E r \in Request :
        \/ ResolveAccessibleFile(r) \/ ReserveUpload(r) \/ CheckObjects(r)
        \/ CopyObject(r) \/ StatLegacyObject(r) \/ CompleteUpload(r)
        \/ AbortUpload(r) \/ RequestDies(r)
    \/ SourceLeaves \/ LateCopyLands \/ DeadlinePasses \/ MarkUploadExpired
    \/ ClaimBlobDeletionJob \/ DeleteObject \/ CompleteBlobDeletionJob \/ PurgeFails

Spec == Init /\ [][Next]_vars

(* Time passes, and the expiry loop and the purge worker keep polling; no  *)
(* request need ever go on.                                                *)
Fairness == WF_vars(DeadlinePasses) /\ WF_vars(MarkUploadExpired) /\ WF_vars(Purge)

FairSpec == Spec /\ Fairness
-----------------------------------------------------------------------------
TypeOK ==
    /\ source \in {"ready", "trashed", "purged"}
    /\ session \in {"none", "initiated", "completed", "aborted", "expired"}
    /\ version \in {"none", "pending", "ready", "failed", "deleting", "deleted"}
    /\ {overdue, object, late, told} \subseteq BOOLEAN
    /\ deletion.status \in {"none", "queued", "processing", "removed",
                            "succeeded", "failed"}
    /\ deletion.attempts \in 0..MaxPurges
    /\ request \in [Request -> {"idle", "resolved", "reserved", "copying",
                                "copied", "stated", "failing"}]

(* A copy that is published has its bytes, though requests that gave the   *)
(* session up, the expiry loop and the purge worker all act on its key.    *)
PublishedCopyStored == version = "ready" => object

(* "Created", once answered to one request, is not taken back by what      *)
(* another request with the same key does afterwards.                      *)
AnsweredCopyStays == told => session = "completed" /\ version = "ready"

(* A reservation never stays open because its requests died: it completes, *)
(* or its version is cleaned up, or the clean-up is left as failed.        *)
CopyEnds ==
    session = "initiated" ~>
        (session = "completed" \/ version = "deleted" \/ deletion.status = "failed")

(* When a version is purged and nobody works on its key any more, no       *)
(* object is left there that nothing in the catalogue would ever remove.   *)
NoUntrackedOrphan ==
    version = "deleted" /\ ~late /\ (\A r \in Request : request[r] = "idle") => ~object

(* A retry does not give up the session another request has stored the     *)
(* bytes for and is about to complete.                                     *)
RetryIsSafe ==
    [][\A r \in Request :
         request[r] \in {"copied", "stated"} /\ request'[r] = request[r] /\ ~overdue
             => ~(session = "initiated" /\ session' = "aborted")]_vars
=============================================================================
