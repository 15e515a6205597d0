-------------------------- MODULE MultipartHandshake --------------------------
(***************************************************************************)
(* How the session of a large file comes by its multipart upload: requests *)
(* that find none attached open one each and race to attach it; the first  *)
(* wins, the others adopt its id and give up their own. Requests list the  *)
(* parts stored under the attached id and record them, while parts go up,  *)
(* the upload is cancelled, and servers die. The purge of a cancelled      *)
(* upload is left out: it aborts under another key (see UploadLifecycle).  *)
(***************************************************************************)
EXTENDS Naturals

CONSTANTS
    Request,       \* reservations repeated and reservations resumed
    Cancel,        \* requests to cancel the upload
    Part,          \* part numbers
    MaxOpened      \* bound on the multipart uploads ever opened

OpenedAssumption == MaxOpened \in Nat \ {0}

None == 0
UploadId == 1..MaxOpened

VARIABLES
    status,        \* upload_session.status
    overdue,       \* its deadline has passed
    attached,      \* upload_session.minio_upload_id
    recorded,      \* part numbers in upload_part
    open,          \* multipart uploads open at the staging key
    parts,         \* parts stored under each
    opened,        \* how many were ever opened
    request,       \* what each request is doing, and with which ids
    cancel,        \* the same of requests to cancel
    lost           \* history: ids lost to deaths, failed aborts, lost answers

vars == <<status, overdue, attached, recorded, open, parts, opened, request,
          cancel, lost>>
row == <<status, overdue, attached, recorded>>
store == <<open, parts, opened>>

Resting == [phase |-> "idle", id |-> None, own |-> None, seen |-> {}]
NoCancel == [phase |-> "idle", id |-> None]

Init ==
    /\ status = "initiated" /\ overdue = FALSE
    /\ attached = None /\ recorded = {}
    /\ open = {} /\ parts = [i \in UploadId |-> {}] /\ opened = 0
    /\ request = [r \in Request |-> Resting]
    /\ cancel = [c \in Cancel |-> NoCancel]
    /\ lost = {}

Transferring == status \in {"initiated", "uploading"}
Attachable == Transferring /\ ~overdue

Goes(r, phase, id, own, seen) ==
    request' = [request EXCEPT ![r] = [phase |-> phase, id |-> id, own |-> own, seen |-> seen]]

LoadUpload(r) ==
    /\ request[r] = Resting /\ Transferring
    /\ Goes(r, IF attached = None THEN "opening" ELSE "listing", attached, None, {})
    /\ UNCHANGED <<row, store, cancel, lost>>

NewMultipartUpload(r) ==
    /\ request[r].phase = "opening" /\ opened < MaxOpened
    /\ opened' = opened + 1 /\ open' = open \cup {opened'}
    /\ Goes(r, "attaching", None, opened', {})
    /\ UNCHANGED <<row, parts, cancel, lost>>

\* Faulty: the status changes, the id does not.
NeverAttached(own) == attached

(* COALESCE(minio_upload_id, $4)                                           *)
FirstAttached(own) == IF attached = None THEN own ELSE attached

(* When the answer is lost the handler takes it for a refusal.             *)
AttachMultipartUpload(r) ==
    LET own == request[r].own IN
    /\ request[r].phase = "attaching"
    /\ IF Attachable
       THEN /\ attached' = FirstAttached(own) /\ status' = "uploading"
            /\ \/ /\ Goes(r, IF attached' # own THEN "yielding" ELSE "listing", attached', own, {})
                  /\ UNCHANGED lost
               \/ /\ Goes(r, "refused", None, own, {})
                  /\ lost' = lost \cup ({own} \cap {attached'})
       ELSE /\ Goes(r, "refused", None, own, {})
            /\ UNCHANGED <<attached, status, lost>>
    /\ UNCHANGED <<overdue, recorded, store, cancel>>

\* Faulty: the one that was adopted is given up.
Adopted(r) ==
    {IF request[r].phase = "yielding" THEN request[r].id ELSE request[r].own}

\* Faulty: nothing is given up by a request that goes on.
NothingIfAdopting(r) == IF request[r].phase = "yielding" THEN {} ELSE {request[r].own}

GivenUp(r) == {request[r].own}

(* The error of an abort is ignored.                                       *)
AbortOwn(r) ==
    /\ request[r].phase \in {"yielding", "refused"}
    /\ \/ open' = open \ GivenUp(r) /\ UNCHANGED lost
       \/ lost' = lost \cup GivenUp(r) /\ UNCHANGED open
    /\ IF request[r].phase = "yielding" THEN Goes(r, "listing", request[r].id, None, {})
       ELSE request' = [request EXCEPT ![r] = Resting]
    /\ UNCHANGED <<row, parts, opened, cancel>>

ListMultipartParts(r) ==
    /\ request[r].phase = "listing"
    /\ IF request[r].id \in open THEN Goes(r, "listed", None, None, parts[request[r].id])
       ELSE request' = [request EXCEPT ![r] = Resting]
    /\ UNCHANGED <<row, store, cancel, lost>>

\* Faulty: every part that may be signed is recorded.
Planned(r) == Part

Listed(r) == request[r].seen

(* The rows are replaced by the list, whatever became of the session.      *)
ReplaceUploadParts(r) ==
    /\ request[r].phase = "listed"
    /\ recorded' = Listed(r)
    /\ request' = [request EXCEPT ![r] = Resting]
    /\ UNCHANGED <<status, overdue, attached, store, cancel, lost>>

(* The server dies, or the store or the database fails it.                 *)
RequestDies(r) ==
    /\ request[r] # Resting
    /\ request' = [request EXCEPT ![r] = Resting]
    /\ lost' = lost \cup ({request[r].own} \ {None, attached})
    /\ UNCHANGED <<row, store, cancel>>

(* Through a presigned URL of the attached upload.                         *)
PutPart(p) ==
    /\ attached \in open
    /\ parts' = [parts EXCEPT ![attached] = @ \cup {p}]
    /\ UNCHANGED <<row, open, opened, request, cancel, lost>>

DeadlinePasses ==
    /\ ~overdue /\ Transferring /\ overdue' = TRUE
    /\ UNCHANGED <<status, attached, recorded, store, request, cancel, lost>>

(* The expiry loop touches the rows only.                                  *)
MarkUploadExpired ==
    /\ overdue /\ Transferring /\ status' = "expired"
    /\ UNCHANGED <<overdue, attached, recorded, store, request, cancel, lost>>

(* From here the completion job owns the upload.                           *)
QueueUploadCompletion ==
    /\ Attachable /\ attached # None /\ status' = "completing"
    /\ UNCHANGED <<overdue, attached, recorded, store, request, cancel, lost>>

AbortUploadReservation(c) ==
    /\ cancel[c] = NoCancel /\ status \in {"initiated", "uploading", "completing"}
    /\ cancel' = [cancel EXCEPT ![c] =
          [id |-> attached, phase |-> IF attached = None THEN "row" ELSE "parts"]]
    /\ UNCHANGED <<row, store, request, lost>>

AbortAttached(c) ==
    /\ cancel[c].phase = "parts"
    /\ open' = open \ {cancel[c].id}
    /\ cancel' = [cancel EXCEPT ![c] = [id |-> cancel[c].id, phase |-> "row"]]
    /\ UNCHANGED <<row, parts, opened, request, lost>>

AbortUpload(c) ==
    /\ cancel[c].phase = "row"
    /\ status' = IF Transferring \/ status = "completing" THEN "aborted" ELSE status
    /\ cancel' = [cancel EXCEPT ![c] = NoCancel]
    /\ UNCHANGED <<overdue, attached, recorded, store, request, lost>>

(* The store fails, or the server dies.                                    *)
CancelDies(c) ==
    /\ cancel[c] # NoCancel
    /\ cancel' = [cancel EXCEPT ![c] = NoCancel]
    /\ lost' = lost \cup ({cancel[c].id} \ {None})
    /\ UNCHANGED <<row, store, request>>

Next ==
    \/ \E r \in Request :
        \/ LoadUpload(r) \/ NewMultipartUpload(r) \/ AttachMultipartUpload(r)
        \/ AbortOwn(r) \/ ListMultipartParts(r) \/ ReplaceUploadParts(r)
        \/ RequestDies(r)
    \/ \E c \in Cancel : \/ AbortUploadReservation(c) \/ AbortAttached(c)
                         \/ AbortUpload(c) \/ CancelDies(c)
    \/ \E p \in Part : PutPart(p)
    \/ DeadlinePasses \/ MarkUploadExpired \/ QueueUploadCompletion

Spec == Init /\ [][Next]_vars
-----------------------------------------------------------------------------
TypeOK ==
    /\ status \in {"initiated", "uploading", "completing", "aborted", "expired"}
    /\ overdue \in BOOLEAN /\ attached \in UploadId \cup {None}
    /\ status = "initiated" => attached = None
    /\ status = "uploading" => attached # None
    /\ recorded \subseteq Part /\ open \subseteq UploadId /\ lost \subseteq UploadId
    /\ parts \in [UploadId -> SUBSET Part] /\ opened \in 0..MaxOpened
    /\ \A r \in Request : request[r].phase \in {"idle", "opening", "attaching",
                              "yielding", "refused", "listing", "listed"}
    /\ \A c \in Cancel : cancel[c].phase \in {"idle", "parts", "row"}

(* A multipart upload is open because it is the session's, or because a    *)
(* request still has it in hand; else a death or a failed abort lost it.   *)
OthersAreGivenUp ==
    open \subseteq {attached} \cup {request[r].own : r \in Request} \cup lost

(* Whichever request wins, the session's own upload is not closed by one   *)
(* that lost, as long as nobody cancels it.                                *)
AttachedStaysOpen ==
    attached # None /\ Transferring /\ (\A c \in Cancel : cancel[c] = NoCancel)
        => attached \in open \cup lost

(* A part the catalogue records, and a resumed upload would skip, is       *)
(* stored under the upload that will be completed.                         *)
RecordedPartsStored == attached \in open => recorded \subseteq parts[attached]

(* When a cancellation has gone through and nothing was lost on the way,   *)
(* the session's multipart upload is closed.                               *)
CancelledUploadClosed ==
    status = "aborted" /\ (\A c \in Cancel : cancel[c] = NoCancel) =>
        attached \notin open \ lost
=============================================================================
