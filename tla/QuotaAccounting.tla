---------------------------- MODULE QuotaAccounting ----------------------------
(***************************************************************************)
(* What one account is charged for. Usage is no counter: every reservation *)
(* and completion sums the account's versions and sessions again, under    *)
(* the lock of the account's row. Cancelling, expiring, failing, scanning  *)
(* and purging take no such lock.                                          *)
(***************************************************************************)
EXTENDS Integers, FiniteSets

CONSTANTS
    Version,     \* file versions, each with its upload session
    Client,      \* servers reserving an upload
    Size,        \* sizes asked for, in bytes
    Received,    \* sizes that may arrive instead
    Quota,       \* user_account.storage_quota_bytes
    Nobody       \* the account row is not locked, no version

QuotaAssumption ==
    /\ Quota \in Nat /\ Size \subseteq Nat /\ Received \subseteq Nat
    /\ Nobody \notin Version \cup Client

VARIABLES
    state,      \* file_version.state, "none" before the row exists
    session,    \* upload_session.status
    expected,   \* expected_size_bytes
    received,   \* bytes_received
    size,       \* size_bytes, 0 for NULL
    account,    \* who holds the account row FOR UPDATE
    call        \* what each reservation has read

vars == <<state, session, expected, received, size, account, call>>
rows == <<state, session, expected, received, size>>

Off == [version |-> Nobody, bytes |-> 0, used |-> -1]

Init ==
    /\ state = [v \in Version |-> "none"]
    /\ session = [v \in Version |-> "none"]
    /\ expected = [v \in Version |-> 0]
    /\ received = [v \in Version |-> 0]
    /\ size = [v \in Version |-> 0]
    /\ account = Nobody
    /\ call = [c \in Client |-> Off]

Greatest(a, b) == IF a > b THEN a ELSE b

\* Faulty: only what is known to be stored is charged once a session is over.
KnownBytes(v) ==
    IF session[v] \in {"initiated", "completing"} THEN expected[v] ELSE size[v]

ChargedVersionBytes(v) == Greatest(size[v], Greatest(received[v], expected[v]))

ActiveReservation(v) == session[v] \in {"initiated", "completing"}

\* f[v] bytes of every version of V, one by one: their number is the sum.
Bytes(V, f) == UNION {{v} \X (1..f[v]) : v \in V}

Charge == [v \in Version |-> ChargedVersionBytes(v)]
Charged == {v \in Version : state[v] \notin {"none", "deleted"}}
Committed == Cardinality(Bytes({v \in Charged : ~ActiveReservation(v)}, Charge))
Reserved == Cardinality(Bytes({v \in Charged : ActiveReservation(v)}, Charge))

\* Faulty: the account's row is read without FOR UPDATE.
AnyoneLocks(c) == TRUE

AccountFree(c) == account = Nobody

LockAccount(c) ==
    /\ call[c] = Off /\ AccountFree(c)
    /\ \E v \in Version, n \in Size :
        /\ state[v] = "none" /\ \A d \in Client : call[d].version # v
        /\ call' = [call EXCEPT ![c] = [version |-> v, bytes |-> n, used |-> -1]]
    /\ account' = c
    /\ UNCHANGED rows

AccountStorageUsage(c) ==
    /\ call[c] # Off /\ call[c].used = -1
    /\ call' = [call EXCEPT ![c] = [version |-> call[c].version, bytes |-> call[c].bytes,
                                     used |-> Committed + Reserved]]
    /\ UNCHANGED <<rows, account>>

\* Faulty: an upload may start while there is any room.
AnyRoom(c) == Quota > call[c].used

FitsQuota(c) == call[c].bytes <= Quota - call[c].used

Leave(c) == call' = [call EXCEPT ![c] = Off] /\ account' = Nobody

ReserveUpload(c) ==
    LET v == call[c].version IN
    /\ call[c] # Off /\ call[c].used # -1
    /\ Leave(c)
    /\ IF FitsQuota(c)
       THEN /\ state' = [state EXCEPT ![v] = "pending"]
            /\ session' = [session EXCEPT ![v] = "initiated"]
            /\ expected' = [expected EXCEPT ![v] = call[c].bytes]
            /\ UNCHANGED <<received, size>>
       ELSE UNCHANGED rows

(* The connection is lost: the transaction is rolled back.                 *)
RollBack(c) == call[c] # Off /\ Leave(c) /\ UNCHANGED rows

QueueUploadCompletion(v) ==
    /\ session[v] = "initiated"
    /\ session' = [session EXCEPT ![v] = "completing"]
    /\ UNCHANGED <<state, expected, received, size, account, call>>

(* One transaction, with the account row locked throughout; for a copy     *)
(* made inside the store, straight from the reservation.                   *)
CompleteUpload(v) ==
    /\ ActiveReservation(v) /\ account = Nobody
    /\ Reserved <= Quota - Committed
    /\ \E n \in Received \cup {expected[v]} :
        /\ received' = [received EXCEPT ![v] = n]
        /\ IF n # expected[v]
           THEN /\ session' = [session EXCEPT ![v] = "failed"]
                /\ state' = [state EXCEPT ![v] = "failed"]
                /\ UNCHANGED size
           ELSE /\ session' = [session EXCEPT ![v] = "completed"]
                /\ size' = [size EXCEPT ![v] = n]
                /\ \E s \in {"ready", "quarantined"} : state' = [state EXCEPT ![v] = s]
    /\ UNCHANGED <<expected, account, call>>

\* Faulty: the version is left waiting.
EndSessionOnly(v) ==
    /\ ActiveReservation(v)
    /\ session' = [session EXCEPT ![v] = "failed"]
    /\ UNCHANGED <<state, expected, received, size, account, call>>

(* Cancelled by its user, expired, or given up by the completion worker.   *)
EndUpload(v) ==
    /\ ActiveReservation(v)
    /\ \E s \in IF session[v] = "initiated" THEN {"aborted", "expired"} ELSE {"failed"} :
           session' = [session EXCEPT ![v] = s]
    /\ state' = [state EXCEPT ![v] = "failed"]
    /\ UNCHANGED <<expected, received, size, account, call>>

CompleteMalwareScanJob(v) ==
    /\ state[v] = "quarantined"
    /\ state' = [state EXCEPT ![v] = "ready"]
    /\ UNCHANGED <<session, expected, received, size, account, call>>

(* Whatever was condemned, dropped, failed or ran out of its time in the   *)
(* trash; nothing leaves "deleting" but to be deleted.                     *)
ClaimBlobDeletionJob(v) ==
    /\ state[v] \in {"failed", "quarantined", "ready"}
    /\ state' = [state EXCEPT ![v] = "deleting"]
    /\ UNCHANGED <<session, expected, received, size, account, call>>

CompleteBlobDeletionJob(v) ==
    /\ state[v] = "deleting"
    /\ state' = [state EXCEPT ![v] = "deleted"]
    /\ UNCHANGED <<session, expected, received, size, account, call>>

Next ==
    \/ \E c \in Client :
        LockAccount(c) \/ AccountStorageUsage(c) \/ ReserveUpload(c) \/ RollBack(c)
    \/ \E v \in Version :
        \/ QueueUploadCompletion(v) \/ CompleteUpload(v) \/ EndUpload(v)
        \/ CompleteMalwareScanJob(v)
        \/ ClaimBlobDeletionJob(v) \/ CompleteBlobDeletionJob(v)

Spec == Init /\ [][Next]_vars
-----------------------------------------------------------------------------
(* The tables hold what they may, and a version's size is the one reserved *)
(* for it.                                                                 *)
TypeOK ==
    /\ state \in [Version -> {"none", "pending", "quarantined", "ready",
                              "failed", "deleting", "deleted"}]
    /\ session \in [Version -> {"none", "initiated", "completing", "completed",
                                "failed", "aborted", "expired"}]
    /\ expected \in [Version -> Size \cup {0}]
    /\ received \in [Version -> Received \cup Size \cup {0}]
    /\ \A v \in Version : size[v] \in {0, expected[v]}
    /\ account \in Client \cup {Nobody}
    /\ \A v \in Version : ActiveReservation(v) <=> state[v] = "pending"

(* What was promised room never adds up to more than the quota, however    *)
(* reservations, completions, cancellations and deletions overlap. An      *)
(* upload larger than announced is charged on top, it is never published.  *)
AdmittedWithinQuota == Cardinality(Bytes(Charged, expected)) <= Quota

(* The charge of a version lasts until its blob is gone: cancelling,       *)
(* expiring, failing or condemning an upload frees no room that its bytes  *)
(* may still take, and no step gives a version back what it was charged.   *)
ChargeEndsWithDeletion ==
    [][Committed' + Reserved' < Committed + Reserved =>
          \E v \in Version : state[v] = "deleting" /\ state'[v] = "deleted"]_vars
=============================================================================
