------------------------------- MODULE JobLease -------------------------------
(***************************************************************************)
(* What the job tables promise, whatever the work is: a job is queued,     *)
(* attempted at most MaxAttempts times, and ends once, with a result or    *)
(* given up. Leases, workers, crashes and late results are left to the     *)
(* modules that implement it; one transaction may move several jobs.       *)
(***************************************************************************)
EXTENDS Naturals

CONSTANTS Job, MaxAttempts

VARIABLES
    status,    \* "none", "queued", "processing", "done" or "failed"
    attempts   \* how often each job was claimed

vars == <<status, attempts>>

Init ==
    /\ status = [j \in Job |-> "none"]
    /\ attempts = [j \in Job |-> 0]

Moves(j, from, to, n) ==
    /\ status[j] \in from /\ status'[j] = to
    /\ attempts'[j] = attempts[j] + n

Queue(j) == Moves(j, {"none"}, "queued", 0)
\* A lapsed attempt may be followed by the next one in one transaction.
Attempt(j) ==
    attempts[j] < MaxAttempts /\ Moves(j, {"queued", "processing"}, "processing", 1)
Retry(j) == attempts[j] < MaxAttempts /\ Moves(j, {"processing"}, "queued", 0)
Succeed(j) == Moves(j, {"processing"}, "done", 0)
GiveUp(j) == Moves(j, {"queued", "processing"}, "failed", 0)
Rest(j) == status'[j] = status[j] /\ attempts'[j] = attempts[j]

Next == \A j \in Job :
    Queue(j) \/ Attempt(j) \/ Retry(j) \/ Succeed(j) \/ GiveUp(j) \/ Rest(j)

SafeSpec == Init /\ [][Next]_vars

Over(j) == status[j] \in {"done", "failed"}
Spec == SafeSpec /\ \A j \in Job : status[j] = "queued" ~> Over(j)
=============================================================================
