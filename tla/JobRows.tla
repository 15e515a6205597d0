-------------------------------- MODULE JobRows --------------------------------
(***************************************************************************)
(* The columns the scan, preview, deletion and notification tables share,  *)
(* and what their statements do to one row. A lease is a Boolean: whether  *)
(* lease_expires_at is still ahead; back-off (run_after) is left out, a    *)
(* queued job may be claimed at any time.                                  *)
(***************************************************************************)
EXTENDS Naturals

CONSTANT MaxAttempts

NoJob == [status |-> "none", attempts |-> 0, lease |-> FALSE]
QueuedJob == [status |-> "queued", attempts |-> 0, lease |-> FALSE]

JobRow(results) ==
    [status : {"none", "queued", "processing", "failed"} \cup results,
     attempts : 0..MaxAttempts, lease : BOOLEAN]

Lapsed(j) == j.status = "processing" /\ ~j.lease

\* Faulty: a lapsed job is always tried again.
RetryAlways(j) == [j EXCEPT !.status = "queued", !.lease = FALSE]

\* A failed or lapsed attempt: another one, or the job is given up.
GivenBack(j) ==
    [status |-> IF j.attempts >= MaxAttempts THEN "failed" ELSE "queued",
     attempts |-> j.attempts, lease |-> FALSE]
Recovered(j) == IF Lapsed(j) THEN GivenBack(j) ELSE j

Claimable(j) == j.status = "queued" /\ j.attempts < MaxAttempts

\* Faulty: a claim does not count as an attempt.
ClaimedUncounted(j) ==
    [status |-> "processing", attempts |-> j.attempts, lease |-> TRUE]

Claimed(j) ==
    [status |-> "processing", attempts |-> j.attempts + 1, lease |-> TRUE]

\* Faulty: any worker of the job may record its result.
HoldsAnyAttempt(j, attempt) == j.status # "none"

\* The fence on every result: this attempt, under a lease still valid.
Holds(j, attempt) == j.status = "processing" /\ j.attempts = attempt /\ j.lease

\* Faulty: the status another job table uses.
EndedElsewhere(j, result) == [j EXCEPT !.status = "completed", !.lease = FALSE]

Ended(j, result) == [status |-> result, attempts |-> j.attempts, lease |-> FALSE]
LeaseLost(j) == [status |-> j.status, attempts |-> j.attempts, lease |-> FALSE]
=============================================================================
