------------------------------ MODULE PreviewJobs ------------------------------
(***************************************************************************)
(* JPEG previews of HEIC versions: queued when one is asked for, rendered  *)
(* by workers under a lease that nothing renews, each attempt to an object *)
(* of its own, recorded only while the attempt holds its lease and the     *)
(* version is ready; and purged with the version.                          *)
(***************************************************************************)
EXTENDS Naturals

CONSTANTS
    Version,       \* versions with a HEIC name
    None,          \* no version
    Worker,        \* preview workers
    MaxAttempts    \* preview_job.max_attempts

AttemptsAssumption == MaxAttempts \in Nat \ {0}

Rows == INSTANCE JobRows

VARIABLES
    state,      \* file_version.state
    job,        \* rows of preview_job
    artifact,   \* the attempt whose object preview_artifact names, or 0
    stored,     \* attempts whose object exists
    worker,     \* what each worker is doing
    purge,      \* how far the purge worker is with each version
    listed      \* the artifact it found

vars == <<state, job, artifact, stored, worker, purge, listed>>

Off == [version |-> None, attempt |-> 0, phase |-> "idle"]

Init ==
    /\ state = [v \in Version |-> "ready"]
    /\ job = [v \in Version |-> Rows!NoJob]
    /\ artifact = [v \in Version |-> 0]
    /\ stored = [v \in Version |-> {}]
    /\ worker = [w \in Worker |-> Off]
    /\ purge = [v \in Version |-> "none"]
    /\ listed = [v \in Version |-> 0]

(* Asked for again, the row of the first request answers.                  *)
GetOrQueuePreview(v) ==
    /\ state[v] = "ready" /\ job[v] = Rows!NoJob
    /\ job' = [job EXCEPT ![v] = Rows!QueuedJob]
    /\ UNCHANGED <<state, artifact, stored, worker, purge, listed>>

\* Faulty: a job whose version is gone is left where it is.
LeftAlone(v) == Rows!Recovered(job[v])

(* Lapsed leases first, then the jobs whose version is no longer ready.    *)
Retired(v) ==
    LET r == Rows!Recovered(job[v])
    IN  IF state[v] # "ready" /\ r.status \in {"queued", "processing"}
        THEN Rows!Ended(r, "failed") ELSE r

ClaimPreviewJob(w) ==
    LET R == [v \in Version |-> Retired(v)]
        C == {v \in Version : Rows!Claimable(R[v]) /\ state[v] = "ready"}
    IN
    /\ worker[w] = Off
    /\ \/ C = {} /\ R # job /\ job' = R /\ UNCHANGED worker
       \/ \E v \in C :
            /\ job' = [R EXCEPT ![v] = Rows!Claimed(R[v])]
            /\ worker' = [worker EXCEPT ![w] =
                   [version |-> v, attempt |-> R[v].attempts + 1, phase |-> "reading"]]
    /\ UNCHANGED <<state, artifact, stored, purge, listed>>

At(w, phase) ==
    [version |-> worker[w].version, attempt |-> worker[w].attempt, phase |-> phase]
Goes(w, phase) == worker' = [worker EXCEPT ![w] = At(w, phase)]

(* Read, render and store; any of them may fail, and a failed or timed-out *)
(* write may have taken effect.                                            *)
StoreArtifact(w) ==
    /\ worker[w].phase = "reading"
    /\ \E p \in {"stored", "failing"} : Goes(w, p)
    /\ stored' = [stored EXCEPT ![worker[w].version] = @ \cup {worker[w].attempt}]
    /\ UNCHANGED <<state, job, artifact, purge, listed>>

RenderFails(w) ==
    /\ worker[w].phase \in {"reading", "stored"}
    /\ Goes(w, "failing")
    /\ UNCHANGED <<state, job, artifact, stored, purge, listed>>

\* Faulty: the version's state is not looked at again.
LeaseOnly(v, attempt) == Rows!Holds(job[v], attempt)

(* Read under the lifecycle lock of the item, as deletion claims are.      *)
MayRecord(v, attempt) == Rows!Holds(job[v], attempt) /\ state[v] = "ready"

CompletePreviewJob(w) ==
    LET v == worker[w].version IN
    /\ worker[w].phase = "stored"
    /\ IF MayRecord(v, worker[w].attempt)
       THEN /\ \E next \in {Off, At(w, "failing")} :
                   worker' = [worker EXCEPT ![w] = next]
            /\ artifact' = [artifact EXCEPT ![v] = worker[w].attempt]
            /\ job' = [job EXCEPT ![v] = Rows!Ended(@, "succeeded")]
       ELSE /\ Goes(w, "failing")
            /\ UNCHANGED <<artifact, job>>
    /\ UNCHANGED <<state, stored, purge, listed>>

FailPreviewJob(w) ==
    LET v == worker[w].version IN
    /\ worker[w].phase = "failing"
    /\ worker' = [worker EXCEPT ![w] = Off]
    /\ job' = IF Rows!Holds(job[v], worker[w].attempt)
              THEN [job EXCEPT ![v] = Rows!GivenBack(@)] ELSE job
    /\ UNCHANGED <<state, artifact, stored, purge, listed>>

LeaseLapses(v) ==
    /\ job[v].status = "processing" /\ job[v].lease
    /\ job' = [job EXCEPT ![v] = Rows!LeaseLost(@)]
    /\ UNCHANGED <<state, artifact, stored, worker, purge, listed>>

WorkerDies(w) ==
    /\ worker[w] # Off
    /\ worker' = [worker EXCEPT ![w] = Off]
    /\ UNCHANGED <<state, job, artifact, stored, purge, listed>>

(* Trash ran out, or the version was dropped: the deletion is claimed.     *)
ClaimBlobDeletionJob(v) ==
    /\ state[v] \in {"ready", "deleting"} /\ purge[v] = "none"
    /\ state' = [state EXCEPT ![v] = "deleting"]
    /\ purge' = [purge EXCEPT ![v] = "claimed"]
    /\ UNCHANGED <<job, artifact, stored, worker, listed>>

PreviewArtifactsForVersion(v) ==
    /\ purge[v] = "claimed"
    /\ purge' = [purge EXCEPT ![v] = "listed"]
    /\ listed' = [listed EXCEPT ![v] = artifact[v]]
    /\ UNCHANGED <<state, job, artifact, stored, worker>>
DeleteArtifact(v) ==
    /\ purge[v] = "listed"
    /\ purge' = [purge EXCEPT ![v] = "deleted"]
    /\ stored' = [stored EXCEPT ![v] = @ \ {listed[v]}]
    /\ UNCHANGED <<state, job, artifact, worker, listed>>

CompleteBlobDeletionJob(v) ==
    /\ purge[v] = "deleted"
    /\ state' = [state EXCEPT ![v] = "deleted"]
    /\ purge' = [purge EXCEPT ![v] = "done"]
    /\ artifact' = [artifact EXCEPT ![v] = 0]
    /\ UNCHANGED <<job, stored, worker, listed>>

(* The purge fails, or its worker dies; the deletion is claimed again.     *)
PurgeFails(v) ==
    /\ purge[v] \in {"claimed", "listed", "deleted"}
    /\ purge' = [purge EXCEPT ![v] = "none"]
    /\ UNCHANGED <<state, job, artifact, stored, worker, listed>>

Work(w) ==
    \/ ClaimPreviewJob(w) \/ StoreArtifact(w)
    \/ CompletePreviewJob(w) \/ FailPreviewJob(w)

Next ==
    \/ \E v \in Version :
        \/ GetOrQueuePreview(v) \/ LeaseLapses(v)
        \/ ClaimBlobDeletionJob(v) \/ PreviewArtifactsForVersion(v)
        \/ DeleteArtifact(v) \/ CompleteBlobDeletionJob(v) \/ PurgeFails(v)
    \/ \E w \in Worker :
        \/ ClaimPreviewJob(w) \/ StoreArtifact(w) \/ RenderFails(w)
        \/ CompletePreviewJob(w) \/ FailPreviewJob(w) \/ WorkerDies(w)

Spec == Init /\ [][Next]_vars

Unattended(v) ==
    ~\E w \in Worker : worker[w].version = v /\ worker[w].attempt = job[v].attempts

(* Workers keep polling, and a lease nobody can renew runs out.            *)
Fairness ==
    /\ \A w \in Worker : WF_vars(Work(w))
    /\ \A v \in Version : WF_vars(Unattended(v) /\ LeaseLapses(v))

FairSpec == Spec /\ Fairness
-----------------------------------------------------------------------------
TypeOK ==
    /\ state \in [Version -> {"ready", "deleting", "deleted"}]
    /\ job \in [Version -> Rows!JobRow({"succeeded"})]
    /\ artifact \in [Version -> 0..MaxAttempts]
    /\ stored \in [Version -> SUBSET (1..MaxAttempts)]
    /\ \A w \in Worker : worker[w].phase \in {"idle", "reading", "stored", "failing"}
    /\ purge \in [Version -> {"none", "claimed", "listed", "deleted", "done"}]
    /\ listed \in [Version -> 0..MaxAttempts]

(* The preview a client is sent to exists: as long as the version is ready *)
(* the recorded attempt's object is stored, and it is recorded exactly     *)
(* when the job says so, whatever other attempts store or are fenced.      *)
ReadyPreviewStored ==
    \A v \in Version : state[v] = "ready" =>
        /\ artifact[v] # 0 => artifact[v] \in stored[v]
        /\ artifact[v] # 0 <=> job[v].status = "succeeded"

(* No preview outlives its version: no row is written behind the back of   *)
(* the purge worker, which lists the rows once and deletes those objects.  *)
PurgedPreviewGone ==
    \A v \in Version :
        /\ state[v] = "deleted" => artifact[v] = 0 /\ listed[v] \notin stored[v]
        /\ purge[v] \in {"listed", "deleted", "done"} /\ artifact[v] # 0 =>
               artifact[v] = listed[v]

PreviewStatus(s) == IF s = "succeeded" THEN "done" ELSE s

(* Preview jobs are leased jobs: every one queued ends, also when its      *)
(* version is purged under it and no worker could ever claim it again.     *)
Jobs == INSTANCE JobLease WITH
    Job <- Version,
    status <- [v \in Version |-> PreviewStatus(job[v].status)],
    attempts <- [v \in Version |-> job[v].attempts]
PreviewsAreLeasedJobs == Jobs!Spec
=============================================================================
