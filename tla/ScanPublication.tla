---------------------------- MODULE ScanPublication ----------------------------
(***************************************************************************)
(* The versions of one file from quarantine to publication. Completed      *)
(* uploads wait for the malware scan; scanners claim jobs under a lease,   *)
(* read the object, and publish it or condemn it; condemned versions are   *)
(* deleted. Meanwhile users make older versions current again.             *)
(*                                                                         *)
(* A version is its version_number. Infected is what the bytes are, the    *)
(* scanner itself is taken to be right about what it reads.                *)
(***************************************************************************)
EXTENDS Naturals, FiniteSets

CONSTANTS
    Versions,      \* how many versions the file gets
    Infected,      \* the version numbers whose bytes carry malware
    Scanner,       \* malware workers
    MaxAttempts    \* malware_scan_job.max_attempts

Version == 1..Versions
Rows == INSTANCE JobRows

VersionsAssumption == Versions \in Nat /\ Infected \subseteq Version
AttemptsAssumption == MaxAttempts \in Nat \ {0}

VARIABLES
    state,      \* file_version.state
    current,    \* the version with is_current, or 0
    scan,       \* rows of malware_scan_job
    deletion,   \* blob_deletion_job.status, as far as condemned versions need it
    stored,     \* the object exists
    worker,     \* what each scanner is doing
    pinned      \* history: a user has chosen the current version

vars == <<state, current, scan, deletion, stored, worker, pinned>>

Off == [version |-> 0, attempt |-> 0, phase |-> "idle", clean |-> FALSE]

Init ==
    /\ state = [v \in Version |-> "pending"]
    /\ current = 0
    /\ scan = [v \in Version |-> Rows!NoJob]
    /\ deletion = [v \in Version |-> "none"]
    /\ stored = [v \in Version |-> FALSE]
    /\ worker = [w \in Scanner |-> Off]
    /\ pinned = FALSE

(* The upload worker publishes into quarantine, in any order of revisions. *)
CompleteUpload(v) ==
    /\ state[v] = "pending"
    /\ state' = [state EXCEPT ![v] = "quarantined"]
    /\ stored' = [stored EXCEPT ![v] = TRUE]
    /\ scan' = [scan EXCEPT ![v] = Rows!QueuedJob]
    /\ UNCHANGED <<current, deletion, worker, pinned>>

QueueDeletions(V) ==
    deletion' = [v \in Version |->
        IF v \in V /\ deletion[v] = "none" THEN "queued" ELSE deletion[v]]

\* Faulty: lapsed jobs are given up without queueing a deletion.
RecoverOnly(R) == UNCHANGED deletion

\* The scans given up while leases are recovered get a deletion job.
CondemnLapsed(R) ==
    QueueDeletions({v \in Version : scan[v] # R[v] /\ R[v].status = "failed"})

(* Recovery and claim are one transaction; it may find nothing to claim. *)
ClaimMalwareScanJob(w) ==
    LET R == [v \in Version |-> Rows!Recovered(scan[v])]
        C == {v \in Version : Rows!Claimable(R[v]) /\ state[v] = "quarantined"}
    IN
    /\ worker[w] = Off
    /\ CondemnLapsed(R)
    /\ \/ C = {} /\ R # scan /\ scan' = R /\ UNCHANGED worker
       \/ \E v \in C :
            /\ scan' = [R EXCEPT ![v] = Rows!Claimed(R[v])]
            /\ worker' = [worker EXCEPT ![w] =
                   [version |-> v, attempt |-> R[v].attempts + 1,
                    phase |-> "scanning", clean |-> FALSE]]
    /\ UNCHANGED <<state, current, stored, pinned>>

Goes(w, phase, clean) ==
    worker' = [worker EXCEPT ![w] = [version |-> worker[w].version, phase |-> phase,
                                     attempt |-> worker[w].attempt, clean |-> clean]]

(* The scanner reads the object through; a missing object is an error. *)
Scan(w) ==
    /\ worker[w].phase = "scanning"
    /\ Goes(w, IF stored[worker[w].version] THEN "scanned" ELSE "failing",
               worker[w].version \notin Infected)
    /\ UNCHANGED <<state, current, scan, deletion, stored, pinned>>

ScanFails(w) ==
    /\ worker[w].phase \in {"scanning", "scanned"}
    /\ Goes(w, "failing", worker[w].clean)
    /\ UNCHANGED <<state, current, scan, deletion, stored, pinned>>

\* Faulty: versions still in quarantine hold back a clean older one.
NothingNewer(v) == ~\E u \in Version : u > v /\ state[u] # "pending"

MakesCurrent(v) == ~\E u \in Version : u > v /\ state[u] = "ready"

(* Only under a valid lease, and only out of quarantine. The commit may    *)
(* succeed without the worker hearing of it.                               *)
CompleteMalwareScanJob(w) ==
    LET v == worker[w].version IN
    /\ worker[w].phase = "scanned"
    /\ IF Rows!Holds(scan[v], worker[w].attempt) /\ state[v] = "quarantined"
       THEN /\ \/ worker' = [worker EXCEPT ![w] = Off]
               \/ Goes(w, "failing", worker[w].clean)
            /\ IF worker[w].clean
               THEN /\ state' = [state EXCEPT ![v] = "ready"]
                    /\ current' = IF MakesCurrent(v) THEN v ELSE current
                    /\ scan' = [scan EXCEPT ![v] = Rows!Ended(@, "clean")]
                    /\ UNCHANGED deletion
               ELSE /\ scan' = [scan EXCEPT ![v] = Rows!Ended(@, "infected")]
                    /\ QueueDeletions({v})
                    /\ UNCHANGED <<state, current>>
       ELSE /\ Goes(w, "failing", worker[w].clean)
            /\ UNCHANGED <<state, current, scan, deletion>>
    /\ UNCHANGED <<stored, pinned>>

FailMalwareScanJob(w) ==
    LET v == worker[w].version
        failed == Rows!GivenBack(scan[v])
    IN
    /\ worker[w].phase = "failing"
    /\ worker' = [worker EXCEPT ![w] = Off]
    /\ IF Rows!Holds(scan[v], worker[w].attempt)
       THEN /\ scan' = [scan EXCEPT ![v] = failed]
            /\ QueueDeletions(IF failed.status = "failed" THEN {v} ELSE {})
       ELSE UNCHANGED <<scan, deletion>>
    /\ UNCHANGED <<state, current, stored, pinned>>

(* The heartbeat was missed: the scanner died, stalled, or lost the        *)
(* database.                                                               *)
LeaseLapses(v) ==
    /\ scan[v].status = "processing" /\ scan[v].lease
    /\ scan' = [scan EXCEPT ![v] = Rows!LeaseLost(@)]
    /\ UNCHANGED <<state, current, deletion, stored, worker, pinned>>

ScannerDies(w) ==
    /\ worker[w] # Off
    /\ worker' = [worker EXCEPT ![w] = Off]
    /\ UNCHANGED <<state, current, scan, deletion, stored, pinned>>

(* A user makes a ready version current. *)
RestoreFileVersion(v) ==
    /\ state[v] = "ready" /\ current # v
    /\ current' = v
    /\ pinned' = TRUE
    /\ UNCHANGED <<state, scan, deletion, stored, worker>>

Condemned(v) == state[v] = "quarantined" /\ scan[v].status \in {"infected", "failed"}

(* The purge worker looks again before it crosses the deletion boundary.   *)
ClaimBlobDeletionJob(v) ==
    /\ deletion[v] = "queued"
    /\ IF Condemned(v)
       THEN /\ state' = [state EXCEPT ![v] = "deleting"]
            /\ deletion' = [deletion EXCEPT ![v] = "processing"]
       ELSE /\ deletion' = [deletion EXCEPT ![v] = "none"]
            /\ UNCHANGED state
    /\ UNCHANGED <<current, scan, stored, worker, pinned>>

PurgeBlob(v) ==
    /\ state[v] = "deleting"
    /\ stored' = [stored EXCEPT ![v] = FALSE]
    /\ state' = [state EXCEPT ![v] = "deleted"]
    /\ deletion' = [deletion EXCEPT ![v] = "succeeded"]
    /\ UNCHANGED <<current, scan, worker, pinned>>

Work(w) ==
    \/ ClaimMalwareScanJob(w) \/ Scan(w)
    \/ CompleteMalwareScanJob(w) \/ FailMalwareScanJob(w)

Next ==
    \/ \E v \in Version :
        \/ CompleteUpload(v) \/ RestoreFileVersion(v) \/ LeaseLapses(v)
        \/ ClaimBlobDeletionJob(v) \/ PurgeBlob(v)
    \/ \E w \in Scanner :
        \/ ClaimMalwareScanJob(w) \/ Scan(w) \/ ScanFails(w)
        \/ CompleteMalwareScanJob(w) \/ FailMalwareScanJob(w) \/ ScannerDies(w)

Spec == Init /\ [][Next]_vars

\* Workers keep polling, and the clock runs out on a lease nobody renews.
Unattended(v) ==
    ~\E w \in Scanner : worker[w].version = v /\ worker[w].attempt = scan[v].attempts
Fairness ==
    /\ \A w \in Scanner : WF_vars(Work(w))
    /\ \A v \in Version :
        /\ WF_vars(Unattended(v) /\ LeaseLapses(v))
        /\ WF_vars(ClaimBlobDeletionJob(v) \/ PurgeBlob(v))

FairSpec == Spec /\ Fairness

-----------------------------------------------------------------------------
TypeOK ==
    /\ state \in [Version -> {"pending", "quarantined", "ready", "deleting", "deleted"}]
    /\ current \in Version \cup {0}
    /\ scan \in [Version -> Rows!JobRow({"clean", "infected"})]
    /\ deletion \in [Version -> {"none", "queued", "processing", "succeeded"}]
    /\ stored \in [Version -> BOOLEAN]
    /\ \A w \in Scanner : worker[w].phase \in {"idle", "scanning", "scanned", "failing"}

\* A version whose scan was given up or found malware is never published,
\* not even by a clean verdict that arrives after the last lease ran out;
\* what is published is stored and was found clean.
OnlyCleanPublished ==
    \A v \in Version : state[v] = "ready" =>
        stored[v] /\ scan[v].status = "clean" /\ deletion[v] = "none" /\ v \notin Infected

\* Whatever order the scans end in, the file shows the newest clean version,
\* until a user chooses another one.
NewestCleanShown ==
    ~pinned =>
        LET ready == {v \in Version : state[v] = "ready"} IN
        IF ready = {} THEN current = 0
        ELSE current \in ready /\ \A v \in ready : v <= current

\* Every upload in quarantine is published or deleted in the end, through
\* lapsed leases, dead scanners and exhausted attempts.
QuarantineEnds ==
    \A v \in Version : state[v] = "quarantined" ~> state[v] \in {"ready", "deleted"}

\* The scan jobs are leased jobs.
ScanStatus(s) == IF s \in {"clean", "infected"} THEN "done" ELSE s
Jobs == INSTANCE JobLease WITH
    Job <- Version,
    status <- [v \in Version |-> ScanStatus(scan[v].status)],
    attempts <- [v \in Version |-> scan[v].attempts]
ScansAreLeasedJobs == Jobs!Spec
=============================================================================
