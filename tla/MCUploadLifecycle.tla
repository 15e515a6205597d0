-------------------------- MODULE MCUploadLifecycle --------------------------
(* Instances of UploadLifecycle for TLC. *)
EXTENDS UploadLifecycle, TLC

\* All sessions upload versions of one item.
OneItem == {"file"}
SameItem == [s \in Session |-> "file"]

\* Completion workers are alike, and so are the purge workers.
Processes == Permutations(Worker) \cup Permutations(Purger)

\* A bound: either nobody uploads in parts, and all the workers may be busy, or
\* sessions of both kinds take turns with one worker, in first attempts that do
\* not outlast their worker's patience with the store, and nothing is purged.
OneAtATime ==
    /\ \A v, w \in Worker : v # w => IdleWorker \in {worker[v], worker[w]}
    /\ \A s \in Session : jobAttempts[s] <= 1 /\ deletionAttempts[s] = 0
    /\ lateCopies = {}
Focus == (\A s \in MultipartSession : sessionStatus[s] = "none") \/ OneAtATime
=============================================================================
