---------------------------- MODULE StagingCleanup ----------------------------
(***************************************************************************)
(* What is left under the staging key of a published upload. Clients are   *)
(* given URLs that outlive the request they asked with; the completion     *)
(* workers remove the staged object once no URL can be valid, each time    *)
(* before they look for the next accepted upload, and with no lease. One   *)
(* clock is assumed for the server, the database and the store.            *)
(***************************************************************************)
EXTENDS Naturals

CONSTANTS
    Upload,        \* uploads by a single PUT
    Broken,        \* those whose staged object the store refuses to remove
    Request,       \* reservations asked for again
    Worker,        \* loops of the upload worker
    Ttl,           \* validity of a URL, 15 minutes
    Delay,         \* from the publication to the cleanup, 16 minutes
    WriteTimeout,  \* time a request has to be answered in, 15 seconds
    MaxTime        \* bound on the clock

TimesAssumption ==
    /\ {Ttl, Delay, WriteTimeout} \subseteq Nat /\ MaxTime \in Nat \ {0}
    /\ Ttl + WriteTimeout < Delay
    /\ Broken \subseteq Upload

VARIABLES
    now,
    job,           \* "open" session, then upload_completion_job.status
    due,           \* staging_cleanup_after
    cleaned,       \* staging_cleaned_at is set
    until,         \* end of the last URL given out, 0 for none
    putting,       \* a PUT is under way
    staged,        \* an object is stored under the staging key
    request,       \* what each request has read, and when
    worker,        \* where each loop is, and with which upload
    late           \* history: PUTs under way when the key was cleaned

vars == <<now, job, due, cleaned, until, putting, staged, request, worker, late>>
rows == <<job, due, cleaned>>
store == <<until, putting, staged, late>>

None == "none"
Idle == [upload |-> None, at |-> 0]

Init ==
    /\ now = 1
    /\ job = [u \in Upload |-> "open"] /\ due = [u \in Upload |-> 0]
    /\ cleaned = {} /\ until = [u \in Upload |-> 0]
    /\ putting = {} /\ staged = {} /\ late = {}
    /\ request = [r \in Request |-> Idle]
    /\ worker = [w \in Worker |-> [phase |-> "looking", upload |-> None]]

Tick == now < MaxTime /\ now' = now + 1 /\ UNCHANGED <<rows, store, request, worker>>

GetActiveUpload(r, u) ==
    /\ request[r].upload = None /\ job[u] = "open"
    /\ request' = [request EXCEPT ![r] = [upload |-> u, at |-> now]]
    /\ UNCHANGED <<now, rows, store, worker>>

(* The URL is made out whatever became of the upload meanwhile, but no     *)
(* client gets it after the write timeout.                                 *)
PresignPut(r) ==
    LET u == request[r].upload IN
    /\ u # None
    /\ until' = IF now <= request[r].at + WriteTimeout
                THEN [until EXCEPT ![u] = now + Ttl] ELSE until
    /\ request' = [request EXCEPT ![r] = Idle]
    /\ UNCHANGED <<now, rows, putting, staged, worker, late>>

RequestFails(r) ==
    /\ request[r].upload # None
    /\ request' = [request EXCEPT ![r] = Idle]
    /\ UNCHANGED <<now, rows, store, worker>>

(* Checked when it begins; what it sends may take as long as it likes.     *)
BeginPut(u) ==
    /\ u \notin putting /\ now <= until[u]
    /\ putting' = putting \cup {u}
    /\ UNCHANGED <<now, rows, until, staged, request, worker, late>>

EndPut(u) ==
    /\ u \in putting /\ putting' = putting \ {u}
    /\ staged' \in {staged, staged \cup {u}}
    /\ UNCHANGED <<now, rows, until, request, worker, late>>

QueueUploadCompletion(u) ==
    /\ job[u] = "open" /\ job' = [job EXCEPT ![u] = "queued"]
    /\ UNCHANGED <<now, due, cleaned, store, request, worker>>

Goes(w, phase, u) == worker' = [worker EXCEPT ![w] = [phase |-> phase, upload |-> u]]

Due == {u \in Upload : job[u] = "succeeded" /\ u \notin cleaned /\ due[u] <= now}

(* The longest due first; another loop may have the same one in hand.      *)
NextUploadStagingCleanup(w) ==
    /\ worker[w].phase = "looking"
    /\ IF Due = {} THEN Goes(w, "claiming", None)
       ELSE \E u \in Due : (\A v \in Due : due[u] <= due[v]) /\ Goes(w, "cleaning", u)
    /\ UNCHANGED <<now, rows, store, request>>

DeleteObject(w) ==
    LET u == worker[w].upload IN
    /\ worker[w].phase = "cleaning" /\ u \notin Broken
    /\ staged' = staged \ {u} /\ late' = late \cup ({u} \cap putting)
    /\ Goes(w, "recording", u)
    /\ UNCHANGED <<now, rows, until, putting, request>>

\* Faulty: a loop whose cleanup failed gives up.
Stops(w) == Goes(w, "stopped", None)

(* The error is logged, and as there was work the loop does not rest.      *)
Resumes(w) == Goes(w, "looking", None)

DeleteFails(w) ==
    /\ worker[w].phase \in {"cleaning", "recording"}
    /\ Resumes(w)
    /\ UNCHANGED <<now, rows, store, request>>

CompleteUploadStagingCleanup(w) ==
    /\ worker[w].phase = "recording"
    /\ cleaned' = cleaned \cup {worker[w].upload}
    /\ Goes(w, "looking", None)
    /\ UNCHANGED <<now, job, due, store, request>>

ClaimUploadCompletionJob(w) ==
    /\ worker[w].phase = "claiming"
    /\ \/ \E u \in Upload : job[u] = "queued" /\ job' = [job EXCEPT ![u] = "processing"]
                                              /\ Goes(w, "working", u)
       \/ (\A u \in Upload : job[u] # "queued") /\ Goes(w, "resting", None) /\ UNCHANGED job
    /\ UNCHANGED <<now, due, cleaned, store, request>>

\* Faulty: as long as the validity of a URL, the time of a request forgotten.
AtExpiry == now + Ttl

CleanupAfter == now + Delay

(* Published, or refused; what then becomes of it is in UploadLifecycle.   *)
Process(w) ==
    LET u == worker[w].upload IN
    /\ worker[w].phase = "working" /\ Goes(w, "looking", None)
    /\ \/ /\ u \in staged
          /\ job' = [job EXCEPT ![u] = "succeeded"]
          /\ due' = [due EXCEPT ![u] = CleanupAfter]
       \/ job' = [job EXCEPT ![u] = "failed"] /\ UNCHANGED due
    /\ UNCHANGED <<now, cleaned, store, request>>

Rest(w) ==
    /\ worker[w].phase = "resting" /\ Goes(w, "looking", None)
    /\ UNCHANGED <<now, rows, store, request>>

Turn(w) ==
    \/ NextUploadStagingCleanup(w) \/ ClaimUploadCompletionJob(w) \/ Process(w)
    \/ Rest(w) \/ CompleteUploadStagingCleanup(w) \/ DeleteFails(w) \/ DeleteObject(w)

Next ==
    \/ Tick
    \/ \E r \in Request : \/ \E u \in Upload : GetActiveUpload(r, u)
                          \/ PresignPut(r) \/ RequestFails(r)
    \/ \E u \in Upload : BeginPut(u) \/ EndPut(u) \/ QueueUploadCompletion(u)
    \/ \E w \in Worker :
        \/ NextUploadStagingCleanup(w) \/ DeleteObject(w) \/ DeleteFails(w)
        \/ CompleteUploadStagingCleanup(w) \/ ClaimUploadCompletionJob(w)
        \/ Process(w) \/ Rest(w)

Spec == Init /\ [][Next]_vars

(* The loops go on, time passes, and a store that can remove an object is  *)
(* not down every time it is asked to, nor is the database.                *)
Fairness ==
    /\ WF_vars(Tick)
    /\ \A w \in Worker : /\ WF_vars(Turn(w))
                         /\ SF_vars(DeleteObject(w))
                         /\ SF_vars(CompleteUploadStagingCleanup(w))

FairSpec == Spec /\ Fairness
-----------------------------------------------------------------------------
TypeOK ==
    /\ now \in 1..MaxTime
    /\ job \in [Upload -> {"open", "queued", "processing", "succeeded", "failed"}]
    /\ \A u \in Upload : due[u] # 0 <=> job[u] = "succeeded"
    /\ cleaned \subseteq {u \in Upload : job[u] = "succeeded"}
    /\ UNION {putting, staged, late} \subseteq Upload
    /\ \A w \in Worker : worker[w].phase \in {"looking", "cleaning", "recording",
                             "claiming", "working", "resting"}

(* Once a staging key is cleaned no URL for it is valid, though the client *)
(* may have asked for one while the upload was being published: only a PUT *)
(* that had begun by then can still leave an object there.                 *)
CleanedStaysClean == cleaned \cap staged \subseteq late

(* Every accepted upload is taken up, though cleanups come first and may    *)
(* fail, as long as none fails every time.                                 *)
AcceptedTakenUp == \A u \in Upload : job[u] = "queued" ~> job[u] \in {"succeeded", "failed"}

(* A cleanup that fails leaves its loop time for other work: the loop gets *)
(* back to the queue.                                                      *)
CleanupsBackOff ==
    \A w \in Worker : worker[w].phase = "cleaning" ~> worker[w].phase = "claiming"
=============================================================================
