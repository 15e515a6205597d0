------------------------------ MODULE MCProgress ------------------------------
(***************************************************************************)
(* The components whose progress is checked, side by side: they share no   *)
(* variable, so a behaviour of the suite is a behaviour of the active one, *)
(* with the others left in their initial states.                           *)
(***************************************************************************)
EXTENDS Naturals, TLC

CONSTANTS a1, a2, Absent

Worker == {a1, a2}
Message == {"invitation"}

VARIABLES
    active,                                                  \* the component that moves
    state, current, scan, deletion, stored, scanner, pinned,
    outbox, sent, sender,
    original, preview, artifact, artifacts, renderer, purge, listed,
    ledger, claimed, value, allowed, call, calls, effects, answers,
    source, session, overdue, version, object, running, removal, request, told,
    bucket, folder, file, own, record, run,
    now, job, due, cleaned, until, putting, staged, asked, loop, late,
    view, limit, name, at, present, after, finished, shown, disturbed, changes, expiries

-----------------------------------------------------------------------------
(* Two versions, one infected, two attempts, two scanners.                 *)
Scan == INSTANCE ScanPublication WITH
    Versions <- 2, Infected <- {2}, Scanner <- Worker, MaxAttempts <- 2,
    worker <- scanner

(* One message, two attempts, two senders.                                 *)
Mail == INSTANCE Outbox WITH
    None <- Absent, Sender <- Worker, MaxAttempts <- 2,
    worker <- sender

(* One version, three attempts, two renderers.                             *)
Preview == INSTANCE PreviewJobs WITH
    Version <- {"photo"}, None <- Absent, MaxAttempts <- 3,
    state <- original, job <- preview, stored <- artifacts, worker <- renderer

(* One item and one key, three requests, two served at a time.             *)
Ledger == INSTANCE IdempotencyLedger WITH
    Key <- {"key"}, Thing <- {"file"}, Op <- {"star", "trash"}, Server <- Worker,
    Nil <- Absent, MaxCalls <- 3

(* The first request and a retry; a deletion tried twice.                  *)
Copy == INSTANCE ItemCopy WITH
    Request <- Worker, MaxPurges <- 2, late <- running, deletion <- removal

(* A folder, a file in it and one beside it; one run after another, each   *)
(* of which may be cut off.                                                *)
Import == INSTANCE LegacyImport WITH
    Objects <- <<"marker", "inside", "outside">>,
    Folder <- "marker" :> "work" @@ "inside" :> "work" @@ "outside" :> "root",
    FileName <- "marker" :> Absent @@ "inside" :> "plan" @@ "outside" :> "plan",
    Malformed <- {}, FolderName <- {"work"}, Name <- {"plan", "draft"},
    Root <- "root", None <- Absent,
    Lower <- [n \in {"work", "plan", "draft"} |-> n], Run <- {a1}

(* Two uploads and one loop, whose deletions fail now and then.            *)
Staging == INSTANCE StagingCleanup WITH
    Upload <- {"u1", "u2"}, Broken <- {}, Request <- {"r1"}, Worker <- {a1},
    Ttl <- 0, Delay <- 1, WriteTimeout <- 0, MaxTime <- 2,
    request <- asked, worker <- loop

(* Two items of one name, pages of one or two, one change on the way.      *)
Pages == INSTANCE Listing WITH
    Item <- 1..2, NameRange <- 1..1, Time <- 1..1,
    View <- {"folder", "search", "trash", "recent", "activity", "offset"},
    Limit <- 1..2, Nil <- Absent, MaxChanges <- 1, MaxExpiries <- 1

Component == {"scan", "mail", "preview", "ledger", "copy", "import", "staging", "pages"}

ASSUME /\ Scan!VersionsAssumption /\ Scan!AttemptsAssumption
       /\ Mail!AttemptsAssumption /\ Preview!AttemptsAssumption
       /\ Ledger!OpsAssumption /\ Import!KeyAssumption /\ Staging!TimesAssumption
       /\ Pages!ItemAssumption

scanVars == <<state, current, scan, deletion, stored, scanner, pinned>>
mailVars == <<outbox, sent, sender>>
previewVars == <<original, preview, artifact, artifacts, renderer, purge, listed>>
ledgerVars == <<ledger, claimed, value, allowed, call, calls, effects, answers>>
copyVars == <<source, session, overdue, version, object, running, removal, request, told>>
importVars == <<bucket, folder, file, own, record, run>>
stagingVars == <<now, job, due, cleaned, until, putting, staged, asked, loop, late>>
pagesVars == <<view, limit, name, at, present, after, finished, shown, disturbed,
               changes, expiries>>
vars == <<active, scanVars, mailVars, previewVars, ledgerVars, copyVars,
          importVars, stagingVars, pagesVars>>

Init ==
    /\ active \in Component
    /\ Scan!Init /\ Mail!Init /\ Preview!Init /\ Ledger!Init
    /\ Copy!Init /\ Import!Init /\ Staging!Init /\ Pages!Init
    /\ active # "pages" => view = "folder" /\ limit = 1 /\ present = {}

Next ==
    /\ UNCHANGED active
    /\ IF active = "scan" THEN Scan!Next ELSE UNCHANGED scanVars
    /\ IF active = "mail" THEN Mail!Next ELSE UNCHANGED mailVars
    /\ IF active = "preview" THEN Preview!Next ELSE UNCHANGED previewVars
    /\ IF active = "ledger" THEN Ledger!Next ELSE UNCHANGED ledgerVars
    /\ IF active = "copy" THEN Copy!Next ELSE UNCHANGED copyVars
    /\ IF active = "import" THEN Import!Next ELSE UNCHANGED importVars
    /\ IF active = "staging" THEN Staging!Next ELSE UNCHANGED stagingVars
    /\ IF active = "pages" THEN Pages!Next ELSE UNCHANGED pagesVars

(* The fairness each component states, asked of the active one.            *)
Fairness ==
    /\ \A w \in Worker :
        /\ WF_scanVars(active = "scan" /\ Scan!Work(w))
        /\ WF_mailVars(active = "mail" /\ Mail!Work(w))
        /\ WF_previewVars(active = "preview" /\ Preview!Work(w))
        /\ WF_ledgerVars(active = "ledger" /\ Ledger!Work(w))
    /\ \A v \in 1..2 :
        /\ WF_scanVars(active = "scan" /\ Scan!Unattended(v) /\ Scan!LeaseLapses(v))
        /\ WF_scanVars(/\ active = "scan"
                       /\ Scan!ClaimBlobDeletionJob(v) \/ Scan!PurgeBlob(v))
    /\ \A m \in Message :
        WF_mailVars(active = "mail" /\ Mail!Unattended(m) /\ Mail!LeaseLapses(m))
    /\ WF_previewVars(/\ active = "preview"
                      /\ Preview!Unattended("photo") /\ Preview!LeaseLapses("photo"))
    /\ WF_copyVars(active = "copy" /\ Copy!DeadlinePasses)
    /\ WF_copyVars(active = "copy" /\ Copy!MarkUploadExpired)
    /\ WF_copyVars(active = "copy" /\ Copy!Purge)
    /\ WF_importVars(/\ active = "import"
                     /\ Import!ListLegacyObjects(a1) \/ Import!Reconcile(a1))
    /\ WF_stagingVars(active = "staging" /\ Staging!Tick)
    /\ WF_stagingVars(active = "staging" /\ Staging!Turn(a1))
    /\ SF_stagingVars(active = "staging" /\ Staging!DeleteObject(a1))
    /\ SF_stagingVars(active = "staging" /\ Staging!CompleteUploadStagingCleanup(a1))
    /\ WF_pagesVars(active = "pages" /\ Pages!ReadPage)

FairSpec == Init /\ [][Next]_vars /\ Fairness

-----------------------------------------------------------------------------
(* Scan jobs, messages and previews are what a leased job promises to be   *)
(* (JobLease).                                                             *)
JobsAreLeased ==
    /\ Scan!ScansAreLeasedJobs
    /\ Mail!MessagesAreLeasedJobs
    /\ Preview!PreviewsAreLeasedJobs

(* Every version leaves quarantine (ScanPublication), and cleanups do not  *)
(* keep the upload loop from accepted uploads (StagingCleanup).            *)
QuarantineEnds == Scan!QuarantineEnds /\ Staging!AcceptedTakenUp

(* What was begun ends: a request with an idempotency key is answered or   *)
(* given up (IdempotencyLedger), a copy completes or is cleaned up         *)
(* (ItemCopy), an import that was cut off is completed by a later one      *)
(* (LegacyImport), and a walk through a listing reaches its last page      *)
(* (Listing).                                                              *)
WhatBeginsEnds ==
    /\ Ledger!RequestsEnd
    /\ Copy!CopyEnds
    /\ active = "import" => Import!ImportResumes
    /\ active = "pages" => Pages!WalksEnd
=============================================================================
