--------------------------------- MODULE Store ---------------------------------
(***************************************************************************)
(* What works on versions and their objects, request by request or behind  *)
(* the requests, side by side: a copy asked for again, the import of a     *)
(* bucket, multipart uploads and the plan of their parts, staging keys,    *)
(* scans, previews, messages, and the accounts of it all. A behaviour of    *)
(* the suite is one of the active component, with the others left in their *)
(* initial states; the copy's names are those of ItemCopy.                 *)
(***************************************************************************)
EXTENDS ItemCopy

CONSTANTS
    Importing,     \* of LegacyImport: its sets and what the keys of the bucket say
    Handing,       \* of MultipartHandshake
    Planning,      \* of PartPlan
    Staged,        \* of StagingCleanup
    Scanning,      \* of ScanPublication
    Previewing,    \* of PreviewJobs
    Mailing,       \* of Outbox
    Charging,      \* of QuotaAccounting
    Auditing,      \* of ConsistencyAudit
    Absent         \* no name, no version, no message, nobody

VARIABLES
    active,                                                  \* the component that moves
    bucket, folder, file, own, record, run,
    status, expired, attached, recorded, open, parts, opened, handling, cancel, lost,
    size, partSize, signed,
    now, job, due, cleaned, until, putting, staged, asked, loop, missed,
    state, current, scan, condemned, stored, scanner, pinned,
    original, preview, artifact, artifacts, renderer, purge, listed,
    outbox, sent, sender,
    charged, reserved, expected, received, bytes, account, call,
    kept, key, tried, objects, erased, audit, report, touched

-----------------------------------------------------------------------------
Import == INSTANCE LegacyImport WITH
    Objects <- Importing.objects, Folder <- Importing.folder,
    FileName <- Importing.fileName, Malformed <- Importing.malformed,
    FolderName <- Importing.folderName, Name <- Importing.name,
    Root <- Importing.root, None <- Absent,
    Lower <- Importing.lower, Run <- Importing.run

Handshake == INSTANCE MultipartHandshake WITH
    Request <- Handing.request, Cancel <- Handing.cancel, Part <- Handing.part,
    MaxOpened <- Handing.opened,
    overdue <- expired, request <- handling

Plan == INSTANCE PartPlan WITH
    MaxSize <- Planning.maxSize, Threshold <- Planning.threshold,
    DefaultPart <- Planning.defaultPart, Alignment <- Planning.alignment,
    MaxParts <- Planning.maxParts, Batch <- Planning.batch,
    LargeCopy <- Planning.largeCopy, CopyRange <- Planning.copyRange

Staging == INSTANCE StagingCleanup WITH
    Upload <- Staged.upload, Broken <- Staged.broken, Request <- Staged.request,
    Worker <- Staged.worker, Ttl <- Staged.ttl, Delay <- Staged.delay,
    WriteTimeout <- Staged.writeTimeout, MaxTime <- Staged.maxTime,
    request <- asked, worker <- loop, late <- missed

Scan == INSTANCE ScanPublication WITH
    Versions <- Scanning.versions, Infected <- Scanning.infected,
    Scanner <- Scanning.scanner, MaxAttempts <- Scanning.attempts,
    deletion <- condemned, worker <- scanner

Preview == INSTANCE PreviewJobs WITH
    Version <- Previewing.version, None <- Absent, Worker <- Previewing.worker,
    MaxAttempts <- Previewing.attempts,
    state <- original, job <- preview, stored <- artifacts, worker <- renderer

Mail == INSTANCE Outbox WITH
    Message <- Mailing.message, None <- Absent, Sender <- Mailing.sender,
    MaxAttempts <- Mailing.attempts, worker <- sender

Quota == INSTANCE QuotaAccounting WITH
    Version <- Charging.version, Client <- Charging.client, Size <- Charging.size,
    Received <- Charging.received, Quota <- Charging.quota, Nobody <- Absent,
    state <- charged, session <- reserved, size <- bytes

Audit == INSTANCE ConsistencyAudit WITH
    Version <- Auditing.version, MaxAttempts <- Auditing.attempts,
    state <- kept, deletion <- erased

Component == {"copy", "import", "handshake", "plan", "staging", "scan", "preview",
              "mail", "quota", "audit"}

ASSUME StoreAssumption ==
    /\ Import!KeyAssumption /\ Handshake!OpenedAssumption /\ Plan!PartAssumption
    /\ Staging!TimesAssumption
    /\ Scan!VersionsAssumption /\ Scan!AttemptsAssumption
    /\ Preview!AttemptsAssumption /\ Mail!AttemptsAssumption
    /\ Quota!QuotaAssumption /\ Audit!AttemptsAssumption

importVars == <<bucket, folder, file, own, record, run>>
handshakeVars == <<status, expired, attached, recorded, open, parts, opened, handling,
                   cancel, lost>>
planVars == <<size, partSize, signed>>
stagingVars == <<now, job, due, cleaned, until, putting, staged, asked, loop, missed>>
scanVars == <<state, current, scan, condemned, stored, scanner, pinned>>
previewVars == <<original, preview, artifact, artifacts, renderer, purge, listed>>
mailVars == <<outbox, sent, sender>>
quotaVars == <<charged, reserved, expected, received, bytes, account, call>>
auditVars == <<kept, key, tried, objects, erased, audit, report, touched>>
suiteVars == <<active, vars, importVars, handshakeVars, planVars, stagingVars, scanVars,
               previewVars, mailVars, quotaVars, auditVars>>

SuiteInit ==
    /\ active \in Component
    /\ Init /\ Import!Init /\ Handshake!Init /\ Plan!Init /\ Staging!Init
    /\ Scan!Init /\ Preview!Init /\ Mail!Init /\ Quota!Init /\ Audit!Init
    /\ active # "plan" => size = 0

SuiteNext ==
    /\ UNCHANGED active
    /\ IF active = "copy" THEN Next ELSE UNCHANGED vars
    /\ IF active = "import" THEN Import!Next ELSE UNCHANGED importVars
    /\ IF active = "handshake" THEN Handshake!Next ELSE UNCHANGED handshakeVars
    /\ IF active = "plan" THEN Plan!Next ELSE UNCHANGED planVars
    /\ IF active = "staging" THEN Staging!Next ELSE UNCHANGED stagingVars
    /\ IF active = "scan" THEN Scan!Next ELSE UNCHANGED scanVars
    /\ IF active = "preview" THEN Preview!Next ELSE UNCHANGED previewVars
    /\ IF active = "mail" THEN Mail!Next ELSE UNCHANGED mailVars
    /\ IF active = "quota" THEN Quota!Next ELSE UNCHANGED quotaVars
    /\ IF active = "audit" THEN Audit!Next ELSE UNCHANGED auditVars

SuiteSpec == SuiteInit /\ [][SuiteNext]_suiteVars

-----------------------------------------------------------------------------
(* The attached multipart upload stays open, those that lost are given up, *)
(* recorded parts are stored (MultipartHandshake), parts are no larger     *)
(* than needed, and parts and ranges make up the file exactly (PartPlan).  *)
PartsMakeUpTheFile ==
    /\ Handshake!TypeOK /\ Handshake!AttachedStaysOpen
    /\ Handshake!OthersAreGivenUp /\ Handshake!RecordedPartsStored
    /\ Plan!TypeOK /\ Plan!SmallestPartSize /\ Plan!PartsMakeUpTheFile
    /\ Plan!CopyIsWhole

(* The rows tell the truth about what is outside the database: an object   *)
(* is catalogued once (LegacyImport), a cleaned staging key stays empty    *)
(* (StagingCleanup), a message marked delivered was sent, once for each    *)
(* attempt (Outbox), and an audit raises no false alarm and overlooks      *)
(* nothing that stood still (ConsistencyAudit).                            *)
RowsTellTheTruth ==
    /\ Import!TypeOK /\ Import!CataloguedOnce
    /\ Staging!TypeOK /\ Staging!CleanedStaysClean
    /\ Mail!TypeOK /\ Mail!DeliveredWasSent /\ Mail!SendsAreAttempts
    /\ Audit!TypeOK /\ Audit!MissingIsMissing /\ Audit!UntouchedReportedRight

(* Only clean bytes are published, the newest clean version is shown       *)
(* (ScanPublication), a preview offered is stored, and a purged version    *)
(* leaves none that a row names (PreviewJobs).                             *)
OnlyCleanShown ==
    /\ Scan!TypeOK /\ Scan!OnlyCleanPublished /\ Scan!NewestCleanShown
    /\ Preview!TypeOK /\ Preview!ReadyPreviewStored /\ Preview!PurgedPreviewGone

(* What was admitted fits the quota (QuotaAccounting).                     *)
AdmittedWithinQuota == Quota!TypeOK /\ Quota!AdmittedWithinQuota

(* What was settled stays: a later import leaves what a user made of an    *)
(* object (LegacyImport), a delivered message is never sent again          *)
(* (Outbox), and a version is charged until its bytes are deleted          *)
(* (QuotaAccounting).                                                      *)
SettledStays ==
    /\ Import!LaterRunsChangeNothing
    /\ Mail!DeliveredStaysDelivered
    /\ Quota!ChargeEndsWithDeletion
=============================================================================
