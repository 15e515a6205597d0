# Verification of suraj-drive-api

TLA+ models of the Go backend of suraj-drive, the TLC runs that check them on
small instances, and theorems about them checked by TLAPS. Paths of source files
below are relative to `src/backend/internal/` unless they start with `docs/`.

## 1. The system

The backend keeps its catalogue in PostgreSQL (`drive.*` tables) and its bytes in
an S3 compatible object store (MinIO). HTTP handlers and four kinds of background
workers, of any number of server processes, meet only in those two places: there
is no shared memory to speak of. A transaction is atomic only as far as its locks
go; a call to the store is atomic; nothing spans the two. The clients hold
presigned URLs and talk to the store directly. That is where the difficulty lies.

| component | state | operations | hard because | modelled in |
|---|---|---|---|---|
| upload sessions and completion (`repository/uploads.go`, `repository/upload_completion.go`, `upload/worker.go`, `handler/upload_sessions.go`, `joblease/`) | `upload_session`, `file_version`, `upload_completion_job`, `upload_part`; staged, multipart and sealed objects | reserve, attach, presign, record parts, queue completion, claim, seal, hash, publish, fail, renew, recover, expire, abort, clean up | leases lapse under running workers, calls go on after their caller gave up, commits are not acknowledged, clients write at any time | `UploadLifecycle`, `UploadContract`, `MultipartHandshake`, `PartPlan`, `StagingCleanup` |
| object store adapter (`storage/minio.go`) | objects and multipart uploads | conditional copy, ranges, stat, hash, delete, multipart, list | no transaction with the catalogue | the store's part of the modules that call it |
| trash and retention (`repository/trash.go`, `versions.go`, `blob_lifecycle.go`) | `item.trashed_at`, `purge_after`, `keep_forever`, current version | trash, restore, delete permanently, empty trash, keep, restore a version | a restore races with the purge of the same bytes | `Retention` |
| purge (`purge/worker.go`, `repository/purge.go`) | `blob_deletion_job` | queue expired trash, claim, delete, complete, fail, recover | bytes are gone before the row says so | `UploadLifecycle`, `Retention`, `PreviewJobs`, `ItemCopy` |
| malware scan (`malware/`, `repository/malware.go`) | `malware_scan_job`, quarantined versions | claim, scan, release, condemn | decides the current version late and out of order | `ScanPublication` |
| previews (`preview/`, `repository/previews.go`) | `preview_job`, `preview_artifact` | queue, claim, store, record | a lapsed worker stores an artifact nobody lists | `PreviewJobs` |
| notifications (`notification/`, `repository/notifications.go`) | `notification_outbox` | claim, send, record | sending and recording are two steps | `Outbox` |
| storage quota (`repository/storage_usage.go`) | derived from versions and sessions | check at reservation and completion | concurrent reservations | `QuotaAccounting` |
| idempotency ledger (`repository/mutation_requests.go`, `handler/batch.go`) | `mutation_request` | claim, wait, replay, complete | retries race with the first request | `IdempotencyLedger` |
| item namespace (`repository/item_mutations.go`, `items.go`, `shortcuts.go`) | `item` tree and names | create, rename, move, trash, restore | checks made before the row is locked | `Namespace` |
| sharing, access, public links (`repository/sharing.go`, `access.go`, `public_links.go`, `search_access.go`) | permissions, invitations, links | grant, revoke, invite, accept, resolve | inherited permissions over a tree that moves | `SharedAccess` |
| comments (`repository/comments.go`) | `comment` | create, edit, delete, resolve | the rank is read before the statement | `Comments` |
| listings (`repository/items.go`, `discovery.go`, `activity.go`, `pagination/`) | none between pages but the cursor | page | rows change between two pages | `Listing` |
| sessions and authentication (`auth/`, `middleware/auth.go`, `repository/metadata.go`, `sessions.go`) | accounts, identities, drives, `auth_session` | sign in, provision, verify, revoke | four upserts of several logins interleave | `AuthSessions` |
| rate limiting (`ratelimit/`) | a table of windows | allow | a full table | `FixedWindow` |
| legacy import and audit (`importer/`, `reconcile/`, `repository/legacy_import.go`, `consistency.go`) | `legacy_import_record`; none | import, compare | two imports at once; two readings of what moves | `LegacyImport`, `ConsistencyAudit` |
| item copy (`handler/item_copy.go`) | upload rows and one object | copy, then complete | no claim protects the copy | `ItemCopy` |

What makes each of them correct, in a sentence:

* uploads: what is published is what the client declared and stays so; every
  accepted completion settles; whatever comes to nothing is released;
* retention: no bytes a user can still read or get back are deleted; whatever
  nobody can get back is deleted in the end;
* scans: nothing unscanned is readable; the newest clean version is shown;
* previews, notifications: one recorded result per job; a failed one is retried
  up to its bound;
* quota: what is stored is charged from the reservation to the deletion;
* ledger: one effect per key, the same answer to every retry;
* namespace: names unique in a folder, the folders a tree;
* sharing: all queries agree on who may read an item, and access needs an offer;
* comments: what was deleted stays deleted, changes only by those entitled;
* listings: what does not change during a walk is shown exactly once;
* sign-in: one account and one drive per person; an ended session stays ended;
* import: one catalogue entry per object; audit: no false alarm.

## 2. Modules

Each component is a module of its own; the `MC` modules supply constants.
`Sharing`, `Requests`, `Store` and `MCProgress` are *suites*: they instantiate
several components that share no variable. A variable `active`, chosen in the
initial state, says which of them moves; the others keep their initial states. So
the behaviours of a suite are those of its components, one after another, and
cost their sum, not their product; a property of the suite is the conjunction of
properties stated in the components' modules, which its comment names. Fairness is
asked of the active component only.

`Sharing`, `Requests` and `Store` are generic, so that the theorems of section 4
are about them: their constants are the components' constants, their assumption
the conjunction of the components' assumptions. `Sharing` has `SharedAccess` three
times (`Grants`, `Links`, `Invites`) and `Comments` twice (`Remarks`, `Threads`),
with different constants, because one instance with rows of every kind would be
too large to check. `Store` extends `ItemCopy` and instantiates the others; a
record of constants for each keeps their names apart.

| module | content | used by |
|---|---|---|
| `UploadLifecycle` | uploads from the reservation to the published version or to the release of their bytes, with the completion workers, the purge workers, the clients and the store | `MCUploadLifecycle` |
| `UploadContract` | what that component promises: seven phases, the published bytes, the item's current version | refined by `UploadLifecycle` |
| `Retention` | the trash of one drive, its version history and the purge, with uploads as far as they touch them | `MCRetention` |
| `Sharing` | suite: `Namespace`, `SharedAccess`, `Comments` | `MCSharing` |
| `Requests` | suite: `AuthSessions`, `FixedWindow`, `IdempotencyLedger`, `Listing` | `MCRequests` |
| `Store` | suite: the components on versions and their objects | `MCStore` |
| `ItemCopy` | a copy of a file, its retries, abort, expiry and purge | `Store`, `MCProgress` |
| `MultipartHandshake` | how a session comes by its multipart upload and its part list | `Store` |
| `PartPlan` | part sizes, batches of part URLs, ranges of large copies | `Store` |
| `StagingCleanup` | URLs, the clean-up of staging keys, and the loop that does it | `Store`, `MCProgress` |
| `JobLease` | what a job table promises: at most so many attempts, one end | refined by `ScanPublication`, `Outbox`, `PreviewJobs` |
| `JobRows` | the columns those tables share and what their statements do to one row | the same |
| `ScanPublication` | versions from quarantine to publication or deletion | `Store`, `MCProgress` |
| `PreviewJobs` | previews and their purge | `Store`, `MCProgress` |
| `Outbox` | messages | `Store`, `MCProgress` |
| `QuotaAccounting` | admission and charges | `Store` |
| `LegacyImport` | the import of a bucket | `Store`, `MCProgress`, `MCLegacyImport` |
| `ConsistencyAudit` | the audit of rows against the bucket while both change | `Store` |
| `Namespace` | the tree of a drive under concurrent requests | `Sharing`, `MCNamespace` |
| `SharedAccess` | permissions, invitations, links and the queries over them | `Sharing` |
| `Comments` | the comments of one item | `Sharing` |
| `AuthSessions` | sign-in and sessions | `Requests` |
| `FixedWindow` | the rate limiter | `Requests` |
| `IdempotencyLedger` | idempotency keys and batches | `Requests`, `MCProgress` |
| `Listing` | paged listings | `Requests`, `MCProgress` |
| `UploadLifecycleProofs`, `UploadContractProofs`, `RetentionProofs` | the theorems on uploads and trash | |
| `SharingProofs`, with `SharedAccessProofs` and `CommentsProofs` | those on tree, access and comments | |
| `RequestsProofs` | those on sign-in, limiter, ledger and listings | |
| `StoreProofs` | those on everything in `Store` | |

### UploadLifecycle

A *session* stands for its row of `upload_session`, the one `file_version` the
code creates with it, its `upload_completion_job` and its `blob_deletion_job`
(each unique per session or version). The variables are the columns the code
branches on, one function over sessions each; the store is `staged`, `multipart`,
`sealed[s][key]` (key 0 is the key reserved with the version, key n that of
attempt n) and the copies still running in the store after their caller has given
up, `lateCopies`; the processes are `worker`, `purger` and `abortPC`.

Bytes are "agreed" (those of the declared SHA-256) or "other". Every transaction
is one action, since the code takes row locks (`FOR UPDATE`) and runs statements
that re-evaluate their condition; every store call is another one. So

* `upload/worker.go` `process` is `StatStaged` or `CompleteMultipart`, `Seal`,
  `HashSealed`, `Publish` or `FindCompleted`, `DeleteStaged`, with `WorkFails`
  between any two of them, then `FailUploadCompletionJob`, `LeaveSeal` or
  `DeleteFailedSeal`;
* `ClaimUploadCompletionJob` is two statements in two transactions, hence
  `RecoverCompletionLeases` and `ClaimUploadCompletionJob`;
* the heartbeat of `joblease.Run` is not a process: a lease is a Boolean that may
  lapse at any time while the job is processing (`CompletionLeaseLapses`). This
  allows every behaviour of the heartbeat, and those where it is late;
* the abort handler is three steps, the row may change between them;
* a worker, a purge worker, an abort request may stop at any step
  (`WorkerDies`, `PurgerDies`, `AbortGivesUp`), a commit may succeed without
  its acknowledgement (`Publish`), a deletion may fail (`DeleteStaged`,
  `DeleteFailedSeal`), a copy may outlive its caller (`LateCopyEnds`).

Left out here: `RenewUpload` moves a deadline that has not passed, so
`DeadlinePasses` covers it; `ListActiveUploads` and the activity log keep data
nothing else reads; the part list and two concurrent attach requests are
`MultipartHandshake`'s, the clean-up of staging keys in time is
`StagingCleanup`'s (here it succeeds in one step); a wrong size fails the attempt
(`WorkFails`), the branch of `CompleteUpload` for it being out of reach since the
presigned requests sign the length and the worker has checked it twice; the purge
of trashed versions, which `Retention` has, and of infected ones, which
`ScanPublication` has with the scan itself.

### Retention

The variables are columns of `item` (`parent`, `trashed`, and `purgeDue`: the
deadline has passed), of `file_version` and of `blob_deletion_job`, and `stored`,
the object of a version. Four more stand for what a request has read and not yet
used:

* `restoring`: `restoreItem` is one transaction, but the statements that trash
  items or read the expired ones do not take the drive's advisory lock
  (`lockBlobLifecycle`) and run between its statements. It is `BeginRestore`, the
  check and the jobs it takes back, and `FinishRestore`. While it is set the lock
  is held, and `LockFree` is a guard of whatever takes that lock; the row lock
  (`FOR UPDATE OF item`) is the guard `restoring \notin Subtree(i)` of the two
  statements that update a subtree, and `restoring = NoItem` of the one that
  updates the whole trash;
* `destination`: `ReserveUpload` looks its folder up before its transaction
  begins (`ResolveDestination`);
* `candidates`: the expiry statement selects its versions, then inserts their jobs
  (`SelectExpired`, `QueueExpiredTrash`), and takes no lock;
* `moving`: `UpdateItem` locks the row of its item, finds the destination live
  without locking it (`BeginMove`), and writes (`FinishMove`) or fails
  (`RollBackMove`). The update's foreign key takes `KEY SHARE` on the destination,
  which waits for a restore or a move of that folder (`ParentFree`), not for its
  being trashed: so a live item gets into a folder trashed meanwhile.

`slipped` is a history variable that no guard reads: the files with nothing left to
read that a move put below the item being restored, between the check and the
update of the restore.

Row locks held by a move (`RowFree`) are waited for by `SetItemTrashed`, version
restores and revisions, and skipped by a claim (`SKIP LOCKED`). An overlap of a
trashing or restoring statement with a move needs no action of its own. The
statement writes the rows it saw when it began, in other columns than the move: a
restore ends as if it had been first (so `FinishRestore` does not wait), and a
trashing as if the move had been first and the moved item trashed next.

Every other transaction is one action. `Subtree` is the recursive query, as the
least set closed under the children of its members, which needs no recursion and
can be proved about. A permanent deletion sets the deadline of a subtree, and the
constraint `item_trash_fields_check` refuses it when an item there is not in the
trash.

Simpler here than in `UploadLifecycle`: an upload is reserved, completed or given
up; a deletion worker has no process of its own, as `DeleteBlob` is possible as
long as the version is deleting, for the holder of the lease and for a worker
whose lease has lapsed. Every item's deadline passes on its own, which allows more
than the code, where a subtree shares one.

Left out here: renames, creating folders, and moves that make a cycle of three,
which are `Namespace`'s (the proofs do not use that the items form a tree);
permissions (`SharedAccess`); quarantined versions (`ScanPublication`) and preview
artifacts (`PreviewJobs`). A drive without malware scanning publishes as it is
modelled here, one with it later. `TrashFolderByPrefix`, a route by path, has the
effect of `Trash`.

### ItemCopy

`CopyItem` is one handler without a job or a lease. A request is a phase:
`ResolveAccessibleFile`, `ReserveUpload` (or its replay), `CheckObjects` and
`CopyObject`, `StatLegacyObject`, `CompleteUpload`, and `AbortUpload` when any
of them fails; it may die anywhere (`RequestDies`), and a copy of a large object
goes on in the store after its caller (`LateCopyLands`). Requests are the first
one and its retries: they carry one key, so they find one session. Abort, expiry
and purge act on the same rows.

Abstract: a completed copy is `ready` (with scanning it would wait in quarantine
first, which changes nothing here); what becomes of it later is `Retention`'s; a
replay whose source changed has another request hash and is refused by the ledger;
a size that differs cannot occur, since the copy is conditional on the source's
ETag. Two properties stated here are refuted by TLC on two requests:
`NoUntrackedOrphan` (a copy that outlives its request, or a retry of an aborted
session, writes the key after the version was purged) and `RetryIsSafe` (a retry
that finds the bytes stored takes this for a failure and aborts the session its
predecessor is about to complete). And when the server dies between storing and
completing, no retry can succeed: each finds the destination taken.

### MultipartHandshake, PartPlan, StagingCleanup

The three details of an upload that `UploadLifecycle` leaves out.

`MultipartHandshake`: `ensureMultipartUpload` opens an upload in the store, then
attaches its id to the row if none is attached, else adopts the winner's and
aborts its own. The update is one statement and one action; opening, attaching,
aborting, listing parts and recording them are five steps that requests,
cancellations and deaths separate. Ids the store gave out and a death or a failed
abort lost are collected in `lost`, so that the properties say what is open
otherwise. `CancelledUploadClosed` does not hold: a request still attaching when
the session is cancelled leaves its upload open.

`PartPlan`: `adaptiveMultipartPartSize`, the batches of `PresignUploadParts`, the ranges of
`copyLargeObject`. Sizes are in units of half the alignment, so that every
boundary (threshold, alignment, last part, batch) is met by some size up to
`MaxSize`; the initial states are all sizes. Totals are counts of bytes, each
byte a pair of part and place, so that nothing is summed by recursion. The
assumption `MaxSize <= MaxParts * CopyRange` is the code's 5 TiB limit against
10,000 ranges of 1 GiB.

`StagingCleanup`: times are a clock, a URL has an end, a cleanup a due date. One
clock is assumed for server, database and store. `WriteTimeout` (15 s) is what
keeps the time between reading a session and handing out its URL below the minute
that `Delay` adds to `Ttl`. A PUT that began before its URL lapsed may still leave
an object on a cleaned key (`late`). The loop cleans before it claims:
`AcceptedTakenUp` holds if no cleanup fails every time, which it assumes;
`CleanupsBackOff`, with an object in `Broken`, does not: the loop comes back to it
at once, for ever (`upload/worker.go:67`). No run shows this.
Database errors of the loop are not modelled.

### JobLease, JobRows, ScanPublication, PreviewJobs, Outbox

`JobLease` is the abstract specification of a job table: a job is queued, attempted
at most `MaxAttempts` times, and ends once. `JobRows` has the statements the three
tables share (claim, recovery of lapsed leases, giving back, the predicate
`attempt = $n AND lease_expires_at > now`). The three components map their status
column onto it; the refinement includes liveness, under the fairness of their
workers. Back-off (`run_after`) is left out: a queued job may be claimed at any
time.

`ScanPublication`: the versions of one file, numbered as in the code. Scanners
claim, read, publish or condemn, in any order; the current version is chosen by
`CompleteMalwareScanJob` from the version numbers; users make older ones current.
The scanner is right about the bytes it reads. The purge of a condemned version
never fails here (failing deletions are `UploadLifecycle`'s and `Retention`'s), which
`QuarantineEnds` presumes when it says "deleted in the end". Without scanning there is no such
comparison: the upload that completes last is shown (`UploadLifecycle`).

`PreviewJobs`: an attempt stores its object under a key of its own, then records
it if it still holds the lease and the version is ready. The purge lists the rows,
deletes those objects, and confirms. Image conversion is a step that may fail.

`Outbox`: claim, send, record. The mail server may accept a message and the worker
never learn it. No worker renews its lease.

### QuotaAccounting, LegacyImport, ConsistencyAudit

`QuotaAccounting`: usage (the number of bytes charged, a byte being a pair of
version and place) is summed at every reservation and completion under the lock of
the account row, which cancelling, expiring, scanning and purging do not
take. Two reservations read and insert in separate steps. A file larger than
announced is charged on top and never published. Imports are not charged at
admission; they are in the sum afterwards.

`LegacyImport`: a run lists the bucket and imports key by key: it looks for the
record, takes the drive's lock, then imports in one step. Users rename, trash and
add files meanwhile. Folders are not renamed; an object keeps its ETag. An import
into a folder in the trash makes a live file nobody sees, as `Retention`'s late
reservation does. `EveryObjectAccounted` does not hold: a malformed key ends a
run with an error and what follows it in the listing is not imported.

`ConsistencyAudit`: `AuditConsistency` reads the rows of a drive, then lists the
bucket, and compares. Uploads seal and publish, purges delete, objects get lost
and attempts die in between; an upload in flight may be reported as a stray object
but nothing that is there as a loss, and what did not move while the audit ran is
reported as it is. Comparing sizes and ETags, the 500 issues a report shows at
most, and the check of the role are left out.

### Namespace

`item` rows of one drive: `parent`, `name` (what `lower` tells apart), `kind`,
`live`. A request has three phases, since its transaction has: it has looked at
the folder (`begun`), settled on a name under the folder's advisory lock
(`named`), written and committed. What it holds in between (row of the item it
moves or restores, name space of its destination) follows from the record; the
foreign key on `parent_id` makes a writer wait for the row of its destination.
The unique index `item_active_sibling_name_unique` and the trigger
`item_relationships_trigger` are guards. `RestoreKeepsBoth` does not hold: two
items of one name can meet in a trashed folder, which then cannot be restored. A
description or a colour changes nothing another request reads.

### SharedAccess, Comments

`SharedAccess`: permissions, invitations and links on one tree that moves and is
trashed, and the four queries that decide who sees what, each translated on its
own: from the item upwards (`HasItemAccess`, `ResolveAccessibleFile`,
`CommentRank`) and from the permission downwards (`ListSharedWithMe`, `Search`,
`ListAccessibleChildren`). The owner's requests check in one statement and act in
the next. Two properties do not hold: `PendingBeforeSignIn` (an invitation may be
made for somebody who signs in at that moment, and waits until the next sign-in)
and `AcceptedInvitationsOpen` (accepting does not raise a permission that has run
out).

`Comments`: a request reads the caller's rank, runs one statement under it, and
commits. The list of comments read afterwards to answer is left out: a caller who
lost access by then gets an error for a comment that was written.

### AuthSessions, FixedWindow, IdempotencyLedger, Listing

`AuthSessions`: the provisioning transaction is one action per statement; a row it
wrote makes other logins wait and is seen by them when it commits. The session is
created in a transaction of its own, so `SignInIsAtomic` does not hold. A Google
account re-created with an address in use can never sign in; two concurrent first
sign-ins may leave an account row without identity. A request let through before a
revocation still acts. OAuth and CSRF are out of scope.

`FixedWindow`: `Allow` holds the mutex and is one action; the key is a parameter.

`IdempotencyLedger`: `Claim` is the insert that waits for the transaction holding
the key, `Perform` the change with its ledger row; a batch does it per item under
derived keys. Servers die and answers get lost. Rows have an expiry that nothing
uses.

`Listing`: a page is a query after the cursor of the one before; items change in
between. An item renamed during the walk may be skipped or shown twice, no other
one. The listing by offset promises nothing once anything changes.

## 3. Runs

| run | instance | what it shows |
|---|---|---|
| `uploads` | 2 sessions of one item, one in parts; 2 workers, 1 purge worker, 2 attempts, 1 deletion attempt | overlapping attempts, crashes, late copies, aborts, expiry and purges, and revisions published in any order: rows and processes agree, published bytes stay, one version is current, publication is final, the safety half of the contract |
| `upload_progress` | 1 session in parts, scanning, 1 worker, 1 purge worker, 3 attempts, 2 deletion attempts; fair | an accepted completion settles, an abandoned upload is released, the whole contract |
| `retention` | 1 file with 2 versions, a folder in a folder, both of them moved, 1 deletion attempt; fair | what is offered is stored, restores protect, kept versions survive, live items get into trashed folders late only, expired trash is purged |
| `sharing` | suite: tree (2 items, 2 requests), grants (1 guest, folder, file, 2 roles), links (1), invitations (2), comments (1 with a change of access; 2 in a thread) | `OneTree`, `SettledNamesStayFree`, `AccessAgrees`, `AccessNeedsAnOffer`, `CommentsAreKept` |
| `requests` | suite: 3 sign-ins of 2 subjects and 2 addresses; 3 keys for 2 windows; 1 key, 2 items, 3 requests; 4 items, pages of 1 or 2, one change | `SessionsReachTheirHome`, `WindowsHold`, `OneEffectPerKey`, `ShownExactlyOnce`, `AnswersStand` |
| `store` | suite: copy (2 requests, 2 deletion attempts), import (3 keys, 2 runs), handshake (2 requests, 1 cancellation), part plan (25 sizes), staging (1 upload, 2 loops), scans (3 versions, 2 scanners), preview (3 attempts), messages (2), quota (3 uploads), audit (1 version, 2 attempts) | `PublishedCopyStored`, `AnsweredCopyStays`, `PartsMakeUpTheFile`, `RowsTellTheTruth`, `OnlyCleanShown`, `AdmittedWithinQuota`, `SettledStays` |
| `progress` | suite, fair: scans (2 versions), message, preview, ledger, copy, import, staging (2 uploads, failing deletions), listing | `JobsAreLeased`, `QuarantineEnds`, `WhatBeginsEnds` |
| `orphaned_attempt` | 1 session, 1 worker, 1 attempt | **violation**: a version is deleted and uncharged with an attempt's object still stored |
| `leaked_multipart` | 1 session in parts | **violation**: the multipart upload of an expired session is never aborted |
| `refused_restore` | 2 files with a version each, 1 folder | **violation**: a folder with an intact file cannot be restored |
| `move_cycle` | 3 folders, 2 requests | **violation**: two moves that meet in the middle of a chain make a cycle |
| `import_overlap` | 3 keys, 2 runs | **violation**: the second of two overlapping imports undoes what the user did after the first |

### Bounds

Two attempts and two workers are what it takes for a stale worker, its late copy
and its replacement to meet; a third attempt adds no new relation between two
attempts, and the proofs cover any number. The sessions touch one another only
through the item's current version, so two of them are enough to race for it. The
constraint `Focus` of `uploads` keeps their product small: either nobody uploads in
parts and all the workers may be busy, or sessions of both kinds take turns with
one worker, in first attempts, without late copies and purges. The first half has
the overlaps of one kind of session, with the purges; the second the order of
revisions. `upload_progress` has three attempts in parts with purges, and no
constraint. `MaxAttempts` is 5 and `MaxDeletions` 10 in the code; the runs use 1
to 3 so that the last attempt is reached.

For the trash, two versions of one file are what it takes for the current one to
be purged and another to be kept or made current; a folder in a folder is the
least tree in which an item's parent and what is being trashed differ. Restores
exclude one another, so one is enough. `Movable` bounds which items are moved: the
file and the inner folder, so that a file and a folder come late into a trashed
folder. For something to slip below a restore it takes a third folder (`slipped`
stays empty in this run, so that `LiveReadable` and `RestoreProtects` hold there
without their exception); the theorems cover it, and TLC refutes `RestoredReadable`
with three.

For the others: two requests are what it takes for one to act between two steps of
another, and three folders and two moves for the cycle, which two folders do not
have (`NoMutualParents`); three versions for a scan order that is neither
ascending nor descending; three keys for a table of two to be full; a third
request for a retry to meet a retry; a third preview attempt for one fenced, one
recorded and one late; two roles for a grant to be lowered. The audit's versions
do not touch one another, so one shows every order of its own steps with the
audit's. Counters (`MaxTime`, `MaxCalls`, `MaxOpened`, `MaxChanges`,
`MaxExpiries`, `MaxAllowed`, `MaxAsks`) bound histories, each in the guard of the
action it counts.

Deadlock is not checked: when every upload is settled, every request answered and
every client silent, nothing is left to do; `RequestsEnd`, `WalksEnd` and the
other liveness properties say that nothing is stuck before.

Symmetry is used in `uploads` (workers are alike) and `requests` (the two devices
of one subject, and the addresses); neither run checks liveness.

### Fairness

The loops of the workers and of the expiry poll for ever (`cmd/server/main.go`), a
claimed job is worked on until it ends because every call has a deadline, and a
lease lapses once nobody renews it: weak fairness of each worker, of the lapse of
a lease nobody holds, of deadlines passing. Dying, clients, the clean-up of
staging objects, the end of a late copy and of a move are not assumed.

Strong fairness is assumed in two places. In `Retention` a claim tries the lock
(`pg_try_advisory_xact_lock`) and gives up if it is taken, so that it is enabled
again and again rather than continuously; every holder keeps it for one
transaction only, and a worker that asks every minute finds it free at last. In
`StagingCleanup` a deletion that fails now and then succeeds at last.
`WalksEnd` needs a client that asks for the next page.

### What the violations say

They are where the code differs from what its documents say. PROJECT.json quotes
the lines.

* `orphaned_attempt`: the purge deletes the key in the version row; the object of
  an attempt that sealed and died is named by no row (`purge/worker.go:81`).
* `leaked_multipart`: a multipart upload is opened under the staging key and
  aborted under the version's, which the store answers with "no such upload", taken
  for success (`purge/worker.go:62`).
* `refused_restore`: an upload that is aborted, expires or fails leaves its item
  with a version on its way to "deleted"; the restore takes that file for one that
  is being purged and refuses the folder (`trash.go:296`).
* `move_cycle`: the ancestors of the destination are read without a lock
  (`item_mutations.go:381`).
* `import_overlap`: the record is looked for before the lock is taken
  (`legacy_import.go:39`).

Properties stated in the modules, with what a document says, that TLC refutes on
instances of the sizes above, and that no run keeps: `FailedDeletionRetryable`
(`UploadLifecycle`), `TrashCoversSubtree` (`Retention`: neither `ReserveUpload` nor
`UpdateItem` looks at its folder again; `OnlyLateArrivals` shows that there is no
third way among the actions modelled), `RestoredReadable` (`Retention`), and those
named in section 2.

`RestoredReadable` is about a restore and a move of a folder, with three folders
and a file. Folder h holds a file that was trashed on its own; g lies in f. A move
of h into g finds g live; then f is trashed, the file's deadline passes and its
version is deleted; a restore of f checks f's subtree, in which h is not yet, and
passes; the move ends; the restore's update (`trash.go:344`) walks the subtree
again and takes the file out of the trash with nothing to read. The plan document
(`docs/superpowers/plans/2026-09-13-production-readiness.md:56`) says that a
restore is rejected if current bytes are deleted. `LiveReadable` and
`RestoreProtects` except these files, and the theorems say that there are no others.

One more behaviour is no violation, because no document says what should happen:
in the trash, a version kept for ever that is not the current one outlives the
current one. The file can then be neither restored (`trash.go:297`) nor purged,
and as it is in the trash that version can be neither made current nor given up.

## 4. Proofs

`UploadLifecycleProofs` proves, for all sets of sessions, items, workers and purge
workers and all bounds satisfying `SessionAssumption` and `BoundAssumption`,
that `UploadInvariant` is inductive (`Invariance`), hence `TypeCorrect`,
`Integrity` (`PublishedIntact`), `Consistency` (`RowsAgree`), `Remembrance`
(`CleanupNeverForgotten`), `Agreement` (`ProcessesAgree`), `Uniqueness`
(`OneCurrentVersion`), and from it the action properties `Finality` and `Survival`.

`PublishedIntact` is not inductive alone. An object under the key of attempt n is
written by the worker of attempt n, by a late copy of attempt n, and deleted by
that worker or a purge. So one must know that no two workers share an attempt
(`AttemptsDistinct`), that a worker which hashes or publishes has an attempt that
is not the one already published, that it deletes its output only if its failure
was recorded (`AttemptAgrees`: the fence the comment at `upload/worker.go:88` is
about), that a late copy is of an attempt that is over and was not published
(`CopiesAgree`), and that a purge works on a version that can be published no more
(`PurgersAgree`); `ProcessesAgree` is their conjunction. `RowsAgree` then relates
the attempt in the job row to the key in the version row. The proof has one lemma
per group of actions that leaves the same part of the state alone.

`UploadContractProofs` proves `Refinement`: `Spec` implements `SafeSpec` of the
contract under the mapping `Phase`, `Content`, `Current`.

`RetentionProofs` proves, for all items, trees, versions and numbers of deletion
attempts satisfying `ItemAssumption` and `DeletionAssumption`, that
`RetentionInvariant` is inductive (`RetentionInvariance`), hence
`RetentionTypeCorrect`, `Offered` (`ReadyStored`), `Protection`
(`RestoreProtects`) and `Readability` (`LiveReadable`), and from it the action
properties `Retained` (`KeptVersionSurvives`) and `Confinement`
(`OnlyLateArrivals`).

`LiveReadable` is not inductive: it says nothing of a file in the trash, which a
restore may bring back. `ContentAccounted` does: a file that ever had content
still shows some, or is in the trash and lost, or has slipped. It survives
`FinishRestore` because no other file of the subtree is lost (`RestoreProtects`),
which holds from the check to the update because nothing loses a file without the
lock, a move adds to the subtree only what it moves, and what is lost in that is
recorded; and a claim of a readable version finds its item in the trash. The lemmas
about `Subtree` say when a step leaves it alone, that a new file adds itself only,
and that a move adds at most the subtree of what is moved; as a least closed set it
needs no induction. The lemmas on steps are by what a step touches: requests
only, versions of one file (`VersionStep`), parents.

The suites are proved component by component. Each has an invariant of its own,
stated with the columns' types; a step of the suite is a step of the active
component and leaves the variables of the others alone, so the suite's theorems
are the conjunctions of the components'. What follows says, for each, what had to
be added to the property to make it inductive.

`RequestsProofs`, from `RequestsAssumption` (finite sets, numbers, `Nil` no
element of them, an order of names):

* *Sign-in* (`SignInInv`; `SignInCorrect`, `SignedOut`). That a session is of its
  subject's account depends on four statements that other sign-ins run between.
  `SignInPath` says that what a sign-in has read so far is still so when it writes
  (the row it holds, the account the identity names, that nobody took the
  address); this needs `SignInApart`: no two open transactions hold one row or one
  address, and of two for one subject only one has written an identity that is not
  committed. `SignInSession` carries it to the session.
* *Limiter* (`LimiterInv`; `WindowsCorrect`). A window's counter says nothing of
  any other stretch of time. `LimiterWindow` adds that it has counted exactly the
  requests let through since its start, and that before the start there was at
  most one full window; hence twice the limit, wherever the stretch begins. A
  caller whose window is gone from the table had at most a full one lately.
* *Ledger* (`LedgerInv`; `LedgerCorrect`, `RetriesCorrect`, `AnswersCorrect`).
  `LedgerClaims`: a claim is of a slot without a committed row, and nobody else
  has claimed it. `LedgerHistory`: a slot took effect exactly when it has a row,
  and every "done" that was answered, or is about to be, is in the row.
* *Listings* (`PageInv`; `PagesCorrect`). The order of the rows is total and
  strict, for every view; a page is the next rows in it (`CursorCut`,
  `OffsetCut`). `Behind`: of the rows that stayed as they were, a walk has shown
  those up to its cursor, once, and no others. `Before` says it of the places
  before the offset, while nothing has moved. That the rank of a row numbers the
  rows without a gap is shown by counting finite sets, in place of an induction.

`SharingProofs`, from `SharingAssumption`:

* *Tree* (`TreeInv`; `TreeCorrect`, `NamesStayFree`). What keeps a name free
  between the look-up and the write is that the request holds the folder's
  advisory lock; `TreeApart`: no two requests hold one row or one name space.
  `TreeRequestFits`: a move that has settled on its destination does not go into
  an item that lies in what is moved. This is enough against two folders in each
  other, and, as `move_cycle` shows, not enough against longer cycles.
* *Access* (`AccessInv`; `AccessCorrect`, `OffersFirst`; lemmas in
  `SharedAccessProofs`). Little more than types: four queries over the same rows
  agree in every state. The argument is about the two directions of the recursive
  queries: the ancestors of an item and the tree of a permission are least closed
  sets, and one lies in the other exactly when the reverse holds. It is proved
  once of `SharedAccess` and carried over to the three instances, whose operators
  are shown equal (`GrantsSame`, `LinksSame`, `InvitesSame`).
* *Comments* (`CommentInv`; `CommentsCorrect`; lemmas in `CommentsProofs`).
  `Serving`: the best rank a caller had during the request is at least the one the
  check found, which the code used after it may have changed.

`StoreProofs`, from `StoreAssumption` and, for the copy, `PurgesAssumption`:

* *Copy* (`CopyInvariant`; `CopyInvariance`, `CopyTypeCorrect`, `CopyStored`,
  `CopyAnswered` of `ItemCopy`, `CopyCorrect` of the suite). Nothing fences the
  requests: what protects a published copy is that an abort and an expiry look at
  the session's status, that session and version move together and a deletion job
  exists only for a session that was given up (`RowsMoveTogether`), and that a
  request which has seen the object still finds it there as long as the session is
  open (`SeenIsThere`).
* *Scans and previews* (`ScanInv`, `PreviewInv`; `CleanCorrect`). A version's state
  fixes what its scan and its deletion job may be. For previews, an attempt in hand
  is neither the recorded one nor one a purge has listed, no two workers have one
  attempt, and what a purge has listed is the recorded artifact: so a purged
  version keeps none that a row names.
* *Messages, staging keys, imports, audit* (`MailInv`, `StagingInv`, `ImportInv`,
  `AuditInv`; `RowsCorrect`). What was sent and what is about to be sent are
  together no more than the attempts. A cleanup is due after every URL of its
  upload has ended, including those asked for before the publication and not yet
  handed out; here `Ttl + WriteTimeout < Delay` is used, the minute the code adds.
  Names of live siblings differ, a recorded key has its file, and an import works
  only on what it found unrecorded when it began. The audit compares rows with a
  listing made later: of what a row read as required names, the key is still its
  version's, and the object is still to be seen, was seen, or is gone for good;
  a version nobody touched is exactly as it was read.
* *Quota* (`QuotaInv`; `QuotaCorrect`). Whoever is reserving holds the account,
  and what is charged now is at most what it read; charges only fall otherwise. That
  a sum of charges changes by one version's charge is a lemma on counts of pairs.
* `SettledCorrect` has the action properties of imports, messages and charges.
* *Multipart* (`HandInv`, `PlanInv`; `PartsCorrect`). An upload that was opened is
  one request's (`OwnsApart`) and the session's only where that request attached it,
  so whoever yields aborts its own; where the session's upload is closed, a
  cancellation is about to end the session. For the plan, division with remainder
  (`DivBounds`, `Times`) bounds the last part, and two bytes of the parts never
  share a place (`PlacesApart`), for every file size and all limits that agree.
* *Leases* (`LeasesCorrect`): scans, messages and previews implement
  `JobLease!SafeSpec`, row by row: every step maps to a step of the abstract job or
  leaves it alone (`LeasedMove`). The fairness half is `JobsAreLeased`, for TLC.

The assumptions are those named in the modules that declare the constants; TLC
evaluates all of them. Each invariant is about states that occur: the runs reach
all actions of all components.

Only model-checked: what needs fairness, since the prover does not handle ENABLED
(`AcceptedCompletionSettles`, `AbandonedUploadReleased`, the last conjunct of
`ImplementsContract`, `ExpiredTrashPurged`, and the run `progress`), and of course
the properties that do not hold. Every other property of a passing run, invariant
or action property, is stated by a theorem.

## 5. Not modelled

* The routes by path (`handler/upload.go`, the uploads, copies and deletions of
  `handler/files.go` and `handler/folders.go`, and in `storage/minio.go` `Rename`, `Move`, `CreateFolder`, `Search`, `ListObjects`,
  `ResolveAvailableKey`; `TrashFileByStorageKey`, `TrashFolderByPrefix`;
  `RecordStoredObject` without a legacy record): production has them switched off.
* Preferences: one row, written by one statement.
* Decoding, status codes, headers, CORS, configuration, start-up and migrations,
  other than the constraints and triggers the migrations define.
* Which characters a name may have, MIME types, the text of messages, image
  conversion, the protocols of clamd, OAuth and SMTP: each is data, or a step that
  succeeds or fails.

## 6. Plan

1. Every component above, model-checked, and every safety property of the runs
   proved for all constants: done.
2. Next: an abstract specification of what a user may get back from the trash,
   refined by `Retention`, as `UploadContract` is by `UploadLifecycle`; then one of
   the ledger (a key takes effect at most once) and of the quota (a sum that never
   passes its bound), whose refinements follow from `LedgerInv` and `QuotaInv`.
