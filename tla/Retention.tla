------------------------------- MODULE Retention -------------------------------
(***************************************************************************)
(* The trash of a drive and the bytes behind it: what may be read, what    *)
(* may still be got back, and what the purge worker may delete. Requests   *)
(* trash and restore items, ask for permanent deletion, keep versions for  *)
(* ever and make old ones current, while uploads are reserved, published   *)
(* and given up and the purge worker queues, claims and carries out        *)
(* deletions. Items are moved meanwhile.                                   *)
(*                                                                         *)
(* Restores, retention changes and deletion claims exclude one another     *)
(* through one advisory lock per drive; trashing, moves, uploads and the   *)
(* statement that queues expired trash do not take it. A transaction is    *)
(* one action, except a restore and a move, whose checks and whose update  *)
(* are two, and the two places that act on what an earlier statement read. *)
(***************************************************************************)
EXTENDS Naturals

CONSTANTS
    File, Folder,   \* the items (rows of drive.item), without the root
    HomeOf,         \* where each folder was created
    Root, NoItem,
    Version,        \* file versions (rows of drive.file_version)
    ItemOf,         \* the item of each version
    Movable,        \* bound: the items somebody moves
    MaxDeletions    \* blob_deletion_job.max_attempts (10)

Item == File \cup Folder
Location == Folder \cup {Root}

ASSUME ItemAssumption ==
    /\ File \cap Folder = {}
    /\ Root \notin Item
    /\ NoItem \notin Item \cup {Root}
    /\ HomeOf \in [Folder -> Location]
    /\ ItemOf \in [Version -> File]
    /\ Movable \subseteq Item

ASSUME DeletionAssumption == MaxDeletions \in Nat \ {0}

VARIABLES
    parent,            \* item.parent_id; NoItem: no such row yet
    trashed,           \* item.trashed_at is set
    purgeDue,          \* item.purge_after <= now()
    versionState,      \* file_version.state
    isCurrent,         \* file_version.is_current
    keepForever,       \* file_version.keep_forever
    everReady,         \* file_version.ready_at is set
    stored,            \* the object under file_version.storage_key exists
    deletionStatus,    \* blob_deletion_job.status
    deletionAttempts,  \* blob_deletion_job.attempts
    destination,       \* the folder a reservation has resolved, or NoItem
    candidates,        \* the versions the expiry statement has selected
    restoring,         \* the item a restore that has passed its check is of
    moving,            \* the folder a move of the item has checked, or NoItem
    slipped            \* history: files with nothing left to read that a move
                       \* put below the item being restored (no guard reads it)

itemVars     == <<parent, trashed, purgeDue>>
versionVars  == <<versionState, isCurrent, keepForever, everReady>>
deletionVars == <<deletionStatus, deletionAttempts>>
moveVars     == <<moving, slipped>>
requestVars  == <<destination, candidates, restoring, moveVars>>
vars == <<parent, trashed, purgeDue, versionState, isCurrent, keepForever,
          everReady, stored, deletionStatus, deletionAttempts,
          destination, candidates, restoring, moving, slipped>>

-----------------------------------------------------------------------------
VersionState == {"none", "pending", "ready", "failed", "deleting", "deleted"}
JobStatus    == {"none", "queued", "processing", "succeeded", "failed"}

TypeOK ==
    /\ parent \in [Item -> Location \cup {NoItem}]
    /\ trashed \in [Item -> BOOLEAN]
    /\ purgeDue \in [Item -> BOOLEAN]
    /\ versionState \in [Version -> VersionState]
    /\ isCurrent \in [Version -> BOOLEAN]
    /\ keepForever \in [Version -> BOOLEAN]
    /\ everReady \in [Version -> BOOLEAN]
    /\ stored \in [Version -> BOOLEAN]
    /\ deletionStatus \in [Version -> JobStatus]
    /\ deletionAttempts \in [Version -> 0 .. MaxDeletions]
    /\ destination \in [Version -> Location \cup {NoItem}]
    /\ candidates \subseteq Version
    /\ restoring \in Item \cup {NoItem}
    /\ moving \in [Item -> Location \cup {NoItem}]
    /\ slipped \subseteq File

Init ==
    /\ parent = [i \in Item |-> IF i \in Folder THEN HomeOf[i] ELSE NoItem]
    /\ trashed = [i \in Item |-> FALSE]
    /\ purgeDue = [i \in Item |-> FALSE]
    /\ versionState = [v \in Version |-> "none"]
    /\ isCurrent = [v \in Version |-> FALSE]
    /\ keepForever = [v \in Version |-> FALSE]
    /\ everReady = [v \in Version |-> FALSE]
    /\ stored = [v \in Version |-> FALSE]
    /\ deletionStatus = [v \in Version |-> "none"]
    /\ deletionAttempts = [v \in Version |-> 0]
    /\ destination = [v \in Version |-> NoItem]
    /\ candidates = {}
    /\ restoring = NoItem
    /\ moving = [i \in Item |-> NoItem]
    /\ slipped = {}

-----------------------------------------------------------------------------
(* What the statements read. *)

Exists(i) == parent[i] # NoItem
Live(i)   == Exists(i) /\ ~trashed[i]

Available(p) == p = Root \/ (p \in Folder /\ ~trashed[p])

\* The recursive query "subtree": the least set with i and the children of its
\* members.
Closed(S)  == \A k \in Item : parent[k] \in S => k \in S
Subtree(i) == {j \in Item : \A S \in SUBSET Item : i \in S /\ Closed(S) => j \in S}

VersionsOf(i) == {v \in Version : ItemOf[v] = i}
Shown(v)      == isCurrent[v] /\ versionState[v] = "ready"
Purged(v)     == versionState[v] \in {"deleting", "deleted"}

\* Faulty: a deletion that is over is not thought of.
BeingLost(i) == /\ \E v \in VersionsOf(i) : versionState[v] = "deleting"
                /\ ~\E v \in VersionsOf(i) : Shown(v)

\* A file whose bytes are going or gone, with no current version left.
Lost(i) == /\ \E v \in VersionsOf(i) : Purged(v)
           /\ ~\E v \in VersionsOf(i) : Shown(v)

HadContent(i) == \E v \in VersionsOf(i) : everReady[v]

\* The files below an item that could be read once and cannot any more.
LostIn(i) == {k \in Subtree(i) \cap File : HadContent(k) /\ Lost(k)}

\* The deletion boundary of restoreItem.
DeletionStarted(i) == \E j \in Subtree(i) \cap File : Lost(j)

\* Faulty: a kept version in an expired trash is as eligible as another one.
ExpiredInTrash(v) ==
    versionState[v] = "ready" /\ trashed[ItemOf[v]] /\ purgeDue[ItemOf[v]]

Expired(v) ==
    /\ versionState[v] = "ready"
    /\ trashed[ItemOf[v]]
    /\ purgeDue[ItemOf[v]]
    /\ ~keepForever[v]

\* Faulty: what has been queued is deleted, as the job says.
AlwaysEligible(v) == TRUE

\* What a claim checks again, under the lock. Quarantined versions are left out.
Eligible(v) == versionState[v] \in {"failed", "deleting"} \/ Expired(v)

\* The jobs a restore or a retention change takes back: never one under way.
Unstarted(v) == deletionStatus[v] \in {"queued", "failed"}

\* Faulty: a claim goes on although the lock is taken.
LockIgnored == TRUE

LockFree == restoring = NoItem

\* A move holds the row of its item (FOR UPDATE) until it ends.
RowFree(i) == moving[i] = NoItem

\* A row that comes to refer to folder p locks p's row (KEY SHARE, by the foreign
\* key): it waits for a move or a restore of p, but not for p being trashed.
ParentFree(p) == p # restoring /\ (p \in Folder => RowFree(p))

\* Faulty: one attempt too many.
BeyondLastAttempt(v) == deletionAttempts[v] > MaxDeletions

Exhausted(v) == deletionAttempts[v] >= MaxDeletions

\* Faulty: a restored item returns to its folder, in the trash or not.
OriginalParent(p) == p

RestoredParent(p) == IF Available(p) THEN p ELSE Root

\* DELETE FROM drive.blob_deletion_job, for the versions of V.
DeleteJobs(V) ==
    /\ deletionStatus' = [v \in Version |-> IF v \in V THEN "none" ELSE deletionStatus[v]]
    /\ deletionAttempts' = [v \in Version |-> IF v \in V THEN 0 ELSE deletionAttempts[v]]

-----------------------------------------------------------------------------
(* Uploads, as far as the trash can see them. None of them takes the lock. *)

\* The folder is looked up before the transaction begins.
ResolveDestination(v, p) ==
    /\ versionState[v] = "none"
    /\ destination[v] = NoItem
    /\ Available(p)
    /\ destination' = [destination EXCEPT ![v] = p]
    /\ UNCHANGED <<itemVars, versionVars, stored, deletionVars, candidates, restoring, moveVars>>

\* A new file, or a revision of the live file of that folder.
ReserveUpload(v) ==
    /\ versionState[v] = "none"
    /\ destination[v] # NoItem
    /\ \/ /\ ~Exists(ItemOf[v])
          /\ ParentFree(destination[v])
          /\ parent' = [parent EXCEPT ![ItemOf[v]] = destination[v]]
       \/ /\ parent[ItemOf[v]] = destination[v]
          /\ Live(ItemOf[v])
          /\ RowFree(ItemOf[v])
          /\ UNCHANGED parent
    /\ versionState' = [versionState EXCEPT ![v] = "pending"]
    /\ destination' = [destination EXCEPT ![v] = NoItem]
    /\ UNCHANGED <<trashed, purgeDue, isCurrent, keepForever, everReady, stored,
                   deletionVars, candidates, restoring, moveVars>>

\* The version becomes the current one, wherever its item is by now.
CompleteUpload(v) ==
    /\ versionState[v] = "pending"
    /\ versionState' = [versionState EXCEPT ![v] = "ready"]
    /\ isCurrent' = [w \in Version |->
           w = v \/ (isCurrent[w] /\ ~(ItemOf[w] = ItemOf[v] /\ versionState[w] = "ready"))]
    /\ everReady' = [everReady EXCEPT ![v] = TRUE]
    /\ stored' = [stored EXCEPT ![v] = TRUE]
    /\ UNCHANGED <<itemVars, keepForever, deletionVars, requestVars>>

\* An upload aborted, expired or failed: its version is left to the purge
\* worker, and its item stays as it is.
AbandonUpload(v) ==
    /\ versionState[v] = "pending"
    /\ versionState' = [versionState EXCEPT ![v] = "failed"]
    /\ deletionStatus' = [deletionStatus EXCEPT ![v] = "queued"]
    /\ UNCHANGED <<itemVars, isCurrent, keepForever, everReady, stored,
                   deletionAttempts, requestVars>>

-----------------------------------------------------------------------------
(* The trash. *)

\* setItemTrashed: the whole subtree, whatever was in the trash before, with a
\* new deadline. It waits for the row a restore has locked, and for those of the
\* items under way to another folder.
SetItemTrashed(i) ==
    /\ Live(i)
    /\ restoring \notin Subtree(i)
    /\ \A j \in Subtree(i) : RowFree(j)
    /\ trashed' = [j \in Item |-> trashed[j] \/ j \in Subtree(i)]
    /\ purgeDue' = [j \in Item |-> purgeDue[j] /\ j \notin Subtree(i)]
    /\ UNCHANGED <<parent, versionVars, stored, deletionVars, requestVars>>

\* Thirty days go by; every item has its own deadline.
PurgeDeadlinePasses(i) ==
    /\ trashed[i]
    /\ ~purgeDue[i]
    /\ purgeDue' = [purgeDue EXCEPT ![i] = TRUE]
    /\ UNCHANGED <<parent, trashed, versionVars, stored, deletionVars, requestVars>>

\* restoreItem up to the deletion of the jobs, with the drive's lock and the
\* item's row lock held.
BeginRestore(i) ==
    /\ LockFree
    /\ trashed[i]
    /\ ~DeletionStarted(i)
    /\ DeleteJobs({v \in Version : /\ ItemOf[v] \in Subtree(i)
                                   /\ versionState[v] = "ready"
                                   /\ Unstarted(v)})
    /\ restoring' = i
    /\ UNCHANGED <<itemVars, versionVars, stored, destination, candidates, moveVars>>

\* The rest of it: the original folder or else the root, and the whole subtree
\* out of the trash. A row of it that a move holds is waited for and then written
\* as the statement has seen it: as the move writes another column, the two end
\* as if the restore had been first.
FinishRestore ==
    LET i == restoring
    IN  /\ restoring # NoItem
        /\ parent' = [parent EXCEPT ![i] = RestoredParent(@)]
        /\ trashed' = [j \in Item |-> trashed[j] /\ j \notin Subtree(i)]
        /\ purgeDue' = [j \in Item |-> purgeDue[j] /\ j \notin Subtree(i)]
        /\ restoring' = NoItem
        /\ UNCHANGED <<versionVars, stored, deletionVars, destination, candidates,
                       moveVars>>

\* The purge deadline of a subtree becomes now. A deadline on an item that is
\* not in the trash is refused by item_trash_fields_check, and with it the
\* request. The statement waits for the row a restore has locked.
QueueItemForPermanentDeletion(i) ==
    /\ trashed[i]
    /\ restoring \notin Subtree(i)
    /\ \A j \in Subtree(i) : trashed[j]
    /\ purgeDue' = [j \in Item |-> purgeDue[j] \/ j \in Subtree(i)]
    /\ UNCHANGED <<parent, trashed, versionVars, stored, deletionVars, requestVars>>

\* The same for all items in the trash. A restore has locked one of them.
QueueAllTrashForPermanentDeletion ==
    /\ restoring = NoItem
    /\ \E i \in Item : trashed[i]
    /\ purgeDue' = [i \in Item |-> trashed[i]]
    /\ UNCHANGED <<parent, trashed, versionVars, stored, deletionVars, requestVars>>

-----------------------------------------------------------------------------
(* Moves. *)

\* UpdateItem up to its update: the item is live, and its row locked; the folder
\* is live and not below the item, and is not locked.
BeginMove(i, p) ==
    /\ i \in Movable
    /\ Live(i)
    /\ RowFree(i)
    /\ Available(p)
    /\ p # parent[i]
    /\ p \notin Subtree(i)
    /\ moving' = [moving EXCEPT ![i] = p]
    /\ UNCHANGED <<itemVars, versionVars, stored, deletionVars, destination,
                   candidates, restoring, slipped>>

\* The update: whether the folder is still live is not asked again, that it is
\* not below the item is (validate_item_relationships).
FinishMove(i) ==
    /\ ~RowFree(i)
    /\ ParentFree(moving[i])
    /\ moving[i] \notin Subtree(i)
    /\ parent' = [parent EXCEPT ![i] = moving[i]]
    /\ moving' = [moving EXCEPT ![i] = NoItem]
    /\ slipped' = slipped \cup
           {k \in LostIn(i) : restoring # NoItem /\ moving[i] \in Subtree(restoring)}
    /\ UNCHANGED <<trashed, purgeDue, versionVars, stored, deletionVars, destination,
                   candidates, restoring>>

\* A name that is taken there, a cycle, a deadlock: nothing is moved.
RollBackMove(i) ==
    /\ ~RowFree(i)
    /\ moving' = [moving EXCEPT ![i] = NoItem]
    /\ UNCHANGED <<itemVars, versionVars, stored, deletionVars, destination,
                   candidates, restoring, slipped>>

-----------------------------------------------------------------------------
(* Version history. *)

SetVersionKeepForever(v, keep) ==
    /\ LockFree
    /\ Live(ItemOf[v])
    /\ versionState[v] = "ready"
    /\ keepForever' = [keepForever EXCEPT ![v] = keep]
    /\ DeleteJobs({w \in {v} : keep /\ Unstarted(w)})
    /\ UNCHANGED <<itemVars, versionState, isCurrent, everReady, stored, requestVars>>

RestoreFileVersion(v) ==
    /\ LockFree
    /\ Live(ItemOf[v])
    /\ RowFree(ItemOf[v])
    /\ versionState[v] = "ready"
    /\ DeleteJobs({w \in {v} : Unstarted(w)})
    /\ isCurrent' = [w \in Version |->
           w = v \/ (isCurrent[w] /\ ItemOf[w] # ItemOf[v])]
    /\ UNCHANGED <<itemVars, versionState, keepForever, everReady, stored, requestVars>>

-----------------------------------------------------------------------------
(* The purge worker. *)

\* QueueExpiredTrash reads its candidates; it takes no lock.
SelectExpired ==
    /\ candidates = {}
    /\ candidates' = {v \in Version : Expired(v) /\ deletionStatus[v] = "none"}
    /\ candidates' # {}
    /\ UNCHANGED <<itemVars, versionVars, stored, deletionVars, destination, restoring,
                   moveVars>>

\* The same statement inserts their jobs, unless they have one by now.
QueueExpiredTrash ==
    /\ candidates # {}
    /\ deletionStatus' = [v \in Version |->
           IF v \in candidates /\ deletionStatus[v] = "none" THEN "queued"
                                                             ELSE deletionStatus[v]]
    /\ candidates' = {}
    /\ UNCHANGED <<itemVars, versionVars, stored, deletionAttempts, destination, restoring,
                   moveVars>>

\* Faulty: a job that is not eligible is closed, and keeps its row.
CloseJob(v) ==
    /\ deletionStatus' = [deletionStatus EXCEPT ![v] = "succeeded"]
    /\ UNCHANGED deletionAttempts

DropJob(v) == DeleteJobs({v})

\* The claim takes the lock if it is free, skips an item somebody is moving, and
\* checks again what the job is about: the version is deleting from now on, or the
\* job is dropped.
ClaimBlobDeletionJob(v) ==
    /\ LockFree
    /\ RowFree(ItemOf[v])
    /\ deletionStatus[v] = "queued"
    /\ ~Exhausted(v)
    /\ \/ /\ Eligible(v)
          /\ versionState' = [versionState EXCEPT ![v] = "deleting"]
          /\ isCurrent' = [isCurrent EXCEPT ![v] = FALSE]
          /\ deletionStatus' = [deletionStatus EXCEPT ![v] = "processing"]
          /\ deletionAttempts' = [deletionAttempts EXCEPT ![v] = @ + 1]
       \/ /\ ~Eligible(v)
          /\ DropJob(v)
          /\ UNCHANGED <<versionState, isCurrent>>
    /\ UNCHANGED <<itemVars, keepForever, everReady, stored, requestVars>>

\* The worker of the claim, or one whose lease has lapsed, deletes the object.
DeleteBlob(v) ==
    /\ versionState[v] = "deleting"
    /\ stored[v]
    /\ stored' = [stored EXCEPT ![v] = FALSE]
    /\ UNCHANGED <<itemVars, versionVars, deletionVars, requestVars>>

CompleteBlobDeletionJob(v) ==
    /\ deletionStatus[v] = "processing"
    /\ versionState[v] = "deleting"
    /\ ~stored[v]
    /\ versionState' = [versionState EXCEPT ![v] = "deleted"]
    /\ isCurrent' = [isCurrent EXCEPT ![v] = FALSE]
    /\ deletionStatus' = [deletionStatus EXCEPT ![v] = "succeeded"]
    /\ UNCHANGED <<itemVars, keepForever, everReady, stored, deletionAttempts, requestVars>>

\* Faulty: a failed deletion gives the version back.
FailAndGiveBack(v) ==
    /\ deletionStatus[v] = "processing"
    /\ deletionStatus' = [deletionStatus EXCEPT ![v] = "failed"]
    /\ versionState' = [versionState EXCEPT ![v] = IF everReady[v] THEN "ready" ELSE "failed"]
    /\ UNCHANGED <<itemVars, isCurrent, keepForever, everReady, stored,
                   deletionAttempts, requestVars>>

\* The worker reports a failure, or its lease lapses.
FailBlobDeletionJob(v) ==
    /\ deletionStatus[v] = "processing"
    /\ deletionStatus' = [deletionStatus EXCEPT ![v] =
           IF Exhausted(v) THEN "failed" ELSE "queued"]
    /\ UNCHANGED <<itemVars, versionVars, stored, deletionAttempts, requestVars>>

-----------------------------------------------------------------------------
Upload(v) ==
    \/ \E p \in Location : ResolveDestination(v, p)
    \/ ReserveUpload(v)
    \/ CompleteUpload(v)
    \/ AbandonUpload(v)

Trash(i) ==
    \/ SetItemTrashed(i)
    \/ PurgeDeadlinePasses(i)
    \/ BeginRestore(i)
    \/ QueueItemForPermanentDeletion(i)

Move(i) ==
    \/ \E p \in Location : BeginMove(i, p)
    \/ FinishMove(i)
    \/ RollBackMove(i)

History(v) ==
    \/ \E keep \in BOOLEAN : SetVersionKeepForever(v, keep)
    \/ RestoreFileVersion(v)

Purge(v) ==
    \/ ClaimBlobDeletionJob(v)
    \/ DeleteBlob(v)
    \/ CompleteBlobDeletionJob(v)
    \/ FailBlobDeletionJob(v)

Next ==
    \/ \E v \in Version : Upload(v) \/ History(v) \/ Purge(v)
    \/ \E i \in Item : Trash(i) \/ Move(i)
    \/ FinishRestore
    \/ QueueAllTrashForPermanentDeletion
    \/ SelectExpired
    \/ QueueExpiredTrash

Spec == Init /\ [][Next]_vars

\* Deadlines pass, the purge loop runs every minute (main.go starts it once per
\* process), restores end; of the moves not even that is needed. A claim tries the
\* lock and gives up when it is taken; as it tries again independently of the
\* restores, each of which holds the lock for one transaction, it succeeds if it
\* can infinitely often.
Fairness ==
    /\ \A i \in File : WF_vars(PurgeDeadlinePasses(i))
    /\ WF_vars(FinishRestore)
    /\ WF_vars(SelectExpired \/ QueueExpiredTrash)
    /\ \A v \in Version :
           /\ SF_vars(ClaimBlobDeletionJob(v))
           /\ WF_vars(DeleteBlob(v) \/ CompleteBlobDeletionJob(v))

FairSpec == Spec /\ Fairness

-----------------------------------------------------------------------------
(* Properties. *)

\* A file outside the trash that ever had readable content has some now: a
\* current version, ready, with its bytes stored. Restores, stale deletion jobs,
\* version restores, moves and uploads into the trash may come in any order. The
\* exception is a file that came into the subtree of a restore after its check.
LiveReadable ==
    \A i \in File :
        Live(i) /\ HadContent(i) /\ i \notin slipped
            => \E v \in VersionsOf(i) : Shown(v) /\ stored[v]

\* A ready version, current or not, can be downloaded: no worker, however late,
\* deletes bytes the catalogue still offers.
ReadyStored == \A v \in Version : versionState[v] = "ready" => stored[v]

\* A version kept for ever stays ready until somebody gives up keeping it.
KeptVersionSurvives ==
    [][\A v \in Version : keepForever[v] /\ versionState[v] = "ready"
           => versionState'[v] = "ready"]_vars

\* While a restore is between its check and its update, no file it is about to
\* bring back loses what it would be read by: one that has lost it was moved there
\* in between.
RestoreProtects ==
    restoring # NoItem => trashed[restoring] /\ LostIn(restoring) \subseteq slipped

\* A file that ever had readable content still shows a version, unless it lies in
\* the trash with a version purged there, or came below a restore as it was.
ContentAccounted ==
    \A i \in File :
        HadContent(i) => \/ \E v \in VersionsOf(i) : Shown(v)
                         \/ trashed[i] /\ Lost(i)
                         \/ i \in slipped

\* An item on the move is not in the trash: the item of a restore or of a permanent
\* deletion never is on the move.
MoversLive == \A i \in Item : ~RowFree(i) => Live(i)

\* What holds of the trash in every state, as the proofs need it: the parts of it
\* that may be read or restored, what is on the move, and that no version is
\* without its item.
RetentionInvariant ==
    /\ TypeOK
    /\ ReadyStored
    /\ ContentAccounted
    /\ RestoreProtects
    /\ MoversLive
    /\ \A v \in Version : versionState[v] # "none" => Exists(ItemOf[v])

\* Trashing a folder takes its children along, at every depth, and a restore
\* leaves nothing it brings back in a trashed folder: whatever the order of the
\* two, an item turns up live in a trashed folder only late, by a move or as the
\* new file of an upload that has looked at the folder before.
OnlyLateArrivals ==
    [][\A j \in Item : \A i \in Folder :
           /\ parent'[j] = i
           /\ trashed'[i]
           /\ ~trashed'[j]
           => \/ moving[j] = i
              \/ ~Exists(j) /\ \E v \in VersionsOf(j) : destination[v] = i
              \/ parent[j] = i /\ trashed[i] /\ ~trashed[j]]_vars

\* Expired trash is purged in the end, unless it is taken out of the trash
\* or trashed once more (with a new deadline), or its deletion runs out of
\* attempts.
ExpiredTrashPurged ==
    \A v \in Version :
        Expired(v) ~> (versionState[v] = "deleted" \/ ~trashed[ItemOf[v]]
                         \/ deletionStatus[v] = "failed")

\* docs/superpowers/plans/2026-09-13-production-readiness.md:56 says that a
\* restore is rejected "if current bytes are deleting/deleted": an item with
\* something to read, none of whose published versions is deleted, is not.
IntactTrashRestorable ==
    \A i \in Item :
        LET contents == {v \in Version : ItemOf[v] \in Subtree(i)}
        IN  /\ trashed[i]
            /\ \E v \in contents : Shown(v)
            /\ \A v \in contents : everReady[v] => ~Purged(v)
            => ~DeletionStarted(i)

\* The same line read the other way: no restore brings back a file whose bytes are
\* gone. A move of a folder that ends between the check and the update of a restore
\* does (it takes three folders).
RestoredReadable ==
    \A i \in File : Live(i) /\ HadContent(i) => ~Lost(i)

\* docs/DRIVE_PARITY_CHECKLIST.md:25 says that folders are trashed as subtrees.
TrashCoversSubtree ==
    \A i \in Item : trashed[i] => \A j \in Subtree(i) : trashed[j]
=============================================================================
