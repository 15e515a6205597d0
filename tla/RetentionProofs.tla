---------------------------- MODULE RetentionProofs ----------------------------
(***************************************************************************)
(* What holds of Retention for any items, versions and number of deletion  *)
(* attempts.                                                               *)
(*                                                                         *)
(* RetentionInvariant is inductive. A file loses its current version only  *)
(* by a claim, and a claim of a version that can be read finds its item in *)
(* the trash (ContentAccounted). An item leaves the trash only by the      *)
(* restore, whose check has found nothing lost in the subtree; claims wait *)
(* for the lock meanwhile, so that nothing is lost when the items come     *)
(* back (RestoreProtects). A move puts nothing below the restored item but *)
(* its own subtree; what is lost there is what slipped records. Subtrees   *)
(* are least closed sets, which gives their properties without induction.  *)
(***************************************************************************)
EXTENDS Retention, TLAPS

-----------------------------------------------------------------------------
(* Subtrees. *)

\* An item is in its own subtree, which consists of items.
LEMMA SubtreeRoot ==
    ASSUME NEW i \in Item
    PROVE  i \in Subtree(i) /\ Subtree(i) \subseteq Item
BY DEF Subtree

\* A child of a member of a subtree is a member.
LEMMA SubtreeClosed ==
    ASSUME NEW i \in Item, NEW j \in Item, parent[j] \in Subtree(i)
    PROVE  j \in Subtree(i)
<1> SUFFICES ASSUME NEW S \in SUBSET Item, i \in S, Closed(S)
             PROVE  j \in S
  BY DEF Subtree
<1>1. parent[j] \in S
  BY DEF Subtree
<1> QED BY <1>1 DEF Closed

\* A member of a subtree is its root or the child of a member.
LEMMA SubtreeParent ==
    ASSUME NEW i \in Item, NEW j \in Subtree(i), j # i
    PROVE  parent[j] \in Subtree(i)
<1> DEFINE S == {k \in Subtree(i) : k = i \/ parent[k] \in Subtree(i)}
<1>1. S \in SUBSET Item /\ i \in S
  BY SubtreeRoot
<1>2. Closed(S)
  <2> SUFFICES ASSUME NEW k \in Item, parent[k] \in S
               PROVE  k \in S
    BY DEF Closed
  <2> QED BY SubtreeClosed
<1>3. j \in S
  <2> HIDE DEF S
  <2> QED BY <1>1, <1>2 DEF Subtree
<1> QED BY <1>3

\* A new file, put anywhere, is all that a subtree may gain: nothing is in it.
LEMMA SubtreeOfNewFile ==
    ASSUME TypeOK, NEW i \in Item, NEW n \in File, NEW p \in Location,
           parent' = [parent EXCEPT ![n] = p]
    PROVE  Subtree(i)' \subseteq Subtree(i) \cup {n}
<1> DEFINE S == Subtree(i) \cup {n}
<1>1. S \in SUBSET Item /\ i \in S
  BY SubtreeRoot DEF Item
<1>2. ASSUME NEW k \in Item, parent'[k] \in S
      PROVE  k \in S
  <2>1. CASE k = n
    BY <2>1
  <2>2. CASE k # n
    <3>1. parent'[k] = parent[k]
      BY <2>2
    <3>2. parent[k] # n
      BY ItemAssumption DEF TypeOK, Item, Location
    <3> QED BY <3>1, <3>2, <1>2, SubtreeClosed
  <2> QED BY <2>1, <2>2
<1>3. Subtree(i)' \subseteq S
  <2> SUFFICES ASSUME NEW j \in Subtree(i)'
               PROVE  j \in S
    OBVIOUS
  <2>1. (\A T \in SUBSET Item : i \in T /\ Closed(T) => j \in T)'
    BY DEF Subtree
  <2>2. \A T \in SUBSET Item : i \in T /\ (\A k \in Item : parent'[k] \in T => k \in T) => j \in T
    BY <2>1 DEF Closed
  <2> HIDE DEF S
  <2> QED BY <2>2, <1>1, <1>2
<1> QED BY <1>3

\* A move adds to a subtree, if anything, the subtree of what is moved.
LEMMA SubtreeOfMoved ==
    ASSUME TypeOK, NEW i \in Item, NEW n \in Item, NEW p \in Location,
           parent' = [parent EXCEPT ![n] = p]
    PROVE  Subtree(i)' \subseteq Subtree(i) \cup {k \in Subtree(n) : p \in Subtree(i)}
<1> DEFINE S == Subtree(i) \cup {k \in Subtree(n) : p \in Subtree(i)}
<1>1. S \in SUBSET Item /\ i \in S
  BY SubtreeRoot
<1>2. ASSUME NEW k \in Item, parent'[k] \in S
      PROVE  k \in S
  <2>1. CASE k = n
    <3>1. parent'[n] = p
      BY DEF TypeOK
    <3>2. p \in Subtree(i)
      BY <1>2, <2>1, <3>1
    <3> QED BY <2>1, <3>2, SubtreeRoot
  <2>2. CASE k # n
    <3>1. parent'[k] = parent[k]
      BY <2>2 DEF TypeOK
    <3> QED BY <3>1, <1>2, SubtreeClosed
  <2> QED BY <2>1, <2>2
<1>3. Subtree(i)' \subseteq S
  <2> SUFFICES ASSUME NEW j \in Subtree(i)'
               PROVE  j \in S
    OBVIOUS
  <2>1. (\A T \in SUBSET Item : i \in T /\ Closed(T) => j \in T)'
    BY DEF Subtree
  <2>2. \A T \in SUBSET Item : i \in T /\ (\A k \in Item : parent'[k] \in T => k \in T) => j \in T
    BY <2>1 DEF Closed
  <2> HIDE DEF S
  <2> QED BY <2>2, <1>1, <1>2
<1> QED BY <1>3

\* As long as parents stay, so do subtrees.
LEMMA SubtreeSame ==
    ASSUME UNCHANGED parent, NEW i \in Item
    PROVE  Subtree(i)' = Subtree(i)
BY DEF Subtree, Closed

-----------------------------------------------------------------------------
(* Types. *)

\* Dropping jobs keeps the columns of the others.
LEMMA DeleteJobsTypes ==
    ASSUME TypeOK, NEW V \in SUBSET Version, DeleteJobs(V)
    PROVE  /\ deletionStatus' \in [Version -> JobStatus]
           /\ deletionAttempts' \in [Version -> 0 .. MaxDeletions]
BY DeletionAssumption DEF TypeOK, DeleteJobs, JobStatus

\* Every step keeps the types.
LEMMA TypeStep ==
    ASSUME TypeOK, [Next]_vars
    PROVE  TypeOK'
<1> USE ItemAssumption, DeletionAssumption
<1>1. ASSUME NEW v \in Version, Upload(v)
      PROVE  TypeOK'
  <2>1. ASSUME NEW p \in Location, ResolveDestination(v, p)
        PROVE  TypeOK'
    BY <2>1 DEF TypeOK, ResolveDestination, itemVars, versionVars, deletionVars, moveVars
  <2>2. CASE ReserveUpload(v)
    BY <2>2 DEF TypeOK, ReserveUpload, deletionVars, moveVars, VersionState, Item
  <2>3. CASE CompleteUpload(v)
    BY <2>3 DEF TypeOK, CompleteUpload, itemVars, deletionVars, requestVars, moveVars, VersionState
  <2>4. CASE AbandonUpload(v)
    BY <2>4 DEF TypeOK, AbandonUpload, itemVars, requestVars, moveVars, VersionState, JobStatus
  <2> QED BY <1>1, <2>1, <2>2, <2>3, <2>4 DEF Upload
<1>2. ASSUME NEW v \in Version, History(v)
      PROVE  TypeOK'
  <2>1. ASSUME NEW keep \in BOOLEAN, SetVersionKeepForever(v, keep)
        PROVE  TypeOK'
    <3>1. {w \in {v} : keep /\ Unstarted(w)} \in SUBSET Version
      OBVIOUS
    <3> QED BY <2>1, <3>1, DeleteJobsTypes
            DEF TypeOK, SetVersionKeepForever, itemVars, requestVars, moveVars
  <2>2. CASE RestoreFileVersion(v)
    <3>1. {w \in {v} : Unstarted(w)} \in SUBSET Version
      OBVIOUS
    <3> QED BY <2>2, <3>1, DeleteJobsTypes
            DEF TypeOK, RestoreFileVersion, itemVars, requestVars, moveVars
  <2> QED BY <1>2, <2>1, <2>2 DEF History
<1>3. ASSUME NEW v \in Version, Purge(v)
      PROVE  TypeOK'
  <2>1. CASE ClaimBlobDeletionJob(v)
    <3>1. CASE Eligible(v)
               /\ versionState' = [versionState EXCEPT ![v] = "deleting"]
               /\ isCurrent' = [isCurrent EXCEPT ![v] = FALSE]
               /\ deletionStatus' = [deletionStatus EXCEPT ![v] = "processing"]
               /\ deletionAttempts' = [deletionAttempts EXCEPT ![v] = @ + 1]
      <4>1. deletionAttempts[v] + 1 \in 0 .. MaxDeletions
        BY <2>1 DEF TypeOK, ClaimBlobDeletionJob, Exhausted
      <4> QED BY <2>1, <3>1, <4>1
              DEF TypeOK, ClaimBlobDeletionJob, itemVars, requestVars, moveVars, VersionState, JobStatus
    <3>2. CASE DropJob(v) /\ UNCHANGED <<versionState, isCurrent>>
      BY <2>1, <3>2, DeleteJobsTypes
         DEF TypeOK, ClaimBlobDeletionJob, DropJob, itemVars, requestVars, moveVars
    <3> QED BY <2>1, <3>1, <3>2 DEF ClaimBlobDeletionJob
  <2>2. CASE DeleteBlob(v)
    BY <2>2 DEF TypeOK, DeleteBlob, itemVars, versionVars, deletionVars, requestVars, moveVars
  <2>3. CASE CompleteBlobDeletionJob(v)
    BY <2>3 DEF TypeOK, CompleteBlobDeletionJob, itemVars, requestVars, moveVars, VersionState, JobStatus
  <2>4. CASE FailBlobDeletionJob(v)
    BY <2>4 DEF TypeOK, FailBlobDeletionJob, itemVars, versionVars, requestVars, moveVars, JobStatus
  <2> QED BY <1>3, <2>1, <2>2, <2>3, <2>4 DEF Purge
<1>4. ASSUME NEW i \in Item, Trash(i)
      PROVE  TypeOK'
  <2>1. CASE SetItemTrashed(i)
    BY <2>1 DEF TypeOK, SetItemTrashed, versionVars, deletionVars, requestVars, moveVars
  <2>2. CASE PurgeDeadlinePasses(i)
    BY <2>2 DEF TypeOK, PurgeDeadlinePasses, versionVars, deletionVars, requestVars, moveVars
  <2>3. CASE BeginRestore(i)
    <3>1. {v \in Version : /\ ItemOf[v] \in Subtree(i)
                           /\ versionState[v] = "ready"
                           /\ Unstarted(v)} \in SUBSET Version
      OBVIOUS
    <3> QED BY <2>3, <3>1, DeleteJobsTypes DEF TypeOK, BeginRestore, itemVars, versionVars, moveVars
  <2>4. CASE QueueItemForPermanentDeletion(i)
    BY <2>4 DEF TypeOK, QueueItemForPermanentDeletion, versionVars, deletionVars, requestVars, moveVars
  <2> QED BY <1>4, <2>1, <2>2, <2>3, <2>4 DEF Trash
<1>5. CASE FinishRestore
  <2>1. RestoredParent(parent[restoring]) \in Location \cup {NoItem}
    BY <1>5 DEF TypeOK, FinishRestore, RestoredParent, Location
  <2> QED BY <1>5, <2>1 DEF TypeOK, FinishRestore, versionVars, deletionVars, moveVars
<1>6. CASE QueueAllTrashForPermanentDeletion
  BY <1>6 DEF TypeOK, QueueAllTrashForPermanentDeletion, versionVars, deletionVars, requestVars, moveVars
<1>7. CASE SelectExpired
  BY <1>7 DEF TypeOK, SelectExpired, itemVars, versionVars, deletionVars, moveVars
<1>8. CASE QueueExpiredTrash
  BY <1>8 DEF TypeOK, QueueExpiredTrash, itemVars, versionVars, moveVars, JobStatus
<1>9. ASSUME NEW i \in Item, Move(i)
      PROVE  TypeOK'
  <2>1. ASSUME NEW p \in Location, BeginMove(i, p)
        PROVE  TypeOK'
    BY <2>1 DEF TypeOK, BeginMove, itemVars, versionVars, deletionVars
  <2>2. CASE FinishMove(i)
    <3>1. moving[i] \in Location
      BY <2>2 DEF TypeOK, FinishMove, RowFree
    <3>2. slipped' \subseteq File
      BY <2>2 DEF TypeOK, FinishMove, LostIn
    <3> QED BY <2>2, <3>1, <3>2 DEF TypeOK, FinishMove, versionVars, deletionVars
  <2>3. CASE RollBackMove(i)
    BY <2>3 DEF TypeOK, RollBackMove, itemVars, versionVars, deletionVars
  <2> QED BY <1>9, <2>1, <2>2, <2>3 DEF Move
<1>10. CASE UNCHANGED vars
  BY <1>10 DEF TypeOK, vars
<1> QED BY <1>1, <1>2, <1>3, <1>4, <1>5, <1>6, <1>7, <1>8, <1>9, <1>10 DEF Next

-----------------------------------------------------------------------------
(* What is on the move. *)

\* What is on the move stays where it is and out of the trash until it ends: a
\* request that trashes it waits.
LEMMA MoversStep ==
    ASSUME TypeOK, MoversLive, [Next]_vars
    PROVE  MoversLive'
<1> SUFFICES ASSUME NEW k \in Item, ~RowFree(k)'
             PROVE  Live(k)'
  BY DEF MoversLive
<1>1. CASE /\ UNCHANGED moving
           /\ Exists(k) => Exists(k)'
           /\ ~trashed[k] => ~trashed'[k]
  BY <1>1 DEF MoversLive, RowFree, Live
<1>2. ASSUME NEW v \in Version, Upload(v)
      PROVE  Live(k)'
  <2>1. /\ UNCHANGED <<moving, trashed>>
        /\ UNCHANGED parent
             \/ (destination[v] # NoItem /\ parent' = [parent EXCEPT ![ItemOf[v]] = destination[v]])
    BY <1>2 DEF Upload, ResolveDestination, ReserveUpload, CompleteUpload, AbandonUpload,
                itemVars, requestVars, moveVars
  <2>2. Exists(k) => Exists(k)'
    BY <2>1 DEF Exists, TypeOK
  <2> QED BY <1>1, <2>1, <2>2
<1>3. ASSUME NEW v \in Version, History(v) \/ Purge(v)
      PROVE  Live(k)'
  <2>1. UNCHANGED <<moving, trashed, parent>>
    BY <1>3 DEF History, SetVersionKeepForever, RestoreFileVersion, Purge, ClaimBlobDeletionJob,
                DeleteBlob, CompleteBlobDeletionJob, FailBlobDeletionJob,
                itemVars, requestVars, moveVars
  <2> QED BY <1>1, <2>1 DEF Exists
<1>4. ASSUME NEW i \in Item, Trash(i)
      PROVE  Live(k)'
  <2>1. CASE SetItemTrashed(i)
    <3>1. /\ UNCHANGED <<moving, parent>>
          /\ trashed'[k] = (trashed[k] \/ k \in Subtree(i))
          /\ \A j \in Subtree(i) : RowFree(j)
      BY <2>1 DEF SetItemTrashed, requestVars, moveVars
    <3>2. ~RowFree(k) /\ k \notin Subtree(i)
      BY <3>1 DEF RowFree
    <3> QED BY <1>1, <3>1, <3>2 DEF Exists
  <2>2. CASE ~SetItemTrashed(i)
    <3>1. UNCHANGED <<moving, trashed, parent>>
      BY <1>4, <2>2 DEF Trash, PurgeDeadlinePasses, BeginRestore, QueueItemForPermanentDeletion,
                        itemVars, requestVars, moveVars
    <3> QED BY <1>1, <3>1 DEF Exists
  <2> QED BY <2>1, <2>2
<1>5. CASE FinishRestore
  <2>1. /\ UNCHANGED moving
        /\ parent' = [parent EXCEPT ![restoring] = RestoredParent(@)]
        /\ trashed'[k] = (trashed[k] /\ k \notin Subtree(restoring))
    BY <1>5 DEF FinishRestore, moveVars
  <2>2. RestoredParent(parent[restoring]) # NoItem
    BY ItemAssumption DEF RestoredParent, Available, Item
  <2>3. Exists(k) => Exists(k)'
    BY <2>1, <2>2 DEF Exists, TypeOK
  <2> QED BY <1>1, <2>1, <2>3
<1>6. CASE QueueAllTrashForPermanentDeletion \/ SelectExpired \/ QueueExpiredTrash
  <2>1. UNCHANGED <<moving, trashed, parent>>
    BY <1>6 DEF QueueAllTrashForPermanentDeletion, SelectExpired, QueueExpiredTrash,
                itemVars, requestVars, moveVars
  <2> QED BY <1>1, <2>1 DEF Exists
<1>7. ASSUME NEW i \in Item, Move(i)
      PROVE  Live(k)'
  <2>1. ASSUME NEW p \in Location, BeginMove(i, p)
        PROVE  Live(k)'
    <3>1. Live(i) /\ UNCHANGED <<trashed, parent>> /\ moving' = [moving EXCEPT ![i] = p]
      BY <2>1 DEF BeginMove, itemVars
    <3>2. k = i \/ ~RowFree(k)
      BY <3>1 DEF RowFree, TypeOK
    <3>3. Live(k)
      BY <3>1, <3>2 DEF MoversLive
    <3> QED BY <3>1, <3>3 DEF Live, Exists
  <2>2. CASE FinishMove(i)
    <3>1. /\ UNCHANGED trashed
          /\ moving' = [moving EXCEPT ![i] = NoItem]
          /\ parent' = [parent EXCEPT ![i] = moving[i]]
      BY <2>2 DEF FinishMove
    <3>2. k # i /\ ~RowFree(k)
      BY <3>1 DEF RowFree, TypeOK
    <3>3. Live(k)
      BY <3>2 DEF MoversLive
    <3>4. parent'[k] = parent[k]
      BY <3>1, <3>2 DEF TypeOK
    <3> QED BY <3>1, <3>3, <3>4 DEF Live, Exists
  <2>3. CASE RollBackMove(i)
    <3>1. UNCHANGED <<trashed, parent>> /\ moving' = [moving EXCEPT ![i] = NoItem]
      BY <2>3 DEF RollBackMove, itemVars
    <3>2. Live(k)
      BY <3>1 DEF MoversLive, RowFree, TypeOK
    <3> QED BY <3>1, <3>2 DEF Live, Exists
  <2> QED BY <1>7, <2>1, <2>2, <2>3 DEF Move
<1>8. CASE UNCHANGED vars
  BY <1>1, <1>8 DEF vars, Exists
<1> QED BY <1>2, <1>3, <1>4, <1>5, <1>6, <1>7, <1>8 DEF Next

-----------------------------------------------------------------------------
(* The content of the files. *)

\* What a file shows and whether it is lost depends on its own versions.
LEMMA LostFrame ==
    ASSUME NEW i \in File,
           \A w \in VersionsOf(i) : /\ versionState'[w] = versionState[w]
                                    /\ isCurrent'[w] = isCurrent[w]
    PROVE  /\ Lost(i)' = Lost(i)
           /\ \A w \in VersionsOf(i) : Shown(w)' = Shown(w)
<1>1. \A w \in VersionsOf(i) : Shown(w)' = Shown(w) /\ Purged(w)' = Purged(w)
  BY DEF Shown, Purged
<1>2. VersionsOf(i)' = VersionsOf(i)
  BY DEF VersionsOf
<1>3. (\E w \in VersionsOf(i) : Purged(w))' <=> \E w \in VersionsOf(i) : Purged(w)
  BY <1>1, <1>2
<1>4. (\E w \in VersionsOf(i) : Shown(w))' <=> \E w \in VersionsOf(i) : Shown(w)
  BY <1>1, <1>2
<1> QED BY <1>1, <1>3, <1>4 DEF Lost

\* What is lost below an item depends on the tree and the versions.
LEMMA LostInFrame ==
    ASSUME UNCHANGED <<parent, versionState, isCurrent, everReady>>, NEW r \in Item
    PROVE  LostIn(r)' = LostIn(r)
<1>1. Subtree(r)' = Subtree(r)
  BY SubtreeSame
<1>2. \A k \in File : Lost(k)' = Lost(k)
  BY LostFrame
<1>3. \A k \in File : HadContent(k)' = HadContent(k)
  BY DEF HadContent, VersionsOf
<1> QED BY <1>1, <1>2, <1>3 DEF LostIn

\* An item below which nothing is lost passes the check of a restore, and if one
\* passes, nothing is lost there.
LEMMA BoundaryNotCrossed ==
    ASSUME NEW r \in Item, ~DeletionStarted(r)
    PROVE  LostIn(r) = {}
BY DEF DeletionStarted, LostIn

\* A step that touches no version and takes nothing out of the trash, and may
\* begin a restore that passes the check.
LEMMA RequestStep ==
    ASSUME RetentionInvariant, TypeOK', MoversLive', ReadyStored',
           UNCHANGED <<parent, versionState, isCurrent, everReady, slipped>>,
           \A i \in Item : trashed[i] => trashed'[i],
           \/ restoring' = restoring
           \/ trashed[restoring'] /\ ~DeletionStarted(restoring')
    PROVE  RetentionInvariant'
<1> USE DEF RetentionInvariant
<1>1. \A i \in File : Lost(i)' = Lost(i)
  BY LostFrame
<1>2. ContentAccounted'
  <2> SUFFICES ASSUME NEW i \in File, HadContent(i)'
               PROVE  \/ (\E v \in VersionsOf(i) : Shown(v))'
                      \/ trashed'[i] /\ Lost(i)'
                      \/ i \in slipped'
    BY DEF ContentAccounted
  <2>1. (\E v \in VersionsOf(i) : Shown(v)) \/ (trashed[i] /\ Lost(i)) \/ i \in slipped
    BY DEF ContentAccounted, HadContent, VersionsOf
  <2> QED BY <2>1, <1>1 DEF Shown, VersionsOf, Item
<1>3. RestoreProtects'
  <2> SUFFICES ASSUME restoring' # NoItem
               PROVE  trashed'[restoring'] /\ LostIn(restoring)' \subseteq slipped'
    BY DEF RestoreProtects
  <2>1. PICK r \in Item : r = restoring'
    BY DEF TypeOK
  <2>2. trashed[r] /\ LostIn(r) \subseteq slipped
    BY <2>1, BoundaryNotCrossed DEF RestoreProtects
  <2>3. LostIn(r)' = LostIn(r)
    BY LostInFrame
  <2>4. LostIn(restoring)' = LostIn(r)'
    BY <2>1 DEF LostIn, Subtree, Closed
  <2> QED BY <2>1, <2>2, <2>3, <2>4
<1>4. (\A v \in Version : versionState[v] # "none" => Exists(ItemOf[v]))'
  BY DEF Exists
<1> QED BY <1>2, <1>3, <1>4

\* A step that touches versions of one file only, and under the lock if it may
\* lose the file's content.
LEMMA VersionStep ==
    ASSUME RetentionInvariant, TypeOK', MoversLive', ReadyStored', NEW n \in File,
           UNCHANGED <<parent, trashed, restoring, slipped>>,
           \A w \in Version : ItemOf[w] # n =>
               /\ versionState'[w] = versionState[w]
               /\ isCurrent'[w] = isCurrent[w]
               /\ everReady'[w] = everReady[w],
           \A w \in Version : versionState'[w] # "none" => versionState[w] # "none",
           HadContent(n)'
               => \/ (\E w \in VersionsOf(n) : Shown(w)')
                  \/ trashed[n] /\ Lost(n)'
                  \/ n \in slipped,
           LockFree \/ (Lost(n)' => HadContent(n)' = HadContent(n) /\ Lost(n))
    PROVE  RetentionInvariant'
<1> USE DEF RetentionInvariant
<1>1. ASSUME NEW i \in File, i # n
      PROVE  /\ Lost(i)' = Lost(i)
             /\ HadContent(i)' = HadContent(i)
             /\ \A w \in VersionsOf(i) : Shown(w)' = Shown(w)
  BY <1>1, LostFrame DEF VersionsOf, HadContent
<1>2. ContentAccounted'
  <2> SUFFICES ASSUME NEW i \in File, HadContent(i)'
               PROVE  \/ (\E v \in VersionsOf(i) : Shown(v))'
                      \/ trashed'[i] /\ Lost(i)'
                      \/ i \in slipped'
    BY DEF ContentAccounted
  <2>1. CASE i = n
    BY <2>1 DEF VersionsOf
  <2>2. CASE i # n
    <3>1. (\E v \in VersionsOf(i) : Shown(v)) \/ (trashed[i] /\ Lost(i)) \/ i \in slipped
      BY <2>2, <1>1 DEF ContentAccounted
    <3> QED BY <3>1, <2>2, <1>1 DEF VersionsOf
  <2> QED BY <2>1, <2>2
<1>3. RestoreProtects'
  <2> SUFFICES ASSUME restoring' # NoItem
               PROVE  trashed'[restoring'] /\ LostIn(restoring)' \subseteq slipped'
    BY DEF RestoreProtects
  <2>1. PICK r \in Item : r = restoring
    BY DEF TypeOK
  <2>2. trashed[r] /\ LostIn(r) \subseteq slipped
    BY <2>1 DEF RestoreProtects
  <2>3. Lost(n)' => HadContent(n)' = HadContent(n) /\ Lost(n)
    BY <2>1 DEF LockFree
  <2>4. Subtree(r)' = Subtree(r)
    BY SubtreeSame
  <2>5. LostIn(r)' \subseteq LostIn(r)
    BY <2>3, <2>4, <1>1 DEF LostIn
  <2>6. LostIn(restoring)' = LostIn(r)'
    BY <2>1 DEF LostIn, Subtree, Closed
  <2> QED BY <2>1, <2>2, <2>5, <2>6
<1>4. (\A v \in Version : versionState[v] # "none" => Exists(ItemOf[v]))'
  BY DEF Exists
<1> QED BY <1>2, <1>3, <1>4

-----------------------------------------------------------------------------
(* The steps that touch versions, or parents. *)

\* A reserved version has no content; a new file has no other version.
LEMMA ReserveStep ==
    ASSUME RetentionInvariant, TypeOK', MoversLive', NEW v \in Version, ReserveUpload(v)
    PROVE  RetentionInvariant'
<1> USE DEF RetentionInvariant
<1> DEFINE n == ItemOf[v]
<1>0. n \in File /\ n \in Item
  BY ItemAssumption DEF Item
<1>1. /\ UNCHANGED <<trashed, restoring, isCurrent, everReady, stored, slipped>>
      /\ versionState[v] = "none"
      /\ versionState' = [versionState EXCEPT ![v] = "pending"]
  BY DEF ReserveUpload, moveVars
<1>2. \A w \in Version : /\ w # v => versionState'[w] = versionState[w]
                         /\ versionState'[v] = "pending"
  BY <1>1 DEF TypeOK
<1>3. \A w \in Version : Shown(w)' = Shown(w) /\ Purged(w)' = Purged(w)
  BY <1>1, <1>2 DEF Shown, Purged
<1>4. ReadyStored'
  BY <1>1, <1>2 DEF ReadyStored
<1>5. \A i \in File : Lost(i)' = Lost(i) /\ HadContent(i)' = HadContent(i)
  <2>1. \A i \in File : Lost(i)' = Lost(i)
    BY <1>3 DEF Lost, VersionsOf
  <2>2. \A i \in File : HadContent(i)' = HadContent(i)
    BY <1>1 DEF HadContent, VersionsOf
  <2> QED BY <2>1, <2>2
<1>6. ContentAccounted'
  BY <1>1, <1>3, <1>5 DEF ContentAccounted, VersionsOf
<1>7. ~Exists(n) => ~Lost(n)
  <2>1. ~Exists(n) => \A w \in VersionsOf(n) : versionState[w] = "none"
    BY DEF VersionsOf
  <2> QED BY <2>1 DEF Lost, Purged
<1>8. \A r \in Item : Subtree(r)' \subseteq Subtree(r) \cup {k \in {n} : ~Exists(n)}
  <2> SUFFICES ASSUME NEW r \in Item
               PROVE  Subtree(r)' \subseteq Subtree(r) \cup {k \in {n} : ~Exists(n)}
    OBVIOUS
  <2>1. CASE UNCHANGED parent
    BY <2>1, SubtreeSame
  <2>2. CASE ~Exists(n) /\ parent' = [parent EXCEPT ![n] = destination[v]]
    <3>1. destination[v] \in Location
      BY DEF ReserveUpload, TypeOK
    <3>2. Subtree(r)' \subseteq Subtree(r) \cup {n}
      <4> HIDE DEF n
      <4> QED BY <2>2, <3>1, <1>0, SubtreeOfNewFile
    <3> QED BY <2>2, <3>2
  <2> QED BY <2>1, <2>2 DEF ReserveUpload
<1>9. RestoreProtects'
  <2> SUFFICES ASSUME restoring' # NoItem
               PROVE  trashed'[restoring'] /\ LostIn(restoring)' \subseteq slipped'
    BY DEF RestoreProtects
  <2>1. PICK r \in Item : r = restoring
    BY <1>1 DEF TypeOK
  <2>2. trashed[r] /\ LostIn(r) \subseteq slipped
    BY <2>1, <1>1 DEF RestoreProtects
  <2>3. LostIn(r)' \subseteq LostIn(r)
    <3> HIDE DEF n
    <3> QED BY <1>5, <1>7, <1>8 DEF LostIn
  <2>4. LostIn(restoring)' = LostIn(r)'
    BY <2>1, <1>1 DEF LostIn, Subtree, Closed
  <2> QED BY <2>1, <2>2, <2>3, <2>4, <1>1
<1>10. (\A w \in Version : versionState[w] # "none" => Exists(ItemOf[w]))'
  <2>1. CASE UNCHANGED parent /\ Live(n)
    BY <2>1, <1>2 DEF Exists, Live
  <2>2. CASE parent' = [parent EXCEPT ![n] = destination[v]]
    <3>1. destination[v] # NoItem
      BY DEF ReserveUpload
    <3>2. parent'[n] = destination[v] /\ \A i \in Item : i # n => parent'[i] = parent[i]
      <4> HIDE DEF n
      <4> QED BY <2>2, <1>0 DEF TypeOK
    <3> QED BY <3>1, <3>2, <1>2, ItemAssumption DEF Exists, Item
  <2> QED BY <2>1, <2>2 DEF ReserveUpload
<1> QED BY <1>4, <1>6, <1>9, <1>10

\* A published version is shown, so its file is not lost.
LEMMA CompleteStep ==
    ASSUME RetentionInvariant, TypeOK', MoversLive', NEW v \in Version, CompleteUpload(v)
    PROVE  RetentionInvariant'
<1> DEFINE n == ItemOf[v]
<1>0. n \in File /\ v \in VersionsOf(n)
  BY ItemAssumption DEF VersionsOf
<1>1. /\ UNCHANGED <<parent, trashed, restoring, slipped>>
      /\ versionState[v] = "pending"
  BY DEF CompleteUpload, itemVars, requestVars, moveVars
<1>2. /\ versionState'[v] = "ready" /\ isCurrent'[v] /\ stored'[v]
      /\ \A w \in Version : w # v => /\ versionState'[w] = versionState[w]
                                     /\ everReady'[w] = everReady[w]
                                     /\ stored'[w] = stored[w]
      /\ \A w \in Version : ItemOf[w] # n => isCurrent'[w] = isCurrent[w]
  BY DEF RetentionInvariant, TypeOK, CompleteUpload
<1>3. ReadyStored'
  BY <1>2 DEF RetentionInvariant, ReadyStored
<1>4. Shown(v)' /\ ~Lost(n)'
  BY <1>0, <1>2 DEF Shown, Lost, VersionsOf
<1>5. \A w \in Version : versionState'[w] # "none" => versionState[w] # "none"
  BY <1>1, <1>2
<1>6. \A w \in Version : ItemOf[w] # n => /\ versionState'[w] = versionState[w]
                                         /\ isCurrent'[w] = isCurrent[w]
                                         /\ everReady'[w] = everReady[w]
  BY <1>2
<1> HIDE DEF n
<1> QED BY <1>0, <1>1, <1>2, <1>3, <1>4, <1>5, <1>6, VersionStep

\* A version that never was shown fails.
LEMMA AbandonStep ==
    ASSUME RetentionInvariant, TypeOK', MoversLive', NEW v \in Version, AbandonUpload(v)
    PROVE  RetentionInvariant'
<1> DEFINE n == ItemOf[v]
<1>0. n \in File
  BY ItemAssumption
<1>1. /\ UNCHANGED <<parent, trashed, restoring, slipped, isCurrent, everReady, stored>>
      /\ versionState[v] = "pending"
  BY DEF AbandonUpload, itemVars, requestVars, moveVars
<1>2. /\ versionState'[v] = "failed"
      /\ \A w \in Version : w # v => versionState'[w] = versionState[w]
  BY DEF RetentionInvariant, TypeOK, AbandonUpload
<1>3. ReadyStored'
  BY <1>1, <1>2 DEF RetentionInvariant, ReadyStored
<1>4. \A w \in Version : Shown(w)' = Shown(w) /\ Purged(w)' = Purged(w)
  BY <1>1, <1>2 DEF Shown, Purged
<1>5. Lost(n)' = Lost(n) /\ HadContent(n)' = HadContent(n)
  BY <1>1, <1>4 DEF Lost, HadContent, VersionsOf
<1>6. HadContent(n)' => \/ \E w \in VersionsOf(n) : Shown(w)'
                        \/ trashed[n] /\ Lost(n)'
                        \/ n \in slipped
  <2>1. HadContent(n) => \/ \E w \in VersionsOf(n) : Shown(w)
                         \/ trashed[n] /\ Lost(n)
                         \/ n \in slipped
    BY <1>0 DEF RetentionInvariant, ContentAccounted
  <2>2. \A w \in VersionsOf(n) : Shown(w) => Shown(w)'
    BY <1>4 DEF VersionsOf
  <2> QED BY <1>5, <2>1, <2>2
<1>7. \A w \in Version : versionState'[w] # "none" => versionState[w] # "none"
  BY <1>1, <1>2
<1>8. \A w \in Version : ItemOf[w] # n => /\ versionState'[w] = versionState[w]
                                         /\ isCurrent'[w] = isCurrent[w]
                                         /\ everReady'[w] = everReady[w]
  BY <1>1, <1>2
<1> HIDE DEF n
<1> QED BY <1>0, <1>1, <1>2, <1>3, <1>4, <1>5, <1>6, <1>7, <1>8, VersionStep

\* The version made current is ready.
LEMMA RestoreVersionStep ==
    ASSUME RetentionInvariant, TypeOK', MoversLive', NEW v \in Version, RestoreFileVersion(v)
    PROVE  RetentionInvariant'
<1> DEFINE n == ItemOf[v]
<1>0. n \in File /\ v \in VersionsOf(n)
  BY ItemAssumption DEF VersionsOf
<1>1. /\ UNCHANGED <<parent, trashed, restoring, slipped, versionState, everReady, stored>>
      /\ versionState[v] = "ready"
      /\ LockFree
  BY DEF RestoreFileVersion, itemVars, requestVars, moveVars
<1>2. isCurrent'[v] /\ \A w \in Version : ItemOf[w] # n => isCurrent'[w] = isCurrent[w]
  BY DEF RetentionInvariant, TypeOK, RestoreFileVersion
<1>3. ReadyStored'
  BY <1>1 DEF RetentionInvariant, ReadyStored
<1>4. Shown(v)'
  BY <1>1, <1>2 DEF Shown
<1> HIDE DEF n
<1> QED BY <1>0, <1>1, <1>2, <1>3, <1>4, VersionStep

\* A claim that takes a version from a file finds the file in the trash.
LEMMA ClaimStep ==
    ASSUME RetentionInvariant, TypeOK', MoversLive', NEW v \in Version, ClaimBlobDeletionJob(v)
    PROVE  RetentionInvariant'
<1> DEFINE n == ItemOf[v]
<1>0. n \in File /\ v \in VersionsOf(n)
  BY ItemAssumption DEF VersionsOf
<1>1. /\ UNCHANGED <<parent, trashed, restoring, slipped, everReady, stored>>
      /\ LockFree
  BY DEF ClaimBlobDeletionJob, itemVars, requestVars, moveVars
<1>2. CASE UNCHANGED <<versionState, isCurrent>>
  <2>1. ReadyStored'
    BY <1>1, <1>2 DEF RetentionInvariant, ReadyStored
  <2> QED BY <1>1, <1>2, <2>1, RequestStep
<1>3. CASE /\ Eligible(v)
           /\ versionState' = [versionState EXCEPT ![v] = "deleting"]
           /\ isCurrent' = [isCurrent EXCEPT ![v] = FALSE]
  <2>1. /\ versionState'[v] = "deleting"
        /\ \A w \in Version : w # v => /\ versionState'[w] = versionState[w]
                                       /\ isCurrent'[w] = isCurrent[w]
    BY <1>3 DEF RetentionInvariant, TypeOK
  <2>2. ReadyStored'
    BY <1>1, <2>1 DEF RetentionInvariant, ReadyStored
  <2>3. \A w \in Version : w # v => Shown(w)' = Shown(w)
    BY <2>1 DEF Shown
  <2>4. Purged(v)'
    BY <2>1 DEF Purged
  <2>5. ASSUME HadContent(n)', n \notin slipped
        PROVE  (\E w \in VersionsOf(n) : Shown(w)') \/ (trashed[n] /\ Lost(n)')
    <3>1. (\E w \in VersionsOf(n) : Shown(w)) \/ trashed[n]
      BY <2>5, <1>0, <1>1 DEF RetentionInvariant, ContentAccounted, HadContent, VersionsOf
    <3>2. Shown(v) => trashed[n]
      BY <1>3 DEF Eligible, Expired, Shown
    <3>3. trashed[n] \/ \E w \in VersionsOf(n) : Shown(w)'
      BY <3>1, <3>2, <2>3 DEF VersionsOf
    <3>4. Lost(n)' \/ \E w \in VersionsOf(n) : Shown(w)'
      BY <1>0, <2>4 DEF Lost, VersionsOf
    <3> QED BY <3>3, <3>4
  <2>6. versionState[v] # "none"
    BY <1>3 DEF Eligible, Expired
  <2>7. \A w \in Version : versionState'[w] # "none" => versionState[w] # "none"
    BY <2>1, <2>6
  <2>8. \A w \in Version : ItemOf[w] # n => w # v
    OBVIOUS
  <2> HIDE DEF n
  <2> QED BY <1>0, <1>1, <2>1, <2>2, <2>5, <2>7, <2>8, VersionStep
<1> QED BY <1>2, <1>3 DEF ClaimBlobDeletionJob

\* A deleted version was being deleted before.
LEMMA DeletedStep ==
    ASSUME RetentionInvariant, TypeOK', MoversLive', NEW v \in Version, CompleteBlobDeletionJob(v)
    PROVE  RetentionInvariant'
<1> DEFINE n == ItemOf[v]
<1>0. n \in File
  BY ItemAssumption
<1>1. /\ UNCHANGED <<parent, trashed, restoring, slipped, everReady, stored>>
      /\ versionState[v] = "deleting"
  BY DEF CompleteBlobDeletionJob, itemVars, requestVars, moveVars
<1>2. /\ versionState'[v] = "deleted"
      /\ \A w \in Version : w # v => /\ versionState'[w] = versionState[w]
                                     /\ isCurrent'[w] = isCurrent[w]
  BY DEF RetentionInvariant, TypeOK, CompleteBlobDeletionJob
<1>3. ReadyStored'
  BY <1>1, <1>2 DEF RetentionInvariant, ReadyStored
<1>4. \A w \in Version : (Shown(w)' <=> Shown(w)) /\ (Purged(w)' <=> Purged(w))
  BY <1>1, <1>2 DEF Shown, Purged
<1>5. (Lost(n)' <=> Lost(n)) /\ HadContent(n)' = HadContent(n)
  BY <1>1, <1>4 DEF Lost, HadContent, VersionsOf
<1>6. HadContent(n)' => \/ \E w \in VersionsOf(n) : Shown(w)'
                        \/ trashed[n] /\ Lost(n)'
                        \/ n \in slipped
  <2>1. HadContent(n) => \/ \E w \in VersionsOf(n) : Shown(w)
                         \/ trashed[n] /\ Lost(n)
                         \/ n \in slipped
    BY <1>0 DEF RetentionInvariant, ContentAccounted
  <2>2. \A w \in VersionsOf(n) : Shown(w) => Shown(w)'
    BY <1>4 DEF VersionsOf
  <2> QED BY <1>5, <2>1, <2>2
<1>7. \A w \in Version : versionState'[w] # "none" => versionState[w] # "none"
  BY <1>1, <1>2
<1>8. \A w \in Version : ItemOf[w] # n => w # v
  OBVIOUS
<1> HIDE DEF n
<1> QED BY <1>0, <1>1, <1>2, <1>3, <1>5, <1>6, <1>7, <1>8, VersionStep

\* What comes out of the trash has lost nothing: the restore has checked it,
\* and RestoreProtects has kept it so.
LEMMA FinishStep ==
    ASSUME RetentionInvariant, TypeOK', MoversLive', FinishRestore
    PROVE  RetentionInvariant'
<1> USE DEF RetentionInvariant
<1>1. PICK r \in Item : r = restoring
  BY DEF FinishRestore, TypeOK
<1>2. /\ UNCHANGED <<versionState, isCurrent, everReady, stored, slipped>>
      /\ restoring' = NoItem
      /\ parent' = [parent EXCEPT ![r] = RestoredParent(@)]
      /\ trashed' = [j \in Item |-> trashed[j] /\ j \notin Subtree(r)]
  BY <1>1 DEF FinishRestore, versionVars, moveVars
<1>3. LostIn(r) \subseteq slipped
  BY <1>1 DEF RestoreProtects, FinishRestore
<1>4. \A i \in File : Lost(i)' = Lost(i)
  BY <1>2, LostFrame
<1>5. \A i \in File : HadContent(i) /\ Lost(i) /\ i \in Subtree(r) => i \in slipped
  BY <1>3 DEF LostIn
<1>6. ContentAccounted'
  <2> SUFFICES ASSUME NEW i \in File, HadContent(i)'
               PROVE  \/ (\E v \in VersionsOf(i) : Shown(v))'
                      \/ trashed'[i] /\ Lost(i)'
                      \/ i \in slipped'
    BY DEF ContentAccounted
  <2>1. HadContent(i)
    BY <1>2 DEF HadContent, VersionsOf
  <2>2. (\E v \in VersionsOf(i) : Shown(v)) \/ (trashed[i] /\ Lost(i)) \/ i \in slipped
    BY <2>1 DEF ContentAccounted
  <2>3. Lost(i) /\ trashed[i] => trashed'[i] \/ i \in slipped
    BY <2>1, <1>2, <1>5 DEF Item
  <2> QED BY <2>2, <2>3, <1>2, <1>4 DEF Shown, VersionsOf
<1>7. RestoreProtects'
  BY <1>2 DEF RestoreProtects
<1>8. ReadyStored'
  BY <1>2 DEF ReadyStored
<1>9. (\A v \in Version : versionState[v] # "none" => Exists(ItemOf[v]))'
  <2>1. RestoredParent(parent[r]) # NoItem
    BY ItemAssumption DEF RestoredParent, Available, Item
  <2>2. \A i \in Item : parent[i] # NoItem => parent'[i] # NoItem
    BY <1>2, <2>1 DEF TypeOK
  <2> QED BY <2>2, <1>2, ItemAssumption DEF Exists, Item
<1> QED BY <1>6, <1>7, <1>8, <1>9

\* A move changes no version. What it puts below the restored item, lost, it
\* records.
LEMMA MoveStep ==
    ASSUME RetentionInvariant, TypeOK', MoversLive', NEW n \in Item, FinishMove(n)
    PROVE  RetentionInvariant'
<1> USE DEF RetentionInvariant
<1>1. /\ UNCHANGED <<trashed, restoring, versionState, isCurrent, everReady, stored>>
      /\ parent' = [parent EXCEPT ![n] = moving[n]]
      /\ slipped' = slipped \cup
             {k \in LostIn(n) : restoring # NoItem /\ moving[n] \in Subtree(restoring)}
  BY DEF FinishMove, versionVars
<1>2. moving[n] \in Location /\ moving[n] # NoItem
  BY DEF FinishMove, RowFree, TypeOK
<1>3. \A i \in File : Lost(i)' = Lost(i) /\ HadContent(i)' = HadContent(i)
  BY <1>1, LostFrame DEF HadContent, VersionsOf
<1>4. ReadyStored'
  BY <1>1 DEF ReadyStored
<1>5. ContentAccounted'
  BY <1>1, <1>3 DEF ContentAccounted, Shown, VersionsOf
<1>6. RestoreProtects'
  <2> SUFFICES ASSUME restoring' # NoItem
               PROVE  trashed'[restoring'] /\ LostIn(restoring)' \subseteq slipped'
    BY DEF RestoreProtects
  <2>1. PICK r \in Item : r = restoring /\ r # NoItem
    BY <1>1 DEF TypeOK
  <2>2. trashed[r] /\ LostIn(r) \subseteq slipped
    BY <2>1 DEF RestoreProtects
  <2>3. Subtree(r)' \subseteq Subtree(r) \cup {k \in Subtree(n) : moving[n] \in Subtree(r)}
    BY <1>1, <1>2, SubtreeOfMoved
  <2>4. slipped' = slipped \cup {k \in LostIn(n) : moving[n] \in Subtree(r)}
    BY <1>1, <2>1
  <2>5. ASSUME NEW k \in LostIn(r)'
        PROVE  k \in slipped'
    <3>1. k \in Subtree(r)' /\ k \in File /\ HadContent(k) /\ Lost(k)
      BY <1>3 DEF LostIn
    <3>2. CASE k \in Subtree(r)
      BY <3>1, <3>2, <2>2, <2>4 DEF LostIn
    <3>3. CASE k \in Subtree(n) /\ moving[n] \in Subtree(r)
      BY <3>1, <3>3, <2>4 DEF LostIn
    <3> QED BY <3>1, <3>2, <3>3, <2>3
  <2>6. LostIn(restoring)' = LostIn(r)'
    BY <2>1, <1>1 DEF LostIn, Subtree, Closed
  <2> QED BY <2>1, <2>2, <2>5, <2>6, <1>1
<1>7. (\A v \in Version : versionState[v] # "none" => Exists(ItemOf[v]))'
  BY <1>1, <1>2, ItemAssumption DEF Exists, Item, TypeOK
<1> QED BY <1>4, <1>5, <1>6, <1>7

-----------------
\* Every step keeps the invariant.
LEMMA InvariantStep ==
    ASSUME RetentionInvariant, [Next]_vars
    PROVE  RetentionInvariant'
<1>0. TypeOK' /\ MoversLive'
  BY TypeStep, MoversStep DEF RetentionInvariant
<1>1. ASSUME NEW v \in Version, Upload(v)
      PROVE  RetentionInvariant'
  <2>1. ASSUME NEW p \in Location, ResolveDestination(v, p)
        PROVE  RetentionInvariant'
    BY <2>1, <1>0, RequestStep
       DEF ResolveDestination, itemVars, versionVars, moveVars, RetentionInvariant, ReadyStored
  <2> QED BY <1>0, <1>1, <2>1, ReserveStep, CompleteStep, AbandonStep DEF Upload
<1>2. ASSUME NEW v \in Version, History(v)
      PROVE  RetentionInvariant'
  <2>1. ASSUME NEW keep \in BOOLEAN, SetVersionKeepForever(v, keep)
        PROVE  RetentionInvariant'
    BY <2>1, <1>0, RequestStep
       DEF SetVersionKeepForever, itemVars, requestVars, moveVars, RetentionInvariant, ReadyStored
  <2> QED BY <1>0, <1>2, <2>1, RestoreVersionStep DEF History
<1>3. ASSUME NEW v \in Version, Purge(v)
      PROVE  RetentionInvariant'
  <2>1. CASE DeleteBlob(v)
    <3>1. ReadyStored'
      BY <2>1 DEF DeleteBlob, versionVars, RetentionInvariant, ReadyStored, TypeOK
    <3> QED BY <2>1, <3>1, <1>0, RequestStep DEF DeleteBlob, itemVars, versionVars, requestVars, moveVars
  <2>2. CASE FailBlobDeletionJob(v)
    BY <2>2, <1>0, RequestStep
       DEF FailBlobDeletionJob, itemVars, versionVars, requestVars, moveVars, RetentionInvariant, ReadyStored
  <2> QED BY <1>0, <1>3, <2>1, <2>2, ClaimStep, DeletedStep DEF Purge
<1>4. ASSUME NEW i \in Item, Trash(i)
      PROVE  RetentionInvariant'
  <2>1. CASE SetItemTrashed(i)
    BY <2>1, <1>0, RequestStep
       DEF SetItemTrashed, versionVars, requestVars, moveVars, RetentionInvariant, ReadyStored
  <2>2. CASE PurgeDeadlinePasses(i)
    BY <2>2, <1>0, RequestStep
       DEF PurgeDeadlinePasses, versionVars, requestVars, moveVars, RetentionInvariant, ReadyStored
  <2>3. CASE BeginRestore(i)
    BY <2>3, <1>0, RequestStep
       DEF BeginRestore, itemVars, versionVars, moveVars, RetentionInvariant, ReadyStored
  <2>4. CASE QueueItemForPermanentDeletion(i)
    BY <2>4, <1>0, RequestStep
       DEF QueueItemForPermanentDeletion, versionVars, requestVars, moveVars, RetentionInvariant, ReadyStored
  <2> QED BY <1>4, <2>1, <2>2, <2>3, <2>4 DEF Trash
<1>5. CASE FinishRestore
  BY <1>5, <1>0, FinishStep
<1>6. CASE QueueAllTrashForPermanentDeletion
  BY <1>6, <1>0, RequestStep
     DEF QueueAllTrashForPermanentDeletion, versionVars, requestVars, moveVars, RetentionInvariant, ReadyStored
<1>7. CASE SelectExpired
  BY <1>7, <1>0, RequestStep
     DEF SelectExpired, itemVars, versionVars, moveVars, RetentionInvariant, ReadyStored
<1>8. CASE QueueExpiredTrash
  BY <1>8, <1>0, RequestStep
     DEF QueueExpiredTrash, itemVars, versionVars, moveVars, RetentionInvariant, ReadyStored
<1>9. ASSUME NEW i \in Item, Move(i)
      PROVE  RetentionInvariant'
  <2>1. ASSUME NEW p \in Location, BeginMove(i, p)
        PROVE  RetentionInvariant'
    BY <2>1, <1>0, RequestStep
       DEF BeginMove, itemVars, versionVars, RetentionInvariant, ReadyStored
  <2>2. CASE RollBackMove(i)
    BY <2>2, <1>0, RequestStep
       DEF RollBackMove, itemVars, versionVars, RetentionInvariant, ReadyStored
  <2> QED BY <1>0, <1>9, <2>1, <2>2, MoveStep DEF Move
<1>10. CASE UNCHANGED vars
  BY <1>10, <1>0, RequestStep DEF vars, RetentionInvariant, ReadyStored
<1> QED BY <1>1, <1>2, <1>3, <1>4, <1>5, <1>6, <1>7, <1>8, <1>9, <1>10 DEF Next

\* The invariant holds of every reachable state, of any instance.
THEOREM RetentionInvariance == Spec => []RetentionInvariant
<1>1. Init => RetentionInvariant
  <2> SUFFICES ASSUME Init PROVE RetentionInvariant
    OBVIOUS
  <2>1. TypeOK
    BY ItemAssumption, DeletionAssumption DEF Init, TypeOK, VersionState, JobStatus
  <2>2. ReadyStored /\ ContentAccounted /\ RestoreProtects
    BY DEF Init, ReadyStored, ContentAccounted, RestoreProtects, HadContent, VersionsOf
  <2>3. \A v \in Version : versionState[v] # "none" => Exists(ItemOf[v])
    BY DEF Init
  <2>4. MoversLive
    BY DEF Init, MoversLive, RowFree
  <2> QED BY <2>1, <2>2, <2>3, <2>4 DEF RetentionInvariant
<1>2. RetentionInvariant /\ [Next]_vars => RetentionInvariant'
  BY InvariantStep
<1> QED BY <1>1, <1>2, PTL DEF Spec

\* Every variable keeps its type.
THEOREM RetentionTypeCorrect == Spec => []TypeOK
<1>1. RetentionInvariant => TypeOK
  BY DEF RetentionInvariant
<1> QED BY <1>1, RetentionInvariance, PTL

\* Bytes the catalogue still offers, of old versions too, are not deleted by any
\* worker, however late (claimBlobDeletionCandidate, DeleteObject).
THEOREM Offered == Spec => []ReadyStored
<1>1. RetentionInvariant => ReadyStored
  BY DEF RetentionInvariant
<1> QED BY <1>1, RetentionInvariance, PTL

\* A file outside the trash that ever had content can be read: restores, claims,
\* stale jobs, version restores, moves and uploads may interleave as they like,
\* unless a move put it, lost, below an item whose restore had made its check.
THEOREM Readability == Spec => []LiveReadable
<1>1. RetentionInvariant => LiveReadable
  BY DEF RetentionInvariant, LiveReadable, ContentAccounted, ReadyStored, Live, Shown, VersionsOf
<1> QED BY <1>1, RetentionInvariance, PTL

\* While a restore is under way, what it brings back is not deleted: what is lost
\* there came in by a move.
THEOREM Protection == Spec => []RestoreProtects
<1>1. RetentionInvariant => RestoreProtects
  BY DEF RetentionInvariant
<1> QED BY <1>1, RetentionInvariance, PTL

\* A version kept for ever stays ready: the claim looks at keep_forever again,
\* whatever the job was queued for.
THEOREM Retained == Spec => KeptVersionSurvives
<1>1. ASSUME RetentionInvariant, [Next]_vars
      PROVE  [\A v \in Version : keepForever[v] /\ versionState[v] = "ready"
                 => versionState'[v] = "ready"]_vars
  <2> SUFFICES ASSUME Next, NEW v \in Version, keepForever[v], versionState[v] = "ready"
               PROVE  versionState'[v] = "ready"
    BY <1>1
  <2> USE DEF RetentionInvariant, TypeOK
  <2>1. ASSUME NEW x \in Version, Upload(x)
        PROVE  versionState'[v] = "ready"
    BY <1>1, <2>1 DEF Upload, ResolveDestination, ReserveUpload, CompleteUpload, AbandonUpload, versionVars
  <2>2. ASSUME NEW x \in Version, History(x)
        PROVE  versionState'[v] = "ready"
    BY <2>2 DEF History, SetVersionKeepForever, RestoreFileVersion
  <2>3. ASSUME NEW x \in Version, Purge(x)
        PROVE  versionState'[v] = "ready"
    <3>1. CASE ClaimBlobDeletionJob(x)
      <4>1. ~Eligible(v)
        BY DEF Eligible, Expired
      <4>2. UNCHANGED versionState
               \/ (x # v /\ versionState' = [versionState EXCEPT ![x] = "deleting"])
        BY <3>1, <4>1 DEF ClaimBlobDeletionJob
      <4> QED BY <1>1, <4>2
    <3>2. CASE CompleteBlobDeletionJob(x)
      BY <1>1, <3>2 DEF CompleteBlobDeletionJob
    <3>3. CASE DeleteBlob(x) \/ FailBlobDeletionJob(x)
      BY <3>3 DEF DeleteBlob, FailBlobDeletionJob, versionVars
    <3> QED BY <2>3, <3>1, <3>2, <3>3 DEF Purge
  <2>4. ASSUME NEW i \in Item, Trash(i)
        PROVE  versionState'[v] = "ready"
    BY <2>4 DEF Trash, SetItemTrashed, PurgeDeadlinePasses, BeginRestore,
                QueueItemForPermanentDeletion, versionVars
  <2>5. CASE FinishRestore \/ QueueAllTrashForPermanentDeletion \/ SelectExpired \/ QueueExpiredTrash
    BY <2>5 DEF FinishRestore, QueueAllTrashForPermanentDeletion, SelectExpired,
                QueueExpiredTrash, versionVars
  <2>6. ASSUME NEW i \in Item, Move(i)
        PROVE  versionState'[v] = "ready"
    BY <2>6 DEF Move, BeginMove, FinishMove, RollBackMove, versionVars
  <2> QED BY <2>1, <2>2, <2>3, <2>4, <2>5, <2>6 DEF Next
<1> QED BY <1>1, RetentionInvariance, PTL DEF Spec, KeptVersionSurvives

\* A live item comes into a trashed folder only late, by a move or an upload that
\* has looked at the folder before: no trashing and no restore leaves one there.
THEOREM Confinement == Spec => OnlyLateArrivals
<1>1. ASSUME RetentionInvariant, [Next]_vars
      PROVE  [\A j \in Item : \A i \in Folder :
                  /\ parent'[j] = i
                  /\ trashed'[i]
                  /\ ~trashed'[j]
                  => \/ moving[j] = i
                     \/ ~Exists(j) /\ \E v \in VersionsOf(j) : destination[v] = i
                     \/ parent[j] = i /\ trashed[i] /\ ~trashed[j]]_vars
  <2> DEFINE Escapes(j, i) == parent'[j] = i /\ trashed'[i] /\ ~trashed'[j]
             Excused(j, i) == \/ moving[j] = i
                              \/ ~Exists(j) /\ \E v \in VersionsOf(j) : destination[v] = i
                              \/ parent[j] = i /\ trashed[i] /\ ~trashed[j]
  <2> SUFFICES ASSUME Next, NEW j \in Item, NEW i \in Folder, Escapes(j, i)
               PROVE  Excused(j, i)
    BY <1>1
  <2>0. i \in Item /\ i # Root /\ TypeOK
    BY <1>1, ItemAssumption DEF Item, RetentionInvariant
  <2>1. CASE UNCHANGED <<parent, trashed>>
    BY <2>1
  <2>2. ASSUME NEW v \in Version, ReserveUpload(v)
        PROVE  Excused(j, i)
    <3>1. UNCHANGED parent \/ (~Exists(ItemOf[v]) /\ parent' = [parent EXCEPT ![ItemOf[v]] = destination[v]])
      BY <2>2 DEF ReserveUpload
    <3>2. parent'[j] = parent[j] \/ (~Exists(j) /\ j = ItemOf[v] /\ parent'[j] = destination[v])
      BY <3>1, <2>0 DEF TypeOK
    <3>3. UNCHANGED trashed
      BY <2>2 DEF ReserveUpload
    <3>4. j = ItemOf[v] => v \in VersionsOf(j)
      BY DEF VersionsOf
    <3> QED BY <3>2, <3>3, <3>4
  <2>3. ASSUME NEW k \in Item, SetItemTrashed(k)
        PROVE  Excused(j, i)
    <3>1. /\ parent[j] = i
          /\ trashed[i] \/ i \in Subtree(k)
          /\ ~trashed[j] /\ j \notin Subtree(k)
      BY <2>0, <2>3 DEF SetItemTrashed
    <3>2. i \notin Subtree(k)
      BY <3>1, SubtreeClosed
    <3> QED BY <3>1, <3>2
  <2>4. CASE FinishRestore
    <3>1. PICK r \in Item : r = restoring
      BY <2>0, <2>4 DEF FinishRestore, TypeOK
    <3>2. /\ parent' = [parent EXCEPT ![r] = RestoredParent(@)]
          /\ trashed' = [x \in Item |-> trashed[x] /\ x \notin Subtree(r)]
      BY <2>4, <3>1 DEF FinishRestore
    <3>3. trashed[i] /\ i \notin Subtree(r)
      BY <2>0, <3>2
    <3>4. j # r
      <4>1. RestoredParent(parent[r]) # i
        BY <2>0, <3>3 DEF RestoredParent, Available
      <4> QED BY <2>0, <3>2, <4>1 DEF TypeOK
    <3>5. parent[j] = i
      BY <2>0, <3>2, <3>4 DEF TypeOK
    <3>6. j \notin Subtree(r)
      BY <3>1, <3>3, <3>4, <3>5, SubtreeParent
    <3> QED BY <3>2, <3>3, <3>5, <3>6
  <2>5. ASSUME NEW v \in Version, Upload(v)
        PROVE  Excused(j, i)
    <3>1. UNCHANGED <<parent, trashed>> \/ ReserveUpload(v)
      BY <2>5 DEF Upload, ResolveDestination, CompleteUpload, AbandonUpload, itemVars
    <3> QED BY <3>1, <2>1, <2>2
  <2>6. ASSUME NEW k \in Item, Trash(k)
        PROVE  Excused(j, i)
    <3>1. UNCHANGED <<parent, trashed>> \/ SetItemTrashed(k)
      BY <2>6 DEF Trash, PurgeDeadlinePasses, BeginRestore, QueueItemForPermanentDeletion, itemVars
    <3> QED BY <3>1, <2>1, <2>3
  <2>7. ASSUME NEW v \in Version, History(v) \/ Purge(v)
        PROVE  UNCHANGED <<parent, trashed>>
    BY <2>7 DEF History, SetVersionKeepForever, RestoreFileVersion, Purge, ClaimBlobDeletionJob,
                DeleteBlob, CompleteBlobDeletionJob, FailBlobDeletionJob, itemVars
  <2>8. CASE QueueAllTrashForPermanentDeletion \/ SelectExpired \/ QueueExpiredTrash
    BY <2>1, <2>8 DEF QueueAllTrashForPermanentDeletion, SelectExpired, QueueExpiredTrash, itemVars
  <2>9. ASSUME NEW k \in Item, Move(k)
        PROVE  Excused(j, i)
    <3>1. UNCHANGED <<parent, trashed>>
             \/ (UNCHANGED trashed /\ parent' = [parent EXCEPT ![k] = moving[k]])
      BY <2>9 DEF Move, BeginMove, FinishMove, RollBackMove, itemVars
    <3>2. UNCHANGED trashed /\ (parent'[j] = parent[j] \/ parent'[j] = moving[j])
      BY <3>1, <2>0 DEF TypeOK
    <3> QED BY <3>2
  <2> QED BY <2>1, <2>4, <2>5, <2>6, <2>7, <2>8, <2>9 DEF Next
<1> QED BY <1>1, RetentionInvariance, PTL DEF Spec, OnlyLateArrivals
=============================================================================
