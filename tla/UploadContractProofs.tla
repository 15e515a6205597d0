------------------------- MODULE UploadContractProofs -------------------------
(***************************************************************************)
(* UploadLifecycle implements the safety part of UploadContract: every     *)
(* step of the handlers, workers, clean-ups and of the object store is one *)
(* step of the contract, or none. Only the steps of RowChanges can be seen *)
(* through the refinement mapping: the contents of a published version are *)
(* the agreed bytes (PublishedIntact), whatever happens to the objects,    *)
(* and the current version of an item is well defined (OneCurrentVersion). *)
(***************************************************************************)
EXTENDS UploadLifecycleProofs

\* The phase of an upload is the state of its version; of an open upload, also
\* whether its completion has been accepted.
LEMMA PhaseIs ==
    ASSUME TypeOK, NEW s \in Session
    PROVE  /\ versionState[s] = "none" => Phase(s) = "unreserved"
           /\ versionState[s] = "pending" =>
                 Phase(s) = IF sessionStatus[s] = "completing" THEN "accepted" ELSE "open"
           /\ versionState[s] \in Published => Phase(s) = "published"
           /\ versionState[s] \in {"failed", "deleting"} => Phase(s) = "discarded"
           /\ versionState[s] = "deleted" => Phase(s) = "released"
BY DEF Phase, Published

\* The same in the next state.
LEMMA PhaseNext ==
    ASSUME TypeOK', NEW s \in Session
    PROVE  /\ versionState'[s] = "none" => Phase(s)' = "unreserved"
           /\ versionState'[s] = "pending" =>
                 Phase(s)' = IF sessionStatus'[s] = "completing" THEN "accepted" ELSE "open"
           /\ versionState'[s] \in Published => Phase(s)' = "published"
           /\ versionState'[s] \in {"failed", "deleting"} => Phase(s)' = "discarded"
           /\ versionState'[s] = "deleted" => Phase(s)' = "released"
BY DEF Phase, Published

\* What a version serves depends on its phase alone.
LEMMA ContentIs ==
    ASSUME TypeOK, PublishedIntact, NEW s \in Session
    PROVE  Content(s) = IF Phase(s) = "published" THEN "agreed" ELSE "absent"
<1>1. Phase(s) = "published" <=> versionState[s] \in Published
  BY PhaseIs DEF TypeOK, VersionState, Published
<1> QED BY <1>1 DEF Content, PublishedIntact

\* The same in the next state.
LEMMA ContentNext ==
    ASSUME TypeOK', PublishedIntact', NEW s \in Session
    PROVE  Content(s)' = IF Phase(s)' = "published" THEN "agreed" ELSE "absent"
<1>1. Phase(s)' = "published" <=> versionState'[s] \in Published
  BY PhaseNext DEF TypeOK, VersionState, Published
<1> QED BY <1>1 DEF Content, PublishedIntact

\* An item shows its current version, or nothing if it has none.
LEMMA CurrentIs ==
    ASSUME OneCurrentVersion, NEW i \in Item
    PROVE  /\ \A s \in Session : ItemOf[s] = i /\ isCurrent[s] => Current(i) = s
           /\ (\A s \in Session : ItemOf[s] = i => ~isCurrent[s]) => Current(i) = NoSession
BY DEF OneCurrentVersion, Current

\* The same in the next state.
LEMMA CurrentNext ==
    ASSUME OneCurrentVersion', NEW i \in Item
    PROVE  /\ \A s \in Session : ItemOf[s] = i /\ isCurrent'[s] => Current(i)' = s
           /\ (\A s \in Session : ItemOf[s] = i => ~isCurrent'[s]) => Current(i)' = NoSession
BY DEF OneCurrentVersion, Current

\* The initial states are initial states of the contract.
LEMMA RefinesInit == Init => Contract!Init
<1> SUFFICES ASSUME Init PROVE Contract!Init
  OBVIOUS
<1>1. \A s \in Session : Phase(s) = "unreserved" /\ Content(s) = "absent"
  BY DEF Init, Phase, Content, Published
<1>2. \A i \in Item : Current(i) = NoSession
  BY DEF Init, Current
<1> QED BY <1>1, <1>2 DEF Contract!Init

\* A step without a publication changes phases only, and a step that changes no
\* phase cannot be seen.
LEMMA QuietStep ==
    ASSUME UploadInvariant, UploadInvariant', Next, \A w \in Worker : ~Publish(w),
           \A s \in Session : Phase(s)' = "published" => Phase(s) = "published",
           \A s \in Session : Phase(s) = "published" => Phase(s)' = "published"
    PROVE  /\ [s \in Session |-> Content(s)'] = [s \in Session |-> Content(s)]
           /\ [i \in Item |-> Current(i)'] = [i \in Item |-> Current(i)]
<1>1. \A s \in Session : Content(s)' = Content(s)
  BY ContentIs, ContentNext DEF UploadInvariant
<1>2. isCurrent' = isCurrent
  BY CurrentStays
<1>3. \A i \in Item : Current(i)' = Current(i)
  BY <1>2 DEF Current
<1> QED BY <1>1, <1>3

\* Some open uploads are given up and nothing else happens to any phase.
SomeDiscarded ==
    \/ \A s \in Session : Phase(s)' = Phase(s)
    \/ \E S \in SUBSET Session :
          /\ S # {}
          /\ \A s \in S : Phase(s) \in {"open", "accepted"} /\ Phase(s)' = "discarded"
          /\ \A t \in Session \ S : Phase(t)' = Phase(t)

\* One upload is reserved, accepted or released and nothing else happens.
OneAdvances ==
    \E s \in Session :
        /\ \/ Phase(s) = "unreserved" /\ Phase(s)' = "open"
           \/ Phase(s) = "open" /\ Phase(s)' = "accepted"
           \/ Phase(s) = "discarded" /\ Phase(s)' = "released"
        /\ \A t \in Session : t # s => Phase(t)' = Phase(t)

\* What each row-changing step but a publication does to the phases.
LEMMA PhaseStep ==
    ASSUME UploadInvariant, UploadInvariant', Next, \A w \in Worker : ~Publish(w)
    PROVE  OneAdvances \/ SomeDiscarded
<1> DEFINE Same(t) ==
             versionState'[t] = versionState[t] /\ sessionStatus'[t] = sessionStatus[t]
<1>1. /\ TypeOK /\ RowsAgree /\ CleanupNeverForgotten
      /\ TypeOK' /\ RowsAgree'
      /\ \A s \in Session : versionState[s] \in VersionState /\ versionState'[s] \in VersionState
  BY DEF UploadInvariant, TypeOK
<1>2. ASSUME NEW t \in Session, versionState'[t] = versionState[t],
             sessionStatus[t] = "completing" <=> sessionStatus'[t] = "completing"
      PROVE  Phase(t)' = Phase(t)
  BY <1>2 DEF Phase
<1>3. ASSUME NEW s \in Session, ReserveUpload(s)
      PROVE  /\ Phase(s) = "unreserved" /\ Phase(s)' = "open"
             /\ \A t \in Session : t # s => Phase(t)' = Phase(t)
  <2>1. /\ versionState[s] = "none"
        /\ versionState'[s] = "pending" /\ sessionStatus'[s] = "initiated"
        /\ \A t \in Session : t # s => Same(t)
    BY <1>1, <1>3 DEF ReserveUpload, RowsAgree, TypeOK
  <2> QED BY <1>1, <1>2, <2>1, PhaseIs, PhaseNext
<1>4. ASSUME NEW s \in Session, AttachMultipartUpload(s)
      PROVE  \A t \in Session : Phase(t)' = Phase(t)
  <2>1. /\ versionState' = versionState
        /\ \A t \in Session : sessionStatus[t] = "completing" <=> sessionStatus'[t] = "completing"
    BY <1>1, <1>4 DEF AttachMultipartUpload, versionVars, TypeOK
  <2> QED BY <1>2, <2>1
<1>5. ASSUME NEW s \in Session, QueueUploadCompletion(s)
      PROVE  /\ Phase(s) = "open" /\ Phase(s)' = "accepted"
             /\ \A t \in Session : t # s => Phase(t)' = Phase(t)
  <2>1. /\ versionState[s] = "pending" /\ sessionStatus[s] # "completing"
        /\ versionState' = versionState /\ sessionStatus'[s] = "completing"
        /\ \A t \in Session : t # s => Same(t)
    BY <1>1, <1>5 DEF QueueUploadCompletion, RowsAgree, TypeOK, Transferring, Open, versionVars
  <2> QED BY <1>1, <1>2, <2>1, PhaseIs, PhaseNext
<1>6. ASSUME NEW S \in SUBSET Session, FailPending(S),
             \A t \in Session \ S : sessionStatus'[t] = sessionStatus[t],
             \A t \in S : sessionStatus'[t] # "completing"
      PROVE  LET P == {t \in S : versionState[t] = "pending"}
             IN  /\ \A t \in P : Phase(t) \in {"open", "accepted"} /\ Phase(t)' = "discarded"
                 /\ \A t \in Session \ P : Phase(t)' = Phase(t)
  <2> DEFINE P == {t \in S : versionState[t] = "pending"}
  <2>1. \A t \in P : versionState[t] = "pending" /\ versionState'[t] = "failed"
    BY <1>6 DEF FailPending
  <2>2. \A t \in P : Phase(t) \in {"open", "accepted"} /\ Phase(t)' = "discarded"
    BY <1>1, <2>1, PhaseIs, PhaseNext
  <2>3. ASSUME NEW t \in Session \ P
        PROVE  Phase(t)' = Phase(t)
    <3>1. versionState'[t] = versionState[t]
      BY <1>6, <2>3 DEF FailPending
    <3>2. CASE versionState[t] = "pending"
      BY <1>2, <1>6, <2>3, <3>1, <3>2
    <3>3. CASE versionState[t] # "pending"
      BY <3>1, <3>3 DEF Phase
    <3> QED BY <3>2, <3>3
  <2> QED BY <2>2, <2>3
<1>7. ASSUME NEW S \in SUBSET Session, FailPending(S),
             \A t \in Session \ S : sessionStatus'[t] = sessionStatus[t],
             \A t \in S : sessionStatus'[t] # "completing"
      PROVE  SomeDiscarded
  <2> DEFINE P == {t \in S : versionState[t] = "pending"}
  <2>1. /\ \A t \in P : Phase(t) \in {"open", "accepted"} /\ Phase(t)' = "discarded"
        /\ \A t \in Session \ P : Phase(t)' = Phase(t)
    BY <1>6, <1>7
  <2>2. P \in SUBSET Session
    OBVIOUS
  <2> HIDE DEF P
  <2> QED BY <2>1, <2>2 DEF SomeDiscarded
<1>8. ASSUME NEW s \in Session, AbortUpload(s) \/ MarkUploadExpired(s)
      PROVE  \/ UNCHANGED <<sessionStatus, versionState>>
             \/ /\ FailPending({s})
                /\ \A t \in Session \ {s} : sessionStatus'[t] = sessionStatus[t]
                /\ sessionStatus'[s] # "completing"
  BY <1>1, <1>8 DEF AbortUpload, MarkUploadExpired, TypeOK
<1>9. CASE RecoverCompletionLeases
  <2>1. /\ FailPending(ExhaustedCompletions)
        /\ ExhaustedCompletions \in SUBSET Session
        /\ \A t \in Session \ ExhaustedCompletions : sessionStatus'[t] = sessionStatus[t]
        /\ \A t \in ExhaustedCompletions : sessionStatus'[t] # "completing"
    BY <1>9 DEF RecoverCompletionLeases, ExhaustedCompletions, LapsedCompletions
  <2> QED BY <1>7, <2>1
<1>10. ASSUME NEW w \in Worker, FailUploadCompletionJob(w)
       PROVE  \/ UNCHANGED <<sessionStatus, versionState>>
              \/ LET s == worker[w].session
                 IN  /\ s \in Session
                     /\ FailPending({s})
                     /\ \A t \in Session \ {s} : sessionStatus'[t] = sessionStatus[t]
                     /\ sessionStatus'[s] # "completing"
  <2>1. worker[w].session \in Session
    BY <1>1, <1>10, BusyWorker DEF FailUploadCompletionJob, At
  <2> QED BY <1>1, <1>10, <2>1 DEF FailUploadCompletionJob, TypeOK
<1>11. ASSUME NEW p \in Purger, CompleteBlobDeletionJob(p)
       PROVE  \/ \A s \in Session : Phase(s)' = Phase(s)
              \/ \E s \in Session :
                    /\ Phase(s) = "discarded" /\ Phase(s)' = "released"
                    /\ \A t \in Session : t # s => Phase(t)' = Phase(t)
  <2>1. sessionStatus' = sessionStatus
    BY <1>11 DEF CompleteBlobDeletionJob, sessionVars
  <2>2. CASE versionState' = versionState
    BY <1>2, <2>1, <2>2
  <2>3. ASSUME NEW s \in Session, versionState[s] = "deleting",
               versionState' = [versionState EXCEPT ![s] = "deleted"]
        PROVE  /\ Phase(s) = "discarded" /\ Phase(s)' = "released"
               /\ \A t \in Session : t # s => Phase(t)' = Phase(t)
    <3>1. versionState'[s] = "deleted" /\ \A t \in Session : t # s => Same(t)
      BY <1>1, <2>1, <2>3 DEF TypeOK
    <3> QED BY <1>1, <1>2, <2>3, <3>1, PhaseIs, PhaseNext
  <2> QED BY <1>1, <1>11, <2>2, <2>3, BlobDeletionCompletes
<1>12. ASSUME NEW p \in Purger, NEW s \in Session, ClaimBlobDeletionJob(p, s)
       PROVE  \A t \in Session : Phase(t)' = Phase(t)
  <2>1. /\ versionState[s] \in {"failed", "deleting"} /\ versionState'[s] = "deleting"
        /\ \A t \in Session : t # s => Same(t)
    BY <1>1, <1>12 DEF ClaimBlobDeletionJob, Purgeable, TypeOK, sessionVars
  <2> QED BY <1>1, <1>2, <2>1, PhaseIs, PhaseNext
<1>13. ASSUME \/ RecoverDeletionLeases
              \/ \E w \in Worker, s \in Session : ClaimUploadCompletionJob(w, s)
              \/ \E p \in Purger : FailBlobDeletionJob(p)
       PROVE  UNCHANGED <<sessionStatus, versionState>>
  BY <1>13 DEF RecoverDeletionLeases, ClaimUploadCompletionJob, FailBlobDeletionJob,
     sessionVars, versionVars
<1>14. ASSUME UNCHANGED <<sessionStatus, versionState>>
       PROVE  SomeDiscarded
  BY <1>2, <1>14 DEF SomeDiscarded
<1>15. ASSUME NEW s \in Session, AbortUpload(s) \/ MarkUploadExpired(s)
       PROVE  SomeDiscarded
  <2>1. CASE UNCHANGED <<sessionStatus, versionState>>
    BY <1>14, <2>1
  <2>2. CASE ~UNCHANGED <<sessionStatus, versionState>>
    <3>1. /\ FailPending({s})
          /\ {s} \in SUBSET Session
          /\ \A t \in Session \ {s} : sessionStatus'[t] = sessionStatus[t]
          /\ \A t \in {s} : sessionStatus'[t] # "completing"
      BY <1>8, <1>15, <2>2
    <3> QED BY <1>7, <3>1
  <2> QED BY <2>1, <2>2
<1>16. ASSUME NEW w \in Worker, FailUploadCompletionJob(w)
       PROVE  SomeDiscarded
  <2> DEFINE s == worker[w].session
  <2>1. CASE UNCHANGED <<sessionStatus, versionState>>
    BY <1>14, <2>1
  <2>2. CASE ~UNCHANGED <<sessionStatus, versionState>>
    <3>1. /\ FailPending({s})
          /\ {s} \in SUBSET Session
          /\ \A t \in Session \ {s} : sessionStatus'[t] = sessionStatus[t]
          /\ \A t \in {s} : sessionStatus'[t] # "completing"
      BY <1>10, <1>16, <2>2
    <3> QED BY <1>7, <3>1
  <2> QED BY <2>1, <2>2
<1> QED BY <1>3, <1>4, <1>5, <1>7, <1>9, <1>11, <1>12, <1>13, <1>14, <1>15, <1>16,
       RowChanges
    DEF SomeDiscarded, OneAdvances

\* A step that publishes a version is the contract's publication of it.
LEMMA PublishStep ==
    ASSUME UploadInvariant, UploadInvariant',
           NEW w \in Worker, NEW s \in Session, Publish(w), s = worker[w].session
    PROVE  Contract!Publish(s)
<1>1. /\ TypeOK /\ TypeOK' /\ RowsAgree /\ OneCurrentVersion /\ OneCurrentVersion'
      /\ PublishedIntact /\ PublishedIntact'
  BY DEF UploadInvariant
<1>2. /\ versionState[s] = "pending"
      /\ isCurrent'[s] = ~RequireMalwareScan
      /\ \A t \in Session :
            isCurrent'[t] # isCurrent[t] => ~RequireMalwareScan /\ ItemOf[t] = ItemOf[s]
  BY PublishedCurrent
<1>3. /\ sessionStatus[s] = "completing"
      /\ versionState'[s] \in Published
      /\ \A t \in Session : t # s =>
            versionState'[t] = versionState[t] /\ sessionStatus'[t] = sessionStatus[t]
  BY <1>1, <1>2 DEF Publish, TypeOK, Published
<1>4. Phase(s) = "accepted" /\ Phase(s)' = "published"
  BY <1>1, <1>2, <1>3, PhaseIs, PhaseNext
<1>5. \A t \in Session : t # s => Phase(t)' = Phase(t)
  BY <1>3 DEF Phase
<1>6. [t \in Session |-> Phase(t)'] =
          [[t \in Session |-> Phase(t)] EXCEPT ![s] = "published"]
  BY <1>2, <1>4, <1>5
<1>7. \A t \in Session : Content(t)' = IF t = s THEN "agreed" ELSE Content(t)
  BY <1>1, <1>4, <1>5, ContentIs, ContentNext
<1>8. [t \in Session |-> Content(t)'] =
          [[t \in Session |-> Content(t)] EXCEPT ![s] = "agreed"]
  BY <1>2, <1>7
<1>9. CASE RequireMalwareScan
  <2>1. isCurrent' = isCurrent
    BY <1>1, <1>2, <1>9 DEF TypeOK
  <2>2. \A i \in Item : Current(i)' = Current(i)
    BY <2>1 DEF Current
  <2>3. [i \in Item |-> Current(i)'] = [i \in Item |-> Current(i)]
    BY <2>2
  <2> QED BY <1>4, <1>6, <1>8, <1>9, <2>3, <1>2 DEF Contract!Publish
<1>10. CASE ~RequireMalwareScan
  <2>1. ItemOf[s] \in Item
    BY <1>2, SessionAssumption
  <2>2. Current(ItemOf[s])' = s
    BY <1>1, <1>2, <1>10, <2>1, CurrentNext
  <2>3. ASSUME NEW i \in Item, i # ItemOf[s]
        PROVE  Current(i)' = Current(i)
    <3>1. \A t \in Session : ItemOf[t] = i => isCurrent'[t] = isCurrent[t]
      BY <1>2, <2>3
    <3> QED BY <1>1, <2>3, <3>1, CurrentIs, CurrentNext
  <2>4. [i \in Item |-> Current(i)'] =
            [[i \in Item |-> Current(i)] EXCEPT ![ItemOf[s]] = s]
    BY <2>1, <2>2, <2>3
  <2> QED BY <1>4, <1>6, <1>8, <1>10, <2>4, <1>2 DEF Contract!Publish
<1> QED BY <1>9, <1>10

\* Every step is a step of the contract, or cannot be seen.
LEMMA RefinesStep ==
    ASSUME UploadInvariant, UploadInvariant', [Next]_vars
    PROVE  [Contract!Next]_(Contract!vars)
<1>1. ASSUME NEW w \in Worker, Publish(w)
      PROVE  Contract!Next
  <2>1. PICK s \in Session : s = worker[w].session
    BY <1>1, PublishedCurrent
  <2>2. Contract!Publish(s)
    BY <1>1, <2>1, PublishStep
  <2> QED BY <2>2 DEF Contract!Next
<1>2. CASE UNCHANGED vars
  <2>1. /\ \A s \in Session : Phase(s)' = Phase(s) /\ Content(s)' = Content(s)
        /\ \A i \in Item : Current(i)' = Current(i)
    BY <1>2 DEF vars, Phase, Content, Current
  <2> QED BY <2>1 DEF Contract!vars
<1>3. CASE Next /\ \A w \in Worker : ~Publish(w)
  <2>1. OneAdvances \/ SomeDiscarded
    BY <1>3, PhaseStep
  <2>2. \A s \in Session : Phase(s) = "published" <=> Phase(s)' = "published"
    BY <2>1 DEF OneAdvances, SomeDiscarded
  <2>3. /\ [s \in Session |-> Content(s)'] = [s \in Session |-> Content(s)]
        /\ [i \in Item |-> Current(i)'] = [i \in Item |-> Current(i)]
    BY <1>3, <2>2, QuietStep
  <2>4. ASSUME NEW s \in Session,
               \/ Phase(s) = "unreserved" /\ Phase(s)' = "open"
               \/ Phase(s) = "open" /\ Phase(s)' = "accepted"
               \/ Phase(s) = "discarded" /\ Phase(s)' = "released",
               \A t \in Session : t # s => Phase(t)' = Phase(t)
        PROVE  Contract!Next
    <3>1. [t \in Session |-> Phase(t)'] =
              [[t \in Session |-> Phase(t)] EXCEPT ![s] = Phase(s)']
      BY <2>4
    <3>2. Contract!Reserve(s) \/ Contract!Accept(s) \/ Contract!Release(s)
      BY <2>3, <2>4, <3>1 DEF Contract!Reserve, Contract!Accept, Contract!Release
    <3> QED BY <3>2 DEF Contract!Next
  <2>5. CASE \A s \in Session : Phase(s)' = Phase(s)
    <3>1. [s \in Session |-> Phase(s)'] = [s \in Session |-> Phase(s)]
      BY <2>5
    <3> QED BY <2>3, <3>1 DEF Contract!vars
  <2>6. ASSUME NEW S \in SUBSET Session, S # {},
               \A s \in S : Phase(s) \in {"open", "accepted"} /\ Phase(s)' = "discarded",
               \A t \in Session \ S : Phase(t)' = Phase(t)
        PROVE  Contract!Next
    <3>1. [s \in Session |-> Phase(s)'] =
              [s \in Session |-> IF s \in S THEN "discarded" ELSE Phase(s)]
      BY <2>6
    <3>2. Contract!Discard(S)
      BY <2>3, <2>6, <3>1 DEF Contract!Discard
    <3> QED BY <3>2 DEF Contract!Next
  <2> QED BY <2>1, <2>4, <2>5, <2>6 DEF OneAdvances, SomeDiscarded
<1> QED BY <1>1, <1>2, <1>3

\* The upload component implements the safety part of its contract: whatever
\* crashes, lapses, overlaps or is retried, a client sees an upload reserved,
\* accepted, then published intact or discarded and released, and an item shows
\* a version only once it is there (repository/upload*.go, upload/worker.go).
THEOREM Refinement == Spec => ImplementsSafeContract
<1>1. Init => Contract!Init
  BY RefinesInit
<1>2. UploadInvariant /\ UploadInvariant' /\ [Next]_vars => [Contract!Next]_(Contract!vars)
  BY RefinesStep
<1> QED BY <1>1, <1>2, Invariance, PTL DEF Spec, ImplementsSafeContract, Contract!SafeSpec
==============================================================================
