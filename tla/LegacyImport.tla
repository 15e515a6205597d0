----------------------------- MODULE LegacyImport -----------------------------
(***************************************************************************)
(* Objects found in a user's bucket are catalogued where their keys say:   *)
(* at every sign-in, and on request, a run lists the bucket and imports    *)
(* object by object, each in a transaction under a lock on the drive,      *)
(* while the user renames, trashes and adds files.                         *)
(***************************************************************************)
EXTENDS Naturals, Functions

CONSTANTS
    Objects,       \* the keys in the bucket, in the order they are listed
    Folder,        \* FolderName, or Root, of each key
    FileName,      \* name of the file, None for the marker of a folder
    Malformed,     \* keys no path can be read from
    FolderName, Name, Root, None,
    Lower,         \* names and folder names in lower case
    Run            \* reconciliations: sign-ins and requests

Key == Range(Objects)

KeyAssumption ==
    /\ Folder \in [Key -> FolderName \cup {Root}]
    /\ FileName \in [Key -> Name \cup {None}]
    /\ \A k \in Key : FileName[k] = None => Folder[k] # Root
    /\ Malformed \subseteq Key /\ None \notin Key

VARIABLES
    bucket,        \* keys whose object is stored
    folder,        \* folder rows: "none", "live" or "trashed"
    file,          \* item and version made for a key
    own,           \* names of files the user has put in the root since
    record,        \* keys with a row in legacy_import_record
    run            \* how far each run is

vars == <<bucket, folder, file, own, record, run>>

NoFile == [name |-> None, place |-> None, live |-> FALSE, state |-> "none"]
NotRunning == [phase |-> "idle", at |-> None, todo |-> {}, listed |-> {}, known |-> {}]

Init ==
    /\ bucket = Key
    /\ folder = [f \in FolderName |-> "none"]
    /\ file = [k \in Key |-> NoFile]
    /\ own = {} /\ record = {}
    /\ run = [r \in Run |-> NotRunning]

LiveNames(place, k) ==
    {file[j].name : j \in {i \in Key \ {k} : file[i].live /\ file[i].place = place}}
    \cup IF place = Root THEN own \cup {f \in FolderName : folder[f] = "live"} ELSE {}

(* item_active_sibling_name_unique, for a row other than the one of k.     *)
Taken(place, name, k) == \E n \in LiveNames(place, k) : Lower[n] = Lower[name]

Listed(b) == Key \cap b

(* Of the keys in S, the one that comes first in the listing.              *)
First(S) ==
    {k \in S : \A j \in S :
        \E m, n \in DOMAIN Objects : m <= n /\ Objects[m] = k /\ Objects[n] = j}

ListLegacyObjects(r) ==
    /\ run[r].phase \in {"idle", "done", "failed"}
    /\ run' = [run EXCEPT ![r] =
          [phase |-> "check", at |-> None, listed |-> bucket, known |-> record,
           todo |-> Listed(bucket)]]
    /\ UNCHANGED <<bucket, folder, file, own, record>>

Goes(r, phase, k, todo) ==
    run' = [run EXCEPT ![r] = [phase |-> phase, at |-> k, todo |-> todo,
                               listed |-> run[r].listed, known |-> run[r].known]]

\* Faulty: the next object is passed over.
TwoFurther(r, k) ==
    LET left == run[r].todo \ {k} IN Goes(r, "check", None, left \ First(left))

Further(r, k) == Goes(r, "check", None, run[r].todo \ {k})

\* Faulty: no record is looked for.
NeverImported(k) == FALSE

AlreadyImported(k) == k \in record

(* Looked up before the lock on the drive is taken.                        *)
CheckImported(r) ==
    /\ run[r].phase = "check"
    /\ \E k \in First(run[r].todo) :
          IF AlreadyImported(k) THEN Further(r, k) ELSE Goes(r, "locked", k, run[r].todo)
    /\ UNCHANGED <<bucket, folder, file, own, record>>

(* Folders are found by their exact name, trashed ones too.                *)
FolderRefused(k) ==
    Folder[k] # Root /\ folder[Folder[k]] = "none" /\ Taken(Root, Folder[k], None)

FileRefused(k) ==
    FileName[k] # None /\ (file[k] = NoFile \/ file[k].live)
                       /\ Taken(Folder[k], FileName[k], k)

Refused(k) == k \in Malformed \/ FolderRefused(k) \/ FileRefused(k)

EnsureLegacyFolder(k) ==
    folder' = IF Folder[k] # Root /\ folder[Folder[k]] = "none"
              THEN [folder EXCEPT ![Folder[k]] = "live"] ELSE folder

(* An item that has a version of this key is put back under its old name.  *)
RecordFile(k) ==
    file' = IF FileName[k] = None THEN file
            ELSE [file EXCEPT ![k] =
                    [name |-> FileName[k], place |-> Folder[k], state |-> "ready",
                     live |-> (file[k] = NoFile \/ file[k].live)]]

\* Faulty: recorded outside the transaction that is rolled back.
RecordedAnyway(k) == record \cup {k}

Recorded(k) == IF Refused(k) THEN record ELSE record \cup {k}

ImportLegacyObject(r) ==
    LET k == run[r].at IN
    /\ run[r].phase = "locked"
    /\ IF Refused(k)
       THEN /\ Goes(r, "failed", k, run[r].todo)
            /\ UNCHANGED <<folder, file>>
       ELSE /\ EnsureLegacyFolder(k) /\ RecordFile(k) /\ Further(r, k)
    /\ record' = Recorded(k)
    /\ UNCHANGED <<bucket, own>>

Reconciled(r) ==
    /\ run[r].phase = "check" /\ run[r].todo = {}
    /\ Goes(r, "done", None, {})
    /\ UNCHANGED <<bucket, folder, file, own, record>>

(* The client leaves, or the server dies.                                  *)
Interrupted(r) ==
    /\ run[r].phase \in {"check", "locked"}
    /\ run' = [run EXCEPT ![r] = NotRunning]
    /\ UNCHANGED <<bucket, folder, file, own, record>>

UserRenames(k) ==
    /\ file[k].live
    /\ \E n \in Name :
          /\ ~Taken(file[k].place, n, k)
          /\ file' = [file EXCEPT ![k] =
                [name |-> n, place |-> file[k].place, live |-> TRUE, state |-> file[k].state]]
    /\ UNCHANGED <<bucket, folder, own, record, run>>

Trashed(f) == [name |-> f.name, place |-> f.place, live |-> FALSE, state |-> f.state]

UserTrashes(k) ==
    /\ file[k].live
    /\ file' = [file EXCEPT ![k] = Trashed(file[k])]
    /\ UNCHANGED <<bucket, folder, own, record, run>>

UserTrashesFolder(f) ==
    /\ folder[f] = "live"
    /\ folder' = [folder EXCEPT ![f] = "trashed"]
    /\ file' = [k \in Key |-> IF file[k].place = f THEN Trashed(file[k]) ELSE file[k]]
    /\ UNCHANGED <<bucket, own, record, run>>

UserUploads(n) ==
    /\ ~Taken(Root, n, None)
    /\ own' = own \cup {n}
    /\ UNCHANGED <<bucket, folder, file, record, run>>

Purged(k) ==
    /\ file[k].state = "ready" /\ ~file[k].live
    /\ file' = [file EXCEPT ![k] = [name |-> file[k].name, place |-> file[k].place,
                                    live |-> FALSE, state |-> "deleted"]]
    /\ bucket' = bucket \ {k}
    /\ UNCHANGED <<folder, own, record, run>>

Reconcile(r) == CheckImported(r) \/ ImportLegacyObject(r) \/ Reconciled(r)

Next ==
    \/ \E r \in Run : \/ ListLegacyObjects(r) \/ CheckImported(r)
                      \/ ImportLegacyObject(r) \/ Reconciled(r) \/ Interrupted(r)
    \/ \E k \in Key : UserRenames(k) \/ UserTrashes(k) \/ Purged(k)
    \/ \E f \in FolderName : UserTrashesFolder(f)
    \/ \E n \in Name : UserUploads(n)

Spec == Init /\ [][Next]_vars

(* A user keeps signing in, and a run goes on until it ends or is cut off. *)
Fairness == \A r \in Run : WF_vars(ListLegacyObjects(r) \/ Reconcile(r))

FairSpec == Spec /\ Fairness
-----------------------------------------------------------------------------
Running(r) == run[r].phase \in {"check", "locked"}

TypeOK ==
    /\ bucket \subseteq Key /\ record \subseteq Key /\ own \subseteq Name
    /\ folder \in [FolderName -> {"none", "live", "trashed"}]
    /\ \A k \in Key : file[k].state \in {"none", "ready", "deleted"}
    /\ \A r \in Run :
         /\ run[r].phase \in {"idle", "check", "locked", "done", "failed"}
         /\ run[r].todo \subseteq run[r].listed /\ run[r].listed \subseteq Key
         /\ run[r].phase = "locked" => run[r].at \in run[r].todo

(* Live siblings keep different names, and what a record says was imported *)
(* is in the catalogue, whichever runs and users got in each other's way.  *)
CataloguedOnce ==
    /\ \A k \in Key : file[k].live => ~Taken(file[k].place, file[k].name, k)
    /\ \A k \in Key : FileName[k] # None => (k \in record <=> file[k] # NoFile)

(* A run begun when an object was already imported leaves its item as the  *)
(* user has made it.                                                       *)
LaterRunsChangeNothing ==
    [][\A r \in Run : ImportLegacyObject(r) =>
          \A k \in run[r].known : file'[k] = file[k]]_vars

(* The same of any import, runs that overlap included: the record is the   *)
(* end of it.                                                              *)
ReimportChangesNothing ==
    [][\A r \in Run : ImportLegacyObject(r) =>
          \A k \in record : file'[k] = file[k]]_vars

(* When a run has ended, every object it listed is catalogued or named in  *)
(* the error it ended with.                                                *)
EveryObjectAccounted ==
    \A r \in Run :
        /\ run[r].phase = "done" => run[r].listed \subseteq record
        /\ run[r].phase = "failed" => run[r].listed \subseteq record \cup {run[r].at}

(* When runs stop being interrupted and nothing left to import is refused, *)
(* the import, taken up wherever it was left, covers the bucket.           *)
ImportResumes ==
    /\ <>[][\A r \in Run : ~Interrupted(r)]_vars
    /\ [](\A k \in Key \ record : ~Refused(k))
    => <>(record = Key)
=============================================================================
