------------------------------- MODULE Namespace -------------------------------
(***************************************************************************)
(* The tree of one drive: folders found or created, files reserved,        *)
(* shortcuts made, items renamed, moved, trashed and restored by requests  *)
(* that run at the same time.                                              *)
(*                                                                         *)
(* A request first looks at the folder it is about to change, then takes   *)
(* that folder's advisory lock and settles on a name, then writes and      *)
(* commits. What it holds in between follows from its record: the row of   *)
(* the item it moves or restores (FOR UPDATE), the name space of its       *)
(* destination (the advisory lock). The foreign key on parent_id makes a   *)
(* writer wait while another request holds the row of its destination.     *)
(* Names are the ones case folding tells apart.                            *)
(***************************************************************************)
EXTENDS Naturals

CONSTANTS
    Item,        \* rows of drive.item, without the root
    Root, None,
    Name,        \* lower(name)
    Request,     \* requests being served
    Creates      \* which of "ensure", "upload", "shortcut" requests make

NamespaceAssumption ==
    /\ Root \notin Item
    /\ None \notin Item \cup {Root} \cup Name
    /\ Creates \subseteq {"ensure", "upload", "shortcut"}

VARIABLES
    parent,   \* item.parent_id; None: no such row yet
    name,     \* lower(item.name)
    kind,     \* item.kind
    live,     \* item.trashed_at IS NULL
    req       \* what each request is doing

vars == <<parent, name, kind, live, req>>
tree == <<parent, name, kind, live>>

Exists(i) == i \in Item /\ parent[i] # None
LiveFolder(d) == d = Root \/ (Exists(d) /\ live[d] /\ kind[d] = "folder")

\* The recursive ancestor and subtree queries: a row, its parent and so on
Climbed(S) == \A j \in S \cap Item : parent[j] \in S
AncestorsOf(i) ==
    {a \in Item \cup {Root, None} :
        \A S \in SUBSET (Item \cup {Root, None}) : i \in S /\ Climbed(S) => a \in S}
Below(i) == {j \in Item : parent[j] # None /\ i \in AncestorsOf(j)}

\* UNION ALL: the query over the ancestors ends only if it meets the root
QueryEnds(i) == Root \in AncestorsOf(i)

Siblings(d) == {j \in Item : parent[j] = d /\ live[j]}
Taken(d, n) == \E j \in Siblings(d) : name[j] = n

Idle == [op |-> "none", phase |-> "idle", item |-> None, dest |-> None,
         name |-> None, rows |-> {}]

\* FOR UPDATE on the row that is moved or restored, until the commit
RowHeld(i, r) ==
    \E q \in Request \ {r} : req[q].op \in {"update", "restore"} /\ req[q].item = i

\* Faulty: no foreign key on the parent.
NoForeignKey(d, r) == TRUE

\* The key share lock the foreign key takes on the new parent
KeyShare(d, r) == ~RowHeld(d, r)

\* Faulty: names are only kept apart by the lock.
NoIndex(p, n, l) == TRUE

\* item_active_sibling_name_unique
IndexAllows(p, n, l) ==
    \A i, j \in Item : l[i] /\ l[j] /\ p[i] = p[j] /\ n[i] = n[j] => i = j

Init ==
    /\ parent = [i \in Item |-> None]
    /\ name = [i \in Item |-> None]
    /\ kind = [i \in Item |-> "folder"]
    /\ live = [i \in Item |-> FALSE]
    /\ req = [r \in Request |-> Idle]

Begin(r, op, i, d, n) ==
    req' = [req EXCEPT ![r] = [op |-> op, phase |-> "begun", item |-> i, dest |-> d,
                               name |-> n, rows |-> {}]]

(* Creating a folder or a file: the folder is looked up before the           *)
(* transaction. A shortcut also looks at its target.                           *)
ResolveFolder(r) ==
    /\ req[r] = Idle /\ "ensure" \in Creates
    /\ \E d \in Item \cup {Root}, n \in Name :
        LiveFolder(d) /\ Begin(r, "ensure", None, d, n)
    /\ UNCHANGED tree

ResolveUploadParent(r) ==
    /\ req[r] = Idle /\ "upload" \in Creates
    /\ \E d \in Item \cup {Root}, n \in Name :
        LiveFolder(d) /\ Begin(r, "upload", None, d, n)
    /\ UNCHANGED tree

ResolveShortcut(r) ==
    /\ req[r] = Idle /\ "shortcut" \in Creates
    /\ \E t \in Item, d \in Item \cup {Root}, n \in Name :
        /\ Exists(t) /\ live[t] /\ QueryEnds(t)
        /\ LiveFolder(d) /\ QueryEnds(d)
        /\ Begin(r, "shortcut", t, d, n)
    /\ UNCHANGED tree

(* Renaming or moving: the row is locked, the destination only read. *)
BeginUpdate(r) ==
    /\ req[r] = Idle
    /\ \E i \in Item, d \in Item \cup {Root}, n \in Name :
        /\ Exists(i) /\ live[i] /\ ~RowHeld(i, r) /\ QueryEnds(i)
        /\ d # parent[i] =>
            /\ LiveFolder(d) /\ d # i /\ QueryEnds(d)
            /\ kind[i] = "folder" => i \notin AncestorsOf(d)
        /\ <<d, n>> # <<parent[i], name[i]>>
        /\ Begin(r, "update", i, d, n)
    /\ UNCHANGED tree

(* Restoring: one at a time per drive; without its folder it goes to the root. *)
BeginRestore(r) ==
    /\ req[r] = Idle
    /\ \A q \in Request : req[q].op # "restore"
    /\ \E i \in Item :
        /\ Exists(i) /\ ~live[i] /\ ~RowHeld(i, r)
        /\ Begin(r, "restore", i,
                 IF LiveFolder(parent[i]) THEN parent[i] ELSE Root, name[i])
    /\ UNCHANGED tree

(* The statement that trashes a subtree sees the rows of its snapshot. *)
BeginTrash(r) ==
    /\ req[r] = Idle
    /\ \E i \in Item :
        /\ Exists(i) /\ live[i] /\ QueryEnds(i)
        /\ req' = [req EXCEPT ![r] = [op |-> "trash", phase |-> "named", item |-> i,
                                      dest |-> None, name |-> None, rows |-> Below(i)]]
    /\ UNCHANGED tree

\* Faulty: the numbered names run out and the item is left without one.
NamesUsedUp(d, n) == IF Taken(d, n) THEN {None} ELSE {n}

\* reserveAvailableName: the name itself, or numbered ones until one is free
AvailableNames(d, n) ==
    IF Taken(d, n) THEN {m \in Name : ~Taken(d, m)} ELSE {n}

\* Faulty: renames and moves take no namespace lock others would meet.
CreationsHoldNamespace(d, r) ==
    \E q \in Request \ {r} :
        req[q].phase = "named" /\ req[q].dest = d /\ req[q].op # "update"

NamespaceHeld(d, r) ==
    \E q \in Request \ {r} : req[q].phase = "named" /\ req[q].dest = d

LockNamespace(r) == req[r].phase = "begun" /\ ~NamespaceHeld(req[r].dest, r)
Settle(r, n) == req' = [req EXCEPT ![r].phase = "named", ![r].name = n]
Finish(r) == req' = [req EXCEPT ![r] = Idle]

(* The folder of that name is found, or a conflict, or it is to be made. *)
FindFolder(r) ==
    /\ LockNamespace(r) /\ req[r].op = "ensure"
    /\ IF Taken(req[r].dest, req[r].name) THEN Finish(r) ELSE Settle(r, req[r].name)
    /\ UNCHANGED tree

(* A new version of the file of that name, or a file of its own. *)
FindRevisionTarget(r) ==
    /\ LockNamespace(r) /\ req[r].op = "upload"
    /\ \E i \in Siblings(req[r].dest) : name[i] = req[r].name /\ kind[i] = "file"
    /\ Finish(r)
    /\ UNCHANGED tree

ReserveName(r) ==
    /\ LockNamespace(r) /\ req[r].op \in {"upload", "restore"}
    /\ \E n \in AvailableNames(req[r].dest, req[r].name) : Settle(r, n)
    /\ UNCHANGED tree

ApplyShortcut(r) ==
    /\ LockNamespace(r) /\ req[r].op = "shortcut"
    /\ kind[req[r].item] # "shortcut"
    /\ Settle(r, req[r].name)
    /\ UNCHANGED tree

\* item_relationships_trigger, on an update that changes the parent
TriggerAllows(i, d) == d # parent[i] => d \notin Below(i)

ApplyUpdate(r) ==
    /\ LockNamespace(r) /\ req[r].op = "update"
    /\ TriggerAllows(req[r].item, req[r].dest)
    /\ Settle(r, req[r].name)
    /\ UNCHANGED tree

Insert(r, op, k) ==
    LET q == req[r] IN
    /\ q.phase = "named" /\ q.op = op
    /\ KeyShare(q.dest, r)
    /\ \E i \in Item :
        /\ parent[i] = None
        /\ parent' = [parent EXCEPT ![i] = q.dest]
        /\ name' = [name EXCEPT ![i] = q.name]
        /\ live' = [live EXCEPT ![i] = TRUE]
        /\ kind' = [kind EXCEPT ![i] = k]
    /\ IndexAllows(parent', name', live')
    /\ Finish(r)

CommitFolder(r) == Insert(r, "ensure", "folder")
CommitUpload(r) == Insert(r, "upload", "file")
CommitShortcut(r) == KeyShare(req[r].item, r) /\ Insert(r, "shortcut", "shortcut")

CommitUpdate(r) ==
    LET q == req[r] IN
    /\ q.phase = "named" /\ q.op = "update"
    /\ q.dest # parent[q.item] => KeyShare(q.dest, r)
    /\ parent' = [parent EXCEPT ![q.item] = q.dest]
    /\ name' = [name EXCEPT ![q.item] = q.name]
    /\ IndexAllows(parent', name', live)
    /\ Finish(r)
    /\ UNCHANGED <<kind, live>>

CommitRestore(r) ==
    LET q == req[r]
        rows == Below(q.item)
    IN
    /\ q.phase = "named" /\ q.op = "restore"
    /\ \A i \in rows : ~RowHeld(i, r)
    /\ q.dest # parent[q.item] => KeyShare(q.dest, r)
    /\ parent' = [parent EXCEPT ![q.item] = q.dest]
    /\ name' = [name EXCEPT ![q.item] = q.name]
    /\ live' = [i \in Item |-> live[i] \/ i \in rows]
    /\ IndexAllows(parent', name', live')
    /\ Finish(r)
    /\ UNCHANGED kind

CommitTrash(r) ==
    LET rows == req[r].rows IN
    /\ req[r].op = "trash"
    /\ \A i \in rows : ~RowHeld(i, r)
    /\ live' = [i \in Item |-> live[i] /\ i \notin rows]
    /\ Finish(r)
    /\ UNCHANGED <<parent, name, kind>>

(* An error, a lost connection, or the victim of a deadlock: rolled back. *)
RollBack(r) ==
    /\ req[r] # Idle
    /\ Finish(r)
    /\ UNCHANGED tree

Next == \E r \in Request :
    \/ ResolveFolder(r) \/ ResolveUploadParent(r) \/ ResolveShortcut(r)
    \/ BeginUpdate(r) \/ BeginRestore(r) \/ BeginTrash(r)
    \/ FindFolder(r) \/ FindRevisionTarget(r) \/ ReserveName(r)
    \/ ApplyShortcut(r) \/ ApplyUpdate(r)
    \/ CommitFolder(r) \/ CommitUpload(r) \/ CommitShortcut(r)
    \/ CommitUpdate(r) \/ CommitRestore(r) \/ CommitTrash(r)
    \/ RollBack(r)

Spec == Init /\ [][Next]_vars

-----------------------------------------------------------------------------
TypeOK ==
    /\ parent \in [Item -> Item \cup {Root, None}]
    /\ name \in [Item -> Name \cup {None}]
    /\ \A i \in Item : Exists(i) => name[i] \in Name
    /\ kind \in [Item -> {"folder", "file", "shortcut"}]
    /\ live \in [Item -> BOOLEAN]
    /\ \A r \in Request : req[r].phase \in {"idle", "begun", "named"}

\* Two live siblings never share a name, whatever brings them together.
UniqueSiblingNames ==
    \A d \in Item \cup {Root} : \A i, j \in Siblings(d) : name[i] = name[j] => i = j

\* A name settled on under the namespace lock stays free until the row is
\* written: renames, moves and other creations wait for the lock. Only the
\* restore of a folder above brings names back without asking.
SettledNameFree(r) ==
    /\ req[r].phase = "named" /\ req[r].op \in {"ensure", "upload", "restore"}
    /\ ~Taken(req[r].dest, req[r].name)
RestoredAbove(d) ==
    \E q \in Request :
        /\ req[q].op = "restore" /\ req'[q] = Idle
        /\ live'[req[q].item] /\ d \in Below(req[q].item)
SettledNamesStayFree ==
    [][\A r \in Request :
          SettledNameFree(r) /\ req'[r] = req[r]
              => SettledNameFree(r)' \/ RestoredAbove(req[r].dest)]_vars

\* Two folders moved into each other at the same time: each waits for the
\* row the other holds, so never do both moves take place.
NoMutualParents ==
    \A i, j \in Item : ~(parent[i] = j /\ parent[j] = i)

\* Every item is below the root: no move puts a folder under itself.
Acyclic == \A i \in Item : Exists(i) => QueryEnds(i)

\* What a trashed folder holds can be brought back with it: no two items in
\* it would then share a name.
RestoreKeepsBoth ==
    \A i \in Item : Exists(i) /\ ~live[i] =>
        \A j, k \in Below(i) \ {i} :
            parent[j] = parent[k] /\ name[j] = name[k] => j = k
=============================================================================
