------------------------------ MODULE SharingProofs ------------------------------
(***************************************************************************)
(* Proofs about the tree and the people it is shared with, for every set   *)
(* of entries, names, people, rows and requests: no two live siblings have *)
(* one name and no two folders lie in each other; everyone who may see an  *)
(* item sees it the same way everywhere, and only after an offer; comments *)
(* change only by those entitled to it.                                    *)
(***************************************************************************)
EXTENDS Sharing, TLAPS

\* The rows a request may be about, and what it knows of them.
TreeRequest ==
    [op : {"none", "ensure", "upload", "shortcut", "update", "restore", "trash"},
     phase : {"idle", "begun", "named"}, item : Entry \cup {Nil},
     dest : Entry \cup {Root, Nil}, name : Name \cup {Nil}, rows : SUBSET Entry]

\* Columns and requests are well formed; a parent is a row that exists, and so
\* is the place a request is about to write under.
TreeTypes ==
    /\ place \in [Entry -> Entry \cup {Root, Nil}] /\ name \in [Entry -> Name \cup {Nil}]
    /\ kind \in [Entry -> {"folder", "file", "shortcut"}] /\ live \in [Entry -> BOOLEAN]
    /\ request \in [Request -> TreeRequest]
    /\ \A i \in Entry : place[i] # Nil => name[i] \in Name /\ place[i] \notin {i}
    /\ \A i \in Entry : place[i] \in Entry => place[place[i]] # Nil

TreeRequestFits(r) ==
    LET q == request[r] IN
    /\ q.op = "none" <=> q.phase = "idle"
    /\ q.op \notin {"none", "trash"} =>
        /\ q.dest # Nil /\ q.name # Nil /\ (q.dest \in Entry => place[q.dest] # Nil)
    /\ q.op = "trash" => q.dest = Nil
    /\ q.op \in {"update", "restore"} => q.item # Nil /\ place[q.item] # Nil /\ q.dest # q.item
    /\ q.op = "restore" => q.dest \in {place[q.item], Root}
    /\ q.op = "update" /\ q.phase = "named" /\ q.dest # place[q.item] /\ q.dest \in Entry
        => place[q.dest] # q.item

\* Two requests never hold one row or one name space.
TreeApart(r, s) ==
    /\ request[r].op \in {"update", "restore"} /\ request[s].op \in {"update", "restore"}
        => request[r].item # request[s].item
    /\ request[r].phase = "named" /\ request[s].phase = "named" /\ request[r].dest # Nil
        => request[r].dest # request[s].dest

TreeInv ==
    /\ TreeTypes /\ \A r \in Request : TreeRequestFits(r)
    /\ \A r, s \in Request : r # s => TreeApart(r, s)
    /\ Tree!UniqueSiblingNames /\ Tree!NoMutualParents

\* What the tree assumes of its constants.
LEMMA TreeConstants == Root \notin Entry /\ Nil \notin Entry /\ Nil # Root /\ Nil \notin Name
BY SharingAssumption DEF Tree!NamespaceAssumption

\* A row's parent is among its ancestors.
LEMMA AncestorsParent ==
  ASSUME NEW i \in Entry, place[i] \in Entry \cup {Root, Nil}
  PROVE  place[i] \in Tree!AncestorsOf(i)
BY DEF Tree!AncestorsOf, Tree!Climbed

\* A row is among its own ancestors.
LEMMA AncestorsSelf ==
  ASSUME NEW i \in Entry \cup {Root, Nil}
  PROVE  i \in Tree!AncestorsOf(i)
BY DEF Tree!AncestorsOf

\* Whoever else is above a row is above its parent.
LEMMA AncestorsAbove ==
  ASSUME NEW i \in Entry, NEW a \in Tree!AncestorsOf(i), a # i,
         place[i] \in Entry \cup {Root, Nil}
  PROVE  a \in Tree!AncestorsOf(place[i])
<1> SUFFICES ASSUME NEW S \in SUBSET (Entry \cup {Root, Nil}), place[i] \in S, Tree!Climbed(S)
             PROVE  a \in S
  BY DEF Tree!AncestorsOf
<1>1. Tree!Climbed(S \cup {i}) /\ i \in S \cup {i} /\ S \cup {i} \in SUBSET (Entry \cup {Root, Nil})
  BY DEF Tree!Climbed
<1>2. a \in S \cup {i}
  BY <1>1 DEF Tree!AncestorsOf
<1> QED
  BY <1>2

\* Nothing is above the root.
LEMMA AncestorsRoot ==
  ASSUME NEW a \in Tree!AncestorsOf(Root)
  PROVE  a = Root
<1>1. Tree!Climbed({Root}) /\ Root \in {Root} /\ {Root} \in SUBSET (Entry \cup {Root, Nil})
  BY TreeConstants DEF Tree!Climbed
<1>2. a \in {Root}
  BY <1>1 DEF Tree!AncestorsOf
<1> QED
  BY <1>2

\* In an empty drive with no request the invariant holds.
LEMMA TreeInit == Tree!Init => TreeInv
<1> SUFFICES ASSUME Tree!Init PROVE TreeInv
  OBVIOUS
<1> USE TreeConstants DEF Tree!Init, Tree!Idle
<1>1. TreeTypes
  BY DEF TreeTypes, TreeRequest
<1>2. (\A r \in Request : TreeRequestFits(r)) /\ \A r, s \in Request : r # s => TreeApart(r, s)
  BY DEF TreeRequestFits, TreeApart
<1>3. Tree!UniqueSiblingNames /\ Tree!NoMutualParents
  BY DEF Tree!UniqueSiblingNames, Tree!NoMutualParents, Tree!Siblings
<1> QED
  BY <1>1, <1>2, <1>3 DEF TreeInv

\* A step that writes no row only has its own request to answer for.
LEMMA TreeKeeps ==
  ASSUME TreeInv, NEW r \in Request, UNCHANGED <<place, name, kind, live>>,
         request' \in [Request -> TreeRequest], \A s \in Request \ {r} : request'[s] = request[s],
         TreeRequestFits(r)', \A s \in Request \ {r} : TreeApart(r, s)' /\ TreeApart(s, r)'
  PROVE  TreeInv'
<1>1. TreeTypes'
  BY DEF TreeInv, TreeTypes
<1>2. \A s \in Request : TreeRequestFits(s)'
  BY DEF TreeInv, TreeRequestFits
<1>3. \A s, u \in Request : s # u => TreeApart(s, u)'
  BY DEF TreeInv, TreeApart
<1>4. Tree!UniqueSiblingNames' /\ Tree!NoMutualParents'
  BY DEF TreeInv, Tree!UniqueSiblingNames, Tree!NoMutualParents, Tree!Siblings
<1> QED
  BY <1>1, <1>2, <1>3, <1>4 DEF TreeInv

\* A request that ends holds nothing.
LEMMA TreeFinish ==
  ASSUME TreeInv, NEW r \in Request, Tree!Finish(r)
  PROVE  /\ request' \in [Request -> TreeRequest] /\ request'[r] = Tree!Idle
         /\ \A s \in Request \ {r} : request'[s] = request[s]
         /\ TreeRequestFits(r)' /\ \A s \in Request \ {r} : TreeApart(r, s)' /\ TreeApart(s, r)'
<1>1. request' \in [Request -> TreeRequest] /\ request'[r] = Tree!Idle
      /\ \A s \in Request \ {r} : request'[s] = request[s]
  BY DEF Tree!Finish, Tree!Idle, TreeInv, TreeTypes, TreeRequest
<1>2. TreeRequestFits(r)' /\ \A s \in Request \ {r} : TreeApart(r, s)' /\ TreeApart(s, r)'
  BY <1>1, TreeConstants DEF Tree!Idle, TreeRequestFits, TreeApart
<1> QED
  BY <1>1, <1>2

\* A request begins with rows nobody else holds, and no name space.
LEMMA TreeBegins ==
  ASSUME TreeInv, NEW r \in Request, UNCHANGED <<place, name, kind, live>>,
         NEW op \in {"ensure", "upload", "shortcut", "update", "restore"},
         NEW i \in Entry \cup {Nil}, NEW d \in Entry \cup {Root}, NEW n \in Name,
         d = Root \/ place[d] # Nil, Tree!Begin(r, op, i, d, n),
         op \in {"update", "restore"} =>
            i # Nil /\ place[i] # Nil /\ d # i /\ ~Tree!RowHeld(i, r),
         op = "restore" => d \in {place[i], Root}
  PROVE  TreeInv'
<1> USE TreeConstants
<1> DEFINE q == [op |-> op, phase |-> "begun", item |-> i, dest |-> d, name |-> n, rows |-> {}]
<1>1. q \in TreeRequest
  BY DEF TreeRequest
<1>2. request' \in [Request -> TreeRequest] /\ request'[r] = q
      /\ \A s \in Request \ {r} : request'[s] = request[s]
  BY <1>1 DEF Tree!Begin, TreeInv, TreeTypes
<1>3. TreeRequestFits(r)'
  BY <1>2 DEF TreeRequestFits
<1>4. \A s \in Request \ {r} : TreeApart(r, s)' /\ TreeApart(s, r)'
  BY <1>2 DEF TreeApart, Tree!RowHeld
<1> HIDE DEF q
<1> QED
  BY <1>2, <1>3, <1>4, TreeKeeps

\* A request that locks the name space of its destination and settles on a name.
LEMMA TreeSettles ==
  ASSUME TreeInv, NEW r \in Request, UNCHANGED <<place, name, kind, live>>,
         NEW n \in Name, Tree!LockNamespace(r), Tree!Settle(r, n),
         request[r].op = "update" => Tree!TriggerAllows(request[r].item, request[r].dest)
  PROVE  TreeInv'
<1> USE TreeConstants
<1>0. request \in [Request -> TreeRequest] /\ request[r] \in TreeRequest
      /\ request' = [request EXCEPT ![r].phase = "named", ![r].name = n]
  BY DEF Tree!Settle, TreeInv, TreeTypes
<1> HIDE DEF TreeInv
<1>1. /\ request' \in [Request -> TreeRequest] /\ request[r] \in TreeRequest
      /\ \A s \in Request \ {r} : request'[s] = request[s]
      /\ request'[r].op = request[r].op /\ request'[r].phase = "named" /\ request'[r].name = n
      /\ request'[r].item = request[r].item /\ request'[r].dest = request[r].dest
  <2>1. request' \in [Request -> TreeRequest]
    BY <1>0 DEF TreeRequest
  <2>2. /\ \A s \in Request \ {r} : request'[s] = request[s]
        /\ request'[r].op = request[r].op /\ request'[r].phase = "named" /\ request'[r].name = n
        /\ request'[r].item = request[r].item /\ request'[r].dest = request[r].dest
    BY <1>0 DEF TreeRequest
  <2> QED
    BY <1>0, <2>1, <2>2
<1>2. TreeRequestFits(r)'
  <2>1. ASSUME request[r].op = "update", request[r].dest # place[request[r].item],
               request[r].dest \in Entry
        PROVE  place[request[r].dest] # request[r].item
    <3> DEFINE i == request[r].item
               d == request[r].dest
    <3>1. i # Nil /\ place[i] # Nil /\ place[d] # Nil /\ i \in Entry
      BY <1>1, <2>1 DEF TreeInv, TreeRequestFits, TreeRequest
    <3>2. d \notin Tree!Below(i)
      BY <2>1 DEF Tree!TriggerAllows
    <3>3. place[d] \in Tree!AncestorsOf(d)
      BY <2>1, AncestorsParent DEF TreeInv, TreeTypes
    <3> QED
      BY <2>1, <3>1, <3>2, <3>3 DEF Tree!Below
  <2> QED
    BY <1>1, <2>1 DEF TreeInv, TreeRequestFits, Tree!LockNamespace
<1>3. \A s \in Request \ {r} : TreeApart(r, s)' /\ TreeApart(s, r)'
  BY <1>1 DEF TreeInv, TreeApart, Tree!LockNamespace, Tree!NamespaceHeld
<1> QED
  BY <1>1, <1>2, <1>3, TreeKeeps

\* A new row takes nothing that is taken, under a row that exists.
LEMMA TreeInserts ==
  ASSUME TreeInv, NEW r \in Request, NEW op \in {"ensure", "upload", "shortcut"},
         NEW k \in {"folder", "file", "shortcut"}, Tree!Insert(r, op, k)
  PROVE  TreeInv'
<1> USE TreeConstants
<1> DEFINE d == request[r].dest
<1>1. PICK i \in Entry :
        /\ place[i] = Nil /\ place' = [place EXCEPT ![i] = d]
        /\ name' = [name EXCEPT ![i] = request[r].name] /\ live' = [live EXCEPT ![i] = TRUE]
        /\ kind' = [kind EXCEPT ![i] = k]
  BY DEF Tree!Insert
<1>2. Tree!Finish(r) /\ Tree!IndexAllows(place', name', live') /\ request[r].op = op
  BY DEF Tree!Insert
<1>3. /\ d \in Entry \cup {Root} /\ d # i /\ (d \in Entry => place[d] # Nil)
      /\ request[r].name \in Name
  BY <1>1, <1>2 DEF TreeInv, TreeTypes, TreeRequestFits, TreeRequest
<1>4. /\ request' \in [Request -> TreeRequest] /\ request'[r] = Tree!Idle
      /\ \A s \in Request \ {r} : request'[s] = request[s]
  BY <1>2, TreeFinish
<1>5. TreeTypes'
  BY <1>1, <1>3, <1>4 DEF TreeInv, TreeTypes
<1>6. \A j \in Entry : place[j] # Nil => place'[j] = place[j]
  BY <1>1 DEF TreeInv, TreeTypes
<1>7. \A s \in Request : TreeRequestFits(s)'
  <2>1. TreeRequestFits(r)'
    BY <1>2, TreeFinish
  <2>2. ASSUME NEW s \in Request \ {r} PROVE TreeRequestFits(s)'
    BY SMTT(60), <1>1, <1>4, <1>6 DEF TreeInv, TreeTypes, TreeRequestFits, TreeRequest
  <2> QED
    BY <2>1, <2>2
<1>8. \A s, u \in Request : s # u => TreeApart(s, u)'
  BY <1>2, <1>4, TreeFinish DEF TreeInv, TreeApart
<1>9. Tree!UniqueSiblingNames'
  BY <1>2, <1>5 DEF Tree!UniqueSiblingNames, Tree!Siblings, Tree!IndexAllows
<1>10. Tree!NoMutualParents'
  BY <1>1, <1>3 DEF TreeInv, TreeTypes, Tree!NoMutualParents
<1> QED
  BY <1>5, <1>7, <1>8, <1>9, <1>10 DEF TreeInv

\* A row goes where its request was told, held by nobody else: neither it nor
\* its destination can have moved under the other meanwhile.
LEMMA TreeMoves ==
  ASSUME TreeInv, NEW r \in Request, request[r].op \in {"update", "restore"},
         request[r].phase = "named", Tree!Finish(r),
         request[r].dest # place[request[r].item] => Tree!KeyShare(request[r].dest, r),
         place' = [place EXCEPT ![request[r].item] = request[r].dest],
         name' = [name EXCEPT ![request[r].item] = request[r].name],
         UNCHANGED kind, live' \in [Entry -> BOOLEAN], Tree!IndexAllows(place', name', live')
  PROVE  TreeInv'
<1> USE TreeConstants
<1> DEFINE i == request[r].item
           d == request[r].dest
<1>1. /\ i \in Entry /\ place[i] # Nil /\ d \in Entry \cup {Root} /\ d # i
      /\ d \in Entry => place[d] # Nil
      /\ request[r].name \in Name
      /\ d = place[i] \/ d = Root \/ place[d] # i
  BY DEF TreeInv, TreeTypes, TreeRequestFits, TreeRequest
<1>2. /\ request' \in [Request -> TreeRequest] /\ request'[r] = Tree!Idle
      /\ \A s \in Request \ {r} : request'[s] = request[s]
  BY TreeFinish
<1>3. place'[i] = d /\ \A j \in Entry \ {i} : place'[j] = place[j]
  BY <1>1 DEF TreeInv, TreeTypes
<1>4. TreeTypes'
  <2>1. place' \in [Entry -> Entry \cup {Root, Nil}] /\ name' \in [Entry -> Name \cup {Nil}]
    BY <1>1 DEF TreeInv, TreeTypes
  <2>2. name'[i] \in Name /\ \A j \in Entry \ {i} : name'[j] = name[j]
    BY <1>1 DEF TreeInv, TreeTypes
  <2> QED
    BY <1>1, <1>2, <1>3, <2>1, <2>2 DEF TreeInv, TreeTypes
<1>5. \A s \in Request : TreeRequestFits(s)'
  <2>1. TreeRequestFits(r)'
    BY TreeFinish
  <2>2. ASSUME NEW s \in Request \ {r} PROVE TreeRequestFits(s)'
    <3>1. request[s].op \in {"update", "restore"} =>
            /\ request[s].item # i /\ request[s].item \in Entry
            /\ d = place[i] \/ request[s].item # d
      BY DEF TreeInv, TreeTypes, TreeApart, TreeRequestFits, TreeRequest, Tree!KeyShare, Tree!RowHeld
    <3>2. \A j \in Entry : place'[j] # Nil <=> place[j] # Nil
      BY <1>1, <1>3
    <3>3. TreeRequestFits(s) /\ request[s] \in TreeRequest /\ request'[s] = request[s]
      BY <1>2 DEF TreeInv, TreeTypes
    <3> QED
      BY <1>1, <1>3, <3>1, <3>2, <3>3 DEF TreeRequestFits, TreeRequest
  <2> QED
    BY <2>1, <2>2
<1>6. \A s, u \in Request : s # u => TreeApart(s, u)'
  BY <1>2, TreeFinish DEF TreeInv, TreeApart
<1>7. Tree!UniqueSiblingNames'
  BY <1>4 DEF Tree!UniqueSiblingNames, Tree!Siblings, Tree!IndexAllows, TreeTypes
<1>8. Tree!NoMutualParents'
  BY <1>1, <1>3 DEF TreeInv, TreeTypes, Tree!NoMutualParents
<1> QED
  BY <1>4, <1>5, <1>6, <1>7, <1>8 DEF TreeInv

\* Trashing a subtree leaves every row where it is.
LEMMA TreeTrashes ==
  ASSUME TreeInv, NEW r \in Request, Tree!CommitTrash(r)
  PROVE  TreeInv'
<1>1. /\ UNCHANGED <<place, name, kind>> /\ Tree!Finish(r)
      /\ live' = [i \in Entry |-> live[i] /\ i \notin request[r].rows]
  BY DEF Tree!CommitTrash
<1>2. /\ request' \in [Request -> TreeRequest] /\ TreeRequestFits(r)'
      /\ \A s \in Request \ {r} : request'[s] = request[s] /\ TreeApart(r, s)' /\ TreeApart(s, r)'
  BY <1>1, TreeFinish
<1>3. TreeTypes'
  BY <1>1, <1>2 DEF TreeInv, TreeTypes
<1>4. (\A s \in Request : TreeRequestFits(s)') /\ \A s, u \in Request : s # u => TreeApart(s, u)'
  BY <1>1, <1>2 DEF TreeInv, TreeRequestFits, TreeApart
<1>5. Tree!UniqueSiblingNames' /\ Tree!NoMutualParents'
  BY <1>1 DEF TreeInv, Tree!UniqueSiblingNames, Tree!NoMutualParents, Tree!Siblings
<1> QED
  BY <1>3, <1>4, <1>5 DEF TreeInv

\* Every step of the tree keeps the invariant.
LEMMA TreeStep == TreeInv /\ Tree!Next => TreeInv'
<1> SUFFICES ASSUME TreeInv, Tree!Next PROVE TreeInv'
  OBVIOUS
<1> USE TreeConstants DEF Tree!tree
<1>0. ASSUME NEW r \in Request, UNCHANGED <<place, name, kind, live>>, Tree!Finish(r) PROVE TreeInv'
  BY <1>0, TreeFinish, TreeKeeps
<1>1. ASSUME NEW r \in Request, Tree!ResolveFolder(r) \/ Tree!ResolveUploadParent(r) \/ Tree!ResolveShortcut(r)
      PROVE  TreeInv'
  <2>1. \A d \in Entry \cup {Root} : Tree!LiveFolder(d) => d = Root \/ place[d] # Nil
    BY DEF Tree!LiveFolder, Tree!Exists
  <2> QED
    BY <1>1, <2>1, TreeBegins DEF Tree!ResolveFolder, Tree!ResolveUploadParent, Tree!ResolveShortcut
<1>2. ASSUME NEW r \in Request, Tree!BeginUpdate(r) PROVE TreeInv'
  <2>1. PICK i \in Entry, d \in Entry \cup {Root}, n \in Name :
          /\ place[i] # Nil /\ ~Tree!RowHeld(i, r) /\ Tree!Begin(r, "update", i, d, n)
          /\ d # place[i] => Tree!LiveFolder(d) /\ d # i
    BY <1>2 DEF Tree!BeginUpdate, Tree!Exists
  <2>2. d # i /\ (d = Root \/ place[d] # Nil)
    BY <2>1 DEF TreeInv, TreeTypes, Tree!LiveFolder, Tree!Exists
  <2>3. UNCHANGED <<place, name, kind, live>>
    BY <1>2 DEF Tree!BeginUpdate
  <2> QED
    BY <2>1, <2>2, <2>3, TreeBegins
<1>3. ASSUME NEW r \in Request, Tree!BeginRestore(r) PROVE TreeInv'
  <2>1. PICK i \in Entry :
          /\ place[i] # Nil /\ ~Tree!RowHeld(i, r)
          /\ Tree!Begin(r, "restore", i,
                        IF Tree!LiveFolder(place[i]) THEN place[i] ELSE Root, name[i])
    BY <1>3 DEF Tree!BeginRestore, Tree!Exists
  <2>2. PICK d \in Entry \cup {Root} :
          /\ d = IF Tree!LiveFolder(place[i]) THEN place[i] ELSE Root
          /\ d \in {place[i], Root} /\ d # i /\ (d = Root \/ place[d] # Nil)
    BY <2>1 DEF TreeInv, TreeTypes
  <2>3. name[i] \in Name
    BY <2>1 DEF TreeInv, TreeTypes
  <2>4. UNCHANGED <<place, name, kind, live>>
    BY <1>3 DEF Tree!BeginRestore
  <2> QED
    BY <2>1, <2>2, <2>3, <2>4, TreeBegins
<1>4. ASSUME NEW r \in Request, Tree!BeginTrash(r) PROVE TreeInv'
  <2>1. PICK i \in Entry : request' = [request EXCEPT ![r] =
          [op |-> "trash", phase |-> "named", item |-> i, dest |-> Nil, name |-> Nil,
           rows |-> Tree!Below(i)]]
    BY <1>4 DEF Tree!BeginTrash
  <2>2. UNCHANGED <<place, name, kind, live>> /\ Tree!Below(i) \in SUBSET Entry
    BY <1>4 DEF Tree!BeginTrash, Tree!Below
  <2>3. request' \in [Request -> TreeRequest] /\ \A s \in Request \ {r} : request'[s] = request[s]
    BY <2>1, <2>2 DEF TreeInv, TreeTypes, TreeRequest
  <2>4. request'[r].op = "trash" /\ request'[r].phase = "named" /\ request'[r].dest = Nil
    BY <2>1 DEF TreeInv, TreeTypes
  <2>5. TreeRequestFits(r)'
    BY <2>4 DEF TreeRequestFits
  <2>6. \A s \in Request \ {r} : TreeApart(r, s)' /\ TreeApart(s, r)'
    BY <2>3, <2>4 DEF TreeApart
  <2> QED
    BY <2>2, <2>3, <2>5, <2>6, TreeKeeps
<1>5. ASSUME NEW r \in Request, Tree!LockNamespace(r) PROVE request[r].name \in Name \/ request[r].op \in {"none", "trash"}
  BY DEF TreeInv, TreeTypes, TreeRequestFits, TreeRequest
<1>6. ASSUME NEW r \in Request,
             Tree!FindFolder(r) \/ Tree!FindRevisionTarget(r) \/ Tree!ApplyShortcut(r)
             \/ Tree!ApplyUpdate(r)
      PROVE  TreeInv'
  BY <1>0, <1>5, <1>6, TreeSettles
     DEF Tree!FindFolder, Tree!FindRevisionTarget, Tree!ApplyShortcut, Tree!ApplyUpdate
<1>7. ASSUME NEW r \in Request, Tree!ReserveName(r) PROVE TreeInv'
  <2>1. PICK n \in Tree!AvailableNames(request[r].dest, request[r].name) : Tree!Settle(r, n)
    BY <1>7 DEF Tree!ReserveName
  <2>2. Tree!LockNamespace(r) /\ request[r].op \in {"upload", "restore"}
        /\ UNCHANGED <<place, name, kind, live>>
    BY <1>7 DEF Tree!ReserveName
  <2>3. n \in Name
    BY <1>5, <2>2 DEF Tree!AvailableNames
  <2> QED
    BY <2>1, <2>2, <2>3, TreeSettles
<1>8. ASSUME NEW r \in Request, Tree!CommitFolder(r) \/ Tree!CommitUpload(r) \/ Tree!CommitShortcut(r) PROVE TreeInv'
  BY <1>8, TreeInserts DEF Tree!CommitFolder, Tree!CommitUpload, Tree!CommitShortcut
<1>9. ASSUME NEW r \in Request, Tree!CommitUpdate(r) PROVE TreeInv'
  <2>1. live' \in [Entry -> BOOLEAN]
    BY <1>9 DEF Tree!CommitUpdate, TreeInv, TreeTypes
  <2>2. live' = live
    BY <1>9 DEF Tree!CommitUpdate
  <2> QED
    BY <1>9, <2>1, <2>2, TreeMoves DEF Tree!CommitUpdate
<1>10. ASSUME NEW r \in Request, Tree!CommitRestore(r) PROVE TreeInv'
  <2>1. live' \in [Entry -> BOOLEAN]
    BY <1>10 DEF Tree!CommitRestore, TreeInv, TreeTypes
  <2> QED
    BY <1>10, <2>1, TreeMoves DEF Tree!CommitRestore
<1> QED
  BY <1>0, <1>1, <1>2, <1>3, <1>4, <1>6, <1>7, <1>8, <1>9, <1>10, TreeTrashes
     DEF Tree!Next, Tree!RollBack

\* So does a step that leaves the tree alone.
LEMMA TreeRests == TreeInv /\ UNCHANGED treeVars => TreeInv'
<1> SUFFICES ASSUME TreeInv, UNCHANGED treeVars PROVE TreeInv'
  OBVIOUS
<1> USE DEF treeVars
<1>1. TreeTypes'
  BY DEF TreeInv, TreeTypes
<1>2. (\A r \in Request : TreeRequestFits(r)') /\ \A r, s \in Request : r # s => TreeApart(r, s)'
  BY DEF TreeInv, TreeRequestFits, TreeApart
<1>3. Tree!UniqueSiblingNames' /\ Tree!NoMutualParents'
  BY DEF TreeInv, Tree!UniqueSiblingNames, Tree!NoMutualParents, Tree!Siblings
<1> QED
  BY <1>1, <1>2, <1>3 DEF TreeInv

\* The invariant always holds.
LEMMA TreeInvariant == Spec => []TreeInv
<1>1. Init => TreeInv
  BY TreeInit DEF Init
<1>2. TreeInv /\ [Next]_vars => TreeInv'
  BY TreeStep, TreeRests DEF Next, vars, treeVars
<1> QED
  BY <1>1, <1>2, PTL DEF Spec

\* Live siblings always differ in name and no two folders are each other's
\* parents, however many requests create, move, trash and restore at once.
THEOREM TreeCorrect == Spec => []OneTree
<1>1. TreeInv => Tree!TypeOK
  BY DEF TreeInv, TreeTypes, TreeRequest, Tree!TypeOK, Tree!Exists
<1>2. TreeInv => OneTree
  BY <1>1 DEF TreeInv, OneTree
<1> QED
  BY <1>2, TreeInvariant, PTL

\* A name settled on under a lock is only ever taken by the restore of a
\* folder above.
LEMMA TreeStaysFree ==
  ASSUME TreeInv, Tree!Next, NEW r \in Request, Tree!SettledNameFree(r), request'[r] = request[r]
  PROVE  Tree!SettledNameFree(r)' \/ Tree!RestoredAbove(request[r].dest)
<1> USE TreeConstants
<1> DEFINE d == request[r].dest
           n == request[r].name
<1>1. /\ request[r].phase = "named" /\ request[r].op \in {"ensure", "upload", "restore"}
      /\ d \in Entry \cup {Root} /\ n \in Name
      /\ \A j \in Entry : place[j] = d /\ live[j] => name[j] # n
  BY DEF Tree!SettledNameFree, Tree!Taken, Tree!Siblings, TreeInv, TreeTypes, TreeRequestFits, TreeRequest
<1> SUFFICES ASSUME NEW j \in Entry, place'[j] = d, live'[j], name'[j] = n
             PROVE  Tree!RestoredAbove(d)
  BY <1>1 DEF Tree!SettledNameFree, Tree!Taken, Tree!Siblings
<1>2. ASSUME UNCHANGED <<place, name, kind, live>> PROVE FALSE
  BY <1>1, <1>2
<1>3. ASSUME NEW q \in Request, Tree!Finish(q) PROVE q # r
  BY <1>1, <1>3 DEF Tree!Finish, Tree!Idle, TreeInv, TreeTypes
<1>4. ASSUME NEW q \in Request, q # r, request[q].phase = "named", request[q].dest # Nil
      PROVE  request[q].dest # d
  BY <1>1, <1>4 DEF TreeInv, TreeApart
<1>5. ASSUME NEW q \in Request, NEW op \in {"ensure", "upload", "shortcut"}, NEW k, Tree!Insert(q, op, k)
      PROVE  FALSE
  <2>1. request[q].dest # d
    BY <1>3, <1>4, <1>5 DEF Tree!Insert, TreeInv, TreeRequestFits
  <2>2. PICK i \in Entry :
          /\ place' = [place EXCEPT ![i] = request[q].dest]
          /\ name' = [name EXCEPT ![i] = request[q].name] /\ live' = [live EXCEPT ![i] = TRUE]
    BY <1>5 DEF Tree!Insert
  <2>3. j # i
    BY <2>1, <2>2 DEF TreeInv, TreeTypes
  <2> QED
    BY <1>1, <2>2, <2>3 DEF TreeInv, TreeTypes
<1>6. ASSUME NEW q \in Request, Tree!CommitUpdate(q) PROVE FALSE
  <2>1. request[q].dest # d /\ request[q].item \in Entry
    BY <1>3, <1>4, <1>6 DEF Tree!CommitUpdate, TreeInv, TreeTypes, TreeRequestFits, TreeRequest
  <2>2. j # request[q].item
    BY <1>6, <2>1 DEF Tree!CommitUpdate, TreeInv, TreeTypes
  <2> QED
    BY <1>1, <1>6, <2>2 DEF Tree!CommitUpdate, TreeInv, TreeTypes
<1>7. ASSUME NEW q \in Request, Tree!CommitTrash(q) PROVE FALSE
  BY <1>1, <1>7 DEF Tree!CommitTrash, TreeInv, TreeTypes
<1>8. ASSUME NEW q \in Request, Tree!CommitRestore(q) PROVE Tree!RestoredAbove(d)
  <2> DEFINE i == request[q].item
  <2>1. request[q].dest # d /\ i \in Entry /\ place[i] # Nil /\ request[q].op = "restore"
    BY <1>3, <1>4, <1>8 DEF Tree!CommitRestore, TreeInv, TreeTypes, TreeRequestFits, TreeRequest
  <2>2. /\ place' = [place EXCEPT ![i] = request[q].dest] /\ name' = [name EXCEPT ![i] = request[q].name]
        /\ live' = [k \in Entry |-> live[k] \/ k \in Tree!Below(i)] /\ Tree!Finish(q)
    BY <1>8 DEF Tree!CommitRestore
  <2>3. j # i /\ place[j] = d /\ name[j] = n
    BY <2>1, <2>2 DEF TreeInv, TreeTypes
  <2>4. j \in Tree!Below(i)
    BY <1>1, <2>2, <2>3
  <2>5. i \in Tree!AncestorsOf(d)
    BY <1>1, <2>3, <2>4, AncestorsAbove DEF Tree!Below
  <2>6. d \in Entry /\ place[d] # Nil
    BY <1>1, <2>1, <2>3, <2>5, AncestorsRoot DEF TreeInv, TreeTypes
  <2>7. d \in Tree!Below(i)
    BY <2>5, <2>6 DEF Tree!Below
  <2>8. live'[i]
    BY <2>1, <2>2, AncestorsSelf DEF Tree!Below
  <2>9. request'[q] = Tree!Idle
    BY <2>2, TreeFinish
  <2> QED
    BY <2>1, <2>7, <2>8, <2>9 DEF Tree!RestoredAbove
<1> QED
  BY <1>2, <1>5, <1>6, <1>7, <1>8
     DEF Tree!Next, Tree!tree, Tree!ResolveFolder, Tree!ResolveUploadParent, Tree!ResolveShortcut,
         Tree!BeginUpdate, Tree!BeginRestore, Tree!BeginTrash, Tree!FindFolder,
         Tree!FindRevisionTarget, Tree!ReserveName, Tree!ApplyShortcut, Tree!ApplyUpdate,
         Tree!CommitFolder, Tree!CommitUpload, Tree!CommitShortcut, Tree!RollBack

\* The run's action property: no other creation, move or rename takes a name
\* that a request has settled on, for any number of requests and rows.
THEOREM NamesStayFree == Spec => SettledNamesStayFree
<1>1. TreeInv /\ [Next]_vars =>
        [\A r \in Request :
            Tree!SettledNameFree(r) /\ request'[r] = request[r]
                => Tree!SettledNameFree(r)' \/ Tree!RestoredAbove(request[r].dest)]_(Tree!vars)
  BY TreeStaysFree DEF Next, vars, treeVars, Tree!vars
<1> QED
  BY <1>1, TreeInvariant, PTL DEF Spec, SettledNamesStayFree, Tree!SettledNamesStayFree

-----------------------------------------------------------------------------
(* Access: what SharedAccessProofs proves of one set of rows, for the      *)
(* permissions, the links and the invitations of the suite.                *)
GrantsP == INSTANCE SharedAccessProofs WITH
    Folder <- Granting.folder, File <- Granting.file, Guest <- Granting.guest,
    Role <- Granting.role, Invitation <- Granting.invitation, Link <- Granting.link,
    MaxAsks <- Granting.asks
LinksP == INSTANCE SharedAccessProofs WITH
    Folder <- Linking.folder, File <- Linking.file, Guest <- Linking.guest,
    Role <- Linking.role, Invitation <- Linking.invitation, Link <- Linking.link,
    MaxAsks <- Linking.asks
InvitesP == INSTANCE SharedAccessProofs WITH
    Folder <- Inviting.folder, File <- Inviting.file, Guest <- Inviting.guest,
    Role <- Inviting.role, Invitation <- Inviting.invitation, Link <- Inviting.link,
    MaxAsks <- Inviting.asks

\* Permissions: the proofs are about the actions of the suite.
LEMMA GrantsSame ==
  /\ GrantsP!RolesAssumption
  /\ Grants!Init <=> GrantsP!Init
  /\ Grants!Next <=> GrantsP!Next
  /\ Grants!TypeOK <=> GrantsP!TypeOK
<1>1. Grants!AskSharing <=> GrantsP!AskSharing
  <2>1. Grants!Cardinality(asks) = GrantsP!Cardinality(asks)
    BY Zenon DEF Grants!Cardinality, GrantsP!Cardinality
  <2>2. \A a : Grants!Ask(a) <=> GrantsP!Ask(a)
    BY <2>1, Zenon DEF Grants!Ask, GrantsP!Ask, Grants!RequireShareManager,
       GrantsP!RequireShareManager
  <2>3. /\ \A i : Grants!Manage(i) = GrantsP!Manage(i)
        /\ \A i, u, r : Grants!GrantTo(i, u, r) = GrantsP!GrantTo(i, u, r)
    BY DEF Grants!Manage, GrantsP!Manage, Grants!GrantTo, GrantsP!GrantTo
  <2> QED
    BY <2>2, <2>3, Zenon DEF Grants!AskSharing, GrantsP!AskSharing, Grants!Item,
       GrantsP!Item, Grants!Container, GrantsP!Container
<1>2. \A a : Grants!GrantItemPermission(a) <=> GrantsP!GrantItemPermission(a)
  BY DEF Grants!GrantItemPermission, GrantsP!GrantItemPermission, Grants!ValidShareRole,
     GrantsP!ValidShareRole, Grants!Becomes, GrantsP!Becomes, Grants!tree, GrantsP!tree
<1>3. \A a : Grants!InviteInstead(a) <=> GrantsP!InviteInstead(a)
  BY DEF Grants!InviteInstead, GrantsP!InviteInstead, Grants!RequireShareManager,
     GrantsP!RequireShareManager, Grants!Becomes, GrantsP!Becomes, Grants!tree,
     GrantsP!tree
<1>4. \A a : Grants!CreateShareInvitation(a) <=> GrantsP!CreateShareInvitation(a)
  BY DEF Grants!CreateShareInvitation, GrantsP!CreateShareInvitation, Grants!PendingFor,
     GrantsP!PendingFor, Grants!tree, GrantsP!tree
<1>5. \A a, n : Grants!RevokeShareInvitation(a, n) <=> GrantsP!RevokeShareInvitation(a, n)
  BY DEF Grants!RevokeShareInvitation, GrantsP!RevokeShareInvitation, Grants!Pending,
     GrantsP!Pending, Grants!tree, GrantsP!tree
<1>6. \A a, n : Grants!ResendShareInvitation(a, n) <=> GrantsP!ResendShareInvitation(a, n)
  BY DEF Grants!ResendShareInvitation, GrantsP!ResendShareInvitation, Grants!Pending,
     GrantsP!Pending, Grants!tree, GrantsP!tree
<1>7. \A a, u : Grants!RevokeItemPermission(a, u) <=> GrantsP!RevokeItemPermission(a, u)
  BY DEF Grants!RevokeItemPermission, GrantsP!RevokeItemPermission, Grants!HasRow,
     GrantsP!HasRow, Grants!NoRow, GrantsP!NoRow, Grants!tree, GrantsP!tree
<1>8. \A a, l : Grants!CreateShareLink(a, l) <=> GrantsP!CreateShareLink(a, l)
  BY DEF Grants!CreateShareLink, GrantsP!CreateShareLink, Grants!NoLink, GrantsP!NoLink,
     Grants!tree, GrantsP!tree
<1>9. \A a, l : Grants!RevokeShareLink(a, l) <=> GrantsP!RevokeShareLink(a, l)
  BY DEF Grants!RevokeShareLink, GrantsP!RevokeShareLink, Grants!Revoked, GrantsP!Revoked,
     Grants!tree, GrantsP!tree
<1>10. \A u : Grants!ProvisionGoogleAccount(u) <=> GrantsP!ProvisionGoogleAccount(u)
  BY DEF Grants!ProvisionGoogleAccount, GrantsP!ProvisionGoogleAccount, Grants!Acceptable,
     GrantsP!Acceptable, Grants!Pending, GrantsP!Pending, Grants!Item, GrantsP!Item,
     Grants!Container, GrantsP!Container, Grants!tree, GrantsP!tree
<1>11. Grants!TimePasses <=> GrantsP!TimePasses
  BY DEF Grants!TimePasses, GrantsP!TimePasses, Grants!Item, GrantsP!Item,
     Grants!Container, GrantsP!Container, Grants!Pending, GrantsP!Pending, Grants!Open,
     GrantsP!Open, Grants!tree, GrantsP!tree
<1>12. \A i : Grants!Trash(i) <=> GrantsP!Trash(i)
  BY DEF Grants!Trash, GrantsP!Trash, Grants!Item, GrantsP!Item, Grants!Container,
     GrantsP!Container, Grants!TreeOf, GrantsP!TreeOf, Grants!DownClosed,
     GrantsP!DownClosed
<1>13. \A i : Grants!Restore(i) <=> GrantsP!Restore(i)
  BY DEF Grants!Restore, GrantsP!Restore, Grants!Item, GrantsP!Item, Grants!Container,
     GrantsP!Container, Grants!TreeOf, GrantsP!TreeOf, Grants!DownClosed,
     GrantsP!DownClosed
<1>14. \A x : Grants!Move(x) <=> GrantsP!Move(x)
  BY DEF Grants!Move, GrantsP!Move, Grants!Container, GrantsP!Container, Grants!Untrashed,
     GrantsP!Untrashed, Grants!Item, GrantsP!Item
<1>15. Grants!Next <=> GrantsP!Next
  BY <1>1, <1>2, <1>3, <1>4, <1>5, <1>6, <1>7, <1>8, <1>9, <1>10, <1>11, <1>12, <1>13,
     <1>14, Zenon DEF Grants!Next, GrantsP!Next, Grants!Item, GrantsP!Item,
     Grants!Container, GrantsP!Container
<1>16. GrantsP!RolesAssumption
  BY SharingAssumption DEF Grants!RolesAssumption, GrantsP!RolesAssumption, Grants!Item,
     GrantsP!Item, Grants!Container, GrantsP!Container
<1>17. Grants!Init <=> GrantsP!Init
  BY DEF Grants!Init, GrantsP!Init, Grants!Item, GrantsP!Item, Grants!Container,
     GrantsP!Container, Grants!NoRow, GrantsP!NoRow, Grants!NoInvitation,
     GrantsP!NoInvitation, Grants!NoLink, GrantsP!NoLink
<1>18. Grants!TypeOK <=> GrantsP!TypeOK
  <2>1. Grants!Cardinality(asks) = GrantsP!Cardinality(asks)
    BY Zenon DEF Grants!Cardinality, GrantsP!Cardinality
  <2> QED
    BY <2>1, Zenon DEF Grants!TypeOK, GrantsP!TypeOK, Grants!Item, GrantsP!Item,
       Grants!Container, GrantsP!Container
<1> QED
  BY <1>15, <1>16, <1>17, <1>18

\* Links: the proofs are about the actions of the suite.
LEMMA LinksSame ==
  /\ LinksP!RolesAssumption
  /\ Links!Init <=> LinksP!Init
  /\ Links!Next <=> LinksP!Next
  /\ Links!TypeOK <=> LinksP!TypeOK
<1>1. Links!AskSharing <=> LinksP!AskSharing
  <2>1. Links!Cardinality(asks) = LinksP!Cardinality(asks)
    BY Zenon DEF Links!Cardinality, LinksP!Cardinality
  <2>2. \A a : Links!Ask(a) <=> LinksP!Ask(a)
    BY <2>1, Zenon DEF Links!Ask, LinksP!Ask, Links!RequireShareManager,
       LinksP!RequireShareManager
  <2>3. /\ \A i : Links!Manage(i) = LinksP!Manage(i)
        /\ \A i, u, r : Links!GrantTo(i, u, r) = LinksP!GrantTo(i, u, r)
    BY DEF Links!Manage, LinksP!Manage, Links!GrantTo, LinksP!GrantTo
  <2> QED
    BY <2>2, <2>3, Zenon DEF Links!AskSharing, LinksP!AskSharing, Links!Item, LinksP!Item,
       Links!Container, LinksP!Container
<1>2. \A a : Links!GrantItemPermission(a) <=> LinksP!GrantItemPermission(a)
  BY DEF Links!GrantItemPermission, LinksP!GrantItemPermission, Links!ValidShareRole,
     LinksP!ValidShareRole, Links!Becomes, LinksP!Becomes, Links!tree, LinksP!tree
<1>3. \A a : Links!InviteInstead(a) <=> LinksP!InviteInstead(a)
  BY DEF Links!InviteInstead, LinksP!InviteInstead, Links!RequireShareManager,
     LinksP!RequireShareManager, Links!Becomes, LinksP!Becomes, Links!tree, LinksP!tree
<1>4. \A a : Links!CreateShareInvitation(a) <=> LinksP!CreateShareInvitation(a)
  BY DEF Links!CreateShareInvitation, LinksP!CreateShareInvitation, Links!PendingFor,
     LinksP!PendingFor, Links!tree, LinksP!tree
<1>5. \A a, n : Links!RevokeShareInvitation(a, n) <=> LinksP!RevokeShareInvitation(a, n)
  BY DEF Links!RevokeShareInvitation, LinksP!RevokeShareInvitation, Links!Pending,
     LinksP!Pending, Links!tree, LinksP!tree
<1>6. \A a, n : Links!ResendShareInvitation(a, n) <=> LinksP!ResendShareInvitation(a, n)
  BY DEF Links!ResendShareInvitation, LinksP!ResendShareInvitation, Links!Pending,
     LinksP!Pending, Links!tree, LinksP!tree
<1>7. \A a, u : Links!RevokeItemPermission(a, u) <=> LinksP!RevokeItemPermission(a, u)
  BY DEF Links!RevokeItemPermission, LinksP!RevokeItemPermission, Links!HasRow,
     LinksP!HasRow, Links!NoRow, LinksP!NoRow, Links!tree, LinksP!tree
<1>8. \A a, l : Links!CreateShareLink(a, l) <=> LinksP!CreateShareLink(a, l)
  BY DEF Links!CreateShareLink, LinksP!CreateShareLink, Links!NoLink, LinksP!NoLink,
     Links!tree, LinksP!tree
<1>9. \A a, l : Links!RevokeShareLink(a, l) <=> LinksP!RevokeShareLink(a, l)
  BY DEF Links!RevokeShareLink, LinksP!RevokeShareLink, Links!Revoked, LinksP!Revoked,
     Links!tree, LinksP!tree
<1>10. \A u : Links!ProvisionGoogleAccount(u) <=> LinksP!ProvisionGoogleAccount(u)
  BY DEF Links!ProvisionGoogleAccount, LinksP!ProvisionGoogleAccount, Links!Acceptable,
     LinksP!Acceptable, Links!Pending, LinksP!Pending, Links!Item, LinksP!Item,
     Links!Container, LinksP!Container, Links!tree, LinksP!tree
<1>11. Links!TimePasses <=> LinksP!TimePasses
  BY DEF Links!TimePasses, LinksP!TimePasses, Links!Item, LinksP!Item, Links!Container,
     LinksP!Container, Links!Pending, LinksP!Pending, Links!Open, LinksP!Open, Links!tree,
     LinksP!tree
<1>12. \A i : Links!Trash(i) <=> LinksP!Trash(i)
  BY DEF Links!Trash, LinksP!Trash, Links!Item, LinksP!Item, Links!Container,
     LinksP!Container, Links!TreeOf, LinksP!TreeOf, Links!DownClosed, LinksP!DownClosed
<1>13. \A i : Links!Restore(i) <=> LinksP!Restore(i)
  BY DEF Links!Restore, LinksP!Restore, Links!Item, LinksP!Item, Links!Container,
     LinksP!Container, Links!TreeOf, LinksP!TreeOf, Links!DownClosed, LinksP!DownClosed
<1>14. \A x : Links!Move(x) <=> LinksP!Move(x)
  BY DEF Links!Move, LinksP!Move, Links!Container, LinksP!Container, Links!Untrashed,
     LinksP!Untrashed, Links!Item, LinksP!Item
<1>15. Links!Next <=> LinksP!Next
  BY <1>1, <1>2, <1>3, <1>4, <1>5, <1>6, <1>7, <1>8, <1>9, <1>10, <1>11, <1>12, <1>13,
     <1>14, Zenon DEF Links!Next, LinksP!Next, Links!Item, LinksP!Item, Links!Container,
     LinksP!Container
<1>16. LinksP!RolesAssumption
  BY SharingAssumption DEF Links!RolesAssumption, LinksP!RolesAssumption, Links!Item,
     LinksP!Item, Links!Container, LinksP!Container
<1>17. Links!Init <=> LinksP!Init
  BY DEF Links!Init, LinksP!Init, Links!Item, LinksP!Item, Links!Container,
     LinksP!Container, Links!NoRow, LinksP!NoRow, Links!NoInvitation, LinksP!NoInvitation,
     Links!NoLink, LinksP!NoLink
<1>18. Links!TypeOK <=> LinksP!TypeOK
  <2>1. Links!Cardinality(asks) = LinksP!Cardinality(asks)
    BY Zenon DEF Links!Cardinality, LinksP!Cardinality
  <2> QED
    BY <2>1, Zenon DEF Links!TypeOK, LinksP!TypeOK, Links!Item, LinksP!Item,
       Links!Container, LinksP!Container
<1> QED
  BY <1>15, <1>16, <1>17, <1>18

\* Invitations: the proofs are about the actions of the suite.
LEMMA InvitesSame ==
  /\ InvitesP!RolesAssumption
  /\ Invites!Init <=> InvitesP!Init
  /\ Invites!Next <=> InvitesP!Next
  /\ Invites!TypeOK <=> InvitesP!TypeOK
<1>1. Invites!AskSharing <=> InvitesP!AskSharing
  <2>1. Invites!Cardinality(asks) = InvitesP!Cardinality(asks)
    BY Zenon DEF Invites!Cardinality, InvitesP!Cardinality
  <2>2. \A a : Invites!Ask(a) <=> InvitesP!Ask(a)
    BY <2>1, Zenon DEF Invites!Ask, InvitesP!Ask, Invites!RequireShareManager,
       InvitesP!RequireShareManager
  <2>3. /\ \A i : Invites!Manage(i) = InvitesP!Manage(i)
        /\ \A i, u, r : Invites!GrantTo(i, u, r) = InvitesP!GrantTo(i, u, r)
    BY DEF Invites!Manage, InvitesP!Manage, Invites!GrantTo, InvitesP!GrantTo
  <2> QED
    BY <2>2, <2>3, Zenon DEF Invites!AskSharing, InvitesP!AskSharing, Invites!Item,
       InvitesP!Item, Invites!Container, InvitesP!Container
<1>2. \A a : Invites!GrantItemPermission(a) <=> InvitesP!GrantItemPermission(a)
  BY DEF Invites!GrantItemPermission, InvitesP!GrantItemPermission, Invites!ValidShareRole,
     InvitesP!ValidShareRole, Invites!Becomes, InvitesP!Becomes, Invites!tree,
     InvitesP!tree
<1>3. \A a : Invites!InviteInstead(a) <=> InvitesP!InviteInstead(a)
  BY DEF Invites!InviteInstead, InvitesP!InviteInstead, Invites!RequireShareManager,
     InvitesP!RequireShareManager, Invites!Becomes, InvitesP!Becomes, Invites!tree,
     InvitesP!tree
<1>4. \A a : Invites!CreateShareInvitation(a) <=> InvitesP!CreateShareInvitation(a)
  BY DEF Invites!CreateShareInvitation, InvitesP!CreateShareInvitation, Invites!PendingFor,
     InvitesP!PendingFor, Invites!tree, InvitesP!tree
<1>5. \A a, n : Invites!RevokeShareInvitation(a, n) <=> InvitesP!RevokeShareInvitation(a, n)
  BY DEF Invites!RevokeShareInvitation, InvitesP!RevokeShareInvitation, Invites!Pending,
     InvitesP!Pending, Invites!tree, InvitesP!tree
<1>6. \A a, n : Invites!ResendShareInvitation(a, n) <=> InvitesP!ResendShareInvitation(a, n)
  BY DEF Invites!ResendShareInvitation, InvitesP!ResendShareInvitation, Invites!Pending,
     InvitesP!Pending, Invites!tree, InvitesP!tree
<1>7. \A a, u : Invites!RevokeItemPermission(a, u) <=> InvitesP!RevokeItemPermission(a, u)
  BY DEF Invites!RevokeItemPermission, InvitesP!RevokeItemPermission, Invites!HasRow,
     InvitesP!HasRow, Invites!NoRow, InvitesP!NoRow, Invites!tree, InvitesP!tree
<1>8. \A a, l : Invites!CreateShareLink(a, l) <=> InvitesP!CreateShareLink(a, l)
  BY DEF Invites!CreateShareLink, InvitesP!CreateShareLink, Invites!NoLink,
     InvitesP!NoLink, Invites!tree, InvitesP!tree
<1>9. \A a, l : Invites!RevokeShareLink(a, l) <=> InvitesP!RevokeShareLink(a, l)
  BY DEF Invites!RevokeShareLink, InvitesP!RevokeShareLink, Invites!Revoked,
     InvitesP!Revoked, Invites!tree, InvitesP!tree
<1>10. \A u : Invites!ProvisionGoogleAccount(u) <=> InvitesP!ProvisionGoogleAccount(u)
  BY DEF Invites!ProvisionGoogleAccount, InvitesP!ProvisionGoogleAccount,
     Invites!Acceptable, InvitesP!Acceptable, Invites!Pending, InvitesP!Pending,
     Invites!Item, InvitesP!Item, Invites!Container, InvitesP!Container, Invites!tree,
     InvitesP!tree
<1>11. Invites!TimePasses <=> InvitesP!TimePasses
  BY DEF Invites!TimePasses, InvitesP!TimePasses, Invites!Item, InvitesP!Item,
     Invites!Container, InvitesP!Container, Invites!Pending, InvitesP!Pending,
     Invites!Open, InvitesP!Open, Invites!tree, InvitesP!tree
<1>12. \A i : Invites!Trash(i) <=> InvitesP!Trash(i)
  BY DEF Invites!Trash, InvitesP!Trash, Invites!Item, InvitesP!Item, Invites!Container,
     InvitesP!Container, Invites!TreeOf, InvitesP!TreeOf, Invites!DownClosed,
     InvitesP!DownClosed
<1>13. \A i : Invites!Restore(i) <=> InvitesP!Restore(i)
  BY DEF Invites!Restore, InvitesP!Restore, Invites!Item, InvitesP!Item, Invites!Container,
     InvitesP!Container, Invites!TreeOf, InvitesP!TreeOf, Invites!DownClosed,
     InvitesP!DownClosed
<1>14. \A x : Invites!Move(x) <=> InvitesP!Move(x)
  BY DEF Invites!Move, InvitesP!Move, Invites!Container, InvitesP!Container,
     Invites!Untrashed, InvitesP!Untrashed, Invites!Item, InvitesP!Item
<1>15. Invites!Next <=> InvitesP!Next
  BY <1>1, <1>2, <1>3, <1>4, <1>5, <1>6, <1>7, <1>8, <1>9, <1>10, <1>11, <1>12, <1>13,
     <1>14, Zenon DEF Invites!Next, InvitesP!Next, Invites!Item, InvitesP!Item,
     Invites!Container, InvitesP!Container
<1>16. InvitesP!RolesAssumption
  BY SharingAssumption DEF Invites!RolesAssumption, InvitesP!RolesAssumption, Invites!Item,
     InvitesP!Item, Invites!Container, InvitesP!Container
<1>17. Invites!Init <=> InvitesP!Init
  BY DEF Invites!Init, InvitesP!Init, Invites!Item, InvitesP!Item, Invites!Container,
     InvitesP!Container, Invites!NoRow, InvitesP!NoRow, Invites!NoInvitation,
     InvitesP!NoInvitation, Invites!NoLink, InvitesP!NoLink
<1>18. Invites!TypeOK <=> InvitesP!TypeOK
  <2>1. Invites!Cardinality(asks) = InvitesP!Cardinality(asks)
    BY Zenon DEF Invites!Cardinality, InvitesP!Cardinality
  <2> QED
    BY <2>1, Zenon DEF Invites!TypeOK, InvitesP!TypeOK, Invites!Item, InvitesP!Item,
       Invites!Container, InvitesP!Container
<1> QED
  BY <1>15, <1>16, <1>17, <1>18

\* So are the properties.
LEMMA AccessPropertiesSame ==
  /\ Grants!SurfacesAgree <=> GrantsP!SurfacesAgree
  /\ Links!LinksStopAtTrash <=> LinksP!LinksStopAtTrash
  /\ Links!KeepsShut <=> LinksP!KeepsShut
  /\ Invites!OnePending <=> InvitesP!OnePending
  /\ Invites!KeepsDecisions <=> InvitesP!KeepsDecisions
  /\ Invites!OpensOnOffer <=> InvitesP!OpensOnOffer
<1>1. Grants!SurfacesAgree <=> GrantsP!SurfacesAgree
  BY DEF Grants!SurfacesAgree, GrantsP!SurfacesAgree, Grants!ListSharedWithMe,
     GrantsP!ListSharedWithMe, Grants!Search, GrantsP!Search, Grants!ListUserView,
     GrantsP!ListUserView, Grants!ListAccessibleChildren, GrantsP!ListAccessibleChildren,
     Grants!HasItemAccess, GrantsP!HasItemAccess, Grants!ResolveAccessibleFile,
     GrantsP!ResolveAccessibleFile, Grants!CommentRank, GrantsP!CommentRank,
     Grants!Granted, GrantsP!Granted, Grants!Live, GrantsP!Live, Grants!HasRow,
     GrantsP!HasRow, Grants!Ancestors, GrantsP!Ancestors, Grants!UpClosed,
     GrantsP!UpClosed, Grants!TreeOf, GrantsP!TreeOf, Grants!DownClosed,
     GrantsP!DownClosed, Grants!Untrashed, GrantsP!Untrashed, Grants!Item, GrantsP!Item,
     Grants!Container, GrantsP!Container
<1>2. Links!LinksStopAtTrash <=> LinksP!LinksStopAtTrash
  BY DEF Links!LinksStopAtTrash, LinksP!LinksStopAtTrash, Links!ResolvePublicLinkFile,
     LinksP!ResolvePublicLinkFile, Links!Open, LinksP!Open, Links!Ancestors,
     LinksP!Ancestors, Links!UpClosed, LinksP!UpClosed, Links!TreeOf, LinksP!TreeOf,
     Links!DownClosed, LinksP!DownClosed, Links!Untrashed, LinksP!Untrashed, Links!Item,
     LinksP!Item, Links!Container, LinksP!Container
<1>3. Links!KeepsShut <=> LinksP!KeepsShut
  BY DEF Links!KeepsShut, LinksP!KeepsShut
<1>4. Invites!OnePending <=> InvitesP!OnePending
  BY DEF Invites!OnePending, InvitesP!OnePending, Invites!Pending, InvitesP!Pending
<1>5. Invites!KeepsDecisions <=> InvitesP!KeepsDecisions
  BY DEF Invites!KeepsDecisions, InvitesP!KeepsDecisions
<1>6. Invites!OpensOnOffer <=> InvitesP!OpensOnOffer
  BY DEF Invites!OpensOnOffer, InvitesP!OpensOnOffer, Invites!Live, InvitesP!Live,
     Invites!HasRow, InvitesP!HasRow, Invites!Item, InvitesP!Item, Invites!Container,
     InvitesP!Container
<1> QED
  BY <1>1, <1>2, <1>3, <1>4, <1>5, <1>6

\* The rows of the active copy are well formed; a person has one pending
\* invitation to an item.
AccessInv ==
    /\ active = "grants" => GrantsP!AccessTypes
    /\ active = "links" => LinksP!AccessTypes
    /\ active = "invites" => InvitesP!AccessTypes /\ InvitesP!OnePending

\* It holds before anything is shared.
LEMMA AccessInitially == Init => AccessInv
<1> SUFFICES ASSUME Init PROVE AccessInv
  OBVIOUS
<1>1. CASE active = "links"
  BY <1>1, LinksSame, LinksP!AccessInit, Zenon DEF Init, AccessInv
<1>2. CASE active = "invites"
  <2>1. InvitesP!Init
    BY <1>2, InvitesSame DEF Init
  <2>2. InvitesP!AccessTypes
    BY <2>1, InvitesSame, InvitesP!AccessInit
  <2>3. InvitesP!OnePending
    BY <2>1 DEF InvitesP!Init, InvitesP!OnePending, InvitesP!Pending, InvitesP!NoInvitation
  <2> QED
    BY <1>2, <2>2, <2>3 DEF AccessInv
<1>3. CASE active = "grants"
  BY <1>3, GrantsSame, GrantsP!AccessInit DEF Init, AccessInv
<1> QED
  BY <1>1, <1>2, <1>3 DEF AccessInv

\* The copy that is not active rests.
LEMMA AccessMoves ==
  [Next]_vars =>
    /\ UNCHANGED active
    /\ active = "grants" => GrantsP!Next \/ UNCHANGED accessVars
    /\ active = "links" => LinksP!Next \/ UNCHANGED accessVars
    /\ active = "invites" => InvitesP!Next \/ UNCHANGED accessVars
BY GrantsSame, LinksSame, InvitesSame DEF Next, vars

\* It holds after every step.
LEMMA AccessSteps == AccessInv /\ [Next]_vars => AccessInv'
<1> SUFFICES ASSUME AccessInv, [Next]_vars PROVE AccessInv'
  OBVIOUS
<1>1. CASE UNCHANGED accessVars
  BY <1>1, AccessMoves DEF AccessInv, accessVars, GrantsP!AccessTypes, LinksP!AccessTypes,
     InvitesP!AccessTypes, InvitesP!OnePending, InvitesP!Pending
<1>2. CASE active = "grants" /\ GrantsP!Next
  BY <1>2, AccessMoves, GrantsSame, GrantsP!AccessStep DEF AccessInv
<1>3. CASE active = "links" /\ LinksP!Next
  BY <1>3, AccessMoves, LinksSame, LinksP!AccessStep DEF AccessInv
<1>4. CASE active = "invites" /\ InvitesP!Next
  BY <1>4, AccessMoves, InvitesSame, InvitesP!AccessStep, InvitesP!OnePendingStep DEF AccessInv
<1>5. CASE active \notin {"grants", "links", "invites"}
  BY <1>5, AccessMoves DEF AccessInv
<1> QED
  BY <1>1, <1>2, <1>3, <1>4, <1>5, AccessMoves

\* Listings, search, comments and files agree on who sees what in every tree;
\* a public link ends at the trash; a person has one pending invitation.
THEOREM AccessCorrect == Spec => []AccessAgrees
<1>1. AccessInv => AccessAgrees
  <2>1. CASE active = "grants"
    BY <2>1, GrantsSame, GrantsP!AccessTypesOK, GrantsP!SurfacesAlwaysAgree,
       AccessPropertiesSame DEF AccessInv, AccessAgrees
  <2>2. CASE active = "links"
    BY <2>2, LinksSame, LinksP!AccessTypesOK, LinksP!LinksAlwaysStop,
       AccessPropertiesSame DEF AccessInv, AccessAgrees
  <2>3. CASE active = "invites"
    BY <2>3, InvitesSame, InvitesP!AccessTypesOK, AccessPropertiesSame DEF AccessInv, AccessAgrees
  <2> QED
    BY <2>1, <2>2, <2>3 DEF AccessAgrees
<1> QED
  BY <1>1, AccessInitially, AccessSteps, PTL DEF Spec

\* No access opens that was not offered and still open to accept, an invitation
\* is decided once, and a link that was shut stays shut.
THEOREM OffersFirst == Spec => AccessNeedsAnOffer
<1> DEFINE Kept ==
      CASE active = "links" -> Links!KeepsShut
        [] active = "invites" -> Invites!KeepsDecisions /\ Invites!OpensOnOffer
        [] OTHER -> TRUE
<1>1. AccessInv /\ [Next]_vars => [Kept]_vars
  <2> SUFFICES ASSUME AccessInv, [Next]_vars PROVE Kept
    OBVIOUS
  <2>1. CASE active = "links"
    <3>1. [LinksP!Next]_LinksP!vars
      BY <2>1, AccessMoves DEF LinksP!vars, accessVars
    <3> QED
      BY <2>1, <3>1, LinksP!KeepsShutStep, AccessPropertiesSame DEF AccessInv
  <2>2. CASE active = "invites"
    <3>1. [InvitesP!Next]_InvitesP!vars
      BY <2>2, AccessMoves DEF InvitesP!vars, accessVars
    <3> QED
      BY <2>2, <3>1, InvitesP!KeepsDecisionsStep, InvitesP!OpensOnOfferStep,
         AccessPropertiesSame DEF AccessInv
  <2> QED
    BY <2>1, <2>2
<1> QED
  BY <1>1, AccessInitially, AccessSteps, PTL DEF Spec, AccessNeedsAnOffer

-----------------------------------------------------------------------------
(* Comments: what CommentsProofs proves of one set of rows, for the        *)
(* requests on one comment and for the threads.                            *)
RemarksP == INSTANCE CommentsProofs WITH
    Comment <- Remarking.comment, Rank <- Remarking.rank, Body <- Remarking.body,
    MaxChanges <- Remarking.changes, Call <- Request, trashed <- hidden
ThreadsP == INSTANCE CommentsProofs WITH
    Comment <- Threading.comment, Rank <- Threading.rank, Body <- Threading.body,
    MaxChanges <- Threading.changes, Call <- Request, trashed <- hidden

\* Requests on one comment: the proofs are about the actions of the suite.
LEMMA RemarksSame ==
  /\ RemarksP!CommentAssumption
  /\ Remarks!Init <=> RemarksP!Init
  /\ Remarks!Next <=> RemarksP!Next
  /\ Remarks!TypeOK <=> RemarksP!TypeOK
  /\ Remarks!KeepsTombstones <=> RemarksP!KeepsTombstones
  /\ Remarks!ChangesAsEntitled <=> RemarksP!ChangesAsEntitled
<1>1. \A p : Remarks!Ask(p) <=> RemarksP!Ask(p)
  BY DEF Remarks!Ask, RemarksP!Ask, Remarks!Idle, RemarksP!Idle, Remarks!Op, RemarksP!Op,
     Remarks!RankOf, RemarksP!RankOf, Remarks!Exists, RemarksP!Exists
<1>2. \A p : Remarks!LoadCommentAccess(p) <=> RemarksP!LoadCommentAccess(p)
  BY DEF Remarks!LoadCommentAccess, RemarksP!LoadCommentAccess, Remarks!RankOf,
     RemarksP!RankOf, Remarks!End, RemarksP!End, Remarks!Idle, RemarksP!Idle,
     Remarks!Standing, RemarksP!Standing
<1>3. \A p : Remarks!CreateComment(p) <=> RemarksP!CreateComment(p)
  BY DEF Remarks!CreateComment, RemarksP!CreateComment, Remarks!Refused, RemarksP!Refused,
     Remarks!End, RemarksP!End, Remarks!Idle, RemarksP!Idle, Remarks!IsRoot,
     RemarksP!IsRoot, Remarks!Exists, RemarksP!Exists, Remarks!Unwritten,
     RemarksP!Unwritten, Remarks!Row, RemarksP!Row
<1>4. \A p : Remarks!UpdateComment(p) <=> RemarksP!UpdateComment(p)
  BY DEF Remarks!UpdateComment, RemarksP!UpdateComment, Remarks!Refused, RemarksP!Refused,
     Remarks!End, RemarksP!End, Remarks!Idle, RemarksP!Idle, Remarks!MayEdit,
     RemarksP!MayEdit
<1>5. \A p : Remarks!DeleteComment(p) <=> RemarksP!DeleteComment(p)
  BY DEF Remarks!DeleteComment, RemarksP!DeleteComment, Remarks!Refused, RemarksP!Refused,
     Remarks!End, RemarksP!End, Remarks!Idle, RemarksP!Idle
<1>6. \A p : Remarks!SetCommentResolved(p) <=> RemarksP!SetCommentResolved(p)
  BY DEF Remarks!SetCommentResolved, RemarksP!SetCommentResolved, Remarks!Refused,
     RemarksP!Refused, Remarks!End, RemarksP!End, Remarks!Idle, RemarksP!Idle,
     Remarks!IsRoot, RemarksP!IsRoot, Remarks!Exists, RemarksP!Exists
<1>7. \A u : Remarks!ChangeRole(u) <=> RemarksP!ChangeRole(u)
  BY DEF Remarks!ChangeRole, RemarksP!ChangeRole, Remarks!FollowCallers,
     RemarksP!FollowCallers, Remarks!Following, RemarksP!Following, Remarks!Standing,
     RemarksP!Standing, Remarks!Better, RemarksP!Better, Remarks!RankAfter,
     RemarksP!RankAfter, Remarks!Idle, RemarksP!Idle
<1>8. Remarks!TrashItem <=> RemarksP!TrashItem
  BY DEF Remarks!TrashItem, RemarksP!TrashItem, Remarks!FollowCallers,
     RemarksP!FollowCallers, Remarks!Following, RemarksP!Following, Remarks!Standing,
     RemarksP!Standing, Remarks!Better, RemarksP!Better, Remarks!RankAfter,
     RemarksP!RankAfter, Remarks!Idle, RemarksP!Idle
<1>9. Remarks!Next <=> RemarksP!Next
  BY <1>1, <1>2, <1>3, <1>4, <1>5, <1>6, <1>7, <1>8, Zenon DEF Remarks!Next, RemarksP!Next
<1>10. RemarksP!CommentAssumption
  BY SharingAssumption DEF Remarks!CommentAssumption, RemarksP!CommentAssumption,
     Remarks!Rows, RemarksP!Rows
<1>11. Remarks!Init <=> RemarksP!Init
  BY DEF Remarks!Init, RemarksP!Init, Remarks!Idle, RemarksP!Idle
<1>12. Remarks!TypeOK <=> RemarksP!TypeOK
  BY DEF Remarks!TypeOK, RemarksP!TypeOK, Remarks!Exists, RemarksP!Exists, Remarks!IsRoot,
     RemarksP!IsRoot, Remarks!Rows, RemarksP!Rows
<1>13. Remarks!KeepsTombstones <=> RemarksP!KeepsTombstones
  BY DEF Remarks!KeepsTombstones, RemarksP!KeepsTombstones, Remarks!Exists, RemarksP!Exists
<1>14. Remarks!ChangesAsEntitled <=> RemarksP!ChangesAsEntitled
  BY DEF Remarks!ChangesAsEntitled, RemarksP!ChangesAsEntitled, Remarks!Exists,
     RemarksP!Exists
<1> QED
  BY <1>9, <1>10, <1>11, <1>12, <1>13, <1>14

\* Threads.
LEMMA ThreadsSame ==
  /\ ThreadsP!CommentAssumption
  /\ Threads!Init <=> ThreadsP!Init
  /\ Threads!Next <=> ThreadsP!Next
  /\ Threads!TypeOK <=> ThreadsP!TypeOK
  /\ Threads!KeepsTombstones <=> ThreadsP!KeepsTombstones
  /\ Threads!ChangesAsEntitled <=> ThreadsP!ChangesAsEntitled
<1>1. \A p : Threads!Ask(p) <=> ThreadsP!Ask(p)
  BY DEF Threads!Ask, ThreadsP!Ask, Threads!Idle, ThreadsP!Idle, Threads!Op, ThreadsP!Op,
     Threads!RankOf, ThreadsP!RankOf, Threads!Exists, ThreadsP!Exists
<1>2. \A p : Threads!LoadCommentAccess(p) <=> ThreadsP!LoadCommentAccess(p)
  BY DEF Threads!LoadCommentAccess, ThreadsP!LoadCommentAccess, Threads!RankOf,
     ThreadsP!RankOf, Threads!End, ThreadsP!End, Threads!Idle, ThreadsP!Idle,
     Threads!Standing, ThreadsP!Standing
<1>3. \A p : Threads!CreateComment(p) <=> ThreadsP!CreateComment(p)
  BY DEF Threads!CreateComment, ThreadsP!CreateComment, Threads!Refused, ThreadsP!Refused,
     Threads!End, ThreadsP!End, Threads!Idle, ThreadsP!Idle, Threads!IsRoot,
     ThreadsP!IsRoot, Threads!Exists, ThreadsP!Exists, Threads!Unwritten,
     ThreadsP!Unwritten, Threads!Row, ThreadsP!Row
<1>4. \A p : Threads!UpdateComment(p) <=> ThreadsP!UpdateComment(p)
  BY DEF Threads!UpdateComment, ThreadsP!UpdateComment, Threads!Refused, ThreadsP!Refused,
     Threads!End, ThreadsP!End, Threads!Idle, ThreadsP!Idle, Threads!MayEdit,
     ThreadsP!MayEdit
<1>5. \A p : Threads!DeleteComment(p) <=> ThreadsP!DeleteComment(p)
  BY DEF Threads!DeleteComment, ThreadsP!DeleteComment, Threads!Refused, ThreadsP!Refused,
     Threads!End, ThreadsP!End, Threads!Idle, ThreadsP!Idle
<1>6. \A p : Threads!SetCommentResolved(p) <=> ThreadsP!SetCommentResolved(p)
  BY DEF Threads!SetCommentResolved, ThreadsP!SetCommentResolved, Threads!Refused,
     ThreadsP!Refused, Threads!End, ThreadsP!End, Threads!Idle, ThreadsP!Idle,
     Threads!IsRoot, ThreadsP!IsRoot, Threads!Exists, ThreadsP!Exists
<1>7. \A u : Threads!ChangeRole(u) <=> ThreadsP!ChangeRole(u)
  BY DEF Threads!ChangeRole, ThreadsP!ChangeRole, Threads!FollowCallers,
     ThreadsP!FollowCallers, Threads!Following, ThreadsP!Following, Threads!Standing,
     ThreadsP!Standing, Threads!Better, ThreadsP!Better, Threads!RankAfter,
     ThreadsP!RankAfter, Threads!Idle, ThreadsP!Idle
<1>8. Threads!TrashItem <=> ThreadsP!TrashItem
  BY DEF Threads!TrashItem, ThreadsP!TrashItem, Threads!FollowCallers,
     ThreadsP!FollowCallers, Threads!Following, ThreadsP!Following, Threads!Standing,
     ThreadsP!Standing, Threads!Better, ThreadsP!Better, Threads!RankAfter,
     ThreadsP!RankAfter, Threads!Idle, ThreadsP!Idle
<1>9. Threads!Next <=> ThreadsP!Next
  BY <1>1, <1>2, <1>3, <1>4, <1>5, <1>6, <1>7, <1>8, Zenon DEF Threads!Next, ThreadsP!Next
<1>10. ThreadsP!CommentAssumption
  BY SharingAssumption DEF Threads!CommentAssumption, ThreadsP!CommentAssumption,
     Threads!Rows, ThreadsP!Rows
<1>11. Threads!Init <=> ThreadsP!Init
  BY DEF Threads!Init, ThreadsP!Init, Threads!Idle, ThreadsP!Idle
<1>12. Threads!TypeOK <=> ThreadsP!TypeOK
  BY DEF Threads!TypeOK, ThreadsP!TypeOK, Threads!Exists, ThreadsP!Exists, Threads!IsRoot,
     ThreadsP!IsRoot, Threads!Rows, ThreadsP!Rows
<1>13. Threads!KeepsTombstones <=> ThreadsP!KeepsTombstones
  BY DEF Threads!KeepsTombstones, ThreadsP!KeepsTombstones, Threads!Exists, ThreadsP!Exists
<1>14. Threads!ChangesAsEntitled <=> ThreadsP!ChangesAsEntitled
  BY DEF Threads!ChangesAsEntitled, ThreadsP!ChangesAsEntitled, Threads!Exists,
     ThreadsP!Exists
<1> QED
  BY <1>9, <1>10, <1>11, <1>12, <1>13, <1>14

\* The rows and the requests of the active copy, and of the other at rest.
RemarkInv == IF active = "threads" THEN ThreadsP!CommentInv ELSE RemarksP!CommentInv

\* No comment is written yet, whichever copy is active.
LEMMA RemarksInitially == Init => RemarkInv
BY RemarksSame, ThreadsSame, RemarksP!CommentInit, ThreadsP!CommentInit DEF Init, RemarkInv

\* The copy that is not active rests.
LEMMA RemarkMoves ==
  [Next]_vars =>
    /\ UNCHANGED active
    /\ active = "threads" => [ThreadsP!Next]_ThreadsP!vars
    /\ active # "threads" => [RemarksP!Next]_RemarksP!vars
BY RemarksSame, ThreadsSame DEF Next, vars, commentVars, ThreadsP!vars, RemarksP!vars

\* Rows stay well formed, and change as comments may.
LEMMA RemarkSteps ==
  RemarkInv /\ [Next]_vars =>
    /\ RemarkInv'
    /\ IF active = "threads" THEN Threads!KeepsTombstones /\ Threads!ChangesAsEntitled
       ELSE Remarks!KeepsTombstones /\ Remarks!ChangesAsEntitled
<1> SUFFICES ASSUME RemarkInv, [Next]_vars
             PROVE  /\ RemarkInv'
                    /\ IF active = "threads"
                       THEN Threads!KeepsTombstones /\ Threads!ChangesAsEntitled
                       ELSE Remarks!KeepsTombstones /\ Remarks!ChangesAsEntitled
  OBVIOUS
<1>1. CASE active = "threads"
  BY <1>1, RemarkMoves, ThreadsSame, ThreadsP!CommentStep DEF RemarkInv
<1>2. CASE active # "threads"
  BY <1>2, RemarkMoves, RemarksSame, RemarksP!CommentStep DEF RemarkInv
<1> QED
  BY <1>1, <1>2

\* Threads are one level deep, a deleted comment stays as it was, and comments
\* change only by those who were entitled to change them during their request.
THEOREM CommentsCorrect == Spec => CommentsAreKept
<1>1. RemarkInv => IF active = "threads" THEN Threads!TypeOK ELSE Remarks!TypeOK
  BY RemarksSame, ThreadsSame, RemarksP!CommentTypes, ThreadsP!CommentTypes DEF RemarkInv
<1>2. RemarkInv /\ [Next]_vars => RemarkInv'
  BY RemarkSteps
<1>3. RemarkInv /\ [Next]_vars =>
        [IF active = "threads"
         THEN Threads!KeepsTombstones /\ Threads!ChangesAsEntitled
         ELSE Remarks!KeepsTombstones /\ Remarks!ChangesAsEntitled]_vars
  BY RemarkSteps
<1> QED
  BY <1>1, <1>2, <1>3, RemarksInitially, PTL DEF Spec, CommentsAreKept
================================================================================
