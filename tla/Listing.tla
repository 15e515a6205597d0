-------------------------------- MODULE Listing --------------------------------
(***************************************************************************)
(* Paged listings: a client walks a listing page by page, each page a      *)
(* query of its own that starts after the cursor of the page before, while *)
(* items are renamed, opened, added and removed between two pages.         *)
(***************************************************************************)
EXTENDS Integers, FiniteSets, Sequences

CONSTANTS
    Item,         \* internal ids, positive numbers; odd ones are folders
    NameRange,    \* lower-cased names, as numbers; two items may share one
    Time,         \* times before the walk starts
    View,         \* the listings walked
    Limit,        \* page sizes
    Nil,          \* no cursor
    MaxChanges,   \* changes during a walk
    MaxExpiries   \* cursors that expire

ItemAssumption ==
    /\ Item \subseteq Nat \ {0} /\ Limit \subseteq Nat \ {0} /\ NameRange \subseteq Nat
    /\ View \subseteq {"folder", "search", "trash", "recent", "activity", "offset"}
    /\ Time \subseteq Nat /\ IsFiniteSet(Item) /\ IsFiniteSet(Time)
    /\ Nil \notin Nat \cup (Int \X Int) \cup (Int \X Int \X Int)

VARIABLES
    view, limit,   \* the listing walked and its page size
    name, at,      \* each item's name; when it was trashed, opened, shared or recorded
    present,       \* the items the listing's conditions admit
    after,         \* the client's cursor; an offset in the legacy listing
    finished,      \* no next cursor was handed out
    shown,         \* history: how often this walk showed each item, 2 for more
    disturbed,     \* history: items changed since this walk started
    changes, expiries

vars == <<view, limit, name, at, present, after, finished, shown, disturbed, changes, expiries>>
walk == <<after, finished, shown>>

Group(i) == IF i % 2 = 1 THEN 0 ELSE 1

(* The similarity of a name to the query; two names may score the same.    *)
Score(n) == n \div 2

(* What each listing orders its rows by, and what its cursor holds.        *)
FolderKey(i)   == <<Group(i), name[i], i>>
SearchKey(i)   == <<-Score(name[i]), name[i], i>>
TrashKey(i)    == <<-at[i], -i>>
UserViewKey(i) == <<-at[i], -i>>
ActivityKey(i) == <<-at[i], -i>>

Key(i) ==
    CASE view = "folder"   -> FolderKey(i)
      [] view = "search"   -> SearchKey(i)
      [] view = "trash"    -> TrashKey(i)
      [] view = "recent"   -> UserViewKey(i)
      [] view = "activity" -> ActivityKey(i)
      [] view = "offset"   -> FolderKey(i)

\* Faulty: a row equal to the cursor counts as one after it.
NotBefore(s, t) ==
    \/ s = t
    \/ \E n \in DOMAIN s : s[n] < t[n] /\ \A m \in 1..(n - 1) : s[m] = t[m]

(* Row order, compared column by column.                                   *)
Less(s, t) == \E n \in DOMAIN s : s[n] < t[n] /\ \A m \in 1..(n - 1) : s[m] = t[m]

Rank(i, rows) == Cardinality({j \in rows : j # i /\ Less(Key(j), Key(i))})

(* The query reads limit + 1 rows after the cursor and keeps limit.        *)
Candidates == {i \in present : after # Nil => Less(after, Key(i))}
CursorPage == {i \in Candidates : Rank(i, Candidates) < limit}

\* Faulty: the cursor is the row read ahead.
RowReadAhead == CHOOSE i \in Candidates : Rank(i, Candidates) = limit

LastRow == CHOOSE i \in Candidates : Rank(i, Candidates) = limit - 1

CursorNext == IF Cardinality(Candidates) > limit THEN Key(LastRow) ELSE Nil

(* The legacy listing: all folders, then all files, cut at an offset.      *)
Minimum(a, b) == IF a < b THEN a ELSE b
Maximum(a, b) == IF a > b THEN a ELSE b
Folders == {i \in present : Group(i) = 0}
Files == present \ Folders

PaginateMetadata(offset) ==
    LET total == Cardinality(present)
        start == Minimum(offset, total)
        end == Minimum(start + limit, total)
        folders == Cardinality(Folders)
        folderStart == Minimum(start, folders)
        folderEnd == Minimum(end, folders)
        fileStart == Maximum(0, start - folders)
        fileEnd == Minimum(Maximum(0, end - folders), Cardinality(Files))
    IN  {i \in Folders : Rank(i, Folders) \in folderStart .. (folderEnd - 1)}
        \cup {i \in Files : Rank(i, Files) \in fileStart .. (fileEnd - 1)}

Offset == IF after = Nil THEN 0 ELSE after
OffsetPage == PaginateMetadata(Offset)

OffsetNext ==
    LET next == Offset + Cardinality(OffsetPage)
    IN  IF next < Cardinality(present) THEN next ELSE Nil

Page == IF view = "offset" THEN OffsetPage ELSE CursorPage

Init ==
    /\ view \in View /\ limit \in Limit
    /\ name \in [Item -> NameRange] /\ at \in [Item -> Time]
    /\ present \in SUBSET Item
    /\ after = Nil /\ finished = FALSE
    /\ shown = [i \in Item |-> 0]
    /\ disturbed = {} /\ changes = 0 /\ expiries = 0

Show(next) ==
    /\ ~finished
    /\ shown' = [i \in Item |-> IF i \in Page /\ shown[i] < 2 THEN shown[i] + 1 ELSE shown[i]]
    /\ after' = next
    /\ finished' = (next = Nil)
    /\ UNCHANGED <<view, limit, name, at, present, disturbed, changes, expiries>>

(* One query for each listing; the rows are cut alike, ordered differently. *)
ListDriveCursor    == view = "folder"   /\ Show(CursorNext)
SearchDriveCursor  == view = "search"   /\ Show(CursorNext)
ListTrashCursor    == view = "trash"    /\ Show(CursorNext)
ListUserViewCursor == view = "recent"   /\ Show(CursorNext)
ListItemActivity   == view = "activity" /\ Show(CursorNext)
ListDrive          == view = "offset"   /\ Show(OffsetNext)

ReadPage ==
    \/ ListDriveCursor \/ SearchDriveCursor \/ ListTrashCursor
    \/ ListUserViewCursor \/ ListItemActivity \/ ListDrive

(* A cursor older than its lifetime is refused: the client starts over.    *)
CursorExpires ==
    /\ after # Nil /\ view # "offset" /\ expiries < MaxExpiries
    /\ after' = Nil /\ shown' = [i \in Item |-> 0] /\ disturbed' = {}
    /\ expiries' = expiries + 1
    /\ UNCHANGED <<view, limit, name, at, present, finished, changes>>

Disturb(i) ==
    /\ ~finished /\ changes < MaxChanges
    /\ changes' = changes + 1 /\ disturbed' = disturbed \cup {i}
    /\ UNCHANGED <<view, limit, walk, expiries>>

(* The database clock: every later time is past all earlier ones.          *)
Now == 1 + Cardinality(Time) + changes

Rename(i) ==
    /\ Disturb(i)
    /\ \E n \in NameRange : name' = [name EXCEPT ![i] = n]
    /\ UNCHANGED <<at, present>>

MarkItemOpened(i) ==
    /\ view = "recent" /\ Disturb(i)
    /\ at' = [at EXCEPT ![i] = Now] /\ present' = present \cup {i}
    /\ UNCHANGED name

(* Created, restored, or put in the trash that is listed; an event logged. *)
Appear(i) ==
    /\ i \notin present /\ Disturb(i)
    /\ at' = [at EXCEPT ![i] = Now] /\ present' = present \cup {i}
    /\ UNCHANGED name

(* Trashed, or taken out of the trash that is listed. Events never leave.  *)
Disappear(i) ==
    /\ i \in present /\ view # "activity" /\ Disturb(i)
    /\ present' = present \ {i}
    /\ UNCHANGED <<name, at>>

Next ==
    \/ ReadPage
    \/ CursorExpires
    \/ \E i \in Item : Rename(i) \/ MarkItemOpened(i) \/ Appear(i) \/ Disappear(i)

Spec == Init /\ [][Next]_vars
FairSpec == Spec /\ WF_vars(ReadPage)
-----------------------------------------------------------------------------
(* The walk's bookkeeping is well formed, whatever the listing.            *)
TypeOK ==
    /\ view \in View /\ limit \in Limit /\ finished \in BOOLEAN
    /\ name \in [Item -> NameRange] /\ at \in [Item -> Nat]
    /\ present \subseteq Item /\ disturbed \subseteq Item
    /\ shown \in [Item -> 0..2]
    /\ Cardinality(Page) <= limit

(* A walk by offset promises nothing once anything moved; a walk by cursor *)
(* keeps its promise for each item that stayed as it was.                  *)
Steady == IF view = "offset" /\ changes > 0 THEN {} ELSE Item \ disturbed

(* No item that stayed as it was is shown twice, whatever is added,        *)
(* renamed or removed around it and wherever the page ends fall.           *)
NothingRepeated == \A i \in Steady : shown[i] <= 1

(* Every item that was listed from the first page to the last and stayed   *)
(* as it was has been shown when no next cursor is handed out.             *)
NothingMissed == finished => \A i \in Steady \cap present : shown[i] >= 1

(* Every walk reaches its last page once items stop changing: no page      *)
(* hands out the cursor it was asked with.                                 *)
WalksEnd == <>finished
=============================================================================
