-------------------------------- MODULE Sharing --------------------------------
(***************************************************************************)
(* The tree of a drive and the people it is shared with, side by side:     *)
(* names and places, access, comments. A behaviour of the suite is one of  *)
(* the active component, with the others left in their initial states.     *)
(* Access and comments appear more than once, each time with its own rows. *)
(***************************************************************************)
EXTENDS Naturals

CONSTANTS
    Entry, Name, Creates,           \* of Namespace
    Request,                        \* requests being served
    Granting, Linking, Inviting,    \* of SharedAccess: its sets and bounds
    User, Remarking, Threading,     \* of Comments
    Root, Nil

VARIABLES
    active,                                                  \* the component that moves
    place, name, kind, live, request,
    account, parent, trashed, moving, permission, invitation, link, asks,
    comment, rank, hidden, call, changes

-----------------------------------------------------------------------------
Tree == INSTANCE Namespace WITH
    Item <- Entry, None <- Nil, parent <- place, req <- request

(* Permissions come and go while the items move and are trashed.           *)
Grants == INSTANCE SharedAccess WITH
    Folder <- Granting.folder, File <- Granting.file, Guest <- Granting.guest,
    Role <- Granting.role, Invitation <- Granting.invitation, Link <- Granting.link,
    MaxAsks <- Granting.asks

(* Public links over items that move and are trashed.                      *)
Links == INSTANCE SharedAccess WITH
    Folder <- Linking.folder, File <- Linking.file, Guest <- Linking.guest,
    Role <- Linking.role, Invitation <- Linking.invitation, Link <- Linking.link,
    MaxAsks <- Linking.asks

(* Invitations, and requests of the owner that overlap.                    *)
Invites == INSTANCE SharedAccess WITH
    Folder <- Inviting.folder, File <- Inviting.file, Guest <- Inviting.guest,
    Role <- Inviting.role, Invitation <- Inviting.invitation, Link <- Inviting.link,
    MaxAsks <- Inviting.asks

(* Requests on the same comments while access changes.                     *)
Remarks == INSTANCE Comments WITH
    Comment <- Remarking.comment, Rank <- Remarking.rank, Body <- Remarking.body,
    MaxChanges <- Remarking.changes, Call <- Request, trashed <- hidden

(* Requests on comments and replies to them.                               *)
Threads == INSTANCE Comments WITH
    Comment <- Threading.comment, Rank <- Threading.rank, Body <- Threading.body,
    MaxChanges <- Threading.changes, Call <- Request, trashed <- hidden

Component == {"tree", "grants", "links", "invites", "remarks", "threads"}

ASSUME SharingAssumption ==
    /\ Tree!NamespaceAssumption
    /\ Grants!RolesAssumption /\ Links!RolesAssumption /\ Invites!RolesAssumption
    /\ Remarks!CommentAssumption /\ Threads!CommentAssumption

treeVars == <<place, name, kind, live, request>>
accessVars == <<account, parent, trashed, moving, permission, invitation, link, asks>>
commentVars == <<comment, rank, hidden, call, changes>>
vars == <<active, treeVars, accessVars, commentVars>>

Init ==
    /\ active \in Component
    /\ Tree!Init
    /\ IF active = "links" THEN Links!Init
       ELSE IF active = "invites" THEN Invites!Init ELSE Grants!Init
    /\ IF active = "threads" THEN Threads!Init ELSE Remarks!Init
    /\ active \notin {"remarks", "threads"} => rank = [u \in User |-> 4]

Next ==
    /\ UNCHANGED active
    /\ IF active = "tree" THEN Tree!Next ELSE UNCHANGED treeVars
    /\ CASE active = "grants" -> Grants!Next
         [] active = "links" -> Links!Next
         [] active = "invites" -> Invites!Next
         [] OTHER -> UNCHANGED accessVars
    /\ CASE active = "remarks" -> Remarks!Next
         [] active = "threads" -> Threads!Next
         [] OTHER -> UNCHANGED commentVars

Spec == Init /\ [][Next]_vars

-----------------------------------------------------------------------------
(* Live siblings differ in name, and no two folders end up in each other   *)
(* (Namespace).                                                            *)
OneTree ==
    active = "tree" => Tree!TypeOK /\ Tree!UniqueSiblingNames /\ Tree!NoMutualParents

(* A name settled on stays free until the row is written (Namespace).      *)
SettledNamesStayFree == Tree!SettledNamesStayFree

(* Listings, search, comments and files agree on who sees what, a public   *)
(* link ends at the trash, and a person has one pending invitation to an   *)
(* item (SharedAccess).                                                    *)
AccessAgrees ==
    CASE active = "links" -> Links!TypeOK /\ Links!LinksStopAtTrash
      [] active = "invites" -> Invites!TypeOK /\ Invites!OnePending
      [] active = "grants" -> Grants!TypeOK /\ Grants!SurfacesAgree
      [] OTHER -> TRUE

(* No access opens that was not offered and still open to accept, an       *)
(* invitation is decided once, and a link that was shut stays shut         *)
(* (SharedAccess).                                                         *)
AccessNeedsAnOffer ==
    [][CASE active = "links" -> Links!KeepsShut
         [] active = "invites" -> Invites!KeepsDecisions /\ Invites!OpensOnOffer
         [] OTHER -> TRUE]_vars

(* A deleted comment stays as it was, and comments change only by those    *)
(* entitled to change them (Comments).                                     *)
CommentsAreKept ==
    /\ [](IF active = "threads" THEN Threads!TypeOK ELSE Remarks!TypeOK)
    /\ [][IF active = "threads"
          THEN Threads!KeepsTombstones /\ Threads!ChangesAsEntitled
          ELSE Remarks!KeepsTombstones /\ Remarks!ChangesAsEntitled]_vars
=============================================================================
