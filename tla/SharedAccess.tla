------------------------------ MODULE SharedAccess ------------------------------
(***************************************************************************)
(* Who may see what: permissions and invitations given by the owner of one *)
(* drive, public links, and the queries that decide or show access. Items  *)
(* move, are trashed and come back meanwhile. The owner's requests check   *)
(* share management in one statement and act in the next; a grant for an   *)
(* unknown address continues as an invitation.                             *)
(*                                                                         *)
(* Every file has a published version. Times are "ahead" or past.          *)
(***************************************************************************)
EXTENDS Naturals, FiniteSets

CONSTANTS
    Root, Folder, File,   \* the drive's root and its items
    Nil,                  \* no item
    Guest,                \* users who are not members of the drive
    Role,                 \* the roles in use: 1 viewer, 2 commenter, 3 editor
    Invitation, Link,     \* rows that may be created
    MaxAsks               \* the owner's requests in flight

Container == {Root} \cup Folder
Item == Container \cup File

RolesAssumption ==
    /\ Role \subseteq 1..3 /\ MaxAsks \in Nat
    /\ Nil \notin Item /\ Root \notin Folder \cup File /\ Folder \cap File = {}
    /\ File # {} => Folder # {}

VARIABLES
    account,      \* guests with an active account
    parent,       \* item.parent_id
    trashed,      \* item.trashed_at is set
    moving,       \* the destination a move has found live, before it commits
    permission,   \* item_permission: role 0 when there is no row
    invitation,   \* share_invitation
    link,         \* share_link
    asks          \* the owner's requests that passed requireShareManager

vars == <<account, parent, trashed, moving, permission, invitation, link, asks>>
tree == <<parent, trashed, moving>>

NoRow == [role |-> 0, expiry |-> "never"]
NoInvitation == [status |-> "none", item |-> Nil, guest |-> Nil, role |-> 0, lapsed |-> FALSE]
NoLink == [item |-> Nil, shut |-> FALSE]

Init ==
    /\ account = {}
    /\ parent = [i \in Item |-> IF i = Root THEN Nil ELSE
                                IF i \in Folder THEN Root ELSE CHOOSE f \in Folder : TRUE]
    /\ trashed = [i \in Item |-> FALSE]
    /\ moving = [x \in File |-> Nil]
    /\ permission = [i \in Item |-> [u \in Guest |-> NoRow]]
    /\ invitation = [n \in Invitation |-> NoInvitation]
    /\ link = [l \in Link |-> NoLink]
    /\ asks = {}

-----------------------------------------------------------------------------
(* Ancestors are walked upwards by the checks, trees downwards by the      *)
(* listings.                                                               *)
UpClosed(S) == \A j \in S : parent[j] = Nil \/ parent[j] \in S
Ancestors(i) ==
    {a \in Item : \A S \in SUBSET Item : i \in S /\ UpClosed(S) => a \in S}

DownClosed(S, Kept) == \A j \in Kept : parent[j] \in S => j \in S
TreeOf(start, Kept) ==
    {i \in Item : \A S \in SUBSET Item : start \subseteq S /\ DownClosed(S, Kept) => i \in S}

Untrashed == {i \in Item : ~trashed[i]}
HasRow(u, i) == permission[i][u].role > 0
Live(u, i) == HasRow(u, i) /\ permission[i][u].expiry # "past"
Granted(u) == {i \in Item : Live(u, i)}

ResolveAccessibleFile(u) ==
    {x \in File \cap Untrashed : \E a \in Ancestors(x) : Live(u, a)}
HasItemAccess(u) == {i \in Untrashed : \E a \in Ancestors(i) : Live(u, a)}
CommentRank(u, i) ==
    LET roles == {permission[a][u].role : a \in Ancestors(i) \cap Granted(u)} IN
    IF trashed[i] \/ roles = {} THEN 0 ELSE CHOOSE r \in roles : \A q \in roles : q <= r

ListSharedWithMe(u) == Granted(u) \cap Untrashed
ListAccessibleChildren(u, p) ==
    {i \in Untrashed : /\ parent[i] = p /\ p \in Container \cap Untrashed
                       /\ \E a \in Ancestors(p) : Live(u, a)}

\* Faulty: the search forgets that permissions expire.
SearchLapsedToo(u) ==
    (TreeOf({i \in Item : HasRow(u, i)}, Item) \cap Untrashed) \ {Root}

Search(u) == (TreeOf(Granted(u), Item) \cap Untrashed) \ {Root}
ListUserView(u) == (TreeOf(Granted(u), Untrashed) \cap Untrashed) \ {Root}

Open(l) == link[l].item # Nil /\ ~link[l].shut
ResolvePublicLink(l) == IF Open(l) THEN {link[l].item} \cap Untrashed ELSE {}

\* Faulty: the walk goes through trashed folders.
FilesThroughTrash(l) ==
    IF Open(l) THEN TreeOf({link[l].item}, Item) \cap File \cap Untrashed ELSE {}

ResolvePublicLinkFile(l) ==
    IF Open(l) THEN TreeOf({link[l].item}, Untrashed) \cap File \cap Untrashed ELSE {}
ListPublicLinkChildren(l, p) ==
    {i \in Untrashed :
        /\ ResolvePublicLink(l) \cap Container # {}
        /\ parent[i] = p
        /\ p \in TreeOf({link[l].item}, Untrashed) \cap Container \cap Untrashed}

-----------------------------------------------------------------------------
RequireShareManager(i) == ~trashed[i]

Ask(a) ==
    /\ RequireShareManager(a.item)
    /\ Cardinality(asks) < MaxAsks
    /\ asks' = asks \cup {a}
    /\ UNCHANGED <<account, parent, trashed, moving, permission, invitation, link>>

Manage(i) == [op |-> "manage", item |-> i, guest |-> Nil, role |-> 0]
GrantTo(i, u, r) == [op |-> "grant", item |-> i, guest |-> u, role |-> r]
Becomes(a, op) == [op |-> op, item |-> a.item, guest |-> a.guest, role |-> a.role]

AskSharing ==
    \E i \in Item : \/ Ask(Manage(i))
                    \/ \E u \in Guest, r \in Role : Ask(GrantTo(i, u, r))

\* Faulty: roles are not checked against the three that can be given.
AnyRole(a) == {4}

ValidShareRole(a) == {a.role} \cap {1, 2, 3}

(* The statement finds no row for a trashed item or an unknown address;    *)
(* the handler takes both for an unknown address.                          *)
GrantItemPermission(a) ==
    /\ a.op = "grant"
    /\ IF trashed[a.item] \/ a.guest \notin account
       THEN /\ asks' = (asks \ {a}) \cup {Becomes(a, "unknown")}
            /\ UNCHANGED permission
       ELSE /\ asks' = asks \ {a}
            /\ \E r \in ValidShareRole(a), e \in {"never", "ahead"} :
                permission' = [permission EXCEPT ![a.item][a.guest] = [role |-> r, expiry |-> e]]
    /\ UNCHANGED <<account, tree, invitation, link>>

InviteInstead(a) ==
    /\ a.op = "unknown"
    /\ asks' = (asks \ {a}) \cup
               (IF RequireShareManager(a.item) THEN {Becomes(a, "invite")} ELSE {})
    /\ UNCHANGED <<account, tree, permission, invitation, link>>

\* Faulty: every invitation is a new row.
NoneToReplace(a) == {}

PendingFor(a) ==
    {n \in Invitation : /\ invitation[n].status = "pending"
                        /\ invitation[n].item = a.item /\ invitation[n].guest = a.guest}

CreateShareInvitation(a) ==
    LET offer == [status |-> "pending", item |-> a.item, guest |-> a.guest,
                  role |-> a.role, lapsed |-> FALSE]
        rows == IF PendingFor(a) # {} THEN PendingFor(a)
                ELSE {n \in Invitation : invitation[n].status = "none"}
    IN
    /\ a.op = "invite"
    /\ asks' = asks \ {a}
    /\ IF trashed[a.item] THEN UNCHANGED invitation
       ELSE \E n \in rows : invitation' = [invitation EXCEPT ![n] = offer]
    /\ UNCHANGED <<account, tree, permission, link>>

\* Faulty: an invitation can be revoked after it was accepted.
EverPending(n) == invitation[n].status # "none"

Pending(n) == invitation[n].status = "pending"

RevokeShareInvitation(a, n) ==
    /\ a.op = "manage" /\ asks' = asks \ {a}
    /\ Pending(n) /\ invitation[n].item = a.item
    /\ invitation' = [invitation EXCEPT ![n].status = "revoked"]
    /\ UNCHANGED <<account, tree, permission, link>>

ResendShareInvitation(a, n) ==
    /\ a.op = "manage" /\ asks' = asks \ {a}
    /\ Pending(n) /\ invitation[n].item = a.item
    /\ invitation' = [invitation EXCEPT ![n].lapsed = FALSE]
    /\ UNCHANGED <<account, tree, permission, link>>

RevokeItemPermission(a, u) ==
    /\ a.op = "manage" /\ asks' = asks \ {a}
    /\ HasRow(u, a.item)
    /\ permission' = [permission EXCEPT ![a.item][u] = NoRow]
    /\ UNCHANGED <<account, tree, invitation, link>>

CreateShareLink(a, l) ==
    /\ a.op = "manage" /\ asks' = asks \ {a}
    /\ ~trashed[a.item] /\ link[l] = NoLink
    /\ link' = [link EXCEPT ![l].item = a.item]
    /\ UNCHANGED <<account, tree, permission, invitation>>

\* Faulty: revoking a link again opens it.
Toggled(l) == [link[l] EXCEPT !.shut = ~@]

Revoked(l) == [item |-> link[l].item, shut |-> TRUE]

RevokeShareLink(a, l) ==
    /\ a.op = "manage" /\ asks' = asks \ {a}
    /\ link[l].item = a.item
    /\ link' = [link EXCEPT ![l] = Revoked(l)]
    /\ UNCHANGED <<account, tree, permission, invitation>>

-----------------------------------------------------------------------------
\* Faulty: an invitation out of time is accepted as well.
LapsedToo(u) == {n \in Invitation : Pending(n) /\ invitation[n].guest = u}

Acceptable(u) ==
    {n \in Invitation : /\ Pending(n) /\ invitation[n].guest = u
                        /\ ~invitation[n].lapsed}

(* Sign-in closes every lapsed invitation and accepts the user's own: the  *)
(* role is replaced, an expiry already on the row stays.                   *)
ProvisionGoogleAccount(u) ==
    LET mine == Acceptable(u)
        on(i) == {n \in mine : invitation[n].item = i}
    IN
    /\ account' = account \cup {u}
    /\ invitation' = [n \in Invitation |->
           IF n \in mine THEN [invitation[n] EXCEPT !.status = "accepted"]
           ELSE IF Pending(n) /\ invitation[n].lapsed
           THEN [invitation[n] EXCEPT !.status = "expired"] ELSE invitation[n]]
    /\ permission' = [i \in Item |->
           IF on(i) = {} THEN permission[i]
           ELSE [permission[i] EXCEPT ![u].role = invitation[CHOOSE n \in on(i) : TRUE].role]]
    /\ <<account', invitation', permission'>> # <<account, invitation, permission>>
    /\ UNCHANGED <<tree, link, asks>>

TimePasses ==
    /\ \/ \E i \in Item, u \in Guest :
            /\ permission[i][u].expiry = "ahead"
            /\ permission' = [permission EXCEPT ![i][u].expiry = "past"]
            /\ UNCHANGED <<invitation, link>>
       \/ \E n \in Invitation :
            /\ Pending(n) /\ ~invitation[n].lapsed
            /\ invitation' = [invitation EXCEPT ![n].lapsed = TRUE]
            /\ UNCHANGED <<permission, link>>
       \/ \E l \in Link :
            /\ Open(l) /\ link' = [link EXCEPT ![l].shut = TRUE]
            /\ UNCHANGED <<permission, invitation>>
    /\ UNCHANGED <<account, tree, asks>>

Trash(i) ==
    /\ i # Root /\ ~trashed[i]
    /\ trashed' = [j \in Item |-> trashed[j] \/ j \in TreeOf({i}, Item)]
    /\ UNCHANGED <<account, parent, moving, permission, invitation, link, asks>>

Restore(i) ==
    /\ trashed[i]
    /\ trashed' = [j \in Item |-> trashed[j] /\ j \notin TreeOf({i}, Item)]
    /\ parent' = IF trashed[parent[i]] THEN [parent EXCEPT ![i] = Root] ELSE parent
    /\ UNCHANGED <<account, moving, permission, invitation, link, asks>>

(* The destination is found live before the move commits, and may have     *)
(* been trashed in between.                                                *)
Move(x) ==
    /\ \/ /\ moving[x] = Nil
          /\ \E p \in Container \cap Untrashed :
                p # parent[x] /\ moving' = [moving EXCEPT ![x] = p]
          /\ UNCHANGED parent
       \/ /\ moving[x] # Nil
          /\ moving' = [moving EXCEPT ![x] = Nil]
          /\ parent' = IF trashed[x] THEN parent ELSE [parent EXCEPT ![x] = moving[x]]
    /\ UNCHANGED <<account, trashed, permission, invitation, link, asks>>

Next ==
    \/ AskSharing
    \/ \E a \in asks :
        \/ GrantItemPermission(a) \/ InviteInstead(a) \/ CreateShareInvitation(a)
        \/ \E n \in Invitation : RevokeShareInvitation(a, n) \/ ResendShareInvitation(a, n)
        \/ \E u \in Guest : RevokeItemPermission(a, u)
        \/ \E l \in Link : CreateShareLink(a, l) \/ RevokeShareLink(a, l)
    \/ \E u \in Guest : ProvisionGoogleAccount(u)
    \/ TimePasses
    \/ \E i \in Item : Trash(i) \/ Restore(i)
    \/ \E x \in File : Move(x)

Spec == Init /\ [][Next]_vars

-----------------------------------------------------------------------------
TypeOK ==
    /\ account \subseteq Guest
    /\ parent \in [Item -> Container \cup {Nil}]
    /\ permission \in [Item -> [Guest -> [role : 0..3, expiry : {"never", "ahead", "past"}]]]
    /\ \A n \in Invitation :
        invitation[n].status \in {"none", "pending", "accepted", "revoked", "expired"}
    /\ Cardinality(asks) <= MaxAsks

\* The queries decide access separately, some from the item upwards, some
\* from the permission downwards: whatever a listing shows can be opened,
\* whatever can be opened is found by search, and comments follow the files,
\* also while folders are trashed under a move.
SurfacesAgree ==
    \A u \in Guest :
        LET shown == ListSharedWithMe(u) \cup Search(u) \cup ListUserView(u) \cup
                     UNION {ListAccessibleChildren(u, p) : p \in Container}
        IN
        /\ shown \subseteq HasItemAccess(u)
        /\ ResolveAccessibleFile(u) = HasItemAccess(u) \cap File
        /\ HasItemAccess(u) \ {Root} \subseteq Search(u)
        /\ \A i \in Item : (CommentRank(u, i) > 0) <=> (i \in HasItemAccess(u))

\* A public link opens nothing that lies in a trashed folder inside it, even
\* a file that arrived there after the folder was trashed.
LinksStopAtTrash ==
    \A l \in Link : \A x \in ResolvePublicLinkFile(l) :
        \A a \in Ancestors(x) \ Ancestors(link[l].item) : ~trashed[a]

\* At most one pending invitation per item and address: sign-in accepts them
\* in one statement, which cannot write the same permission twice.
OnePending ==
    \A n, m \in Invitation :
        Pending(n) /\ Pending(m) /\ invitation[n].item = invitation[m].item
          /\ invitation[n].guest = invitation[m].guest => n = m

KeepsDecisions ==
    \A n \in Invitation :
        invitation[n].status \in {"accepted", "revoked", "expired"} =>
            invitation'[n] = invitation[n]

\* However revocations, renewals and sign-ins overlap, an invitation is
\* decided once.
DecidedInvitationsStay == [][KeepsDecisions]_vars

OpensOnOffer ==
    \A i \in Item, u \in Guest : ~Live(u, i) /\ Live(u, i)' =>
        \/ \E a \in asks : a.op = "grant" /\ a.item = i /\ a.guest = u
        \/ \E n \in Invitation :
            /\ invitation[n].status = "pending" /\ ~invitation[n].lapsed
            /\ invitation[n].item = i /\ invitation[n].guest = u
            /\ invitation'[n].status = "accepted"

\* Access to an item starts only with a request of the owner that was
\* checked, or with an invitation neither withdrawn nor out of time.
AccessNeedsAnOffer == [][OpensOnOffer]_vars

KeepsShut == \A l \in Link : link[l].shut => link'[l] = link[l]

\* A link that was revoked or ran out stays shut.
ShutLinksStayShut == [][KeepsShut]_vars

\* Invitations wait only for people who have not signed in.
PendingBeforeSignIn ==
    \A n \in Invitation : Pending(n) /\ ~invitation[n].lapsed => invitation[n].guest \notin account

\* Whoever accepts an invitation by signing in has the access it offered.
AcceptedInvitationsOpen ==
    [][\A n \in Invitation : Pending(n) /\ invitation'[n].status = "accepted" =>
        Live(invitation[n].guest, invitation[n].item)']_vars
=============================================================================
