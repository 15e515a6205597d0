--------------------------- MODULE SharedAccessProofs ---------------------------
(***************************************************************************)
(* Proofs about shared access, for every tree, set of people and rows.     *)
(***************************************************************************)
EXTENDS SharedAccess, FiniteSetTheorems, TLAPS

\* Rows of permissions, invitations and links, and requests of the owner.
Permission == [role : 0..3, expiry : {"never", "ahead", "past"}]
InvitationRow ==
    [status : {"none", "pending", "accepted", "revoked", "expired"}, item : Item \cup {Nil},
     guest : Guest \cup {Nil}, role : 0..3, lapsed : BOOLEAN]
LinkRow == [item : Item \cup {Nil}, shut : BOOLEAN]
AskRecord ==
    [op : {"manage", "grant", "unknown", "invite"}, item : Item, guest : Guest \cup {Nil},
     role : 0..3]

\* The columns of every row, and the requests of the owner.
AccessTypes ==
    /\ account \subseteq Guest
    /\ parent \in [Item -> Container \cup {Nil}] /\ trashed \in [Item -> BOOLEAN]
    /\ moving \in [File -> Container \cup {Nil}]
    /\ permission \in [Item -> [Guest -> Permission]]
    /\ invitation \in [Invitation -> InvitationRow] /\ link \in [Link -> LinkRow]
    /\ asks \subseteq AskRecord /\ IsFiniteSet(asks) /\ Cardinality(asks) <= MaxAsks
    /\ \A a \in asks : a.op # "manage" => a.guest \in Guest

\* Which is all that the type invariant says.
LEMMA AccessTypesOK == RolesAssumption /\ AccessTypes => TypeOK
BY DEF RolesAssumption, AccessTypes, TypeOK, Permission, InvitationRow

\* A drive starts with no access given and no request waiting.
LEMMA AccessInit == RolesAssumption /\ Init => AccessTypes
<1> SUFFICES ASSUME RolesAssumption, Init PROVE AccessTypes
  OBVIOUS
<1>1. parent \in [Item -> Container \cup {Nil}]
  BY DEF RolesAssumption, Init, Item, Container
<1>2. asks = {} /\ IsFiniteSet(asks) /\ Cardinality(asks) <= MaxAsks
  BY FS_EmptySet DEF RolesAssumption, Init
<1> QED
  BY <1>1, <1>2 DEF Init, AccessTypes, NoRow, NoInvitation, NoLink, Permission, InvitationRow, LinkRow,
     Item, Container

\* Requests that end, or go on as one other.
LEMMA AsksReplaced ==
  ASSUME AccessTypes, RolesAssumption, NEW a \in asks, NEW T \in SUBSET AskRecord,
         \/ T = {} \/ \E b : T = {b},
         \A b \in T : b.op # "manage" => b.guest \in Guest, asks' = (asks \ {a}) \cup T
  PROVE  /\ asks' \subseteq AskRecord /\ IsFiniteSet(asks') /\ Cardinality(asks') <= MaxAsks
         /\ \A b \in asks' : b.op # "manage" => b.guest \in Guest
<1>1. IsFiniteSet(asks) /\ Cardinality(asks) <= MaxAsks /\ MaxAsks \in Nat
  BY DEF AccessTypes, RolesAssumption
<1>2. IsFiniteSet(asks \ {a}) /\ Cardinality(asks \ {a}) = Cardinality(asks) - 1
      /\ Cardinality(asks) \in Nat
  BY <1>1, FS_RemoveElement, FS_CardinalityType
<1>3. CASE T = {}
  <2>1. asks' = asks \ {a}
    BY <1>3
  <2> QED
    BY <1>1, <1>2, <1>3, <2>1 DEF AccessTypes
<1>4. ASSUME NEW b, T = {b}
      PROVE  /\ asks' \subseteq AskRecord /\ IsFiniteSet(asks') /\ Cardinality(asks') <= MaxAsks
             /\ \A c \in asks' : c.op # "manage" => c.guest \in Guest
  <2>1. /\ IsFiniteSet((asks \ {a}) \cup {b})
        /\ \/ Cardinality((asks \ {a}) \cup {b}) = Cardinality(asks \ {a})
           \/ Cardinality((asks \ {a}) \cup {b}) = Cardinality(asks \ {a}) + 1
    BY <1>2, FS_AddElement
  <2> QED
    BY <1>1, <1>2, <1>4, <2>1 DEF AccessTypes
<1> QED
  BY <1>3, <1>4

\* A request that passed its check waits with the others.
LEMMA AsksAdded ==
  ASSUME AccessTypes, RolesAssumption, NEW a \in AskRecord, Cardinality(asks) < MaxAsks,
         a.op # "manage" => a.guest \in Guest, asks' = asks \cup {a}
  PROVE  /\ asks' \subseteq AskRecord /\ IsFiniteSet(asks') /\ Cardinality(asks') <= MaxAsks
         /\ \A b \in asks' : b.op # "manage" => b.guest \in Guest
<1>1. IsFiniteSet(asks) /\ Cardinality(asks) \in Nat /\ MaxAsks \in Nat
  BY FS_CardinalityType DEF AccessTypes, RolesAssumption
<1>2. /\ IsFiniteSet(asks \cup {a})
      /\ \/ Cardinality(asks \cup {a}) = Cardinality(asks)
         \/ Cardinality(asks \cup {a}) = Cardinality(asks) + 1
  BY <1>1, FS_AddElement
<1> QED
  BY <1>1, <1>2 DEF AccessTypes

\* One field of one row changes.
LEMMA InvitationChanges ==
  ASSUME AccessTypes, NEW n \in Invitation,
         NEW s \in {"accepted", "revoked", "expired", "pending", "none"}, NEW b \in BOOLEAN
  PROVE  /\ [invitation EXCEPT ![n].status = s] \in [Invitation -> InvitationRow]
         /\ [invitation EXCEPT ![n].lapsed = b] \in [Invitation -> InvitationRow]
         /\ [invitation[n] EXCEPT !.status = s] \in InvitationRow
<1>1. invitation \in [Invitation -> InvitationRow]
  BY DEF AccessTypes
<1>2. [invitation EXCEPT ![n].status = s] \in [Invitation -> InvitationRow]
  BY <1>1 DEF InvitationRow
<1>3. [invitation EXCEPT ![n].lapsed = b] \in [Invitation -> InvitationRow]
  BY <1>1 DEF InvitationRow
<1>4. [invitation[n] EXCEPT !.status = s] \in InvitationRow
  <2>1. invitation[n] \in InvitationRow
    BY <1>1
  <2> QED
    BY <2>1 DEF InvitationRow
<1> QED
  BY <1>2, <1>3, <1>4

\* So do a row of a permission and its columns.
LEMMA PermissionChanges ==
  ASSUME AccessTypes, NEW i \in Item, NEW u \in Guest, NEW p \in Permission, NEW r \in 0..3
  PROVE  /\ [permission EXCEPT ![i][u] = p] \in [Item -> [Guest -> Permission]]
         /\ [permission EXCEPT ![i][u].expiry = "past"] \in [Item -> [Guest -> Permission]]
         /\ [permission[i] EXCEPT ![u].role = r] \in [Guest -> Permission]
<1>1. permission \in [Item -> [Guest -> Permission]] /\ permission[i] \in [Guest -> Permission]
  BY DEF AccessTypes
<1>2. [permission EXCEPT ![i][u] = p] \in [Item -> [Guest -> Permission]]
  BY <1>1
<1>3. [permission EXCEPT ![i][u].expiry = "past"] \in [Item -> [Guest -> Permission]]
  BY <1>1 DEF Permission
<1>4. [permission[i] EXCEPT ![u].role = r] \in [Guest -> Permission]
  BY <1>1 DEF Permission
<1> QED
  BY <1>2, <1>3, <1>4

\* Every request, sign-in, lapse, move and trash leaves well-formed rows.
LEMMA AccessStep == RolesAssumption /\ AccessTypes /\ Next => AccessTypes'
<1> SUFFICES ASSUME RolesAssumption, AccessTypes, Next PROVE AccessTypes'
  OBVIOUS
<1> USE DEF tree
<1> DEFINE Asking == /\ asks' \subseteq AskRecord /\ IsFiniteSet(asks') /\ Cardinality(asks') <= MaxAsks
                     /\ \A b \in asks' : b.op # "manage" => b.guest \in Guest
<1>1. ASSUME AskSharing PROVE AccessTypes'
  <2>1. ASSUME NEW i \in Item PROVE Manage(i) \in AskRecord /\ Manage(i).op = "manage"
    BY DEF Manage, AskRecord
  <2>2. ASSUME NEW i \in Item, NEW u \in Guest, NEW r \in Role
        PROVE  GrantTo(i, u, r) \in AskRecord /\ GrantTo(i, u, r).guest = u
    <3>1. r \in 0..3
      BY DEF RolesAssumption
    <3> QED
      BY <3>1 DEF GrantTo, AskRecord
  <2>3. PICK a \in AskRecord : Ask(a) /\ (a.op # "manage" => a.guest \in Guest)
    BY <1>1, <2>1, <2>2 DEF AskSharing
  <2>4. Asking
    BY <2>3, AsksAdded DEF Ask
  <2> QED
    BY <2>3, <2>4 DEF Ask, AccessTypes
<1>2. ASSUME NEW a \in asks, asks' = asks \ {a} PROVE Asking
  <2>1. asks' = (asks \ {a}) \cup {} /\ {} \in SUBSET AskRecord
    BY <1>2
  <2>2. \A b \in {} : b.op # "manage" => b.guest \in Guest
    OBVIOUS
  <2> QED
    BY <2>1, <2>2, AsksReplaced
<1>3. ASSUME NEW a \in asks, a.op # "manage", NEW op \in {"unknown", "invite"},
             asks' = (asks \ {a}) \cup {Becomes(a, op)}
      PROVE  Asking
  <2>1. Becomes(a, op) \in AskRecord /\ Becomes(a, op).guest \in Guest
    BY <1>3 DEF AccessTypes, AskRecord, Becomes
  <2> QED
    BY ZenonT(60), <1>3, <2>1, AsksReplaced
<1>4. ASSUME NEW a \in asks, GrantItemPermission(a) PROVE AccessTypes'
  <2>1. a.item \in Item /\ a.guest \in Guest /\ a.op = "grant"
    BY <1>4 DEF GrantItemPermission, AccessTypes, AskRecord
  <2>2. permission' \in [Item -> [Guest -> Permission]]
    <3>1. CASE UNCHANGED permission
      BY <3>1 DEF AccessTypes
    <3>2. CASE \E r \in ValidShareRole(a), e \in {"never", "ahead"} :
                 permission' = [permission EXCEPT ![a.item][a.guest] = [role |-> r, expiry |-> e]]
      <4>1. PICK r \in 1..3, e \in {"never", "ahead"} :
              permission' = [permission EXCEPT ![a.item][a.guest] = [role |-> r, expiry |-> e]]
        BY <3>2 DEF ValidShareRole
      <4>2. [role |-> r, expiry |-> e] \in Permission
        BY DEF Permission
      <4> QED
        BY <2>1, <4>1, <4>2 DEF AccessTypes
    <3> QED
      BY <1>4, <3>1, <3>2 DEF GrantItemPermission
  <2>3. Asking
    BY <1>2, <1>3, <1>4, <2>1 DEF GrantItemPermission
  <2> QED
    BY <1>4, <2>2, <2>3 DEF GrantItemPermission, AccessTypes
<1>5. ASSUME NEW a \in asks, InviteInstead(a) PROVE AccessTypes'
  <2>1. asks' = asks \ {a} \/ asks' = (asks \ {a}) \cup {Becomes(a, "invite")}
    BY <1>5 DEF InviteInstead
  <2>2. Asking
    BY <1>2, <1>3, <1>5, <2>1 DEF InviteInstead
  <2> QED
    BY <1>5, <2>2 DEF InviteInstead, AccessTypes
<1>6. ASSUME NEW a \in asks, CreateShareInvitation(a) PROVE AccessTypes'
  <2> DEFINE offer == [status |-> "pending", item |-> a.item, guest |-> a.guest,
                       role |-> a.role, lapsed |-> FALSE]
  <2>1. offer \in InvitationRow
    BY DEF AccessTypes, AskRecord, InvitationRow
  <2>2. UNCHANGED invitation \/ \E n \in Invitation : invitation' = [invitation EXCEPT ![n] = offer]
    BY <1>6 DEF CreateShareInvitation, PendingFor
  <2>3. invitation' \in [Invitation -> InvitationRow]
    BY <2>1, <2>2 DEF AccessTypes
  <2>4. Asking
    BY <1>2, <1>6 DEF CreateShareInvitation
  <2> QED
    BY <1>6, <2>3, <2>4 DEF CreateShareInvitation, AccessTypes
<1>7. ASSUME NEW a \in asks, NEW n \in Invitation,
             RevokeShareInvitation(a, n) \/ ResendShareInvitation(a, n)
      PROVE  AccessTypes'
  <2>1. invitation' \in [Invitation -> InvitationRow]
    BY ZenonT(60), <1>7, InvitationChanges DEF RevokeShareInvitation, ResendShareInvitation
  <2>2. Asking
    BY <1>2, <1>7 DEF RevokeShareInvitation, ResendShareInvitation
  <2> QED
    BY <1>7, <2>1, <2>2 DEF RevokeShareInvitation, ResendShareInvitation, AccessTypes
<1>8. ASSUME NEW a \in asks, NEW u \in Guest, RevokeItemPermission(a, u) PROVE AccessTypes'
  <2>1. permission' \in [Item -> [Guest -> Permission]]
    <3>1. a.item \in Item /\ NoRow \in Permission
      BY DEF AccessTypes, AskRecord, NoRow, Permission
    <3>2. [permission EXCEPT ![a.item][u] = NoRow] \in [Item -> [Guest -> Permission]]
      <4>1. permission \in [Item -> [Guest -> Permission]]
        BY DEF AccessTypes
      <4> HIDE DEF AccessTypes, Permission
      <4> QED
        BY <3>1, <4>1
    <3> QED
      BY <1>8, <3>2, Zenon DEF RevokeItemPermission
  <2>2. Asking
    BY <1>2, <1>8 DEF RevokeItemPermission
  <2> QED
    BY <1>8, <2>1, <2>2 DEF RevokeItemPermission, AccessTypes
<1>9. ASSUME NEW a \in asks, NEW l \in Link, CreateShareLink(a, l) \/ RevokeShareLink(a, l)
      PROVE  AccessTypes'
  <2>1. a.item \in Item
    BY DEF AccessTypes, AskRecord
  <2>2. link' \in [Link -> LinkRow]
    <3>1. /\ [link EXCEPT ![l].item = a.item] \in [Link -> LinkRow]
          /\ [link EXCEPT ![l] = Revoked(l)] \in [Link -> LinkRow]
      <4>1. link \in [Link -> LinkRow]
        BY DEF AccessTypes
      <4> QED
        BY <2>1, <4>1 DEF LinkRow, Revoked
    <3> QED
      BY <1>9, <3>1, Zenon DEF CreateShareLink, RevokeShareLink
  <2>3. Asking
    BY <1>2, <1>9 DEF CreateShareLink, RevokeShareLink
  <2> QED
    BY <1>9, <2>2, <2>3 DEF CreateShareLink, RevokeShareLink, AccessTypes
<1>10. ASSUME NEW u \in Guest, ProvisionGoogleAccount(u) PROVE AccessTypes'
  <2>1. invitation' \in [Invitation -> InvitationRow]
    <3>1. \A n \in Invitation : /\ [invitation[n] EXCEPT !.status = "accepted"] \in InvitationRow
                                /\ [invitation[n] EXCEPT !.status = "expired"] \in InvitationRow
                                /\ invitation[n] \in InvitationRow
      BY InvitationChanges DEF AccessTypes
    <3> QED
      BY <1>10, <3>1 DEF ProvisionGoogleAccount
  <2>2. permission' \in [Item -> [Guest -> Permission]]
    <3> DEFINE on(i) == {n \in Acceptable(u) : invitation[n].item = i}
    <3>1. \A i \in Item : on(i) # {} => (CHOOSE n \in on(i) : TRUE) \in Invitation
      BY DEF Acceptable
    <3>2. \A n \in Invitation : invitation[n].role \in 0..3
      BY DEF AccessTypes, InvitationRow
    <3>3. ASSUME NEW i \in Item, NEW r \in 0..3
          PROVE  [permission[i] EXCEPT ![u].role = r] \in [Guest -> Permission]
      BY ZenonT(60), PermissionChanges DEF AccessTypes
    <3> QED
      BY <1>10, <3>1, <3>2, <3>3 DEF ProvisionGoogleAccount, AccessTypes
  <2> QED
    BY <1>10, <2>1, <2>2 DEF ProvisionGoogleAccount, AccessTypes
<1>11. ASSUME TimePasses PROVE AccessTypes'
  <2>1. permission' \in [Item -> [Guest -> Permission]] /\ invitation' \in [Invitation -> InvitationRow]
        /\ link' \in [Link -> LinkRow]
    <3>1. /\ permission \in [Item -> [Guest -> Permission]] /\ link \in [Link -> LinkRow]
          /\ invitation \in [Invitation -> InvitationRow] /\ NoRow \in Permission
      BY DEF AccessTypes, NoRow, Permission
    <3>3. ASSUME NEW n \in Invitation
          PROVE  [invitation EXCEPT ![n].lapsed = TRUE] \in [Invitation -> InvitationRow]
      BY <3>1 DEF InvitationRow
    <3>4. ASSUME NEW l \in Link
          PROVE  [link EXCEPT ![l].shut = TRUE] \in [Link -> LinkRow]
      BY <3>1 DEF LinkRow
    <3> HIDE DEF AccessTypes
    <3>5. CASE \E i \in Item, u \in Guest :
                 /\ permission[i][u].expiry = "ahead"
                 /\ permission' = [permission EXCEPT ![i][u].expiry = "past"]
                 /\ UNCHANGED <<invitation, link>>
      <4>1. PICK i \in Item, u \in Guest : permission' = [permission EXCEPT ![i][u].expiry = "past"]
        BY <3>5, Zenon
      <4>2. permission' \in [Item -> [Guest -> Permission]]
        <5>1. [permission EXCEPT ![i][u].expiry = "past"] \in [Item -> [Guest -> Permission]]
          BY SMTT(60), <3>1 DEF Permission
        <5> QED
          BY <4>1, <5>1, Zenon
      <4> QED
        BY <3>1, <3>5, <4>2, Zenon
    <3>6. CASE \E n \in Invitation :
                 /\ Pending(n) /\ ~invitation[n].lapsed
                 /\ invitation' = [invitation EXCEPT ![n].lapsed = TRUE]
                 /\ UNCHANGED <<permission, link>>
      BY <3>1, <3>3, <3>6, Zenon
    <3>7. CASE \E l \in Link : Open(l) /\ link' = [link EXCEPT ![l].shut = TRUE]
                               /\ UNCHANGED <<permission, invitation>>
      BY <3>1, <3>4, <3>7, Zenon
    <3> QED
      BY <1>11, <3>5, <3>6, <3>7, Zenon DEF TimePasses
  <2> QED
    BY <1>11, <2>1 DEF TimePasses, AccessTypes
<1>12. ASSUME NEW i \in Item, Trash(i) \/ Restore(i) PROVE AccessTypes'
  BY <1>12 DEF Trash, Restore, AccessTypes, Container
<1>13. ASSUME NEW x \in File, Move(x) PROVE AccessTypes'
  BY <1>13 DEF Move, AccessTypes, Item
<1> QED
  BY <1>1, <1>4, <1>5, <1>6, <1>7, <1>8, <1>9, <1>10, <1>11, <1>12, <1>13 DEF Next

\* An item's parent, and all above it, are among its ancestors; the rest of
\* them are its parent's.
LEMMA AncestorsStep ==
  ASSUME RolesAssumption, AccessTypes, NEW i \in Item
  PROVE  /\ i \in Ancestors(i) /\ Ancestors(i) \subseteq Item
         /\ parent[i] # Nil => /\ parent[i] \in Item /\ Ancestors(parent[i]) \subseteq Ancestors(i)
                               /\ Ancestors(i) \subseteq Ancestors(parent[i]) \cup {i}
         /\ parent[i] = Nil => Ancestors(i) = {i}
<1>1. i \in Ancestors(i) /\ Ancestors(i) \subseteq Item
  BY DEF Ancestors
<1>2. ASSUME parent[i] # Nil PROVE parent[i] \in Item /\ Ancestors(parent[i]) \subseteq Ancestors(i)
  BY <1>2 DEF Ancestors, UpClosed, AccessTypes, Item
<1>3. ASSUME parent[i] # Nil, NEW a \in Ancestors(i), a # i PROVE a \in Ancestors(parent[i])
  <2> SUFFICES ASSUME NEW S \in SUBSET Item, parent[i] \in S, UpClosed(S) PROVE a \in S
    BY <1>3 DEF Ancestors
  <2>1. S \cup {i} \in SUBSET Item /\ UpClosed(S \cup {i})
    BY DEF UpClosed
  <2> QED
    BY <1>3, <2>1 DEF Ancestors
<1>4. ASSUME parent[i] = Nil PROVE Ancestors(i) = {i}
  <2>1. {i} \in SUBSET Item /\ UpClosed({i})
    BY <1>4 DEF UpClosed
  <2> QED
    BY <1>1, <2>1 DEF Ancestors
<1> QED
  BY <1>1, <1>2, <1>3, <1>4

\* Walking down from a set reaches exactly the items below one of its members.
LEMMA TreeIsBelow ==
  ASSUME RolesAssumption, AccessTypes, NEW start \in SUBSET Item, NEW i \in Item
  PROVE  i \in TreeOf(start, Item) <=> \E a \in Ancestors(i) : a \in start
<1>1. ASSUME NEW a \in Ancestors(i), a \in start PROVE i \in TreeOf(start, Item)
  <2> SUFFICES ASSUME NEW S \in SUBSET Item, start \subseteq S, DownClosed(S, Item) PROVE i \in S
    BY DEF TreeOf
  <2>1. UpClosed(Item \ S)
    BY DEF DownClosed, UpClosed, AccessTypes, Item
  <2>2. Item \ S \in SUBSET Item /\ a \notin Item \ S
    BY <1>1
  <2> QED
    BY <1>1, <2>1, <2>2 DEF Ancestors
<1>2. ASSUME i \in TreeOf(start, Item) PROVE \E a \in Ancestors(i) : a \in start
  <2> DEFINE S == {j \in Item : \E a \in Ancestors(j) : a \in start}
  <2>1. start \subseteq S
    BY AncestorsStep
  <2>2. DownClosed(S, Item)
    <3> SUFFICES ASSUME NEW j \in Item, parent[j] \in S PROVE j \in S
      BY DEF DownClosed
    <3>1. parent[j] # Nil
      BY DEF RolesAssumption
    <3> QED
      BY <3>1, AncestorsStep
  <2>3. S \in SUBSET Item
    OBVIOUS
  <2>4. i \in S
    <3> HIDE DEF S
    <3> QED
      BY <1>2, <2>1, <2>2, <2>3 DEF TreeOf
  <2> QED
    BY <2>4
<1> QED
  BY <1>1, <1>2

\* A walk down that stays among fewer items reaches no more.
LEMMA TreeNarrows ==
  ASSUME NEW start \in SUBSET Item, NEW Kept \in SUBSET Item
  PROVE  TreeOf(start, Kept) \subseteq TreeOf(start, Item)
BY DEF TreeOf, DownClosed

\* Whatever the tree, the permissions and the trash: what listings show can be
\* opened, search finds what can be opened, comments and files agree.
LEMMA SurfacesAlwaysAgree == RolesAssumption /\ AccessTypes => SurfacesAgree
<1> SUFFICES ASSUME RolesAssumption, AccessTypes, NEW u \in Guest
             PROVE  LET shown == ListSharedWithMe(u) \cup Search(u) \cup ListUserView(u) \cup
                                 UNION {ListAccessibleChildren(u, p) : p \in Container}
                    IN  /\ shown \subseteq HasItemAccess(u)
                        /\ ResolveAccessibleFile(u) = HasItemAccess(u) \cap File
                        /\ HasItemAccess(u) \ {Root} \subseteq Search(u)
                        /\ \A i \in Item : (CommentRank(u, i) > 0) <=> (i \in HasItemAccess(u))
  BY DEF SurfacesAgree
<1>1. Granted(u) \in SUBSET Item /\ Untrashed \in SUBSET Item
  BY DEF Granted, Untrashed
<1>2. ListSharedWithMe(u) \subseteq HasItemAccess(u)
  BY AncestorsStep DEF ListSharedWithMe, HasItemAccess, Granted, Untrashed
<1>3. \A i \in Untrashed : i \in TreeOf(Granted(u), Item) <=> i \in HasItemAccess(u)
  <2> SUFFICES ASSUME NEW i \in Untrashed
               PROVE  i \in TreeOf(Granted(u), Item) <=> i \in HasItemAccess(u)
    OBVIOUS
  <2>1. i \in TreeOf(Granted(u), Item) <=> \E a \in Ancestors(i) : a \in Granted(u)
    BY <1>1, TreeIsBelow
  <2>2. Ancestors(i) \subseteq Item
    BY <1>1, AncestorsStep
  <2> QED
    BY <2>1, <2>2 DEF HasItemAccess, Granted
<1>4. Search(u) \subseteq HasItemAccess(u) /\ HasItemAccess(u) \ {Root} \subseteq Search(u)
  BY <1>3 DEF Search, HasItemAccess
<1>5. ListUserView(u) \subseteq HasItemAccess(u)
  BY <1>1, <1>4, TreeNarrows DEF ListUserView, Search
<1>6. ASSUME NEW p \in Container PROVE ListAccessibleChildren(u, p) \subseteq HasItemAccess(u)
  <2> SUFFICES ASSUME NEW i \in ListAccessibleChildren(u, p) PROVE i \in HasItemAccess(u)
    OBVIOUS
  <2>1. i \in Untrashed /\ i \in Item /\ parent[i] = p /\ p # Nil
    BY DEF ListAccessibleChildren, Untrashed, RolesAssumption, Item
  <2>2. Ancestors(p) \subseteq Ancestors(i)
    BY <2>1, AncestorsStep
  <2> QED
    BY <2>1, <2>2 DEF ListAccessibleChildren, HasItemAccess
<1>7. ResolveAccessibleFile(u) = HasItemAccess(u) \cap File
  BY DEF ResolveAccessibleFile, HasItemAccess, Untrashed
<1>8. ASSUME NEW i \in Item PROVE (CommentRank(u, i) > 0) <=> (i \in HasItemAccess(u))
  <2> DEFINE roles == {permission[a][u].role : a \in Ancestors(i) \cap Granted(u)}
  <2>1. roles \subseteq 1..3
    <3> SUFFICES ASSUME NEW a \in Granted(u) PROVE permission[a][u].role \in 1..3
      OBVIOUS
    <3>1. a \in Item /\ permission[a][u].role > 0
      BY DEF Granted, Live, HasRow
    <3>2. permission[a][u] \in Permission
      BY <3>1 DEF AccessTypes
    <3> QED
      BY <3>1, <3>2 DEF Permission
  <2>2. roles # {} <=> \E a \in Ancestors(i) : Live(u, a)
    BY AncestorsStep DEF Granted
  <2>3. CommentRank(u, i) = IF trashed[i] \/ roles = {} THEN 0
                            ELSE CHOOSE r \in roles : \A q \in roles : q <= r
    BY DEF CommentRank
  <2> HIDE DEF roles
  <2>4. ASSUME roles # {} PROVE (CHOOSE r \in roles : \A q \in roles : q <= r) \in 1..3
    <3>1. \E r \in roles : \A q \in roles : q <= r
      <4>1. \A q \in roles : q = 1 \/ q = 2 \/ q = 3
        BY <2>1
      <4> QED
        BY <2>4, <4>1
    <3> QED
      BY <2>1, <3>1
  <2>5. i \in HasItemAccess(u) <=> ~trashed[i] /\ roles # {}
    BY <2>2 DEF HasItemAccess, Untrashed
  <2>6. CASE trashed[i] \/ roles = {}
    <3>1. CommentRank(u, i) = 0
      BY <2>3, <2>6
    <3> QED
      BY <2>5, <2>6, <3>1
  <2>7. CASE ~(trashed[i] \/ roles = {})
    <3>1. CommentRank(u, i) \in 1..3
      BY <2>3, <2>4, <2>7
    <3> QED
      BY <2>5, <2>7, <3>1
  <2> QED
    BY <2>6, <2>7
<1> QED
  BY <1>2, <1>4, <1>5, <1>6, <1>7, <1>8

\* Whatever the tree: nothing between a link's item and what it opens is trashed.
LEMMA LinksAlwaysStop == RolesAssumption /\ AccessTypes => LinksStopAtTrash
<1> SUFFICES ASSUME RolesAssumption, AccessTypes, NEW l \in Link, NEW x \in ResolvePublicLinkFile(l),
                    NEW a \in Ancestors(x) \ Ancestors(link[l].item)
             PROVE  ~trashed[a]
  BY DEF LinksStopAtTrash
<1> DEFINE top == link[l].item
           S == {j \in Item : \A b \in Ancestors(j) \ Ancestors(top) : ~trashed[b]}
<1>1. top \in Item /\ x \in TreeOf({top}, Untrashed)
  BY DEF ResolvePublicLinkFile, Open, AccessTypes, LinkRow
<1>2. {top} \subseteq S /\ S \in SUBSET Item
  BY <1>1
<1>3. DownClosed(S, Untrashed)
  <2> SUFFICES ASSUME NEW j \in Untrashed, parent[j] \in S PROVE j \in S
    BY DEF DownClosed
  <2>1. parent[j] # Nil /\ j \in Item /\ ~trashed[j]
    BY DEF RolesAssumption, Untrashed
  <2>2. Ancestors(j) \subseteq Ancestors(parent[j]) \cup {j}
    BY <2>1, AncestorsStep
  <2> QED
    BY <2>1, <2>2
<1>4. x \in S
  <2> HIDE DEF S
  <2> QED
    BY <1>1, <1>2, <1>3 DEF TreeOf
<1> QED
  BY <1>4

\* A new offer replaces the pending one, if there is one.
LEMMA OnePendingStep == RolesAssumption /\ AccessTypes /\ OnePending /\ Next => OnePending'
<1> SUFFICES ASSUME RolesAssumption, AccessTypes, OnePending, Next PROVE OnePending'
  OBVIOUS
<1>1. ASSUME NEW a \in asks, CreateShareInvitation(a) PROVE OnePending'
  <2> DEFINE offer == [status |-> "pending", item |-> a.item, guest |-> a.guest,
                       role |-> a.role, lapsed |-> FALSE]
             rows == IF PendingFor(a) # {} THEN PendingFor(a)
                     ELSE {n \in Invitation : invitation[n].status = "none"}
  <2>1. CASE UNCHANGED invitation
    BY <2>1 DEF OnePending, Pending
  <2>2. ASSUME NEW n \in rows, invitation' = [invitation EXCEPT ![n] = offer] PROVE OnePending'
    <3>1. n \in Invitation /\ invitation'[n] = offer /\ \A m \in Invitation \ {n} : invitation'[m] = invitation[m]
      BY <2>2 DEF PendingFor, AccessTypes
    <3>2. ASSUME NEW m \in Invitation \ {n}, Pending(m), invitation[m].item = a.item,
                 invitation[m].guest = a.guest
          PROVE  FALSE
      <4>1. m \in PendingFor(a)
        BY <3>2 DEF PendingFor, Pending
      <4> QED
        BY <2>2, <3>1, <3>2, <4>1 DEF PendingFor, Pending, OnePending
    <3> QED
      BY <3>1, <3>2 DEF OnePending, Pending
  <2> QED
    BY <1>1, <2>1, <2>2 DEF CreateShareInvitation
<1>2. ASSUME \A n \in Invitation : invitation'[n].status = "pending" =>
               invitation[n].status = "pending" /\ invitation'[n].item = invitation[n].item
               /\ invitation'[n].guest = invitation[n].guest
      PROVE  OnePending'
  BY <1>2 DEF OnePending, Pending
<1>3. ASSUME UNCHANGED invitation PROVE OnePending'
  BY <1>2, <1>3
<1>4. ASSUME NEW a \in asks, NEW n \in Invitation,
             RevokeShareInvitation(a, n) \/ ResendShareInvitation(a, n)
      PROVE  OnePending'
  <2>1. \/ invitation' = [invitation EXCEPT ![n].status = "revoked"]
        \/ invitation' = [invitation EXCEPT ![n].lapsed = FALSE]
    BY <1>4, Zenon DEF RevokeShareInvitation, ResendShareInvitation
  <2>2. invitation \in [Invitation -> InvitationRow]
    BY DEF AccessTypes
  <2> QED
    BY <1>2, <2>1, <2>2 DEF InvitationRow
<1>5. ASSUME NEW u \in Guest, ProvisionGoogleAccount(u) PROVE OnePending'
  <2>1. invitation' = [n \in Invitation |->
           IF n \in Acceptable(u) THEN [invitation[n] EXCEPT !.status = "accepted"]
           ELSE IF Pending(n) /\ invitation[n].lapsed
           THEN [invitation[n] EXCEPT !.status = "expired"] ELSE invitation[n]]
    BY <1>5 DEF ProvisionGoogleAccount
  <2>2. ASSUME NEW n \in Invitation
        PROVE  /\ [invitation[n] EXCEPT !.status = "accepted"].status = "accepted"
               /\ [invitation[n] EXCEPT !.status = "expired"].status = "expired"
    <3>1. invitation[n] \in InvitationRow
      BY DEF AccessTypes
    <3> QED
      BY <3>1 DEF InvitationRow
  <2>3. ASSUME NEW n \in Invitation, invitation'[n].status = "pending"
        PROVE  invitation'[n] = invitation[n]
    BY <2>1, <2>2, <2>3, Zenon
  <2> QED
    BY <1>2, <2>3
<1>6. ASSUME TimePasses PROVE OnePending'
  <2>1. CASE UNCHANGED invitation
    BY <1>3, <2>1
  <2>2. ASSUME NEW n \in Invitation, invitation' = [invitation EXCEPT ![n].lapsed = TRUE]
        PROVE  OnePending'
    <3>1. invitation \in [Invitation -> InvitationRow]
      BY DEF AccessTypes
    <3> QED
      BY <1>2, <2>2, <3>1 DEF InvitationRow
  <2> QED
    BY <1>6, <2>1, <2>2, Zenon DEF TimePasses
<1> QED
  BY <1>1, <1>3, <1>4, <1>5, <1>6
     DEF Next, AskSharing, Ask, GrantItemPermission, InviteInstead, RevokeItemPermission,
         CreateShareLink, RevokeShareLink, Trash, Restore, Move

\* A link that was shut stays as it is.
LEMMA KeepsShutStep == AccessTypes /\ [Next]_vars => KeepsShut
<1> SUFFICES ASSUME AccessTypes, [Next]_vars, NEW l \in Link, link[l].shut PROVE link'[l] = link[l]
  BY DEF KeepsShut
<1>1. link \in [Link -> LinkRow] /\ link[l] \in LinkRow /\ link[l].shut = TRUE
  BY DEF AccessTypes, LinkRow
<1>2. ASSUME UNCHANGED link PROVE link'[l] = link[l]
  BY <1>2
<1>3. ASSUME NEW a \in asks, NEW k \in Link, CreateShareLink(a, k) PROVE link'[l] = link[l]
  <2>1. link[k] = NoLink /\ link' = [link EXCEPT ![k].item = a.item]
    BY <1>3, Zenon DEF CreateShareLink
  <2>2. k # l
    BY <1>1, <2>1 DEF NoLink
  <2> QED
    BY <1>1, <2>1, <2>2 DEF LinkRow
<1>4. ASSUME NEW a \in asks, NEW k \in Link, RevokeShareLink(a, k) PROVE link'[l] = link[l]
  <2>1. link' = [link EXCEPT ![k] = [item |-> link[k].item, shut |-> TRUE]]
    BY <1>4 DEF RevokeShareLink, Revoked
  <2>2. link[l] = [item |-> link[l].item, shut |-> TRUE]
    BY <1>1 DEF LinkRow
  <2> QED
    BY <1>1, <2>1, <2>2
<1>5. ASSUME TimePasses PROVE link'[l] = link[l]
  <2>1. ASSUME NEW k \in Link, Open(k), link' = [link EXCEPT ![k].shut = TRUE] PROVE link'[l] = link[l]
    <3>1. k # l
      BY <1>1, <2>1 DEF Open
    <3> QED
      BY <1>1, <2>1, <3>1 DEF LinkRow
  <2> QED
    BY <1>2, <1>5, <2>1, Zenon DEF TimePasses
<1> QED
  BY <1>2, <1>3, <1>4, <1>5
     DEF Next, vars, AskSharing, Ask, GrantItemPermission, InviteInstead, CreateShareInvitation,
         RevokeShareInvitation, ResendShareInvitation, RevokeItemPermission, ProvisionGoogleAccount,
         Trash, Restore, Move

\* An invitation that was decided stays as it is.
LEMMA KeepsDecisionsStep == AccessTypes /\ [Next]_vars => KeepsDecisions
<1> SUFFICES ASSUME AccessTypes, [Next]_vars, NEW n \in Invitation,
                    invitation[n].status \in {"accepted", "revoked", "expired"}
             PROVE  invitation'[n] = invitation[n]
  BY DEF KeepsDecisions
<1>1. invitation \in [Invitation -> InvitationRow] /\ ~Pending(n) /\ invitation[n].status # "none"
  BY DEF AccessTypes, Pending
<1>2. ASSUME UNCHANGED invitation PROVE invitation'[n] = invitation[n]
  BY <1>2
<1>3. ASSUME NEW a \in asks, CreateShareInvitation(a) PROVE invitation'[n] = invitation[n]
  <2>1. \/ UNCHANGED invitation
        \/ \E m \in Invitation, row \in InvitationRow :
             invitation[m].status \in {"pending", "none"} /\ invitation' = [invitation EXCEPT ![m] = row]
    <3> DEFINE offer == [status |-> "pending", item |-> a.item, guest |-> a.guest,
                         role |-> a.role, lapsed |-> FALSE]
    <3>1. offer \in InvitationRow
      BY DEF AccessTypes, AskRecord, InvitationRow
    <3>2. \/ UNCHANGED invitation
          \/ \E m \in Invitation : invitation[m].status \in {"pending", "none"}
                                  /\ invitation' = [invitation EXCEPT ![m] = offer]
      BY <1>3 DEF CreateShareInvitation, PendingFor
    <3> HIDE DEF offer
    <3> QED
      BY <3>1, <3>2
  <2> QED
    BY <1>1, <2>1
<1>4. ASSUME NEW a \in asks, NEW m \in Invitation,
             RevokeShareInvitation(a, m) \/ ResendShareInvitation(a, m)
      PROVE  invitation'[n] = invitation[n]
  <2>0. Pending(m)
    BY <1>4, Zenon DEF RevokeShareInvitation, ResendShareInvitation
  <2>1. \/ invitation' = [invitation EXCEPT ![m].status = "revoked"]
        \/ invitation' = [invitation EXCEPT ![m].lapsed = FALSE]
    BY <1>4, Zenon DEF RevokeShareInvitation, ResendShareInvitation
  <2>2. m # n
    BY <1>1, <2>0
  <2> QED
    BY <1>1, <2>1, <2>2 DEF InvitationRow
<1>5. ASSUME NEW u \in Guest, ProvisionGoogleAccount(u) PROVE invitation'[n] = invitation[n]
  <2>1. invitation' = [m \in Invitation |->
           IF m \in Acceptable(u) THEN [invitation[m] EXCEPT !.status = "accepted"]
           ELSE IF Pending(m) /\ invitation[m].lapsed
           THEN [invitation[m] EXCEPT !.status = "expired"] ELSE invitation[m]]
    BY <1>5 DEF ProvisionGoogleAccount
  <2>2. n \notin Acceptable(u)
    BY <1>1 DEF Acceptable
  <2> QED
    BY <1>1, <2>1, <2>2, Zenon
<1>6. ASSUME TimePasses PROVE invitation'[n] = invitation[n]
  <2>1. ASSUME NEW m \in Invitation, Pending(m), invitation' = [invitation EXCEPT ![m].lapsed = TRUE]
        PROVE  invitation'[n] = invitation[n]
    <3>1. m # n
      BY <1>1, <2>1
    <3> QED
      BY <1>1, <2>1, <3>1 DEF InvitationRow
  <2> QED
    BY <1>2, <1>6, <2>1, Zenon DEF TimePasses
<1> QED
  BY <1>2, <1>3, <1>4, <1>5, <1>6
     DEF Next, vars, AskSharing, Ask, GrantItemPermission, InviteInstead, RevokeItemPermission,
         CreateShareLink, RevokeShareLink, Trash, Restore, Move

\* Access to an item opens with a request of the owner, or an invitation that
\* is still open to its guest.
LEMMA OpensOnOfferStep == AccessTypes /\ [Next]_vars => OpensOnOffer
<1> SUFFICES ASSUME AccessTypes, [Next]_vars, NEW i \in Item, NEW u \in Guest, ~Live(u, i), Live(u, i)'
             PROVE  \/ \E a \in asks : a.op = "grant" /\ a.item = i /\ a.guest = u
                    \/ \E n \in Invitation :
                        /\ invitation[n].status = "pending" /\ ~invitation[n].lapsed
                        /\ invitation[n].item = i /\ invitation[n].guest = u
                        /\ invitation'[n].status = "accepted"
  BY DEF OpensOnOffer
<1> DEFINE Offered == \/ \E a \in asks : a.op = "grant" /\ a.item = i /\ a.guest = u
                      \/ \E n \in Invitation :
                          /\ invitation[n].status = "pending" /\ ~invitation[n].lapsed
                          /\ invitation[n].item = i /\ invitation[n].guest = u
                          /\ invitation'[n].status = "accepted"
<1> USE DEF Live, HasRow
<1>1. permission \in [Item -> [Guest -> Permission]] /\ permission'[i][u] # permission[i][u]
  BY DEF AccessTypes
<1>2. ASSUME NEW a \in asks, GrantItemPermission(a) PROVE Offered
  <2>1. PICK p : permission' = [permission EXCEPT ![a.item][a.guest] = p]
    <3>1. trashed[a.item] \/ a.guest \notin account => UNCHANGED permission
      BY <1>2 DEF GrantItemPermission
    <3> QED
      BY <1>1, <1>2, <3>1 DEF GrantItemPermission
  <2>2. a.item = i /\ a.guest = u
    BY <1>1, <2>1
  <2> QED
    BY <1>2, <2>2 DEF GrantItemPermission
<1>3. ASSUME NEW a \in asks, NEW v \in Guest, RevokeItemPermission(a, v) PROVE FALSE
  <2>1. permission' = [permission EXCEPT ![a.item][v] = NoRow]
    BY <1>3 DEF RevokeItemPermission
  <2>2. permission'[i][u] = NoRow
    BY <1>1, <2>1
  <2> QED
    BY <2>2 DEF NoRow
<1>4. ASSUME NEW v \in Guest, ProvisionGoogleAccount(v) PROVE Offered
  <2> DEFINE on(k) == {n \in Acceptable(v) : invitation[n].item = k}
  <2>1. permission' = [k \in Item |->
           IF on(k) = {} THEN permission[k]
           ELSE [permission[k] EXCEPT ![v].role = invitation[CHOOSE n \in on(k) : TRUE].role]]
    BY <1>4 DEF ProvisionGoogleAccount
  <2>2. on(i) # {}
    BY <1>1, <2>1, Zenon
  <2>3. permission'[i] = [permission[i] EXCEPT ![v].role = invitation[CHOOSE n \in on(i) : TRUE].role]
    BY <2>1, <2>2, Zenon
  <2>4. u = v
    <3> DEFINE r == invitation[CHOOSE n \in on(i) : TRUE].role
    <3>1. permission'[i] = [permission[i] EXCEPT ![v].role = r] /\ permission[i] \in [Guest -> Permission]
      BY <1>1, <2>3
    <3> HIDE DEF r
    <3>2. u # v => permission'[i][u] = permission[i][u]
      BY <3>1 DEF Permission
    <3> QED
      BY <1>1, <3>2
  <2>5. PICK n \in Acceptable(v) : invitation[n].item = i
    BY <2>2
  <2>6. n \in Invitation /\ Pending(n) /\ ~invitation[n].lapsed /\ invitation[n].guest = u
    BY <2>4, <2>5 DEF Acceptable
  <2>7. invitation'[n] = [invitation[n] EXCEPT !.status = "accepted"]
    BY <1>4, <2>5, <2>6, Zenon DEF ProvisionGoogleAccount
  <2>8. invitation'[n].status = "accepted"
    <3>1. invitation[n] \in InvitationRow
      BY <2>6 DEF AccessTypes
    <3> QED
      BY <2>7, <3>1 DEF InvitationRow
  <2> QED
    BY <2>5, <2>6, <2>8 DEF Pending
<1>5. ASSUME TimePasses PROVE FALSE
  <2>0. ~UNCHANGED permission
    BY <1>1
  <2>1. PICK k \in Item, v \in Guest : permission' = [permission EXCEPT ![k][v].expiry = "past"]
    BY <1>5, <2>0, Zenon DEF TimePasses
  <2>2. permission'[i][u].expiry = "past"
    BY <1>1, <2>1 DEF Permission
  <2> QED
    BY <2>2
<1>6. ~UNCHANGED permission
  BY <1>1
<1> QED
  BY <1>2, <1>3, <1>4, <1>5, <1>6
     DEF Next, vars, AskSharing, Ask, InviteInstead, CreateShareInvitation, RevokeShareInvitation,
         ResendShareInvitation, CreateShareLink, RevokeShareLink, Trash, Restore, Move
=============================================================================
