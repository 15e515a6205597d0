------------------------------- MODULE Comments -------------------------------
(***************************************************************************)
(* The comments of one item. A request reads the caller's rank, writes one *)
(* row under the conditions of its statement and commits. Roles change and *)
(* the item is trashed in between. The list read afterwards to answer is   *)
(* left out: it changes nothing, but a caller who lost access by then gets *)
(* an error for a comment that was written.                                *)
(***************************************************************************)
EXTENDS Naturals, FiniteSets

CONSTANTS
    User,         \* people who may be given access
    Comment,      \* ids of comment rows, positive numbers
    Rank,         \* the roles given: 0 none, 1 viewer, 2 commenter, 3 editor, 4 manager
    Call,         \* requests being served
    Body,         \* what comments say
    Nil,          \* no row, no parent
    MaxChanges    \* role changes, and trashing the item

Rows == [author : User, parent : Comment \cup {Nil}, body : Body,
         deleted : BOOLEAN, resolved : BOOLEAN]

CommentAssumption ==
    /\ Comment \subseteq Nat \ {0} /\ Rank \subseteq 0..4
    /\ Nil \notin Comment \cup Rows

VARIABLES
    comment,    \* rows of drive.comment, Nil before they exist
    rank,       \* each person's role on the item
    trashed,    \* the item is in the trash
    call,       \* what each request is doing
    changes

vars == <<comment, rank, trashed, call, changes>>

Idle == [user |-> Nil, op |-> Nil, id |-> Nil, rank |-> 0, phase |-> "idle", best |-> 0]
Op == {"create", "update", "delete", "resolve"}

Init ==
    /\ comment = [c \in Comment |-> Nil]
    /\ rank \in {r \in [User -> Rank] : \E u \in User : r[u] = 4}
    /\ trashed = FALSE
    /\ call = [p \in Call |-> Idle]
    /\ changes = 0

Exists(c) == comment[c] # Nil

(* The access query answers nobody once the item is trashed.               *)
RankOf(u) == IF trashed THEN 0 ELSE rank[u]

Ask(p) ==
    /\ call[p] = Idle
    /\ \E u \in User, op \in Op, c \in Comment \cup {Nil} :
        /\ IF c = Nil THEN op = "create" ELSE Exists(c)
        /\ call' = [call EXCEPT ![p] = [user |-> u, op |-> op, id |-> c, rank |-> 0,
                                        phase |-> "asked", best |-> RankOf(u)]]
    /\ UNCHANGED <<comment, rank, trashed, changes>>

End(p) == call' = [call EXCEPT ![p] = Idle]

Standing(p, r, phase, best) ==
    [user |-> call[p].user, op |-> call[p].op, id |-> call[p].id,
     rank |-> r, phase |-> phase, best |-> best]

LoadCommentAccess(p) ==
    /\ call[p].phase = "asked"
    /\ LET r == RankOf(call[p].user) IN
       IF r = 0 THEN End(p)
       ELSE call' = [call EXCEPT ![p] = Standing(p, r, "allowed", call[p].best)]
    /\ UNCHANGED <<comment, rank, trashed, changes>>

Refused(p) == End(p) /\ UNCHANGED comment
Unwritten == {c \in Comment : ~Exists(c)}

\* Faulty: a reply may hang under another reply.
AnyParent(c) == Exists(c)

IsRoot(c) == Exists(c) /\ comment[c].parent = Nil

Row(p, body) ==
    [author |-> call[p].user, parent |-> call[p].id, body |-> body,
     deleted |-> FALSE, resolved |-> FALSE]

(* A root, or a reply to one, be it deleted; the mentions queued with it   *)
(* are messages of Outbox.                                                 *)
CreateComment(p) ==
    /\ call[p].op = "create" /\ call[p].phase = "allowed"
    /\ IF call[p].rank >= 2 /\ (call[p].id # Nil => IsRoot(call[p].id))
       THEN \E b \in Body, c \in Unwritten :
            /\ \A d \in Unwritten : c <= d
            /\ comment' = [comment EXCEPT ![c] = Row(p, b)]
            /\ End(p)
       ELSE Refused(p)
    /\ UNCHANGED <<rank, trashed, changes>>

\* Faulty: deleted comments are edited too.
AnyEditor(p) == comment[call[p].id].author = call[p].user \/ call[p].rank >= 4

\* Faulty: editors of the item edit everyone's comments.
EditorsEdit(p) == ~comment[call[p].id].deleted /\ call[p].rank >= 3

MayEdit(p) ==
    /\ ~comment[call[p].id].deleted
    /\ comment[call[p].id].author = call[p].user \/ call[p].rank >= 4

UpdateComment(p) ==
    /\ call[p].op = "update" /\ call[p].phase = "allowed"
    /\ IF MayEdit(p)
       THEN /\ \E b \in Body : comment' = [comment EXCEPT ![call[p].id].body = b]
            /\ End(p)
       ELSE Refused(p)
    /\ UNCHANGED <<rank, trashed, changes>>

(* A comment already deleted is deleted again, and keeps its first time.   *)
DeleteComment(p) ==
    /\ call[p].op = "delete" /\ call[p].phase = "allowed"
    /\ IF comment[call[p].id].author = call[p].user \/ call[p].rank >= 4
       THEN /\ comment' = [comment EXCEPT ![call[p].id].deleted = TRUE]
            /\ End(p)
       ELSE Refused(p)
    /\ UNCHANGED <<rank, trashed, changes>>

SetCommentResolved(p) ==
    LET c == call[p].id IN
    /\ call[p].op = "resolve" /\ call[p].phase = "allowed"
    /\ IF call[p].rank >= 3 /\ IsRoot(c) /\ ~comment[c].deleted
       THEN /\ \E on \in BOOLEAN : comment' = [comment EXCEPT ![c].resolved = on]
            /\ End(p)
       ELSE Refused(p)
    /\ UNCHANGED <<rank, trashed, changes>>

(* Roles are given and taken, the item is trashed and restored.            *)
Better(a, b) == IF a > b THEN a ELSE b
RankAfter(u) == IF trashed' THEN 0 ELSE rank'[u]
Following(p) ==
    Standing(p, call[p].rank, call[p].phase, Better(call[p].best, RankAfter(call[p].user)))
FollowCallers ==
    call' = [p \in Call |-> IF call[p] = Idle THEN Idle ELSE Following(p)]

ChangeRole(u) ==
    /\ changes < MaxChanges /\ changes' = changes + 1
    /\ \E r \in Rank \ {rank[u]} : rank' = [rank EXCEPT ![u] = r]
    /\ UNCHANGED trashed
    /\ FollowCallers
    /\ UNCHANGED comment

TrashItem ==
    /\ changes < MaxChanges /\ changes' = changes + 1
    /\ trashed' = ~trashed /\ UNCHANGED rank
    /\ FollowCallers
    /\ UNCHANGED comment

Next ==
    \/ \E p \in Call :
        \/ Ask(p) \/ LoadCommentAccess(p)
        \/ CreateComment(p) \/ UpdateComment(p) \/ DeleteComment(p) \/ SetCommentResolved(p)
    \/ \E u \in User : ChangeRole(u)
    \/ TrashItem

Spec == Init /\ [][Next]_vars
-----------------------------------------------------------------------------
(* Rows are well formed and threads are one level deep: a reply hangs      *)
(* under a root, and only roots are resolved.                              *)
TypeOK ==
    /\ \A c \in Comment : Exists(c) =>
        /\ comment[c] \in Rows
        /\ comment[c].parent # Nil => IsRoot(comment[c].parent) /\ ~comment[c].resolved
    /\ rank \in [User -> Rank]

KeepsTombstones ==
    \A c \in Comment : Exists(c) /\ comment[c].deleted => comment'[c] = comment[c]

(* A tombstone stays as it was: an edit or a resolution that was allowed   *)
(* before the deletion does not land after it.                             *)
TombstonesStay == [][KeepsTombstones]_vars

ChangesAsEntitled ==
    \A c \in Comment : comment'[c] # comment[c] =>
        \E p \in Call :
            LET best(r) == call[p].best >= r
                author == Exists(c) /\ comment[c].author = call[p].user
            IN  IF ~Exists(c) THEN best(2)
                ELSE IF comment'[c].resolved # comment[c].resolved THEN best(3)
                ELSE best(1) /\ (author \/ best(4))

(* A comment changes only by a request whose caller, at some moment of the *)
(* request, could change it: its author, or a manager; resolved by an      *)
(* editor; created by a commenter. A role taken away stops at once all but *)
(* the requests already past their check.                                  *)
ChangedByTheEntitled == [][ChangesAsEntitled]_vars
=============================================================================
