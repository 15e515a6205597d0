----------------------------- MODULE CommentsProofs -----------------------------
(***************************************************************************)
(* Proofs about the comments of an item, for every set of people, rows and *)
(* requests.                                                               *)
(***************************************************************************)
EXTENDS Comments, TLAPS

\* What a request may be doing.
CallRecord ==
    [user : User \cup {Nil}, op : Op \cup {Nil}, id : Comment \cup {Nil}, rank : 0..4,
     phase : {"idle", "asked", "allowed"}, best : 0..4]

\* A request works on a row that exists, and its caller stood at least as high
\* at some moment as now and as the check found.
Serving(p) ==
    /\ call[p].phase = "idle" => call[p] = Idle
    /\ call[p].phase # "idle" =>
        /\ call[p].user \in User /\ call[p].best >= RankOf(call[p].user)
        /\ call[p].best >= call[p].rank
        /\ call[p].id # Nil => Exists(call[p].id)
        /\ call[p].op # "create" => call[p].id # Nil
    /\ call[p].phase = "allowed" => call[p].rank >= 1

\* A reply hangs under a root and is not resolved.
Placed(c) ==
    Exists(c) /\ comment[c].parent # Nil => IsRoot(comment[c].parent) /\ ~comment[c].resolved

CommentInv ==
    /\ comment \in [Comment -> Rows \cup {Nil}]
    /\ rank \in [User -> Rank] /\ trashed \in BOOLEAN
    /\ call \in [Call -> CallRecord]
    /\ \A p \in Call : Serving(p)
    /\ \A c \in Comment : Placed(c)

\* The invariant says all that the type invariant does.
LEMMA CommentTypes == CommentAssumption /\ CommentInv => TypeOK
BY DEF CommentAssumption, CommentInv, TypeOK, Placed, Exists

\* It holds before the first comment.
LEMMA CommentInit == CommentAssumption /\ Init => CommentInv
<1> SUFFICES ASSUME CommentAssumption, Init PROVE CommentInv
  OBVIOUS
<1>1. Idle \in CallRecord /\ Idle.phase = "idle"
  BY DEF Idle, CallRecord
<1>2. call \in [Call -> CallRecord] /\ \A p \in Call : Serving(p)
  BY <1>1 DEF Init, Serving
<1>3. comment \in [Comment -> Rows \cup {Nil}] /\ \A c \in Comment : Placed(c)
  BY DEF Init, Placed, Exists
<1> QED
  BY <1>2, <1>3 DEF Init, CommentInv

\* What a request in its second step has been allowed.
LEMMA Allowed ==
  ASSUME CommentAssumption, CommentInv, NEW p \in Call, call[p].phase = "allowed"
  PROVE  /\ call[p] \in CallRecord /\ call[p].user \in User
         /\ call[p].rank \in 1..4 /\ call[p].best \in 0..4 /\ call[p].best >= call[p].rank
         /\ call[p].id \in Comment \cup {Nil}
         /\ call[p].id # Nil => Exists(call[p].id) /\ comment[call[p].id] \in Rows
         /\ call[p].op # "create" => call[p].id # Nil
<1>1. call[p] \in CallRecord /\ Serving(p)
  BY DEF CommentInv
<1>2. call[p].rank \in 0..4 /\ call[p].best \in 0..4 /\ call[p].id \in Comment \cup {Nil}
  BY <1>1 DEF CallRecord
<1>3. \A c \in Comment : Exists(c) => comment[c] \in Rows
  BY DEF CommentInv, Exists
<1> QED
  BY <1>1, <1>2, <1>3 DEF Serving

\* A request ends while rows stay where they are: others are not disturbed.
LEMMA EndKeeps ==
  ASSUME CommentAssumption, CommentInv, NEW p \in Call, End(p), UNCHANGED <<rank, trashed>>,
         \A c \in Comment : Exists(c) => Exists(c)'
  PROVE  call' \in [Call -> CallRecord] /\ \A q \in Call : Serving(q)'
<1>1. Idle \in CallRecord /\ Idle.phase = "idle"
  BY DEF Idle, CallRecord
<1>2. call' \in [Call -> CallRecord] /\ call'[p] = Idle
      /\ \A q \in Call : q # p => call'[q] = call[q]
  BY <1>1 DEF CommentInv, End
<1>3. Serving(p)'
  BY <1>1, <1>2 DEF Serving
<1>4. ASSUME NEW q \in Call, q # p PROVE Serving(q)'
  <2>1. call'[q] = call[q] /\ Serving(q) /\ call[q].id \in Comment \cup {Nil}
    BY <1>2, <1>4 DEF CommentInv, CallRecord
  <2> QED
    BY <2>1 DEF Serving, RankOf
<1> QED
  BY <1>2, <1>3, <1>4

\* A step that writes one row, or none: the row stays in its place.
LEMMA RowWritten ==
  ASSUME CommentAssumption, CommentInv, NEW c \in Comment, NEW r \in Rows,
         comment' = [comment EXCEPT ![c] = r],
         \/ /\ Exists(c) /\ r.parent = comment[c].parent
            /\ r.parent # Nil => ~r.resolved
         \/ /\ ~Exists(c) /\ ~r.resolved
            /\ r.parent # Nil => IsRoot(r.parent)
  PROVE  /\ comment' \in [Comment -> Rows \cup {Nil}]
         /\ \A d \in Comment : Exists(d) => Exists(d)'
         /\ \A d \in Comment : Placed(d)'
<1>1. /\ comment' \in [Comment -> Rows \cup {Nil}] /\ comment'[c] = r /\ r # Nil
      /\ \A d \in Comment : d # c => comment'[d] = comment[d]
  BY DEF CommentInv, CommentAssumption
<1>2. \A d \in Comment : Exists(d) => Exists(d)'
  BY <1>1 DEF Exists
<1>3. \A d \in Comment : IsRoot(d) => IsRoot(d)'
  BY <1>1 DEF Exists, IsRoot
<1>4. ASSUME NEW d \in Comment, Exists(d)', comment'[d].parent # Nil
      PROVE  (IsRoot(comment[d].parent))' /\ ~comment'[d].resolved
  <2>1. comment'[d] \in Rows
    BY <1>1, <1>4 DEF Exists
  <2>2. comment'[d].parent \in Comment
    BY <1>4, <2>1 DEF Rows
  <2>3. CASE d = c
    BY <1>1, <1>3, <1>4, <2>2, <2>3 DEF CommentInv, Placed, Exists, IsRoot
  <2>4. CASE d # c
    <3>1. comment'[d] = comment[d] /\ Exists(d) /\ comment[d].parent \in Comment
      BY <1>1, <1>4, <2>2, <2>4 DEF Exists
    <3>2. IsRoot(comment[d].parent) /\ ~comment[d].resolved
      BY <1>4, <3>1 DEF CommentInv, Placed
    <3>3. IsRoot(comment[d].parent)'
      BY <1>3, <3>1, <3>2 DEF IsRoot, Exists
    <3> QED
      BY <3>1, <3>2, <3>3
  <2> QED
    BY <2>3, <2>4
<1> QED
  BY <1>1, <1>2, <1>4 DEF Placed

\* What a row needs to be changed is there: then the row of c may become r.
LEMMA RowEntitled ==
  ASSUME CommentAssumption, CommentInv, NEW p \in Call, NEW c \in Comment, NEW r \in Rows,
         comment' = [comment EXCEPT ![c] = r],
         r # comment[c] =>
            /\ Exists(c) => ~comment[c].deleted
            /\ IF ~Exists(c) THEN call[p].best >= 2
               ELSE IF r.resolved # comment[c].resolved THEN call[p].best >= 3
               ELSE /\ call[p].best >= 1
                    /\ comment[c].author = call[p].user \/ call[p].best >= 4
  PROVE  KeepsTombstones /\ ChangesAsEntitled
<1>1. comment'[c] = r /\ \A d \in Comment : d # c => comment'[d] = comment[d]
  BY DEF CommentInv
<1>2. KeepsTombstones
  BY <1>1 DEF KeepsTombstones
<1>3. ChangesAsEntitled
  BY <1>1 DEF ChangesAsEntitled
<1> QED
  BY <1>2, <1>3

\* Steps that leave the rows alone change no row.
LEMMA NothingWritten ==
  UNCHANGED comment => KeepsTombstones /\ ChangesAsEntitled
BY DEF KeepsTombstones, ChangesAsEntitled

\* What the access query answers is a rank.
LEMMA RankIsBounded ==
  ASSUME CommentAssumption, CommentInv, NEW u \in User PROVE RankOf(u) \in 0..4
<1>1. rank[u] \in 0..4
  BY DEF CommentInv, CommentAssumption
<1> QED
  BY <1>1 DEF RankOf

\* A request begins.
LEMMA AskStep ==
  ASSUME CommentAssumption, CommentInv, NEW p \in Call, Ask(p) PROVE CommentInv'
<1>1. PICK u \in User, op \in Op, c \in Comment \cup {Nil} :
        /\ IF c = Nil THEN op = "create" ELSE Exists(c)
        /\ call' = [call EXCEPT ![p] = [user |-> u, op |-> op, id |-> c, rank |-> 0,
                                        phase |-> "asked", best |-> RankOf(u)]]
  BY DEF Ask
<1>2. UNCHANGED <<comment, rank, trashed>>
  BY DEF Ask
<1> DEFINE r == [user |-> u, op |-> op, id |-> c, rank |-> 0, phase |-> "asked",
                 best |-> RankOf(u)]
<1>3. RankOf(u) \in 0..4
  BY RankIsBounded
<1>4. r \in CallRecord
  BY <1>3 DEF CallRecord
<1>5. call' \in [Call -> CallRecord] /\ call'[p] = r /\ \A q \in Call : q # p => call'[q] = call[q]
  BY <1>1, <1>4 DEF CommentInv
<1>6. Serving(p)'
  BY <1>1, <1>2, <1>3, <1>5 DEF Serving, RankOf, Exists
<1>7. ASSUME NEW q \in Call, q # p PROVE Serving(q)'
  BY <1>2, <1>5, <1>7 DEF Serving, RankOf, Exists, CommentInv
<1>8. \A d \in Comment : Placed(d)'
  BY <1>2 DEF CommentInv, Placed, IsRoot, Exists
<1> QED
  BY <1>2, <1>5, <1>6, <1>7, <1>8 DEF CommentInv

\* A request that ends without writing.
LEMMA RefusedStep ==
  ASSUME CommentAssumption, CommentInv, NEW p \in Call, Refused(p), UNCHANGED <<rank, trashed>>
  PROVE  CommentInv' /\ KeepsTombstones /\ ChangesAsEntitled
<1>1. UNCHANGED comment /\ End(p)
  BY DEF Refused
<1>2. call' \in [Call -> CallRecord] /\ \A q \in Call : Serving(q)'
  BY <1>1, EndKeeps DEF Exists
<1>3. \A d \in Comment : Placed(d)'
  BY <1>1 DEF CommentInv, Placed, IsRoot, Exists
<1> QED
  BY <1>1, <1>2, <1>3, NothingWritten DEF CommentInv

\* The access of the caller is loaded, and the request ends or goes on.
LEMMA LoadStep ==
  ASSUME CommentAssumption, CommentInv, NEW p \in Call, LoadCommentAccess(p) PROVE CommentInv'
<1> DEFINE r == RankOf(call[p].user)
<1>1. UNCHANGED <<comment, rank, trashed>> /\ call[p].phase = "asked"
  BY DEF LoadCommentAccess
<1>2. CASE r = 0
  BY <1>1, <1>2, RefusedStep DEF LoadCommentAccess, Refused
<1>3. CASE r # 0
  <2>1. call[p] \in CallRecord /\ Serving(p)
    BY DEF CommentInv
  <2>2. call' = [call EXCEPT ![p] = Standing(p, r, "allowed", call[p].best)]
    BY <1>3 DEF LoadCommentAccess
  <2>3. r \in 0..4
    BY <1>1, <2>1, RankIsBounded DEF Serving
  <2>4. /\ call'[p].rank = r /\ call'[p].phase = "allowed"
        /\ call'[p].user = call[p].user /\ call'[p].op = call[p].op
        /\ call'[p].id = call[p].id /\ call'[p].best = call[p].best
        /\ call'[p] \in CallRecord
    BY <2>1, <2>2, <2>3 DEF CommentInv, CallRecord, Standing
  <2>5. call' \in [Call -> CallRecord] /\ \A q \in Call : q # p => call'[q] = call[q]
    BY <2>2, <2>4 DEF CommentInv
  <2>6. Serving(p)'
    BY <1>1, <1>3, <2>1, <2>3, <2>4 DEF Serving, RankOf, Exists
  <2>7. ASSUME NEW q \in Call, q # p PROVE Serving(q)'
    BY <1>1, <2>5, <2>7 DEF Serving, RankOf, Exists, CommentInv
  <2>8. \A d \in Comment : Placed(d)'
    BY <1>1 DEF CommentInv, Placed, IsRoot, Exists
  <2> QED
    BY <1>1, <2>5, <2>6, <2>7, <2>8 DEF CommentInv
<1> QED
  BY <1>2, <1>3

\* Comments are created where they belong.
LEMMA CreateStep ==
  ASSUME CommentAssumption, CommentInv, NEW p \in Call, CreateComment(p)
  PROVE  CommentInv' /\ KeepsTombstones /\ ChangesAsEntitled
<1>1. UNCHANGED <<rank, trashed>> /\ call[p].phase = "allowed"
  BY DEF CreateComment
<1>2. CASE Refused(p)
  BY <1>1, <1>2, RefusedStep
<1>3. CASE call[p].rank >= 2 /\ (call[p].id # Nil => IsRoot(call[p].id)) /\ ~Refused(p)
  <2>1. PICK b \in Body, c \in Unwritten : comment' = [comment EXCEPT ![c] = Row(p, b)] /\ End(p)
    BY <1>3 DEF CreateComment
  <2>2. c \in Comment /\ ~Exists(c)
    BY DEF Unwritten
  <2>3. Row(p, b) \in Rows /\ ~Row(p, b).resolved /\ Row(p, b).parent = call[p].id
    BY <1>1, Allowed DEF Row, Rows
  <2>4. call[p].best >= 2
    BY <1>1, <1>3, Allowed
  <2>5. /\ comment' \in [Comment -> Rows \cup {Nil}]
        /\ \A d \in Comment : Exists(d) => Exists(d)'
        /\ \A d \in Comment : Placed(d)'
    BY <1>3, <2>1, <2>2, <2>3, RowWritten
  <2>6. KeepsTombstones /\ ChangesAsEntitled
    BY <2>1, <2>2, <2>3, <2>4, RowEntitled
  <2>7. call' \in [Call -> CallRecord] /\ \A q \in Call : Serving(q)'
    BY <1>1, <2>1, <2>5, EndKeeps
  <2> QED
    BY <1>1, <2>5, <2>6, <2>7 DEF CommentInv
<1> QED
  BY <1>2, <1>3 DEF CreateComment

\* A row that exists is written again by one who may, and its request ends.
LEMMA Rewritten ==
  ASSUME CommentAssumption, CommentInv, NEW p \in Call, NEW r \in Rows,
         call[p].id \in Comment, Exists(call[p].id), UNCHANGED <<rank, trashed>>, End(p),
         comment' = [comment EXCEPT ![call[p].id] = r],
         r.parent = comment[call[p].id].parent, r.parent # Nil => ~r.resolved,
         r # comment[call[p].id] =>
            /\ ~comment[call[p].id].deleted
            /\ IF r.resolved # comment[call[p].id].resolved THEN call[p].best >= 3
               ELSE /\ call[p].best >= 1
                    /\ comment[call[p].id].author = call[p].user \/ call[p].best >= 4
  PROVE  CommentInv' /\ KeepsTombstones /\ ChangesAsEntitled
<1> DEFINE c == call[p].id
<1>1. /\ comment' \in [Comment -> Rows \cup {Nil}]
      /\ \A d \in Comment : Exists(d) => Exists(d)'
      /\ \A d \in Comment : Placed(d)'
  BY RowWritten
<1>2. KeepsTombstones /\ ChangesAsEntitled
  BY RowEntitled
<1>3. call' \in [Call -> CallRecord] /\ \A q \in Call : Serving(q)'
  BY <1>1, EndKeeps
<1> QED
  BY <1>1, <1>2, <1>3 DEF CommentInv


\* A row with one field changed is the row of the other fields and the new one.
LEMMA OneField ==
  ASSUME NEW r \in Rows, NEW v
  PROVE  /\ [r EXCEPT !.body = v] =
              [author |-> r.author, parent |-> r.parent, body |-> v,
               deleted |-> r.deleted, resolved |-> r.resolved]
         /\ [r EXCEPT !.deleted = v] =
              [author |-> r.author, parent |-> r.parent, body |-> r.body,
               deleted |-> v, resolved |-> r.resolved]
         /\ [r EXCEPT !.resolved = v] =
              [author |-> r.author, parent |-> r.parent, body |-> r.body,
               deleted |-> r.deleted, resolved |-> v]
<1>1. [r EXCEPT !.body = v] = [author |-> r.author, parent |-> r.parent, body |-> v,
                               deleted |-> r.deleted, resolved |-> r.resolved]
  BY DEF Rows
<1>2. [r EXCEPT !.deleted = v] = [author |-> r.author, parent |-> r.parent, body |-> r.body,
                                  deleted |-> v, resolved |-> r.resolved]
  BY DEF Rows
<1>3. [r EXCEPT !.resolved = v] = [author |-> r.author, parent |-> r.parent, body |-> r.body,
                                   deleted |-> r.deleted, resolved |-> v]
  BY DEF Rows
<1> QED
  BY <1>1, <1>2, <1>3

\* A row is its fields.
LEMMA RowIsFields ==
  ASSUME NEW r \in Rows
  PROVE  r = [author |-> r.author, parent |-> r.parent, body |-> r.body,
              deleted |-> r.deleted, resolved |-> r.resolved]
BY DEF Rows

\* Comments are edited.
LEMMA UpdateStep ==
  ASSUME CommentAssumption, CommentInv, NEW p \in Call, UpdateComment(p)
  PROVE  CommentInv' /\ KeepsTombstones /\ ChangesAsEntitled
<1> DEFINE c == call[p].id
<1>1. UNCHANGED <<rank, trashed>> /\ call[p].phase = "allowed" /\ call[p].op = "update"
  BY DEF UpdateComment
<1>2. c \in Comment /\ Exists(c) /\ comment[c] \in Rows
  BY <1>1, Allowed
<1>3. CASE MayEdit(p)
  <2>1. PICK b \in Body : comment' = [comment EXCEPT ![c].body = b]
    BY <1>3 DEF UpdateComment
  <2> DEFINE r == [author |-> comment[c].author, parent |-> comment[c].parent, body |-> b,
                   deleted |-> comment[c].deleted, resolved |-> comment[c].resolved]
  <2>2. comment' = [comment EXCEPT ![c] = [comment[c] EXCEPT !.body = b]]
    BY <2>1, Zenon
  <2>3. [comment[c] EXCEPT !.body = b] = r
    BY <1>2, OneField, Zenon
  <2>4. comment' = [comment EXCEPT ![c] = r]
    BY <2>2, <2>3, Zenon
  <2>5. /\ r \in Rows /\ r.parent = comment[c].parent /\ r.resolved = comment[c].resolved
        /\ r.parent # Nil => ~r.resolved
    BY <1>2 DEF Rows, CommentInv, Placed
  <2>6. /\ ~comment[c].deleted /\ call[p].best >= 1
        /\ comment[c].author = call[p].user \/ call[p].best >= 4
    BY <1>1, <1>3, Allowed DEF MayEdit
  <2>7. End(p)
    BY <1>3 DEF UpdateComment
  <2> HIDE DEF r
  <2> QED
    BY <1>1, <1>2, <2>4, <2>5, <2>6, <2>7, Rewritten
<1>4. CASE ~MayEdit(p)
  BY <1>1, <1>4, RefusedStep DEF UpdateComment
<1> QED
  BY <1>3, <1>4

\* Comments are deleted, some for the second time.
LEMMA DeleteStep ==
  ASSUME CommentAssumption, CommentInv, NEW p \in Call, DeleteComment(p)
  PROVE  CommentInv' /\ KeepsTombstones /\ ChangesAsEntitled
<1> DEFINE c == call[p].id
           Own == comment[c].author = call[p].user \/ call[p].rank >= 4
<1>1. UNCHANGED <<rank, trashed>> /\ call[p].phase = "allowed" /\ call[p].op = "delete"
  BY DEF DeleteComment
<1>2. c \in Comment /\ Exists(c) /\ comment[c] \in Rows
  BY <1>1, Allowed
<1>3. CASE Own
  <2>1. comment' = [comment EXCEPT ![c].deleted = TRUE] /\ End(p)
    BY <1>3 DEF DeleteComment
  <2> DEFINE r == [author |-> comment[c].author, parent |-> comment[c].parent,
                   body |-> comment[c].body, deleted |-> TRUE, resolved |-> comment[c].resolved]
  <2>2. comment' = [comment EXCEPT ![c] = [comment[c] EXCEPT !.deleted = TRUE]]
    BY <2>1, Zenon
  <2>3. [comment[c] EXCEPT !.deleted = TRUE] = r
    BY <1>2, OneField, Zenon
  <2>4. comment' = [comment EXCEPT ![c] = r]
    BY <2>2, <2>3, Zenon
  <2>5. /\ r \in Rows /\ r.parent = comment[c].parent /\ r.resolved = comment[c].resolved
        /\ r.parent # Nil => ~r.resolved
    BY <1>2 DEF Rows, CommentInv, Placed
  <2>6. /\ call[p].best >= 1
        /\ comment[c].author = call[p].user \/ call[p].best >= 4
    BY <1>1, <1>3, Allowed
  <2>7. comment[c].deleted => r = comment[c]
    <3>1. comment[c].deleted \in BOOLEAN
      BY <1>2 DEF Rows
    <3> QED
      BY <1>2, <3>1, RowIsFields
  <2> HIDE DEF r
  <2> QED
    BY <1>1, <1>2, <2>1, <2>4, <2>5, <2>6, <2>7, Rewritten
<1>4. CASE ~Own
  BY <1>1, <1>4, RefusedStep DEF DeleteComment
<1> QED
  BY <1>3, <1>4

\* Threads are resolved and opened again.
LEMMA ResolveStep ==
  ASSUME CommentAssumption, CommentInv, NEW p \in Call, SetCommentResolved(p)
  PROVE  CommentInv' /\ KeepsTombstones /\ ChangesAsEntitled
<1> DEFINE c == call[p].id
           May == call[p].rank >= 3 /\ IsRoot(c) /\ ~comment[c].deleted
<1>1. UNCHANGED <<rank, trashed>> /\ call[p].phase = "allowed" /\ call[p].op = "resolve"
  BY DEF SetCommentResolved
<1>2. c \in Comment /\ Exists(c) /\ comment[c] \in Rows
  BY <1>1, Allowed
<1>3. CASE May
  <2>1. PICK on \in BOOLEAN : comment' = [comment EXCEPT ![c].resolved = on]
    BY <1>3 DEF SetCommentResolved
  <2> DEFINE r == [author |-> comment[c].author, parent |-> comment[c].parent,
                   body |-> comment[c].body, deleted |-> comment[c].deleted, resolved |-> on]
  <2>2. comment' = [comment EXCEPT ![c] = [comment[c] EXCEPT !.resolved = on]]
    BY <2>1, Zenon
  <2>3. [comment[c] EXCEPT !.resolved = on] = r
    BY <1>2, OneField, Zenon
  <2>4. comment' = [comment EXCEPT ![c] = r]
    BY <2>2, <2>3, Zenon
  <2>5. r \in Rows /\ r.parent = comment[c].parent /\ r.parent = Nil
    BY <1>2, <1>3 DEF Rows, IsRoot
  <2>6. ~comment[c].deleted /\ call[p].best >= 3
    BY <1>1, <1>3, Allowed
  <2>7. r.resolved = comment[c].resolved => r = comment[c]
    BY <1>2, RowIsFields
  <2>8. End(p)
    BY <1>3 DEF SetCommentResolved
  <2> HIDE DEF r
  <2> QED
    BY <1>1, <1>2, <2>4, <2>5, <2>6, <2>7, <2>8, Rewritten
<1>4. CASE ~May
  BY <1>1, <1>4, RefusedStep DEF SetCommentResolved
<1> QED
  BY <1>3, <1>4

\* Roles change and the item is trashed or restored: requests remember the best
\* their callers had.
LEMMA FollowStep ==
  ASSUME CommentAssumption, CommentInv, FollowCallers, UNCHANGED comment,
         (rank \in [User -> Rank] /\ trashed \in BOOLEAN)'
  PROVE  CommentInv'
<1>1. ASSUME NEW u \in User PROVE RankAfter(u) = RankOf(u)' /\ RankAfter(u) \in 0..4
  <2>1. rank'[u] \in 0..4
    BY DEF CommentAssumption
  <2> QED
    BY <2>1 DEF RankAfter, RankOf
<1>2. ASSUME NEW p \in Call PROVE call'[p] \in CallRecord /\ Serving(p)'
  <2>1. call[p] \in CallRecord /\ Serving(p)
    BY DEF CommentInv
  <2>2. CASE call[p] = Idle
    <3>1. call'[p] = call[p] /\ call[p].phase = "idle"
      BY <2>2 DEF FollowCallers, Idle
    <3> QED
      BY <2>1, <3>1 DEF Serving
  <2>3. CASE call[p] # Idle
    <3>1. PICK u \in User : u = call[p].user
      BY <2>1, <2>3 DEF Serving
    <3> DEFINE best == Better(call[p].best, RankAfter(u))
    <3>2. call'[p] = Standing(p, call[p].rank, call[p].phase, best)
      BY <2>3, <3>1 DEF FollowCallers, Following
    <3>3. call[p].phase # "idle" /\ call[p].best \in 0..4 /\ call[p].rank \in 0..4
      BY <2>1, <2>3 DEF Serving, CallRecord
    <3>4. best \in 0..4 /\ best >= RankOf(u)' /\ best >= call[p].best
      BY <1>1, <3>3 DEF Better
    <3> HIDE DEF best
    <3>5. /\ call'[p].user = u /\ call'[p].op = call[p].op /\ call'[p].id = call[p].id
          /\ call'[p].rank = call[p].rank /\ call'[p].phase = call[p].phase
          /\ call'[p].best = best /\ call'[p] \in CallRecord
      BY <2>1, <3>1, <3>2, <3>4 DEF Standing, CallRecord
    <3>6. best >= call[p].rank
      BY <2>1, <3>3, <3>4 DEF Serving
    <3>7. \A c : Exists(c) <=> Exists(c)'
      BY DEF Exists
    <3>8. (call[p].best >= RankOf(call[p].user))'
      BY <3>4, <3>5 DEF RankOf
    <3> QED
      BY <2>1, <3>1, <3>3, <3>5, <3>6, <3>7, <3>8 DEF Serving
  <2> QED
    BY <2>2, <2>3
<1>3. call' \in [Call -> CallRecord]
  BY <1>2 DEF FollowCallers
<1>4. \A c \in Comment : Placed(c)'
  BY DEF CommentInv, Placed, IsRoot, Exists
<1> QED
  BY <1>2, <1>3, <1>4 DEF CommentInv

\* The invariant holds after every step, tombstones stay, and only the entitled
\* change comments.
LEMMA CommentStep ==
  CommentAssumption /\ CommentInv /\ [Next]_vars =>
    CommentInv' /\ KeepsTombstones /\ ChangesAsEntitled
<1> SUFFICES ASSUME CommentAssumption, CommentInv, [Next]_vars
             PROVE  CommentInv' /\ KeepsTombstones /\ ChangesAsEntitled
  OBVIOUS
<1>1. ASSUME NEW p \in Call, Ask(p) PROVE CommentInv' /\ UNCHANGED comment
  BY <1>1, AskStep DEF Ask
<1>2. ASSUME NEW p \in Call, LoadCommentAccess(p) PROVE CommentInv' /\ UNCHANGED comment
  BY <1>2, LoadStep DEF LoadCommentAccess
<1>3. ASSUME NEW u \in User, ChangeRole(u) PROVE CommentInv' /\ UNCHANGED comment
  <2>1. (rank \in [User -> Rank] /\ trashed \in BOOLEAN)'
    BY <1>3 DEF ChangeRole, CommentInv
  <2> QED
    BY <1>3, <2>1, FollowStep DEF ChangeRole
<1>4. ASSUME TrashItem PROVE CommentInv' /\ UNCHANGED comment
  <2>1. (rank \in [User -> Rank] /\ trashed \in BOOLEAN)'
    BY <1>4 DEF TrashItem, CommentInv
  <2> QED
    BY <1>4, <2>1, FollowStep DEF TrashItem
<1>5. ASSUME UNCHANGED vars PROVE CommentInv' /\ UNCHANGED comment
  BY <1>5 DEF vars, CommentInv, Serving, Placed, IsRoot, Exists, RankOf
<1> QED
  BY <1>1, <1>2, <1>3, <1>4, <1>5, NothingWritten, CreateStep, UpdateStep, DeleteStep, ResolveStep
     DEF Next
=============================================================================
