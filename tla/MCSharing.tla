------------------------------- MODULE MCSharing -------------------------------
(* Two items of two names and two requests of every kind; a guest, a folder *)
(* and a file; one link; two invitations; one or two comments.              *)
EXTENDS Sharing

CONSTANTS i1, i2, q1, q2, docs, note

TwoEntries == {i1, i2}
TwoRequests == {q1, q2}

OneFile == [folder |-> {docs}, file |-> {note}, guest |-> {"guest"}, role |-> {1, 3},
            invitation |-> {}, link |-> {}, asks |-> 1]
OneLink == [OneFile EXCEPT !.role = {3}, !.link = {"link"}]
TwoInvitations == [OneFile EXCEPT !.file = {}, !.role = {3},
                                  !.invitation = {"first", "second"}, !.asks = 2]

(* One comment, two texts, one change of access; then two comments.        *)
OneComment == [comment |-> {1}, rank |-> {0, 3, 4}, body |-> {"text", "other"}, changes |-> 1]
TwoComments == [comment |-> {1, 2}, rank |-> {3, 4}, body |-> {"text"}, changes |-> 0]
=============================================================================
