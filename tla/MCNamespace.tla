------------------------------ MODULE MCNamespace ------------------------------
(* Two requests and three folders of two names.                            *)
EXTENDS Namespace

CONSTANTS i1, i2, i3, r1, r2, n1, n2

Items == {i1, i2, i3}
Pair == {r1, r2}
Names == {n1, n2}
Folders == {"ensure"}
=============================================================================
