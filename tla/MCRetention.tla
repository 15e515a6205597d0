------------------------------ MODULE MCRetention ------------------------------
(***************************************************************************)
(* Instances of Retention for TLC: two versions of a file in a folder that *)
(* lies in another, or two files of a folder with a version each.          *)
(***************************************************************************)
EXTENDS Retention, TLC

CONSTANTS a, b, f, g, h, u, v

Flat   == f :> Root
Nested == f :> Root @@ g :> f

Revisions == u :> a @@ v :> a
Siblings  == u :> a @@ v :> b
=============================================================================
