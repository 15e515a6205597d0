------------------------------ MODULE MCRequests ------------------------------
(***************************************************************************)
(* The values of the suite Requests: two devices of one Google account and *)
(* one of another, with two addresses; three callers for a table of two,   *)
(* two requests a window of three units; one key, two items, two requests  *)
(* in flight, three sent in all; four rows of two names, pages of one or   *)
(* two, one change on the way.                                             *)
(***************************************************************************)
EXTENDS Requests, TLC

CONSTANTS l1, l2, l3, e1, e2

Owner == l1 :> "ann" @@ l2 :> "ann" @@ l3 :> "bob"

Interchangeable == Permutations({l1, l2}) \cup Permutations({e1, e2})
=============================================================================
