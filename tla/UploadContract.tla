---------------------------- MODULE UploadContract ----------------------------
(***************************************************************************)
(* What the upload component promises, without its jobs, leases, objects   *)
(* and processes. A client reserves an upload, asks for its completion and *)
(* is told that the request is accepted. From there the upload is either   *)
(* published, with the very bytes the client declared, or discarded; the   *)
(* bytes of a discarded upload are released. A published version is never  *)
(* touched again, and an item shows a new version only once it is there.   *)
(***************************************************************************)
CONSTANTS Session, Item, ItemOf, RequireMalwareScan, NoSession

VARIABLES
    phase,    \* how far each upload is
    content,  \* the bytes each published version serves
    current   \* the session whose version each item shows, or NoSession

vars == <<phase, content, current>>

Init ==
    /\ phase = [s \in Session |-> "unreserved"]
    /\ content = [s \in Session |-> "absent"]
    /\ current = [i \in Item |-> NoSession]

Reserve(s) ==
    /\ phase[s] = "unreserved"
    /\ phase' = [phase EXCEPT ![s] = "open"]
    /\ UNCHANGED <<content, current>>

Accept(s) ==
    /\ phase[s] = "open"
    /\ phase' = [phase EXCEPT ![s] = "accepted"]
    /\ UNCHANGED <<content, current>>

Publish(s) ==
    /\ phase[s] = "accepted"
    /\ phase' = [phase EXCEPT ![s] = "published"]
    /\ content' = [content EXCEPT ![s] = "agreed"]
    /\ current' = IF RequireMalwareScan THEN current
                  ELSE [current EXCEPT ![ItemOf[s]] = s]

\* An upload is given up by its client, by its deadline, or after the last
\* attempt; one statement may give up several.
Discard(S) ==
    /\ S # {}
    /\ \A s \in S : phase[s] \in {"open", "accepted"}
    /\ phase' = [s \in Session |-> IF s \in S THEN "discarded" ELSE phase[s]]
    /\ UNCHANGED <<content, current>>

Release(s) ==
    /\ phase[s] = "discarded"
    /\ phase' = [phase EXCEPT ![s] = "released"]
    /\ UNCHANGED <<content, current>>

Next ==
    \/ \E s \in Session : Reserve(s) \/ Accept(s) \/ Publish(s) \/ Release(s)
    \/ \E S \in SUBSET Session : Discard(S)

SafeSpec == Init /\ [][Next]_vars

\* An accepted upload is settled.
Spec == SafeSpec /\ \A s \in Session : phase[s] = "accepted" ~> phase[s] # "accepted"
=============================================================================
