-------------------------------- MODULE MCStore --------------------------------
(* A few rows of everything the suite works on, and two of all that acts.  *)
EXTENDS Store, TLC

CONSTANTS r1, r2, r3, v1, v2, v3

(* A folder, a file in it and a key that is no path; two runs.             *)
FolderFileAndOddKey ==
    [objects |-> <<"marker", "inside", "odd">>,
     folder |-> "marker" :> "work" @@ "inside" :> "work" @@ "odd" :> "root",
     fileName |-> "marker" :> Absent @@ "inside" :> "plan" @@ "odd" :> "draft",
     malformed |-> {"odd"}, folderName |-> {"work"}, name |-> {"plan", "draft"},
     root |-> "root", lower |-> [n \in {"work", "plan", "draft"} |-> n], run |-> {r1, r2}]

(* Two requests open up to two multipart uploads of two parts; one         *)
(* cancels.                                                                *)
TwoOpeners == [request |-> {r1, r2}, cancel |-> {r3}, part |-> {1, 2}, opened |-> 2]

(* Every size up to half as much again as the default parts hold.          *)
UpToSixParts ==
    [maxSize |-> 24, threshold |-> 2, defaultPart |-> 4, alignment |-> 2, maxParts |-> 4,
     batch |-> 2, largeCopy |-> 7, copyRange |-> 6]

(* A URL is valid for 1 unit, a request is answered within 1, a cleanup    *)
(* waits for 3; one upload, two loops.                                     *)
OneStagingKey ==
    [upload |-> {v1}, broken |-> {}, request |-> {r1}, worker |-> {r1, r2},
     ttl |-> 1, delay |-> 3, writeTimeout |-> 1, maxTime |-> 6]

(* Three versions of a file, the second infected, two attempts.            *)
ThreeRevisions ==
    [versions |-> 3, infected |-> {2}, scanner |-> {r1, r2}, attempts |-> 2]

(* One version, three attempts.                                            *)
OneImage == [version |-> {v1}, worker |-> {r1, r2}, attempts |-> 3]

(* Two messages, two attempts.                                             *)
TwoMessages == [message |-> {v1, v2}, sender |-> {r1, r2}, attempts |-> 2]

(* Three uploads of one or two bytes, two reserving at once, a quota of 3. *)
ThreeUploads ==
    [version |-> {v1, v2, v3}, client |-> {r1, r2}, size |-> {1, 2}, received |-> {3},
     quota |-> 3]

(* One version, two attempts, any number of audits.                        *)
OneAudited == [version |-> {v1}, attempts |-> 2]
=============================================================================
