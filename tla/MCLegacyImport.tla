---------------------------- MODULE MCLegacyImport ----------------------------
(* Two runs over the marker of a folder, a file in it and one in the root. *)
EXTENDS LegacyImport, TLC

CONSTANTS r1, r2

TwoRuns == {r1, r2}
Names == {"plan", "draft"}
Folders == {"work"}
Bucket == <<"marker", "inside", "outside">>
Folds == [n \in Names \cup Folders |-> n]
FolderOf == "marker" :> "work" @@ "inside" :> "work" @@ "outside" :> "root"
NameOf == "marker" :> "none" @@ "inside" :> "plan" @@ "outside" :> "plan"
=============================================================================
