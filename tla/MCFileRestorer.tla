---------------------------- MODULE MCFileRestorer ----------------------------
(* Small instances of FileRestorer for TLC. *)
EXTENDS FileRestorer, TLC

\* Two files.  f has blobs x and y, g has z; x and z are in one pack.
PFile == "p1" :> "f" @@ "p2" :> "f" @@ "p3" :> "g"
PBlob == "p1" :> "x" @@ "p2" :> "y" @@ "p3" :> "z"
PPack == "x" :> "k" @@ "y" :> "m" @@ "z" :> "k"
TwoPacks == <<"k", "m">>

\* Three packs with a part of one file each.
QFile == "p1" :> "f" @@ "p2" :> "f" @@ "p3" :> "f"
QBlob == "p1" :> "x" @@ "p2" :> "y" @@ "p3" :> "z"
QPack == "x" :> "k" @@ "y" :> "m" @@ "z" :> "n"
ThreePacks == <<"k", "m", "n">>
=============================================================================
