----------------------------- MODULE MCPackStore -----------------------------
(***************************************************************************)
(* How blobs become packs and packs get into the index, side by side, for  *)
(* TLC: a behaviour is one of PackUpload, or one of the models of what     *)
(* PackUpload takes as a step: the format of a pack (PackHeader), the      *)
(* indexes and their files (MasterIndex), and the table of an index        *)
(* (IndexMap).                                                             *)
(***************************************************************************)
EXTENDS MCPackUpload, PackHeader, MasterIndex, IndexMap

VARIABLE part      \* which of the models takes the steps

\* Blobs of both types, compressed and not.
FourKinds == [type : {"data"}, id : {11}, len : {1}, ulen : {0}] \cup
             [type : {"data"}, id : {12}, len : {2}, ulen : {3}] \cup
             [type : {"tree"}, id : {13}, len : {1}, ulen : {0}] \cup
             [type : {"tree"}, id : {14}, len : {2}, ulen : {1}]

\* Two index files share a pack, another one has the old format.
PackedBlob(b, off, ulen) == [blob |-> b, at |-> [off |-> off, ulen |-> ulen]]
PackP == [id |-> "p", blobs |-> <<PackedBlob("a", 0, 0), PackedBlob("b", 1, 2)>>]
PackQ == [id |-> "q", blobs |-> <<PackedBlob("a", 0, 0)>>]
PackR == [id |-> "r", blobs |-> <<PackedBlob("b", 0, 2)>>]
ThreeFiles == ("f1" :> [format |-> "json", packs |-> <<PackP>>]) @@
              ("f2" :> [format |-> "json", packs |-> <<PackQ, PackP>>]) @@
              ("f3" :> [format |-> "old", packs |-> <<PackR>>])
NewPacks == ("s" :> <<PackedBlob("a", 0, 3), PackedBlob("c", 1, 0)>>) @@
            ("t" :> <<PackedBlob("c", 0, 0)>>) @@ ("u" :> <<PackedBlob("d", 0, 0)>>)

\* Two of the keys collide until there are four buckets.
ThreeHashes == ("a" :> 0) @@ ("b" :> 2) @@ ("c" :> 5)

storeVars == <<packVars, masterVars, mapVars>>
mcVars == <<part, vars, storeVars>>

MCInit ==
  /\ part \in {"upload", "header", "index", "map"}
  /\ Init /\ PackHeaderInit /\ IndexInit /\ MapInit

\* The models other than PackUpload may stop.
MCNext ==
  \/ part = "upload" /\ Next /\ UNCHANGED <<part, storeVars>>
  \/ part = "header" /\ PackHeaderNext /\ UNCHANGED <<part, vars, masterVars, mapVars>>
  \/ part = "index" /\ IndexNext /\ UNCHANGED <<part, vars, packVars, mapVars>>
  \/ part = "map" /\ MapNext /\ UNCHANGED <<part, vars, packVars, masterVars>>
  \/ part # "upload" /\ UNCHANGED mcVars

MCSpec == MCInit /\ [][MCNext]_mcVars
=============================================================================
