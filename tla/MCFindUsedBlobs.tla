--------------------------- MODULE MCFindUsedBlobs ---------------------------
(* Small instances of FindUsedBlobs for TLC. *)
EXTENDS FindUsedBlobs, TLC

CONSTANTS t1, t2, t3, t4, t5

\* t1 has two subtrees, which share both of theirs; t5 occurs twice in t3.
Shared ==
  t1 :> <<t2, t3>> @@ t2 :> <<t4, t5>> @@ t3 :> <<t5, t4, t5>> @@ t4 :> <<>> @@ t5 :> <<>>

\* Two snapshots have the same tree, two have parts of it.
FourRoots == <<t1, t3, t2, t1>>

=============================================================================
