----------------------------- MODULE MCPackUpload -----------------------------
(***************************************************************************)
(* Small instances of PackUpload for TLC.                                  *)
(***************************************************************************)
EXTENDS PackUpload, TLC

CONSTANTS b1, b2, b3, b4

Symmetric == Permutations(Saver) \cup Permutations(Uploader) \cup Permutations({b1, b2})
=============================================================================
