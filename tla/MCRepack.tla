------------------------------- MODULE MCRepack -------------------------------
(* A small instance of Repack for TLC. *)
EXTENDS Repack, TLC

\* Two packs share a blob.
SharedBlobs == ("x" :> {"a", "b"}) @@ ("y" :> {"b", "c"})

\* Every pack has a damaged blob; there are good copies of all blobs.
OneInEachPack == {<<"x", "a">>, <<"y", "b">>}
=============================================================================
