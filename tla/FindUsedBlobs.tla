---------------------------- MODULE FindUsedBlobs ----------------------------
(***************************************************************************)
(* FindUsedBlobs: restic/find.go.  One goroutine reads the stream of trees *)
(* and inserts the blobs of their files into the set of used blobs, which  *)
(* skip uses for the trees.                                                *)
(***************************************************************************)
EXTENDS TreeStream

VARIABLES
  visited,         \* the trees whose files' blobs have been inserted
  reader,          \* what the goroutine is doing, or what it has returned
  result           \* what FindUsedBlobs has returned

vars == <<streamVars, visited, reader, result>>

TypeOK ==
  /\ StreamTypeOK
  /\ visited \subseteq Tree
  /\ reader \in {"run", "nil", "error"}
  /\ result \in {"none", "nil", "error"}

Init ==
  /\ StreamInit
  /\ visited = {}
  /\ reader = "run"
  /\ result = "none"

\* Mutant of ReadTree: a tree that could not be loaded is ignored.
ReadTreeIgnoresErrors ==
  /\ reader = "run"
  /\ Deliver
  /\ visited' = IF outbox.res = "tree" THEN visited \cup {outbox.id} ELSE visited
  /\ UNCHANGED <<reader, cancelled, result>>

\* The goroutine receives a tree; an error ends it and cancels the context of the group.
ReadTree ==
  /\ reader = "run"
  /\ Deliver
  /\ \/ /\ outbox.res = "tree"
        /\ visited' = visited \cup {outbox.id}
        /\ UNCHANGED <<reader, cancelled>>
     \/ /\ outbox.res = "error"
        /\ reader' = "error"
        /\ cancelled' = TRUE
        /\ UNCHANGED visited
  /\ UNCHANGED result

\* The stream is closed.
ReaderEnds ==
  /\ reader = "run"
  /\ filter = "done"
  /\ reader' = "nil"
  /\ UNCHANGED <<streamVars, visited, result>>

\* wg.Wait returns the only error there can be.
Return ==
  /\ result = "none"
  /\ StreamDone
  /\ reader # "run"
  /\ result' = reader
  /\ UNCHANGED <<streamVars, visited, reader>>

\* The caller cancels the context.
UserCancels ==
  /\ "cancel" \in Faults
  /\ result = "none"
  /\ ~cancelled
  /\ cancelled' = TRUE
  /\ UNCHANGED <<filterVars, hugeQ, loader, held, visited, reader, result>>

ReaderStep == ReadTree \/ ReaderEnds

Next ==
  \/ StreamNext /\ UNCHANGED <<visited, reader, result>>
  \/ ReaderStep \/ Return \/ UserCancels

Spec == Init /\ [][Next]_vars

\* All goroutines run.
Fairness ==
  /\ WF_vars(FilterStep /\ UNCHANGED <<visited, reader, result>>)
  /\ \A l \in Worker : WF_vars(LoaderStep(l) /\ UNCHANGED <<visited, reader, result>>)
  /\ WF_vars(ReaderStep)
  /\ WF_vars(Return)

FairSpec == Spec /\ Fairness

-----------------------------------------------------------------------------
(* Properties *)

\* The set has the roots and, with a tree, the blobs of its files and its subtrees.
Complete ==
  /\ \A r \in Root : Roots[r] \in seen
  /\ \A t \in seen \ Seen :
       /\ t \in visited
       /\ \A i \in 1 .. Len(Subtrees[t]) : Subtrees[t][i] \in seen

\* When FindUsedBlobs returns nil and nobody has cancelled it, the set is complete, whatever
\* the order in which the goroutines of StreamTrees load, skip and deliver the trees.
UsedBlobsFound == result = "nil" /\ ~cancelled => Complete

\* "FindUsedBlobs traverses the tree ID and adds all seen blobs (trees and data blobs) to
\* the set": when it returns nil, the set is complete.
NilMeansFound == result = "nil" => Complete

\* "Already seen tree blobs will not be visited again": no tree is underway twice, again
\* after its visit, or at all if it was known before.
VisitedOnce ==
  \A t \in Tree :
    /\ Cardinality(PlacesOf(t)) <= 1
    /\ t \in visited \cup Seen => PlacesOf(t) = {}

\* The progress counter is advanced once for every root, when all below it is loaded, also
\* when roots overlap.
RootsCounted ==
  /\ \A r \in Root : bars[r] <= 1
  /\ result = "nil" /\ ~cancelled => \A r \in Root : bars[r] = 1

\* FindUsedBlobs returns, whatever fails and whenever it is cancelled.
Returns == <>(result # "none")

\* Trees that snapshots share are handled once: FindUsedBlobs visits no tree twice, and StreamTrees
\* reports every root once, although it may be below another root.
UsedOnce == TypeOK /\ VisitedOnce /\ RootsCounted
=============================================================================
