------------------------------ MODULE MCSnapshot ------------------------------
(***************************************************************************)
(* Side by side for TLC: a small instance of Archiver, and what it takes   *)
(* as given: the walk over the tree that is made of the targets            *)
(* (ArchiveTree), for all lists of three targets.                          *)
(***************************************************************************)
EXTENDS Archiver, ArchiveTree

VARIABLES
  part,            \* which of the models a behaviour is one of
  arg              \* the input of a function

mcVars == <<part, arg, vars>>

\* Directory d has files f and g, which is empty; h, which has not changed, is beside d.
Targets ==
  <<[op |-> "open", item |-> "root"],
    [op |-> "open", item |-> "d"],
    [op |-> "file", item |-> "f"],
    [op |-> "file", item |-> "g"],
    [op |-> "save", item |-> "d"],
    [op |-> "file", item |-> "h"],
    [op |-> "save", item |-> "root"]>>

In == "d" :> "root" @@ "f" :> "d" @@ "g" :> "d" @@ "h" :> "root"
Sizes == "f" :> 2 @@ "g" :> 0 @@ "h" :> 1

-----------------------------------------------------------------------------
(* A source with the same names in "." and "..", and lists of up to three targets *)

Here == <<".">>
Above == <<"..">>
A == <<"a">>
B == <<"b">>
X == <<"x">>
Y == <<"y">>
A1 == <<"a", "1">>

EntriesOf(r) ==
  (<<r>> :> "dir") @@ (<<r, A>> :> "dir") @@ (<<r, A, X>> :> "file") @@ (<<r, A1>> :> "other") @@
  (<<r, A, B>> :> "dir") @@ (<<r, A, B, Y>> :> "file") @@ (<<r, A, B, X>> :> "socket")

Sources ==
  [kind : {EntriesOf(Here) @@ EntriesOf(Above)}, broken : {{}, {<<Here, A>>}, {<<Here, A, B>>, <<Above, A, X>>}}]

Selections ==
  [excluded : {{}, {<<Here, A, B>>, <<Here, A, B, Y>>, <<Here, A, B, X>>, <<Above, A, X>>}},
   ignore : BOOLEAN, cancel : {3, 100}]

TargetPaths ==
  {<<Here>>, <<Here, A>>, <<Here, A, B>>, <<Here, A, B, Y>>, <<Above, A>>, <<Above, A, X>>, <<Here, A1>>, <<Above, A1>>, <<Here, Y>>}

TargetLists == UNION {[1 .. k -> TargetPaths] : k \in 1 .. 3}

\* SavedExact of ArchiveTree, for each list of targets: the backup saves every file of every
\* target once and under a path of its own, although targets overlap and names collide.
TargetsSaved == part = "targets" => SavedExact(arg.src, arg.sel, arg.targets)

\* ScanExact of ArchiveTree, for each list of targets: the totals of the scanner are those of the
\* files that the backup will read.
TargetsScanned == part = "targets" => ScanExact(arg.src, arg.sel, arg.targets)

\* The backup and the scanner agree with the list of targets and with each other.
TargetsExact == TargetsSaved /\ TargetsScanned

-----------------------------------------------------------------------------

MCInit ==
  /\ Init
  /\ \/ part = "archive" /\ arg = <<>>
     \/ part = "targets" /\ arg \in [src : Sources, sel : Selections, targets : TargetLists]

MCNext == part = "archive" /\ Next /\ UNCHANGED <<part, arg>>

\* The behaviours of the functions have one state, and are not fair to the archiver: SnapshotEnds
\* is about the others.
MCSpec == MCInit /\ [][MCNext]_mcVars /\ Fairness
=============================================================================
