------------------------------ MODULE RestoreTree ------------------------------
(***************************************************************************)
(* Restoring a snapshot: Restorer.RestoreTo and traverseTree               *)
(* (internal/restorer/restorer.go), the index of hard links                *)
(* (hardlinks_index.go) and how a node is created (restic/node.go).        *)
(*                                                                         *)
(* The tree is walked twice.  The first pass makes the directories and     *)
(* collects the files; restoreFiles, of which only the promise stated in   *)
(* FileRestorer is used here, writes their contents; the second pass       *)
(* creates everything else and restores the metadata, that of a directory  *)
(* when it is left.  An error goes to the Error callback, which ignores or *)
(* returns it; an error that is returned reaches the callback again for    *)
(* every directory above.  A node stands for its path.                     *)
(***************************************************************************)
EXTENDS Naturals, Sequences, FiniteSets

CONSTANTS
  Top,             \* the root of the snapshot, restored to dst
  Kids,            \* the nodes of each directory, in order
  Kind,            \* the type of each node; "empty" is a file of size 0
  Inode,           \* the inode of each file that has several links
  BadNames,        \* the nodes with an invalid name or target
  NoSubtree,       \* the directories without subtree
  Selections,      \* results of SelectFilter: records of the nodes selected, and of the
                   \* directories in which children may be selected
  Existing,        \* the paths at which a file may exist before
  TreeFaults       \* how many operations may fail

Names == DOMAIN Kind
Dirs == DOMAIN Kids

ASSUME RestoreTreeAssumption ==
  /\ Top \in Dirs /\ Top \notin Names
  /\ \A n \in Names : Kind[n] \in {"file", "empty", "dir", "symlink", "fifo", "socket"}
  /\ {n \in Names : Kind[n] = "dir"} = Dirs \ {Top}
  /\ DOMAIN Inode \subseteq {n \in Names : Kind[n] \in {"file", "empty"}}
  /\ TreeFaults \in Nat

VARIABLES
  pass,            \* "new", "first", "files", "second", "ended"
  filter,          \* the member of Selections in use
  stack,           \* the calls of traverseTree that run, innermost last
  unwinding,       \* whether the innermost call has returned an error
  idx,             \* HardlinkIndex: the first location of each inode
  queue,           \* the files given to addFile
  content,         \* what is at each path: "none", "old", "part", or the node it was restored from
  before,          \* the paths at which a file existed before
  meta,            \* the nodes for which RestoreMetadata has returned nil, and no later
                   \* change in a directory has undone it
  told,            \* the locations for which the Error callback was called
  faults,          \* how many operations have failed
  restored         \* what RestoreTo has returned

walkVars == <<stack, unwinding>>
pathVars == <<content, meta>>
treeVars == <<pass, filter, walkVars, idx, queue, pathVars, before, told, faults, restored>>

Frame(d) == [dir |-> d, i |-> 1, has |-> FALSE]
Ended(d) == [dir |-> d, i |-> Len(Kids[d]) + 1, has |-> FALSE]

RestoreTreeInit ==
  /\ pass = "new"
  /\ filter \in {CHOOSE s \in Selections : TRUE}
  /\ stack = <<>>
  /\ unwinding = FALSE
  /\ idx = <<>>
  /\ queue = {}
  /\ content = [n \in Names |-> "none"]
  /\ before = {}
  /\ meta = {}
  /\ told = {}
  /\ faults = 0
  /\ restored = "none"

Frames == [dir : Dirs, i : 1 .. Cardinality(Names) + 1, has : BOOLEAN]

RestoreTreeTypeOK ==
  /\ pass \in {"new", "first", "files", "second", "ended"}
  /\ filter \in Selections
  /\ Len(stack) <= Cardinality(Dirs) /\ \A i \in DOMAIN stack : stack[i] \in Frames
  /\ unwinding \in BOOLEAN
  /\ DOMAIN idx \subseteq {Inode[n] : n \in DOMAIN Inode}
  /\ queue \subseteq Names
  /\ content \in [Names -> Names \cup {"none", "old", "part"}]
  /\ meta \subseteq Names
  /\ told \subseteq Names \cup {Top}
  /\ faults \in 0 .. TreeFaults
  /\ restored \in {"none", "nil", "error"}

Parent(n) == CHOOSE d \in Dirs : \E i \in DOMAIN Kids[d] : Kids[d][i] = n
Above[n \in Names] == IF Parent(n) = Top THEN {} ELSE {Parent(n)} \cup Above[Parent(n)]

-----------------------------------------------------------------------------
(* traverseTree *)

top == stack[Len(stack)]
node == Kids[top.dir][top.i]
selected == node \in filter.selected

\* The loop of a call goes on with the next node; the call has restored something if r.
Passed(s, r) == [s EXCEPT ![Len(s)] = [@ EXCEPT !.i = @ + 1, !.has = @ \/ r]]
Continue(r) == stack' = Passed(stack, r) /\ unwinding' = FALSE

\* The loop goes on, or the call returns the error, as the Error callback wants for location n.
Callback(n, r) ==
  /\ told' = told \cup {n}
  /\ stack' = Passed(stack, r)
  /\ unwinding' \in BOOLEAN

Fault == faults < TreeFaults /\ faults' = faults + 1
Fine == UNCHANGED <<told, faults>>

\* There is a node to visit in this pass.
Walking(p) ==
  /\ pass = p
  /\ ~unwinding
  /\ top.i <= Len(Kids[top.dir])
  /\ node \notin BadNames

\* Nodes with names that lead out of the directory are errors.
InvalidNode ==
  /\ pass \in {"first", "second"} /\ ~unwinding
  /\ top.i <= Len(Kids[top.dir])
  /\ node \in BadNames
  /\ Callback(node, FALSE)
  /\ UNCHANGED <<pass, filter, idx, queue, pathVars, before, faults, restored>>

\* Sockets cannot be restored, and a node that is not selected is passed over, unless it is a
\* directory.
PassOver ==
  /\ \E p \in {"first", "second"} : Walking(p)
  /\ Kind[node] = "socket" \/ (Kind[node] # "dir" /\ ~selected)
  /\ Continue(FALSE)
  /\ UNCHANGED <<pass, filter, idx, queue, pathVars, before, told, faults, restored>>

\* MkdirAll: the directory and all above it.
MkdirAll(ds) == content' = [n \in Names |-> IF n \in ds THEN n ELSE content[n]]

\* The call for directory d, made on stack s after the callback was told of t.  If its LoadTree
\* fails the callback is asked, and if it returns the error, once more in the call above.
LoadTree(s, d, t, f) ==
  \/ stack' = Append(s, Frame(d)) /\ unwinding' = FALSE /\ told' = t /\ faults' = f
  \/ /\ f < TreeFaults
     /\ faults' = f + 1
     /\ told' = t \cup {d}
     /\ stack' = Append(s, Ended(d))
     /\ unwinding' \in BOOLEAN

\* A directory without subtree is an error of the tree, not of the node.
MissingSubtree ==
  /\ \E p \in {"first", "second"} : Walking(p)
  /\ node \in NoSubtree
  /\ unwinding' = TRUE
  /\ stack' = [stack EXCEPT ![Len(stack)].has = @ \/ selected]
  /\ UNCHANGED <<pass, filter, idx, queue, pathVars, before, told, faults, restored>>

\* The call for the subtree of the node, if children of it may be selected.
Recur(t, f) ==
  IF node \in filter.descend
  THEN LoadTree(stack, node, t, f)
  ELSE stack' = Append(stack, Ended(node)) /\ unwinding' = FALSE /\ told' = t /\ faults' = f

\* enterDir, which only the first pass has, and the call for the subtree.
EnterDir ==
  /\ \E p \in {"first", "second"} : Walking(p)
  /\ Kind[node] = "dir" /\ node \notin NoSubtree
  /\ \/ /\ IF pass = "first" /\ selected THEN MkdirAll({node} \cup Above[node]) ELSE UNCHANGED content
        /\ Recur(told, faults)
     \/ /\ pass = "first" /\ selected
        /\ faults < TreeFaults
        /\ \/ Recur(told \cup {node}, faults + 1)
           \/ /\ told' = told \cup {node} /\ faults' = faults + 1
              /\ stack' = Passed(stack, TRUE) /\ unwinding' = TRUE
        /\ UNCHANGED content
  /\ UNCHANGED <<pass, filter, idx, queue, meta, before, restored>>

\* The metadata of n is restored; that of the directory in which an entry was created or
\* removed no longer is what it was.
Restored(n, changed) == meta' = (meta \ (IF changed THEN {Parent(n)} ELSE {})) \cup {n}
Touched(n) == meta' = meta \ {Parent(n)}

\* The call for directory d is over, and the callback was told of t.  leaveDir, which only the
\* second pass has, restores the metadata if something in d was restored.
LeaveDir(d, has, t) ==
  /\ stack' = Passed(SubSeq(stack, 1, Len(stack) - 1), has \/ d \in filter.selected)
  /\ IF pass = "second" /\ (d \in filter.selected \/ has)
     THEN \/ /\ content[d] # "none"
             /\ meta' = meta \cup {d}
             /\ unwinding' = FALSE /\ told' = t /\ UNCHANGED faults
          \/ /\ IF content[d] = "none" THEN UNCHANGED faults ELSE Fault
             /\ told' = t \cup {d}
             /\ unwinding' \in BOOLEAN
             /\ UNCHANGED meta
     ELSE unwinding' = FALSE /\ told' = t /\ UNCHANGED <<meta, faults>>

EndOfTree ==
  /\ pass \in {"first", "second"} /\ ~unwinding
  /\ Len(stack) > 1
  /\ top.i > Len(Kids[top.dir])
  /\ LeaveDir(top.dir, top.has, told)
  /\ UNCHANGED <<pass, filter, idx, queue, content, before, restored>>

\* The error of a call reaches the callback for the directory of the call, which returns or
\* ignores it.
Unwind ==
  /\ pass \in {"first", "second"} /\ unwinding
  /\ Len(stack) > 1
  /\ \/ /\ told' = told \cup {top.dir}
        /\ stack' = Passed(SubSeq(stack, 1, Len(stack) - 1), top.has \/ top.dir \in filter.selected)
        /\ UNCHANGED <<unwinding, meta, faults>>
     \/ LeaveDir(top.dir, top.has, told \cup {top.dir})
  /\ UNCHANGED <<pass, filter, idx, queue, content, before, restored>>

-----------------------------------------------------------------------------
(* The visitors of the first pass *)

HasLink(n) == n \in DOMAIN Inode /\ Inode[n] \in DOMAIN idx
AddLink(n) ==
  IF n \in DOMAIN Inode /\ Inode[n] \notin DOMAIN idx
  THEN idx' = [k \in DOMAIN idx \cup {Inode[n]} |-> IF k \in DOMAIN idx THEN idx[k] ELSE n]
  ELSE UNCHANGED idx

\* Mutant of CollectNode: every link of a file is restored as a file, and none is entered.
CollectNodeUnindexed ==
  /\ Walking("first")
  /\ Kind[node] \notin {"dir", "socket"} /\ selected
  /\ MkdirAll(Above[node])
  /\ queue' = IF Kind[node] = "file" THEN queue \cup {node} ELSE queue
  /\ Continue(TRUE)
  /\ Fine
  /\ UNCHANGED <<pass, filter, idx, meta, before, restored>>

\* The directory of the node is made; of the links to a file that is not empty the first is
\* given to restoreFiles.
CollectNode ==
  /\ Walking("first")
  /\ Kind[node] \notin {"dir", "socket"} /\ selected
  /\ \/ /\ MkdirAll(Above[node])
        /\ IF Kind[node] = "file" /\ ~HasLink(node)
           THEN AddLink(node) /\ queue' = queue \cup {node}
           ELSE UNCHANGED <<idx, queue>>
        /\ Continue(TRUE)
        /\ Fine
     \/ Fault /\ Callback(node, TRUE) /\ UNCHANGED <<content, idx, queue>>
  /\ UNCHANGED <<pass, filter, meta, before, restored>>

\* restoreFiles: a nil result means that each file is complete or was reported.  A file it
\* cannot write may be left as it was, or in part.
RestoreFiles ==
  /\ pass = "files"
  /\ \E bad \in SUBSET queue :
       /\ faults + Cardinality(bad) <= TreeFaults
       /\ \E left \in SUBSET bad :
            content' = [n \in Names |-> IF n \in left THEN "part"
                                        ELSE IF n \in queue \ bad THEN n ELSE content[n]]
       /\ \/ /\ pass' = "second"
             /\ LoadTree(<<>>, Top, told \cup bad, faults + Cardinality(bad))
             /\ UNCHANGED restored
          \/ /\ bad # {}
             /\ pass' = "ended" /\ restored' = "error"
             /\ told' = told \cup bad /\ faults' = faults + Cardinality(bad)
             /\ UNCHANGED walkVars
  /\ UNCHANGED <<filter, idx, queue, meta, before>>

-----------------------------------------------------------------------------
(* The visitors of the second pass *)

\* What is at the path has changed, and restoreNodeMetadataTo, or another step after that, fails.
MetadataFails ==
  /\ Fault
  /\ Callback(node, TRUE)
  /\ Touched(node)

\* restoreEmptyFileAt; the file is entered into the index before it is created.
CreateEmpty ==
  /\ AddLink(node)
  /\ \/ /\ content' = [content EXCEPT ![node] = node]
        /\ \/ Restored(node, TRUE) /\ Continue(TRUE) /\ Fine
           \/ MetadataFails
     \/ Fault /\ Callback(node, TRUE) /\ UNCHANGED pathVars

\* restoreHardlinkAt: a file at the path of the link is removed, and that is all.
CreateLink(first) ==
  /\ UNCHANGED idx
  /\ \/ /\ content[node] # "none"
        /\ content' = [content EXCEPT ![node] = "none"]
        /\ Touched(node) /\ Continue(TRUE) /\ Fine
     \/ /\ content[node] = "none" /\ content[first] # "none"
        /\ content' = [content EXCEPT ![node] = content[first]]
        /\ \/ Restored(node, TRUE) /\ Continue(TRUE) /\ Fine
           \/ MetadataFails
     \/ /\ IF content[node] = "none" /\ content[first] = "none" THEN UNCHANGED faults ELSE Fault
        /\ Callback(node, TRUE)
        /\ UNCHANGED pathVars

\* restoreNodeTo: CreateAt replaces what is at the path by a symbolic link; mknod does not.
CreateSpecial ==
  /\ UNCHANGED idx
  /\ \/ /\ content[node] = "none" \/ Kind[node] = "symlink"
        /\ content' = [content EXCEPT ![node] = node]
        /\ \/ Restored(node, TRUE) /\ Continue(TRUE) /\ Fine
           \/ MetadataFails
     \/ /\ IF content[node] # "none" /\ Kind[node] = "fifo" THEN UNCHANGED faults ELSE Fault
        /\ Callback(node, TRUE)
        /\ UNCHANGED pathVars
     \/ /\ content[node] # "none" /\ Kind[node] = "symlink"
        /\ content' = [content EXCEPT ![node] = "none"]
        /\ MetadataFails

\* restoreNodeMetadataTo for a file that restoreFiles has written.
FileMetadata ==
  /\ UNCHANGED <<idx, content>>
  /\ \/ /\ content[node] # "none"
        /\ Restored(node, FALSE) /\ Continue(TRUE) /\ Fine
     \/ /\ IF content[node] = "none" THEN UNCHANGED faults ELSE Fault
        /\ Callback(node, TRUE)
        /\ UNCHANGED meta

FinishNode ==
  /\ Walking("second")
  /\ Kind[node] \notin {"dir", "socket"} /\ selected
  /\ \/ Kind[node] \in {"symlink", "fifo"} /\ CreateSpecial
     \/ Kind[node] = "empty" /\ ~HasLink(node) /\ CreateEmpty
     \/ HasLink(node) /\ idx[Inode[node]] # node /\ CreateLink(idx[Inode[node]])
     \/ (IF HasLink(node) THEN idx[Inode[node]] = node ELSE Kind[node] = "file") /\ FileMetadata
  /\ UNCHANGED <<pass, filter, queue, before, restored>>

-----------------------------------------------------------------------------
(* RestoreTo *)

StartRestore ==
  /\ pass = "new"
  /\ filter' \in Selections
  /\ before' \in SUBSET Existing
  /\ content' = [n \in Names |-> IF n \in before' THEN "old" ELSE "none"]
  /\ pass' = "first"
  /\ LoadTree(<<>>, Top, told, faults)
  /\ UNCHANGED <<idx, queue, meta, restored>>

\* A pass over the whole tree has ended; an error of the root is returned as it is.
EndOfPass ==
  /\ pass \in {"first", "second"}
  /\ Len(stack) = 1
  /\ \/ ~unwinding /\ top.i > Len(Kids[Top]) /\ pass = "first" /\ pass' = "files" /\ UNCHANGED restored
     \/ ~unwinding /\ top.i > Len(Kids[Top]) /\ pass = "second" /\ pass' = "ended" /\ restored' = "nil"
     \/ unwinding /\ pass' = "ended" /\ restored' = "error"
  /\ stack' = <<>> /\ unwinding' = FALSE
  /\ UNCHANGED <<filter, idx, queue, pathVars, before, told, faults>>

RestoreTreeNext ==
  \/ StartRestore \/ EndOfPass \/ RestoreFiles
  \/ InvalidNode \/ PassOver \/ MissingSubtree \/ EnterDir \/ EndOfTree \/ Unwind
  \/ CollectNode \/ FinishNode

-----------------------------------------------------------------------------
(* Properties *)

\* The nodes that RestoreTo must restore: those that the filter selects and lets it reach.
Wanted ==
  {n \in Names : /\ n \in filter.selected \ BadNames
                 /\ Kind[n] # "socket"
                 /\ \A d \in Above[n] : d \in filter.descend \ NoSubtree}

\* The Error callback knows about n: it was called for n, for a directory above it, or for
\* another link to the same file.
Excused(n) ==
  \/ ({n, Top} \cup Above[n]) \cap told # {}
  \/ n \in DOMAIN Inode /\ \E m \in DOMAIN Inode : Inode[m] = Inode[n] /\ m \in told

\* A link at whose path a file exists already is the one case that restoreHardlinkAt leaves
\* unrestored in silence.
Replaced(n) == n \in before /\ HasLink(n) /\ idx[Inode[n]] # n

\* The links to the file of n.
Links(n) == {n} \cup {m \in DOMAIN Inode : n \in DOMAIN Inode /\ Inode[m] = Inode[n]}

\* When RestoreTo returns nil, every node that was to be restored is in place with its own
\* contents, as one file with all of its other links, and with its metadata, unless the Error
\* callback was told.
TreeRestored ==
  restored = "nil" =>
    LET Due == {n \in Wanted : ~Excused(n) /\ ~Replaced(n)}
    IN  \A n \in Due :
          /\ content[n] \in Links(n)
          /\ n \in meta
          /\ \A m \in Due \cap Links(n) : content[m] = content[n]

\* "metadata are restored on leaveDir": at the end of a restore no directory in which something
\* was restored has the modification time that restoring its children gave it, unless the
\* callback was told of an error at the directory or the child.
DirMetadataKept ==
  restored = "nil" =>
    \A n \in Wanted : \A d \in Above[n] : d \in meta \/ Excused(d) \/ Excused(n)

\* The two passes of RestoreTo do not undo each other: what was selected is in place or was reported,
\* and directories have their metadata after everything in them was written.
TreeInPlace == RestoreTreeTypeOK /\ TreeRestored /\ DirMetadataKept
=============================================================================
