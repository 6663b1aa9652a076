------------------------------- MODULE Trees -------------------------------
(***************************************************************************)
(* restic/tree.go and walker/rewriter.go.  A tree is the sequence of its   *)
(* nodes.  The ID of a tree is the hash of its content, so a tree stands   *)
(* for its ID.  Names are numbers in the order of the names, 0 is "".      *)
(*                                                                         *)
(* walker/walker.go: Walk.  The callback walkFn is the user's: for every   *)
(* node it may return any combination of ignore and an error.              *)
(***************************************************************************)
EXTENDS Integers, FiniteSets, SequencesExt

CONSTANTS
  LoadableTree,  \* trees that can be loaded
  LossyTree,     \* trees that JSON encodes differently from how they are stored
  NilTree,       \* no subtree
  WalkTree,      \* tree -> sequence of its nodes [name, type, sub], in the order of the names
  WalkRoot,
  WalkUnloadable \* trees that LoadTree fails for

File(n) == [name |-> n, type |-> "file", sub |-> NilTree]
Dir(n, t) == [name |-> n, type |-> "dir", sub |-> t]

-----------------------------------------------------------------------------
(* Tree.                                                                   *)

\* sort.Search: bisects, whether or not the nodes are in order.
SearchName(t, name, lo, hi) ==
  LET step[w \in (1..Len(t) + 1) \X (1..Len(t) + 1)] ==
        IF w[1] >= w[2] THEN w[1]
        ELSE LET mid == (w[1] + w[2]) \div 2
             IN IF t[mid].name >= name THEN step[<<w[1], mid>>] ELSE step[<<mid + 1, w[2]>>]
  IN step[<<lo, hi>>]

FindPos(t, name) == SearchName(t, name, 1, Len(t) + 1)
Has(t, name) == LET pos == FindPos(t, name) IN pos <= Len(t) /\ t[pos].name = name

\* Insert; a name that is there already is an error and leaves the tree alone.
Insert(t, node) == IF Has(t, node.name) THEN t ELSE InsertAt(t, FindPos(t, node.name), node)

\* TreeJSONBuilder.AddNode on [ok, nodes].
AddNode(b, node) ==
  LET last == IF b.nodes = <<>> THEN 0 ELSE b.nodes[Len(b.nodes)].name
  IN IF ~b.ok \/ node.name <= last THEN [b EXCEPT !.ok = FALSE]
     ELSE [b EXCEPT !.nodes = Append(@, node)]

\* FindTreeDirectory: the tree at the end of a path, or NilTree.
FindTreeDirectory(root, path) ==
  FoldLeft(LAMBDA t, name :
             IF t = NilTree \/ t \notin LoadableTree \/ ~Has(t, name) THEN NilTree
             ELSE t[FindPos(t, name)].sub, root, path)

-----------------------------------------------------------------------------
(* TreeRewriter.  opts: remove, the paths whose nodes RewriteNode removes; *)
(* byName, whether it looks at the last name only; cache, the node cache;  *)
(* lossy, AllowUnstableSerialization; repair, whether RewriteFailedTree    *)
(* gives an empty tree; failing, trees that SaveBlob fails for.            *)

RewriteNode(opts, path) ==
  \E p \in opts.remove : IF opts.byName THEN Last(p) = Last(path) ELSE p = path

\* The state that RewriteTree is passed and returns: the trees saved, replaces, and its results.
NewTreeRewriter == [ok |-> TRUE, id |-> NilTree, saved |-> {}, replaces |-> <<>>]

\* The new tree noted in replaces, but not saved.
NoteRewritten(opts, st, old, new) == [st EXCEPT !.id = new, !.replaces = (old :> new) @@ @]

\* SaveBlob of the new tree.  replaces is set although it may have failed.
SaveRewritten(opts, st, old, new) ==
  [ok |-> new \notin opts.failing, id |-> new,
   saved |-> st.saved \cup ({new} \ opts.failing),
   replaces |-> IF opts.cache THEN (old :> new) @@ st.replaces ELSE <<>>]

RECURSIVE RewriteTree(_, _, _, _)
RewriteTree(opts, st, path, t) ==
  IF t \in DOMAIN st.replaces THEN [st EXCEPT !.id = st.replaces[t]]
  ELSE IF t \notin LoadableTree
    THEN IF opts.repair THEN [st EXCEPT !.id = <<>>, !.saved = @ \cup {<<>>}] ELSE [st EXCEPT !.ok = FALSE]
  ELSE IF ~opts.lossy /\ (t \in opts.failing \/ t \in LossyTree) THEN [st EXCEPT !.ok = FALSE]
  ELSE LET node(acc, n) ==
             LET p == Append(path, n.name)
                 sub == RewriteTree(opts, acc.st, p, n.sub)
                 add(m) == AddNode([ok |-> TRUE, nodes |-> acc.nodes], m)
             IN IF ~acc.st.ok \/ RewriteNode(opts, p) THEN acc
                ELSE IF n.type # "dir"
                  THEN [nodes |-> add(n).nodes, st |-> [acc.st EXCEPT !.ok = add(n).ok]]
                ELSE LET m == [n EXCEPT !.sub = sub.id]
                     IN [nodes |-> add(m).nodes, st |-> [sub EXCEPT !.ok = @ /\ add(m).ok]]
           start == [st EXCEPT !.saved = @ \cup IF opts.lossy THEN {} ELSE {t}]
           end == FoldLeft(node, [st |-> start, nodes |-> <<>>], t)
       IN IF ~end.st.ok THEN end.st ELSE SaveRewritten(opts, end.st, t, end.nodes)

-----------------------------------------------------------------------------
\* The paths of a tree's nodes, each with the type of its node.
RECURSIVE PathsOf(_, _)
PathsOf(path, t) ==
  IF t = NilTree THEN {}
  ELSE UNION {{<<Append(path, n.name), n.type>>} \cup PathsOf(Append(path, n.name), n.sub) : n \in Range(t)}

RECURSIVE TreesIn(_)
TreesIn(t) == IF t = NilTree THEN {} ELSE {t} \cup UNION {TreesIn(n.sub) : n \in Range(t)}

\* A tree made with Insert, in whatever order, is in the order of the names, without duplicates,
\* which AddNode insists on, and the bisection of find finds the names in it and no others.
FindExact(nodes, name) ==
  LET t == FoldLeft(LAMBDA s, n : Insert(s, n), <<>>, nodes)
  IN /\ FoldLeft(AddNode, [ok |-> TRUE, nodes |-> <<>>], t) = [ok |-> TRUE, nodes |-> t]
     /\ Has(t, name) <=> \E n \in Range(nodes) : n.name = name

\* Rewriting a tree, with a rewriter that has rewritten another one, removes what RewriteNode
\* removes, with all below it, and nothing else, unless the node cache is used with a RewriteNode
\* that looks at the path; a tree that cannot be loaded is replaced by an empty one or makes the
\* rewriting fail.
RewriteExact(opts, first, t) ==
  LET before == RewriteTree(opts, NewTreeRewriter, <<>>, first)
      r == RewriteTree(opts, before, <<>>, t)
      gone(p) == \E i \in 1..Len(p) : RewriteNode(opts, SubSeq(p, 1, i))
      unloadable(p) == \E i \in 1..Len(p) - 1 : FindTreeDirectory(t, SubSeq(p, 1, i)) \notin LoadableTree
  IN before.ok /\ r.ok /\ (opts.byName \/ ~opts.cache) =>
       PathsOf(<<>>, r.id) = {pt \in PathsOf(<<>>, t) : ~gone(pt[1]) /\ ~unloadable(pt[1])}

\* A rewriter is used for one tree after the other.  If rewriting both succeeds, every tree of the
\* second result has been saved or was in the repository.  (After a failed call a rewriter is of no
\* use: it may remember a tree that was not saved.)
RewriteSaved(opts, first, t) ==
  LET before == RewriteTree(opts, NewTreeRewriter, <<>>, first)
      r == RewriteTree(opts, before, <<>>, t)
  IN before.ok /\ r.ok => TreesIn(r.id) \subseteq r.saved \cup LoadableTree

-----------------------------------------------------------------------------
(* Walk.                                                                   *)

VARIABLES
  frames,        \* the calls of walk: [tree, path, pos, all]; the innermost one is last
  ignoreTrees,
  asked,         \* path -> what walkFn has returned for it: [ignore, err, tree]
  walkResult     \* "running", "ok", "error", or "panic" (a tree that was not loaded is walked)

walkVars == <<frames, ignoreTrees, asked, walkResult>>

WalkErrors == {"none", "skip", "fail"}      \* skip is ErrSkipNode

Frame(tree, path) ==
  [tree |-> tree, path |-> path, pos |-> 1, all |-> tree \in WalkUnloadable \/ WalkTree[tree] # <<>>]

WalkInit == frames = <<>> /\ ignoreTrees = {} /\ asked = <<>> /\ walkResult = "running"

Inner == frames[Len(frames)]
Node == WalkTree[Inner.tree][Inner.pos]
NodePath == Append(Inner.path, Node.name)
AtNode == walkResult = "running" /\ frames # <<>> /\ Inner.pos <= Len(WalkTree[Inner.tree])

\* The innermost call goes on with the next node, with allNodesIgnored set as given.
NextNode(all) == [frames EXCEPT ![Len(frames)].pos = @ + 1, ![Len(frames)].all = all]

\* allNodesIgnored after a node for which walkFn has returned ignore.
AllIgnored(ignore) == Inner.all /\ ignore

\* walk enters a tree; without a tree there is nothing to range over.
Enter(fs, tree, path) ==
  IF tree \in WalkUnloadable THEN walkResult' = "panic" /\ UNCHANGED frames
  ELSE frames' = Append(fs, Frame(tree, path)) /\ UNCHANGED walkResult

\* Walk asks walkFn about the root.
VisitRoot(err) ==
  /\ walkResult = "running" /\ frames = <<>> /\ asked = <<>>
  /\ asked' = (<<>> :> [ignore |-> FALSE, err |-> err, tree |-> WalkRoot])
  /\ CASE err = "none" -> Enter(<<>>, WalkRoot, <<>>)
       [] err = "skip" -> walkResult' = "ok" /\ UNCHANGED frames
       [] err = "fail" -> walkResult' = "error" /\ UNCHANGED frames
  /\ UNCHANGED ignoreTrees

\* The innermost call returns allNodesIgnored; the caller adds the tree and goes on.
WalkUp(all) ==
  IF Len(frames) = 1 THEN walkResult' = "ok" /\ frames' = <<>> /\ UNCHANGED ignoreTrees
  ELSE LET caller == Len(frames) - 1
       IN /\ frames' = [SubSeq(frames, 1, caller) EXCEPT ![caller].all = @ /\ all]
          /\ ignoreTrees' = ignoreTrees \cup {t \in {Inner.tree} : all}
          /\ UNCHANGED walkResult

WalkReturns ==
  /\ walkResult = "running" /\ frames # <<>> /\ Inner.pos > Len(WalkTree[Inner.tree])
  /\ WalkUp(Inner.all)
  /\ UNCHANGED asked

Asked(ignore, err) == asked' = (NodePath :> [ignore |-> ignore, err |-> err, tree |-> Node.sub]) @@ asked

VisitFile(ignore, err) ==
  /\ AtNode /\ Node.type = "file"
  /\ Asked(ignore, err)
  /\ CASE err = "none" -> frames' = NextNode(AllIgnored(ignore)) /\ UNCHANGED <<ignoreTrees, walkResult>>
       [] err = "skip" -> WalkUp(Inner.all)
       [] err = "fail" -> walkResult' = "error" /\ UNCHANGED <<frames, ignoreTrees>>

\* A node without a type, and a directory without a subtree.
VisitBroken ==
  /\ AtNode /\ Node.type = "broken"
  /\ walkResult' = "error"
  /\ UNCHANGED <<frames, ignoreTrees, asked>>

SkipIgnored ==
  /\ AtNode /\ Node.type = "dir" /\ Node.sub \in ignoreTrees
  /\ frames' = NextNode(Inner.all)
  /\ UNCHANGED <<ignoreTrees, asked, walkResult>>

VisitDir(ignore, err) ==
  /\ AtNode /\ Node.type = "dir" /\ Node.sub \notin ignoreTrees
  /\ Asked(ignore, err)
  /\ ignoreTrees' = ignoreTrees \cup {t \in {Node.sub} : ignore /\ err # "fail"}
  /\ CASE err = "none" -> Enter(NextNode(AllIgnored(ignore)), Node.sub, NodePath)
       [] err = "skip" -> frames' = NextNode(Inner.all) /\ UNCHANGED walkResult
       [] err = "fail" -> walkResult' = "error" /\ UNCHANGED frames

WalkNext ==
  \/ \E err \in WalkErrors : VisitRoot(err)
  \/ WalkReturns
  \/ \E ignore \in BOOLEAN, err \in WalkErrors : VisitFile(ignore, err) \/ VisitDir(ignore, err)
  \/ VisitBroken
  \/ SkipIgnored

-----------------------------------------------------------------------------
\* The nodes below a path that walkFn was asked about, by their names.
AskedIn(p) == {q \in DOMAIN asked : Len(q) = Len(p) + 1 /\ IsPrefix(p, q)}

\* walk leaves out a node only if walkFn has skipped a directory above it or an entry before it, or
\* if it is in a tree that is to be ignored; every other node has been passed to walkFn when Walk
\* returns without an error.
WalkComplete ==
  walkResult = "ok" =>
    \A p \in DOMAIN asked :
      asked[p].tree \notin ignoreTrees /\ asked[p].err = "none" /\ asked[p].tree \in DOMAIN WalkTree =>
        \A i \in DOMAIN WalkTree[asked[p].tree] :
          LET n(j) == WalkTree[asked[p].tree][j]
              path(j) == Append(p, n(j).name)
          IN \/ path(i) \in DOMAIN asked
             \/ n(i).sub \in ignoreTrees
             \/ \E j \in 1..i - 1 : /\ n(j).type = "file" /\ path(j) \in DOMAIN asked
                                    /\ asked[path(j)].err = "skip"

\* A tree is left out of the rest of the walk only if walkFn has ignored the directory that refers
\* to it or, in one visit, everything in it up to an entry that it skipped.
IgnoredJustified ==
  \A t \in ignoreTrees : \E p \in DOMAIN asked :
    /\ asked[p].tree = t
    /\ \/ asked[p].ignore
       \/ WalkTree[t] # <<>> /\ \A q \in AskedIn(p) : asked[q].ignore \/ asked[q].err = "skip"
=============================================================================
