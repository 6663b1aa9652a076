------------------------------- MODULE ArchiveTree -------------------------------
(***************************************************************************)
(* What a backup saves: the tree that internal/archiver makes of its       *)
(* targets (tree.go, resolveRelativeTargets), the calls of SaveTree, Save  *)
(* and SaveDir, and the Scanner, which counts the same files for the       *)
(* progress report.                                                        *)
(*                                                                         *)
(* A path is a sequence of names, each a sequence of its parts; the first  *)
(* is the directory it starts from, <<"/">>, <<".">> or <<"..">>.  The     *)
(* name "a-1" is <<"a", "1">>.  A source has the kind of each path and the *)
(* paths that cannot be read; a selection the paths that are excluded,     *)
(* whether the Error callback ignores errors, and after how many calls of  *)
(* scan the context is cancelled.                                          *)
(***************************************************************************)
EXTENDS Naturals, Sequences, FiniteSets, TLC
LOCAL INSTANCE SequencesExt
LOCAL INSTANCE FiniteSetsExt

Kind(src, p) == IF p \in DOMAIN src.kind THEN src.kind[p] ELSE "missing"

\* readdirnames fails for what is not a directory.
Unreadable(src, p) == Kind(src, p) # "dir" \/ p \in src.broken
readdirnames(src, dir) == {Last(p) : p \in {q \in DOMAIN src.kind : Len(q) > 1 /\ Front(q) = dir}}

pathComponents(p) == Tail(p)
rootDirectory(p) == <<Head(p)>>

Failed == [ok |-> FALSE, value |-> <<>>]

\* Targets like "." are replaced by what they contain.
resolveRelativeTargets(src, targets) ==
  FoldLeft(LAMBDA acc, t :
             IF ~acc.ok THEN acc
             ELSE IF pathComponents(t) # <<>> THEN [acc EXCEPT !.value = Append(@, t)]
             ELSE IF Unreadable(src, t) THEN Failed
             ELSE [acc EXCEPT !.value = @ \o SetToSeq({Append(t, n) : n \in readdirnames(src, t)})],
           [ok |-> TRUE, value |-> <<>>], targets)

-----------------------------------------------------------------------------
(* Tree; err stands for the error that Add or unrollTree returns *)

NoTree == [Nodes |-> <<>>, Path |-> <<>>, FileInfoPath |-> <<>>, Root |-> <<>>, err |-> FALSE]

NodeOf(t, name) == IF name \in DOMAIN t.Nodes THEN t.Nodes[name] ELSE NoTree
SetNode(t, name, node) == [t EXCEPT !.Nodes = (name :> node) @@ @, !.err = @ \/ node.err]

\* Mutant of NameFor: the roots of the targets are not told apart.
NameForAll(t, origName, root) == origName

\* The name of a target's first component: the next one that is free, or belongs to its root.
NameFor(t, origName, root) ==
  LET name(i) == IF i = 0 THEN origName ELSE Append(origName, ToString(i))
      free == {i \in 0 .. Cardinality(DOMAIN t.Nodes) : name(i) \in DOMAIN t.Nodes => t.Nodes[name(i)].Root = root}
  IN  name(Min(free))

RECURSIVE add(_, _, _, _)
add(t, target, root, pc) ==
  LET node == NodeOf(t, Head(pc))
      subroot == Append(root, Head(pc))
  IN  SetNode(t, Head(pc),
        IF Len(pc) = 1
        THEN IF node.Path # <<>> THEN [node EXCEPT !.err = TRUE] ELSE [node EXCEPT !.Path = target]
        ELSE add([node EXCEPT !.FileInfoPath = subroot], target, subroot, Tail(pc)))

Add(t, path) ==
  LET pc == pathComponents(path)
      root == rootDirectory(path)
      name == NameFor(t, Head(pc), root)
      tree == IF name \in DOMAIN t.Nodes THEN t.Nodes[name] ELSE [NoTree EXCEPT !.Root = root]
      subroot == Append(root, Head(pc))
  IN  SetNode(t, name,
        IF Len(pc) = 1 THEN [tree EXCEPT !.Path = path]
        ELSE [add(tree, path, subroot, Tail(pc)) EXCEPT !.FileInfoPath = subroot])

\* An entry of a directory that is a target and has targets below it.
unrollEntry(t, dir, entry) ==
  LET node == NodeOf(t, entry)
      path == Append(dir, entry)
  IN  SetNode(t, entry,
        IF node.Path = <<>> THEN [node EXCEPT !.Path = path] ELSE [node EXCEPT !.err = @ \/ node.Path # path])

RECURSIVE unrollTree(_, _)
unrollTree(src, t) ==
  LET resolve == t.Path # <<>> /\ DOMAIN t.Nodes # {}
      resolved ==
        IF ~resolve THEN t
        ELSE IF Unreadable(src, t.Path) THEN [t EXCEPT !.err = TRUE]
        ELSE [FoldSet(LAMBDA n, acc : unrollEntry(acc, t.Path, n), t, readdirnames(src, t.Path)) EXCEPT !.Path = <<>>]
  IN  FoldSet(LAMBDA n, acc : SetNode(acc, n, unrollTree(src, acc.Nodes[n])), resolved, DOMAIN resolved.Nodes)

\* A target that is given twice is skipped.
NewTree(src, targets) ==
  unrollTree(src, FoldLeft(LAMBDA acc, i : IF \E j \in 1 .. (i - 1) : targets[j] = targets[i] THEN acc ELSE Add(acc, targets[i]),
                           NoTree, [i \in DOMAIN targets |-> i]))

-----------------------------------------------------------------------------
(* Save, SaveDir and SaveTree: what is saved, with its path in the snapshot, and the error *)

Nothing == [ok |-> TRUE, value |-> <<>>]
Saved(snPath, p) == [ok |-> TRUE, value |-> <<[sn |-> snPath, path |-> p]>>]

\* The next entry, unless one has failed whose error is not ignored; and the directory itself.
Both(a, b) == IF a.ok /\ b.ok THEN [ok |-> TRUE, value |-> a.value \o b.value] ELSE Failed
ErrorIgnored(sel, r) == IF ~r.ok /\ sel.ignore THEN Nothing ELSE r

RECURSIVE Save(_, _, _, _)
Save(src, sel, snPath, p) ==
  LET kind == Kind(src, p)
      entry(n) == Save(src, sel, Append(snPath, n), Append(p, n))
  IN  IF p \in sel.excluded \/ kind = "socket" THEN Nothing
      ELSE IF kind = "missing" \/ (kind = "file" /\ p \in src.broken) THEN ErrorIgnored(sel, Failed)
      ELSE IF kind # "dir" THEN Saved(snPath, p)
      ELSE IF p \in src.broken THEN Failed
      ELSE Both(FoldSet(LAMBDA n, acc : Both(acc, ErrorIgnored(sel, entry(n))), Nothing, readdirnames(src, p)),
                Saved(snPath, p))

\* The directories above the targets are only read for their own data, and their errors are not ignored.
RECURSIVE SaveTree(_, _, _, _)
SaveTree(src, sel, snPath, t) ==
  LET entry(n) ==
        LET sub == t.Nodes[n]
        IN  IF sub.Path # <<>> THEN ErrorIgnored(sel, Save(src, sel, Append(snPath, n), sub.Path))
            ELSE SaveTree(src, sel, Append(snPath, n), sub)
  IN  IF snPath # <<>> /\ (t.FileInfoPath = <<>> \/ Kind(src, t.FileInfoPath) # "dir") THEN Failed
      ELSE Both(FoldSet(LAMBDA n, acc : Both(acc, entry(n)), Nothing, DOMAIN t.Nodes), Saved(snPath, t.FileInfoPath))

\* Snapshot without its savers.
Archive(src, sel, targets) ==
  LET clean == resolveRelativeTargets(src, targets)
      tree == NewTree(src, clean.value)
  IN  IF ~clean.ok \/ tree.err THEN Failed ELSE SaveTree(src, sel, <<>>, tree)

-----------------------------------------------------------------------------
(* Scanner *)

scanItem(src, sel, p) == IF p \in sel.excluded THEN "excluded" ELSE Kind(src, p)

ScanFailed(sel, stats) == [stats EXCEPT !.err = ~sel.ignore]

RECURSIVE scan(_, _, _, _)
scan(src, sel, stats, p) ==
  LET st == [stats EXCEPT !.calls = @ + 1]
      item == scanItem(src, sel, p)
      next(acc, n) == IF acc.err THEN acc ELSE scan(src, sel, acc, Append(p, n))
  IN  IF stats.calls >= sel.cancel THEN stats
      ELSE IF item = "excluded" THEN st
      ELSE IF item = "missing" \/ (item = "dir" /\ p \in src.broken) THEN ScanFailed(sel, st)
      ELSE IF item = "file" THEN [st EXCEPT !.Files = @ + 1]
      ELSE IF item # "dir" THEN [st EXCEPT !.Others = @ + 1]
      ELSE LET all == FoldSet(LAMBDA n, acc : next(acc, n), st, readdirnames(src, p))
           IN  IF all.err THEN all ELSE [all EXCEPT !.Dirs = @ + 1]

RECURSIVE scanTree(_, _, _, _)
scanTree(src, sel, stats, t) ==
  IF t.Path # <<>> THEN scan(src, sel, stats, t.Path)
  ELSE FoldSet(LAMBDA n, acc : IF acc.err THEN acc ELSE scanTree(src, sel, acc, t.Nodes[n]), stats, DOMAIN t.Nodes)

Scan(src, sel, targets) ==
  LET clean == resolveRelativeTargets(src, targets)
      tree == NewTree(src, clean.value)
      stats == [Files |-> 0, Dirs |-> 0, Others |-> 0, calls |-> 0, err |-> FALSE]
  IN  IF ~clean.ok \/ tree.err THEN [stats EXCEPT !.err = TRUE] ELSE scanTree(src, sel, stats, tree)

-----------------------------------------------------------------------------
(* Properties *)

\* The paths at or below a target that are not excluded, in directories that can be read.
Reached(src, sel, targets) ==
  {p \in DOMAIN src.kind :
     /\ p \notin sel.excluded
     /\ \E i \in DOMAIN targets :
          /\ IsPrefix(targets[i], p)
          /\ \A n \in Len(targets[i]) .. (Len(p) - 1) : SubSeq(p, 1, n) \notin src.broken}

OfKind(src, paths, kinds) == {p \in paths : Kind(src, p) \in kinds}

\* Two targets in one directory, one of which has the name that Add makes of the other's, as that
\* is taken by an earlier target in another directory: Add then takes them for one.
NamesMixed(targets) ==
  \E i, j, k \in DOMAIN targets :
    /\ rootDirectory(targets[i]) = rootDirectory(targets[j])
    /\ Len(targets[i][2]) > 1 /\ Front(targets[i][2]) = targets[j][2]
    /\ rootDirectory(targets[k]) # rootDirectory(targets[j]) /\ targets[k][2] = targets[j][2]
    /\ \A m \in 1 .. k : SubSeq(targets[m], 1, 2) # SubSeq(targets[j], 1, 2)

\* Every file of every target that is not excluded and can be read is saved, once, and no other;
\* items have different paths in the snapshot, which end as their paths in the source do.
\* Without missing or unreadable paths, the backup does not fail.
SavedExact(src, sel, targets) ==
  LET clean == resolveRelativeTargets(src, targets).value
      r == Archive(src, sel, targets)
      files == SelectSeq(r.value, LAMBDA x : Kind(src, x.path) \in {"file", "other"})
      wanted == OfKind(src, Reached(src, sel, clean), {"file", "other"}) \ {p \in src.broken : Kind(src, p) = "file"}
  IN  NamesMixed(clean) \/
        /\ r.ok =>
             /\ {files[i].path : i \in DOMAIN files} = wanted
             /\ Len(files) = Cardinality(wanted)
             /\ Cardinality({r.value[i].sn : i \in DOMAIN r.value}) = Len(r.value)
             /\ \A i \in DOMAIN r.value :
                  r.value[i].sn # <<>> => Tail(r.value[i].sn) = Tail(pathComponents(r.value[i].path))
        /\ (src.broken = {} /\ \A i \in DOMAIN targets : targets[i] \in DOMAIN src.kind) => r.ok

\* The numbers that the scanner reports are those of the files that the backup will read, unless
\* the context is cancelled, and then no more.
ScanExact(src, sel, targets) ==
  LET stats == Scan(src, sel, targets)
      clean == resolveRelativeTargets(src, targets).value
      reached == Reached(src, sel, clean)
      exact == stats.Files = Cardinality(OfKind(src, reached, {"file"})) /\
               stats.Others = Cardinality(OfKind(src, reached, {"other", "socket"}))
  IN  NamesMixed(clean) \/ stats.err \/ exact \/
        (stats.calls >= sel.cancel /\ stats.Files + stats.Others <= Cardinality(reached))
=============================================================================
