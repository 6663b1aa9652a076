------------------------------- MODULE MCRestore -------------------------------
(***************************************************************************)
(* Getting data out of a repository, side by side, for TLC: a behaviour is *)
(* one of restoreFiles (FileRestorer), RestoreTo (RestoreTree),            *)
(* VerifyFiles, a mounted repository (Mount) or DumpTree (Dump), or an     *)
(* input of the functions on nodes (NodeFile), of those of Mount, and of   *)
(* the patterns that select what is restored (Filter).                     *)
(***************************************************************************)
EXTENDS MCFileRestorer, RestoreTree, VerifyFiles, NodeFile, Mount, Dump, Filter

VARIABLES
  model,     \* which of the models takes the steps
  arg        \* the input of the functions

-----------------------------------------------------------------------------
(* The snapshot that is restored: a and b are links to one file, c and e   *)
(* to an empty one; the name of z is invalid and y has no subtree.         *)

SomeKids ==
  ("/" :> <<"a", "d", "e", "g", "k", "s">>) @@ ("d" :> <<"b", "c", "x">>) @@ ("x" :> <<"p", "f">>) @@
  ("g" :> <<"m", "z", "y">>) @@ ("y" :> <<>>)
SomeKinds ==
  [n \in {"a", "b", "f", "z"} |-> "file"] @@ [n \in {"c", "e", "m"} |-> "empty"] @@
  [n \in {"d", "x", "g", "y"} |-> "dir"] @@ ("k" :> "symlink") @@ ("s" :> "socket") @@ ("p" :> "fifo")
SomeInodes == ("a" :> 1) @@ ("b" :> 1) @@ ("c" :> 2) @@ ("e" :> 2)
AllNames == DOMAIN SomeKinds
SomeSelections ==
  {[selected |-> AllNames, descend |-> {"d", "x", "g"}], [selected |-> AllNames \ {"a", "d", "g"}, descend |-> {"d"}],
   [selected |-> {"p"}, descend |-> {"d", "x", "g"}], [selected |-> {"d", "e", "c"}, descend |-> {"d"}]}

-----------------------------------------------------------------------------
(* The files that are verified.                                            *)

ThreeBlobs == ("b" :> <<1, 2>>) @@ ("c" :> <<3>>) @@ ("e" :> <<1>>)
OnDisk(size, blobIDs, bytes) == [size |-> size, blobs |-> blobIDs, exists |-> TRUE, disk |-> bytes]
FiveFiles ==
  <<OnDisk(3, <<"b", "c">>, <<1, 2, 3>>), OnDisk(2, <<"e", "c">>, <<1, 3, 3>>), OnDisk(0, <<>>, <<>>),
    [OnDisk(0, <<>>, <<>>) EXCEPT !.exists = FALSE], OnDisk(2, <<"c", "e">>, <<3, 1>>)>>

-----------------------------------------------------------------------------
(* Nodes.                                                                  *)

OneUser == 7 :> "u"
AttrLists ==
  {<<>>, <<<<"a", 1>>>>, <<<<"a", 1>>, <<"b", 1>>>>, <<<<"b", 1>>, <<"a", 1>>>>, <<<<"a", 2>>, <<"b", 1>>>>}
SomeTimes ==
  [y : {-4, 2020, 10000}, day : {"feb29", "other"}] \cup [y : {1677, 1678, 2261, 2262}, day : {"other"}]
FileInputs ==
  [name : {TextOf(t) : t \in {"plain", "special", "invalid"}},
   type : {"file", "dir", "symlink", "dev", "socket"}, mode : {"m"}, mtime : SomeTimes, atime : [y : {1678, 2262}, day : {"other"}],
   ctime : {ZeroTime}, sys : BOOLEAN, uid : {7, 8}, process : {5}, inode : {1}, links : {2},
   target : {TextOf("plain"), TextOf("invalid")}, device : {3}, size : {9},
   xattrs : {<<<<"a", 1>>, <<"b", 1>>>>}, unreadable : {{}, {"a"}}, failing : {{}, {"readlink"}, {"listxattr"}}]
NodeInputs == [file : FileInputs, cache : {<<>>, OneUser}]
OneNode ==
  NodeFromFileInfo([name |-> TextOf("plain"), type |-> "file", mode |-> "m", mtime |-> ZeroTime, atime |-> ZeroTime,
                    ctime |-> ZeroTime, sys |-> TRUE, uid |-> 7, process |-> 5, inode |-> 1, links |-> 2,
                    target |-> NoText, device |-> 3, size |-> 9, xattrs |-> <<>>, unreadable |-> {}, failing |-> {}], <<>>)
SomeNodes ==
  {[OneNode EXCEPT !.xattrs = a, !.content = c, !.nilContent = (c = <<>> /\ z), !.uid = u] :
     a \in AttrLists, c \in {<<>>, <<"b">>}, z \in BOOLEAN, u \in {7, 8}}
EqualsInputs == [n : SomeNodes, m : SomeNodes]

-----------------------------------------------------------------------------
(* Mounted snapshots: the times of three of them look the same.            *)

DefaultTemplates ==
  << <<"ids", "/", "%i">>, <<"snapshots", "/", "%T">>, <<"hosts", "/", "%h", "/", "%T">>,
     <<"tags", "/", "%t", "/", "%T">> >>
MountedSn(n, id, t, tname, h, tags) ==
  [num |-> n, id |-> id, time |-> t, tname |-> tname, host |-> h, tags |-> tags]
SnapshotsToMount ==
  {MountedSn(1, "i1", 1, "t1", "h", <<>>), MountedSn(2, "i2", 2, "t1", "h", <<"a">>),
   MountedSn(3, "i3", 2, "t1", "g", <<"a", "..">>)}
MountInputs ==
  LET sns == SnapshotsToMount \cup {MountedSn(4, "i4", 3, "t2", "h", <<"", "__", "a">>), MountedSn(5, "i5", 3, "t1", "g", <<>>),
                                    MountedSn(6, "i6", 4, "t1", "h", <<"..">>), MountedSn(7, "i7", 4, "t1", "h", <<"">>),
                                    MountedSn(8, "i8", 4, "t2", "g", <<".">>)}
  IN  {S \in SUBSET sns : Cardinality(S) <= 3}
TreeNodes ==
  [name : {"a", "b"}, type : {"dir", "file", "other"}, links : {1, 2}, inode : {1, 2}, nodes : {<<>>}]
DotDir(n) == [name |-> ".", type |-> "dir", links |-> 1, inode |-> 1, nodes |-> <<n>>]
DirInputs == {<<a, b>> : a \in TreeNodes, b \in TreeNodes} \cup {<<DotDir(a), b>> : a \in TreeNodes, b \in TreeNodes}
ReadInputs ==
  [blobs : UNION {[1..n -> {<<>>, <<1>>, <<2, 3>>}] : n \in 0..3}, offset : 0..6, size : 0..3]

-----------------------------------------------------------------------------
(* The tree that is dumped.                                                *)

DumpNode(t, c, top_) == [type |-> t, content |-> c, top |-> top_]
SixNodes ==
  <<DumpNode("file", <<"a", "b">>, TRUE), DumpNode("dir", <<>>, TRUE), DumpNode("file", <<"c", "a", "d">>, FALSE),
    DumpNode("fifo", <<>>, FALSE), DumpNode("file", <<"a", "b", "c">>, FALSE), DumpNode("symlink", <<>>, TRUE)>>
FourLengths == ("a" :> 1) @@ ("b" :> 2) @@ ("c" :> 1) @@ ("d" :> 6)

-----------------------------------------------------------------------------

(* Patterns, lists of them, and the paths they are matched with.           *)

SeqsTo(S, n) == UNION {[1 .. k -> S] : k \in 1 .. n}
Rooted(S) == S \cup {<<"/">> \o s : s \in S}
MatchInputs == Rooted(SeqsTo({"a", "*", "**"}, 3) \cup SeqsTo({"a", "**"}, 4) \cup SeqsTo({"a", "[", "**"}, 2))
ListParts ==
  {<<"a">>, <<"/", "a">>, <<"/", "a", "**">>, <<"b", "*">>, <<"/", "*", "b">>, <<"**", "b">>, <<"/", "**", "a">>, <<"[">>}
ListInputs ==
  LET pats(some, negated) == [parts : some, isNegated : negated]
      last == pats({<<"a">>, <<"/", "a", "**">>}, BOOLEAN)
  IN  SeqsTo(pats(ListParts, BOOLEAN), 2) \cup
      {<<p, q, r>> : p \in pats(ListParts, {FALSE}), q \in pats(ListParts, {TRUE}), r \in last}
PathInputs == Rooted(SeqsTo({"a", "b"}, 2)) \cup [1 .. 3 -> {"a", "b"}] \cup {<<"/">>, <<"/", "a", "b", "a">>}
DeeperPaths == {<<>>, <<"a">>, <<"b">>, <<"b", "a">>}

-----------------------------------------------------------------------------

Inputs ==
  [match |-> MatchInputs, patterns |-> ListInputs] @@
  [node |-> NodeInputs, equals |-> EqualsInputs, dirs |-> MountInputs, dir |-> DirInputs, read |-> ReadInputs] @@
  [m \in {"files", "tree", "verify", "mount", "dump"} |-> {<<>>}]

mcVars == <<model, arg, vars, treeVars, verifyVars, mountVars, dumpVars>>

MCInit ==
  /\ model \in DOMAIN Inputs
  /\ arg \in Inputs[model]
  /\ Init /\ RestoreTreeInit /\ VerifyInit /\ MountInit /\ DumpInit

MCNext ==
  \/ model = "files" /\ Next /\ UNCHANGED <<model, arg, treeVars, verifyVars, mountVars, dumpVars>>
  \/ model = "tree" /\ RestoreTreeNext /\ UNCHANGED <<model, arg, vars, verifyVars, mountVars, dumpVars>>
  \/ model = "verify" /\ VerifyNext /\ UNCHANGED <<model, arg, vars, treeVars, mountVars, dumpVars>>
  \/ model = "mount" /\ MountNext /\ UNCHANGED <<model, arg, vars, treeVars, verifyVars, dumpVars>>
  \/ model = "dump" /\ DumpNext /\ UNCHANGED <<model, arg, vars, treeVars, verifyVars, mountVars>>

\* The fairness of the models that must end: as long as a goroutine can take a step, one does.
MCFairness ==
  /\ WF_vars(model = "files" /\ ((\E w \in Worker : WorkerStep(w)) \/ LoopEnds \/ Return))
  /\ WF_verifyVars(model = "verify" /\ (SendFile \/ WalkEnds \/ VerifyReturns
                                        \/ \E v \in Verifier : TakeFile(v) \/ CheckFile(v) \/ VerifierEnds(v)))
  /\ WF_dumpVars(model = "dump" /\ (SendNode \/ SenderEnds \/ TakeNode \/ WriteBlob \/ NodeWritten \/ DumpReturns))

MCSpec == MCInit /\ [][MCNext]_mcVars /\ MCFairness

-----------------------------------------------------------------------------
(* Properties *)

\* BackupRestores of NodeFile: what NodeFromFileInfo reads of a file and MarshalJSON saves is what
\* CreateAt and RestoreMetadata give back.
FilesKept == model = "node" => BackupRestores(arg.file, arg.cache)

\* SavedEquals and FixedTime of NodeFile: MarshalJSON and UnmarshalJSON keep a node, whatever bytes
\* its name and target have, and FixTime changes times only as it must.
NodesKept ==
  model = "node" =>
    SavedEquals(NodeFromFileInfo(arg.file, arg.cache)) /\ FixedTime(arg.file.mtime)

\* EqualsExact of NodeFile: Node.Equals is the equality of all fields and of the sets of attributes.
NodesEqual == model = "equals" => EqualsExact(arg.n, arg.m)

\* AllMounted and AllReachable of Mount: makeDirs hides no snapshot behind another one.
SnapshotsMounted == model = "dirs" => AllMounted(arg) /\ AllReachable(arg)

\* LatestIsLatest of Mount: the links that makeDirs adds lead to the latest snapshot.
LatestLinked == model = "dirs" => LatestIsLatest(arg)

\* ListedFound of Mount: ReadDirAll and Lookup of a directory agree, also on inodes.
DirsConsistent == model = "dir" => ListedFound("parent", arg)

\* ReadExact of Mount: openFile.Read returns the bytes that were asked for.
ReadsExact == model = "read" => ReadExact(arg.blobs, arg.offset, arg.size)

\* MatchExact of Filter, with all small paths: a pattern matches what it describes.
MatchesExact == model = "match" => \A s \in PathInputs, d \in DeeperPaths : MatchExact(arg, s, d)

\* ListExact of Filter, with all small paths: the last pattern that matches decides, and no
\* directory is skipped in which something is selected.
ListsExact == model = "patterns" => \A s \in PathInputs, d \in DeeperPaths : ListExact(arg, s, d)

\* A node keeps what matters of a file from the backup to the restore, and Equals tells nodes apart.
NodesExact == FilesKept /\ NodesKept /\ NodesEqual

\* A mounted repository shows what is in it: every snapshot under a name of its own, "latest" for the
\* latest, nothing that cannot be read, and files with their bytes.
MountExact == SnapshotsMounted /\ LatestLinked /\ ShownReadable /\ DirsConsistent /\ ReadsExact

\* Patterns select what they describe, alone and in lists.
PatternsExact == MatchesExact /\ ListsExact

\* restoreFiles returns if no error ends it early, as VerifyFiles and DumpTree do in any case;
\* DumpTree leaves no goroutine behind.
CommandsEnd ==
  <>(/\ model = "files" => cancelled \/ result # "none"
     /\ model = "verify" => verdict # "none"
     /\ model = "dump" => dumped # "none" /\ sender # "run")
=============================================================================
