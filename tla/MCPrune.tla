------------------------------- MODULE MCPrune -------------------------------
(***************************************************************************)
(* The maintenance of a repository, side by side, for TLC: a behaviour is  *)
(* one of the steps of a prune (FindUsedBlobs, Repack, MasterIndex.Save    *)
(* with the removal of files after it), one of a check, one of the search  *)
(* for the latest snapshot, one of Walk, or an input of the functions on   *)
(* snapshots (Snapshots) and on trees (Trees).                             *)
(***************************************************************************)
EXTENDS MCFindUsedBlobs, MCRepack, IndexRewrite, Checker, Snapshots, Trees

VARIABLES
  step,      \* which of the models takes the steps
  arg        \* the input of the functions

\* Two index files share a pack; a third one could not be loaded.
ThreeIndexes == ("i" :> {"p1", "p3", "p4"}) @@ ("j" :> {"p3", "p2", "p5"}) @@ ("k" :> {"p2"})

-----------------------------------------------------------------------------
(* The repository that is checked: pack q is in two indexes, x is in one   *)
(* of the old format.                                                      *)

ThreePacks == ("p" :> <<"r", "t">>) @@ ("q" :> <<"a", "b", "u">>) @@ ("x" :> <<"b">>)
PacksInIndexes == ("i" :> {"p", "q"}) @@ ("j" :> {"q"}) @@ ("k" :> {"x"})
TwoSnapshots == ("s1" :> "r") @@ ("s2" :> "t")
OneSubtree == ("r" :> {"t"}) @@ ("t" :> {})
OneFileEach == ("r" :> {"a"}) @@ ("t" :> {"b"})
AnyDamage ==
  {<<"index", "i">>, <<"index", "j">>, <<"omits", "i", "p", "t">>, <<"omits", "i", "q", "a">>,
   <<"lost", "p">>, <<"short", "q">>, <<"orphan", "p">>, <<"bits", "q", "b">>, <<"bits", "p", "t">>,
   <<"bits", "q", "u">>, <<"snapshot", "s2">>, <<"node", "t">>}

-----------------------------------------------------------------------------
(* The snapshots that are searched, and the arguments of FindAll.          *)

FourSnapshots ==
  (<<1, 1>> :> [time |-> 1, host |-> "h", tags |-> <<"a", "b">>, paths |-> <<"p", "q">>]) @@
  (<<1, 2>> :> [time |-> 2, host |-> "h", tags |-> <<>>, paths |-> <<"q", "p">>]) @@
  (<<2, 1>> :> [time |-> 3, host |-> "g", tags |-> <<"b", "a">>, paths |-> <<"p">>]) @@
  (<<2, 2>> :> [time |-> 3, host |-> "h", tags |-> <<"b">>, paths |-> <<"p", "q">>])
EmptyID == <<>>
SomeFilters ==
  [hosts : {{}, {"h"}}, tags : {{}, {<<"a">>}, {<<"a", "b">>, <<"">>}}, paths : {{}, {"q"}}, limit : {0, 2}]
FindArgs ==
  [kind : {"latest"}, id : {EmptyID}] \cup [kind : {"folder"}, id : {<<1, 1>>}] \cup
  [kind : {"id"}, id : {<<1>>, <<1, 1>>, <<2, 1>>}]

FindAllInputs == [args : UNION {[1..n -> FindArgs] : n \in 1..3}, last : {EmptyID, <<1, 1>>}, empty : BOOLEAN]
SomeTags == UNION {[1..n -> {"a", "b", "c"}] : n \in 0..2}
TagInputs == [tags : {<<>>, <<"a", "b">>, <<"b", "c", "a">>}, added : SomeTags, removed : SomeTags]

-----------------------------------------------------------------------------
(* Policies: times in a calendar with two hours in a day, three days in a  *)
(* week, two days in a month and two months in a year.                     *)

SomeDurations ==
  {ZeroDuration, [ZeroDuration EXCEPT !.h = 3], [ZeroDuration EXCEPT !.d = 1, !.h = 1],
   [ZeroDuration EXCEPT !.m = 1]}
SnapshotList(S) ==
  [i \in 1..Cardinality(S) |->
     LET t == SetToSortSeq(S, <)[i] IN [time |-> t, tags |-> IF t = 3 THEN {"x"} ELSE {}]]
CountPolicies ==
  {[EmptyPolicy EXCEPT !.count[k] = a, !.count[j] = 2] : k \in 1..6, j \in {1, 3, 6}, a \in {-1, 1}}
TimePolicies ==
  {[EmptyPolicy EXCEPT !.withins[k] = a, !.within = b, !.count[k] = 1] :
     k \in {1, 2, 5}, a \in SomeDurations, b \in {ZeroDuration, [ZeroDuration EXCEPT !.h = 3]}}
PolicyInputs ==
  [list : {SnapshotList(S) : S \in {T \in SUBSET {0, 1, 3, 6, 9, 10} : Cardinality(T) \in {0, 2, 4, 5}}},
   p : CountPolicies \cup TimePolicies \cup {EmptyPolicy, [EmptyPolicy EXCEPT !.tags = {{"x"}, {""}}]},
   now : {20, 6}]
DurationInputs == [h : 0..2, d : 0..2, m : 0..2, y : 0..2]

-----------------------------------------------------------------------------
(* Trees that are rewritten: some of them share a subtree, one cannot be   *)
(* loaded, one is not in order.                                            *)

T1 == <<File(1), File(2)>>
T2 == <<File(1)>>
T3 == <<Dir(1, T1), File(2)>>
T4 == <<Dir(1, T1), Dir(2, T3), Dir(3, T2)>>
T5 == <<File(2), File(1)>>
T6 == <<Dir(1, T3), Dir(2, T5)>>
T7 == <<Dir(2, T1), Dir(3, T1)>>
LoadedTrees == {T1, T3, T4, T5, T6, T7}
OneTree == {T1}
RewriteInputs ==
  [opts : [remove : SUBSET {<<1>>, <<2, 1>>, <<3, 2>>}, byName : BOOLEAN, cache : BOOLEAN, lossy : BOOLEAN,
           repair : BOOLEAN, failing : {{}, {T2}, {<<>>}}],
   first : {T2, T4, T7}, tree : {T4, T6, T7}]
InsertInputs == [nodes : UNION {[1..n -> {File(k) : k \in 1..4}] : n \in 1..4}, name : 1..4]

\* The tree that is walked has a directory twice, an empty one, one that cannot be loaded and one
\* with a malformed node.
WNode(n, type, sub) == [name |-> n, type |-> type, sub |-> sub]
WalkedTrees ==
  ("r" :> <<WNode(1, "dir", "a"), WNode(2, "dir", "a"), WNode(3, "dir", "e"), WNode(4, "dir", "u"),
            WNode(5, "dir", "x")>>) @@
  ("a" :> <<WNode(1, "file", ""), WNode(2, "dir", "b")>>) @@
  ("b" :> <<WNode(1, "file", "")>>) @@ ("e" :> <<>>) @@ ("u" :> <<>>) @@ ("x" :> <<WNode(1, "broken", "")>>)

-----------------------------------------------------------------------------
maintVars == <<ckVars, findVars, walkVars, arg>>
mcVars == <<step, vars, repackVars, rewriteVars, maintVars>>

Steps == {"find", "repack", "index", "check", "latest", "walk"}

Inputs ==
  [policy |-> PolicyInputs, duration |-> DurationInputs, findall |-> FindAllInputs, tags |-> TagInputs,
   group |-> SUBSET {"host", "path", "tag"}, rewrite |-> RewriteInputs, insert |-> InsertInputs]

MCInit ==
  /\ \/ step \in Steps /\ arg = 0
     \/ step \in DOMAIN Inputs /\ arg \in Inputs[step]
  /\ Init /\ RepackInit /\ RewriteInit /\ WalkInit
  /\ IF step = "check" THEN CkInit ELSE CkInit /\ damage = {}
  /\ IF step = "latest" THEN FindInit ELSE FindInit /\ snFilter = CHOOSE f \in Filters : TRUE

MCNext ==
  \/ step = "find" /\ Next /\ UNCHANGED <<step, repackVars, rewriteVars, maintVars>>
  \/ step = "repack" /\ RepackNext /\ UNCHANGED <<step, vars, rewriteVars, maintVars>>
  \/ step = "index" /\ RewriteNext /\ UNCHANGED <<step, vars, repackVars, maintVars>>
  \/ step = "check" /\ CkNext /\ UNCHANGED <<step, vars, repackVars, rewriteVars, findVars, walkVars, arg>>
  \/ step = "latest" /\ FindNext /\ UNCHANGED <<step, vars, repackVars, rewriteVars, ckVars, walkVars, arg>>
  \/ step = "walk" /\ WalkNext /\ UNCHANGED <<step, vars, repackVars, rewriteVars, ckVars, findVars, arg>>

Find(A) == step = "find" /\ A /\ UNCHANGED <<step, repackVars, rewriteVars, maintVars>>
Copy(A) == step = "repack" /\ A /\ UNCHANGED <<step, vars, rewriteVars, maintVars>>
Rewrite(A) == step = "index" /\ A /\ UNCHANGED <<step, vars, repackVars, maintVars>>
Check(A) == step = "check" /\ A /\ UNCHANGED <<step, vars, repackVars, rewriteVars, findVars, walkVars, arg>>

\* The fairness of each model.
MCFairness ==
  /\ WF_mcVars(Find(FilterStep /\ UNCHANGED <<visited, reader, result>>))
  /\ \A l \in Worker : WF_mcVars(Find(LoaderStep(l) /\ UNCHANGED <<visited, reader, result>>))
  /\ WF_mcVars(Find(ReaderStep)) /\ WF_mcVars(Find(Return))
  /\ \A w \in Downloaders : SF_mcVars(Copy(WorkerStep(w)))
  /\ SF_mcVars(Copy(UploadStep))
  /\ WF_mcVars(Copy(RepackEndStep \/ \E p \in OldPack : OfferPack(p)))
  /\ WF_mcVars(Rewrite(BuildStep)) /\ WF_mcVars(Rewrite(SaverStep))
  /\ WF_mcVars(Check(CkStep))

MCSpec == MCInit /\ [][MCNext]_mcVars /\ MCFairness

-----------------------------------------------------------------------------
(* The properties of the functions, for their inputs.                      *)

\* PolicyExact of Snapshots: ApplyPolicy keeps the latest snapshot of each of the last n
\* periods, those within a duration and those with a tag, and removes all others.
PoliciesExact == step = "policy" => PolicyExact(arg.list, arg.p, arg.now)

\* DurationRoundTrip of Snapshots: ParseDuration reads what Duration.String writes.
DurationsRead == step = "duration" => DurationRoundTrip(arg)

\* FindAllExact of Snapshots: FindAll passes on every snapshot that an argument names, and an
\* error for every argument that names none, in whatever order and however often they are given.
FoundAll == step = "findall" => FindAllExact(arg.args, arg.last, arg.empty)

\* TagsExact of Snapshots: after AddTags and RemoveTags a snapshot has each tag that was not
\* removed once, although RemoveTags puts the last tag in the place of the removed one.
TagsChanged == step = "tags" => TagsExact(arg.tags, arg.added, arg.removed)

\* GroupsExact of Snapshots: GroupSnapshots puts each snapshot into one group, and two into the
\* same one exactly if the host, the tags and the paths that it groups by agree as sets.
Grouped == step = "group" => GroupsExact(SetToSeq(DOMAIN SnapFiles), arg)

\* RewriteExact of Trees: RewriteTree drops exactly what is to be removed, below trees that occur
\* several times as well, of which it rewrites only the first, in this tree or the one before it.
Rewritten == step = "rewrite" => RewriteExact(arg.opts, arg.first, arg.tree)

\* RewriteSaved of Trees: if RewriteTree succeeds, all trees under the one it returns are stored.
RewrittenSaved == step = "rewrite" => RewriteSaved(arg.opts, arg.first, arg.tree)

\* FindExact of Trees: Insert keeps the nodes of a tree sorted, whatever the order of the calls,
\* and refuses a name that is there; find, a binary search, finds exactly what was inserted.
InsertedFound == step = "insert" => FindExact(arg.nodes, arg.name)

\* What forget decides on is right: findLatest and FindAll find the snapshots that are meant, groups,
\* tags and durations are those that were asked for, and a policy keeps what it says.
SnapshotsExact == LatestExact /\ FoundAll /\ TagsChanged /\ Grouped /\ PoliciesExact /\ DurationsRead

\* Trees are changed and traversed without losing a node: Insert and find, RewriteTree with trees
\* that are shared, and Walk with a callback that skips and ignores.
TreesExact == Rewritten /\ RewrittenSaved /\ InsertedFound /\ WalkComplete /\ IgnoredJustified

\* FindUsedBlobs, Repack, MasterIndex.Save and a check return, whatever fails and whenever they
\* are cancelled.  One case is excepted, in which the code does not return: a check that is
\* cancelled while it loads the snapshots and abandons them (phase "stuck" of Checker).
StepsEnd ==
  <>(/\ step = "find" => result # "none"
     /\ step = "repack" => outcome # "none"
     /\ step = "index" => saveResult # "none"
     /\ step = "check" => phase \in {"done", "stuck"})
=============================================================================
