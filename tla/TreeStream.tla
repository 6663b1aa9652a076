------------------------------ MODULE TreeStream ------------------------------
(***************************************************************************)
(* StreamTrees: restic/tree_stream.go.                                     *)
(*                                                                         *)
(* The filter goroutine keeps a stack of tree IDs, gives those it has not  *)
(* seen to loaders, puts the subtrees of a loaded tree on the stack, and   *)
(* passes the tree on.  Huge trees have a buffered queue and a loader of   *)
(* their own; the other channels are unbuffered.  Who reads the stream is  *)
(* left to the modules that extend this one.  Null IDs of subtrees, which  *)
(* the filter drops, are not part of Subtrees.                             *)
(***************************************************************************)
EXTENDS Naturals, Sequences, FiniteSets

CONSTANTS
  Tree,            \* the IDs of trees
  Subtrees,        \* the sequence of subtrees of each tree
  Huge,            \* the trees of more than 50 MiB
  Roots,           \* the sequence of trees to start with
  Seen,            \* the trees that skip knows before the start
  Loader,          \* the goroutines that read loaderChan
  HugeLoader,      \* the one that reads hugeTreeChan
  HugeCap,         \* the capacity of hugeTreeChan
  None,            \* nil
  Faults           \* what may happen: "load" (LoadTree fails), "cancel" (by the user)

Worker == Loader \cup {HugeLoader}

ASSUME StreamAssumption ==
  /\ Subtrees \in [Tree -> Seq(Tree)]
  /\ Huge \subseteq Tree
  /\ Roots \in Seq(Tree)
  /\ Seen \subseteq Tree
  /\ IsFiniteSet(Worker)
  /\ HugeLoader \notin Loader
  /\ HugeCap \in Nat \ {0}
  /\ Faults \subseteq {"load", "cancel"}

Root == 1 .. Len(Roots)

\* trackedID, and the TreeItem that goes to the reader of the stream.
Job == [id : Tree, root : Root]
Item == [id : Tree, res : {"tree", "error"}]

ASSUME NoneAssumption == None \notin Job /\ None \notin Item

VARIABLES
  seen,            \* the trees for which skip returns true
  backlog,         \* the stack of the filter
  next,            \* what it wants to send to a loader (None: loadCh is nil)
  outstanding,     \* outstandingLoadTreeJobs
  outbox,          \* what it wants to send to the reader (None: outCh is nil)
  input,           \* whether it still reads loadedTreeChan
  counter,         \* rootCounter
  bars,            \* how often the progress counter was advanced for each root
  filter,          \* whether the filter is running
  hugeQ,           \* the jobs in hugeTreeChan
  loader,          \* what each loader is doing
  held,            \* the job it has
  cancelled        \* whether the context is cancelled

filterVars == <<seen, backlog, next, outstanding, outbox, input, counter, bars, filter>>
streamVars == <<filterVars, hugeQ, loader, held, cancelled>>

StreamTypeOK ==
  /\ seen \subseteq Tree
  /\ backlog \in Seq(Job)
  /\ next \in Job \cup {None}
  /\ outstanding \in Nat
  /\ outbox \in Item \cup {None}
  /\ input \in {"open", "closed"}
  /\ counter \in [Root -> Nat]
  /\ bars \in [Root -> Nat]
  /\ filter \in {"run", "done"}
  /\ hugeQ \in Seq(Job)
  /\ Len(hugeQ) <= HugeCap
  /\ loader \in [Worker -> {"idle", "load", "tree", "error", "done"}]
  /\ held \in [Worker -> Job \cup {None}]
  /\ cancelled \in BOOLEAN

StreamInit ==
  /\ seen = Seen
  /\ backlog = [r \in Root |-> [id |-> Roots[r], root |-> r]]
  /\ next = None
  /\ outstanding = 0
  /\ outbox = None
  /\ input = "open"
  /\ counter = [r \in Root |-> 1]
  /\ bars = [r \in Root |-> 0]
  /\ filter = "run"
  /\ hugeQ = <<>>
  /\ loader = [l \in Worker |-> "idle"]
  /\ held = [l \in Worker |-> None]
  /\ cancelled = FALSE

-----------------------------------------------------------------------------
(* The filter *)

\* The counter of root r becomes n; at zero the root is done.
CountRoot(r, n) ==
  /\ counter' = [counter EXCEPT ![r] = n]
  /\ bars' = [bars EXCEPT ![r] = IF n = 0 THEN @ + 1 ELSE @]

\* Mutant of NextTree: skip is not asked.
NextTreeForgets ==
  /\ filter = "run"
  /\ next = None
  /\ backlog # <<>>
  /\ backlog' = SubSeq(backlog, 1, Len(backlog) - 1)
  /\ next' = backlog[Len(backlog)]
  /\ seen' = seen \cup {backlog[Len(backlog)].id}
  /\ UNCHANGED <<counter, bars, outstanding, outbox, input, filter, hugeQ, loader, held, cancelled>>

\* The last ID of the backlog is skipped, or is the next to be loaded.
NextTree ==
  /\ filter = "run"
  /\ next = None
  /\ backlog # <<>>
  /\ backlog' = SubSeq(backlog, 1, Len(backlog) - 1)
  /\ LET j == backlog[Len(backlog)]
     IN  \/ /\ j.id \in seen
            /\ CountRoot(j.root, counter[j.root] - 1)
            /\ UNCHANGED <<seen, next>>
         \/ /\ j.id \notin seen
            /\ seen' = seen \cup {j.id}
            /\ next' = j
            /\ UNCHANGED <<counter, bars>>
  /\ UNCHANGED <<outstanding, outbox, input, filter, hugeQ, loader, held, cancelled>>

\* The filter has nothing to do any more.
Finished == next = None /\ backlog = <<>> /\ outbox = None /\ outstanding = 0

\* The filter waits in its select statement.
Selecting == filter = "run" /\ (next # None \/ backlog = <<>>) /\ ~Finished

\* next goes to an idle loader.
SendToLoader(l) ==
  /\ Selecting
  /\ next # None
  /\ next.id \notin Huge
  /\ loader[l] = "idle"
  /\ loader' = [loader EXCEPT ![l] = "load"]
  /\ held' = [held EXCEPT ![l] = next]
  /\ next' = None
  /\ outstanding' = outstanding + 1
  /\ UNCHANGED <<seen, backlog, outbox, input, counter, bars, filter, hugeQ, cancelled>>

\* next goes into hugeTreeChan.
SendToHuge ==
  /\ Selecting
  /\ next # None
  /\ next.id \in Huge
  /\ Len(hugeQ) < HugeCap
  /\ hugeQ' = Append(hugeQ, next)
  /\ next' = None
  /\ outstanding' = outstanding + 1
  /\ UNCHANGED <<seen, backlog, outbox, input, counter, bars, filter, loader, held, cancelled>>

\* The backlog s with the subtrees of t, a tree under root r, on top; the first one last.
WithSubtrees(s, t, r) ==
  LET c == Subtrees[t]
      n == Len(s)
  IN  [i \in 1 .. n + Len(c) |->
         IF i <= n THEN s[i] ELSE [id |-> c[n + Len(c) + 1 - i], root |-> r]]

\* The filter receives a tree, or the error, from a loader.
Receive(l) ==
  /\ Selecting
  /\ outbox = None
  /\ input = "open"
  /\ loader[l] \in {"tree", "error"}
  /\ LET j == held[l]
     IN  /\ \/ /\ loader[l] = "tree"
               /\ backlog' = WithSubtrees(backlog, j.id, j.root)
               /\ CountRoot(j.root, counter[j.root] - 1 + Len(Subtrees[j.id]))
            \/ /\ loader[l] = "error"
               /\ CountRoot(j.root, counter[j.root] - 1)
               /\ UNCHANGED backlog
         /\ outbox' = [id |-> j.id, res |-> loader[l]]
  /\ outstanding' = outstanding - 1
  /\ loader' = [loader EXCEPT ![l] = "idle"]
  /\ held' = [held EXCEPT ![l] = None]
  /\ UNCHANGED <<seen, next, input, filter, hugeQ, cancelled>>

LoadersDone == \A l \in Worker : loader[l] = "done"

\* All loaders have returned, so loadedTreeChan is closed: the filter reads it no more.
InputClosed ==
  /\ Selecting
  /\ outbox = None
  /\ input = "open"
  /\ LoadersDone
  /\ input' = "closed"
  /\ UNCHANGED <<seen, backlog, next, outstanding, outbox, counter, bars, filter, hugeQ, loader, held, cancelled>>

\* The part of the filter in sending outbox to the reader of the stream.
Deliver ==
  /\ Selecting
  /\ outbox # None
  /\ outbox' = None
  /\ UNCHANGED <<seen, backlog, next, outstanding, input, counter, bars, filter, hugeQ, loader, held>>

\* The filter returns and closes loaderChan, hugeTreeChan and the stream.
FilterReturns ==
  /\ filter = "run"
  /\ Finished \/ (Selecting /\ cancelled)
  /\ filter' = "done"
  /\ UNCHANGED <<seen, backlog, next, outstanding, outbox, input, counter, bars, hugeQ, loader, held, cancelled>>

-----------------------------------------------------------------------------
(* The loaders *)

\* The loader for huge trees takes a job from its queue, also when that is closed.
TakeHuge ==
  /\ loader[HugeLoader] = "idle"
  /\ hugeQ # <<>>
  /\ loader' = [loader EXCEPT ![HugeLoader] = "load"]
  /\ held' = [held EXCEPT ![HugeLoader] = Head(hugeQ)]
  /\ hugeQ' = Tail(hugeQ)
  /\ UNCHANGED <<filterVars, cancelled>>

\* LoadTree returns a tree or an error.
LoadTree(l) ==
  /\ loader[l] = "load"
  /\ \/ loader' = [loader EXCEPT ![l] = "tree"]
     \/ ("load" \in Faults \/ cancelled) /\ loader' = [loader EXCEPT ![l] = "error"]
  /\ UNCHANGED <<filterVars, hugeQ, held, cancelled>>

\* Mutant of LoaderStops: a loader with a loaded tree does not look at the context.
LoaderStopsIdle(l) ==
  /\ loader[l] = "idle" /\ filter = "done" /\ (l = HugeLoader => hugeQ = <<>>)
  /\ loader' = [loader EXCEPT ![l] = "done"]
  /\ held' = [held EXCEPT ![l] = None]
  /\ UNCHANGED <<filterVars, hugeQ, cancelled>>

\* loadTreeWorker returns when its channel is closed and empty, or the context is cancelled.
LoaderStops(l) ==
  /\ \/ loader[l] = "idle" /\ filter = "done" /\ (l = HugeLoader => hugeQ = <<>>)
     \/ loader[l] \in {"tree", "error"} /\ cancelled
  /\ loader' = [loader EXCEPT ![l] = "done"]
  /\ held' = [held EXCEPT ![l] = None]
  /\ UNCHANGED <<filterVars, hugeQ, cancelled>>

-----------------------------------------------------------------------------

FilterStep ==
  \/ NextTree
  \/ \E l \in Loader : SendToLoader(l)
  \/ SendToHuge
  \/ \E l \in Worker : Receive(l)
  \/ InputClosed
  \/ FilterReturns

LoaderStep(l) == LoadTree(l) \/ LoaderStops(l) \/ (l = HugeLoader /\ TakeHuge)

StreamNext == FilterStep \/ \E l \in Worker : LoaderStep(l)

StreamDone == filter = "done" /\ LoadersDone

-----------------------------------------------------------------------------

\* Where the stream has tree t, on its way from the backlog to the reader.
PlacesOf(t) ==
  {<<"next", 0>> : x \in {y \in {0} : next # None /\ next.id = t}}
  \cup {<<"huge", i>> : i \in {i \in 1 .. Len(hugeQ) : hugeQ[i].id = t}}
  \cup {<<"loader", l>> : l \in {l \in Worker : held[l] # None /\ held[l].id = t}}
  \cup {<<"outbox", 0>> : x \in {y \in {0} : outbox # None /\ outbox.id = t}}
=============================================================================
