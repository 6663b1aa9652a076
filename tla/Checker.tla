------------------------------- MODULE Checker -------------------------------
(***************************************************************************)
(* internal/checker/checker.go: the check of a repository in its phases,   *)
(* LoadIndex, Packs, Structure, UnusedBlobs and ReadPacks, on a repository *)
(* in which some things are damaged.  A channel of errors whose receiver   *)
(* reads until it is closed is only whether an error has been sent.        *)
(*                                                                         *)
(* A blob has length 1 in a pack; a pack is the sequence of its blobs.     *)
(* StreamTrees gives out every tree once (TreeStream); loading a blob      *)
(* tries all packs that the index lists for it.                            *)
(***************************************************************************)
EXTENDS Naturals, FiniteSets, SequencesExt

CONSTANTS
  CkPack,         \* pack -> sequence of its blobs
  CkIndex,        \* index file -> set of the packs it lists
  CkSnapshot,     \* snapshot -> its tree
  CkSubtrees,     \* tree -> set of its subtrees
  CkContent,      \* tree -> set of data blobs of its files
  OldFormat,      \* index files in the old format
  Damages,        \* what may be damaged, see below
  MaxDamage,      \* bound: the number of things that are damaged
  TreeChecker,    \* the goroutines that run checkTreeWorker
  PackChecker,    \* the workers of ReadPacks
  CkFaults,       \* a subset of {"load", "cancel"}
  Nothing         \* a worker without a job

\* Damages are tuples: <<"index", i>> (the file cannot be decoded), <<"omits", i, p, b>> (i lacks
\* the entry of p for b), <<"lost", p>>, <<"short", p>> (the end of the file is missing),
\* <<"bits", p, b>> (the data of b), <<"orphan", p>> (no index lists p), <<"snapshot", s>>,
\* <<"node", t>> (checkTree finds a malformed node in t).

VARIABLES
  damage,         \* what is damaged
  phase,          \* the phase of the check, "stuck" if the receiver waits for ever
  waiting,        \* what the phase has left: index files, packs, snapshots or trees
  readIdx,        \* index files that have been loaded
  found,          \* whether an error has been returned or sent
  refs,           \* blobRefs
  job,            \* what the workers have: Nothing, <<tree or pack, whether it loads>>, or <<"stopped">>
  unused,         \* the result of UnusedBlobs
  ckFailed,       \* whether the backend has failed
  ckCancelled

ckVars == <<damage, phase, waiting, readIdx, found, refs, job, unused, ckFailed, ckCancelled>>

StoppedWorker == <<"stopped">>

\* What the files and packs hold.
EntriesOfIndex(i) ==
  UNION {{[pack |-> p, blob |-> CkPack[p][n], off |-> n] :
            n \in {m \in DOMAIN CkPack[p] : <<"omits", i, p, CkPack[p][m]>> \notin damage}} :
          p \in {q \in CkIndex[i] : <<"orphan", q>> \notin damage}}
Stored == {p \in DOMAIN CkPack : <<"lost", p>> \notin damage}
BlobReadable(p, b) == p \in Stored /\ <<"bits", p, b>> \notin damage
FileSize(p) == Len(CkPack[p]) - (IF <<"short", p>> \in damage THEN 1 ELSE 0)

\* The masterIndex: the indexes with an ID are merged, which removes duplicates.
MergedEntries == UNION {EntriesOfIndex(i) : i \in readIdx \ OldFormat}
CkIndexed == UNION {EntriesOfIndex(i) : i \in readIdx}
PackEntries(es, p) == {e \in es : e.pack = p}

\* pack.Size, and the packs it is computed for, c.packs.
CkSize(p) ==
  FoldLeft(LAMBDA n, i : n + Cardinality(PackEntries(EntriesOfIndex(i), p)),
           Cardinality(PackEntries(MergedEntries, p)), SetToSeq(readIdx \cap OldFormat))
CkPacks == {e.pack : e \in CkIndexed}

-----------------------------------------------------------------------------
CkInit ==
  /\ damage \in {d \in SUBSET Damages : Cardinality(d) <= MaxDamage}
  /\ phase = "index" /\ waiting = DOMAIN CkIndex
  /\ readIdx = {} /\ found = FALSE /\ refs = {} /\ unused = {}
  /\ job = [w \in TreeChecker \cup PackChecker |-> Nothing]
  /\ ckFailed = FALSE /\ ckCancelled = FALSE

CancelCheck ==
  /\ "cancel" \in CkFaults /\ ~ckCancelled /\ phase \notin {"done", "stuck"}
  /\ ckCancelled' = TRUE
  /\ UNCHANGED <<damage, phase, waiting, readIdx, found, refs, job, unused, ckFailed>>

\* A load fails although what it loads is stored; once is enough.
LoadWorks(ok) == (ok \/ ("load" \in CkFaults /\ ~ckFailed)) /\ ckFailed' = (ckFailed \/ ~ok)

\* The callback of ForAllIndexes.
CheckIndexFile(i) ==
  /\ phase = "index" /\ i \in waiting /\ ~ckCancelled
  /\ waiting' = waiting \ {i}
  /\ \E ok \in BOOLEAN :
       /\ LoadWorks(ok)
       /\ IF ok /\ <<"index", i>> \notin damage
            THEN readIdx' = readIdx \cup {i} /\ UNCHANGED found
            ELSE found' = TRUE /\ UNCHANGED readIdx
  /\ UNCHANGED <<damage, phase, refs, job, unused, ckCancelled>>

\* The hints that LoadIndex returns.
CkHints ==
  {<<"old", i>> : i \in readIdx \cap OldFormat} \cup
  {<<"twice", p>> : p \in
     {q \in CkPacks : Cardinality({i \in readIdx : PackEntries(EntriesOfIndex(i), q) # {}}) > 1}}

\* The end of LoadIndex: c.packs is complete.
LoadIndexDone ==
  /\ phase = "index" /\ (waiting = {} \/ ckCancelled)
  /\ found' = (found \/ ckCancelled)
  /\ phase' = "packs" /\ waiting' = CkPacks \cup Stored
  /\ UNCHANGED <<damage, readIdx, refs, job, unused, ckFailed, ckCancelled>>

\* Packs: a pack is missing, has the wrong size, or is in no index.
PackErrors(p) ==
  {k \in {"missing", "size", "orphan"} :
     \/ k = "missing" /\ p \in CkPacks /\ p \notin Stored
     \/ k = "size" /\ p \in CkPacks /\ p \in Stored /\ CkSize(p) # FileSize(p)
     \/ k = "orphan" /\ p \notin CkPacks}

CheckPackFile(p) ==
  /\ phase = "packs" /\ p \in waiting
  /\ waiting' = waiting \ {p}
  /\ found' = (found \/ PackErrors(p) # {})
  /\ UNCHANGED <<damage, phase, readIdx, refs, job, unused, ckFailed, ckCancelled>>

\* The packs cannot be listed: the error is sent, and the packs of the index seem to be missing.
PacksUnlisted ==
  /\ phase = "packs" /\ waiting = CkPacks \cup Stored /\ LoadWorks(FALSE)
  /\ found' = TRUE
  /\ waiting' = {}
  /\ UNCHANGED <<damage, phase, readIdx, refs, job, unused, ckCancelled>>

\* Packs returns when it has checked all packs, or when it would wait with a cancelled context.
PacksDone ==
  /\ phase = "packs"
  /\ waiting = {} \/ (ckCancelled /\ \E p \in waiting : PackErrors(p) # {})
  /\ phase' = "snapshots" /\ waiting' = DOMAIN CkSnapshot
  /\ UNCHANGED <<damage, readIdx, found, refs, job, unused, ckFailed, ckCancelled>>

-----------------------------------------------------------------------------
(* Structure.  While snapshots are loaded, refs collects their trees.      *)

\* The callback of loadSnapshotTreeIDs.
CheckSnapshot(s) ==
  /\ phase = "snapshots" /\ s \in waiting /\ ~ckCancelled
  /\ waiting' = waiting \ {s}
  /\ \E ok \in BOOLEAN :
       /\ LoadWorks(ok)
       /\ IF ok /\ <<"snapshot", s>> \notin damage
            THEN refs' = refs \cup {CkSnapshot[s]} /\ UNCHANGED found
            ELSE found' = TRUE /\ UNCHANGED refs
  /\ UNCHANGED <<damage, phase, readIdx, job, unused, ckCancelled>>

SnapshotsDone ==
  /\ phase = "snapshots" /\ (waiting = {} \/ ckCancelled)
  /\ found' = (found \/ ckCancelled)
  /\ phase' = "trees" /\ waiting' = refs /\ refs' = {}
  /\ UNCHANGED <<damage, readIdx, job, unused, ckFailed, ckCancelled>>

\* Structure returns before it has deferred the closing of errChan.
SnapshotsAbandoned ==
  /\ phase = "snapshots" /\ ckCancelled
  /\ phase' = "stuck"
  /\ UNCHANGED <<damage, waiting, readIdx, found, refs, job, unused, ckFailed, ckCancelled>>

\* The stream hands a tree, loaded or with an error, to a worker.
TakeTree(w, t) ==
  /\ phase = "trees" /\ job[w] = Nothing /\ t \in waiting
  /\ \E ok \in BOOLEAN :
       LET loaded == ok /\ \E e \in CkIndexed : e.blob = t /\ BlobReadable(e.pack, t)
       IN /\ LoadWorks(ok)
          /\ job' = [job EXCEPT ![w] = <<t, loaded>>]
          /\ refs' = refs \cup {t}
          /\ waiting' = (waiting \cup (IF loaded THEN CkSubtrees[t] ELSE {})) \ (refs \cup {t})
  /\ UNCHANGED <<damage, phase, readIdx, found, unused, ckCancelled>>

\* checkTree.
TreeBad(t) == <<"node", t>> \in damage \/ \E b \in CkContent[t] : \A e \in CkIndexed : e.blob # b

\* checkTreeWorker: the blobs of the tree's files are marked; errors are sent, unless the
\* context is cancelled.
CheckTree(w) ==
  /\ phase = "trees" /\ job[w] \notin {Nothing, StoppedWorker}
  /\ LET t == job[w][1]
         bad == ~job[w][2] \/ TreeBad(t)
     IN /\ refs' = IF job[w][2] THEN refs \cup CkContent[t] ELSE refs
        /\ \/ found' = (found \/ bad) /\ job' = [job EXCEPT ![w] = Nothing]
           \/ bad /\ ckCancelled /\ job' = [job EXCEPT ![w] = StoppedWorker] /\ UNCHANGED found
  /\ UNCHANGED <<damage, phase, waiting, readIdx, unused, ckFailed, ckCancelled>>

\* Structure closes errChan; then UnusedBlobs is called.
StructureDone ==
  /\ phase = "trees" /\ (waiting = {} \/ ckCancelled)
  /\ \A w \in TreeChecker : job[w] \in {Nothing, StoppedWorker}
  /\ unused' = {e.blob : e \in CkIndexed} \ refs
  /\ phase' = "read" /\ waiting' = CkPacks
  /\ UNCHANGED <<damage, readIdx, found, refs, job, ckFailed, ckCancelled>>

-----------------------------------------------------------------------------
(* ReadPacks.                                                              *)

\* checkPack that does not look at the data.
PackBadUnread(p) ==
  \/ {e.off : e \in PackEntries(CkIndexed, p)} # 1..CkSize(p)
  \/ p \notin Stored \/ <<"short", p>> \in damage

\* checkPack: the entries of the index have gaps or overlaps, the pack cannot be loaded or
\* is not what its ID says, or its header has other blobs than the index.
PackBad(p) ==
  \/ {e.off : e \in PackEntries(CkIndexed, p)} # 1..CkSize(p)
  \/ p \notin Stored \/ <<"short", p>> \in damage
  \/ \E b \in Range(CkPack[p]) : ~BlobReadable(p, b)
  \/ CkSize(p) # Len(CkPack[p])
  \/ \E n \in DOMAIN CkPack[p] : [pack |-> p, blob |-> CkPack[p][n], off |-> n] \notin CkIndexed

TakePackToRead(w, p) ==
  /\ phase = "read" /\ job[w] = Nothing /\ p \in waiting
  /\ \E ok \in BOOLEAN : LoadWorks(ok) /\ job' = [job EXCEPT ![w] = <<p, ok>>]
  /\ waiting' = waiting \ {p}
  /\ UNCHANGED <<damage, phase, readIdx, found, refs, unused, ckCancelled>>

ReadPack(w) ==
  /\ phase = "read" /\ job[w] \notin {Nothing, StoppedWorker}
  /\ LET p == job[w][1]
         bad == ~job[w][2] \/ PackBad(p)
     IN \/ found' = (found \/ bad) /\ job' = [job EXCEPT ![w] = Nothing]
        \/ bad /\ ckCancelled /\ job' = [job EXCEPT ![w] = StoppedWorker] /\ UNCHANGED found
  /\ UNCHANGED <<damage, phase, waiting, readIdx, refs, unused, ckFailed, ckCancelled>>

ReadPacksDone ==
  /\ phase = "read" /\ (waiting = {} \/ ckCancelled)
  /\ \A w \in PackChecker : job[w] \in {Nothing, StoppedWorker}
  /\ phase' = "done"
  /\ UNCHANGED <<damage, waiting, readIdx, found, refs, job, unused, ckFailed, ckCancelled>>

-----------------------------------------------------------------------------
LoadStep == (\E i \in DOMAIN CkIndex : CheckIndexFile(i)) \/ LoadIndexDone
PacksStep == (\E p \in DOMAIN CkPack : CheckPackFile(p)) \/ PacksUnlisted \/ PacksDone
SnapshotsStep == (\E s \in DOMAIN CkSnapshot : CheckSnapshot(s)) \/ SnapshotsDone \/ SnapshotsAbandoned
TreeStep(w) == (\E t \in DOMAIN CkSubtrees : TakeTree(w, t)) \/ CheckTree(w)
ReadStep(w) == (\E p \in DOMAIN CkPack : TakePackToRead(w, p)) \/ ReadPack(w)

CkStep ==
  \/ LoadStep \/ PacksStep \/ SnapshotsStep \/ StructureDone \/ ReadPacksDone
  \/ \E w \in TreeChecker : TreeStep(w)
  \/ \E w \in PackChecker : ReadStep(w)

CkNext == CkStep \/ CancelCheck

-----------------------------------------------------------------------------
CkTypeOK ==
  /\ phase \in {"index", "packs", "snapshots", "trees", "read", "done", "stuck"}
  /\ readIdx \subseteq DOMAIN CkIndex
  /\ \A w \in DOMAIN job : job[w] \in {Nothing, StoppedWorker} \cup ((DOMAIN CkSubtrees \cup DOMAIN CkPack) \X BOOLEAN)

\* The trees that the snapshots lead to, and the blobs of these trees.
ReachableTrees ==
  LET roots == Range(CkSnapshot)
      closed == {T \in SUBSET DOMAIN CkSubtrees : roots \subseteq T /\ \A t \in T : CkSubtrees[t] \subseteq T}
  IN {t \in DOMAIN CkSubtrees : \A T \in closed : t \in T}
Reachable == ReachableTrees \cup UNION {CkContent[t] : t \in ReachableTrees}

\* Every snapshot can be restored by whoever opens the repository: its blobs are where some
\* index file says, and no index file leads anyone to a blob that is not there.
RepositorySound ==
  /\ \A b \in Reachable : \E i \in DOMAIN CkIndex, e \in UNION {EntriesOfIndex(j) : j \in DOMAIN CkIndex} :
       <<"index", i>> \notin damage /\ e \in EntriesOfIndex(i) /\ e.blob = b
  /\ \A i \in DOMAIN CkIndex : <<"index", i>> \notin damage /\ \A e \in EntriesOfIndex(i) : BlobReadable(e.pack, e.blob)
  /\ \A s \in DOMAIN CkSnapshot : <<"snapshot", s>> \notin damage
  /\ \A t \in ReachableTrees : <<"node", t>> \notin damage

CheckComplete == phase = "done" /\ ~ckCancelled

\* A check that runs to its end without an error means that every snapshot is complete and
\* that every blob in the index can be read, whatever is damaged and whichever worker gets it.
CheckSound == CheckComplete /\ ~found => RepositorySound

\* A check of a repository that is not damaged finds no error, although packs are in several
\* indexes and indexes have the old format (a pack with both hints is counted twice by pack.Size).
CheckQuiet ==
  /\ damage = {} /\ ~ckFailed /\ ~ckCancelled
  /\ \A i \in OldFormat, p \in DOMAIN CkPack : <<"twice", p>> \in CkHints => p \notin CkIndex[i]
  => ~found

\* If no error was found, UnusedBlobs returns exactly the blobs that no snapshot leads to: the
\* marks of the workers and of the stream are complete when Structure has returned.
UnusedExact ==
  phase \in {"read", "done"} /\ ~found /\ ~ckCancelled => unused = {e.blob : e \in CkIndexed} \ Reachable

\* The verdict of a check is right: no error means that all snapshots can be restored, a sound
\* repository gives none, and UnusedBlobs names the blobs that no snapshot needs.
CheckExact == CkTypeOK /\ CheckSound /\ CheckQuiet /\ UnusedExact
=============================================================================
