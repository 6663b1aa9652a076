----------------------------- MODULE PruneProofs -----------------------------
(***************************************************************************)
(* Proofs about what a prune may remove.  MasterIndex.Save with the        *)
(* removal of files after it loses nothing, for any index files, packs and *)
(* number of workers; FindUsedBlobs finds all blobs that the snapshots     *)
(* use, for any trees, number of loaders and order of their answers.       *)
(***************************************************************************)
EXTENDS IndexRewrite, FindUsedBlobs, FiniteSetTheorems, SequenceTheorems, TLAPS

-----------------------------------------------------------------------------
(* MasterIndex.Save: the inductive invariant *)

\* As long as nothing fails, a pack that Save wants is on its way or in a new index file.
OnTheWay == ~SaveDone => Wanted \subseteq idxLeft \cup newIndex \cup (UNION saving) \cup (UNION newFiles)

\* What the goroutine that builds the indexes has left behind in each of its phases.
Phases ==
  /\ building = "last" => idxLeft = {}
  /\ building = "closed" /\ ~SaveDone => idxLeft = {} /\ newIndex = {}
  /\ saveResult # "none" => building = "closed" /\ saving = {}
  /\ saveResult = "ok" => ~saveFailed

\* A file is removed only when the new index files are complete.
RemovedLate ==
  oldFiles # OldIndex \/ packFiles # AllPacks => saveResult = "ok" /\ Wanted \subseteq UNION newFiles

\* The caller removes all old index files first, and only packs of packBlacklist.
PacksLast ==
  /\ packFiles # AllPacks => oldFiles = {}
  /\ AllPacks \ (Blacklist \ Reread) \subseteq packFiles

\* An index that is being saved has a worker.
OneWorkerEach == IsFiniteSet(saving) /\ Cardinality(saving) <= savers

IInv == RewriteTypeOK /\ OneWorkerEach /\ OnTheWay /\ Phases /\ RemovedLate /\ PacksLast

\* The packs that are wanted are known.
LEMMA WantedKnown == FinalPacks \subseteq AllPacks /\ Wanted \subseteq AllPacks
BY DEF Wanted, FinalPacks, AllPacks

\* Save begins with all packs left, and nothing is removed yet.
LEMMA IInvInit == ASSUME RewriteInit PROVE IInv
<1>1. RewriteTypeOK
  <2>1. savers \in 0 .. Savers
    BY RewriteAssumption DEF RewriteInit
  <2>2. saving \subseteq SUBSET Wanted /\ newFiles \subseteq SUBSET Wanted /\ newIndex \subseteq Wanted
    BY DEF RewriteInit
  <2> QED
    BY <2>1, <2>2, Zenon DEF RewriteInit, RewriteTypeOK
<1>2. OneWorkerEach
  BY RewriteAssumption, FS_EmptySet DEF RewriteInit, OneWorkerEach
<1>3. OnTheWay
  BY DEF RewriteInit, OnTheWay
<1>4. Phases /\ RemovedLate /\ PacksLast
  BY DEF RewriteInit, Phases, RemovedLate, PacksLast
<1> QED
  BY <1>1, <1>2, <1>3, <1>4 DEF IInv

\* Workers take an index when they are idle, and end with the one they could not save.
LEMMA WorkersStep == ASSUME IInv, [RewriteNext]_rewriteVars PROVE OneWorkerEach'
<1> USE RewriteAssumption DEF IInv, RewriteTypeOK, OneWorkerEach
<1>1. ASSUME SendIndex \/ SendLast PROVE OneWorkerEach'
  <2>1. saving' = saving \cup {newIndex} /\ savers' = savers /\ Cardinality(saving) < savers
    BY <1>1 DEF SendIndex, SendLast, GiveToSaver
  <2>2. IsFiniteSet(saving') /\ (Cardinality(saving') = Cardinality(saving) \/ Cardinality(saving') = Cardinality(saving) + 1)
    BY <2>1, FS_AddElement
  <2>3. Cardinality(saving) \in Nat
    BY FS_CardinalityType
  <2> QED
    BY <2>1, <2>2, <2>3
<1>2. ASSUME NEW i \in saving, SaveIndexFile(i) \/ SaveIndexFails(i) PROVE OneWorkerEach'
  <2>1. saving' = saving \ {i} /\ savers' \in {savers, savers - 1}
    BY <1>2 DEF SaveIndexFile, SaveIndexFails
  <2>2. IsFiniteSet(saving') /\ Cardinality(saving') = Cardinality(saving) - 1
    BY <2>1, FS_RemoveElement
  <2>3. Cardinality(saving) \in Nat
    BY FS_CardinalityType
  <2> QED
    BY <2>1, <2>2, <2>3
<1>3. CASE UNCHANGED <<saving, savers>>
  BY <1>3
<1> QED
  BY <1>1, <1>2, <1>3 DEF RewriteNext, BuildStep, SaverStep, rewriteVars, callerVars, NextPack, NoMorePacks,
     SendIndexCancelled, AllPacksStored, SendLastCancelled, SaveReturns, CancelSave, RemoveIndexFile, RemovePackFile

\* Every step of Save, and every removal of a file, keeps the invariant.
LEMMA IInvStep == ASSUME IInv, [RewriteNext]_rewriteVars PROVE IInv'
<1> DEFINE Rest == RewriteTypeOK /\ OnTheWay /\ Phases /\ RemovedLate /\ PacksLast
<1> USE RewriteAssumption DEF IInv
<1>1. ASSUME NEW p \in AllPacks, NextPack(p) PROVE Rest'
  BY <1>1 DEF NextPack, callerVars, RewriteTypeOK, OnTheWay, SaveDone, Phases, RemovedLate, PacksLast
<1>2. ASSUME NoMorePacks PROVE Rest'
  BY <1>2 DEF NoMorePacks, callerVars, RewriteTypeOK, OnTheWay, SaveDone, Phases, RemovedLate, PacksLast
<1>3. ASSUME SendIndex PROVE Rest'
  BY <1>3 DEF SendIndex, GiveToSaver, callerVars, RewriteTypeOK, OnTheWay, SaveDone, Phases, RemovedLate, PacksLast
<1>4. ASSUME SendIndexCancelled PROVE Rest'
  BY <1>4 DEF SendIndexCancelled, callerVars, RewriteTypeOK, OnTheWay, SaveDone, Phases, RemovedLate, PacksLast
<1>5. ASSUME AllPacksStored PROVE Rest'
  BY <1>5 DEF AllPacksStored, callerVars, RewriteTypeOK, OnTheWay, SaveDone, Phases, RemovedLate, PacksLast
<1>6. ASSUME SendLast PROVE Rest'
  BY <1>6 DEF SendLast, GiveToSaver, callerVars, RewriteTypeOK, OnTheWay, SaveDone, Phases, RemovedLate, PacksLast
<1>7. ASSUME SendLastCancelled PROVE Rest'
  BY <1>7 DEF SendLastCancelled, callerVars, RewriteTypeOK, OnTheWay, SaveDone, Phases, RemovedLate, PacksLast
<1>8. ASSUME NEW i \in saving, SaveIndexFile(i) PROVE Rest'
  BY <1>8 DEF SaveIndexFile, RewriteTypeOK, OnTheWay, SaveDone, Phases, RemovedLate, PacksLast
<1>9. ASSUME NEW i \in saving, SaveIndexFails(i) PROVE Rest'
  <2>1. savers' = savers - 1 /\ savers > 0
    <3>1. Cardinality(saving \ {i}) = Cardinality(saving) - 1 /\ IsFiniteSet(saving \ {i})
      BY <1>9, FS_RemoveElement DEF OneWorkerEach
    <3>2. Cardinality(saving) \in Nat /\ Cardinality(saving \ {i}) \in Nat
      BY <3>1, FS_CardinalityType DEF OneWorkerEach
    <3> QED
      BY <1>9, <3>1, <3>2 DEF SaveIndexFails, OneWorkerEach, RewriteTypeOK
  <2> QED
    BY <1>9, <2>1 DEF SaveIndexFails, callerVars, RewriteTypeOK, OnTheWay, SaveDone, Phases, RemovedLate, PacksLast
<1>10. ASSUME SaveReturns PROVE Rest'
  BY <1>10 DEF SaveReturns, RewriteTypeOK, OnTheWay, SaveDone, Phases, RemovedLate, PacksLast
<1>11. ASSUME CancelSave PROVE Rest'
  BY <1>11 DEF CancelSave, RewriteTypeOK, OnTheWay, SaveDone, Phases, RemovedLate, PacksLast
<1>12. ASSUME NEW i \in OldIndex, RemoveIndexFile(i) PROVE Rest'
  BY <1>12 DEF RemoveIndexFile, MayRemove, RewriteTypeOK, OnTheWay, SaveDone, Phases, RemovedLate, PacksLast
<1>13. ASSUME NEW p \in AllPacks, RemovePackFile(p) PROVE Rest'
  BY <1>13 DEF RemovePackFile, MayRemove, RewriteTypeOK, OnTheWay, SaveDone, Phases, RemovedLate, PacksLast
<1>14. ASSUME UNCHANGED rewriteVars PROVE Rest'
  BY <1>14 DEF rewriteVars, RewriteTypeOK, OnTheWay, SaveDone, Phases, RemovedLate, PacksLast
<1>15. Rest'
  BY <1>1, <1>2, <1>3, <1>4, <1>5, <1>6, <1>7, <1>8, <1>9, <1>10, <1>11, <1>12, <1>13, <1>14
     DEF RewriteNext, BuildStep, SaverStep
<1> QED
  BY <1>15, WorkersStep

\* The invariant implies the properties.
LEMMA IInvMeans == ASSUME IInv PROVE NothingLost /\ NoDanglingEntry /\ SaveComplete
<1> USE DEF IInv
<1>1. FinalPacks \ Blacklist \subseteq packFiles
  BY WantedKnown DEF PacksLast
<1>2. FinalPacks \ Blacklist \subseteq ListedPacks
  <2>1. CASE oldFiles = OldIndex
    BY <2>1 DEF ListedPacks, FinalPacks
  <2>2. CASE oldFiles # OldIndex
    BY <2>2 DEF RemovedLate, ListedPacks, Wanted
  <2> QED
    BY <2>1, <2>2
<1>3. UNION newFiles \subseteq Wanted
  BY DEF RewriteTypeOK
<1>4. NoDanglingEntry
  <2>1. CASE packFiles = AllPacks
    BY <2>1, <1>3, WantedKnown DEF NoDanglingEntry, ListedPacks, AllPacks, RewriteTypeOK
  <2>2. CASE packFiles # AllPacks
    <3>1. ListedPacks \subseteq Wanted
      BY <2>2, <1>3 DEF PacksLast, ListedPacks
    <3>2. Wanted \subseteq packFiles
      BY WantedKnown DEF PacksLast, Wanted
    <3> QED
      BY <3>1, <3>2 DEF NoDanglingEntry
  <2> QED
    BY <2>1, <2>2
<1>5. SaveComplete
  BY <1>3 DEF SaveComplete, OnTheWay, Phases, SaveDone
<1> QED
  BY <1>1, <1>2, <1>4, <1>5 DEF NothingLost

\* Whenever the program stops during MasterIndex.Save or the removal of files after it, the packs
\* that are to be kept are stored and listed; no index file ever lists a pack that the caller has
\* removed, as old index files go first; and a Save that returns nil and was not cancelled has
\* written all packs that it should, and no others.
THEOREM RewriteIsSafe == RewriteSpec => []RewriteSafe
<1>1. IInv => RewriteSafe
  BY IInvMeans DEF IInv, RewriteSafe
<1> QED
  BY IInvInit, IInvStep, <1>1, PTL DEF RewriteSpec

-----------------------------------------------------------------------------
(* FindUsedBlobs: the inductive invariant *)

\* The trees of a sequence of jobs.
Ids(s) == {s[i].id : i \in 1 .. Len(s)}

\* The tree of a job that may be None.
IdOf(x) == IF x = None THEN {} ELSE {x.id}

\* The trees that loaders have, and the loaders that have one, if they hold h.
HeldIds(h) == UNION {IdOf(h[l]) : l \in Worker}
Busy(h) == {l \in Worker : h[l] # None}

\* The trees that are on their way to a loader or at one.
Loading == IdOf(next) \cup Ids(hugeQ) \cup HeldIds(held)

Types ==
  /\ seen \subseteq Tree
  /\ backlog \in Seq(Job)
  /\ next \in Job \cup {None}
  /\ outstanding \in Nat
  /\ outbox \in Item \cup {None}
  /\ hugeQ \in Seq(Job)
  /\ held \in [Worker -> Job \cup {None}]
  /\ loader \in [Worker -> {"idle", "load", "tree", "error", "done"}]
  /\ \A l \in Worker : held[l] # None <=> loader[l] \in {"load", "tree", "error"}

\* No job gets lost uncounted.
Counted == Len(hugeQ) + Cardinality(Busy(held)) <= outstanding

\* A tree of the set is being loaded, or its files are in the set or about to be, and its
\* subtrees are in the set or will be.
Cover ==
  /\ \A r \in Root : Roots[r] \in seen \cup Ids(backlog)
  /\ \A t \in seen \ Seen :
       \/ t \in Loading
       \/ /\ t \in visited \cup IdOf(outbox)
          /\ \A i \in 1 .. Len(Subtrees[t]) : Subtrees[t][i] \in seen \cup Ids(backlog)

\* Nothing has failed so far.
Sound == ~cancelled /\ (outbox # None => outbox.res = "tree")

UsedInv ==
  /\ Types
  /\ Counted
  /\ Sound => Cover
  /\ filter = "done" /\ ~cancelled => Complete
  /\ result # "none" => filter = "done"

-----------------------------------------------------------------------------
(* Sequences of jobs *)

\* NextTree takes the last job off the backlog.
LEMMA PopIds ==
  ASSUME NEW s \in Seq(Job), s # <<>>
  PROVE  /\ s[Len(s)] \in Job
         /\ SubSeq(s, 1, Len(s) - 1) \in Seq(Job)
         /\ Ids(s) = Ids(SubSeq(s, 1, Len(s) - 1)) \cup {s[Len(s)].id}
<1> DEFINE p == SubSeq(s, 1, Len(s) - 1)
<1>1. Len(s) \in Nat \ {0}
  BY EmptySeq, LenProperties
<1>2. p \in Seq(Job) /\ Len(p) = Len(s) - 1 /\ \A i \in 1 .. Len(p) : p[i] = s[i]
  <2> DEFINE n == Len(s) - 1
  <2>1. n \in Nat /\ \A i \in 1 .. n : s[i] \in Job
    BY <1>1, ElementOfSeq
  <2> HIDE DEF n
  <2>2. /\ SubSeq(s, 1, n) \in Seq(Job)
        /\ Len(SubSeq(s, 1, n)) = IF 1 <= n THEN n - 1 + 1 ELSE 0
        /\ \A i \in 1 .. n - 1 + 1 : SubSeq(s, 1, n)[i] = s[1 + i - 1]
    <3>1. 1 \in Int /\ n \in Int
      BY <2>1
    <3> QED
      BY <2>1, <3>1, SubSeqProperties
  <2>3. Len(SubSeq(s, 1, n)) = n
    BY <2>1, <2>2
  <2>4. \A i \in 1 .. n : SubSeq(s, 1, n)[i] = s[i]
    BY <2>1, <2>2
  <2> QED
    BY <2>2, <2>3, <2>4 DEF n
<1>3. s[Len(s)] \in Job
  BY <1>1, ElementOfSeq
<1> HIDE DEF p
<1>4. Ids(s) = Ids(p) \cup {s[Len(s)].id}
  <2>1. 1 .. Len(s) = (1 .. Len(p)) \cup {Len(s)}
    BY <1>1, <1>2
  <2> QED
    BY <2>1, <1>2 DEF Ids
<1> QED
  BY <1>2, <1>3, <1>4 DEF p

\* SendToHuge puts a job into the queue.
LEMMA AppendIds ==
  ASSUME NEW s \in Seq(Job), NEW j \in Job
  PROVE  /\ Append(s, j) \in Seq(Job)
         /\ Len(Append(s, j)) = Len(s) + 1
         /\ Ids(Append(s, j)) = Ids(s) \cup {j.id}
<1> DEFINE a == Append(s, j)
<1>1. /\ a \in Seq(Job) /\ Len(a) = Len(s) + 1
      /\ \A i \in 1 .. Len(s) : a[i] = s[i]
      /\ a[Len(s) + 1] = j
      /\ Len(s) \in Nat
  BY AppendProperties, LenProperties
<1> HIDE DEF a
<1>2. 1 .. Len(a) = (1 .. Len(s)) \cup {Len(s) + 1}
  BY <1>1
<1>3. Ids(a) = Ids(s) \cup {j.id}
  BY <1>1, <1>2 DEF Ids
<1> QED
  BY <1>1, <1>3 DEF a

\* TakeHuge takes the first one.
LEMMA TailIds ==
  ASSUME NEW s \in Seq(Job), s # <<>>
  PROVE  /\ Head(s) \in Job
         /\ Tail(s) \in Seq(Job)
         /\ Len(Tail(s)) = Len(s) - 1
         /\ Ids(s) = Ids(Tail(s)) \cup {Head(s).id}
<1> DEFINE r == Tail(s)
<1>1. /\ Head(s) \in Job /\ Head(s) = s[1] /\ r \in Seq(Job) /\ Len(r) = Len(s) - 1
      /\ Len(s) \in Nat \ {0}
  BY HeadTailProperties, EmptySeq, LenProperties
<1>2. \A i \in 1 .. Len(r) : r[i] = s[i + 1]
  BY <1>1, HeadTailProperties
<1> HIDE DEF r
<1>3. \A i \in 1 .. Len(s) : i = 1 \/ (i - 1 \in 1 .. Len(r) /\ r[i - 1] = s[i])
  BY <1>1, <1>2
<1>4. \A i \in 1 .. Len(r) : i + 1 \in 1 .. Len(s)
  BY <1>1
<1>5. Ids(s) = Ids(r) \cup {Head(s).id}
  BY <1>1, <1>2, <1>3, <1>4 DEF Ids
<1> QED
  BY <1>1, <1>5 DEF r

\* Receive puts the subtrees of a tree on the backlog.
LEMMA PushIds ==
  ASSUME NEW s \in Seq(Job), NEW t \in Tree, NEW r \in Root
  PROVE  /\ WithSubtrees(s, t, r) \in Seq(Job)
         /\ Ids(s) \subseteq Ids(WithSubtrees(s, t, r))
         /\ \A i \in 1 .. Len(Subtrees[t]) : Subtrees[t][i] \in Ids(WithSubtrees(s, t, r))
<1> DEFINE c == Subtrees[t]
           n == Len(s)
           w == [i \in 1 .. n + Len(c) |->
                   IF i <= n THEN s[i] ELSE [id |-> c[n + Len(c) + 1 - i], root |-> r]]
<1>1. c \in Seq(Tree) /\ Len(c) \in Nat /\ n \in Nat
  BY StreamAssumption, LenProperties
<1>2. \A i \in 1 .. n : s[i] \in Job
  BY ElementOfSeq
<1>3. \A i \in 1 .. Len(c) : c[i] \in Tree
  BY <1>1, ElementOfSeq
<1> HIDE DEF c, n
<1>4. w \in [1 .. n + Len(c) -> Job]
  <2> SUFFICES ASSUME NEW i \in 1 .. n + Len(c)
               PROVE  (IF i <= n THEN s[i] ELSE [id |-> c[n + Len(c) + 1 - i], root |-> r]) \in Job
    OBVIOUS
  <2>1. CASE i <= n
    BY <2>1, <1>1, <1>2
  <2>2. CASE ~(i <= n)
    <3>1. n + Len(c) + 1 - i \in 1 .. Len(c)
      BY <2>2, <1>1
    <3> QED
      BY <2>2, <3>1, <1>3 DEF Job
  <2> QED
    BY <2>1, <2>2
<1>5. w \in Seq(Job) /\ Len(w) = n + Len(c)
  <2> HIDE DEF w
  <2>1. n + Len(c) \in Nat
    BY <1>1
  <2> QED
    BY <1>4, <2>1
<1>6. \A i \in 1 .. n : w[i] = s[i] /\ i \in 1 .. Len(w)
  BY <1>1, <1>5
<1>7. \A i \in 1 .. Len(c) : n + Len(c) + 1 - i \in 1 .. Len(w) /\ w[n + Len(c) + 1 - i].id = c[i]
  <2> SUFFICES ASSUME NEW i \in 1 .. Len(c)
               PROVE  n + Len(c) + 1 - i \in 1 .. Len(w) /\ w[n + Len(c) + 1 - i].id = c[i]
    BY ZenonT(30)
  <2> DEFINE k == n + Len(c) + 1 - i
  <2>1. k \in 1 .. n + Len(c) /\ ~(k <= n) /\ n + Len(c) + 1 - k = i
    BY <1>1
  <2> HIDE DEF k
  <2>2. w[k] = [id |-> c[i], root |-> r]
    BY <2>1
  <2> QED
    BY <2>1, <2>2, <1>5, ZenonT(30) DEF k
<1>8. WithSubtrees(s, t, r) = w
  BY DEF WithSubtrees, c, n
<1> HIDE DEF w
<1>9. Ids(s) \subseteq Ids(w)
  BY <1>6 DEF Ids, n
<1>10. \A i \in 1 .. Len(c) : c[i] \in Ids(w)
  BY <1>7, ZenonT(30) DEF Ids
<1> QED
  BY <1>5, <1>8, <1>9, <1>10 DEF c

-----------------------------------------------------------------------------
(* What the loaders hold *)

LEMMA BusyFinite ==
  ASSUME NEW h \in [Worker -> Job \cup {None}]
  PROVE  IsFiniteSet(Busy(h)) /\ Cardinality(Busy(h)) \in Nat
<1>1. Busy(h) \subseteq Worker
  BY DEF Busy
<1>2. IsFiniteSet(Worker)
  BY StreamAssumption
<1>3. IsFiniteSet(Busy(h))
  BY <1>1, <1>2, FS_Subset
<1> QED
  BY <1>3, FS_CardinalityType

\* SendToLoader and TakeHuge give a job to a loader that has none.
LEMMA GiveJob ==
  ASSUME NEW h \in [Worker -> Job \cup {None}], NEW l \in Worker, NEW j \in Job, h[l] = None
  PROVE  LET g == [h EXCEPT ![l] = j]
         IN  /\ HeldIds(g) = HeldIds(h) \cup {j.id}
             /\ Cardinality(Busy(g)) = Cardinality(Busy(h)) + 1
<1> DEFINE g == [h EXCEPT ![l] = j]
<1>1. g[l] = j /\ \A k \in Worker \ {l} : g[k] = h[k]
  OBVIOUS
<1>2. j # None
  BY NoneAssumption
<1> HIDE DEF g
<1>3. HeldIds(g) = HeldIds(h) \cup {j.id}
  <2>1. IdOf(g[l]) = {j.id} /\ IdOf(h[l]) = {}
    BY <1>1, <1>2 DEF IdOf
  <2>2. \A k \in Worker \ {l} : IdOf(g[k]) = IdOf(h[k])
    BY <1>1
  <2> QED
    BY <2>1, <2>2 DEF HeldIds
<1>4. Busy(g) = Busy(h) \cup {l} /\ l \notin Busy(h)
  BY <1>1, <1>2 DEF Busy
<1>5. Cardinality(Busy(g)) = Cardinality(Busy(h)) + 1
  BY <1>4, BusyFinite, FS_AddElement
<1> QED
  BY <1>3, <1>5, ZenonT(30) DEF g

\* Receive, and a loader that stops, take its job away.
LEMMA TakeJob ==
  ASSUME NEW h \in [Worker -> Job \cup {None}], NEW l \in Worker, h[l] # None
  PROVE  LET g == [h EXCEPT ![l] = None]
         IN  /\ HeldIds(h) \subseteq HeldIds(g) \cup {h[l].id}
             /\ Cardinality(Busy(g)) = Cardinality(Busy(h)) - 1
             /\ Cardinality(Busy(h)) > 0
<1> DEFINE g == [h EXCEPT ![l] = None]
<1>1. g[l] = None /\ \A k \in Worker \ {l} : g[k] = h[k]
  OBVIOUS
<1>0. g \in [Worker -> Job \cup {None}]
  OBVIOUS
<1> HIDE DEF g
<1>3. HeldIds(h) \subseteq HeldIds(g) \cup {h[l].id}
  <2>1. IdOf(h[l]) = {h[l].id}
    BY DEF IdOf
  <2>2. \A k \in Worker \ {l} : IdOf(g[k]) = IdOf(h[k])
    BY <1>1
  <2> QED
    BY <2>1, <2>2 DEF HeldIds
<1>4. Busy(h) = Busy(g) \cup {l} /\ l \notin Busy(g)
  BY <1>1 DEF Busy
<1>5. Cardinality(Busy(h)) = Cardinality(Busy(g)) + 1 /\ Cardinality(Busy(g)) \in Nat
  BY <1>0, <1>4, BusyFinite, FS_AddElement, ZenonT(30)
<1>6. Cardinality(Busy(g)) = Cardinality(Busy(h)) - 1 /\ Cardinality(Busy(h)) > 0
  BY <1>5
<1> QED
  BY <1>3, <1>6, ZenonT(30) DEF g

-----------------------------------------------------------------------------
(* The invariant holds at first, and every step keeps it. *)

LEMMA UsedInitInv == Init => UsedInv
<1> SUFFICES ASSUME Init PROVE UsedInv
  OBVIOUS
<1> USE DEF Init, StreamInit
<1>1. Len(Roots) \in Nat /\ \A r \in Root : Roots[r] \in Tree
  BY StreamAssumption, LenProperties, ElementOfSeq DEF Root
<1>2. backlog \in [1 .. Len(Roots) -> Job]
  BY <1>1 DEF Root, Job
<1>3. backlog \in Seq(Job) /\ Len(backlog) = Len(Roots)
  BY <1>1, <1>2
<1>4. Types
  <2>1. hugeQ \in Seq(Job)
    BY EmptySeq
  <2> QED
    BY <1>3, <2>1, StreamAssumption, ZenonT(30) DEF Types
<1>5. Counted
  <2>1. Busy(held) = {}
    BY DEF Busy
  <2>2. Cardinality(Busy(held)) = 0 /\ Len(hugeQ) = 0
    BY <2>1, FS_EmptySet, EmptySeq, ZenonT(30)
  <2> QED
    BY <2>2 DEF Counted
<1>6. Cover
  <2>1. \A r \in Root : r \in 1 .. Len(backlog) /\ backlog[r].id = Roots[r]
    BY <1>3 DEF Root
  <2> QED
    BY <2>1 DEF Cover, Ids
<1> QED
  BY <1>4, <1>5, <1>6 DEF UsedInv

\* The last ID of the backlog is in the set, or gets into it as the next to be loaded.
LEMMA NextTreeInv ==
  ASSUME UsedInv, NextTree, UNCHANGED <<visited, reader, result>>
  PROVE  UsedInv'
<1> DEFINE j == backlog[Len(backlog)]
<1> USE DEF UsedInv
<1>1. /\ j \in Job /\ backlog' \in Seq(Job) /\ Ids(backlog) = Ids(backlog') \cup {j.id}
      /\ next = None /\ filter = "run"
      /\ UNCHANGED <<outstanding, outbox, filter, hugeQ, loader, held, cancelled, visited, result>>
  BY PopIds DEF NextTree, Types
<1>2. \/ j.id \in seen /\ seen' = seen /\ next' = next
      \/ j.id \notin seen /\ seen' = seen \cup {j.id} /\ next' = j
  BY DEF NextTree
<1> HIDE DEF j
<1>3. j.id \in Tree /\ j # None
  BY <1>1, NoneAssumption DEF Job
<1>4. Types'
  BY <1>1, <1>2, <1>3 DEF Types
<1>5. Counted'
  BY <1>1 DEF Counted
<1>6. ASSUME Sound' PROVE Cover'
  <2>1. Cover
    BY <1>6, <1>1 DEF Sound
  <2>2. seen \cup Ids(backlog) \subseteq seen' \cup Ids(backlog')
    BY <1>1, <1>2
  <2>3. Loading \subseteq Loading' /\ \A t \in seen' : t \in seen \/ t \in Loading'
    BY <1>1, <1>2, <1>3 DEF Loading, IdOf
  <2>4. IdOf(outbox') = IdOf(outbox) /\ visited' = visited
    BY <1>1
  <2> QED
    BY <2>1, <2>2, <2>3, <2>4 DEF Cover
<1> QED
  BY <1>1, <1>4, <1>5, <1>6

\* The next tree goes to a loader.
LEMMA SendToLoaderInv ==
  ASSUME UsedInv, NEW l \in Loader, SendToLoader(l), UNCHANGED <<visited, reader, result>>
  PROVE  UsedInv'
<1> USE DEF UsedInv
<1>1. /\ next \in Job /\ next' = None /\ held[l] = None /\ l \in Worker /\ filter = "run"
      /\ held' = [held EXCEPT ![l] = next] /\ loader' = [loader EXCEPT ![l] = "load"]
      /\ outstanding' = outstanding + 1
      /\ UNCHANGED <<seen, backlog, outbox, filter, hugeQ, cancelled, visited, result>>
  BY DEF SendToLoader, Selecting, Types, Worker
<1>2. next # None
  BY <1>1, NoneAssumption
<1>3. Types'
  BY <1>1, <1>2 DEF Types
<1>4. /\ HeldIds(held') = HeldIds(held) \cup {next.id}
      /\ Cardinality(Busy(held')) = Cardinality(Busy(held)) + 1
  BY <1>1, GiveJob, ZenonT(30) DEF Types
<1>5. Counted'
  <2>1. Len(hugeQ) \in Nat /\ Cardinality(Busy(held)) \in Nat
    BY BusyFinite, LenProperties, ZenonT(30) DEF Types
  <2> QED
    BY <1>1, <1>4, <2>1 DEF Counted, Types
<1>6. ASSUME Sound' PROVE Cover'
  <2>1. Cover
    BY <1>6, <1>1 DEF Sound
  <2>2. Loading' = Loading
    BY <1>1, <1>2, <1>4, ZenonT(30) DEF Loading, IdOf
  <2> QED
    BY <1>1, <2>1, <2>2 DEF Cover
<1> QED
  BY <1>1, <1>3, <1>5, <1>6

\* The next tree goes into the queue of huge trees.
LEMMA SendToHugeInv ==
  ASSUME UsedInv, SendToHuge, UNCHANGED <<visited, reader, result>>
  PROVE  UsedInv'
<1> USE DEF UsedInv
<1>1. /\ next \in Job /\ next' = None /\ filter = "run" /\ hugeQ' = Append(hugeQ, next)
      /\ outstanding' = outstanding + 1
      /\ UNCHANGED <<seen, backlog, outbox, filter, loader, held, cancelled, visited, result>>
  BY DEF SendToHuge, Selecting, Types
<1>2. next # None
  BY <1>1, NoneAssumption
<1>3. hugeQ' \in Seq(Job) /\ Len(hugeQ') = Len(hugeQ) + 1 /\ Ids(hugeQ') = Ids(hugeQ) \cup {next.id}
  BY <1>1, AppendIds DEF Types
<1>4. Types'
  BY <1>1, <1>3 DEF Types
<1>5. Counted'
  <2>1. Len(hugeQ) \in Nat /\ Cardinality(Busy(held)) \in Nat
    BY BusyFinite, LenProperties DEF Types
  <2> QED
    BY <1>1, <1>3, <2>1 DEF Counted, Types
<1>6. ASSUME Sound' PROVE Cover'
  <2>1. Cover
    BY <1>6, <1>1 DEF Sound
  <2>2. Loading' = Loading
    BY <1>1, <1>2, <1>3 DEF Loading, IdOf
  <2> QED
    BY <1>1, <2>1, <2>2 DEF Cover
<1> QED
  BY <1>1, <1>4, <1>5, <1>6

\* A loaded tree becomes the item for the reader, and its subtrees go onto the backlog.
LEMMA ReceiveInv ==
  ASSUME UsedInv, NEW l \in Worker, Receive(l), UNCHANGED <<visited, reader, result>>
  PROVE  UsedInv'
<1> DEFINE j == held[l]
<1> USE DEF UsedInv
<1>1. /\ j \in Job /\ j # None /\ outbox = None /\ filter = "run" /\ loader[l] \in {"tree", "error"}
      /\ held' = [held EXCEPT ![l] = None] /\ loader' = [loader EXCEPT ![l] = "idle"]
      /\ outstanding' = outstanding - 1
      /\ outbox' = [id |-> j.id, res |-> loader[l]]
      /\ UNCHANGED <<seen, next, filter, hugeQ, cancelled, visited, result>>
  BY DEF Receive, Selecting, Types
<1>2. \/ loader[l] = "tree" /\ backlog' = WithSubtrees(backlog, j.id, j.root)
      \/ loader[l] = "error" /\ backlog' = backlog
  BY DEF Receive
<1>3. /\ HeldIds(held) \subseteq HeldIds(held') \cup {j.id}
      /\ Cardinality(Busy(held')) = Cardinality(Busy(held)) - 1
      /\ Cardinality(Busy(held)) > 0
  BY <1>1, TakeJob, ZenonT(30) DEF Types
<1> HIDE DEF j
<1>4. j.id \in Tree /\ j.root \in Root /\ backlog \in Seq(Job)
  BY <1>1 DEF Job, Types
<1>5. /\ backlog' \in Seq(Job) /\ Ids(backlog) \subseteq Ids(backlog')
      /\ loader[l] = "tree" =>
           \A i \in 1 .. Len(Subtrees[j.id]) : Subtrees[j.id][i] \in Ids(backlog')
  BY <1>2, <1>4, PushIds
<1>6. Len(hugeQ) \in Nat /\ Cardinality(Busy(held)) \in Nat
  BY BusyFinite, LenProperties DEF Types
<1>9. outbox' \in Item
  BY <1>1, <1>2, <1>4 DEF Item
<1>7. Types' /\ Counted'
  <2>1. outstanding' \in Nat
    BY <1>1, <1>3, <1>6 DEF Types, Counted
  <2>3. Types'
    BY <1>1, <1>5, <1>9, <2>1 DEF Types
  <2>4. Counted'
    BY <1>1, <1>3, <1>6 DEF Types, Counted
  <2> QED
    BY <2>3, <2>4
<1>8. ASSUME Sound' PROVE Cover'
  <2>1. outbox' # None
    BY <1>9, NoneAssumption, ZenonT(30)
  <2>2. Cover /\ loader[l] = "tree"
    BY <1>8, <1>1, <2>1 DEF Sound
  <2>3. Loading \subseteq Loading' \cup {j.id} /\ IdOf(outbox') = {j.id} /\ IdOf(outbox) = {}
    BY <1>1, <1>3, <2>1, ZenonT(30) DEF Loading, IdOf
  <2> QED
    BY <1>1, <1>5, <2>2, <2>3, ZenonT(30) DEF Cover
<1> QED
  BY <1>1, <1>7, <1>8

\* A filter that is Finished leaves nothing on its way.
LEMMA FilterReturnsInv ==
  ASSUME UsedInv, FilterReturns, UNCHANGED <<visited, reader, result>>
  PROVE  UsedInv'
<1> USE DEF UsedInv
<1>1. /\ filter' = "done"
      /\ Finished \/ cancelled
      /\ UNCHANGED <<seen, backlog, next, outstanding, outbox, hugeQ, loader, held, cancelled, visited, result>>
  BY DEF FilterReturns
<1>2. Types' /\ Counted' /\ (Sound' => Cover')
  BY <1>1, ZenonT(30) DEF Types, Counted, Sound, Cover, Loading
<1>3. ASSUME ~cancelled' PROVE Complete'
  <2>1. next = None /\ backlog = <<>> /\ outbox = None /\ outstanding = 0
    BY <1>1, <1>3 DEF Finished
  <2>2. Cover
    BY <1>1, <1>3, <2>1 DEF Sound
  <2>3. Len(hugeQ) \in Nat /\ Cardinality(Busy(held)) \in Nat /\ IsFiniteSet(Busy(held))
    BY BusyFinite, LenProperties DEF Types
  <2>4. Len(hugeQ) = 0 /\ Cardinality(Busy(held)) = 0
    BY <2>1, <2>3 DEF Counted
  <2>5. Ids(hugeQ) = {} /\ Ids(backlog) = {}
    BY <2>1, <2>4 DEF Ids
  <2>6. HeldIds(held) = {}
    <3>1. Busy(held) = {}
      BY <2>3, <2>4, FS_EmptySet
    <3> QED
      BY <3>1 DEF Busy, HeldIds, IdOf
  <2>7. Loading = {} /\ IdOf(outbox) = {}
    BY <2>1, <2>5, <2>6, SMTT(30) DEF Loading, IdOf
  <2>8. Complete
    BY <2>2, <2>5, <2>7 DEF Cover, Complete
  <2> QED
    BY <1>1, <2>8, ZenonT(30) DEF Complete
<1> QED
  BY <1>1, <1>2, <1>3

\* The loader of huge trees takes one from the queue.
LEMMA TakeHugeInv ==
  ASSUME UsedInv, TakeHuge, UNCHANGED <<visited, reader, result>>
  PROVE  UsedInv'
<1> DEFINE j == Head(hugeQ)
<1> USE DEF UsedInv
<1>1. /\ HugeLoader \in Worker /\ held[HugeLoader] = None /\ hugeQ # <<>> /\ hugeQ' = Tail(hugeQ)
      /\ held' = [held EXCEPT ![HugeLoader] = j] /\ loader' = [loader EXCEPT ![HugeLoader] = "load"]
      /\ UNCHANGED <<seen, backlog, next, outstanding, outbox, filter, cancelled, visited, result>>
  BY DEF TakeHuge, filterVars, Types, Worker
<1>2. /\ j \in Job /\ hugeQ' \in Seq(Job) /\ Len(hugeQ') = Len(hugeQ) - 1
      /\ Ids(hugeQ) = Ids(hugeQ') \cup {j.id}
  BY <1>1, TailIds DEF Types
<1> HIDE DEF j
<1>3. /\ HeldIds(held') = HeldIds(held) \cup {j.id}
      /\ Cardinality(Busy(held')) = Cardinality(Busy(held)) + 1
  <2>1. held \in [Worker -> Job \cup {None}]
    BY DEF Types
  <2> QED
    BY <1>1, <1>2, <2>1, GiveJob, ZenonT(30)
<1>4. Types'
  <2>1. j # None
    BY <1>2, NoneAssumption
  <2> QED
    BY <1>1, <1>2, <2>1 DEF Types
<1>5. Counted'
  <2>1. Len(hugeQ) \in Nat /\ Cardinality(Busy(held)) \in Nat
    BY BusyFinite, LenProperties DEF Types
  <2>2. Len(hugeQ') + Cardinality(Busy(held')) = Len(hugeQ) + Cardinality(Busy(held))
    BY <1>2, <1>3, <2>1
  <2> QED
    BY <1>1, <2>2 DEF Counted
<1>6. ASSUME Sound' PROVE Cover'
  <2>1. Cover
    BY <1>6, <1>1 DEF Sound
  <2>2. Loading' = Loading
    BY <1>1, <1>2, <1>3, ZenonT(30) DEF Loading
  <2> QED
    BY <1>1, <2>1, <2>2, ZenonT(30) DEF Cover
<1>7. (filter' = "done" /\ ~cancelled') => Complete'
  BY <1>1 DEF Complete
<1> QED
  BY <1>1, <1>4, <1>5, <1>6, <1>7

\* A loader that stops has no job, unless the context is cancelled.
LEMMA LoaderStopsInv ==
  ASSUME UsedInv, NEW l \in Worker, LoaderStops(l), UNCHANGED <<visited, reader, result>>
  PROVE  UsedInv'
<1> USE DEF UsedInv
<1>1. /\ held' = [held EXCEPT ![l] = None] /\ loader' = [loader EXCEPT ![l] = "done"]
      /\ UNCHANGED <<seen, backlog, next, outstanding, outbox, filter, hugeQ, cancelled, visited, result>>
  BY DEF LoaderStops, filterVars
<1>2. held[l] = None \/ cancelled
  BY DEF LoaderStops, Types
<1>3. Types'
  BY <1>1 DEF Types
<1>4. held' \in [Worker -> Job \cup {None}]
  BY <1>3 DEF Types
<1>5. CASE held[l] = None
  <2>1. held' = held
    BY <1>1, <1>5 DEF Types
  <2> QED
    BY <1>1, <1>3, <2>1, ZenonT(30) DEF Counted, Sound, Cover, Loading, Complete
<1>6. CASE held[l] # None
  <2>1. Cardinality(Busy(held')) = Cardinality(Busy(held)) - 1
    BY <1>1, <1>6, TakeJob, ZenonT(30) DEF Types
  <2>2. Len(hugeQ) \in Nat /\ Cardinality(Busy(held)) \in Nat
    BY BusyFinite, LenProperties DEF Types
  <2>3. Counted'
    BY <1>1, <2>1, <2>2 DEF Counted, Types
  <2> QED
    BY <1>1, <1>2, <1>3, <1>6, <2>3 DEF Sound
<1> QED
  BY <1>5, <1>6

\* The reader inserts the blobs of a tree, or cancels the context because of an error.
LEMMA ReadTreeInv ==
  ASSUME UsedInv, ReadTree
  PROVE  UsedInv'
<1> USE DEF UsedInv
<1>1. /\ outbox # None /\ outbox' = None /\ filter = "run"
      /\ UNCHANGED <<seen, backlog, next, outstanding, filter, hugeQ, loader, held, result>>
  BY DEF ReadTree, Deliver, Selecting
<1>2. \/ outbox.res = "tree" /\ visited' = visited \cup {outbox.id} /\ cancelled' = cancelled
      \/ outbox.res = "error" /\ cancelled' = TRUE
  BY DEF ReadTree
<1>3. Types' /\ Counted'
  BY <1>1, ZenonT(30) DEF Types, Counted
<1>4. ASSUME Sound' PROVE Cover'
  <2>1. ~cancelled /\ outbox.res = "tree" /\ visited' = visited \cup {outbox.id}
    BY <1>2, <1>4 DEF Sound
  <2>2. Cover
    BY <2>1 DEF Sound
  <2>3. visited' = visited \cup IdOf(outbox) /\ Loading' = Loading
    BY <1>1, <2>1 DEF IdOf, Loading
  <2> QED
    BY <1>1, <2>2, <2>3 DEF Cover
<1> QED
  BY <1>1, <1>3, <1>4

LEMMA UsedStepInv == UsedInv /\ [Next]_vars => UsedInv'
<1> SUFFICES ASSUME UsedInv, [Next]_vars PROVE UsedInv'
  OBVIOUS
<1> DEFINE other == UNCHANGED <<visited, reader, result>>
<1>1. CASE other /\ NextTree
  BY <1>1, NextTreeInv
<1>2. ASSUME other, NEW l \in Loader, SendToLoader(l) PROVE UsedInv'
  BY <1>2, SendToLoaderInv
<1>3. CASE other /\ SendToHuge
  BY <1>3, SendToHugeInv
<1>4. ASSUME other, NEW l \in Worker, Receive(l) PROVE UsedInv'
  BY <1>4, ReceiveInv
<1>5. CASE other /\ FilterReturns
  BY <1>5, FilterReturnsInv
<1>6. ASSUME other, NEW l \in Worker, LoaderStops(l) PROVE UsedInv'
  BY <1>6, LoaderStopsInv
<1>7. CASE other /\ TakeHuge
  BY <1>7, TakeHugeInv
<1>8. CASE ReadTree
  BY <1>8, ReadTreeInv, ZenonT(30)
<1>9. ASSUME other, NEW l \in Worker, LoadTree(l) PROVE UsedInv'
  <2>1. /\ loader[l] = "load"
        /\ loader' = [loader EXCEPT ![l] = "tree"] \/ loader' = [loader EXCEPT ![l] = "error"]
        /\ UNCHANGED <<seen, backlog, next, outstanding, outbox, filter, hugeQ, held, cancelled, visited, result>>
    BY <1>9 DEF LoadTree, filterVars
  <2>2. Types'
    BY <2>1 DEF UsedInv, Types
  <2> QED
    BY <2>1, <2>2, ZenonT(30) DEF UsedInv, Counted, Sound, Cover, Loading, Complete
<1>10. CASE (other /\ InputClosed) \/ ReaderEnds \/ Return \/ UserCancels \/ UNCHANGED vars
  <2>1. /\ UNCHANGED <<seen, backlog, next, outstanding, outbox, filter, hugeQ, loader, held, visited>>
        /\ cancelled' = cancelled \/ cancelled' = TRUE
    BY <1>10 DEF InputClosed, ReaderEnds, Return, UserCancels, vars, streamVars, filterVars
  <2>2. result' = result \/ filter = "done"
    BY <1>10, ZenonT(30) DEF InputClosed, ReaderEnds, Return, UserCancels, vars, StreamDone
  <2>3. Types' /\ Counted' /\ (Cover => Cover') /\ (Complete => Complete')
    BY <2>1, ZenonT(30) DEF UsedInv, Types, Counted, Cover, Loading, Complete
  <2>4. (Sound' => Sound) /\ (~cancelled' => ~cancelled)
    BY <2>1 DEF Sound
  <2> QED
    BY <2>1, <2>2, <2>3, <2>4, ZenonT(30) DEF UsedInv
<1> QED
  BY <1>1, <1>2, <1>3, <1>4, <1>5, <1>6, <1>7, <1>8, <1>9, <1>10
     DEF Next, StreamNext, FilterStep, LoaderStep, ReaderStep

\* UsedBlobsFound: when FindUsedBlobs returns nil and nobody has cancelled it, the set of used
\* blobs is complete, for any trees and roots, any number of loaders and any order in which they
\* finish.  prune removes what is not in the set.
THEOREM UsedBlobsFoundHolds == Spec => []UsedBlobsFound
<1>1. UsedInv => UsedBlobsFound
  BY DEF UsedInv, UsedBlobsFound
<1> QED
  BY UsedInitInv, UsedStepInv, <1>1, PTL DEF Spec
=============================================================================
