---------------------------- MODULE IndexRewrite ----------------------------
(***************************************************************************)
(* MasterIndex.Save writes all known packs except those of packBlacklist   *)
(* to new index files, and its caller then removes the index files that    *)
(* are obsolete, and at last the packs.  A crash is a behaviour that ends  *)
(* anywhere, so what an invariant says holds after it.                     *)
(***************************************************************************)
EXTENDS Integers, FiniteSets

CONSTANTS
  OldIndex,        \* the index files before
  PacksOf,         \* the packs each of them lists
  Extra,           \* extraObsolete: index files that could not be loaded
  Blacklist,       \* packBlacklist
  Reread,          \* the packs in an index that is not final
  IndexMax,        \* the number of packs with which an index is full
  Savers,          \* the number of workers
  RewriteFaults    \* "save", "cancel"

ASSUME RewriteAssumption ==
  /\ Extra \subseteq OldIndex
  /\ IndexMax \in Nat \ {0} /\ Savers \in Nat \ {0}
  /\ RewriteFaults \subseteq {"save", "cancel"}

\* The packs in the merged final index.
FinalPacks == UNION {PacksOf[i] : i \in OldIndex \ Extra}

\* Mutant of Wanted: the condition of EachByPack has "and" for "or".
WantedReread == Reread \ Blacklist

\* What EachByPack yields for all indexes.
Wanted == (FinalPacks \ Blacklist) \cup Reread

AllPacks == (UNION {PacksOf[i] : i \in OldIndex}) \cup Reread

VARIABLES
  building,        \* where the goroutine is that builds the indexes
  idxLeft,         \* the packs that are not in an index yet
  newIndex,        \* the index that is being built
  saving,          \* the indexes that workers save
  savers,          \* the number of workers that are running
  saveFailed,      \* whether the errgroup has an error
  idxCancelled,    \* whether the caller's context is cancelled
  saveResult,      \* what Save has returned
  oldFiles,        \* the old index files that are left
  newFiles,        \* the index files that were saved
  packFiles        \* the packs in the repository

rewriteVars == <<building, idxLeft, newIndex, saving, savers, saveFailed, idxCancelled, saveResult, oldFiles, newFiles, packFiles>>

RewriteTypeOK ==
  /\ building \in {"pack", "send", "last", "closed"}
  /\ idxLeft \subseteq Wanted /\ newIndex \subseteq Wanted
  /\ saving \subseteq SUBSET Wanted
  /\ savers \in 0 .. Savers
  /\ saveFailed \in BOOLEAN /\ idxCancelled \in BOOLEAN
  /\ saveResult \in {"none", "ok", "error"}
  /\ oldFiles \subseteq OldIndex
  /\ newFiles \subseteq SUBSET Wanted
  /\ packFiles \subseteq AllPacks

RewriteInit ==
  /\ building = "pack"
  /\ idxLeft = Wanted /\ newIndex = {}
  /\ saving = {} /\ savers = Savers
  /\ saveFailed = FALSE /\ idxCancelled = FALSE
  /\ saveResult = "none"
  /\ oldFiles = OldIndex /\ newFiles = {}
  /\ packFiles = AllPacks

callerVars == <<saveResult, oldFiles, newFiles, packFiles, idxCancelled>>

\* The context of the errgroup is cancelled.
SaveDone == saveFailed \/ idxCancelled

\* A pack is stored in the new index, which may be full, or old enough to count as full.
NextPack(p) ==
  /\ building = "pack"
  /\ p \in idxLeft
  /\ idxLeft' = idxLeft \ {p}
  /\ newIndex' = newIndex \cup {p}
  /\ \/ building' = "send"
     \/ building' = "pack" /\ Cardinality(newIndex') < IndexMax
  /\ UNCHANGED <<saving, savers, saveFailed, callerVars>>

\* EachByPack stops when the context is cancelled.
NoMorePacks ==
  /\ building = "pack"
  /\ SaveDone /\ idxLeft # {}
  /\ idxLeft' = {}
  /\ UNCHANGED <<building, newIndex, saving, savers, saveFailed, callerVars>>

\* A worker that is idle receives the index.
GiveToSaver == Cardinality(saving) < savers /\ saving' = saving \cup {newIndex}

SendIndex ==
  /\ building = "send"
  /\ GiveToSaver
  /\ newIndex' = {}
  /\ building' = "pack"
  /\ UNCHANGED <<idxLeft, savers, saveFailed, callerVars>>

SendIndexCancelled ==
  /\ building = "send"
  /\ SaveDone
  /\ saveFailed' = TRUE
  /\ building' = "closed"
  /\ UNCHANGED <<idxLeft, newIndex, saving, savers, callerVars>>

AllPacksStored ==
  /\ building = "pack"
  /\ idxLeft = {}
  /\ building' = "last"
  /\ UNCHANGED <<idxLeft, newIndex, saving, savers, saveFailed, callerVars>>

SendLast ==
  /\ building = "last"
  /\ GiveToSaver
  /\ newIndex' = {}
  /\ building' = "closed"
  /\ UNCHANGED <<idxLeft, savers, saveFailed, callerVars>>

\* The last index is not sent when the context is cancelled, and that is no error.
SendLastCancelled ==
  /\ building = "last"
  /\ SaveDone
  /\ building' = "closed"
  /\ UNCHANGED <<idxLeft, newIndex, saving, savers, saveFailed, callerVars>>

SaveIndexFile(i) ==
  /\ i \in saving
  /\ saving' = saving \ {i}
  /\ newFiles' = newFiles \cup {i}
  /\ UNCHANGED <<building, idxLeft, newIndex, savers, saveFailed, saveResult, oldFiles, packFiles, idxCancelled>>

\* The worker returns with the error.
SaveIndexFails(i) ==
  /\ "save" \in RewriteFaults \/ SaveDone
  /\ i \in saving
  /\ saving' = saving \ {i}
  /\ savers' = savers - 1
  /\ saveFailed' = TRUE
  /\ UNCHANGED <<building, idxLeft, newIndex, callerVars>>

SaveReturns ==
  /\ building = "closed" /\ saving = {}
  /\ saveResult = "none"
  /\ saveResult' = IF saveFailed THEN "error" ELSE "ok"
  /\ UNCHANGED <<building, idxLeft, newIndex, saving, savers, saveFailed, oldFiles, newFiles, packFiles, idxCancelled>>

CancelSave ==
  /\ "cancel" \in RewriteFaults
  /\ ~idxCancelled
  /\ idxCancelled' = TRUE
  /\ UNCHANGED <<building, idxLeft, newIndex, saving, savers, saveFailed, saveResult, oldFiles, newFiles, packFiles>>

\* The caller removes files only after Save has returned nil, and retry lets nobody remove
\* anything with a cancelled context.
MayRemove == saveResult = "ok" /\ ~idxCancelled

RemoveIndexFile(i) ==
  /\ MayRemove
  /\ i \in oldFiles
  /\ oldFiles' = oldFiles \ {i}
  /\ UNCHANGED <<building, idxLeft, newIndex, saving, savers, saveFailed, saveResult, newFiles, packFiles, idxCancelled>>

RemovePackFile(p) ==
  /\ MayRemove
  /\ oldFiles = {}
  /\ p \in (packFiles \cap Blacklist) \ Reread
  /\ packFiles' = packFiles \ {p}
  /\ UNCHANGED <<building, idxLeft, newIndex, saving, savers, saveFailed, saveResult, oldFiles, newFiles, idxCancelled>>

\* The goroutines of Save run.
BuildStep ==
  \/ \E p \in AllPacks : NextPack(p)
  \/ NoMorePacks \/ SendIndex \/ SendIndexCancelled \/ AllPacksStored \/ SendLast \/ SendLastCancelled \/ SaveReturns
SaverStep == \E i \in saving : SaveIndexFile(i) \/ SaveIndexFails(i)

RewriteNext ==
  \/ BuildStep \/ SaverStep \/ CancelSave
  \/ \E i \in OldIndex : RemoveIndexFile(i)
  \/ \E p \in AllPacks : RemovePackFile(p)

RewriteSpec == RewriteInit /\ [][RewriteNext]_rewriteVars

\* The packs that some index file lists.
ListedPacks == (UNION {PacksOf[i] : i \in oldFiles}) \cup (UNION newFiles)

\* Whenever the program stops, the packs that are to be kept are there and in an index file.
NothingLost == FinalPacks \ Blacklist \subseteq packFiles \cap ListedPacks

\* No index file lists a pack that was removed.
NoDanglingEntry == ListedPacks \subseteq packFiles

\* When Save returns nil and was not cancelled, the new index files list exactly what they should.
SaveComplete == saveResult = "ok" /\ ~idxCancelled => UNION newFiles = Wanted

\* The index can be rewritten and old files removed with a stop at any point: the packs that are
\* kept stay stored and listed, no index lists a removed pack, and a nil result means a complete
\* index.
RewriteSafe == RewriteTypeOK /\ NothingLost /\ NoDanglingEntry /\ SaveComplete
=============================================================================
