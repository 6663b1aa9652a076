------------------------------ MODULE PackUpload ------------------------------
(***************************************************************************)
(* Saving blobs: Repository.SaveBlob, the packer managers, the pack        *)
(* uploader, the master index and Flush (repository/repository.go,         *)
(* packer_manager.go, packer_uploader.go, internal/index/master_index.go). *)
(*                                                                         *)
(* Savers hand blobs to SaveBlob, which collects them in packs.  A full    *)
(* pack goes through an unbuffered channel to an uploader, which stores    *)
(* it, adds it to the master index, and stores index files as the index    *)
(* fills up.  When the savers are done their caller flushes what is left.  *)
(* A pack is the set of its blobs; an index is the set of its packs.       *)
(***************************************************************************)
EXTENDS Naturals, FiniteSets

CONSTANTS
  Blob,            \* the blobs (BlobHandles)
  TreeBlob,        \* those of type TreeBlob; the others are data blobs
  Big,             \* those that fill a pack on their own
  PackMax,         \* the number of other blobs that fill a pack
  IndexMax,        \* the number of blobs that fill an index
  Saver,           \* goroutines that call SaveBlob
  Uploader,        \* goroutines of the packerUploader
  Main,            \* the goroutine that starts the uploader and calls Flush
  FlushScope,      \* the cancellation scope of the context given to Flush
  Retry,           \* whether the caller goes on using the repository after a failed Flush
  Faults           \* what may fail: "save" (backend), "temp" (file), "cancel" (by the user)

\* The cancellation scopes, from the inside out: the uploaders' errgroup, the errgroup
\* given to StartPackUploader, the context of the caller.
NoScope == 0
UploaderScope == 1
GroupScope == 2
CallerScope == 3

ASSUME ConstAssumption ==
  /\ TreeBlob \subseteq Blob
  /\ Big \subseteq Blob
  /\ PackMax \in Nat \ {0}
  /\ IndexMax \in Nat
  /\ Main \notin Uploader
  /\ FlushScope \in {GroupScope, CallerScope}
  /\ Retry \in BOOLEAN
  /\ Faults \subseteq {"save", "temp", "cancel"}

VARIABLES
  stored,          \* the packs in the backend
  listed,          \* the packs that index files in the backend list
  pending,         \* MasterIndex.pendingBlobs
  open,            \* the packs of the index that is not final
  job,             \* the packs of the final index that a goroutine is saving
  saved,           \* the packs of final indexes that have an ID but are not merged yet
  merged,          \* the packs of MasterIndex.idx[0]
  packer,          \* the blobs in the packer of each packerManager ({}: no packer)
  saver,           \* what each saver is doing
  cargo,           \* the blob, later the pack, that it wants to get rid of
  uploader,        \* what each uploader is doing
  task,            \* the pack it is saving
  main,            \* what Main is doing
  scope,           \* the widest scope that is cancelled
  saverErr,        \* whether a saver has failed, which stops the savers
  failed,          \* whether an upload session of this process has failed
  accepted,        \* the blobs for which SaveBlob has returned nil since StartPackUploader
  committed        \* those that were accepted when a Flush returned nil

backendVars == <<stored, listed>>
indexVars == <<open, job, saved, merged>>
saverVars == <<saver, cargo>>
uploaderVars == <<uploader, task>>
mainVars == <<main, failed, committed>>
vars == <<backendVars, pending, indexVars, packer, saverVars, uploaderVars, mainVars,
          scope, saverErr, accepted>>

Type == {"tree", "data"}
TypeOf(b) == IF b \in TreeBlob THEN "tree" ELSE "data"

\* A pack file: at least one blob, and never trees together with data.
Pack == {p \in SUBSET Blob : p # {} /\ \A b, c \in p : TypeOf(b) = TypeOf(c)}

TypeOK ==
  /\ stored \subseteq Pack
  /\ listed \subseteq Pack
  /\ pending \subseteq Blob
  /\ open \subseteq Pack
  /\ job \in [Uploader \cup {Main} -> SUBSET Pack]
  /\ saved \subseteq Pack
  /\ merged \subseteq Pack
  /\ packer \in [Type -> SUBSET Blob]
  /\ saver \in [Saver -> {"idle", "pack", "queue"}]
  /\ cargo \in [Saver -> SUBSET Blob]
  /\ uploader \in [Uploader -> {"idle", "save", "store", "full", "index", "merge", "done", "failed"}]
  /\ task \in [Uploader -> SUBSET Blob]
  /\ main \in {"off", "run", "tree", "data", "close", "wait", "final", "index", "merge", "dead"}
  /\ scope \in NoScope .. CallerScope
  /\ saverErr \in BOOLEAN
  /\ failed \in BOOLEAN
  /\ accepted \subseteq Blob
  /\ committed \subseteq Blob

\* All packs of the master index, and what MasterIndex.Has finds in its indexes.
InIndex == open \cup saved \cup merged \cup UNION {job[w] : w \in Uploader \cup {Main}}
Indexed == UNION InIndex

\* The memory of a process that has just loaded the index files.
Loaded ==
  /\ pending' = {}
  /\ open' = {}
  /\ job' = [w \in Uploader \cup {Main} |-> {}]
  /\ saved' = {}
  /\ packer' = [t \in Type |-> {}]
  /\ saver' = [s \in Saver |-> "idle"]
  /\ cargo' = [s \in Saver |-> {}]
  /\ uploader' = [u \in Uploader |-> "done"]
  /\ task' = [u \in Uploader |-> {}]
  /\ main' = "off"
  /\ scope' = NoScope
  /\ saverErr' = FALSE
  /\ failed' = FALSE
  /\ accepted' = {}

Init ==
  /\ stored = {}
  /\ listed = {}
  /\ pending = {}
  /\ open = {}
  /\ job = [w \in Uploader \cup {Main} |-> {}]
  /\ saved = {}
  /\ merged = {}
  /\ packer = [t \in Type |-> {}]
  /\ saver = [s \in Saver |-> "idle"]
  /\ cargo = [s \in Saver |-> {}]
  /\ uploader = [u \in Uploader |-> "done"]
  /\ task = [u \in Uploader |-> {}]
  /\ main = "off"
  /\ scope = NoScope
  /\ saverErr = FALSE
  /\ failed = FALSE
  /\ accepted = {}
  /\ committed = {}

\* Cancelling a scope cancels those inside it.
Cancel(s) == scope' = IF scope < s THEN s ELSE scope
Cancelled(s) == scope >= s

\* A backend Save may fail by itself or because its context is cancelled.
SaveMayFail(s) == "save" \in Faults \/ Cancelled(s)

-----------------------------------------------------------------------------
(* SaveBlob and the packer managers *)

SaverTo(s, to, c) ==
  /\ saver' = [saver EXCEPT ![s] = to]
  /\ cargo' = [cargo EXCEPT ![s] = c]

\* SaveBlob returns, without an error for the blobs bs.
SaverReturns(s, bs) ==
  /\ SaverTo(s, "idle", {})
  /\ accepted' = accepted \cup bs
  /\ UNCHANGED saverErr

\* SaveBlob returns an error, which stops the other savers and makes the session fail.
SaverFails(s) ==
  /\ SaverTo(s, "idle", {})
  /\ saverErr' = TRUE
  /\ UNCHANGED accepted

\* Mutant of SaveBlob: AddPending only looks at the indexes.
SaveBlobUnlessIndexed(s, b) ==
  /\ main = "run"
  /\ saver[s] = "idle"
  /\ b \notin Indexed
  /\ pending' = pending \cup {b}
  /\ SaverTo(s, "pack", {b})
  /\ UNCHANGED <<saverErr, accepted, backendVars, indexVars, packer, uploaderVars, mainVars, scope>>

\* SaveBlob first calls AddPending: a blob that is pending or in the index is known.
SaveBlob(s, b) ==
  /\ main = "run"
  /\ saver[s] = "idle"
  /\ \/ /\ b \in pending \cup Indexed
        /\ SaverReturns(s, {b})
        /\ UNCHANGED pending
     \/ /\ b \notin pending \cup Indexed
        /\ pending' = pending \cup {b}
        /\ SaverTo(s, "pack", {b})
        /\ UNCHANGED <<saverErr, accepted>>
  /\ UNCHANGED <<backendVars, indexVars, packer, uploaderVars, mainVars, scope>>

\* The mutex of a packerManager is held by the saver that waits for an uploader.
Locked(t) == \E s \in Saver : saver[s] = "queue" /\ \E b \in cargo[s] : TypeOf(b) = t

\* packerManager.SaveBlob: add the blob to the packer, and queue the pack once it is full.
AddBlob(s) ==
  /\ saver[s] = "pack"
  /\ \E b \in cargo[s] :
       LET t == TypeOf(b)
           p == IF b \in Big THEN {b} ELSE packer[t] \cup {b}
       IN  /\ ~Locked(t)
           /\ \/ /\ b \notin Big /\ Cardinality(p) < PackMax
                 /\ packer' = [packer EXCEPT ![t] = p]
                 /\ SaverReturns(s, {b})
              \/ /\ b \in Big \/ Cardinality(p) >= PackMax
                 /\ packer' = IF b \in Big THEN packer ELSE [packer EXCEPT ![t] = {}]
                 /\ SaverTo(s, "queue", p)
                 /\ UNCHANGED <<saverErr, accepted>>
              \/ /\ "temp" \in Faults
                 /\ SaverFails(s)
                 /\ UNCHANGED packer
  /\ UNCHANGED <<backendVars, pending, indexVars, uploaderVars, mainVars, scope>>

\* An uploader that waits for a task takes the pack p.
Receive(u, p) ==
  /\ uploader[u] = "idle"
  /\ uploader' = [uploader EXCEPT ![u] = "save"]
  /\ task' = [task EXCEPT ![u] = p]

\* Mutant of QueuePacker: it waits for an uploader, whatever happens to the context.
QueuePackerWaits(s) ==
  /\ saver[s] = "queue"
  /\ \E u \in Uploader : Receive(u, cargo[s])
  /\ SaverReturns(s, cargo[s])
  /\ UNCHANGED <<backendVars, pending, indexVars, packer, mainVars, scope>>

\* QueuePacker, called by a saver: hand over the pack, or give up when the context of
\* the savers is cancelled.
QueuePacker(s) ==
  /\ saver[s] = "queue"
  /\ \/ /\ \E u \in Uploader : Receive(u, cargo[s])
        /\ SaverReturns(s, cargo[s])
     \/ /\ Cancelled(GroupScope) \/ saverErr
        /\ SaverFails(s)
        /\ UNCHANGED uploaderVars
  /\ UNCHANGED <<backendVars, pending, indexVars, packer, mainVars, scope>>

-----------------------------------------------------------------------------
(* The uploaders *)

UploaderTo(u, to) == uploader' = [uploader EXCEPT ![u] = to]

\* A goroutine of the errgroup returns an error, which cancels the others.
UploaderFails(u) ==
  /\ UploaderTo(u, "failed")
  /\ Cancel(UploaderScope)

\* Mutant of SavePack: the error of the backend is dropped.
SavePackIgnoresErrors(u) ==
  /\ uploader[u] = "save"
  /\ \/ stored' = stored \cup {task[u]}
     \/ SaveMayFail(UploaderScope) /\ UNCHANGED stored
  /\ UploaderTo(u, "store")
  /\ UNCHANGED <<listed, pending, indexVars, packer, saverVars, task, mainVars, scope, saverErr, accepted>>

\* savePacker stores the pack.  When it fails, the pack may have arrived nevertheless.
SavePack(u) ==
  /\ uploader[u] = "save"
  /\ \/ /\ stored' = stored \cup {task[u]}
        /\ UploaderTo(u, "store")
        /\ UNCHANGED scope
     \/ /\ SaveMayFail(UploaderScope)
        /\ stored' \in {stored, stored \cup {task[u]}}
        /\ UploaderFails(u)
  /\ UNCHANGED <<listed, pending, indexVars, packer, saverVars, task, mainVars, saverErr, accepted>>

\* MasterIndex.StorePack: the blobs of the pack move from pending to the open index.
StorePack(u) ==
  /\ uploader[u] = "store"
  /\ pending' = pending \ task[u]
  /\ open' = open \cup {task[u]}
  /\ UploaderTo(u, "full")
  /\ UNCHANGED <<backendVars, job, saved, merged, packer, saverVars, task, mainVars, scope, saverErr, accepted>>

\* IndexFull: by its size, or by its age at any time.
MustBeFull == Cardinality(UNION open) >= IndexMax

\* The open index becomes final: goroutine w is going to save it.
Finalize(w) ==
  /\ job' = [job EXCEPT ![w] = open]
  /\ open' = {}

\* finalizeFullIndexes.
FinalizeFullIndexes(u) ==
  /\ uploader[u] = "full"
  /\ \/ /\ open # {}
        /\ Finalize(u)
        /\ UploaderTo(u, "index")
     \/ /\ open = {} \/ ~MustBeFull
        /\ UploaderTo(u, "merge")
        /\ UNCHANGED <<open, job>>
  /\ UNCHANGED <<backendVars, pending, saved, merged, packer, saverVars, task, mainVars, scope, saverErr, accepted>>

\* SaveIndex stores the index as a file.
IndexSaved(w) ==
  /\ listed' = listed \cup job[w]
  /\ saved' = saved \cup job[w]
  /\ job' = [job EXCEPT ![w] = {}]

\* SaveIndex fails: the index gets an ID all the same; the file may have arrived.
IndexNotSaved(w, s) ==
  /\ SaveMayFail(s)
  /\ listed' \in {listed, listed \cup job[w]}
  /\ saved' = saved \cup job[w]
  /\ job' = [job EXCEPT ![w] = {}]

\* saveIndex, called by SaveFullIndex.
SaveFullIndex(u) ==
  /\ uploader[u] = "index"
  /\ \/ /\ IndexSaved(u)
        /\ UploaderTo(u, "merge")
        /\ UNCHANGED scope
     \/ /\ IndexNotSaved(u, UploaderScope)
        /\ UploaderFails(u)
  /\ UNCHANGED <<stored, pending, open, merged, packer, saverVars, task, mainVars, saverErr, accepted>>

\* MergeFinalIndexes merges the final indexes that have an ID into the first one.
MergeFinalIndexes ==
  /\ merged' = merged \cup saved
  /\ saved' = {}

\* The end of savePacker.
PackerSaved(u) ==
  /\ uploader[u] = "merge"
  /\ MergeFinalIndexes
  /\ UploaderTo(u, "idle")
  /\ task' = [task EXCEPT ![u] = {}]
  /\ UNCHANGED <<backendVars, pending, open, job, packer, saverVars, mainVars, scope, saverErr, accepted>>

\* An idle uploader returns when the queue is closed or its context is cancelled.
UploaderStops(u) ==
  /\ uploader[u] = "idle"
  /\ \/ main = "wait" /\ UploaderTo(u, "done")
     \/ Cancelled(UploaderScope) /\ UploaderTo(u, "failed")
  /\ UNCHANGED <<backendVars, pending, indexVars, packer, saverVars, task, mainVars, scope, saverErr, accepted>>

UploadersEnded == \A u \in Uploader : uploader[u] \in {"done", "failed"}
UploadFailed == \E u \in Uploader : uploader[u] = "failed"

\* The goroutine that StartPackUploader adds to the group passes the error on, once
\* all uploaders have returned.
NotifyGroup ==
  /\ main \notin {"off", "dead"}
  /\ UploadersEnded /\ UploadFailed
  /\ ~Cancelled(GroupScope)
  /\ Cancel(GroupScope)
  /\ UNCHANGED <<backendVars, pending, indexVars, packer, saverVars, uploaderVars, mainVars, saverErr, accepted>>

-----------------------------------------------------------------------------
(* The caller: Archiver.Snapshot and Repack *)

MainTo(to) == main' = to /\ UNCHANGED <<failed, committed>>

\* StartPackUploader, with a new context and new errgroups.
StartPackUploader ==
  /\ main = "off"
  /\ Retry \/ ~failed
  /\ uploader' = [u \in Uploader |-> "idle"]
  /\ scope' = NoScope
  /\ saverErr' = FALSE
  /\ accepted' = {}
  /\ MainTo("run")
  /\ UNCHANGED <<backendVars, pending, indexVars, packer, saverVars, task>>

\* The caller gives up with an error and leaves the uploader behind.
Abandon ==
  /\ main' = "dead"
  /\ failed' = TRUE
  /\ Cancel(GroupScope)
  /\ UNCHANGED committed

\* The savers are done: the caller goes on to Flush, or returns their error.
SaversDone ==
  /\ main = "run"
  /\ \A s \in Saver : saver[s] = "idle"
  /\ \/ ~saverErr /\ MainTo("tree") /\ UNCHANGED scope
     \/ (saverErr \/ Cancelled(GroupScope)) /\ Abandon
  /\ UNCHANGED <<backendVars, pending, indexVars, packer, saverVars, uploaderVars, saverErr, accepted>>

\* packerManager.Flush of the packer for blobs of type t.
FlushPacker(t, next) ==
  /\ main = t
  /\ \/ /\ packer[t] = {}
        /\ MainTo(next)
        /\ UNCHANGED <<packer, uploaderVars, scope>>
     \/ /\ packer[t] # {}
        /\ \E u \in Uploader : Receive(u, packer[t])
        /\ packer' = [packer EXCEPT ![t] = {}]
        /\ MainTo(next)
        /\ UNCHANGED scope
     \/ /\ packer[t] # {}
        /\ Cancelled(FlushScope)
        /\ Abandon
        /\ UNCHANGED <<packer, uploaderVars>>
  /\ UNCHANGED <<backendVars, pending, indexVars, saverVars, saverErr, accepted>>

\* flushPacks flushes the packer for trees, then the one for data.
FlushPackers == FlushPacker("tree", "data") \/ FlushPacker("data", "close")

\* TriggerShutdown closes the queue.
TriggerShutdown ==
  /\ main = "close"
  /\ MainTo("wait")
  /\ UNCHANGED <<backendVars, pending, indexVars, packer, saverVars, uploaderVars, scope, saverErr, accepted>>

\* Flush returns an error.
FlushFails ==
  /\ main' = "off"
  /\ failed' = TRUE
  /\ UNCHANGED committed

\* Mutant of WaitUploaders: the error of the uploaders is dropped.
WaitIgnoresErrors ==
  /\ main = "wait"
  /\ UploadersEnded
  /\ MainTo("final")
  /\ UNCHANGED <<backendVars, pending, indexVars, packer, saverVars, uploaderVars, scope, saverErr, accepted>>

\* packerWg.Wait at the end of flushPacks.
WaitUploaders ==
  /\ main = "wait"
  /\ UploadersEnded
  /\ \/ UploadFailed /\ FlushFails
     \/ ~UploadFailed /\ MainTo("final")
  /\ UNCHANGED <<backendVars, pending, indexVars, packer, saverVars, uploaderVars, scope, saverErr, accepted>>

\* finalizeNotFinalIndexes, called by SaveIndex.
FinalizeNotFinalIndexes ==
  /\ main = "final"
  /\ \/ open # {} /\ Finalize(Main) /\ MainTo("index")
     \/ open = {} /\ MainTo("merge") /\ UNCHANGED <<open, job>>
  /\ UNCHANGED <<backendVars, pending, saved, merged, packer, saverVars, uploaderVars, scope, saverErr, accepted>>

\* saveIndex, called by SaveIndex.
SaveIndex ==
  /\ main = "index"
  /\ \/ IndexSaved(Main) /\ MainTo("merge")
     \/ IndexNotSaved(Main, FlushScope) /\ FlushFails
  /\ UNCHANGED <<stored, pending, open, merged, packer, saverVars, uploaderVars, scope, saverErr, accepted>>

\* Flush returns without an error.
FlushReturns ==
  /\ main = "merge"
  /\ MergeFinalIndexes
  /\ main' = "off"
  /\ committed' = committed \cup accepted
  /\ UNCHANGED <<backendVars, pending, open, job, packer, saverVars, uploaderVars, failed, scope, saverErr, accepted>>

-----------------------------------------------------------------------------
(* The outside *)

\* The user cancels the operation.
UserCancels ==
  /\ "cancel" \in Faults
  /\ main \notin {"off", "dead"}
  /\ ~Cancelled(CallerScope)
  /\ Cancel(CallerScope)
  /\ UNCHANGED <<backendVars, pending, indexVars, packer, saverVars, uploaderVars, mainVars, saverErr, accepted>>

\* The process ends, wherever it is; another one opens the repository and loads the index.
Restart ==
  /\ main # "off" \/ failed
  /\ Loaded
  /\ merged' = listed
  /\ UNCHANGED <<backendVars, committed>>

-----------------------------------------------------------------------------

SaverStep(s) == AddBlob(s) \/ QueuePacker(s)

UploaderStep(u) ==
  \/ SavePack(u) \/ StorePack(u) \/ FinalizeFullIndexes(u) \/ SaveFullIndex(u)
  \/ PackerSaved(u) \/ UploaderStops(u)

FlushStep ==
  \/ FlushPackers \/ TriggerShutdown \/ WaitUploaders
  \/ FinalizeNotFinalIndexes \/ SaveIndex \/ FlushReturns

Next ==
  \/ \E s \in Saver : SaverStep(s) \/ \E b \in Blob : SaveBlob(s, b)
  \/ \E u \in Uploader : UploaderStep(u)
  \/ NotifyGroup
  \/ FlushStep
  \/ StartPackUploader \/ SaversDone
  \/ UserCancels \/ Restart

Spec == Init /\ [][Next]_vars

\* The goroutines run: a step that stays possible is taken.  Savers that compete for a
\* mutex or an uploader get it in the end, as Go's mutexes and channels guarantee.
Fairness ==
  /\ \A s \in Saver : SF_vars(SaverStep(s))
  /\ \A u \in Uploader : WF_vars(UploaderStep(u))
  /\ WF_vars(NotifyGroup)
  /\ WF_vars(FlushStep)

FairSpec == Spec /\ Fairness

-----------------------------------------------------------------------------
(* Properties *)

\* The blob can be found through an index file and a pack file: it survives a crash.
Durable == UNION (listed \cap stored)

\* An index, in memory or in the backend, only lists packs that are in the backend,
\* whatever fails and whenever the process ends (savePacker: Save, then StorePack).
IndexedPacksStored == InIndex \cup listed \subseteq stored

\* When Flush has returned nil, every blob that SaveBlob has accepted before is
\* durable, also if SaveBlob reported it as known while it was still pending.
FlushCommits == committed \subseteq Durable

\* Everywhere the process has blob b: in a packer, with a saver, with an uploader, or in a
\* pack of the index.
PlacesOf(b) ==
  {<<"packer", t>> : t \in {t \in Type : b \in packer[t]}}
  \cup {<<"saver", s>> : s \in {s \in Saver : b \in cargo[s]}}
  \cup {<<"uploader", u>> : u \in {u \in Uploader : uploader[u] \in {"save", "store"} /\ b \in task[u]}}
  \cup {<<"index", p>> : p \in {p \in InIndex : b \in p}}

\* "It takes care that no duplicates are saved" (SaveBlob): a blob is never in two
\* places, however many savers bring it at the same time and whatever fails.
NoDuplicates == \A b \in Blob : \A x, y \in PlacesOf(b) : x = y

\* SaveBlob and Flush always return, even when uploads fail or the user cancels.
SavesReturn == \A s \in Saver : saver[s] # "idle" ~> saver[s] = "idle"
FlushEnds == main \notin {"off", "run", "dead"} ~> main \in {"off", "dead"}

\* Every call of SaveBlob and of Flush returns, whatever fails and whenever the caller cancels.
CallsEnd == SavesReturn /\ FlushEnds
=============================================================================
