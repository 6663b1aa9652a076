----------------------------- MODULE FileRestorer -----------------------------
(***************************************************************************)
(* Restoring the contents of files: fileRestorer.restoreFiles and          *)
(* downloadPack (internal/restorer/filerestorer.go) and filesWriter        *)
(* (fileswriter.go).                                                       *)
(*                                                                         *)
(* Workers download packs and write the blobs to all places where they     *)
(* are needed.  Several workers may write to one file: the first one       *)
(* creates it and keeps its mutex while it writes.  An open file is shared *)
(* and counted.  A part is one place of a blob in one file.                *)
(***************************************************************************)
EXTENDS Naturals, FiniteSets, Sequences

CONSTANTS
  Part,            \* the parts of the files
  FileOf,          \* the file of each part
  BlobOf,          \* the blob of each part
  PackOf,          \* the pack of each blob
  PackOrder,       \* the sequence of the packs, in the order of first access
  Present,         \* the files that exist before the restore, with other content
  Worker,          \* the goroutines that download packs
  Retries,         \* how often a download starts again after an error
  Abort,           \* whether the Error callback may return the error; it may return nil
  Faults,          \* what may fail: see ASSUME
  None

File == {FileOf[p] : p \in Part}
Blob == {BlobOf[p] : p \in Part}
Pack == {PackOf[b] : b \in Blob}

ASSUME RestoreAssumption ==
  /\ Part # {} /\ None \notin Part /\ None \notin Pack
  /\ PackOrder \in Seq(Pack)
  /\ \A k \in Pack : \E i \in 1 .. Len(PackOrder) : PackOrder[i] = k
  /\ Present \subseteq File
  /\ IsFiniteSet(Worker)
  /\ Retries \in Nat
  /\ Abort \in BOOLEAN
  /\ Faults \subseteq {"load", "blob", "open", "truncate", "write", "cancel"}

PartsOf(f) == {p \in Part : FileOf[p] = f}
BlobsOf(k) == {b \in Blob : PackOf[b] = k}
FilesWith(b) == {FileOf[p] : p \in {q \in Part : BlobOf[q] = b}}
FilesOf(k) == UNION {FilesWith(b) : b \in BlobsOf(k)}

VARIABLES
  sent,            \* how many packs the main loop has sent
  loop,            \* the goroutine of the main loop
  worker,          \* what each worker is doing
  pack,            \* the pack it is downloading
  blobs,           \* the blobs of that pack it has not handled yet
  parts,           \* the parts of the current blob it has not written yet
  part,            \* the part it is writing
  creator,         \* the workers that hold the mutex of their file, to create it
  tries,           \* how often it has started the download again
  inProgress,      \* fileInfo.inProgress
  users,           \* partialFile.users (0: not open)
  exists,          \* the files that exist
  stale,           \* those that have content from before the restore
  disk,            \* the parts that each file has
  reported,        \* the files for which the Error callback was called
  cancelled,       \* whether the context of the group is cancelled
  result           \* what restoreFiles has returned

loopVars == <<sent, loop>>
streamVars == <<pack, blobs, parts, tries>>
fileVars == <<inProgress, users, exists, stale, disk>>
vars == <<loopVars, worker, streamVars, part, creator, fileVars, reported, cancelled, result>>

TypeOK ==
  /\ sent \in 0 .. Len(PackOrder)
  /\ loop \in {"run", "closed", "cancelled"}
  /\ worker \in [Worker -> {"idle", "stream", "open", "write", "close", "unwritten", "aborted", "done", "failed"}]
  /\ pack \in [Worker -> Pack \cup {None}]
  /\ blobs \in [Worker -> SUBSET Blob]
  /\ parts \in [Worker -> SUBSET Part]
  /\ part \in [Worker -> Part \cup {None}]
  /\ creator \subseteq Worker
  /\ tries \in [Worker -> 0 .. Retries]
  /\ inProgress \subseteq File
  /\ users \in [File -> 0 .. Cardinality(Worker) + 1]
  /\ exists \subseteq File
  /\ stale \subseteq exists
  /\ disk \in [File -> SUBSET Part]
  /\ reported \subseteq File
  /\ cancelled \in BOOLEAN
  /\ result \in {"none", "nil", "error"}

Init ==
  /\ sent = 0
  /\ loop = "run"
  /\ worker = [w \in Worker |-> "idle"]
  /\ pack = [w \in Worker |-> None]
  /\ blobs = [w \in Worker |-> {}]
  /\ parts = [w \in Worker |-> {}]
  /\ part = [w \in Worker |-> None]
  /\ creator = {}
  /\ tries = [w \in Worker |-> 0]
  /\ inProgress = {}
  /\ users = [f \in File |-> 0]
  /\ exists = Present
  /\ stale = Present
  /\ disk = [f \in File |-> {}]
  /\ reported = {}
  /\ cancelled = FALSE
  /\ result = "none"

Goto(w, to) == worker' = [worker EXCEPT ![w] = to]

-----------------------------------------------------------------------------
(* restoreFiles *)

\* The main loop gives the next pack to an idle worker.
SendPack(w) ==
  /\ loop = "run"
  /\ sent < Len(PackOrder)
  /\ worker[w] = "idle"
  /\ sent' = sent + 1
  /\ Goto(w, "stream")
  /\ pack' = [pack EXCEPT ![w] = PackOrder[sent + 1]]
  /\ blobs' = [blobs EXCEPT ![w] = BlobsOf(PackOrder[sent + 1])]
  /\ UNCHANGED <<loop, parts, tries, part, creator, fileVars, reported, cancelled, result>>

\* The main loop ends: it closes the channel, or returns because the context is cancelled.
LoopEnds ==
  /\ loop = "run"
  /\ \/ sent = Len(PackOrder) /\ loop' = "closed"
     \/ sent < Len(PackOrder) /\ cancelled /\ loop' = "cancelled"
  /\ UNCHANGED <<sent, worker, streamVars, part, creator, fileVars, reported, cancelled, result>>

\* Mutant of WorkerEnds: only one worker sees that the channel is closed.
WorkerEndsFirst(w) ==
  /\ worker[w] = "idle"
  /\ loop = "closed"
  /\ \A v \in Worker : worker[v] # "done"
  /\ Goto(w, "done")
  /\ UNCHANGED <<loopVars, streamVars, part, creator, fileVars, reported, cancelled, result>>

\* A worker returns when the channel is closed; it does not look at the context.
WorkerEnds(w) ==
  /\ worker[w] = "idle"
  /\ loop = "closed"
  /\ Goto(w, "done")
  /\ UNCHANGED <<loopVars, streamVars, part, creator, fileVars, reported, cancelled, result>>

\* wg.Wait.
Return ==
  /\ result = "none"
  /\ loop # "run"
  /\ \A w \in Worker : worker[w] \in {"done", "failed"}
  /\ result' = IF loop = "closed" /\ \A w \in Worker : worker[w] = "done" THEN "nil" ELSE "error"
  /\ UNCHANGED <<loopVars, worker, streamVars, part, creator, fileVars, reported, cancelled>>

-----------------------------------------------------------------------------
(* downloadPack *)

\* The worker is done with its pack.
PackDone(w, to) ==
  /\ Goto(w, to)
  /\ pack' = [pack EXCEPT ![w] = None]
  /\ blobs' = [blobs EXCEPT ![w] = {}]
  /\ parts' = [parts EXCEPT ![w] = {}]
  /\ tries' = [tries EXCEPT ![w] = 0]

\* sanitizeError for the files fs, when the callback returns the error for one of them:
\* the rest of fs is not reported.
Sanitize(fs) ==
  /\ Abort
  /\ \E told \in (SUBSET fs) \ {{}} : reported' = reported \cup told

\* The handler of a blob returns the error of the callback, which ends StreamPack.
AbortStream(w, fs) ==
  /\ Sanitize(fs)
  /\ Goto(w, "aborted")
  /\ blobs' = [blobs EXCEPT ![w] = {}]
  /\ parts' = [parts EXCEPT ![w] = {}]
  /\ UNCHANGED <<pack, tries, cancelled>>

\* Mutant of Report: only one of the files is reported.
ReportOneFile(fs) ==
  /\ \E f \in fs : reported' = reported \cup {f}
  /\ UNCHANGED cancelled

\* sanitizeError for the files fs, when the callback ignores the error.
Report(fs) ==
  /\ reported' = reported \cup fs
  /\ UNCHANGED cancelled

Streaming(w) == worker[w] = "stream" /\ parts[w] = {}

\* StreamPack has read a blob; it may be damaged.
ReadBlob(w) ==
  /\ Streaming(w)
  /\ \E b \in blobs[w] :
       \/ /\ blobs' = [blobs EXCEPT ![w] = @ \ {b}]
          /\ parts' = [parts EXCEPT ![w] = {p \in Part : BlobOf[p] = b}]
          /\ UNCHANGED <<worker, pack, tries, reported, cancelled>>
       \/ /\ "blob" \in Faults
          /\ \/ AbortStream(w, FilesWith(b))
             \/ /\ Report(FilesWith(b))
                /\ blobs' = [blobs EXCEPT ![w] = @ \ {b}]
                /\ UNCHANGED <<worker, pack, parts, tries>>
  /\ UNCHANGED <<loopVars, part, creator, fileVars, result>>

\* The download is interrupted and started again, at the first blob of the range it was in.
DownloadAgain(w) ==
  /\ Streaming(w)
  /\ "load" \in Faults
  /\ ~cancelled
  /\ tries[w] < Retries
  /\ tries' = [tries EXCEPT ![w] = @ + 1]
  /\ \E again \in SUBSET BlobsOf(pack[w]) :
       blobs' = [blobs EXCEPT ![w] = @ \cup again]
  /\ UNCHANGED <<loopVars, worker, pack, parts, part, creator, fileVars, reported, cancelled, result>>

\* StreamPack returns an error: the callback is called for all files of the pack.  If it
\* returns the error again so does the worker, which cancels the context of the group.
DownloadFails(w) ==
  /\ \/ Streaming(w) /\ ("load" \in Faults \/ cancelled)
     \/ worker[w] = "aborted"
  /\ \/ Sanitize(FilesOf(pack[w])) /\ PackDone(w, "failed") /\ cancelled' = TRUE
     \/ Report(FilesOf(pack[w])) /\ PackDone(w, "idle")
  /\ UNCHANGED <<loopVars, part, creator, fileVars, result>>

\* StreamPack returns nil.
DownloadDone(w) ==
  /\ Streaming(w)
  /\ blobs[w] = {}
  /\ PackDone(w, "idle")
  /\ UNCHANGED <<loopVars, part, creator, fileVars, reported, cancelled, result>>

-----------------------------------------------------------------------------
(* Writing one part *)

\* Somebody is creating file f and holds its mutex.
Locked(f) == \E w \in creator : FileOf[part[w]] = f

\* Mutant of StartWrite: inProgress is set after the file was created.
StartWriteUnmarked(w) ==
  /\ worker[w] = "stream"
  /\ \E p \in parts[w] :
       /\ ~Locked(FileOf[p])
       /\ part' = [part EXCEPT ![w] = p]
       /\ creator' = creator \cup {w}
  /\ Goto(w, "open")
  /\ UNCHANGED <<loopVars, streamVars, fileVars, reported, cancelled, result>>

\* The first part of a file is written with its mutex held, and creates the file.
StartWrite(w) ==
  /\ worker[w] = "stream"
  /\ \E p \in parts[w] :
       /\ ~Locked(FileOf[p])
       /\ part' = [part EXCEPT ![w] = p]
       /\ creator' = IF FileOf[p] \in inProgress THEN creator ELSE creator \cup {w}
       /\ inProgress' = inProgress \cup {FileOf[p]}
  /\ Goto(w, "open")
  /\ UNCHANGED <<loopVars, streamVars, users, exists, stale, disk, reported, cancelled, result>>

\* acquireWriter opens file f, creating or truncating it for its creator.  The entry stays
\* when truncateSparse fails.
OpenFile(w, f) ==
  \/ /\ w \in creator
     /\ users' = [users EXCEPT ![f] = 1]
     /\ exists' = exists \cup {f}
     /\ stale' = stale \ {f}
     /\ disk' = [disk EXCEPT ![f] = {}]
     /\ Goto(w, "write") \/ ("truncate" \in Faults /\ Goto(w, "unwritten"))
  \/ /\ w \notin creator
     /\ f \in exists
     /\ users' = [users EXCEPT ![f] = 1]
     /\ Goto(w, "write")
     /\ UNCHANGED <<exists, stale, disk>>
  \/ /\ "open" \in Faults \/ (w \notin creator /\ f \notin exists)
     /\ Goto(w, "unwritten")
     /\ UNCHANGED <<users, exists, stale, disk>>

\* acquireWriter uses a file that is open already.
AcquireWriter(w) ==
  /\ worker[w] = "open"
  /\ LET f == FileOf[part[w]]
     IN  \/ /\ users[f] > 0
            /\ users' = [users EXCEPT ![f] = @ + 1]
            /\ Goto(w, "write")
            /\ UNCHANGED <<exists, stale, disk>>
         \/ /\ users[f] = 0
            /\ OpenFile(w, f)
  /\ UNCHANGED <<loopVars, streamVars, part, creator, inProgress, reported, cancelled, result>>

\* releaseWriter closes the file for its last user.
ReleaseWriter(f) == users' = [users EXCEPT ![f] = @ - 1]

\* WriteAt fails, and the writer is released.
WriteFails(w) ==
  /\ worker[w] = "write"
  /\ "write" \in Faults
  /\ ReleaseWriter(FileOf[part[w]])
  /\ Goto(w, "unwritten")
  /\ UNCHANGED <<loopVars, streamVars, part, creator, inProgress, exists, stale, disk, reported, cancelled, result>>

WriteAt(w) ==
  /\ worker[w] = "write"
  /\ disk' = [disk EXCEPT ![FileOf[part[w]]] = @ \cup {part[w]}]
  /\ Goto(w, "close")
  /\ UNCHANGED <<loopVars, streamVars, part, creator, inProgress, users, exists, stale, reported, cancelled, result>>

\* The part is written; the creator releases the mutex of the file.
PartWritten(w) ==
  /\ worker[w] = "close"
  /\ ReleaseWriter(FileOf[part[w]])
  /\ parts' = [parts EXCEPT ![w] = @ \ {part[w]}]
  /\ part' = [part EXCEPT ![w] = None]
  /\ creator' = creator \ {w}
  /\ Goto(w, "stream")
  /\ UNCHANGED <<loopVars, pack, blobs, tries, inProgress, exists, stale, disk, reported, cancelled, result>>

\* Closing the file fails for its last user.
CloseFails(w) ==
  /\ worker[w] = "close"
  /\ "write" \in Faults
  /\ users[FileOf[part[w]]] = 1
  /\ ReleaseWriter(FileOf[part[w]])
  /\ Goto(w, "unwritten")
  /\ UNCHANGED <<loopVars, streamVars, part, creator, inProgress, exists, stale, disk, reported, cancelled, result>>

\* The part could not be written.
PartUnwritten(w) ==
  /\ worker[w] = "unwritten"
  /\ \/ AbortStream(w, {FileOf[part[w]]})
     \/ /\ Report({FileOf[part[w]]})
        /\ parts' = [parts EXCEPT ![w] = @ \ {part[w]}]
        /\ Goto(w, "stream")
        /\ UNCHANGED <<pack, blobs, tries>>
  /\ part' = [part EXCEPT ![w] = None]
  /\ creator' = creator \ {w}
  /\ UNCHANGED <<loopVars, fileVars, result>>

-----------------------------------------------------------------------------

\* The caller cancels the context.
UserCancels ==
  /\ "cancel" \in Faults
  /\ result = "none"
  /\ ~cancelled
  /\ cancelled' = TRUE
  /\ UNCHANGED <<loopVars, worker, streamVars, part, creator, fileVars, reported, result>>

WorkerStep(w) ==
  \/ SendPack(w) \/ WorkerEnds(w)
  \/ ReadBlob(w) \/ DownloadAgain(w) \/ DownloadFails(w) \/ DownloadDone(w)
  \/ StartWrite(w) \/ AcquireWriter(w) \/ WriteFails(w) \/ WriteAt(w)
  \/ PartWritten(w) \/ CloseFails(w) \/ PartUnwritten(w)

Next ==
  \/ \E w \in Worker : WorkerStep(w)
  \/ LoopEnds \/ Return \/ UserCancels

Spec == Init /\ [][Next]_vars

\* The goroutines run; a worker that waits for a mutex gets it in the end.
Fairness ==
  /\ \A w \in Worker : SF_vars(WorkerStep(w))
  /\ WF_vars(LoopEnds)
  /\ WF_vars(Return)

FairSpec == Spec /\ Fairness

-----------------------------------------------------------------------------
(* Properties *)

\* When restoreFiles returns nil, every file is complete and has nothing of an older file
\* in it, unless the Error callback was told of it.
RestoredOrReported ==
  result = "nil" =>
    \A f \in File \ reported : f \in exists \ stale /\ disk[f] = PartsOf(f)

\* "must create the file once and only once": no part that was written is ever lost again.
WritesKept == [][\A f \in File : disk[f] \subseteq disk'[f]]_vars

\* The workers that have file f open.
Writers(f) == {w \in Worker : worker[w] \in {"write", "close"} /\ FileOf[part[w]] = f}

\* users is a reference count: no worker closes a file that another one is writing to.  It
\* may be too high: the entry of a file for which truncateSparse failed keeps its first user.
HandlesCounted == \A f \in File : users[f] >= Cardinality(Writers(f))

\* restoreFiles returns.
Returns == <>(result # "none")

\* restoreFiles with workers that share files: a nil result means that each file is complete or
\* was reported, and no worker closes a file that another one writes to.
FilesRestored == TypeOK /\ RestoredOrReported /\ HandlesCounted
=============================================================================
