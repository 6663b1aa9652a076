---------------------------- MODULE RestoreProofs ----------------------------
(***************************************************************************)
(* Proofs about FileRestorer, for any files, packs, faults and number of   *)
(* workers: restoreFiles is exact (what it does not report it restores),   *)
(* and what is written stays.                                              *)
(***************************************************************************)
EXTENDS FileRestorer, FiniteSetTheorems, TLAPS

-----------------------------------------------------------------------------
(* restoreFiles: the inductive invariant *)

\* A worker that writes a part, from taking the mutex of the file on.
Writing(w) == worker[w] \in {"open", "write", "close", "unwritten"}

\* What a worker has at hand: the blobs and parts of its pack, and one part while it writes.
AtHand ==
  \A w \in Worker :
    /\ Writing(w) => part[w] \in parts[w]
    /\ worker[w] \notin {"stream", "open", "write", "close", "unwritten"} => blobs[w] = {} /\ parts[w] = {}
    /\ \A p \in parts[w] : PackOf[BlobOf[p]] = pack[w]
    /\ \A b \in blobs[w] : PackOf[b] = pack[w]

\* The worker that creates a file is the only one that writes to it, and has not written yet when
\* it opens it.
OneCreator ==
  /\ \A w \in creator : Writing(w)
  /\ \A w \in Worker : Writing(w) => FileOf[part[w]] \in inProgress
  /\ \A w \in creator : \A v \in Worker : v # w /\ Writing(v) => FileOf[part[v]] # FileOf[part[w]]
  /\ \A w \in creator : worker[w] = "open" => disk[FileOf[part[w]]] = {} /\ users[FileOf[part[w]]] = 0
  /\ \A f \in File \ inProgress : disk[f] = {} /\ users[f] = 0

\* A file has parts of its own only; a part that a worker has written is there.
DiskRight ==
  /\ \A f \in File : disk[f] \subseteq PartsOf(f)
  /\ \A w \in Worker : worker[w] = "close" => part[w] \in disk[FileOf[part[w]]]

\* A file that was begun is a new one, unless its creator has not opened it or cannot, which will
\* be reported.
BegunIsNew ==
  \A f \in inProgress \ reported :
    \/ f \in exists \ stale
    \/ \E w \in creator : FileOf[part[w]] = f /\ worker[w] \in {"open", "unwritten"}

\* users counts the workers that have the file open, and at most one that never closes it.
UsersCounted == \A f \in File : users[f] \in {Cardinality(Writers(f)), Cardinality(Writers(f)) + 1}

\* The packs that have not been sent to a worker.
Unsent == {PackOrder[i] : i \in sent + 1 .. Len(PackOrder)}

\* A worker has the part or its blob, or is about to report the files of its pack, or has failed.
HeldBy(w, p) ==
  \/ p \in parts[w] \/ BlobOf[p] \in blobs[w]
  \/ worker[w] = "aborted" /\ pack[w] = PackOf[BlobOf[p]]
  \/ worker[w] = "failed"

\* A part of a file that was not reported is written, or a worker has it, or its pack is still to
\* come.
Covered(p) ==
  \/ p \in disk[FileOf[p]]
  \/ PackOf[BlobOf[p]] \in Unsent
  \/ \E w \in Worker : HeldBy(w, p)

PartsCovered == \A p \in Part : FileOf[p] \in reported \/ Covered(p)

\* restoreFiles returns nil when all packs were sent and all workers have ended well.
NilMeansDone ==
  /\ loop = "closed" => sent = Len(PackOrder)
  /\ result = "nil" => loop = "closed" /\ \A w \in Worker : worker[w] = "done"

RestoreInv ==
  /\ TypeOK /\ AtHand /\ OneCreator /\ DiskRight /\ BegunIsNew /\ UsersCounted /\ PartsCovered /\ NilMeansDone

\* A step of a worker that has nothing to do with a file.
QuietStep(w) ==
  /\ UNCHANGED <<part, creator, fileVars>>
  /\ worker[w] \in {"idle", "stream", "aborted"}
  /\ \E l \in {"idle", "stream", "aborted", "done", "failed"} : worker' = [worker EXCEPT ![w] = l]

\* A step of the main loop, or of the caller.
LoopStep == LoopEnds \/ Return \/ UserCancels \/ UNCHANGED vars

\* These are the steps between the parts.
LEMMA QuietActions ==
  ASSUME TypeOK, NEW w \in Worker,
         SendPack(w) \/ WorkerEnds(w) \/ ReadBlob(w) \/ DownloadAgain(w) \/ DownloadFails(w) \/ DownloadDone(w)
  PROVE  QuietStep(w)
<1>1. worker \in [Worker -> {"idle", "stream", "open", "write", "close", "unwritten", "aborted", "done", "failed"}]
  BY Zenon DEF TypeOK
<1>2. CASE SendPack(w) \/ WorkerEnds(w)
  BY <1>2, <1>1, Zenon DEF QuietStep, SendPack, WorkerEnds, Goto
<1>3. CASE ReadBlob(w)
  BY <1>3, <1>1, Zenon DEF QuietStep, ReadBlob, AbortStream, Goto, Streaming
<1>4. CASE DownloadAgain(w) \/ DownloadDone(w)
  BY <1>4, <1>1, Zenon DEF QuietStep, DownloadAgain, DownloadDone, PackDone, Goto, Streaming
<1>5. CASE DownloadFails(w)
  BY <1>5, <1>1, Zenon DEF QuietStep, DownloadFails, PackDone, Goto, Streaming
<1> QED
  BY <1>2, <1>3, <1>4, <1>5, Zenon

\* They change nothing that a worker has.
LEMMA LoopActions == ASSUME LoopStep PROVE UNCHANGED <<sent, worker, streamVars, part, creator, fileVars, reported>>
BY Zenon DEF LoopStep, LoopEnds, Return, UserCancels, vars, loopVars, streamVars

\* A step of a worker leaves the other workers where they are.
Others(w) ==
  \A v \in Worker \ {w} :
    worker'[v] = worker[v] /\ pack'[v] = pack[v] /\ blobs'[v] = blobs[v] /\ parts'[v] = parts[v] /\ part'[v] = part[v]

LEMMA OthersStay == ASSUME TypeOK, NEW w \in Worker, WorkerStep(w) PROVE Others(w)
<1>1. /\ worker \in [Worker -> {"idle", "stream", "open", "write", "close", "unwritten", "aborted", "done", "failed"}]
      /\ pack \in [Worker -> Pack \cup {None}] /\ blobs \in [Worker -> SUBSET Blob] /\ parts \in [Worker -> SUBSET Part]
      /\ part \in [Worker -> Part \cup {None}]
  BY Zenon DEF TypeOK
<1> USE DEF Others, Goto, streamVars, PackDone, AbortStream
<1>2. CASE SendPack(w) \/ WorkerEnds(w)
  BY <1>2, <1>1, Zenon DEF SendPack, WorkerEnds
<1>3. CASE ReadBlob(w)
  BY <1>3, <1>1, Zenon DEF ReadBlob
<1>4. CASE DownloadAgain(w) \/ DownloadDone(w)
  BY <1>4, <1>1, Zenon DEF DownloadAgain, DownloadDone
<1>5. CASE DownloadFails(w)
  BY <1>5, <1>1, Zenon DEF DownloadFails
<1>6. CASE StartWrite(w) \/ AcquireWriter(w)
  BY <1>6, <1>1, Zenon DEF StartWrite, AcquireWriter, OpenFile
<1>7. CASE WriteFails(w) \/ WriteAt(w) \/ CloseFails(w)
  BY <1>7, <1>1, Zenon DEF WriteFails, WriteAt, CloseFails
<1>8. CASE PartWritten(w) \/ PartUnwritten(w)
  BY <1>8, <1>1, Zenon DEF PartWritten, PartUnwritten
<1> QED
  BY <1>2, <1>3, <1>4, <1>5, <1>6, <1>7, <1>8, Zenon DEF WorkerStep

\* The creator of a file truncates it before anybody has written to it.
LEMMA DiskGrows == ASSUME RestoreInv, [Next]_vars PROVE \A f \in File : disk[f] \subseteq disk'[f]
<1>1. disk \in [File -> SUBSET Part] /\ \A w \in creator : worker[w] = "open" => disk[FileOf[part[w]]] = {}
  BY Zenon DEF RestoreInv, TypeOK, OneCreator
<1>2. ASSUME NEW w \in Worker, AcquireWriter(w) PROVE \A f \in File : disk[f] \subseteq disk'[f]
  BY <1>1, <1>2, Zenon DEF AcquireWriter, OpenFile
<1>3. ASSUME NEW w \in Worker, WriteAt(w) PROVE \A f \in File : disk[f] \subseteq disk'[f]
  BY <1>1, <1>3, Zenon DEF WriteAt
<1>4. CASE UNCHANGED disk
  BY <1>4, Zenon
<1> QED
  BY <1>2, <1>3, <1>4, QuietActions, LoopActions, Zenon
     DEF Next, WorkerStep, LoopStep, RestoreInv, QuietStep, fileVars, StartWrite, WriteFails, PartWritten, CloseFails, PartUnwritten

\* What a worker gives up is written or reported.
LEMMA CoveredStep == ASSUME RestoreInv, [Next]_vars PROVE PartsCovered'
<1>1. /\ worker \in [Worker -> {"idle", "stream", "open", "write", "close", "unwritten", "aborted", "done", "failed"}]
      /\ pack \in [Worker -> Pack \cup {None}] /\ blobs \in [Worker -> SUBSET Blob] /\ parts \in [Worker -> SUBSET Part]
      /\ part \in [Worker -> Part \cup {None}]
  BY Zenon DEF RestoreInv, TypeOK
<1>2. PartsCovered /\ AtHand /\ DiskRight
  BY Zenon DEF RestoreInv
<1>3. \A p \in Part : p \in disk[FileOf[p]] => p \in disk'[FileOf[p]]
  BY DiskGrows, Zenon DEF File
<1>4. ASSUME NEW w \in Worker, Others(w), reported \subseteq reported', sent' = sent,
             \A p \in Part : HeldBy(w, p) => HeldBy(w, p)' \/ p \in disk'[FileOf[p]] \/ FileOf[p] \in reported'
      PROVE  PartsCovered'
  <2>1. \A v \in Worker \ {w} : \A p \in Part : HeldBy(v, p)' = HeldBy(v, p)
    BY <1>4, Zenon DEF HeldBy, Others
  <2>2. Unsent' = Unsent
    BY <1>4, Zenon DEF Unsent
  <2> HIDE DEF HeldBy, Unsent
  <2> QED
    BY <1>2, <1>3, <1>4, <2>1, <2>2, Zenon DEF PartsCovered, Covered
<1>5. ASSUME NEW w \in Worker, Others(w), SendPack(w) PROVE PartsCovered'
  <2>1. \A v \in Worker \ {w} : \A p \in Part : HeldBy(v, p)' = HeldBy(v, p)
    BY <1>5, Zenon DEF HeldBy, Others
  <2>2. \A p \in Part : ~HeldBy(w, p)
    BY <1>2, <1>5, Zenon DEF HeldBy, AtHand, SendPack
  <2>3. ASSUME NEW p \in Part, PackOf[BlobOf[p]] \in Unsent PROVE PackOf[BlobOf[p]] \in Unsent' \/ HeldBy(w, p)'
    <3>1. PICK i \in sent + 1 .. Len(PackOrder) : PackOrder[i] = PackOf[BlobOf[p]]
      BY <2>3, Zenon DEF Unsent
    <3>2. sent \in Nat /\ Len(PackOrder) \in Nat
      BY RestoreAssumption DEF RestoreInv, TypeOK
    <3>3. CASE i = sent + 1
      BY <1>1, <1>5, <3>1, <3>3, Zenon DEF SendPack, HeldBy, BlobsOf, Blob
    <3>4. CASE i \in sent + 2 .. Len(PackOrder)
      BY <1>5, <3>1, <3>2, <3>4 DEF SendPack, Unsent
    <3> QED
      BY <3>1, <3>2, <3>3, <3>4
  <2>4. reported' = reported
    BY <1>5, Zenon DEF SendPack
  <2> HIDE DEF HeldBy, Unsent
  <2> QED
    BY <1>2, <1>3, <2>1, <2>2, <2>3, <2>4, Zenon DEF PartsCovered, Covered
<1> USE DEF HeldBy, Goto
<1>6. ASSUME NEW w \in Worker, Others(w), ReadBlob(w) PROVE PartsCovered'
  <2>1. reported \subseteq reported' /\ sent' = sent
    BY <1>6, Zenon DEF ReadBlob, AbortStream, Sanitize, Report, loopVars
  <2>2. ASSUME NEW p \in Part, HeldBy(w, p) PROVE HeldBy(w, p)' \/ FileOf[p] \in reported'
    BY <1>1, <1>2, <1>6, <2>2 DEF ReadBlob, AbortStream, Report, Streaming, AtHand, FilesWith
  <2> QED
    BY <1>4, <1>6, <2>1, <2>2, Zenon
<1>7. ASSUME NEW w \in Worker, Others(w), DownloadFails(w) PROVE PartsCovered'
  <2>1. reported \subseteq reported' /\ sent' = sent
    BY <1>7, Zenon DEF DownloadFails, Sanitize, Report, loopVars
  <2>2. ASSUME NEW p \in Part, PackOf[BlobOf[p]] = pack[w] PROVE FileOf[p] \in FilesOf(pack[w])
    BY <2>2 DEF FilesOf, FilesWith, BlobsOf, Blob
  <2>3. ASSUME NEW p \in Part, HeldBy(w, p) PROVE HeldBy(w, p)' \/ FileOf[p] \in reported'
    BY <1>1, <1>2, <1>7, <2>2, <2>3, ZenonT(40) DEF DownloadFails, PackDone, Report, Streaming, AtHand
  <2> QED
    BY <1>4, <1>7, <2>1, <2>3, Zenon
<1>8. ASSUME NEW w \in Worker, Others(w), PartWritten(w) PROVE PartsCovered'
  <2>1. reported' = reported /\ sent' = sent /\ disk' = disk
    BY <1>8, Zenon DEF PartWritten, loopVars
  <2>2. ASSUME NEW p \in Part, HeldBy(w, p) PROVE HeldBy(w, p)' \/ p \in disk'[FileOf[p]]
    BY <1>1, <1>2, <1>8, <2>1, <2>2, Zenon DEF PartWritten, DiskRight
  <2> QED
    BY <1>4, <1>8, <2>1, <2>2, Zenon
<1>9. ASSUME NEW w \in Worker, Others(w), PartUnwritten(w) PROVE PartsCovered'
  <2>1. reported \subseteq reported' /\ sent' = sent
    BY <1>9, Zenon DEF PartUnwritten, AbortStream, Sanitize, Report, loopVars
  <2>2. ASSUME NEW p \in Part, HeldBy(w, p) PROVE HeldBy(w, p)' \/ FileOf[p] \in reported'
    BY <1>1, <1>2, <1>9, <2>2 DEF PartUnwritten, AbortStream, Report, AtHand
  <2> QED
    BY <1>4, <1>9, <2>1, <2>2, Zenon
<1>10. ASSUME NEW w \in Worker, Others(w), WorkerEnds(w) \/ DownloadAgain(w) \/ DownloadDone(w) PROVE PartsCovered'
  <2>1. reported' = reported /\ sent' = sent
    BY <1>10, Zenon DEF WorkerEnds, DownloadAgain, DownloadDone, loopVars
  <2>2. ASSUME NEW p \in Part, HeldBy(w, p) PROVE HeldBy(w, p)'
    BY <1>1, <1>10, <2>2, ZenonT(40) DEF WorkerEnds, DownloadAgain, DownloadDone, PackDone, Streaming, streamVars
  <2> QED
    BY <1>4, <1>10, <2>1, <2>2, Zenon
<1>11. ASSUME NEW w \in Worker, Others(w), StartWrite(w) \/ AcquireWriter(w) \/ WriteFails(w) \/ WriteAt(w) \/ CloseFails(w)
       PROVE PartsCovered'
  <2>1. reported' = reported /\ sent' = sent /\ UNCHANGED streamVars
    BY <1>11, Zenon DEF StartWrite, AcquireWriter, WriteFails, WriteAt, CloseFails, loopVars
  <2>2. worker[w] \notin {"aborted", "failed"}
    BY <1>11, Zenon DEF StartWrite, AcquireWriter, WriteFails, WriteAt, CloseFails
  <2>3. ASSUME NEW p \in Part, HeldBy(w, p) PROVE HeldBy(w, p)'
    BY <2>1, <2>2, <2>3, Zenon DEF streamVars
  <2> QED
    BY <1>4, <1>11, <2>1, <2>3, Zenon
<1>12. ASSUME LoopStep PROVE PartsCovered'
  <2>1. UNCHANGED <<sent, worker, pack, blobs, parts, disk, reported>>
    BY <1>12, LoopActions, ZenonT(30), Zenon DEF streamVars, fileVars
  <2> QED
    BY <1>2, <2>1, Zenon DEF PartsCovered, Covered, Unsent
<1> QED
  BY <1>5, <1>6, <1>7, <1>8, <1>9, <1>10, <1>11, <1>12, OthersStay, Zenon DEF Next, WorkerStep, LoopStep, RestoreInv

\* A worker handles the blobs of its pack and their parts one by one.
LEMMA AtHandStep == ASSUME RestoreInv, [Next]_vars PROVE AtHand'
<1>1. /\ worker \in [Worker -> {"idle", "stream", "open", "write", "close", "unwritten", "aborted", "done", "failed"}]
      /\ pack \in [Worker -> Pack \cup {None}] /\ blobs \in [Worker -> SUBSET Blob] /\ parts \in [Worker -> SUBSET Part]
      /\ part \in [Worker -> Part \cup {None}] /\ AtHand
  BY Zenon DEF RestoreInv, TypeOK
<1>2. ASSUME NEW w \in Worker, Others(w),
             Writing(w)' => part'[w] \in parts'[w],
             worker'[w] \notin {"stream", "open", "write", "close", "unwritten"} => blobs'[w] = {} /\ parts'[w] = {},
             \A p \in parts'[w] : PackOf[BlobOf[p]] = pack'[w], \A b \in blobs'[w] : PackOf[b] = pack'[w]
      PROVE  AtHand'
  BY <1>1, <1>2 DEF AtHand, Others, Writing
<1> USE DEF AtHand, Writing, Goto
<1>3. ASSUME NEW w \in Worker, Others(w), SendPack(w) \/ WorkerEnds(w) PROVE AtHand'
  BY <1>1, <1>2, <1>3 DEF SendPack, WorkerEnds, BlobsOf, streamVars
<1>4. ASSUME NEW w \in Worker, Others(w), ReadBlob(w) PROVE AtHand'
  BY <1>1, <1>2, <1>4 DEF ReadBlob, AbortStream, Streaming
<1>5. ASSUME NEW w \in Worker, Others(w), DownloadAgain(w) PROVE AtHand'
  BY <1>1, <1>2, <1>5 DEF DownloadAgain, Streaming, BlobsOf
<1>6. ASSUME NEW w \in Worker, Others(w), DownloadFails(w) \/ DownloadDone(w) PROVE AtHand'
  BY <1>1, <1>2, <1>6 DEF DownloadFails, DownloadDone, PackDone
<1>7. ASSUME NEW w \in Worker, Others(w), StartWrite(w) PROVE AtHand'
  BY <1>1, <1>2, <1>7, ZenonT(40) DEF StartWrite, streamVars
<1>8. ASSUME NEW w \in Worker, Others(w), AcquireWriter(w) \/ WriteFails(w) \/ WriteAt(w) \/ CloseFails(w) PROVE AtHand'
  BY <1>1, <1>2, <1>8 DEF AcquireWriter, OpenFile, WriteFails, WriteAt, CloseFails, streamVars
<1>9. ASSUME NEW w \in Worker, Others(w), PartWritten(w) \/ PartUnwritten(w) PROVE AtHand'
  BY <1>1, <1>2, <1>9 DEF PartWritten, PartUnwritten, AbortStream
<1>10. ASSUME LoopStep PROVE AtHand'
  BY <1>1, <1>10, LoopActions, ZenonT(40) DEF streamVars
<1> QED
  BY <1>3, <1>4, <1>5, <1>6, <1>7, <1>8, <1>9, <1>10, OthersStay, Zenon DEF Next, WorkerStep, LoopStep, RestoreInv

\* The creator of a file opens it and truncates it, or reports it.
LEMMA BegunStep == ASSUME RestoreInv, [Next]_vars PROVE BegunIsNew'
<1>1. /\ worker \in [Worker -> {"idle", "stream", "open", "write", "close", "unwritten", "aborted", "done", "failed"}]
      /\ part \in [Worker -> Part \cup {None}] /\ creator \subseteq Worker
  BY Zenon DEF RestoreInv, TypeOK
<1>2. /\ BegunIsNew /\ OneCreator
      /\ \A w \in creator : worker[w] = "open" => users[FileOf[part[w]]] = 0
  BY Zenon DEF RestoreInv, OneCreator
<1>3. ASSUME NEW w \in Worker, StartWrite(w) PROVE BegunIsNew'
  <2>1. PICK p : /\ part' = [part EXCEPT ![w] = p] /\ creator' = IF FileOf[p] \in inProgress THEN creator ELSE creator \cup {w}
                 /\ inProgress' = inProgress \cup {FileOf[p]}
    BY <1>3, Zenon DEF StartWrite
  <2>2. worker[w] = "stream" /\ worker' = [worker EXCEPT ![w] = "open"] /\ UNCHANGED <<exists, stale, reported>> /\ w \notin creator
    BY <1>2, <1>3, Zenon DEF StartWrite, Goto, OneCreator, Writing
  <2> QED
    BY <1>1, <1>2, <2>1, <2>2 DEF BegunIsNew
<1>4. ASSUME NEW w \in Worker, AcquireWriter(w) PROVE BegunIsNew'
  <2>1. UNCHANGED <<part, creator, inProgress, reported>> /\ exists \ stale \subseteq exists' \ stale'
    BY <1>4, Zenon DEF AcquireWriter, OpenFile
  <2>2. \A v \in Worker \ {w} : worker'[v] = worker[v]
    BY <1>1, <1>4, Zenon DEF AcquireWriter, OpenFile, Goto
  <2>3. w \in creator => worker'[w] = "unwritten" \/ FileOf[part[w]] \in exists' \ stale'
    BY <1>1, <1>2, <1>4 DEF AcquireWriter, OpenFile, Goto
  <2> QED
    BY <1>1, <1>2, <2>1, <2>2, <2>3 DEF BegunIsNew
<1>5. ASSUME NEW w \in Worker, WriteFails(w) \/ WriteAt(w) \/ CloseFails(w) PROVE BegunIsNew'
  BY <1>1, <1>2, <1>5 DEF WriteFails, WriteAt, CloseFails, Goto, BegunIsNew
<1>6. ASSUME NEW w \in Worker, PartWritten(w) PROVE BegunIsNew'
  BY <1>1, <1>2, <1>6, ZenonT(40) DEF PartWritten, Goto, BegunIsNew
<1>7. ASSUME NEW w \in Worker, PartUnwritten(w) PROVE BegunIsNew'
  <2>1. FileOf[part[w]] \in reported' /\ reported \subseteq reported'
    <3>1. ASSUME NEW f, NEW told \in (SUBSET {f}) \ {{}} PROVE f \in told
      <4>1. told # {} /\ told \subseteq {f}
        BY Zenon
      <4>2. PICK g : g \in told
        BY <4>1, Zenon
      <4> QED
        BY <4>1, <4>2, Zenon
    <3> QED
      BY <1>7, <3>1, Zenon DEF PartUnwritten, AbortStream, Sanitize, Report
  <2>2. \A v \in creator \ {w} : v \in creator' /\ part'[v] = part[v] /\ worker'[v] = worker[v]
    BY <1>1, <1>7, Zenon DEF PartUnwritten, AbortStream, Goto
  <2>3. UNCHANGED <<inProgress, exists, stale>>
    BY <1>7, Zenon DEF PartUnwritten, fileVars
  <2> QED
    BY <1>2, <2>1, <2>2, <2>3 DEF BegunIsNew
<1>8. ASSUME NEW w \in Worker, QuietStep(w), reported \subseteq reported' PROVE BegunIsNew'
  BY <1>1, <1>2, <1>8 DEF QuietStep, fileVars, BegunIsNew, OneCreator, Writing
<1>9. ASSUME NEW w, SendPack(w) \/ WorkerEnds(w) \/ ReadBlob(w) \/ DownloadAgain(w) \/ DownloadFails(w) \/ DownloadDone(w)
      PROVE  reported \subseteq reported'
  BY <1>9, Zenon DEF SendPack, WorkerEnds, ReadBlob, DownloadAgain, DownloadFails, DownloadDone, AbortStream, Sanitize, Report
<1>10. ASSUME LoopStep PROVE BegunIsNew'
  <2>1. UNCHANGED <<worker, part, creator, exists, stale, inProgress, reported>>
    BY <1>10, LoopActions, ZenonT(30), Zenon DEF fileVars
  <2> QED
    BY <1>2, <2>1, Zenon DEF BegunIsNew
<1> QED
  BY <1>3, <1>4, <1>5, <1>6, <1>7, <1>8, <1>9, <1>10, QuietActions, Zenon DEF Next, WorkerStep, LoopStep, RestoreInv

\* A file that somebody creates is locked, and one that was created is in progress.
LEMMA CreatorStep == ASSUME RestoreInv, [Next]_vars PROVE OneCreator'
<1>1. /\ worker \in [Worker -> {"idle", "stream", "open", "write", "close", "unwritten", "aborted", "done", "failed"}]
      /\ part \in [Worker -> Part \cup {None}] /\ creator \subseteq Worker /\ DOMAIN users = File /\ DOMAIN disk = File
      /\ \A w \in Worker : parts[w] \subseteq Part
  BY Zenon DEF RestoreInv, TypeOK
<1>2. OneCreator /\ \A w \in Worker : Writing(w) => FileOf[part[w]] \in File
  BY Zenon DEF RestoreInv, TypeOK, AtHand, File
<1> USE DEF OneCreator, Writing
<1>3. ASSUME NEW w \in Worker, StartWrite(w) PROVE OneCreator'
  <2>1. PICK p \in Part : /\ ~Locked(FileOf[p]) /\ part' = [part EXCEPT ![w] = p]
                          /\ creator' = IF FileOf[p] \in inProgress THEN creator ELSE creator \cup {w}
                          /\ inProgress' = inProgress \cup {FileOf[p]}
    BY <1>1, <1>3, Zenon DEF StartWrite
  <2>2. worker[w] = "stream" /\ worker' = [worker EXCEPT ![w] = "open"] /\ users' = users /\ disk' = disk
    BY <1>3, Zenon DEF StartWrite, Goto
  <2>3. w \notin creator /\ FileOf[p] \in File
    BY <1>2, <2>2, Zenon DEF File
  <2> QED
    BY <1>1, <1>2, <2>1, <2>2, <2>3 DEF Locked
<1>4. ASSUME NEW w \in Worker, Writing(w), NEW f, f = FileOf[part[w]], NEW l \in {"write", "close", "unwritten"},
             worker' = [worker EXCEPT ![w] = l], UNCHANGED <<part, creator, inProgress>>,
             \A g \in File \ {f} : users'[g] = users[g] /\ disk'[g] = disk[g]
      PROVE  OneCreator'
  BY <1>1, <1>2, <1>4
<1>5. ASSUME NEW w \in Worker, Writing(w), NEW f, f = FileOf[part[w]], NEW l \in {"stream", "aborted"},
             worker' = [worker EXCEPT ![w] = l], \A v \in Worker \ {w} : part'[v] = part[v], creator' = creator \ {w},
             inProgress' = inProgress, \A g \in File \ {f} : users'[g] = users[g] /\ disk'[g] = disk[g]
      PROVE  OneCreator'
  BY <1>1, <1>2, <1>5
<1>6. ASSUME NEW w \in Worker, AcquireWriter(w) PROVE OneCreator'
  <2>1. \E l \in {"write", "unwritten"} : worker' = [worker EXCEPT ![w] = l]
    BY <1>6, Zenon DEF AcquireWriter, OpenFile, Goto
  <2>2. \A g \in File \ {FileOf[part[w]]} : users'[g] = users[g] /\ disk'[g] = disk[g]
    BY <1>1, <1>6, Zenon DEF AcquireWriter, OpenFile
  <2> QED
    BY <1>4, <1>6, <2>1, <2>2, ZenonT(40) DEF AcquireWriter
<1>7. ASSUME NEW w \in Worker, WriteFails(w) \/ WriteAt(w) \/ CloseFails(w) PROVE OneCreator'
  <2>1. \E l \in {"close", "unwritten"} : worker' = [worker EXCEPT ![w] = l]
    BY <1>7, Zenon DEF WriteFails, WriteAt, CloseFails, Goto
  <2>2. \A g \in File \ {FileOf[part[w]]} : users'[g] = users[g] /\ disk'[g] = disk[g]
    BY <1>1, <1>7, Zenon DEF WriteFails, WriteAt, CloseFails, ReleaseWriter
  <2> QED
    BY <1>4, <1>7, <2>1, <2>2, Zenon DEF WriteFails, WriteAt, CloseFails
<1>8. ASSUME NEW w \in Worker, PartWritten(w) \/ PartUnwritten(w) PROVE OneCreator'
  <2>1. \E l \in {"stream", "aborted"} : worker' = [worker EXCEPT ![w] = l]
    BY <1>8, Zenon DEF PartWritten, PartUnwritten, AbortStream, Goto
  <2>2. \A g \in File \ {FileOf[part[w]]} : users'[g] = users[g] /\ disk'[g] = disk[g]
    BY <1>1, <1>8, Zenon DEF PartWritten, PartUnwritten, ReleaseWriter, fileVars
  <2>3. Writing(w) /\ (\A v \in Worker \ {w} : part'[v] = part[v]) /\ creator' = creator \ {w} /\ inProgress' = inProgress
    BY <1>1, <1>8, Zenon DEF PartWritten, PartUnwritten, fileVars
  <2> QED
    BY <1>5, <2>1, <2>2, <2>3, Zenon
<1>9. ASSUME NEW w \in Worker, QuietStep(w) PROVE OneCreator'
  BY <1>1, <1>2, <1>9, ZenonT(40) DEF QuietStep, fileVars
<1>10. ASSUME LoopStep PROVE OneCreator'
  BY <1>2, <1>10, LoopActions, Zenon DEF fileVars
<1> QED
  BY <1>3, <1>6, <1>7, <1>8, <1>9, <1>10, QuietActions, Zenon DEF Next, WorkerStep, LoopStep, RestoreInv

\* Parts are written to their file.
LEMMA DiskStep == ASSUME RestoreInv, [Next]_vars PROVE DiskRight'
<1>1. /\ worker \in [Worker -> {"idle", "stream", "open", "write", "close", "unwritten", "aborted", "done", "failed"}]
      /\ disk \in [File -> SUBSET Part] /\ DiskRight
      /\ \A w \in Worker : Writing(w) => part[w] \in Part /\ FileOf[part[w]] \in File
  BY Zenon DEF RestoreInv, TypeOK, AtHand, File
<1>2. ASSUME NEW w \in Worker, WriteAt(w) PROVE DiskRight'
  BY <1>1, <1>2 DEF WriteAt, DiskRight, PartsOf, Writing, Goto
<1>3. ASSUME \A f \in File : disk'[f] \subseteq disk[f],
             \A w \in Worker : worker'[w] = "close" => worker[w] = "close" /\ part'[w] = part[w]
      PROVE  DiskRight'
  BY <1>1, <1>3, DiskGrows, Zenon DEF DiskRight, Writing
<1>4. ASSUME NEW w \in Worker, Others(w), worker'[w] # "close", \A f \in File : disk'[f] \subseteq disk[f] PROVE DiskRight'
  BY <1>3, <1>4, Zenon DEF Others
<1>5. ASSUME NEW w \in Worker, WorkerStep(w), ~WriteAt(w) PROVE worker'[w] # "close" /\ \A f \in File : disk'[f] \subseteq disk[f]
  <2>1. CASE AcquireWriter(w)
    <3>1. disk' = disk \/ disk' = [disk EXCEPT ![FileOf[part[w]]] = {}]
      BY <2>1, Zenon DEF AcquireWriter, OpenFile
    <3>2. \E l \in {"write", "unwritten"} : worker' = [worker EXCEPT ![w] = l]
      BY <2>1, Zenon DEF AcquireWriter, OpenFile, Goto
    <3> QED
      BY <1>1, <3>1, <3>2, Zenon
  <2>2. CASE StartWrite(w) \/ WriteFails(w) \/ PartWritten(w) \/ CloseFails(w) \/ PartUnwritten(w)
    BY <1>1, <2>2, Zenon DEF StartWrite, WriteFails, PartWritten, CloseFails, PartUnwritten, AbortStream, Goto, fileVars
  <2>3. CASE QuietStep(w)
    BY <1>1, <2>3, Zenon DEF QuietStep, fileVars
  <2> QED
    BY <1>5, <2>1, <2>2, <2>3, QuietActions, Zenon DEF WorkerStep, RestoreInv
<1>6. ASSUME LoopStep PROVE DiskRight'
  BY <1>3, <1>6, LoopActions, Zenon DEF fileVars
<1> QED
  BY <1>2, <1>4, <1>5, <1>6, OthersStay, Zenon DEF Next, LoopStep, RestoreInv

\* wg.Wait returns nil when all workers have returned nil.
LEMMA NilStep == ASSUME RestoreInv, [Next]_vars PROVE NilMeansDone'
<1>1. /\ worker \in [Worker -> {"idle", "stream", "open", "write", "close", "unwritten", "aborted", "done", "failed"}]
      /\ NilMeansDone /\ TypeOK
  BY Zenon DEF RestoreInv, TypeOK
<1>2. ASSUME NEW w \in Worker, WorkerStep(w) PROVE worker[w] # "done" /\ loop' = loop /\ (loop = "closed" => sent' = sent) /\ result' = result
  <2>1. CASE SendPack(w) \/ WorkerEnds(w) \/ ReadBlob(w) \/ DownloadAgain(w) \/ DownloadFails(w) \/ DownloadDone(w)
    BY <2>1, Zenon DEF SendPack, WorkerEnds, ReadBlob, DownloadAgain, DownloadFails, DownloadDone, Streaming, loopVars
  <2>2. CASE StartWrite(w) \/ AcquireWriter(w) \/ WriteFails(w) \/ WriteAt(w) \/ PartWritten(w) \/ CloseFails(w) \/ PartUnwritten(w)
    BY <2>2, Zenon DEF StartWrite, AcquireWriter, WriteFails, WriteAt, PartWritten, CloseFails, PartUnwritten, loopVars
  <2> QED
    BY <1>2, <2>1, <2>2, Zenon DEF WorkerStep
<1>3. ASSUME NEW w \in Worker, WorkerStep(w) PROVE NilMeansDone'
  BY <1>1, <1>2, <1>3, Zenon DEF NilMeansDone
<1>4. ASSUME LoopStep PROVE NilMeansDone'
  BY <1>1, <1>4, Zenon DEF LoopStep, LoopEnds, Return, UserCancels, vars, loopVars, NilMeansDone
<1> QED
  BY <1>3, <1>4, Zenon DEF Next, LoopStep


\* The restore begins with the invariant.
LEMMA RestoreInit == ASSUME Init PROVE RestoreInv
<1>1. TypeOK
  <2>1. Cardinality(Worker) \in Nat /\ Len(PackOrder) \in Nat
    BY RestoreAssumption, FS_CardinalityType
  <2>2. 0 \in 0 .. Cardinality(Worker) + 1 /\ 0 \in 0 .. Len(PackOrder) /\ 0 \in 0 .. Retries /\ Present \subseteq File
    BY <2>1, RestoreAssumption
  <2> QED
    BY <2>2, Zenon DEF Init, TypeOK
<1>4. AtHand /\ OneCreator /\ DiskRight /\ BegunIsNew /\ NilMeansDone
  BY Zenon DEF Init, AtHand, OneCreator, DiskRight, BegunIsNew, NilMeansDone, Writing
<1>2. UsersCounted
  <2>1. \A f \in File : Writers(f) = {}
    BY Zenon DEF Init, Writers
  <2> QED
    BY <2>1, FS_EmptySet, Zenon DEF Init, UsersCounted
<1>3. PartsCovered
  <2>1. ASSUME NEW p \in Part PROVE PackOf[BlobOf[p]] \in Unsent
    <3>1. PackOf[BlobOf[p]] \in Pack
      BY Zenon DEF Pack, Blob
    <3>2. PICK i \in 1 .. Len(PackOrder) : PackOrder[i] = PackOf[BlobOf[p]]
      BY <3>1, RestoreAssumption, Zenon
    <3> QED
      BY <3>2 DEF Init, Unsent
  <2> QED
    BY <2>1, Zenon DEF PartsCovered, Covered
<1> QED
  BY <1>1, <1>2, <1>3, <1>4, Zenon DEF RestoreInv

\* There are finitely many workers, so those that have a file open can be counted.
LEMMA WritersCounted ==
  ASSUME NEW S \in SUBSET Worker
  PROVE  IsFiniteSet(S) /\ Cardinality(S) \in Nat /\ Cardinality(S) <= Cardinality(Worker) /\ Cardinality(Worker) \in Nat
BY RestoreAssumption, FS_Subset, FS_CardinalityType, Zenon

\* A worker opens a file, or closes it.
LEMMA WriterMoves ==
  ASSUME NEW f, NEW w \in Worker
  PROVE  /\ w \notin Writers(f) /\ Writers(f)' = Writers(f) \cup {w} => Cardinality(Writers(f)') = Cardinality(Writers(f)) + 1
         /\ w \in Writers(f) /\ Writers(f)' = Writers(f) \ {w} => Cardinality(Writers(f)') = Cardinality(Writers(f)) - 1
<1>1. IsFiniteSet(Writers(f))
  BY WritersCounted, Zenon DEF Writers
<1> QED
  BY <1>1, FS_AddElement, FS_RemoveElement

\* A worker that opens a file adds one to users, and one that closes it takes one off; truncateSparse fails only in
\* the creator, which nobody shares the file with.
LEMMA UsersStep == ASSUME RestoreInv, [Next]_vars PROVE UsersCounted'
<1>1. /\ worker \in [Worker -> {"idle", "stream", "open", "write", "close", "unwritten", "aborted", "done", "failed"}]
      /\ part \in [Worker -> Part \cup {None}] /\ users \in [File -> Nat]
      /\ \A w \in Worker : Writing(w) => FileOf[part[w]] \in File
  <2>1. TypeOK /\ AtHand /\ Cardinality(Worker) \in Nat
    BY WritersCounted, Zenon DEF RestoreInv
  <2> QED
    BY <2>1 DEF TypeOK, AtHand, File
<1>2. UsersCounted /\ \A f : Cardinality(Writers(f)) \in Nat
  BY WritersCounted, Zenon DEF RestoreInv, Writers
<1>3. ASSUME users' = users, \A f \in File : Writers(f)' = Writers(f) PROVE UsersCounted'
  BY <1>2, <1>3, Zenon DEF UsersCounted
<1>4. ASSUME NEW w \in Worker, worker[w] = "open", NEW f, f = FileOf[part[w]], part' = part, worker' = [worker EXCEPT ![w] = "write"],
             users' = [users EXCEPT ![f] = users[f] + 1]
      PROVE  UsersCounted'
  <2>1. w \notin Writers(f) /\ Writers(f)' = Writers(f) \cup {w} /\ \A g \in File \ {f} : Writers(g)' = Writers(g)
    BY <1>1, <1>4, Zenon DEF Writers
  <2>2. f \in File
    BY <1>1, <1>4, Zenon DEF Writing
  <2>3. Cardinality(Writers(f)') = Cardinality(Writers(f)) + 1
    BY <2>1, WriterMoves, Zenon
  <2> QED
    BY <1>1, <1>2, <1>4, <2>1, <2>2, <2>3, Zenon DEF UsersCounted
<1>5. ASSUME NEW w \in Worker, worker[w] \in {"write", "close"}, NEW f, f = FileOf[part[w]], NEW l \in {"stream", "unwritten"},
             worker' = [worker EXCEPT ![w] = l], \A v \in Worker \ {w} : part'[v] = part[v], users' = [users EXCEPT ![f] = @ - 1]
      PROVE  UsersCounted'
  <2>1. w \in Writers(f) /\ Writers(f)' = Writers(f) \ {w} /\ \A g \in File \ {f} : Writers(g)' = Writers(g)
    BY <1>1, <1>5, ZenonT(40) DEF Writers
  <2>2. f \in File
    BY <1>1, <1>5, Zenon DEF Writing
  <2>3. Cardinality(Writers(f)') = Cardinality(Writers(f)) - 1
    BY <2>1, WriterMoves, Zenon
  <2>4. users'[f] = users[f] - 1 /\ \A g \in File \ {f} : users'[g] = users[g]
    BY <1>1, <1>5, <2>2, Zenon
  <2>5. users'[f] \in {Cardinality(Writers(f)'), Cardinality(Writers(f)') + 1}
    <3>1. users[f] \in Nat /\ Cardinality(Writers(f)) \in Nat /\ users[f] \in {Cardinality(Writers(f)), Cardinality(Writers(f)) + 1}
      BY <1>1, <1>2, <2>2, Zenon DEF UsersCounted
    <3> QED
      BY <2>3, <2>4, <3>1
  <2> QED
    BY <1>2, <2>1, <2>4, <2>5, Zenon DEF UsersCounted
<1>6. ASSUME NEW w \in Worker, AcquireWriter(w) PROVE UsersCounted'
  <2>1. PICK f : f = FileOf[part[w]] /\ f \in File
    BY <1>1, <1>6, Zenon DEF AcquireWriter, Writing
  <2>2. CASE worker' = [worker EXCEPT ![w] = "write"]
    <3>1. users' = [users EXCEPT ![f] = users[f] + 1]
      BY <1>1, <1>6, <2>1, <2>2 DEF AcquireWriter, OpenFile, Goto
    <3> QED
      BY <1>4, <1>6, <2>1, <2>2, <3>1, Zenon DEF AcquireWriter
  <2>3. CASE worker' = [worker EXCEPT ![w] = "unwritten"]
    <3>1. \A g \in File : Writers(g)' = Writers(g)
      BY <1>1, <1>6, <2>3, Zenon DEF AcquireWriter, Writers
    <3>2. users' = users \/ (users[f] = 0 /\ users' = [users EXCEPT ![f] = 1])
      BY <1>6, <2>1, <2>3, <1>1, Zenon DEF AcquireWriter, OpenFile, Goto
    <3> QED
      BY <1>1, <1>2, <1>3, <2>1, <3>1, <3>2 DEF UsersCounted
  <2> QED
    BY <1>6, <2>2, <2>3, Zenon DEF AcquireWriter, OpenFile, Goto
<1>7. ASSUME NEW w \in Worker, WriteFails(w) \/ PartWritten(w) \/ CloseFails(w) PROVE UsersCounted'
  BY <1>1, <1>5, <1>7, Zenon DEF WriteFails, PartWritten, CloseFails, ReleaseWriter, Goto
<1>8. ASSUME NEW w \in Worker, StartWrite(w) \/ WriteAt(w) \/ PartUnwritten(w) PROVE UsersCounted'
  <2>1. users' = users
    BY <1>8, Zenon DEF StartWrite, WriteAt, PartUnwritten, fileVars
  <2>2. \A f \in File : Writers(f)' = Writers(f)
    BY <1>1, <1>8, Zenon DEF StartWrite, WriteAt, PartUnwritten, AbortStream, Goto, Writers
  <2> QED
    BY <1>3, <2>1, <2>2, Zenon
<1>9. ASSUME NEW w \in Worker, QuietStep(w) PROVE UsersCounted'
  <2>1. users' = users /\ \A f \in File : Writers(f)' = Writers(f)
    BY <1>1, <1>9, Zenon DEF QuietStep, Writers, fileVars
  <2> QED
    BY <1>3, <2>1, Zenon
<1>10. ASSUME LoopStep PROVE UsersCounted'
  BY <1>3, <1>10, LoopActions, Zenon DEF Writers, fileVars
<1> QED
  BY <1>6, <1>7, <1>8, <1>9, <1>10, QuietActions, Zenon DEF Next, WorkerStep, LoopStep, RestoreInv

\* Types stay right.
LEMMA TypesStep == ASSUME RestoreInv, [Next]_vars PROVE TypeOK'
<1>1. TypeOK /\ AtHand
  BY Zenon DEF RestoreInv
<1>2. users' \in [File -> 0 .. Cardinality(Worker) + 1]
  <2>1. Cardinality(Worker) \in Nat /\ \A f \in File : users'[f] \in 0 .. Cardinality(Worker) + 1
    <3>1. ASSUME NEW f \in File PROVE users'[f] \in 0 .. Cardinality(Worker) + 1
      <4>1. Writers(f)' \subseteq Worker
        BY Zenon DEF Writers
      <4>2. Cardinality(Writers(f)') \in Nat /\ Cardinality(Writers(f)') <= Cardinality(Worker) /\ Cardinality(Worker) \in Nat
        BY <4>1, WritersCounted, Zenon
      <4>3. users'[f] \in {Cardinality(Writers(f)'), Cardinality(Writers(f)') + 1}
        BY UsersStep, Zenon DEF UsersCounted
      <4> QED
        BY <4>2, <4>3
    <3> QED
      BY <3>1, WritersCounted, Zenon
  <2>2. users' = [f \in File |-> users'[f]]
    <3>1. users = [f \in File |-> users[f]]
      BY <1>1, Zenon DEF TypeOK
    <3>2. ASSUME NEW w \in Worker, WorkerStep(w) PROVE users' = users \/ \E f, n : users' = [users EXCEPT ![f] = n]
      <4>1. CASE AcquireWriter(w)
        BY <4>1, Zenon DEF AcquireWriter, OpenFile
      <4>2. CASE WriteFails(w) \/ PartWritten(w) \/ CloseFails(w)
        BY <4>2, Zenon DEF WriteFails, PartWritten, CloseFails, ReleaseWriter
      <4>3. CASE StartWrite(w) \/ WriteAt(w) \/ PartUnwritten(w)
        BY <4>3, Zenon DEF StartWrite, WriteAt, PartUnwritten, fileVars
      <4> QED
        BY <1>1, <3>2, <4>1, <4>2, <4>3, QuietActions, Zenon DEF WorkerStep, QuietStep, fileVars
    <3>3. users' = users \/ \E f, n : users' = [users EXCEPT ![f] = n]
      BY <3>2, LoopActions, Zenon DEF Next, LoopStep, fileVars
    <3> QED
      BY <3>1, <3>3, Zenon
  <2> QED
    BY <2>1, <2>2, Zenon
<1>14. (\A b : FilesWith(b) \subseteq File) /\ (\A k : FilesOf(k) \subseteq File)
  BY Zenon DEF FilesWith, FilesOf, File
<1> USE DEF TypeOK, Goto, loopVars, streamVars
<1>3. ASSUME NEW w \in Worker, SendPack(w) PROVE TypeOK'
  <2>1. Len(PackOrder) \in Nat /\ PackOrder[sent + 1] \in Pack
    BY <1>1, <1>3, RestoreAssumption DEF SendPack
  <2>2. BlobsOf(PackOrder[sent + 1]) \subseteq Blob
    BY Zenon DEF BlobsOf
  <2> QED
    BY <1>1, <1>2, <1>3, <2>1, <2>2 DEF SendPack, fileVars
<1>4. ASSUME NEW w \in Worker, WorkerEnds(w) PROVE TypeOK'
  BY <1>1, <1>2, <1>4, Zenon DEF WorkerEnds, fileVars
<1>5. ASSUME NEW w \in Worker, ReadBlob(w) PROVE TypeOK'
  <2>1. reported' \subseteq File
    BY <1>1, <1>5, <1>14, Zenon DEF ReadBlob, AbortStream, Sanitize, Report
  <2> QED
    BY <1>1, <1>2, <1>5, <2>1, ZenonT(30) DEF ReadBlob, AbortStream, Report, fileVars
<1>6. ASSUME NEW w \in Worker, DownloadAgain(w) PROVE TypeOK'
  BY <1>1, <1>2, <1>6, RestoreAssumption DEF DownloadAgain, fileVars, BlobsOf
<1>7. ASSUME NEW w \in Worker, DownloadFails(w) \/ DownloadDone(w) PROVE TypeOK'
  <2>1. reported' \subseteq File /\ cancelled' \in BOOLEAN
    BY <1>1, <1>7, <1>14, Zenon DEF DownloadFails, DownloadDone, Sanitize, Report
  <2>2. UNCHANGED <<sent, loop, part, creator, fileVars, result>> /\ (PackDone(w, "idle") \/ PackDone(w, "failed"))
    BY <1>7, Zenon DEF DownloadFails, DownloadDone
  <2>3. 0 \in 0 .. Retries
    BY RestoreAssumption
  <2> QED
    BY <1>1, <2>1, <2>2, <2>3, ZenonT(30) DEF PackDone, fileVars
<1>8. ASSUME NEW w \in Worker, StartWrite(w) PROVE TypeOK'
  BY <1>1, <1>2, <1>8, ZenonT(40) DEF StartWrite, File
<1>9. ASSUME NEW w \in Worker, AcquireWriter(w) PROVE TypeOK'
  <2>1. FileOf[part[w]] \in File
    BY <1>1, <1>9, ZenonT(40) DEF AcquireWriter, AtHand, Writing, File
  <2> QED
    BY <1>1, <1>2, <1>9, <2>1, Zenon DEF AcquireWriter, OpenFile
<1>10. ASSUME NEW w \in Worker, WriteFails(w) \/ WriteAt(w) \/ CloseFails(w) PROVE TypeOK'
  <2>1. FileOf[part[w]] \in File /\ part[w] \in Part
    BY <1>1, <1>10, Zenon DEF WriteFails, WriteAt, CloseFails, AtHand, Writing, File
  <2>2. disk' \in [File -> SUBSET Part]
    <3>1. disk[FileOf[part[w]]] \cup {part[w]} \in SUBSET Part
      BY <1>1, <2>1, Zenon
    <3>2. disk' = disk \/ disk' = [disk EXCEPT ![FileOf[part[w]]] = @ \cup {part[w]}]
      BY <1>10, Zenon DEF WriteFails, WriteAt, CloseFails
    <3>3. disk \in [File -> SUBSET Part]
      BY <1>1, Zenon
    <3> HIDE DEF TypeOK
    <3> QED
      BY <3>1, <3>2, <3>3, Zenon
  <2> QED
    BY <1>1, <1>2, <1>10, <2>2, ZenonT(30), Zenon DEF WriteFails, WriteAt, CloseFails
<1>11. ASSUME NEW w \in Worker, PartWritten(w) PROVE TypeOK'
  BY <1>1, <1>2, <1>11, Zenon DEF PartWritten
<1>12. ASSUME NEW w \in Worker, PartUnwritten(w) PROVE TypeOK'
  <2>1. reported' \subseteq File
    BY <1>1, <1>12 DEF PartUnwritten, AbortStream, Sanitize, Report, AtHand, Writing, File
  <2> QED
    BY <1>1, <1>2, <1>12, <2>1, ZenonT(30), Zenon DEF PartUnwritten, AbortStream, Report, fileVars
<1>13. ASSUME LoopStep PROVE TypeOK'
  BY <1>1, <1>13, Zenon DEF LoopStep, LoopEnds, Return, UserCancels, vars, fileVars
<1> QED
  BY <1>3, <1>4, <1>5, <1>6, <1>7, <1>8, <1>9, <1>10, <1>11, <1>12, <1>13, Zenon DEF Next, WorkerStep, LoopStep

\* The invariant implies the properties.
LEMMA RestoreInvMeans == ASSUME RestoreInv PROVE FilesRestored
<1>1. HandlesCounted
  <2>1. \A f \in File : Cardinality(Writers(f)) \in Nat
    BY WritersCounted, Zenon DEF Writers
  <2> QED
    BY <2>1 DEF RestoreInv, UsersCounted, HandlesCounted
<1>2. ASSUME result = "nil", NEW f \in File \ reported PROVE f \in exists \ stale /\ disk[f] = PartsOf(f)
  <2>1. loop = "closed" /\ sent = Len(PackOrder) /\ \A w \in Worker : worker[w] = "done"
    BY <1>2, Zenon DEF RestoreInv, NilMeansDone
  <2>2. ASSUME NEW p \in PartsOf(f) PROVE p \in disk[f]
    <3>1. Unsent = {}
      <4>1. Len(PackOrder) \in Nat
        BY RestoreAssumption
      <4> QED
        BY <2>1, <4>1 DEF Unsent
    <3>2. \A w \in Worker : ~HeldBy(w, p)
      BY <2>1, Zenon DEF RestoreInv, AtHand, HeldBy
    <3> QED
      BY <1>2, <2>2, <3>1, <3>2, Zenon DEF RestoreInv, PartsCovered, Covered, PartsOf
  <2>3. disk[f] = PartsOf(f)
    BY <2>2, Zenon DEF RestoreInv, DiskRight
  <2>4. f \in inProgress
    BY <2>3, Zenon DEF RestoreInv, OneCreator, PartsOf, File
  <2>5. creator = {}
    BY <2>1, Zenon DEF RestoreInv, TypeOK, OneCreator, Writing
  <2> QED
    BY <1>2, <2>3, <2>4, <2>5, Zenon DEF RestoreInv, BegunIsNew
<1> QED
  BY <1>1, <1>2, Zenon DEF RestoreInv, FilesRestored, RestoredOrReported

\* Every step keeps the invariant.
LEMMA RestoreInvStep == RestoreInv /\ [Next]_vars => RestoreInv'
BY TypesStep, AtHandStep, CreatorStep, DiskStep, BegunStep, UsersStep, CoveredStep, NilStep, Zenon DEF RestoreInv

\* When restoreFiles returns nil every file is complete and new, or the Error callback was told of
\* it, whatever packs share files and blobs, whatever is read twice, damaged or cannot be opened,
\* truncated, written or closed, and however many workers there are; and no worker closes a file
\* that another one writes to.
THEOREM RestoreIsExact == Spec => []FilesRestored
<1> QED
  BY RestoreInit, RestoreInvStep, RestoreInvMeans, PTL DEF Spec

\* No part that was written to a file is lost again: the file is created, and truncated, once, by
\* the worker that holds its mutex, before anybody has written to it.
THEOREM WritesAreKept == Spec => WritesKept
<1>1. RestoreInv /\ [Next]_vars => [\A f \in File : disk[f] \subseteq disk'[f]]_vars
  BY DiskGrows, Zenon
<1> QED
  BY RestoreInit, RestoreInvStep, <1>1, PTL DEF Spec, WritesKept
=============================================================================
