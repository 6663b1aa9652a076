------------------------------ MODULE VerifyFiles ------------------------------
(***************************************************************************)
(* Verifying a restore: Restorer.VerifyFiles and verifyFile                *)
(* (internal/restorer/restorer.go).                                        *)
(*                                                                         *)
(* One goroutine walks the tree and sends the files to workers over a      *)
(* channel; the workers read them.  All belong to a group whose context is *)
(* cancelled by the first error.  The walk is abstracted to the list of    *)
(* files it finds: RestoreTree has its details.                            *)
(***************************************************************************)
EXTENDS Naturals, Sequences, FiniteSets

CONSTANTS
  Restorable,      \* the files of the snapshot, in the order of the walk: records of size,
                   \* blobs, whether it exists on disk, and with what bytes
  BlobBytes,       \* the contents of the blobs in the index, by blob
  Verifier,        \* the workers
  VerifyCap        \* the capacity of the channel work

ASSUME VerifyAssumption == VerifyCap \in Nat /\ Verifier # {}

FileNumber == 1 .. Len(Restorable)

VARIABLES
  visited,         \* how many files the walk has sent
  work,            \* the channel
  walk,            \* "run", "ended", "failed"
  job,             \* the file each worker has (0: none)
  verifier,        \* "run", "ended" or "failed" for each worker
  stopped,         \* whether the context of the group is cancelled
  userCancel,      \* whether the caller has cancelled it
  nchecked,        \* the files that were counted
  complained,      \* the files for which the Error callback was called
  verdict          \* what VerifyFiles has returned

verifyVars == <<visited, work, walk, job, verifier, stopped, userCancel, nchecked, complained, verdict>>

VerifyInit ==
  /\ visited = 0 /\ work = <<>> /\ walk = "run"
  /\ job = [v \in Verifier |-> 0]
  /\ verifier = [v \in Verifier |-> "run"]
  /\ stopped = FALSE /\ userCancel = FALSE
  /\ nchecked = {} /\ complained = {}
  /\ verdict = "none"

VerifyTypeOK ==
  /\ visited \in 0 .. Len(Restorable)
  /\ Len(work) <= VerifyCap /\ \A i \in DOMAIN work : work[i] \in FileNumber
  /\ walk \in {"run", "ended", "failed"}
  /\ job \in [Verifier -> 0 .. Len(Restorable)]
  /\ verifier \in [Verifier -> {"run", "ended", "failed"}]
  /\ nchecked \subseteq FileNumber /\ complained \subseteq FileNumber
  /\ verdict \in {"none", "nil", "error"}

-----------------------------------------------------------------------------
(* verifyFile *)

\* The bytes that blobs make up, one after the other.
Bytes[bs \in Seq(DOMAIN BlobBytes)] ==
  IF bs = <<>> THEN <<>> ELSE BlobBytes[Head(bs)] \o Bytes[Tail(bs)]

\* A file has these bytes from an offset on.
HasAt(disk, off, bytes) ==
  /\ off + Len(bytes) <= Len(disk)
  /\ \A k \in DOMAIN bytes : disk[off + k] = bytes[k]

\* Mutant of verifyFile: the size is not compared.
verifyFilePrefix(f) ==
  /\ f.exists
  /\ \A i \in DOMAIN f.blobs : f.blobs[i] \in DOMAIN BlobBytes
  /\ \A i \in DOMAIN f.blobs : HasAt(f.disk, Len(Bytes[SubSeq(f.blobs, 1, i - 1)]), BlobBytes[f.blobs[i]])

\* The file can be opened and has the size of the node, and each blob is known and found at
\* its offset.
verifyFile(f) ==
  /\ f.exists
  /\ Len(f.disk) = f.size
  /\ \A i \in DOMAIN f.blobs : f.blobs[i] \in DOMAIN BlobBytes
  /\ \A i \in DOMAIN f.blobs : HasAt(f.disk, Len(Bytes[SubSeq(f.blobs, 1, i - 1)]), BlobBytes[f.blobs[i]])

-----------------------------------------------------------------------------
(* VerifyFiles *)

\* The walk sends a file unless the channel is full.
SendFile ==
  /\ walk = "run"
  /\ visited < Len(Restorable)
  /\ Len(work) < VerifyCap
  /\ visited' = visited + 1
  /\ work' = Append(work, visited + 1)
  /\ UNCHANGED <<walk, job, verifier, stopped, userCancel, nchecked, complained, verdict>>

\* The walk ends and closes the channel; it fails when it finds the context cancelled, which it
\* only looks at together with the channel, or when it cannot load a tree.
WalkEnds ==
  /\ walk = "run"
  /\ \/ visited = Len(Restorable) /\ walk' = "ended" /\ UNCHANGED stopped
     \/ visited < Len(Restorable) /\ stopped /\ walk' = "failed" /\ UNCHANGED stopped
     \/ visited < Len(Restorable) /\ walk' = "failed" /\ stopped' = TRUE
  /\ UNCHANGED <<visited, work, job, verifier, userCancel, nchecked, complained, verdict>>

TakeFile(v) ==
  /\ verifier[v] = "run" /\ job[v] = 0
  /\ work # <<>>
  /\ job' = [job EXCEPT ![v] = Head(work)]
  /\ work' = Tail(work)
  /\ UNCHANGED <<visited, walk, verifier, stopped, userCancel, nchecked, complained, verdict>>

\* The file is verified.  A worker ends when the callback returns the error, or when the
\* context is cancelled, even if the file was good; a file whose error was ignored is counted.
CheckFile(v) ==
  /\ job[v] # 0
  /\ LET f == job[v]
         good == verifyFile(Restorable[f])
     IN  /\ complained' = IF good THEN complained ELSE complained \cup {f}
         /\ \/ /\ ~good
               /\ verifier' = [verifier EXCEPT ![v] = "failed"]
               /\ stopped' = TRUE
               /\ UNCHANGED nchecked
            \/ /\ stopped
               /\ verifier' = [verifier EXCEPT ![v] = "ended"]
               /\ UNCHANGED <<stopped, nchecked>>
            \/ /\ ~stopped
               /\ nchecked' = nchecked \cup {f}
               /\ UNCHANGED <<verifier, stopped>>
  /\ job' = [job EXCEPT ![v] = 0]
  /\ UNCHANGED <<visited, work, walk, userCancel, verdict>>

VerifierEnds(v) ==
  /\ verifier[v] = "run" /\ job[v] = 0
  /\ work = <<>> /\ walk # "run"
  /\ verifier' = [verifier EXCEPT ![v] = "ended"]
  /\ UNCHANGED <<visited, work, walk, job, stopped, userCancel, nchecked, complained, verdict>>

CallerCancels ==
  /\ ~stopped /\ verdict = "none"
  /\ stopped' = TRUE /\ userCancel' = TRUE
  /\ UNCHANGED <<visited, work, walk, job, verifier, nchecked, complained, verdict>>

\* g.Wait returns the first error of the goroutines.
VerifyReturns ==
  /\ verdict = "none"
  /\ walk # "run"
  /\ \A v \in Verifier : verifier[v] # "run"
  /\ verdict' = IF walk = "failed" \/ \E v \in Verifier : verifier[v] = "failed" THEN "error" ELSE "nil"
  /\ UNCHANGED <<visited, work, walk, job, verifier, stopped, userCancel, nchecked, complained>>

VerifyNext ==
  \/ SendFile \/ WalkEnds \/ CallerCancels \/ VerifyReturns
  \/ \E v \in Verifier : TakeFile(v) \/ CheckFile(v) \/ VerifierEnds(v)

-----------------------------------------------------------------------------
(* Properties *)

\* When VerifyFiles returns nil and its caller did not cancel it, it has counted every file of
\* the walk, and each one has the contents the snapshot says, byte by byte, or the Error
\* callback was called for it.  (A caller that cancels may get nil with files unread: the
\* workers leave without an error.)
FilesVerified ==
  (verdict = "nil" /\ ~userCancel) =>
    /\ nchecked = FileNumber
    /\ \A f \in FileNumber \ complained :
         /\ \A i \in DOMAIN Restorable[f].blobs : Restorable[f].blobs[i] \in DOMAIN BlobBytes
         /\ Restorable[f].exists /\ Restorable[f].disk = Bytes[Restorable[f].blobs]

\* The walk and the verifiers of VerifyFiles leave no file out, whoever gets it.
VerifySound == VerifyTypeOK /\ FilesVerified
=============================================================================
