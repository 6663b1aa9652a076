# A TLA+ model of rapi

This directory is the verification project of rapi, the library form of the backup
program restic (`src/`).  It holds TLA+ modules that are translated from the Go code, TLC
configurations that check them on small instances, and proofs that TLAPS checks for every
value of the constants.  `PROJECT.json` maps every definition to the lines it models and
lists runs, mutants, hazards, findings and theorems.

## The system

A repository is a set of files in a backend: a config file, keys, locks, snapshots, index
files and pack files.  A pack holds encrypted blobs, either pieces of file contents (data)
or directories (trees); a blob is named by the hash of its content.  Index files say which
pack has which blob.  Nothing is ever changed in place; what makes the system hard is the
order in which files appear and disappear, and the many goroutines that produce them.

| Part | State | Operations | What is hard |
|---|---|---|---|
| Locks (`restic/lock.go`) | lock files; each process's `Lock` | newLock, Unlock, Refresh, RefreshStaleLock, RemoveStaleLocks, RemoveAllLocks | no atomic test-and-set: two listings around a create; refresh in two steps; stale locks removed by others; exits |
| Blob saving (`repository/repository.go`, `packer_manager.go`, `packer_uploader.go`) | packers, upload queue, errgroups | StartPackUploader, SaveBlob, Flush | savers hold a mutex while they wait for uploaders that may stop; errors cross three contexts |
| Master index (`internal/index`) | pending blobs, open, final and merged indexes | AddPending, StorePack, finalize, SaveIndex, MergeFinalIndexes, Save | deduplication of what is still underway; an index saved by one goroutine while others add packs |
| Archiver (`internal/archiver`) | futures, three worker pools | Snapshot, SaveDir, SaveTree, FileSaver, BlobSaver, TreeSaver | futures that nobody completes, callbacks that race with the end of a file |
| Restorer (`internal/restorer`) | files in progress, shared open files | restoreFiles, downloadPack, writeToFile | a file is created once although several workers write it |
| Tree streaming (`restic/tree_stream.go`, `find.go`) | backlog, loaders, huge-tree queue | StreamTrees, FindUsedBlobs | knowing when nothing is underway any more; cancellation |
| Cache (`internal/cache`) | cached files, downloads in progress | Load, Save, Remove, Stat | waiting for somebody else's download |
| Backend wrappers (`backend/retry`, `backend/sema`, `backend/limiter`) | tokens, retries | Save, Load, Stat, Remove, List | a retry of what was already done |
| Local backend (`backend/local`) | files, temporary files | Save, Remove, List | a crash between write, sync and rename |
| Checker (`internal/checker`) | blob references, packs | LoadIndex, Packs, Structure, ReadPacks | worker pools and closed channels |
| Repack, prune support (`repository/repack.go`, `MasterIndex.Save`) | keep set | Repack, Save | duplicates on purpose; old index files removed after new ones are stored |
| Keys, config, migrations (`repository/key.go`, `restic/config.go`, `internal/migrations`) | key and config files | SearchKey, AddKey, Init, UpgradeRepoV2 | replacing the only config file |
| Snapshots (`restic/snapshot*.go`) | snapshot lists | ApplyPolicy, FindLatest, GroupSnapshots | bucket boundaries, the oldest snapshot, durations |
| Walking and rewriting (`walker`) | visited and replaced trees | Walk, RewriteTree | skipping, memory of what was replaced |
| Packs (`pack/pack.go`), index map, LRU | bytes, hash buckets | Add, Finalize, List | header arithmetic |
| Restored trees and verification (`restorer.go`, `restic/node.go`) | the target directory | RestoreTo, VerifyFiles, CreateAt, RestoreMetadata | two passes whose effects must not undo each other; hard links; errors that callbacks ignore |
| Mounted snapshots and dumps (`internal/fuse`, `internal/dump`, `internal/bloblru`) | directory structure, blob cache | updateSnapshots, Lookup, Read, DumpTree | names that collide, stale listings, reused buffers |
| Layouts (`backend/layout`, `internal/migrations/s3_layout.go`) | objects of a bucket | Filename, DetectLayout, Apply | a migration that is stopped half way |
| Patterns, targets (`internal/filter`, `internal/archiver/tree.go`) | | Match, List, NewTree, Scan | wildcards, overlapping targets |
| Cryptography, terminal, file system access, remote backends | | | ciphers, system calls and client libraries (not modelled in themselves) |

## Modules

`Lock` models `restic/lock.go` with one step for every backend operation.  `files`,
`empty`, `exclusive`, `owner`, `old` and `dead` are the lock files and what a reader finds
in them; `pc`, `excl`, `late`, `lockID`, `other`, `todo` and `tries` are the call each
process is in.  newLock is `NewLock`, `ListLocks`, `LoadLock`, `CheckPasses`, `CreateLock`,
again `ListLocks`, `LoadLock` and `CheckPasses`, and `Unlock` when the second check fails;
Refresh is `Refresh`, `RefreshCreate`, `RemoveOld`; RefreshStaleLock is
`RefreshStaleLock`, `CheckExistence`, `CreateReplacement`, `CheckExistenceAgain` and
`RemoveOld` or `RemoveReplacement`.  `Expire` lets a file become stale, `Exit` ends a
process at any point.  The constant `Faults` says which backend operations fail; a failed
save may leave the file, or an empty file, behind.  `RepoLock` is the promise of the
comment on type `Lock`: many shared locks or one exclusive lock.

What `Lock` takes for granted: single backend operations are atomic and listings are up to
date; a caller calls Refresh only while its lock is not stale, and the new file is created
before it becomes so (a process that comes later must use RefreshStaleLock, which is
modelled without that restriction); the staleness of a lock is measured from its last
successful creation.  A process counts as holding a lock (`Effective`) while its file
exists: a holder whose stale lock was removed by another process finds out at its next
refresh, and the code makes no promise before that.

`PackUpload` models an upload session: Repository.SaveBlob with
MasterIndex.AddPending, the packer managers, the packerUploader's goroutines, savePacker,
the master index, and Flush, called by Archiver.Snapshot or Repack.  A pack is the set of its
blobs and an index the set of its packs.  `pending`, `open`, `job`, `saved` and
`merged` are the parts of the MasterIndex: pendingBlobs, the index that is not final,
final indexes being saved, final indexes with an ID, and `idx[0]`.  `scope` is the widest
of three nested contexts that is cancelled: the uploaders' errgroup, the errgroup given to
StartPackUploader, and the caller's context.  `FlushScope` says which of them the caller
gives to Flush.  `accepted` and `committed` are history variables: what SaveBlob has
accepted and what a Flush that returned nil must have made durable.  `Restart` ends the
process anywhere and loads the index files.

`TreeStream` models the goroutines of StreamTrees: the filter with its stack (`backlog`),
the tree it wants to send (`next`), the tree it wants to deliver (`outbox`) and its counters;
the loaders; and the buffered queue of huge trees.  An unbuffered channel is an action of two
goroutines.  `FindUsedBlobs` adds the reader and the result.

`FileRestorer` models restoreFiles, downloadPack and filesWriter.  A part is one place of a
blob in one file.  `StartWrite`, `AcquireWriter`, `WriteAt` and `PartWritten` are the steps of
writing a part, with `creator` the workers that hold the mutex of a file because they create
it, and `users` the reference counts of open files.  StreamPack is `ReadBlob` in any order,
`DownloadAgain` and `DownloadFails`; the Error callback may answer differently every time
if `Abort` holds, and ignores all errors otherwise.

`Archiver` models Snapshot.  The walk is the sequence `Walk` of the calls of SaveTree, SaveDir
and Save; `future` is the state of the FutureNode of each item, `nodes` the futures of each
directory.  A worker of FileSaver reads chunks and hands them to a worker of BlobSaver, whose
callback fills node.Content and calls completeBlob; `remaining`, `finished` and `broken` are the
variables that saveFile and its callbacks share.  A worker of TreeSaver takes the futures in
order, saves the tree and waits for its ID.  SaveBlob and Flush are used as `PackUpload` has
them: after a failed upload Flush returns the error or hangs (`upload_hangs`), and `SnapshotEnds`
says that nothing else hangs.  `Ignored` is the Error callback: errors of these items it ignores.  It is assumed
that a callback which returns the error of an item returns it for the directories above it as
well.  Otherwise the walk goes on beside readers that nobody waits for, and stopWorkers may
close the channel they send on: `NoPanic` fails with `Ignored = {"d", "h"}`.

`BackendStack` models what a repository calls when it loads, saves, removes or stats a file:
the cache, the retries, the limit of connections, and a storage below.  `pc` is where a client
is in `internal/cache`, `call` where it is in `backend/retry` and `backend/sema`.  `download`
is the map inProgress with its channels.  The constant-valued variable `atomic` is
HasAtomicReplace: a storage replaces files at once, like the local backend, or it creates them
in steps that others may see, and retry removes what a failed Save leaves.  The consumer of
loads is LoadUnpacked, which rejects damaged files and gives up after the second one.  A name
belongs to one content, and a name is saved by one client at a time, as names are hashes of
contents.  `LoadHeals` and `NoBadCopy` are stated for storages that replace files atomically:
otherwise a reader may meet a file that is being created.

`LocalBackend` models Save and Remove of the local backend, one step for each system call that
changes what others see or what a crash may leave.  `folder` is the directory of the file, which
MkdirAll makes, in Create or in Save, and nobody makes durable in the directory above it.
`final` is what others see, `disk` what the name may refer to after a crash: data and names
reach the disk at any time, but surely only when they are synced.  `syncs` is what the file
system supports.  `RetryList` models List of `backend/retry`, with a listing that may fail at
any point while files come and go.

`Repack` models `repository/repack.go` with the connections of the backend, which downloads,
copies of damaged blobs and uploads share.  `queue` and `offer` are the goroutine that yields
packs, `wpc` with the variables of each worker is where it is in StreamPack and its callback,
`toKeep` is keepBlobs; `packer`, `upWait`, `upBusy` and `inNew` are the uploads.  The callback
runs inside the download, so a worker keeps its connection until the pack is done, and a failed
download is repeated from its beginning.  A pack is streamed in one part.

`IndexRewrite` models MasterIndex.Save: the goroutine that collects packs from all indexes
(`idxLeft`, `newIndex`), the workers that save full ones, and the last index.  The caller, which
is not part of the library, is modelled by what the comment of Save asks for: after a nil result
it removes the obsolete index files, and then the packs of packBlacklist.  `Reread` are packs in
an index that is not final.

`PackHeader`, `MasterIndex` and `IndexMap` are what `PackUpload` takes as single steps.
`PackHeader` has a Packer that is filled and finished, and List, which reads the header from the
end of the file, eagerly and a second time if that was not enough; the file is a sequence of
cells.  `MasterIndex` has Index with its list of packs, decoding of both formats of index files,
Insert, MergeFinalIndexes, StorePack and SaveIndex; an entry refers to its pack by position, as
in the code.  `IndexMap` is the chained hash table and the hashed array tree below it.

`Keys` models Init, SearchKey, AddKey, the config and UpgradeRepoV2, with one step for every
backend operation, crashes, and failed operations that have or have not taken effect.  A key
is where it comes from, and a ciphertext says which key it was sealed with.  `Layouts` models
the three layouts, their detection, and the migration of a bucket, every request of which may
fail and after every request of which the process may end.

`Checker` has the phases of a check with their goroutines, on a repository in which one thing is
damaged.  `Snapshots` has the functions on snapshots, with a small calendar for policies whose
units do not divide each other.  `Trees` has Insert, find, TreeJSONBuilder, FindTreeDirectory and
RewriteTree, and Walk with a callback that answers anything.

`RestoreTree` models RestoreTo with its two passes, hard links and the Error callback; of
restoreFiles it uses what `FileRestorer` promises.  `VerifyFiles` has the walk and the workers
of VerifyFiles.  `NodeFile` has what a node keeps of a file: reading the metadata, JSON, creating the
file, Equals.  `Mount` has the directories of mounted snapshots, how they follow the repository,
and reading files; `Dump` has DumpTree with its two goroutines and the cache of blobs, whose
buffers are used again.  `Filter` has the patterns with which files are excluded and selected,
against a recursive definition of what a pattern means.

`ArchiveTree` models what the walk of `Archiver` takes as given: how the targets become a tree
(resolveRelativeTargets, Tree.Add, unrollTree), what Save, SaveDir and SaveTree do with it,
and the Scanner.

Functions without state are operators.  The property of such an operator compares it with a
second definition that says what it is for, and TLC evaluates both for all inputs of a small set.

## Runs

Several runs hold independent models side by side: a selector variable says which of them a
behaviour is one of, or which function the input `arg` is for.  TLC then counts the steps of a model
under one disjunct of MCNext; that each of its actions happens is read from the coverage of their
expressions (`tlc -coverage 1`).

| Run | Shows | Bounds |
|---|---|---|
| `lock_safety` | the files implement `RepoLock`; a lock that is not stale is visible | 2 processes on one host, 3 file names (each process may have two files, one of them a leftover), all failures |
| `lock_calls` | locks: calls return, no file is left behind. Opening: clients that open a repository share one master key and read each other's files; a password that should open it does; the config survives failed upgrades | 2 hosts, forced removal, no failures; 2 clients (one searches), 2 passwords, 2 key files, a limit of 1 or none, 2 failures or crashes, a backend without atomic replacement |
| `upload_safety` | packs before indexes; Flush commits; no duplicates. Packs: List returns what was added and notices damage; sizes agree with the index. Indexes: Lookup is exact through loading, merging and saving, the merged index has no entry twice, final indexes are stored. The hash table finds all entries in order | 4 blobs (one tree, one oversized), packs of 2, index full at 3 blobs, 2 savers, 2 uploaders, all failures, restarts; packs of up to 5 blobs of 4 kinds, eager reads of 2 entries; 3 index files (one old) that share packs, 3 new packs (one unreadable), 2 new files; 8 entries for 3 keys, two of which collide, from 1 bucket and blocks of 2 |
| `upload_ends` | SaveBlob and Flush return | 3 blobs, all failures |
| `upload_hangs` | violated: Flush with the caller's context | 2 blobs, failing saves |
| `prune` | FindUsedBlobs: all blobs found unless cancelled, no tree twice, roots counted. Repack: blobs taken off keepBlobs are in new packs, once. Save: no kept pack lost, no index of a removed pack, new indexes complete. A check without an error means a sound repository, and a sound one gives no error. Snapshots: the latest one is found, policies, groups, tags and durations are exact. Trees: rewriting and walking leave out what they should. All return | 5 trees that share subtrees, one known before, 4 roots, 2 loaders and the one for huge trees, whose queue holds 1; 2 packs that share a blob, a damaged blob in each, 3 connections, 1 retry; 3 index files, 5 packs, indexes of 2 packs, 2 workers; a check with 12 kinds of damage, 2 workers of each kind; 4 snapshots; lists of up to 5 of 6 times, policies with counts, durations and tags; 7 trees of 3 levels; all failures, cancellation |
| `repack_hangs` | violated: damaged blobs between two repositories | 2 packs, 2 connections, no failures |
| `used_cancelled` | violated: nil for a cancelled call | the trees of `prune` |
| `restore_files` | restoreFiles: files complete or reported, writes kept, files not closed under a writer. RestoreTo: nodes in place with contents, links and metadata. VerifyFiles reads every file. Nodes survive being saved and restored. Mounted: every snapshot is reachable, "latest" is the latest, reads are exact, what is shown can be read. Dump: archives complete, cached blobs true. Patterns match what they describe. Commands return | 2 files, 3 blobs, 2 packs, 2 workers, one retry, all failures; 13 nodes with two pairs of links, 4 selections, 2 failures; 5 files, 2 workers, a channel of 1; 3 snapshots with the same time, 4 templates; 6 nodes, a cache of 5 for blobs of up to 6; patterns of up to 4 parts, lists of up to 3 patterns, paths of up to 4 parts |
| `restore_hangs` | violated: errors not ignored | 1 file in 3 packs, 2 workers, failing downloads |
| `snapshot` | saved snapshots are complete; trees after their contents; no panic; Snapshot returns if Flush does. Targets: every selected file is saved once, and the scanner counts the same files | a directory with a file of 2 chunks and an empty one, an unchanged file, 1 file, 2 blob and 1 tree worker, all failures; lists of up to 3 of 9 targets that overlap and whose names collide |
| `backends` | saved files stay; damaged cached files are healed and none gets into the cache; calls return; local files complete after a crash; listings complete and without repetition; layouts name files uniquely, and a migration that is stopped anywhere loses none and leaves a bucket that can be opened | 2 clients, one of them cancellable, an index file and a lock file, 1 connection, 1 retry, Freeze, all failures; one local file; 2 listed files, 1 retry; 9 files of all types, 2 tries, up to 3 failures |

A property of a run is what one part promises, usually a conjunction of definitions that have
comments of their own: `CheckExact` is `CheckSound`, `CheckQuiet` and `UnusedExact` with the types,
`MountExact` is five definitions on names, links, listings and reads.  `PROJECT.json` has one mutant
for each property, so it shows that one conjunct at least can be broken by a bug in the code, not
every one.  The types of `Lock` and `PackUpload` are proved and not checked in a run.

The bounds let the cases happen that matter: two goroutines of each kind that compete, a
structure shared between two of them, a queue that is full, one retry, and every failure
at every point.

## Findings

- Archiver.Snapshot gives its own context to Flush.  When an upload fails while Flush queues
  the last packs, nobody receives them and nothing cancels that context (`upload_hangs`).
- FindUsedBlobs may return nil after its context was cancelled (`used_cancelled`).
- restoreFiles does not return when a download fails while other workers are idle and packs
  are left to send (`restore_hangs`).
- Repack between two repositories does not return when all its workers load copies of damaged
  blobs at the same time: each holds a connection that another one needs (`repack_hangs`).

## Observations

Where a property needs an exception, or a comment in the code promises more than the code does,
the module says so.  These are met by the models above, whose properties are stated around them.

- Tree.Add takes two targets for one when the name that resolves the conflict of one is the name
  of the other in the same directory: after `../a`, the targets `./a` and `./a-1` are merged
  (`internal/archiver/tree.go:116-133`; `TargetsSaved` excepts exactly such lists).
- Save of the local backend syncs the directory of the file, not the one above it: a crash may take
  a directory that MkdirAll has just made, with the files saved in it
  (`backend/local/local.go:129-140`; `SurvivesCrash` excepts it).
- RestoreTimestamps uses UnixNano, so that times outside of the years 1678 to 2261 come back as
  others (`restic/node.go:239-243`; `FilesKept` excepts them).
- pathsFromSn replaces the tags "", "." and ".." only if a snapshot has several tags.  With one
  such tag alone the path is cleaned to another one, where uniqueName does not look
  (`internal/fuse/snapshots_dirstruct.go:94-111`; `AllMounted` excepts it).
- match with two or more `**` misses paths that are shorter than the pattern, although each `**`
  may stand for nothing (`internal/filter/filter.go:156`; `MatchesExact` excepts them).
- A migration that is stopped while it moves the keys leaves keys in both places; the new layout
  is then used, Check refuses to migrate again, and the other keys and the locks stay behind
  (`internal/migrations/s3_layout.go:97-107`).
- Two calls of Init that overlap, or one that meets the gap of an upgrade without atomic
  replacement, make two master keys (`FilesReadable` ends there); a crash between key and
  config leaves a key that opens nothing.
- DumpTree returns nil although a tree could not be loaded (`internal/dump/common.go:55`;
  `DumpComplete` excepts it).  VerifyFiles may return nil with files unread when its caller cancels,
  and counts files whose error the callback has ignored (`internal/restorer/restorer.go:349`).
- restoreHardlinkAt removes a file that exists at the path of the link and returns nil without
  linking (`internal/restorer/restorer.go:189`); restoreMetadata drops errors of some operations.
- Walk passes a nil tree on if the callback ignores the error of loading it, and panics
  (`walker/walker.go:19` allows that); ErrSkipNode on the first file of a directory makes all later
  occurrences of the directory be skipped.
- TreeRewriter remembers a tree as rewritten although saving it failed (`walker/rewriter.go`): after
  a failed call it must not be used again, and `RewrittenSaved` is stated for callers that obey.
- FindAll passes a snapshot twice for its ID followed by `latest`, and ignores TimestampLimit when
  it has no arguments (`restic/snapshot_find.go`).
- Structure returns without closing its channel when it is cancelled while it reports snapshots
  that cannot be loaded (`internal/checker/checker.go:390-396`; `StepsEnd` excepts this state,
  `"stuck"`, and no other cancelled check).
- pack.Size counts a pack twice that is in an index of the old format and in another one.
- FixTime moves the 29th of February to the 1st of March when the year it moves to has none.

## Proofs

`LockProofs` proves type correctness and, for any processes and file names and provided that
locks are not removed by force, mutual exclusion, that a fresh lock is visible, and the
refinement of `RepoLock`.  The inductive invariant adds to the types: a process's lock file
carries its owner and mode as long as it exists (`OwnFile`); so does the second file of a
refresh (`OtherFile`); and of two processes with conflicting locks that have both created
their files, one still has to see the other's and give up (`OneGivesUp`), which is the heart
of the argument: it follows from the second listing being made after the creation.
If files can be stored and removed, it also proves that no lock file is left behind, forced
removal included (`NoLockLeft`): a process knows the files it has created for as long as they
exist (`FilesKnown`).

`PackUploadProofs` proves type correctness, that indexes list stored packs only, and that no
blob is in two places.  The invariant says that packs are well formed
(`WellFormed`), that only a goroutine that saves an index has one (`Jobs`), that a pack is
stored before it is in an index (`StoredFirst`), and that what is underway is pending, in
one place, and not in the index (`OnePlace`).  It proves as well that a Flush that
returns nil has committed what was accepted, for callers that give up after an error
(`~Retry`): the phases of a session (`Phases`), that no blob is lost on its way as long as
nothing fails (`NothingLost`), and that an accepted blob is pending or indexed.

`BackendProofs` proves `StackSafe` and `NoBadCopy` for any clients, files, faults and numbers of
connections and retries: a saved file stays until it is removed, and over a storage that replaces
files atomically no incomplete copy is written to the cache and a load that meets no failure of
the storage gets its file, whatever copy the cache has.  The invariant `StackInv` says where a
call can be in the retries and the storage while its client is at a step of the cache (`At`);
that one client saves a name at a time and what it stored is complete (`Saving`); that an atomic
storage shows no part of a file (`Whole`); that a client whose file is there has met no error and
has dropped a damaged copy once it has tried it (`Healing`); and that the tokens in use can be
numbered by the clients that hold one (`TokensCounted`), which bounds them by `Connections`.
Every action keeps the types, the places of the calls and the contents of the files, in a lemma
for each of the three.

It proves for the local backend that no incomplete file ever has its final name, and that a file
for which Save has returned nil survives crashes that leave its directory, on file systems that
can sync files, and directories for the latter.  The invariant says what each step of Save has achieved
(`SaveOrder`) and what a crash may leave (`DiskSafe`): `final` alone does not tell what is on
the disk.

`PruneProofs` proves, for any index files and packs, that the rewrite of the index loses
no pack that is kept, lists no pack that was removed, and is complete when Save returns nil
without cancellation.  The invariant follows the packs: as long as nothing fails, a pack that is
wanted is on its way or in a new file (`OnTheWay`); each phase leaves nothing behind (`Phases`);
and once a file is missing, the new index files are complete (`RemovedLate`), which has to be
remembered because Save's context may be cancelled later.

`BackendProofs` also proves that a listing passes no file twice and, if it returns nil, all files
that were there all the time.  The invariant says that the map of
listed files remembers every run of the callback (`RunsListed`), and that a file which is there
all the time was listed or is still to come (`StillToCome`).

It proves that a migration loses no file, for any files, failures and restarts
(`MigrationKeeps`, the first part of `LayoutsSafe`; the rest of it is only model-checked).  The
invariant adds that Rename removes an object only when the copy exists under another name
(`MigrationInv`); the lemmas show that the object it removes is not where another file has gone.

`PruneProofs` proves that FindUsedBlobs returns nil, unless it was cancelled, only
with a complete set: prune removes what is not in it.  The invariant follows every tree of
the set from the filter to the reader and its subtrees into the backlog (`Cover`), as long as no
error is on its way; `outstanding` is at least the number of jobs at the loaders and in the
queue (`Counted`), so that a filter that finds nothing to do has lost nothing.

`RepackProofs` proves `RepackExact` for any packs, workers, connections and damaged blobs.  The
invariant counts the connections (`ConnsCounted`), gives a blob to one worker before it is copied
(`TakenOnce`), and says where a blob is on its way from keepBlobs to a stored pack
(`NothingDropped`) and who will still read one that is to be kept (`NothingForgotten`).

`RestoreProofs` proves `FilesRestored` and `WritesKept` for any files,
packs and workers: while a worker creates a file no other one writes to it (`OneCreator`), the
count of users is that of its writers or one more (`UsersCounted`), and a part of a file that was
not reported is on the disk, at a worker, or in a pack that was not sent yet (`PartsCovered`).

`ArchiverStepProofs` and `ArchiverProofs` prove `SnapshotSafe` for any tree, walk, workers and
failures, and `NoPanic` for callbacks that ignore the errors of everything in a directory whose
error they ignore (`ErrorsPassedUp`; without it the property fails, see above).  The assumption
`WalkNested` says that the walk is depth-first: the calls for the entries of a directory are
between its own.  The first part of the invariant (`FilesOK`) is about saveFile: the
counter `remaining` is the number of chunks that are read and not completed, less the chunks
read so far until the end of the file adds them (`Counted`); every chunk is with one worker
(`SaverInv`); and a file is finished once, when all its chunks have an ID (`FileInv`).  `TreesOK`
and `Accepts` say that a node is only in a tree after everything it refers to was accepted,
`WalkOK` and `CompleteOK` that no item gets lost between the walk, the futures of its directory
and the tree, and `EndOK` what the results of the walk and of Snapshot say about the workers.
For `NoPanic`, `Waits` adds why nobody works any more when the walk has its result: every
directory waits for the futures of its entries, and `SaveTree` waits for the root.
The first module has the invariant and the part about files and types, the second the rest.

Leaves that need no arithmetic name Zenon as their prover, which takes less time and memory than
the translation to SMT.

The assumptions are the ASSUMEs of the modules, which TLC evaluates in the runs.

Liveness (`CallsReturn`, `CallsEnd`, `CommandsEnd`, `SnapshotEnds`, `StepsEnd`) is model-checked
only, as TLAPS does not do fairness.  So are the functions that are checked against a reference
definition, most of which are recursive or fold sequences, which needs induction over data; and
the properties of `Keys`, `MasterIndex`, `Checker` and the other commands of
`MCRestore`.

## Fairness

Goroutines that can run do run: that is all the Go scheduler promises.  `Archiver`,
`FileRestorer`, `VerifyFiles`, `Dump` and `Checker` need no more than that some goroutine takes a
step as long as one can (weak fairness of the disjunction): in these models no goroutine can go on
for ever beside one that waits.  `FindUsedBlobs` and `IndexRewrite`: every goroutine runs (weak
fairness); nothing makes the caller remove files.  `Lock`: a running call continues unless its
process exits.  `PackUpload`: goroutines run, and a saver that competes for a mutex or for an
uploader gets it in the end (strong fairness), as Go's mutexes and channels do.  `BackendStack`:
a client gets on if it can again and again (strong fairness), as a token that is given back wakes
a waiting goroutine.  `Repack`: a worker or an uploader that waits for a connection gets it in the
end (strong fairness).  Nothing is assumed of callers, the user, failures, time and restarts.

## Not modelled

- Cryptography (`crypto`): bit-level arithmetic and ciphers; `Keys` and `PackHeader` use what they
  promise.  The chunker is a library; a file is the list of its chunks.
- Remote backends (`backend/sftp`, `s3`, `rest`, `azure`, `gs`, `b2`, `swift`, `rclone`): calls of
  client libraries.  The code above relies on the backend interface, whose failures `BackendStack`,
  `RetryList` and `Layouts` have; only Rename of `s3` is modelled.  `Layouts` detects the layout
  with listings that succeed: an error of hasBackendFile is not modelled.
- Attributes and handlers of mounted directories around what `Mount` computes, and the zip format of
  dumps, which differs from tar in its headers and links.
- In the archiver, the comparison of a file with its parent snapshot and the pool of buffers; in the
  cache, Clear and old cache directories; in the local backend, listing directories and Delete; the
  dry-run backend, which drops writes.
- Locations, options and configuration files: the parsing of text without state.
- File system access, extended attributes, VSS, terminals, self update and debugging: system calls.
- Progress reports (`ui`): counters and the formatting of text; that restoring a part again counts it
  again is visible in them only.
- Rate limits: they change times, not results.  Time is in the models where it decides: stale
  locks, timeouts of the mounted directories.
