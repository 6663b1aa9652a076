---------------------------- MODULE LocalBackend ----------------------------
(***************************************************************************)
(* Save and Remove of the local backend (backend/local) for one file name, *)
(* on a file system that may crash.  What is visible before a crash and    *)
(* what is on the disk are different things: disk is the set of contents   *)
(* the file may have after a crash, given what was synced.                 *)
(***************************************************************************)
CONSTANTS
  LocalFaults      \* "io" (any system call may fail), "crash"

VARIABLES
  syncs,           \* what fsync supports: "nothing", "file", or "all" (files and directories)
  folder,          \* the directory: "missing", "new" (its entry may not be on the disk) or "synced"
  localPc,         \* the next step of Save, or how it has ended
  temp,            \* the temporary file
  tempSynced,      \* whether all of it is on the disk
  final,           \* the file under its final name, as others see it
  disk,            \* what the final name may refer to after a crash
  kept             \* "yes" from when Save has stored the file until it is removed, or "lost"
                   \* with a new directory

localVars == <<syncs, folder, localPc, temp, tempSynced, final, disk, kept>>

Contents == {"none", "part", "full"}

LocalTypeOK ==
  /\ syncs \in {"nothing", "file", "all"}
  /\ folder \in {"missing", "new", "synced"}
  /\ localPc \in {"idle", "retry", "copy", "sync", "rename", "syncdir", "chmod"}
  /\ temp \in Contents /\ tempSynced \in BOOLEAN
  /\ disk \subseteq Contents /\ final \in disk
  /\ kept \in {"no", "yes", "lost"}

\* Create makes the directories without syncing them.
LocalInit ==
  /\ syncs \in {"nothing", "file", "all"}
  /\ folder \in {"missing", "new", "synced"}
  /\ localPc = "idle"
  /\ temp = "none" /\ tempSynced = FALSE
  /\ final = "none"
  /\ disk = {"none"}
  /\ kept = "no"

\* The deferred function of Save: the temporary file is removed, and the error returned.
SaveError ==
  /\ localPc' = "idle"
  /\ temp' = "none" /\ tempSynced' = FALSE

\* The first attempt to create the temporary file fails as there is no directory.  Nothing syncs
\* the one above it, then or later.
MakeDir ==
  /\ localPc = "idle" /\ folder = "missing"
  /\ folder' = "new"
  /\ localPc' = "retry"
  /\ UNCHANGED <<syncs, temp, tempSynced, final, disk, kept>>

\* A temporary file is created, with a name of its own.
CreateTemp ==
  /\ localPc \in {"idle", "retry"} /\ folder # "missing"
  /\ temp' = "part" /\ tempSynced' = FALSE
  /\ localPc' = "copy"
  /\ UNCHANGED <<syncs, folder, final, disk, kept>>

\* All of the data is written.
CopyData ==
  /\ localPc = "copy"
  /\ temp' = "full"
  /\ localPc' = "sync"
  /\ UNCHANGED <<syncs, folder, tempSynced, final, disk, kept>>

\* The data is on the disk, if the file system supports that.
SyncFile ==
  /\ localPc = "sync"
  /\ tempSynced' = (syncs # "nothing")
  /\ localPc' = "rename"
  /\ UNCHANGED <<syncs, folder, temp, final, disk, kept>>

\* What a file may contain after a crash.
AfterCrash(content, synced) == IF synced THEN {content} ELSE {"part", content}

Rename ==
  /\ localPc = "rename"
  /\ final' = temp
  /\ disk' = disk \cup AfterCrash(temp, tempSynced)
  /\ temp' = "none"
  /\ localPc' = "syncdir"
  /\ UNCHANGED <<syncs, folder, tempSynced, kept>>

\* Mutant of SyncDir: the directory is not synced.
SkipSyncDir ==
  /\ localPc = "syncdir"
  /\ localPc' = "chmod"
  /\ UNCHANGED <<syncs, folder, temp, tempSynced, final, disk, kept>>

\* The renaming is on the disk, if the file system supports that.
SyncDir ==
  /\ localPc = "syncdir"
  /\ disk' = IF syncs = "all" THEN AfterCrash(final, tempSynced) ELSE disk
  /\ localPc' = "chmod"
  /\ UNCHANGED <<syncs, folder, temp, tempSynced, final, kept>>

\* The file is made read-only, if that is permitted, and Save returns nil.
SetReadonly ==
  /\ localPc = "chmod"
  /\ localPc' = "idle"
  /\ kept' = "yes"
  /\ UNCHANGED <<syncs, folder, temp, tempSynced, final, disk>>

\* A system call fails.
SaveFails ==
  /\ "io" \in LocalFaults
  /\ localPc # "idle"
  /\ SaveError
  /\ UNCHANGED <<syncs, folder, final, disk, kept>>

\* Remove does not sync the directory.
RemoveLocal ==
  /\ localPc = "idle"
  /\ final # "none"
  /\ final' = "none"
  /\ disk' = disk \cup {"none"}
  /\ kept' = "no"
  /\ UNCHANGED <<syncs, folder, localPc, temp, tempSynced>>

\* The system crashes.  A temporary file that is left is never looked at again.  A new directory
\* may be gone, with all that is in it.
Crash ==
  /\ "crash" \in LocalFaults
  /\ \/ final' \in disk /\ UNCHANGED kept
        /\ folder' = IF folder = "new" THEN "synced" ELSE folder
     \/ folder = "new" /\ folder' = "missing" /\ final' = "none"
        /\ kept' = IF kept = "yes" THEN "lost" ELSE kept
  /\ disk' = {final'}
  /\ temp' = "none" /\ tempSynced' = FALSE
  /\ localPc' = "idle"
  /\ UNCHANGED syncs

LocalNext ==
  \/ MakeDir \/ CreateTemp \/ CopyData \/ SyncFile \/ Rename \/ SyncDir \/ SetReadonly \/ SaveFails
  \/ RemoveLocal \/ Crash

LocalSpec == LocalInit /\ [][LocalNext]_localVars

\* Where files can be synced, nobody ever finds an incomplete file under the final name, not even
\* after a crash: the data is synced before the file gets its name.
NeverIncomplete == syncs # "nothing" => final # "part"

\* Where files and directories can be synced, a file for which Save has returned nil stays
\* complete until it is removed, whatever later calls of Save do and whenever the system crashes.
\* Excepted is a crash that takes the directory, which MkdirAll (of Save or Create) has made since
\* the last one: Save syncs the directory, not the one above it.
SurvivesCrash == syncs = "all" /\ kept = "yes" => final = "full"

\* Save of the local backend is atomic, and durable but for directories that are new: whatever
\* fails and whenever the machine stops, no incomplete file has its final name, and a file for
\* which Save has returned nil stays as long as its directory does.
LocalSafe == LocalTypeOK /\ NeverIncomplete /\ SurvivesCrash
=============================================================================
