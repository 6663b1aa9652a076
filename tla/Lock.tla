--------------------------------- MODULE Lock ---------------------------------
(***************************************************************************)
(* Repository locks: restic/lock.go.                                       *)
(*                                                                         *)
(* A lock is a file in the backend.  newLock looks for conflicting lock    *)
(* files, creates its own, waits, and looks again.  A holder keeps its     *)
(* lock from going stale with Refresh (create a new file, then remove the  *)
(* old one) or, once it is stale, with RefreshStaleLock.  Everybody may    *)
(* remove the locks that are stale.  Backend operations are atomic and     *)
(* listings are up to date; the steps between two of them are not atomic.  *)
(***************************************************************************)
EXTENDS Naturals

CONSTANTS
  Proc,            \* processes (an exited process is replaced by a new one)
  LockID,          \* names of lock files
  NoID,            \* the nil *ID
  HostOf,          \* the host each process runs on
  Faults,          \* the backend operations that may fail, and "exit"
  Forced           \* whether RemoveAllLocks is used

ASSUME ConstAssumption ==
  /\ NoID \notin LockID
  /\ Faults \subseteq {"save", "remove", "read", "exit"}
  /\ Forced \in BOOLEAN

VARIABLES
  files,           \* the lock files in the backend
  empty,           \* those that were left with size zero
  exclusive,       \* those whose content says "exclusive": true
  owner,           \* the process named in each lock file
  old,             \* those whose Time is older than StaleLockTimeout
  dead,            \* those whose process (PID) no longer exists
  pc,              \* what each process is doing
  excl,            \* Lock.Exclusive of its lock
  late,            \* whether the file of its lock has become older than StaleLockTimeout
  lockID,          \* Lock.lockID of its lock
  other,           \* the second lock file of a refresh in progress
  todo,            \* listed lock files that ForAllLocks still has to load
  tries            \* how often checkForOtherLocks has failed

fileVars == <<files, empty, exclusive, owner, old, dead>>
procVars == <<pc, excl, late, lockID, other, todo, tries>>
vars == <<fileVars, procVars>>

Tries == 3

\* newLock has created its file, is looking for others again or gives up.
Acquiring == {"list2", "load2", "undo"}

\* The caller has got a *Lock: the states of Refresh and RefreshStaleLock.
Holding == {"held", "refresh", "remold", "exist1", "recreate", "exist2", "cleanup"}

PC == {"idle", "list1", "load1", "create"} \cup Acquiring \cup Holding

TypeOK ==
  /\ files \subseteq LockID
  /\ empty \subseteq files
  /\ exclusive \subseteq files
  /\ owner \in [LockID -> Proc \cup {NoID}]
  /\ old \subseteq files
  /\ dead \subseteq files
  /\ pc \in [Proc -> PC]
  /\ excl \in [Proc -> BOOLEAN]
  /\ late \in [Proc -> BOOLEAN]
  /\ lockID \in [Proc -> LockID \cup {NoID}]
  /\ other \in [Proc -> LockID \cup {NoID}]
  /\ todo \in [Proc -> SUBSET LockID]
  /\ tries \in [Proc -> 0 .. Tries]

Init ==
  /\ files = {}
  /\ empty = {}
  /\ exclusive = {}
  /\ owner = [i \in LockID |-> NoID]
  /\ old = {}
  /\ dead = {}
  /\ pc = [p \in Proc |-> "idle"]
  /\ excl = [p \in Proc |-> FALSE]
  /\ late = [p \in Proc |-> FALSE]
  /\ lockID = [p \in Proc |-> NoID]
  /\ other = [p \in Proc |-> NoID]
  /\ todo = [p \in Proc |-> {}]
  /\ tries = [p \in Proc |-> 0]

Goto(p, to) == pc' = [pc EXCEPT ![p] = to]

\* The call is over and nothing refers to the Lock any more.
Drop(p) ==
  /\ Goto(p, "idle")
  /\ excl' = [excl EXCEPT ![p] = FALSE]
  /\ late' = [late EXCEPT ![p] = FALSE]
  /\ lockID' = [lockID EXCEPT ![p] = NoID]
  /\ other' = [other EXCEPT ![p] = NoID]
  /\ todo' = [todo EXCEPT ![p] = {}]
  /\ tries' = [tries EXCEPT ![p] = 0]

-----------------------------------------------------------------------------
(* Files *)

\* A lock file's name is the hash of its content, timestamp included, so a new
\* file gets a new name: one that no file and no process knows.
Fresh(i) ==
  /\ i \notin files
  /\ \A p \in Proc : i # lockID[p] /\ i # other[p] /\ i \notin todo[p]

\* createLock stores the lock of p in file i.
StoreFile(p, i) ==
  /\ Fresh(i)
  /\ files' = files \cup {i}
  /\ exclusive' = IF excl[p] THEN exclusive \cup {i} ELSE exclusive
  /\ owner' = [owner EXCEPT ![i] = p]
  /\ UNCHANGED <<empty, old, dead>>

\* An upload that is interrupted may leave a file without content.
StoreEmptyFile(i) ==
  /\ Fresh(i)
  /\ files' = files \cup {i}
  /\ empty' = empty \cup {i}
  /\ UNCHANGED <<exclusive, owner, old, dead>>

\* createLock returns an error: the file may be there, or be there without content.
CreateFails(p) ==
  /\ "save" \in Faults
  /\ \/ UNCHANGED fileVars
     \/ \E i \in LockID : StoreFile(p, i) \/ StoreEmptyFile(i)

\* File i, if it exists, disappears from the backend.
DeleteFile(i) ==
  /\ files' = files \ {i}
  /\ empty' = empty \ {i}
  /\ exclusive' = exclusive \ {i}
  /\ owner' = [owner EXCEPT ![i] = NoID]
  /\ old' = old \ {i}
  /\ dead' = dead \ {i}

\* Backend().Remove: whether it fails makes no difference to what its callers do next.
RemoveFile(i) ==
  \/ DeleteFile(i)
  \/ "remove" \in Faults /\ UNCHANGED fileVars

\* Lock.Stale, evaluated by process p: too old, or its process is gone from this host.
Stale(p, i) ==
  \/ i \in old
  \/ i \in dead /\ HostOf[owner[i]] = HostOf[p]

-----------------------------------------------------------------------------
(* Acquiring a lock *)

\* newLock starts: the lock is described but has no lockID yet.
NewLock(p) ==
  /\ pc[p] = "idle"
  /\ \E x \in BOOLEAN : excl' = [excl EXCEPT ![p] = x]
  /\ Goto(p, "list1")
  /\ UNCHANGED <<fileVars, late, lockID, other, todo, tries>>

\* checkForOtherLocks returns an error: newLock returns it, after removing its own file.
CheckFails(p) ==
  \/ /\ pc[p] \in {"list1", "load1"}
     /\ Drop(p)
  \/ /\ pc[p] \in {"list2", "load2"}
     /\ Goto(p, "undo")
     /\ todo' = [todo EXCEPT ![p] = {}]
     /\ tries' = [tries EXCEPT ![p] = 0]
     /\ UNCHANGED <<excl, late, lockID, other>>

\* Mutant of PassFails: failures are not counted.
PassFailsForever(p) ==
  /\ todo' = [todo EXCEPT ![p] = {}]
  /\ Goto(p, IF pc[p] \in {"list1", "load1"} THEN "list1" ELSE "list2")
  /\ UNCHANGED <<excl, late, lockID, other, tries>>

\* One pass of ForAllLocks fails with an error that is not a conflict: try again.
PassFails(p) ==
  \/ /\ tries[p] + 1 < Tries
     /\ tries' = [tries EXCEPT ![p] = @ + 1]
     /\ todo' = [todo EXCEPT ![p] = {}]
     /\ Goto(p, IF pc[p] \in {"list1", "load1"} THEN "list1" ELSE "list2")
     /\ UNCHANGED <<excl, late, lockID, other>>
  \/ /\ tries[p] + 1 >= Tries
     /\ CheckFails(p)

\* ForAllLocks lists the lock files.
ListLocks(p) ==
  /\ pc[p] \in {"list1", "list2"}
  /\ \/ /\ todo' = [todo EXCEPT ![p] = files]
        /\ Goto(p, IF pc[p] = "list1" THEN "load1" ELSE "load2")
        /\ UNCHANGED <<excl, late, lockID, other, tries>>
     \/ /\ "read" \in Faults
        /\ PassFails(p)
  /\ UNCHANGED fileVars

\* ForAllLocks does not show the callback the process's own lock and empty files.
Ignored(p, i) == i = lockID[p] \/ i \in empty

\* The callback of checkForOtherLocks: does lock file i forbid p's lock?
Conflicts(p, i) == excl[p] \/ i \in exclusive

\* A listed lock file is loaded and shown to the callback.
LoadLock(p) ==
  /\ pc[p] \in {"load1", "load2"}
  /\ \E i \in todo[p] :
       \/ /\ \/ Ignored(p, i)
             \/ i \in files /\ ~Conflicts(p, i)
          /\ todo' = [todo EXCEPT ![p] = @ \ {i}]
          /\ UNCHANGED <<pc, excl, late, lockID, other, tries>>
       \/ /\ ~Ignored(p, i)
          /\ i \in files
          /\ Conflicts(p, i)
          /\ CheckFails(p)
       \/ /\ ~Ignored(p, i)
          /\ i \notin files \/ "read" \in Faults
          /\ PassFails(p)
  /\ UNCHANGED fileVars

\* All listed locks were loaded and none conflicts: checkForOtherLocks returns nil.
CheckPasses(p) ==
  /\ pc[p] \in {"load1", "load2"}
  /\ todo[p] = {}
  /\ Goto(p, IF pc[p] = "load1" THEN "create" ELSE "held")
  /\ tries' = [tries EXCEPT ![p] = 0]
  /\ UNCHANGED <<fileVars, excl, late, lockID, other, todo>>

\* newLock creates the lock file, then waits before it looks again.
CreateLock(p) ==
  /\ pc[p] = "create"
  /\ \/ /\ \E i \in LockID :
             /\ StoreFile(p, i)
             /\ lockID' = [lockID EXCEPT ![p] = i]
        /\ Goto(p, "list2")
        /\ UNCHANGED <<excl, late, other, todo, tries>>
     \/ /\ CreateFails(p)
        /\ Drop(p)

\* Unlock, called by the holder or by newLock after a failed second check.
Unlock(p) ==
  /\ pc[p] \in {"held", "undo"}
  /\ RemoveFile(lockID[p])
  /\ Drop(p)

-----------------------------------------------------------------------------
(* Refreshing a lock *)

\* Mutant of Refresh: the old file is removed before the new one is created.
RefreshRemovesFirst(p) ==
  /\ pc[p] = "held"
  /\ ~late[p]
  /\ DeleteFile(lockID[p])
  /\ Goto(p, "refresh")
  /\ UNCHANGED <<excl, late, lockID, other, todo, tries>>

\* Refresh is called, in time: before the lock is stale.
Refresh(p) ==
  /\ pc[p] = "held"
  /\ ~late[p]
  /\ Goto(p, "refresh")
  /\ UNCHANGED <<fileVars, excl, late, lockID, other, todo, tries>>

\* Refresh creates the new file and makes it the process's lock.
RefreshCreate(p) ==
  /\ pc[p] = "refresh"
  /\ \/ /\ \E i \in LockID :
             /\ StoreFile(p, i)
             /\ lockID' = [lockID EXCEPT ![p] = i]
        /\ other' = [other EXCEPT ![p] = lockID[p]]
        /\ Goto(p, "remold")
     \/ /\ CreateFails(p)
        /\ Goto(p, "held")
        /\ UNCHANGED <<lockID, other>>
  /\ UNCHANGED <<excl, late, todo, tries>>

\* The last step of both kinds of refresh removes the old file.
RemoveOld(p) ==
  /\ pc[p] = "remold"
  /\ RemoveFile(other[p])
  /\ other' = [other EXCEPT ![p] = NoID]
  /\ Goto(p, "held")
  /\ UNCHANGED <<excl, late, lockID, todo, tries>>

\* RefreshStaleLock may be called at any time.
RefreshStaleLock(p) ==
  /\ pc[p] = "held"
  /\ Goto(p, "exist1")
  /\ UNCHANGED <<fileVars, excl, late, lockID, other, todo, tries>>

\* The first checkExistence: without its file the process has lost its lock.
CheckExistence(p) ==
  /\ pc[p] = "exist1"
  /\ \/ /\ lockID[p] \in files
        /\ Goto(p, "recreate")
     \/ /\ lockID[p] \notin files \/ "read" \in Faults
        /\ Goto(p, "held")
  /\ UNCHANGED <<fileVars, excl, late, lockID, other, todo, tries>>

\* RefreshStaleLock creates the replacement and waits.
CreateReplacement(p) ==
  /\ pc[p] = "recreate"
  /\ \/ /\ \E i \in LockID :
             /\ StoreFile(p, i)
             /\ other' = [other EXCEPT ![p] = i]
        /\ Goto(p, "exist2")
     \/ /\ CreateFails(p)
        /\ Goto(p, "held")
        /\ UNCHANGED other
  /\ UNCHANGED <<excl, late, lockID, todo, tries>>

\* Mutant of CheckExistenceAgain: the replacement takes over without the second check.
CheckExistenceOnce(p) ==
  /\ pc[p] = "exist2"
  /\ lockID' = [lockID EXCEPT ![p] = other[p]]
  /\ other' = [other EXCEPT ![p] = lockID[p]]
  /\ late' = [late EXCEPT ![p] = other[p] \notin files \ old]
  /\ Goto(p, "remold")
  /\ UNCHANGED <<fileVars, excl, todo, tries>>

\* The second checkExistence: if the old file is still there the replacement takes over.
CheckExistenceAgain(p) ==
  /\ pc[p] = "exist2"
  /\ \/ /\ lockID[p] \in files
        /\ lockID' = [lockID EXCEPT ![p] = other[p]]
        /\ other' = [other EXCEPT ![p] = lockID[p]]
        /\ late' = [late EXCEPT ![p] = other[p] \notin files \ old]
        /\ Goto(p, "remold")
     \/ /\ lockID[p] \notin files \/ "read" \in Faults
        /\ Goto(p, "cleanup")
        /\ UNCHANGED <<lockID, other, late>>
  /\ UNCHANGED <<fileVars, excl, todo, tries>>

\* Mutant of RemoveReplacement: the replacement is forgotten.
ForgetReplacement(p) ==
  /\ pc[p] = "cleanup"
  /\ other' = [other EXCEPT ![p] = NoID]
  /\ Goto(p, "held")
  /\ UNCHANGED <<fileVars, excl, late, lockID, todo, tries>>

\* The lock was removed: RefreshStaleLock removes the replacement and returns ErrRemovedLock.
RemoveReplacement(p) ==
  /\ pc[p] = "cleanup"
  /\ RemoveFile(other[p])
  /\ other' = [other EXCEPT ![p] = NoID]
  /\ Goto(p, "held")
  /\ UNCHANGED <<excl, late, lockID, todo, tries>>

-----------------------------------------------------------------------------
(* Other processes, time and crashes *)

\* RemoveStaleLocks, run on p's host, removes one of the lock files it found stale.
\* A file never becomes less stale, so when it was loaded does not matter.
RemoveStaleLocks(p) ==
  /\ \E i \in files \ empty :
       /\ Stale(p, i)
       /\ DeleteFile(i)
  /\ UNCHANGED procVars

\* RemoveAllLocks removes one of the lock files.
RemoveAllLocks ==
  /\ Forced
  /\ \E i \in files : DeleteFile(i)
  /\ UNCHANGED procVars

\* Half an hour passes.  A process that has called Refresh creates the new file before.
Expire ==
  /\ \E i \in files \ (old \cup empty) :
       /\ \A p \in Proc : pc[p] = "refresh" => i # lockID[p]
       /\ old' = old \cup {i}
       /\ late' = [p \in Proc |-> late[p] \/ lockID[p] = i]
  /\ UNCHANGED <<files, empty, exclusive, owner, dead, pc, excl, lockID, other, todo, tries>>

\* A process exits at any point; its lock files stay.
Exit(p) ==
  /\ "exit" \in Faults
  /\ pc[p] # "idle" \/ \E i \in files \ dead : owner[i] = p
  /\ dead' = dead \cup {i \in files : owner[i] = p}
  /\ Drop(p)
  /\ UNCHANGED <<files, empty, exclusive, owner, old>>

-----------------------------------------------------------------------------

\* The steps of a call that is already running.
Step(p) ==
  \/ ListLocks(p) \/ LoadLock(p) \/ CheckPasses(p) \/ CreateLock(p)
  \/ pc[p] = "undo" /\ Unlock(p)
  \/ RefreshCreate(p) \/ RemoveOld(p)
  \/ CheckExistence(p) \/ CreateReplacement(p)
  \/ CheckExistenceAgain(p) \/ RemoveReplacement(p)

\* The calls.
Call(p) == NewLock(p) \/ Unlock(p) \/ Refresh(p) \/ RefreshStaleLock(p)

Next ==
  \/ \E p \in Proc : Step(p) \/ Call(p) \/ RemoveStaleLocks(p) \/ Exit(p)
  \/ RemoveAllLocks
  \/ Expire

Spec == Init /\ [][Next]_vars

\* A call that is running continues unless its process exits.  (Strong fairness, for
\* a model that is short of names: in the program a step is never disabled again.)
Fairness == \A p \in Proc : SF_vars(Step(p))

FairSpec == Spec /\ Fairness

-----------------------------------------------------------------------------
(* Properties *)

\* p holds a lock that the others can see.
Effective(p) == pc[p] \in Holding /\ lockID[p] \in files

\* newLock, with every refresh, stale lock removal, failure and exit in between, never
\* lets a process hold an exclusive lock while another process holds any lock
\* (the comment on type Lock).
MutualExclusion ==
  \A p, q \in Proc : p # q /\ Effective(p) /\ Effective(q) => ~excl[p] /\ ~excl[q]

\* A lock that is not stale is in the backend as long as its process holds it: Refresh
\* never leaves the repository unlocked between the new and the old file.
FreshLockVisible ==
  \A p \in Proc : pc[p] \in Holding /\ ~late[p] => lockID[p] \in files

\* When nothing fails, no call leaves a lock file behind: every file is that of a lock
\* somebody has or is about to replace, or its process has exited.
NoLockLeft ==
  \A i \in files \ dead : \E p \in Proc : i \in {lockID[p], other[p]}

\* The lock a process holds, as module RepoLock describes it.
Mode(p) ==
  IF ~Effective(p) THEN "none" ELSE IF excl[p] THEN "exclusive" ELSE "shared"

\* The file protocol implements the promise of type Lock: a lock is only acquired when
\* no conflicting lock is held.
Abstract == INSTANCE RepoLock WITH mode <- [p \in Proc |-> Mode(p)]

ImplementsRepoLock == Abstract!Spec

\* newLock, Refresh and RefreshStaleLock always come to an end, however often the lock
\* files they load are replaced underneath them.
CallsReturn == \A p \in Proc : pc[p] \notin {"idle", "held"} ~> pc[p] \in {"idle", "held"}
=============================================================================
