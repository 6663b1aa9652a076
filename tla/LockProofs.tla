------------------------------ MODULE LockProofs ------------------------------
(***************************************************************************)
(* Proofs about module Lock, for any set of processes and any set of       *)
(* names: mutual exclusion, the visibility of fresh locks, and that Lock   *)
(* implements RepoLock.                                                    *)
(***************************************************************************)
EXTENDS Lock, TLAPS

USE ConstAssumption

\* The lock of p has a file, or had one.
HasFile(p) == pc[p] \in Acquiring \cup Holding

\* File i, if it exists, is one that p has created to describe its lock.
Describes(p, i) ==
  i \in files =>
    /\ owner[i] = p
    /\ i \notin empty
    /\ i \notin dead
    /\ i \in exclusive <=> excl[p]

\* A lock's file describes it, and disappears only after it has become stale.
OwnFile ==
  \A p \in Proc : HasFile(p) =>
    /\ lockID[p] \in LockID
    /\ Describes(p, lockID[p])
    /\ lockID[p] \notin files \/ lockID[p] \in old => late[p]
    /\ pc[p] = "refresh" => ~late[p]

\* The second file of a refresh is another file of the same process.
OtherFile ==
  \A p \in Proc : pc[p] \in {"remold", "exist2", "cleanup"} =>
    /\ other[p] \in LockID
    /\ other[p] # lockID[p]
    /\ Describes(p, other[p])

\* newLock has not looked at the lock files since it created its own, or is bound to
\* meet a conflicting file or one that has disappeared since it was listed.
Doomed(p) ==
  \/ pc[p] \in {"list2", "undo"}
  \/ /\ pc[p] = "load2"
     /\ \E i \in todo[p] :
          /\ i # lockID[p]
          /\ i \notin files \/ (i \notin empty /\ Conflicts(p, i))

\* Of two conflicting locks with files, at least one is not acquired yet and will not be.
OneGivesUp ==
  \A p, q \in Proc :
    /\ p # q
    /\ HasFile(p) /\ HasFile(q)
    /\ lockID[p] \in files /\ lockID[q] \in files
    /\ excl[p] \/ excl[q]
    => Doomed(p) \/ Doomed(q)

IInv == TypeOK /\ OwnFile /\ OtherFile /\ OneGivesUp

\* The variables of the processes have their types.
ProcTypes ==
  /\ pc \in [Proc -> PC]
  /\ excl \in [Proc -> BOOLEAN]
  /\ late \in [Proc -> BOOLEAN]
  /\ lockID \in [Proc -> LockID \cup {NoID}]
  /\ other \in [Proc -> LockID \cup {NoID}]
  /\ todo \in [Proc -> SUBSET LockID]
  /\ tries \in [Proc -> 0 .. Tries]

\* The end of a call (a Lock that nothing refers to) keeps the types.
LEMMA DropTypes == ASSUME TypeOK, NEW p \in Proc, Drop(p) PROVE ProcTypes'
  BY DEF TypeOK, ProcTypes, Drop, Goto, PC, Tries

\* The failure of checkForOtherLocks, and that of one of its passes, keep the types.
LEMMA FailTypes ==
  ASSUME TypeOK, NEW p \in Proc, PassFails(p) \/ CheckFails(p) PROVE ProcTypes'
<1> USE DEF TypeOK, PC, Acquiring, Holding, Tries, Goto
<1>1. ASSUME CheckFails(p) PROVE ProcTypes'
  <2>1. CASE Drop(p)
    BY <2>1, DropTypes
  <2>2. CASE ~Drop(p)
    BY <1>1, <2>2 DEF CheckFails, ProcTypes
  <2>3. QED BY <2>1, <2>2
<1>2. ASSUME PassFails(p), ~CheckFails(p) PROVE ProcTypes'
  BY <1>2, SMTT(30) DEF PassFails, ProcTypes
<1>3. QED BY <1>1, <1>2

\* Type correctness of module Lock: every call and every event keeps TypeOK.
LEMMA TypeStep == TypeOK /\ [Next]_vars => TypeOK'
<1> SUFFICES ASSUME TypeOK, [Next]_vars PROVE TypeOK'
  OBVIOUS
<1> USE DEF TypeOK, PC, Acquiring, Holding, Tries, Goto, Drop, vars, procVars, fileVars
<1>1. ASSUME NEW p \in Proc, NewLock(p) PROVE TypeOK'
  BY <1>1 DEF NewLock
<1>2. ASSUME NEW p \in Proc, ListLocks(p) PROVE TypeOK'
  <2>1. CASE PassFails(p)
    BY <1>2, <2>1, FailTypes DEF ListLocks, ProcTypes
  <2>2. CASE ~PassFails(p)
    BY <1>2, <2>2 DEF ListLocks
  <2>3. QED BY <2>1, <2>2
<1>3. ASSUME NEW p \in Proc, LoadLock(p) PROVE TypeOK'
  <2>1. CASE PassFails(p) \/ CheckFails(p)
    BY <1>3, <2>1, FailTypes DEF LoadLock, ProcTypes
  <2>2. CASE ~(PassFails(p) \/ CheckFails(p))
    BY <1>3, <2>2 DEF LoadLock
  <2>3. QED BY <2>1, <2>2
<1>4. ASSUME NEW p \in Proc, CheckPasses(p) PROVE TypeOK'
  BY <1>4 DEF CheckPasses
<1>5. ASSUME NEW p \in Proc, CreateLock(p) PROVE TypeOK'
  <2>1. CASE CreateFails(p) /\ Drop(p)
    BY <2>1, DropTypes DEF CreateFails, StoreFile, StoreEmptyFile, ProcTypes
  <2>2. CASE ~(CreateFails(p) /\ Drop(p))
    BY <1>5, <2>2 DEF CreateLock, StoreFile
  <2>3. QED BY <2>1, <2>2
<1>6. ASSUME NEW p \in Proc, Unlock(p) PROVE TypeOK'
  BY <1>6 DEF Unlock, RemoveFile, DeleteFile
<1>7. ASSUME NEW p \in Proc, Refresh(p) PROVE TypeOK'
  BY <1>7 DEF Refresh
<1>8. ASSUME NEW p \in Proc, RefreshCreate(p) PROVE TypeOK'
  BY <1>8 DEF RefreshCreate, CreateFails, StoreFile, StoreEmptyFile
<1>9. ASSUME NEW p \in Proc, RemoveOld(p) PROVE TypeOK'
  BY <1>9 DEF RemoveOld, RemoveFile, DeleteFile
<1>10. ASSUME NEW p \in Proc, RefreshStaleLock(p) PROVE TypeOK'
  BY <1>10 DEF RefreshStaleLock
<1>11. ASSUME NEW p \in Proc, CheckExistence(p) PROVE TypeOK'
  BY <1>11 DEF CheckExistence
<1>12. ASSUME NEW p \in Proc, CreateReplacement(p) PROVE TypeOK'
  BY <1>12 DEF CreateReplacement, CreateFails, StoreFile, StoreEmptyFile
<1>13. ASSUME NEW p \in Proc, CheckExistenceAgain(p) PROVE TypeOK'
  BY <1>13, ZenonT(30) DEF CheckExistenceAgain
<1>14. ASSUME NEW p \in Proc, RemoveReplacement(p) PROVE TypeOK'
  BY <1>14 DEF RemoveReplacement, RemoveFile, DeleteFile
<1>15. ASSUME NEW p \in Proc, RemoveStaleLocks(p) PROVE TypeOK'
  BY <1>15 DEF RemoveStaleLocks, DeleteFile
<1>16. ASSUME NEW p \in Proc, Exit(p) PROVE TypeOK'
  BY <1>16 DEF Exit
<1>17. ASSUME RemoveAllLocks PROVE TypeOK'
  BY <1>17 DEF RemoveAllLocks, DeleteFile
<1>18. ASSUME Expire PROVE TypeOK'
  BY <1>18 DEF Expire
<1>19. ASSUME UNCHANGED vars PROVE TypeOK'
  BY <1>19, SMTT(30)
<1>20. QED
  BY <1>1, <1>2, <1>3, <1>4, <1>5, <1>6, <1>7, <1>8, <1>9, <1>10, <1>11, <1>12, <1>13, <1>14, <1>15, <1>16, <1>17, <1>18, <1>19 DEF Next, Step, Call

\* No call and no event separates a lock from its file before the file is stale: Refresh
\* creates the new file in time, RefreshStaleLock swaps the files only while the old one
\* exists, and RemoveStaleLocks removes no other.
LEMMA OwnFileStep ==
  ASSUME ~Forced, IInv, [Next]_vars PROVE OwnFile'
<1> USE DEF IInv, TypeOK, PC, Acquiring, Holding, Tries, Goto, vars, procVars, fileVars, OwnFile, OtherFile, HasFile, Describes
<1>1. ASSUME NEW p \in Proc, NewLock(p) PROVE OwnFile'
  BY <1>1 DEF NewLock
<1>2. ASSUME NEW p \in Proc, ListLocks(p) PROVE OwnFile'
  BY <1>2 DEF ListLocks, PassFails, CheckFails, Drop, Ignored, Conflicts
<1>3. ASSUME NEW p \in Proc, LoadLock(p) PROVE OwnFile'
  BY <1>3 DEF LoadLock, PassFails, CheckFails, Drop, Ignored, Conflicts
<1>4. ASSUME NEW p \in Proc, CheckPasses(p) PROVE OwnFile'
  BY <1>4 DEF CheckPasses
<1>5. ASSUME NEW p \in Proc, CreateLock(p) PROVE OwnFile'
  BY <1>5 DEF CreateLock, CreateFails, StoreFile, StoreEmptyFile, Fresh, Drop
<1>6. ASSUME NEW p \in Proc, Unlock(p) PROVE OwnFile'
  BY <1>6 DEF Unlock, RemoveFile, DeleteFile, Drop
<1>7. ASSUME NEW p \in Proc, Refresh(p) PROVE OwnFile'
  BY <1>7 DEF Refresh
<1>8. ASSUME NEW p \in Proc, RefreshCreate(p) PROVE OwnFile'
  BY <1>8 DEF RefreshCreate, CreateFails, StoreFile, StoreEmptyFile, Fresh, Drop
<1>9. ASSUME NEW p \in Proc, RemoveOld(p) PROVE OwnFile'
  BY <1>9 DEF RemoveOld, RemoveFile, DeleteFile, Drop
<1>10. ASSUME NEW p \in Proc, RefreshStaleLock(p) PROVE OwnFile'
  BY <1>10 DEF RefreshStaleLock
<1>11. ASSUME NEW p \in Proc, CheckExistence(p) PROVE OwnFile'
  BY <1>11 DEF CheckExistence
<1>12. ASSUME NEW p \in Proc, CreateReplacement(p) PROVE OwnFile'
  BY <1>12 DEF CreateReplacement, CreateFails, StoreFile, StoreEmptyFile, Fresh, Drop
<1>13. ASSUME NEW p \in Proc, CheckExistenceAgain(p) PROVE OwnFile'
  <2>1. CASE lockID[p] \in files /\ other[p] \in files \ old /\ pc' # [pc EXCEPT ![p] = "cleanup"]
    BY <1>13, <2>1 DEF CheckExistenceAgain
  <2>2. CASE lockID[p] \in files /\ other[p] \notin files \ old /\ pc' # [pc EXCEPT ![p] = "cleanup"]
    <3>1. late' = [late EXCEPT ![p] = TRUE]
      BY <1>13, <2>2, ZenonT(30) DEF CheckExistenceAgain
    <3>2. QED BY <1>13, <2>2, <3>1 DEF CheckExistenceAgain
  <2>3. CASE lockID[p] \notin files \/ pc' = [pc EXCEPT ![p] = "cleanup"]
    BY <1>13, <2>3 DEF CheckExistenceAgain
  <2>4. QED BY <2>1, <2>2, <2>3
<1>14. ASSUME NEW p \in Proc, RemoveReplacement(p) PROVE OwnFile'
  BY <1>14 DEF RemoveReplacement, RemoveFile, DeleteFile, Drop
<1>15. ASSUME NEW p \in Proc, RemoveStaleLocks(p) PROVE OwnFile'
  BY <1>15 DEF RemoveStaleLocks, Stale, DeleteFile
<1>16. ASSUME NEW p \in Proc, Exit(p) PROVE OwnFile'
  BY <1>16 DEF Exit, Drop
<1>17. ASSUME Expire PROVE OwnFile'
  <2>1. PICK i \in files \ (old \cup empty) :
          /\ \A p \in Proc : pc[p] = "refresh" => i # lockID[p]
          /\ old' = old \cup {i}
          /\ late' = [p \in Proc |-> late[p] \/ lockID[p] = i]
    BY <1>17 DEF Expire
  <2>2. \A p \in Proc : late'[p] <=> (late[p] \/ lockID[p] = i)
    BY <2>1, ZenonT(30)
  <2>3. QED BY <1>17, <2>1, <2>2 DEF Expire
<1>18. ASSUME UNCHANGED vars PROVE OwnFile'
  BY <1>18
<1>19. QED
  BY <1>1, <1>2, <1>3, <1>4, <1>5, <1>6, <1>7, <1>8, <1>9, <1>10, <1>11, <1>12, <1>13, <1>14, <1>15, <1>16, <1>17, <1>18 DEF Next, Step, Call, RemoveAllLocks

\* The two files of a refresh stay files of the same lock until one of them is removed.
LEMMA OtherFileStep ==
  ASSUME ~Forced, IInv, [Next]_vars PROVE OtherFile'
<1> USE DEF IInv, TypeOK, PC, Acquiring, Holding, Tries, Goto, vars, procVars, fileVars, OwnFile, OtherFile, HasFile, Describes
<1>1. ASSUME NEW p \in Proc, NewLock(p) PROVE OtherFile'
  BY <1>1 DEF NewLock
<1>2. ASSUME NEW p \in Proc, ListLocks(p) PROVE OtherFile'
  BY <1>2 DEF ListLocks, PassFails, CheckFails, Drop, Ignored, Conflicts
<1>3. ASSUME NEW p \in Proc, LoadLock(p) PROVE OtherFile'
  BY <1>3 DEF LoadLock, PassFails, CheckFails, Drop, Ignored, Conflicts
<1>4. ASSUME NEW p \in Proc, CheckPasses(p) PROVE OtherFile'
  BY <1>4 DEF CheckPasses
<1>5. ASSUME NEW p \in Proc, CreateLock(p) PROVE OtherFile'
  BY <1>5 DEF CreateLock, CreateFails, StoreFile, StoreEmptyFile, Fresh, Drop
<1>6. ASSUME NEW p \in Proc, Unlock(p) PROVE OtherFile'
  BY <1>6 DEF Unlock, RemoveFile, DeleteFile, Drop
<1>7. ASSUME NEW p \in Proc, Refresh(p) PROVE OtherFile'
  BY <1>7 DEF Refresh
<1>8. ASSUME NEW p \in Proc, RefreshCreate(p) PROVE OtherFile'
  BY <1>8 DEF RefreshCreate, CreateFails, StoreFile, StoreEmptyFile, Fresh, Drop
<1>9. ASSUME NEW p \in Proc, RemoveOld(p) PROVE OtherFile'
  BY <1>9 DEF RemoveOld, RemoveFile, DeleteFile, Drop
<1>10. ASSUME NEW p \in Proc, RefreshStaleLock(p) PROVE OtherFile'
  BY <1>10 DEF RefreshStaleLock
<1>11. ASSUME NEW p \in Proc, CheckExistence(p) PROVE OtherFile'
  BY <1>11 DEF CheckExistence
<1>12. ASSUME NEW p \in Proc, CreateReplacement(p) PROVE OtherFile'
  BY <1>12 DEF CreateReplacement, CreateFails, StoreFile, StoreEmptyFile, Fresh, Drop
<1>13. ASSUME NEW p \in Proc, CheckExistenceAgain(p) PROVE OtherFile'
  BY <1>13 DEF CheckExistenceAgain
<1>14. ASSUME NEW p \in Proc, RemoveReplacement(p) PROVE OtherFile'
  BY <1>14 DEF RemoveReplacement, RemoveFile, DeleteFile, Drop
<1>15. ASSUME NEW p \in Proc, RemoveStaleLocks(p) PROVE OtherFile'
  BY <1>15 DEF RemoveStaleLocks, Stale, DeleteFile
<1>16. ASSUME NEW p \in Proc, Exit(p) PROVE OtherFile'
  BY <1>16 DEF Exit, Drop
<1>17. ASSUME Expire PROVE OtherFile'
  BY <1>17 DEF Expire
<1>18. ASSUME UNCHANGED vars PROVE OtherFile'
  BY <1>18
<1>19. QED
  BY <1>1, <1>2, <1>3, <1>4, <1>5, <1>6, <1>7, <1>8, <1>9, <1>10, <1>11, <1>12, <1>13, <1>14, <1>15, <1>16, <1>17, <1>18 DEF Next, Step, Call, RemoveAllLocks

\* Two conflicting locks never both survive the second checkForOtherLocks: each file
\* created is seen by the check of whoever created its file later.
LEMMA OneGivesUpStep ==
  ASSUME ~Forced, IInv, [Next]_vars PROVE OneGivesUp'
<1> USE DEF IInv, TypeOK, PC, Acquiring, Holding, Tries, Goto, vars, procVars, fileVars, OwnFile, OtherFile, OneGivesUp, HasFile, Describes, Doomed, Conflicts
<1>1. ASSUME NEW p \in Proc, NewLock(p) PROVE OneGivesUp'
  BY <1>1 DEF NewLock
<1>2. ASSUME NEW p \in Proc, ListLocks(p) PROVE OneGivesUp'
  BY <1>2 DEF ListLocks, PassFails, CheckFails, Drop, Ignored, Conflicts
<1>3. ASSUME NEW p \in Proc, LoadLock(p) PROVE OneGivesUp'
  BY <1>3 DEF LoadLock, PassFails, CheckFails, Drop, Ignored, Conflicts
<1>4. ASSUME NEW p \in Proc, CheckPasses(p) PROVE OneGivesUp'
  BY <1>4 DEF CheckPasses
<1>5. ASSUME NEW p \in Proc, CreateLock(p) PROVE OneGivesUp'
  BY <1>5 DEF CreateLock, CreateFails, StoreFile, StoreEmptyFile, Fresh, Drop
<1>6. ASSUME NEW p \in Proc, Unlock(p) PROVE OneGivesUp'
  BY <1>6 DEF Unlock, RemoveFile, DeleteFile, Drop
<1>7. ASSUME NEW p \in Proc, Refresh(p) PROVE OneGivesUp'
  BY <1>7 DEF Refresh
<1>8. ASSUME NEW p \in Proc, RefreshCreate(p) PROVE OneGivesUp'
  BY <1>8 DEF RefreshCreate, CreateFails, StoreFile, StoreEmptyFile, Fresh, Drop
<1>9. ASSUME NEW p \in Proc, RemoveOld(p) PROVE OneGivesUp'
  BY <1>9 DEF RemoveOld, RemoveFile, DeleteFile, Drop
<1>10. ASSUME NEW p \in Proc, RefreshStaleLock(p) PROVE OneGivesUp'
  BY <1>10 DEF RefreshStaleLock
<1>11. ASSUME NEW p \in Proc, CheckExistence(p) PROVE OneGivesUp'
  BY <1>11 DEF CheckExistence
<1>12. ASSUME NEW p \in Proc, CreateReplacement(p) PROVE OneGivesUp'
  BY <1>12 DEF CreateReplacement, CreateFails, StoreFile, StoreEmptyFile, Fresh, Drop
<1>13. ASSUME NEW p \in Proc, CheckExistenceAgain(p) PROVE OneGivesUp'
  BY <1>13 DEF CheckExistenceAgain
<1>14. ASSUME NEW p \in Proc, RemoveReplacement(p) PROVE OneGivesUp'
  BY <1>14 DEF RemoveReplacement, RemoveFile, DeleteFile, Drop
<1>15. ASSUME NEW p \in Proc, RemoveStaleLocks(p) PROVE OneGivesUp'
  BY <1>15 DEF RemoveStaleLocks, Stale, DeleteFile
<1>16. ASSUME NEW p \in Proc, Exit(p) PROVE OneGivesUp'
  BY <1>16 DEF Exit, Drop
<1>17. ASSUME Expire PROVE OneGivesUp'
  BY <1>17 DEF Expire
<1>18. ASSUME UNCHANGED vars PROVE OneGivesUp'
  BY <1>18
<1>19. QED
  BY <1>1, <1>2, <1>3, <1>4, <1>5, <1>6, <1>7, <1>8, <1>9, <1>10, <1>11, <1>12, <1>13, <1>14, <1>15, <1>16, <1>17, <1>18, ZenonT(30) DEF Next, Step, Call, RemoveAllLocks

\* The strengthened invariant holds in every behaviour without RemoveAllLocks.
LEMMA Inductive == ASSUME ~Forced PROVE Spec => []IInv
<1>1. Init => IInv
  BY DEF Init, IInv, TypeOK, PC, Tries, OwnFile, OtherFile, OneGivesUp, HasFile, Acquiring, Holding
<1>2. IInv /\ [Next]_vars => IInv'
  BY TypeStep, OwnFileStep, OtherFileStep, OneGivesUpStep DEF IInv
<1>3. QED BY <1>1, <1>2, PTL DEF Spec

\* Type correctness, RemoveAllLocks included.
THEOREM TypeCorrect == Spec => []TypeOK
<1>1. Init => TypeOK
  BY DEF Init, TypeOK, PC, Tries
<1>2. QED BY <1>1, TypeStep, PTL DEF Spec

\* No process holds an exclusive lock, with its file in the repository, while another
\* one holds a lock: newLock's check, create, check again keeps the promise of type Lock
\* through refreshes, removals of stale locks, failed backend calls and exits.
THEOREM LockExcludes == ASSUME ~Forced PROVE Spec => []MutualExclusion
<1>1. IInv => MutualExclusion
  BY DEF IInv, TypeOK, OneGivesUp, Doomed, HasFile, MutualExclusion, Effective, Holding, Acquiring
<1>2. QED BY <1>1, Inductive, PTL

\* The file of a lock that is not stale stays in the repository, in the middle of a
\* Refresh and of a RefreshStaleLock too.
THEOREM FreshLockStays == ASSUME ~Forced PROVE Spec => []FreshLockVisible
<1>1. IInv => FreshLockVisible
  BY DEF IInv, TypeOK, OwnFile, HasFile, FreshLockVisible
<1>2. QED BY <1>1, Inductive, PTL

-----------------------------------------------------------------------------
(* No lock file is left behind *)

\* A process knows the files it has created for as long as they exist: the file of its lock
\* from its creation on, the second one during a refresh.
FilesKnown ==
  /\ NoLockLeft
  /\ \A p \in Proc :
       /\ HasFile(p) \/ lockID[p] = NoID
       /\ pc[p] \in {"remold", "exist2", "cleanup"} \/ other[p] = NoID
       /\ \A i \in files : i \in {lockID[p], other[p]} => owner[i] = p

\* No step loses track of a file, when files can be stored and removed: whoever forgets a
\* file has removed it, or has exited and left it to RemoveStaleLocks.
LEMMA FilesKnownStep ==
  ASSUME "save" \notin Faults, "remove" \notin Faults, TypeOK, FilesKnown, [Next]_vars
  PROVE  FilesKnown'
<1> USE DEF TypeOK, Acquiring, Holding, Goto, vars, procVars, fileVars, FilesKnown, NoLockLeft, HasFile
<1>1. ASSUME NEW p \in Proc, NewLock(p) PROVE FilesKnown'
  BY <1>1 DEF NewLock
<1>2. ASSUME NEW p \in Proc, ListLocks(p) PROVE FilesKnown'
  BY <1>2 DEF ListLocks, PassFails, CheckFails, Drop
<1>3. ASSUME NEW p \in Proc, LoadLock(p) PROVE FilesKnown'
  BY <1>3 DEF LoadLock, PassFails, CheckFails, Drop
<1>4. ASSUME NEW p \in Proc, CheckPasses(p) PROVE FilesKnown'
  BY <1>4 DEF CheckPasses
<1>5. ASSUME NEW p \in Proc, CreateLock(p) PROVE FilesKnown'
  BY <1>5 DEF CreateLock, CreateFails, StoreFile, Fresh
<1>6. ASSUME NEW p \in Proc, Unlock(p) PROVE FilesKnown'
  BY <1>6 DEF Unlock, RemoveFile, DeleteFile, Drop
<1>7. ASSUME NEW p \in Proc, Refresh(p) PROVE FilesKnown'
  BY <1>7 DEF Refresh
<1>8. ASSUME NEW p \in Proc, RefreshCreate(p) PROVE FilesKnown'
  BY <1>8 DEF RefreshCreate, CreateFails, StoreFile, Fresh
<1>9. ASSUME NEW p \in Proc, RemoveOld(p) PROVE FilesKnown'
  BY <1>9 DEF RemoveOld, RemoveFile, DeleteFile
<1>10. ASSUME NEW p \in Proc, RefreshStaleLock(p) PROVE FilesKnown'
  BY <1>10 DEF RefreshStaleLock
<1>11. ASSUME NEW p \in Proc, CheckExistence(p) PROVE FilesKnown'
  BY <1>11 DEF CheckExistence
<1>12. ASSUME NEW p \in Proc, CreateReplacement(p) PROVE FilesKnown'
  BY <1>12 DEF CreateReplacement, CreateFails, StoreFile, Fresh
<1>13. ASSUME NEW p \in Proc, CheckExistenceAgain(p) PROVE FilesKnown'
  BY <1>13 DEF CheckExistenceAgain
<1>14. ASSUME NEW p \in Proc, RemoveReplacement(p) PROVE FilesKnown'
  BY <1>14 DEF RemoveReplacement, RemoveFile, DeleteFile
<1>15. ASSUME NEW p \in Proc, RemoveStaleLocks(p) PROVE FilesKnown'
  BY <1>15 DEF RemoveStaleLocks, DeleteFile
<1>16. ASSUME NEW p \in Proc, Exit(p) PROVE FilesKnown'
  BY <1>16 DEF Exit, Drop
<1>17. ASSUME RemoveAllLocks PROVE FilesKnown'
  BY <1>17 DEF RemoveAllLocks, DeleteFile
<1>18. ASSUME Expire PROVE FilesKnown'
  BY <1>18 DEF Expire
<1>19. ASSUME UNCHANGED vars PROVE FilesKnown'
  BY <1>19
<1> HIDE DEF FilesKnown
<1>20. QED
  BY <1>1, <1>2, <1>3, <1>4, <1>5, <1>6, <1>7, <1>8, <1>9, <1>10, <1>11, <1>12, <1>13, <1>14, <1>15, <1>16, <1>17, <1>18, <1>19 DEF Next, Step, Call

\* When files can be stored and removed, every lock file belongs to a lock that somebody has
\* or is about to replace, or to a process that has exited: Unlock, a failed newLock, Refresh
\* and RefreshStaleLock leave none behind, whatever reading fails, whoever removes locks
\* (RemoveAllLocks included) and whenever processes exit.
THEOREM NoLockIsLeft ==
  ASSUME "save" \notin Faults, "remove" \notin Faults PROVE Spec => []NoLockLeft
<1>1. Init => FilesKnown
  BY DEF Init, FilesKnown, NoLockLeft, HasFile
<1>2. TypeOK /\ FilesKnown /\ [Next]_vars => FilesKnown'
  BY FilesKnownStep
<1>3. FilesKnown => NoLockLeft
  BY DEF FilesKnown
<1>4. QED BY <1>1, <1>2, <1>3, TypeCorrect, PTL DEF Spec

-----------------------------------------------------------------------------
(* Lock implements RepoLock *)

\* The step changes at most the lock that p holds, from or to none.
OnlyOf(p) ==
  /\ \A q \in Proc \ {p} : Mode(q)' = Mode(q)
  /\ Mode(p)' = Mode(p) \/ Mode(p)' = "none" \/ Mode(p) = "none"

\* Such a step is one of RepoLock, because it respects mutual exclusion.
LEMMA OnlyOfSimulates ==
  ASSUME MutualExclusion', NEW p \in Proc, OnlyOf(p)
  PROVE  [Abstract!Next]_[q \in Proc |-> Mode(q)]
<1> DEFINE m == [q \in Proc |-> Mode(q)]
<1>1. m' = [m EXCEPT ![p] = Mode(p)']
  BY ZenonT(30) DEF OnlyOf
<1>2. CASE Mode(p)' = Mode(p)
  BY <1>1, <1>2, ZenonT(30)
<1>3. CASE Mode(p)' = "none" /\ Mode(p) # "none"
  BY <1>1, <1>3, ZenonT(30) DEF Abstract!Next, Abstract!Release
<1>4. CASE Mode(p) = "none" /\ Mode(p)' = "shared"
  <2>1. \A q \in Proc : Mode(q) # "exclusive"
    BY <1>4 DEF OnlyOf, Mode, MutualExclusion
  <2>2. QED BY <1>1, <1>4, <2>1, ZenonT(30) DEF Abstract!Next, Abstract!Acquire
<1>5. CASE Mode(p) = "none" /\ Mode(p)' = "exclusive"
  <2>1. \A q \in Proc : Mode(q) = "none"
    BY <1>5 DEF OnlyOf, Mode, MutualExclusion
  <2>2. QED BY <1>1, <1>5, <2>1, ZenonT(30) DEF Abstract!Next, Abstract!Acquire
<1>6. QED BY <1>2, <1>3, <1>4, <1>5 DEF OnlyOf, Mode

\* Every step of Lock changes the lock of at most one process: it is the only one to
\* which a removed file belongs, and a refresh never changes what is held.
LEMMA EveryStepOnlyOf ==
  ASSUME ~Forced, IInv, Next PROVE \/ \E p \in Proc : OnlyOf(p)
                                  \/ \A p \in Proc : Mode(p)' = Mode(p)
<1> USE DEF IInv, TypeOK, PC, Acquiring, Holding, Tries, Goto, vars, procVars, fileVars, OwnFile, OtherFile, HasFile, Describes, OnlyOf, Mode, Effective
<1>1. ASSUME NEW p \in Proc, NewLock(p) PROVE OnlyOf(p)
  BY <1>1 DEF NewLock
<1>2. ASSUME NEW p \in Proc, ListLocks(p) PROVE OnlyOf(p)
  BY <1>2 DEF ListLocks, PassFails, CheckFails, Drop
<1>3. ASSUME NEW p \in Proc, LoadLock(p) PROVE OnlyOf(p)
  BY <1>3 DEF LoadLock, PassFails, CheckFails, Drop
<1>4. ASSUME NEW p \in Proc, CheckPasses(p) PROVE OnlyOf(p)
  BY <1>4 DEF CheckPasses
<1>5. ASSUME NEW p \in Proc, CreateLock(p) PROVE OnlyOf(p)
  BY <1>5 DEF CreateLock, CreateFails, StoreFile, StoreEmptyFile, Fresh, Drop
<1>6. ASSUME NEW p \in Proc, Unlock(p) PROVE OnlyOf(p)
  BY <1>6 DEF Unlock, RemoveFile, DeleteFile, Drop
<1>7. ASSUME NEW p \in Proc, Refresh(p) PROVE OnlyOf(p)
  BY <1>7 DEF Refresh
<1>8. ASSUME NEW p \in Proc, RefreshCreate(p) PROVE OnlyOf(p)
  BY <1>8 DEF RefreshCreate, CreateFails, StoreFile, StoreEmptyFile, Fresh
<1>9. ASSUME NEW p \in Proc, RemoveOld(p) PROVE OnlyOf(p)
  BY <1>9 DEF RemoveOld, RemoveFile, DeleteFile
<1>10. ASSUME NEW p \in Proc, RefreshStaleLock(p) PROVE OnlyOf(p)
  BY <1>10 DEF RefreshStaleLock
<1>11. ASSUME NEW p \in Proc, CheckExistence(p) PROVE OnlyOf(p)
  BY <1>11, SMTT(30) DEF CheckExistence
<1>12. ASSUME NEW p \in Proc, CreateReplacement(p) PROVE OnlyOf(p)
  BY <1>12 DEF CreateReplacement, CreateFails, StoreFile, StoreEmptyFile, Fresh
<1>13. ASSUME NEW p \in Proc, CheckExistenceAgain(p) PROVE OnlyOf(p)
  BY <1>13 DEF CheckExistenceAgain
<1>14. ASSUME NEW p \in Proc, RemoveReplacement(p) PROVE OnlyOf(p)
  BY <1>14, SMTT(30) DEF RemoveReplacement, RemoveFile, DeleteFile
<1>15. ASSUME NEW p \in Proc, RemoveStaleLocks(p) PROVE \/ \E q \in Proc : OnlyOf(q)
                                                       \/ \A q \in Proc : Mode(q)' = Mode(q)
  <2>1. PICK i \in files \ empty : DeleteFile(i)
    BY <1>15, SMTT(30) DEF RemoveStaleLocks
  <2>2. CASE \E q \in Proc : HasFile(q) /\ lockID[q] = i
    <3>1. PICK q \in Proc : HasFile(q) /\ lockID[q] = i
      BY <2>2
    <3>2. OnlyOf(q)
      BY <1>15, <2>1, <3>1 DEF RemoveStaleLocks, DeleteFile
    <3>3. QED BY <3>2
  <2>3. CASE ~\E q \in Proc : HasFile(q) /\ lockID[q] = i
    BY <1>15, <2>1, <2>3 DEF RemoveStaleLocks, DeleteFile
  <2>4. QED BY <2>2, <2>3
<1>16. ASSUME NEW p \in Proc, Exit(p) PROVE OnlyOf(p)
  BY <1>16 DEF Exit, Drop
<1>17. ASSUME Expire PROVE \A p \in Proc : Mode(p)' = Mode(p)
  BY <1>17 DEF Expire
<1> HIDE DEF IInv, OnlyOf, Mode, Effective
<1>18. ASSUME NEW p \in Proc, Step(p) \/ Call(p) PROVE OnlyOf(p)
  BY <1>18, <1>1, <1>2, <1>3, <1>4, <1>5, <1>6, <1>7, <1>8, <1>9, <1>10, <1>11, <1>12, <1>13, <1>14 DEF Step, Call
<1>19. QED
  BY <1>15, <1>16, <1>17, <1>18 DEF Next, RemoveAllLocks

\* The lock files implement the locks of RepoLock: every step of every call is an
\* acquisition that RepoLock allows, a release, or invisible to the lock's users.
THEOREM LockImplementsRepoLock == ASSUME ~Forced PROVE Spec => ImplementsRepoLock
<1> DEFINE m == [p \in Proc |-> Mode(p)]
<1>1. Init => Abstract!Init
  BY DEF Init, Abstract!Init, Mode, Effective, Holding
<1>2. IInv => MutualExclusion
  BY DEF IInv, TypeOK, OneGivesUp, Doomed, HasFile, MutualExclusion, Effective, Holding, Acquiring
<1>3. ASSUME IInv, MutualExclusion', [Next]_vars PROVE [Abstract!Next]_m
  <2>1. CASE Next
    BY <1>3, <2>1, EveryStepOnlyOf, OnlyOfSimulates
  <2>2. CASE UNCHANGED vars
    BY <2>2 DEF vars, fileVars, procVars, Mode, Effective
  <2>3. QED BY <1>3, <2>1, <2>2
<1>4. QED BY <1>1, <1>2, <1>3, Inductive, PTL DEF Spec, ImplementsRepoLock, Abstract!Spec
=============================================================================
