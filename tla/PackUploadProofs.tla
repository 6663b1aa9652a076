--------------------------- MODULE PackUploadProofs ---------------------------
(***************************************************************************)
(* Proofs about module PackUpload, for any blobs, savers and uploaders:    *)
(* types, packs before the index, no duplicates, and that a Flush that     *)
(* returns nil has made every accepted blob durable.                       *)
(***************************************************************************)
EXTENDS PackUpload, TLAPS

USE ConstAssumption DEF NoScope, UploaderScope, GroupScope, CallerScope

Worker == Uploader \cup {Main}

\* The pack that uploader u still has to enter into the index.
Task(u) == IF uploader[u] \in {"save", "store"} THEN task[u] ELSE {}

\* The part of TypeOK that the proofs below need most.
Shape ==
  /\ saver \in [Saver -> {"idle", "pack", "queue"}]
  /\ cargo \in [Saver -> SUBSET Blob]
  /\ uploader \in [Uploader -> {"idle", "save", "store", "full", "index", "merge", "done", "failed"}]
  /\ task \in [Uploader -> SUBSET Blob]
  /\ packer \in [Type -> SUBSET Blob]

\* Packs are packs long before they are stored.
WellFormed ==
  /\ \A t \in Type : \A b \in packer[t] : TypeOf(b) = t
  /\ \A s \in Saver : saver[s] = "idle" => cargo[s] = {}
  /\ \A s \in Saver : saver[s] = "pack" => \E b \in Blob : cargo[s] = {b}
  /\ \A s \in Saver : saver[s] = "queue" => cargo[s] \in Pack
  /\ \A u \in Uploader : uploader[u] \in {"save", "store"} => task[u] \in Pack

\* Only a goroutine that is saving an index has one, and no uploader is running outside a
\* session and after flushPacks.
Jobs ==
  /\ main \in {"off", "final", "index", "merge"} => UploadersEnded
  /\ \A u \in Uploader : job[u] # {} => uploader[u] = "index"
  /\ job[Main] # {} => main = "index"

\* A pack is stored before it is in an index; an index file lists packs of the index.
StoredFirst ==
  /\ \A u \in Uploader : uploader[u] = "store" => task[u] \in stored
  /\ InIndex \subseteq stored
  /\ listed \subseteq InIndex

\* What is underway is pending and in one place; what is pending is not in the index.
OnePlace ==
  /\ \A t \in Type : packer[t] \subseteq pending
  /\ \A s \in Saver : cargo[s] \subseteq pending
  /\ \A u \in Uploader : Task(u) \subseteq pending
  /\ \A p \in InIndex : pending \cap p = {}
  /\ \A p, q \in InIndex : p # q => p \cap q = {}
  /\ \A t \in Type, s \in Saver : packer[t] \cap cargo[s] = {}
  /\ \A t \in Type, u \in Uploader : packer[t] \cap Task(u) = {}
  /\ \A s \in Saver, u \in Uploader : cargo[s] \cap Task(u) = {}
  /\ \A s, r \in Saver : s # r => cargo[s] \cap cargo[r] = {}
  /\ \A u, v \in Uploader : u # v => Task(u) \cap Task(v) = {}

\* The inductive invariant.
PlaceInv == TypeOK /\ WellFormed /\ Jobs /\ StoredFirst /\ OnePlace

-----------------------------------------------------------------------------

\* Every step keeps the types, given that packs are well formed.
LEMMA TypeStep ==
  ASSUME TypeOK, WellFormed, [Next]_vars PROVE TypeOK'
<1> USE DEF TypeOK, WellFormed, Type, vars, backendVars, indexVars, saverVars, uploaderVars, mainVars
<1>1. ASSUME NEW s \in Saver, NEW b \in Blob, SaveBlob(s, b) PROVE TypeOK'
  BY <1>1 DEF SaveBlob, SaverReturns, SaverTo
<1>2. ASSUME NEW s \in Saver, AddBlob(s) PROVE TypeOK'
  <2>1. PICK b \in Blob : cargo[s] = {b}
    BY <1>2, Zenon DEF AddBlob
  <2> DEFINE t == TypeOf(b)
             p == IF b \in Big THEN {b} ELSE packer[t] \cup {b}
  <2>2. t \in Type /\ p \in SUBSET Blob /\ p # {} /\ \A c \in p : TypeOf(c) = t
    BY <2>1, ZenonT(40) DEF TypeOf
  <2>3. CASE packer' = [packer EXCEPT ![t] = p] /\ SaverReturns(s, {b})
    BY <1>2, <2>1, <2>2, <2>3, Zenon DEF AddBlob, SaverReturns, SaverTo
  <2>4. CASE /\ packer' = IF b \in Big THEN packer ELSE [packer EXCEPT ![t] = {}]
             /\ SaverTo(s, "queue", p)
             /\ UNCHANGED <<saverErr, accepted>>
    BY <1>2, <2>1, <2>2, <2>4, Zenon DEF AddBlob, SaverTo, Pack
  <2>5. CASE SaverFails(s) /\ UNCHANGED packer
    BY <1>2, <2>1, <2>5, Zenon DEF AddBlob, SaverFails, SaverTo
  <2>6. QED BY <1>2, <2>1, <2>3, <2>4, <2>5, ZenonT(40) DEF AddBlob
<1>3. ASSUME NEW s \in Saver, QueuePacker(s) PROVE TypeOK'
  BY <1>3, Zenon DEF QueuePacker, Receive, SaverReturns, SaverFails, SaverTo
<1>4. ASSUME NEW u \in Uploader, SavePack(u) PROVE TypeOK'
  BY <1>4 DEF SavePack, UploaderTo, UploaderFails, Cancel
<1>5. ASSUME NEW u \in Uploader, StorePack(u) PROVE TypeOK'
  BY <1>5, ZenonT(40) DEF StorePack, UploaderTo
<1>6. ASSUME NEW u \in Uploader, FinalizeFullIndexes(u) PROVE TypeOK'
  BY <1>6, Zenon DEF FinalizeFullIndexes, Finalize, UploaderTo
<1>7. ASSUME NEW u \in Uploader, SaveFullIndex(u) PROVE TypeOK'
  BY <1>7 DEF SaveFullIndex, IndexSaved, IndexNotSaved, UploaderTo, UploaderFails, Cancel
<1>8. ASSUME NEW u \in Uploader, PackerSaved(u) PROVE TypeOK'
  BY <1>8, Zenon DEF PackerSaved, MergeFinalIndexes, UploaderTo
<1>9. ASSUME NEW u \in Uploader, UploaderStops(u) PROVE TypeOK'
  BY <1>9, Zenon DEF UploaderStops, UploaderTo
<1>10. ASSUME NotifyGroup PROVE TypeOK'
  BY <1>10 DEF NotifyGroup, Cancel
<1>11. ASSUME FlushPackers PROVE TypeOK'
  <2>1. ASSUME NEW t \in Type, NEW next \in {"data", "close"}, FlushPacker(t, next) PROVE TypeOK'
    <3>1. CASE packer[t] = {}
      BY <2>1, <3>1, Zenon DEF FlushPacker, MainTo
    <3>2. CASE packer[t] # {} /\ MainTo(next)
      <4>1. packer[t] \in Pack
        BY <3>2, Zenon DEF Pack
      <4>2. PICK u \in Uploader : Receive(u, packer[t])
        BY <2>1, <3>2, Zenon DEF FlushPacker, MainTo, Abandon
      <4>3. QED BY <2>1, <3>2, <4>1, <4>2 DEF FlushPacker, Receive, MainTo, Abandon
    <3>3. CASE packer[t] # {} /\ Abandon /\ UNCHANGED <<packer, uploaderVars>>
      BY <2>1, <3>3 DEF FlushPacker, Abandon, Cancel
    <3>4. QED BY <2>1, <3>1, <3>2, <3>3, Zenon DEF FlushPacker
  <2>2. QED BY <1>11, <2>1, Zenon DEF FlushPackers, Type
<1>12. ASSUME TriggerShutdown PROVE TypeOK'
  BY <1>12, Zenon DEF TriggerShutdown, MainTo
<1>13. ASSUME WaitUploaders PROVE TypeOK'
  BY <1>13, Zenon DEF WaitUploaders, UploadersEnded, UploadFailed, FlushFails, MainTo
<1>14. ASSUME FinalizeNotFinalIndexes PROVE TypeOK'
  BY <1>14, Zenon DEF FinalizeNotFinalIndexes, Finalize, MainTo
<1>15. ASSUME SaveIndex PROVE TypeOK'
  <2>1. saverErr' \in BOOLEAN /\ failed' \in BOOLEAN
    BY <1>15, Zenon DEF SaveIndex, IndexSaved, IndexNotSaved, FlushFails, MainTo
  <2>2. QED BY <1>15, <2>1 DEF SaveIndex, IndexSaved, IndexNotSaved, FlushFails, MainTo
<1>16. ASSUME FlushReturns PROVE TypeOK'
  BY <1>16, Zenon DEF FlushReturns, MergeFinalIndexes
<1>17. ASSUME StartPackUploader PROVE TypeOK'
  <2>1. saverErr' \in BOOLEAN /\ failed' \in BOOLEAN
    BY <1>17, Zenon DEF StartPackUploader, MainTo
  <2>2. QED BY <1>17, <2>1 DEF StartPackUploader, MainTo
<1>18. ASSUME SaversDone PROVE TypeOK'
  <2>1. saverErr' \in BOOLEAN /\ failed' \in BOOLEAN
    BY <1>18, Zenon DEF SaversDone, MainTo, Abandon, Cancel
  <2>2. QED BY <1>18, <2>1 DEF SaversDone, MainTo, Abandon, Cancel
<1>19. ASSUME UserCancels PROVE TypeOK'
  BY <1>19 DEF UserCancels, Cancel
<1>20. ASSUME Restart PROVE TypeOK'
  <2>1. saverErr' \in BOOLEAN /\ failed' \in BOOLEAN
    BY <1>20, Zenon DEF Restart, Loaded
  <2>2. QED BY <1>20, <2>1 DEF Restart, Loaded
<1>21. ASSUME UNCHANGED vars PROVE TypeOK'
  BY <1>21, Zenon
<1>22. QED
  BY <1>1, <1>2, <1>3, <1>4, <1>5, <1>6, <1>7, <1>8, <1>9, <1>10, <1>11, <1>12, <1>13, <1>14, <1>15, <1>16, <1>17, <1>18, <1>19, <1>20, <1>21, Zenon
     DEF Next, SaverStep, UploaderStep, FlushStep

\* Packs stay well formed: SaveBlob puts a blob into the packer of its type, and only packs
\* with blobs are queued.
LEMMA WellFormedStep ==
  ASSUME TypeOK, WellFormed, [Next]_vars PROVE WellFormed'
<1> USE DEF TypeOK, WellFormed, Type, vars, backendVars, indexVars, saverVars, uploaderVars, mainVars
<1>1. ASSUME NEW s \in Saver, NEW b \in Blob, SaveBlob(s, b) PROVE WellFormed'
  BY <1>1 DEF SaveBlob, SaverReturns, SaverTo
<1>2. ASSUME NEW s \in Saver, AddBlob(s) PROVE WellFormed'
  <2>1. PICK b \in Blob : cargo[s] = {b}
    BY <1>2, Zenon DEF AddBlob
  <2> DEFINE t == TypeOf(b)
             p == IF b \in Big THEN {b} ELSE packer[t] \cup {b}
  <2>2. t \in Type /\ p \in SUBSET Blob /\ p # {} /\ \A c \in p : TypeOf(c) = t
    BY <2>1, Zenon DEF TypeOf
  <2>3. CASE packer' = [packer EXCEPT ![t] = p] /\ SaverReturns(s, {b})
    BY <1>2, <2>1, <2>2, <2>3, ZenonT(40) DEF AddBlob, SaverReturns, SaverTo
  <2>4. CASE /\ packer' = IF b \in Big THEN packer ELSE [packer EXCEPT ![t] = {}]
             /\ SaverTo(s, "queue", p)
             /\ UNCHANGED <<saverErr, accepted>>
    BY <1>2, <2>1, <2>2, <2>4 DEF AddBlob, SaverTo, Pack
  <2>5. CASE SaverFails(s) /\ UNCHANGED packer
    BY <1>2, <2>1, <2>5, ZenonT(40) DEF AddBlob, SaverFails, SaverTo
  <2>6. QED BY <1>2, <2>1, <2>3, <2>4, <2>5, Zenon DEF AddBlob
<1>3. ASSUME NEW s \in Saver, QueuePacker(s) PROVE WellFormed'
  BY <1>3 DEF QueuePacker, Receive, SaverReturns, SaverFails, SaverTo
<1>4. ASSUME NEW u \in Uploader, SavePack(u) PROVE WellFormed'
  BY <1>4, Zenon DEF SavePack, UploaderTo, UploaderFails, Cancel
<1>5. ASSUME NEW u \in Uploader, StorePack(u) PROVE WellFormed'
  BY <1>5, Zenon DEF StorePack, UploaderTo
<1>6. ASSUME NEW u \in Uploader, FinalizeFullIndexes(u) PROVE WellFormed'
  BY <1>6, ZenonT(40) DEF FinalizeFullIndexes, Finalize, UploaderTo
<1>7. ASSUME NEW u \in Uploader, SaveFullIndex(u) PROVE WellFormed'
  BY <1>7, ZenonT(40) DEF SaveFullIndex, IndexSaved, IndexNotSaved, UploaderTo, UploaderFails, Cancel
<1>8. ASSUME NEW u \in Uploader, PackerSaved(u) PROVE WellFormed'
  BY <1>8, Zenon DEF PackerSaved, MergeFinalIndexes, UploaderTo
<1>9. ASSUME NEW u \in Uploader, UploaderStops(u) PROVE WellFormed'
  BY <1>9, ZenonT(40) DEF UploaderStops, UploaderTo
<1>10. ASSUME NotifyGroup PROVE WellFormed'
  BY <1>10, Zenon DEF NotifyGroup, Cancel
<1>11. ASSUME FlushPackers PROVE WellFormed'
  <2>1. ASSUME NEW t \in Type, NEW next \in {"data", "close"}, FlushPacker(t, next) PROVE WellFormed'
    <3>1. CASE packer[t] = {}
      BY <2>1, <3>1, Zenon DEF FlushPacker, MainTo
    <3>2. CASE packer[t] # {} /\ MainTo(next)
      <4>1. packer[t] \in Pack
        BY <3>2, Zenon DEF Pack
      <4>2. PICK u \in Uploader : Receive(u, packer[t])
        BY <2>1, <3>2, Zenon DEF FlushPacker, MainTo, Abandon
      <4>3. QED BY <2>1, <3>2, <4>1, <4>2 DEF FlushPacker, Receive, MainTo, Abandon
    <3>3. CASE packer[t] # {} /\ Abandon /\ UNCHANGED <<packer, uploaderVars>>
      BY <2>1, <3>3, Zenon DEF FlushPacker, Abandon, Cancel
    <3>4. QED BY <2>1, <3>1, <3>2, <3>3, Zenon DEF FlushPacker
  <2>2. QED BY <1>11, <2>1, Zenon DEF FlushPackers, Type
<1>12. ASSUME TriggerShutdown PROVE WellFormed'
  BY <1>12, Zenon DEF TriggerShutdown, MainTo
<1>13. ASSUME WaitUploaders PROVE WellFormed'
  BY <1>13, Zenon DEF WaitUploaders, UploadersEnded, UploadFailed, FlushFails, MainTo
<1>14. ASSUME FinalizeNotFinalIndexes PROVE WellFormed'
  BY <1>14, Zenon DEF FinalizeNotFinalIndexes, Finalize, MainTo
<1>15. ASSUME SaveIndex PROVE WellFormed'
  BY <1>15, Zenon DEF SaveIndex, IndexSaved, IndexNotSaved, FlushFails, MainTo
<1>16. ASSUME FlushReturns PROVE WellFormed'
  BY <1>16, Zenon DEF FlushReturns, MergeFinalIndexes
<1>17. ASSUME StartPackUploader PROVE WellFormed'
  BY <1>17, Zenon DEF StartPackUploader, MainTo
<1>18. ASSUME SaversDone PROVE WellFormed'
  BY <1>18, Zenon DEF SaversDone, MainTo, Abandon, Cancel
<1>19. ASSUME UserCancels PROVE WellFormed'
  BY <1>19, Zenon DEF UserCancels, Cancel
<1>20. ASSUME Restart PROVE WellFormed'
  BY <1>20, Zenon DEF Restart, Loaded
<1>21. ASSUME UNCHANGED vars PROVE WellFormed'
  BY <1>21, Zenon
<1>22. QED
  BY <1>1, <1>2, <1>3, <1>4, <1>5, <1>6, <1>7, <1>8, <1>9, <1>10, <1>11, <1>12, <1>13, <1>14, <1>15, <1>16, <1>17, <1>18, <1>19, <1>20, <1>21, Zenon
     DEF Next, SaverStep, UploaderStep, FlushStep

\* Only goroutines that are saving an index have one.
LEMMA JobsStep ==
  ASSUME TypeOK, Jobs, [Next]_vars PROVE Jobs'
<1> USE DEF TypeOK, Jobs, UploadersEnded, vars, backendVars, indexVars, saverVars, uploaderVars, mainVars
<1>1. ASSUME NEW s \in Saver, NEW b \in Blob, SaveBlob(s, b) PROVE Jobs'
  BY <1>1, Zenon DEF SaveBlob, SaverReturns, SaverTo
<1>2. ASSUME NEW s \in Saver, AddBlob(s) PROVE Jobs'
  BY <1>2, Zenon DEF AddBlob, SaverReturns, SaverFails, SaverTo
<1>3. ASSUME NEW s \in Saver, QueuePacker(s) PROVE Jobs'
  BY <1>3, Zenon DEF QueuePacker, Receive, SaverReturns, SaverFails, SaverTo
<1>4. ASSUME NEW u \in Uploader, SavePack(u) PROVE Jobs'
  BY <1>4, ZenonT(40) DEF SavePack, UploaderTo, UploaderFails, Cancel
<1>5. ASSUME NEW u \in Uploader, StorePack(u) PROVE Jobs'
  BY <1>5, Zenon DEF StorePack, UploaderTo
<1>6. ASSUME NEW u \in Uploader, FinalizeFullIndexes(u) PROVE Jobs'
  BY <1>6, ZenonT(40) DEF FinalizeFullIndexes, Finalize, UploaderTo
<1>7. ASSUME NEW u \in Uploader, SaveFullIndex(u) PROVE Jobs'
  BY <1>7 DEF SaveFullIndex, IndexSaved, IndexNotSaved, UploaderTo, UploaderFails, Cancel
<1>8. ASSUME NEW u \in Uploader, PackerSaved(u) PROVE Jobs'
  BY <1>8, Zenon DEF PackerSaved, MergeFinalIndexes, UploaderTo
<1>9. ASSUME NEW u \in Uploader, UploaderStops(u) PROVE Jobs'
  BY <1>9, Zenon DEF UploaderStops, UploaderTo
<1>10. ASSUME NotifyGroup PROVE Jobs'
  BY <1>10, Zenon DEF NotifyGroup, Cancel
<1>11. ASSUME FlushPackers PROVE Jobs'
  BY <1>11 DEF FlushPackers, FlushPacker, Receive, MainTo, Abandon, Cancel
<1>12. ASSUME TriggerShutdown PROVE Jobs'
  BY <1>12, Zenon DEF TriggerShutdown, MainTo
<1>13. ASSUME WaitUploaders PROVE Jobs'
  BY <1>13, Zenon DEF WaitUploaders, UploadersEnded, UploadFailed, FlushFails, MainTo
<1>14. ASSUME FinalizeNotFinalIndexes PROVE Jobs'
  BY <1>14, Zenon DEF FinalizeNotFinalIndexes, Finalize, MainTo
<1>15. ASSUME SaveIndex PROVE Jobs'
  BY <1>15, Zenon DEF SaveIndex, IndexSaved, IndexNotSaved, FlushFails, MainTo
<1>16. ASSUME FlushReturns PROVE Jobs'
  BY <1>16, Zenon DEF FlushReturns, MergeFinalIndexes
<1>17. ASSUME StartPackUploader PROVE Jobs'
  BY <1>17, Zenon DEF StartPackUploader, MainTo
<1>18. ASSUME SaversDone PROVE Jobs'
  BY <1>18, Zenon DEF SaversDone, MainTo, Abandon, Cancel
<1>19. ASSUME UserCancels PROVE Jobs'
  BY <1>19, Zenon DEF UserCancels, Cancel
<1>20. ASSUME Restart PROVE Jobs'
  BY <1>20, Zenon DEF Restart, Loaded
<1>21. ASSUME UNCHANGED vars PROVE Jobs'
  BY <1>21, Zenon
<1>22. QED
  BY <1>1, <1>2, <1>3, <1>4, <1>5, <1>6, <1>7, <1>8, <1>9, <1>10, <1>11, <1>12, <1>13, <1>14, <1>15, <1>16, <1>17, <1>18, <1>19, <1>20, <1>21, Zenon
     DEF Next, SaverStep, UploaderStep, FlushStep

-----------------------------------------------------------------------------
(* What happens to the packs of the master index *)

\* A step that leaves the indexes alone.
LEMMA IndexSame == ASSUME UNCHANGED indexVars PROVE InIndex' = InIndex
  BY Zenon DEF indexVars, InIndex

\* An index that becomes final stays in the master index.
LEMMA IndexFinalized ==
  ASSUME TypeOK, NEW w \in Worker, job[w] = {}, Finalize(w), UNCHANGED <<saved, merged>>
  PROVE  InIndex' = InIndex
<1>1. \A v \in Worker : job'[v] = IF v = w THEN open ELSE job[v]
  BY Zenon DEF Finalize, TypeOK, Worker
<1>2. \A p : (p \in open \/ \E v \in Worker : p \in job[v]) <=> (p \in open' \/ \E v \in Worker : p \in job'[v])
  BY <1>1, Zenon DEF Finalize
<1>3. QED BY <1>2 DEF InIndex, Worker

\* So does one that has been saved, or that could not be saved.
LEMMA IndexGotID ==
  ASSUME TypeOK, NEW w \in Worker, UNCHANGED <<open, merged>>,
         saved' = saved \cup job[w], job' = [job EXCEPT ![w] = {}]
  PROVE  InIndex' = InIndex
<1>1. \A v \in Worker : job'[v] = IF v = w THEN {} ELSE job[v]
  BY Zenon DEF TypeOK, Worker
<1>2. \A p : (p \in saved \/ \E v \in Worker : p \in job[v]) <=> (p \in saved' \/ \E v \in Worker : p \in job'[v])
  BY <1>1
<1>3. QED BY <1>2 DEF InIndex, Worker

\* Merging loses nothing.
LEMMA IndexMerged == ASSUME MergeFinalIndexes, UNCHANGED <<open, job>> PROVE InIndex' = InIndex
  BY Zenon DEF MergeFinalIndexes, InIndex

\* StorePack adds the pack.
LEMMA IndexStored ==
  ASSUME NEW u \in Uploader, StorePack(u) PROVE InIndex' = InIndex \cup {task[u]}
  BY Zenon DEF StorePack, InIndex

\* After a restart the index has what the index files list.
LEMMA IndexLoaded == ASSUME Restart PROVE InIndex' = listed
  BY Zenon DEF Restart, Loaded, InIndex

\* What a goroutine is saving is part of the index.
LEMMA JobInIndex == ASSUME NEW w \in Worker PROVE job[w] \subseteq InIndex
  BY Zenon DEF InIndex, Worker

\* No step puts a pack into the index before it is stored, or a blob into two places.
LEMMA PlaceStep ==
  ASSUME PlaceInv, [Next]_vars
  PROVE  StoredFirst' /\ OnePlace'
<1> DEFINE Goal == StoredFirst' /\ OnePlace'
<1> USE DEF vars, backendVars, indexVars, saverVars, uploaderVars, mainVars
<1> Shape
  BY Zenon DEF PlaceInv, TypeOK, Shape
<1>1. ASSUME NEW s \in Saver, NEW b \in Blob, SaveBlob(s, b) PROVE Goal
  <2>1. InIndex' = InIndex
    BY <1>1, IndexSame, Zenon DEF SaveBlob, SaverReturns, SaverTo, vars, backendVars, indexVars, saverVars, uploaderVars, mainVars
  <2>2. StoredFirst'
    BY <1>1, <2>1, Zenon DEF PlaceInv, Shape, StoredFirst, Worker, SaveBlob, SaverReturns, SaverTo
  <2>3. OnePlace'
    <3>1. CASE b \notin pending \cup Indexed
      <4>1. \A p \in InIndex : b \notin p
        BY <3>1, Zenon DEF Indexed
      <4>2. QED BY <1>1, <2>1, <3>1, <4>1 DEF PlaceInv, Shape, WellFormed, Type, OnePlace, Task, SaveBlob, SaverTo
    <3>2. CASE b \in pending \cup Indexed
      BY <1>1, <2>1, <3>2 DEF PlaceInv, Shape, WellFormed, Type, OnePlace, Task, SaveBlob, SaverReturns, SaverTo
    <3>3. QED BY <3>1, <3>2, Zenon
  <2>4. QED BY <2>2, <2>3, Zenon
<1>2. ASSUME NEW s \in Saver, AddBlob(s) PROVE Goal
  <2>1. InIndex' = InIndex
    BY <1>2, IndexSame, Zenon DEF AddBlob, SaverReturns, SaverFails, SaverTo, vars, backendVars, indexVars, saverVars, uploaderVars, mainVars
  <2>2. StoredFirst'
    BY <1>2, <2>1, Zenon DEF PlaceInv, Shape, StoredFirst, Worker, AddBlob, SaverReturns, SaverFails, SaverTo
  <2>3. OnePlace'
    <3>1. PICK b \in Blob : cargo[s] = {b}
      BY <1>2, Zenon DEF AddBlob, PlaceInv, WellFormed
    <3> DEFINE t == TypeOf(b)
               p == IF b \in Big THEN {b} ELSE packer[t] \cup {b}
    <3>2. t \in Type /\ p \subseteq packer[t] \cup {b} /\ b \in pending
      BY <3>1, Zenon DEF TypeOf, Type, PlaceInv, OnePlace
    <3>3. CASE packer' = [packer EXCEPT ![t] = p] /\ SaverReturns(s, {b})
      BY <1>2, <2>1, <3>1, <3>2, <3>3 DEF PlaceInv, Shape, WellFormed, Type, OnePlace, Task, AddBlob, SaverReturns, SaverTo
    <3>4. CASE b \in Big /\ packer' = packer /\ SaverTo(s, "queue", {b}) /\ UNCHANGED <<saverErr, accepted>>
      BY <1>2, <2>1, <3>1, <3>2, <3>4 DEF PlaceInv, Shape, WellFormed, Type, OnePlace, Task, AddBlob, SaverTo
    <3>5. CASE b \notin Big /\ packer' = [packer EXCEPT ![t] = {}] /\ SaverTo(s, "queue", packer[t] \cup {b}) /\ UNCHANGED <<saverErr, accepted>>
      BY <1>2, <2>1, <3>1, <3>2, <3>5 DEF PlaceInv, Shape, WellFormed, Type, OnePlace, Task, AddBlob, SaverTo
    <3>6. CASE SaverFails(s) /\ UNCHANGED packer
      BY <1>2, <2>1, <3>1, <3>6 DEF PlaceInv, Shape, WellFormed, Type, OnePlace, Task, AddBlob, SaverFails, SaverTo
    <3>7. QED BY <1>2, <3>1, <3>3, <3>4, <3>5, <3>6, Zenon DEF AddBlob
  <2>4. QED BY <2>2, <2>3, Zenon
<1>3. ASSUME NEW s \in Saver, QueuePacker(s) PROVE Goal
  <2>1. InIndex' = InIndex
    BY <1>3, IndexSame, Zenon DEF QueuePacker, Receive, SaverReturns, SaverFails, SaverTo, vars, backendVars, indexVars, saverVars, uploaderVars, mainVars
  <2>2. StoredFirst'
    BY <1>3, <2>1, Zenon DEF PlaceInv, Shape, StoredFirst, Worker, QueuePacker, Receive, SaverReturns, SaverFails, SaverTo
  <2>3. OnePlace'
    BY <1>3, <2>1 DEF PlaceInv, Shape, WellFormed, Type, OnePlace, StoredFirst, Task, QueuePacker, Receive, SaverReturns, SaverFails, SaverTo
  <2>4. QED BY <2>2, <2>3, Zenon
<1>4. ASSUME NEW u \in Uploader, SavePack(u) PROVE Goal
  <2>1. InIndex' = InIndex
    BY <1>4, IndexSame, Zenon DEF SavePack, UploaderTo, UploaderFails, Cancel, vars, backendVars, indexVars, saverVars, uploaderVars, mainVars
  <2>2. StoredFirst'
    BY <1>4, <2>1, Zenon DEF PlaceInv, Shape, StoredFirst, Worker, SavePack, UploaderTo, UploaderFails, Cancel
  <2>3. OnePlace'
    BY <1>4, <2>1 DEF PlaceInv, Shape, WellFormed, Type, OnePlace, StoredFirst, Task, SavePack, UploaderTo, UploaderFails, Cancel
  <2>4. QED BY <2>2, <2>3, Zenon
<1>5. ASSUME NEW u \in Uploader, StorePack(u) PROVE Goal
  <2>1. InIndex' = InIndex \cup {task[u]}
    BY <1>5, IndexStored, Zenon
  <2>2. StoredFirst'
    BY <1>5, <2>1, Zenon DEF PlaceInv, Shape, StoredFirst, Worker, StorePack, UploaderTo
  <2>3. OnePlace'
    BY <1>5, <2>1 DEF PlaceInv, Shape, WellFormed, Type, OnePlace, StoredFirst, Task, StorePack, UploaderTo
  <2>4. QED BY <2>2, <2>3, Zenon
<1>6. ASSUME NEW u \in Uploader, FinalizeFullIndexes(u) PROVE Goal
  <2>1. InIndex' = InIndex
    BY <1>6, IndexFinalized, IndexSame, Zenon DEF FinalizeFullIndexes, PlaceInv, Worker, Jobs, indexVars
  <2>2. StoredFirst'
    BY <1>6, <2>1, Zenon DEF PlaceInv, Shape, StoredFirst, Worker, FinalizeFullIndexes, Finalize, UploaderTo
  <2>3. OnePlace'
    BY <1>6, <2>1 DEF PlaceInv, Shape, WellFormed, Type, OnePlace, StoredFirst, Task, FinalizeFullIndexes, Finalize, UploaderTo
  <2>4. QED BY <2>2, <2>3, Zenon
<1>7. ASSUME NEW u \in Uploader, SaveFullIndex(u) PROVE Goal
  <2>1. InIndex' = InIndex
    BY <1>7, IndexGotID, Zenon DEF SaveFullIndex, PlaceInv, IndexSaved, IndexNotSaved, Worker
  <2>2. StoredFirst'
    BY <1>7, <2>1, JobInIndex, Zenon DEF PlaceInv, Shape, StoredFirst, Worker, SaveFullIndex, IndexSaved, IndexNotSaved, UploaderTo, UploaderFails, Cancel, Worker
  <2>3. OnePlace'
    BY <1>7, <2>1, JobInIndex DEF PlaceInv, Shape, WellFormed, Type, OnePlace, StoredFirst, Task, SaveFullIndex, IndexSaved, IndexNotSaved, UploaderTo, UploaderFails, Cancel, Worker
  <2>4. QED BY <2>2, <2>3, Zenon
<1>8. ASSUME NEW u \in Uploader, PackerSaved(u) PROVE Goal
  <2>1. InIndex' = InIndex
    BY <1>8, IndexMerged, Zenon DEF PackerSaved
  <2>2. StoredFirst'
    BY <1>8, <2>1, Zenon DEF PlaceInv, Shape, StoredFirst, Worker, PackerSaved, MergeFinalIndexes, UploaderTo
  <2>3. OnePlace'
    BY <1>8, <2>1 DEF PlaceInv, Shape, WellFormed, Type, OnePlace, StoredFirst, Task, PackerSaved, MergeFinalIndexes, UploaderTo
  <2>4. QED BY <2>2, <2>3, Zenon
<1>9. ASSUME NEW u \in Uploader, UploaderStops(u) PROVE Goal
  <2>1. InIndex' = InIndex
    BY <1>9, IndexSame, Zenon DEF UploaderStops, UploaderTo, vars, backendVars, indexVars, saverVars, uploaderVars, mainVars
  <2>2. StoredFirst'
    BY <1>9, <2>1, Zenon DEF PlaceInv, Shape, StoredFirst, Worker, UploaderStops, UploaderTo
  <2>3. OnePlace'
    BY <1>9, <2>1 DEF PlaceInv, Shape, WellFormed, Type, OnePlace, StoredFirst, Task, UploaderStops, UploaderTo
  <2>4. QED BY <2>2, <2>3, Zenon
<1>10. ASSUME NotifyGroup PROVE Goal
  <2>1. InIndex' = InIndex
    BY <1>10, IndexSame, Zenon DEF NotifyGroup, Cancel, vars, backendVars, indexVars, saverVars, uploaderVars, mainVars
  <2>2. StoredFirst'
    BY <1>10, <2>1, Zenon DEF PlaceInv, Shape, StoredFirst, Worker, NotifyGroup, Cancel
  <2>3. OnePlace'
    BY <1>10, <2>1, ZenonT(40) DEF PlaceInv, Shape, WellFormed, Type, OnePlace, StoredFirst, Task, NotifyGroup, Cancel
  <2>4. QED BY <2>2, <2>3, Zenon
<1>11. ASSUME FlushPackers PROVE Goal
  <2>1. InIndex' = InIndex
    BY <1>11, IndexSame, Zenon DEF FlushPackers, FlushPacker, Receive, MainTo, Abandon, Cancel, vars, backendVars, indexVars, saverVars, uploaderVars, mainVars
  <2>2. StoredFirst'
    BY <1>11, <2>1, Zenon DEF PlaceInv, Shape, StoredFirst, Worker, FlushPackers, FlushPacker, Receive, MainTo, Abandon, Cancel
  <2>3. OnePlace'
    BY <1>11, <2>1 DEF PlaceInv, Shape, WellFormed, Type, OnePlace, StoredFirst, Task, FlushPackers, FlushPacker, Receive, MainTo, Abandon, Cancel
  <2>4. QED BY <2>2, <2>3, Zenon
<1>12. ASSUME TriggerShutdown PROVE Goal
  <2>1. InIndex' = InIndex
    BY <1>12, IndexSame, Zenon DEF TriggerShutdown, MainTo, vars, backendVars, indexVars, saverVars, uploaderVars, mainVars
  <2>2. StoredFirst'
    BY <1>12, <2>1, Zenon DEF PlaceInv, Shape, StoredFirst, Worker, TriggerShutdown, MainTo
  <2>3. OnePlace'
    BY <1>12, <2>1 DEF PlaceInv, Shape, WellFormed, Type, OnePlace, StoredFirst, Task, TriggerShutdown, MainTo
  <2>4. QED BY <2>2, <2>3, Zenon
<1>13. ASSUME WaitUploaders PROVE Goal
  <2>1. InIndex' = InIndex
    BY <1>13, IndexSame, Zenon DEF WaitUploaders, UploadersEnded, UploadFailed, FlushFails, MainTo, vars, backendVars, indexVars, saverVars, uploaderVars, mainVars
  <2>2. StoredFirst'
    BY <1>13, <2>1, Zenon DEF PlaceInv, Shape, StoredFirst, Worker, WaitUploaders, UploadersEnded, UploadFailed, FlushFails, MainTo
  <2>3. OnePlace'
    BY <1>13, <2>1, Zenon DEF PlaceInv, Shape, WellFormed, Type, OnePlace, StoredFirst, Task, WaitUploaders, UploadersEnded, UploadFailed, FlushFails, MainTo
  <2>4. QED BY <2>2, <2>3, Zenon
<1>14. ASSUME FinalizeNotFinalIndexes PROVE Goal
  <2>1. InIndex' = InIndex
    BY <1>14, IndexFinalized, IndexSame, Zenon DEF FinalizeNotFinalIndexes, PlaceInv, Worker, Jobs, indexVars
  <2>2. StoredFirst'
    BY <1>14, <2>1, Zenon DEF PlaceInv, Shape, StoredFirst, Worker, FinalizeNotFinalIndexes, Finalize, MainTo
  <2>3. OnePlace'
    BY <1>14, <2>1, ZenonT(40) DEF PlaceInv, Shape, WellFormed, Type, OnePlace, StoredFirst, Task, FinalizeNotFinalIndexes, Finalize, MainTo
  <2>4. QED BY <2>2, <2>3, Zenon
<1>15. ASSUME SaveIndex PROVE Goal
  <2>1. InIndex' = InIndex
    BY <1>15, IndexGotID, Zenon DEF SaveIndex, PlaceInv, IndexSaved, IndexNotSaved, Worker
  <2>2. StoredFirst'
    BY <1>15, <2>1, JobInIndex, Zenon DEF PlaceInv, Shape, StoredFirst, Worker, SaveIndex, IndexSaved, IndexNotSaved, FlushFails, MainTo, Worker
  <2>3. OnePlace'
    BY <1>15, <2>1, JobInIndex DEF PlaceInv, Shape, WellFormed, Type, OnePlace, StoredFirst, Task, SaveIndex, IndexSaved, IndexNotSaved, FlushFails, MainTo, Worker
  <2>4. QED BY <2>2, <2>3, Zenon
<1>16. ASSUME FlushReturns PROVE Goal
  <2>1. InIndex' = InIndex
    BY <1>16, IndexMerged, Zenon DEF FlushReturns
  <2>2. StoredFirst'
    BY <1>16, <2>1, Zenon DEF PlaceInv, Shape, StoredFirst, Worker, FlushReturns, MergeFinalIndexes
  <2>3. OnePlace'
    BY <1>16, <2>1, ZenonT(40) DEF PlaceInv, Shape, WellFormed, Type, OnePlace, StoredFirst, Task, FlushReturns, MergeFinalIndexes
  <2>4. QED BY <2>2, <2>3, Zenon
<1>17. ASSUME StartPackUploader PROVE Goal
  <2>1. InIndex' = InIndex
    BY <1>17, IndexSame, Zenon DEF StartPackUploader, MainTo, vars, backendVars, indexVars, saverVars, uploaderVars, mainVars
  <2>2. StoredFirst'
    BY <1>17, <2>1, Zenon DEF PlaceInv, Shape, StoredFirst, Worker, StartPackUploader, MainTo
  <2>3. OnePlace'
    BY <1>17, <2>1 DEF PlaceInv, Shape, WellFormed, Type, OnePlace, StoredFirst, Task, StartPackUploader, MainTo
  <2>4. QED BY <2>2, <2>3, Zenon
<1>18. ASSUME SaversDone PROVE Goal
  <2>1. InIndex' = InIndex
    BY <1>18, IndexSame, Zenon DEF SaversDone, MainTo, Abandon, Cancel, vars, backendVars, indexVars, saverVars, uploaderVars, mainVars
  <2>2. StoredFirst'
    BY <1>18, <2>1, Zenon DEF PlaceInv, Shape, StoredFirst, Worker, SaversDone, MainTo, Abandon, Cancel
  <2>3. OnePlace'
    BY <1>18, <2>1 DEF PlaceInv, Shape, WellFormed, Type, OnePlace, StoredFirst, Task, SaversDone, MainTo, Abandon, Cancel
  <2>4. QED BY <2>2, <2>3, Zenon
<1>19. ASSUME UserCancels PROVE Goal
  <2>1. InIndex' = InIndex
    BY <1>19, IndexSame, Zenon DEF UserCancels, Cancel, vars, backendVars, indexVars, saverVars, uploaderVars, mainVars
  <2>2. StoredFirst'
    BY <1>19, <2>1, Zenon DEF PlaceInv, Shape, StoredFirst, Worker, UserCancels, Cancel
  <2>3. OnePlace'
    BY <1>19, <2>1, ZenonT(40) DEF PlaceInv, Shape, WellFormed, Type, OnePlace, StoredFirst, Task, UserCancels, Cancel
  <2>4. QED BY <2>2, <2>3, Zenon
<1>20. ASSUME Restart PROVE Goal
  <2>1. InIndex' = listed
    BY <1>20, IndexLoaded, Zenon
  <2>2. StoredFirst'
    BY <1>20, <2>1, Zenon DEF PlaceInv, Shape, StoredFirst, Worker, Restart, Loaded
  <2>3. OnePlace'
    BY <1>20, <2>1 DEF PlaceInv, Shape, WellFormed, Type, OnePlace, StoredFirst, Task, Restart, Loaded
  <2>4. QED BY <2>2, <2>3, Zenon
<1>21. ASSUME UNCHANGED vars PROVE Goal
  <2>1. InIndex' = InIndex
    BY <1>21, IndexSame, Zenon
  <2>2. StoredFirst'
    BY <1>21, <2>1, Zenon DEF PlaceInv, Shape, StoredFirst, Worker
  <2>3. OnePlace'
    BY <1>21, <2>1 DEF PlaceInv, Shape, WellFormed, Type, OnePlace, StoredFirst, Task
  <2>4. QED BY <2>2, <2>3, Zenon
<1>22. QED
  BY <1>1, <1>2, <1>3, <1>4, <1>5, <1>6, <1>7, <1>8, <1>9, <1>10, <1>11, <1>12, <1>13, <1>14, <1>15, <1>16, <1>17, <1>18, <1>19, <1>20, <1>21, Zenon
     DEF Next, SaverStep, UploaderStep, FlushStep

-----------------------------------------------------------------------------
(* Theorems *)

\* The invariant about places holds initially.
LEMMA PlaceInit == ASSUME Init PROVE PlaceInv /\ InIndex = {}
<1>1. InIndex = {}
  BY Zenon DEF Init, InIndex
<1>2. TypeOK
  <2>1. saverErr \in BOOLEAN /\ failed \in BOOLEAN
    BY Zenon DEF Init
  <2>2. QED BY <2>1 DEF Init, TypeOK, Type
<1>3. WellFormed
  BY Zenon DEF Init, WellFormed, Type
<1>4. Jobs
  BY Zenon DEF Init, Jobs, UploadersEnded
<1>5. StoredFirst
  BY <1>1, Zenon DEF Init, StoredFirst
<1>6. OnePlace
  BY <1>1, Zenon DEF Init, OnePlace, Task, Type
<1>7. QED BY <1>1, <1>2, <1>3, <1>4, <1>5, <1>6, Zenon DEF PlaceInv

\* The invariant about places holds in every behaviour.
LEMMA PlaceInductive == Spec => []PlaceInv
<1>1. Init => PlaceInv
  BY PlaceInit, Zenon
<1>2. PlaceInv /\ [Next]_vars => PlaceInv'
  BY TypeStep, WellFormedStep, JobsStep, PlaceStep, Zenon DEF PlaceInv
<1>3. QED BY <1>1, <1>2, PTL DEF Spec

\* Type correctness; in particular only packs with blobs, of one type, are ever stored.
THEOREM TypeCorrect == Spec => []TypeOK
<1>1. PlaceInv => TypeOK
  BY Zenon DEF PlaceInv
<1>2. QED BY <1>1, PlaceInductive, PTL

\* An index never lists a pack that is not in the backend: savePacker calls StorePack after
\* Save, and no failure, cancellation or restart gets in between.
THEOREM PacksBeforeIndex == Spec => []IndexedPacksStored
<1>1. PlaceInv => IndexedPacksStored
  BY Zenon DEF PlaceInv, StoredFirst, IndexedPacksStored
<1>2. QED BY <1>1, PlaceInductive, PTL

\* SaveBlob never saves a blob twice: AddPending and StorePack leave no moment in which a
\* blob is neither pending nor in the index.
THEOREM Deduplicates == Spec => []NoDuplicates
<1>1. PlaceInv => NoDuplicates
  <2> SUFFICES ASSUME PlaceInv, NEW b \in Blob, NEW x \in PlacesOf(b), NEW y \in PlacesOf(b)
               PROVE  x = y
    BY Zenon DEF NoDuplicates
  <2> DEFINE InPacker(z) == \E t \in Type : b \in packer[t] /\ z = <<"packer", t>>
             WithSaver(z) == \E s \in Saver : b \in cargo[s] /\ z = <<"saver", s>>
             WithUploader(z) == \E u \in Uploader : b \in Task(u) /\ z = <<"uploader", u>>
             Listed(z) == \E p \in InIndex : b \in p /\ z = <<"index", p>>
  <2>1. ASSUME NEW z \in PlacesOf(b) PROVE InPacker(z) \/ WithSaver(z) \/ WithUploader(z) \/ Listed(z)
    BY <2>1, Zenon DEF PlacesOf, Task
  <2>2. ~(b \in pending /\ \E p \in InIndex : b \in p)
    BY Zenon DEF PlaceInv, OnePlace
  <2>3. ASSUME NEW z, InPacker(z) \/ WithSaver(z) \/ WithUploader(z) PROVE b \in pending
    BY <2>3, Zenon DEF PlaceInv, OnePlace
  <2>4. CASE InPacker(x)
    <3>1. InPacker(y)
      BY <2>1, <2>2, <2>3, <2>4, Zenon DEF PlaceInv, OnePlace
    <3>2. QED BY <2>4, <3>1 DEF PlaceInv, WellFormed
  <2>5. CASE WithSaver(x)
    <3>1. WithSaver(y)
      BY <2>1, <2>2, <2>3, <2>5, Zenon DEF PlaceInv, OnePlace
    <3>2. QED BY <2>5, <3>1, Zenon DEF PlaceInv, OnePlace
  <2>6. CASE WithUploader(x)
    <3>1. WithUploader(y)
      BY <2>1, <2>2, <2>3, <2>6, Zenon DEF PlaceInv, OnePlace
    <3>2. QED BY <2>6, <3>1, Zenon DEF PlaceInv, OnePlace
  <2>7. CASE Listed(x)
    <3>1. Listed(y)
      BY <2>1, <2>2, <2>3, <2>7, Zenon
    <3>2. QED BY <2>7, <3>1, Zenon DEF PlaceInv, OnePlace
  <2>8. QED BY <2>1, <2>4, <2>5, <2>6, <2>7, Zenon
<1>2. QED BY <1>1, PlaceInductive, PTL

-----------------------------------------------------------------------------
(* Flush makes accepted blobs durable *)

\* What the phases of a session have achieved, for a caller that does not go on after an
\* error.
Phases ==
  /\ failed => main \in {"off", "dead"}
  /\ main \notin {"run", "dead"} => \A s \in Saver : saver[s] = "idle"
  /\ main \notin {"run", "dead"} /\ ~failed => ~saverErr
  /\ main \in {"data", "close", "wait", "final", "index", "merge"} => packer["tree"] = {}
  /\ main \in {"close", "wait", "final", "index", "merge"} => packer["data"] = {}
  /\ main \in {"final", "index", "merge"} => \A u \in Uploader : uploader[u] = "done"
  /\ main = "off" /\ ~failed => \A u \in Uploader : uploader[u] = "done"
  /\ main \in {"index", "merge"} => open = {}

\* Nothing has gone wrong in this process.
Healthy == ~failed /\ ~saverErr /\ ~UploadFailed

\* As long as nothing goes wrong no blob is lost on its way into an index file.
NothingLost ==
  Healthy =>
    /\ \A b \in pending : \/ \E t \in Type : b \in packer[t]
                          \/ \E s \in Saver : b \in cargo[s]
                          \/ \E u \in Uploader : b \in Task(u)
    /\ saved \cup merged \subseteq listed

\* A blob that SaveBlob has accepted is pending or in the index.
AcceptedKnown == accepted \subseteq pending \cup Indexed

CommittedListed == committed \subseteq UNION listed

\* The inductive invariant.
IInv == PlaceInv /\ Phases /\ NothingLost /\ AcceptedKnown /\ CommittedListed

-----------------------------------------------------------------------------

\* No step loses a blob that SaveBlob has accepted on its way into an index file, unless
\* the session fails.
LEMMA CommitStep ==
  ASSUME ~Retry, IInv, [Next]_vars
  PROVE  Phases' /\ NothingLost' /\ AcceptedKnown' /\ CommittedListed'
<1> DEFINE Goal == Phases' /\ NothingLost' /\ AcceptedKnown' /\ CommittedListed'
<1> USE DEF vars, backendVars, indexVars, saverVars, uploaderVars, mainVars
<1> Shape
  BY Zenon DEF IInv, PlaceInv, TypeOK, Shape
<1>1. ASSUME NEW s \in Saver, NEW b \in Blob, SaveBlob(s, b) PROVE Goal
  <2>1. InIndex' = InIndex
    BY <1>1, IndexSame, Zenon DEF SaveBlob, SaverReturns, SaverTo, vars, backendVars, indexVars, saverVars, uploaderVars, mainVars
  <2>2. Phases'
    BY <1>1, <2>1, Zenon DEF IInv, PlaceInv, Shape, Type, Phases, Jobs, UploadersEnded, SaveBlob, SaverReturns, SaverTo
  <2>3. NothingLost'
    BY <1>1, <2>1 DEF IInv, Shape, PlaceInv, WellFormed, Type, NothingLost, Healthy, UploadFailed, Phases, Task, SaveBlob, SaverReturns, SaverTo
  <2>4. AcceptedKnown'
    BY <1>1, <2>1, Zenon DEF IInv, PlaceInv, OnePlace, AcceptedKnown, Indexed, SaveBlob, SaverReturns, SaverTo
  <2>5. CommittedListed'
    BY <1>1, <2>1, Zenon DEF IInv, CommittedListed, SaveBlob, SaverReturns, SaverTo
  <2>6. QED BY <2>2, <2>3, <2>4, <2>5, Zenon
<1>2. ASSUME NEW s \in Saver, AddBlob(s) PROVE Goal
  <2>1. InIndex' = InIndex
    BY <1>2, IndexSame, Zenon DEF AddBlob, SaverReturns, SaverFails, SaverTo, vars, backendVars, indexVars, saverVars, uploaderVars, mainVars
  <2>2. Phases'
    BY <1>2, <2>1, Zenon DEF IInv, PlaceInv, Shape, Type, Phases, Jobs, UploadersEnded, AddBlob, SaverReturns, SaverFails, SaverTo
  <2>3. NothingLost'
    <3>1. PICK b \in Blob : cargo[s] = {b}
      BY <1>2, Zenon DEF AddBlob, IInv, PlaceInv, WellFormed
    <3> DEFINE t == TypeOf(b)
               p == IF b \in Big THEN {b} ELSE packer[t] \cup {b}
    <3>2. t \in Type /\ p \subseteq packer[t] \cup {b} /\ b \in pending
      BY <3>1, Zenon DEF TypeOf, Type, IInv, PlaceInv, OnePlace
    <3>3. CASE packer' = [packer EXCEPT ![t] = p] /\ SaverReturns(s, {b})
      BY <1>2, <2>1, <3>1, <3>2, <3>3 DEF IInv, PlaceInv, Shape, WellFormed, Type, NothingLost, Healthy, UploadFailed, Task, AddBlob, SaverReturns, SaverTo
    <3>4. CASE b \in Big /\ packer' = packer /\ SaverTo(s, "queue", {b}) /\ UNCHANGED <<saverErr, accepted>>
      BY <1>2, <2>1, <3>1, <3>2, <3>4, Zenon DEF IInv, PlaceInv, Shape, WellFormed, Type, NothingLost, Healthy, UploadFailed, Task, AddBlob, SaverTo
    <3>5. CASE b \notin Big /\ packer' = [packer EXCEPT ![t] = {}] /\ SaverTo(s, "queue", packer[t] \cup {b}) /\ UNCHANGED <<saverErr, accepted>>
      BY <1>2, <2>1, <3>1, <3>2, <3>5 DEF IInv, PlaceInv, Shape, WellFormed, Type, NothingLost, Healthy, UploadFailed, Task, AddBlob, SaverTo
    <3>6. CASE SaverFails(s) /\ UNCHANGED packer
      BY <1>2, <2>1, <3>1, <3>6, Zenon DEF IInv, PlaceInv, Shape, WellFormed, Type, NothingLost, Healthy, UploadFailed, Task, AddBlob, SaverFails, SaverTo
    <3>7. QED BY <1>2, <3>1, <3>3, <3>4, <3>5, <3>6, Zenon DEF AddBlob
  <2>4. AcceptedKnown'
    BY <1>2, <2>1 DEF IInv, PlaceInv, OnePlace, AcceptedKnown, Indexed, AddBlob, SaverReturns, SaverFails, SaverTo
  <2>5. CommittedListed'
    BY <1>2, <2>1, Zenon DEF IInv, CommittedListed, AddBlob, SaverReturns, SaverFails, SaverTo
  <2>6. QED BY <2>2, <2>3, <2>4, <2>5, Zenon
<1>3. ASSUME NEW s \in Saver, QueuePacker(s) PROVE Goal
  <2>1. InIndex' = InIndex
    BY <1>3, IndexSame, Zenon DEF QueuePacker, Receive, SaverReturns, SaverFails, SaverTo, vars, backendVars, indexVars, saverVars, uploaderVars, mainVars
  <2>2. Phases'
    BY <1>3, <2>1, Zenon DEF IInv, PlaceInv, Shape, Type, Phases, Jobs, UploadersEnded, QueuePacker, Receive, SaverReturns, SaverFails, SaverTo
  <2>3. NothingLost'
    BY <1>3, <2>1 DEF IInv, Shape, PlaceInv, WellFormed, Type, NothingLost, Healthy, UploadFailed, Phases, Task, QueuePacker, Receive, SaverReturns, SaverFails, SaverTo
  <2>4. AcceptedKnown'
    BY <1>3, <2>1, Zenon DEF IInv, PlaceInv, OnePlace, AcceptedKnown, Indexed, QueuePacker, Receive, SaverReturns, SaverFails, SaverTo
  <2>5. CommittedListed'
    BY <1>3, <2>1, Zenon DEF IInv, CommittedListed, QueuePacker, Receive, SaverReturns, SaverFails, SaverTo
  <2>6. QED BY <2>2, <2>3, <2>4, <2>5, Zenon
<1>4. ASSUME NEW u \in Uploader, SavePack(u) PROVE Goal
  <2>1. InIndex' = InIndex
    BY <1>4, IndexSame, Zenon DEF SavePack, UploaderTo, UploaderFails, Cancel, vars, backendVars, indexVars, saverVars, uploaderVars, mainVars
  <2>2. Phases'
    BY <1>4, <2>1, Zenon DEF IInv, PlaceInv, Shape, Type, Phases, Jobs, UploadersEnded, SavePack, UploaderTo, UploaderFails, Cancel
  <2>3. NothingLost'
    BY <1>4, <2>1 DEF IInv, Shape, PlaceInv, WellFormed, Type, NothingLost, Healthy, UploadFailed, Phases, Task, SavePack, UploaderTo, UploaderFails, Cancel
  <2>4. AcceptedKnown'
    BY <1>4, <2>1, Zenon DEF IInv, PlaceInv, OnePlace, AcceptedKnown, Indexed, SavePack, UploaderTo, UploaderFails, Cancel
  <2>5. CommittedListed'
    BY <1>4, <2>1, Zenon DEF IInv, CommittedListed, SavePack, UploaderTo, UploaderFails, Cancel
  <2>6. QED BY <2>2, <2>3, <2>4, <2>5, Zenon
<1>5. ASSUME NEW u \in Uploader, StorePack(u) PROVE Goal
  <2>1. InIndex' = InIndex \cup {task[u]}
    BY <1>5, IndexStored, Zenon
  <2>2. Phases'
    BY <1>5, <2>1, Zenon DEF IInv, PlaceInv, Shape, Type, Phases, Jobs, UploadersEnded, StorePack, UploaderTo
  <2>3. NothingLost'
    BY <1>5, <2>1, ZenonT(40) DEF IInv, Shape, PlaceInv, WellFormed, Type, NothingLost, Healthy, UploadFailed, Phases, Task, StorePack, UploaderTo
  <2>4. AcceptedKnown'
    BY <1>5, <2>1, Zenon DEF IInv, PlaceInv, OnePlace, AcceptedKnown, Indexed, StorePack, UploaderTo
  <2>5. CommittedListed'
    BY <1>5, <2>1, Zenon DEF IInv, CommittedListed, StorePack, UploaderTo
  <2>6. QED BY <2>2, <2>3, <2>4, <2>5, Zenon
<1>6. ASSUME NEW u \in Uploader, FinalizeFullIndexes(u) PROVE Goal
  <2>1. InIndex' = InIndex
    BY <1>6, IndexFinalized, IndexSame, Zenon DEF FinalizeFullIndexes, IInv, PlaceInv, Worker, Jobs, indexVars
  <2>2. Phases'
    BY <1>6, <2>1, Zenon DEF IInv, PlaceInv, Shape, Type, Phases, Jobs, UploadersEnded, FinalizeFullIndexes, Finalize, UploaderTo
  <2>3. NothingLost'
    BY <1>6, <2>1 DEF IInv, Shape, PlaceInv, WellFormed, Type, NothingLost, Healthy, UploadFailed, Phases, Task, FinalizeFullIndexes, Finalize, UploaderTo
  <2>4. AcceptedKnown'
    BY <1>6, <2>1, Zenon DEF IInv, PlaceInv, OnePlace, AcceptedKnown, Indexed, FinalizeFullIndexes, Finalize, UploaderTo
  <2>5. CommittedListed'
    BY <1>6, <2>1, Zenon DEF IInv, CommittedListed, FinalizeFullIndexes, Finalize, UploaderTo
  <2>6. QED BY <2>2, <2>3, <2>4, <2>5, Zenon
<1>7. ASSUME NEW u \in Uploader, SaveFullIndex(u) PROVE Goal
  <2>1. InIndex' = InIndex
    BY <1>7, IndexGotID, Zenon DEF SaveFullIndex, IInv, PlaceInv, IndexSaved, IndexNotSaved, Worker
  <2>2. Phases'
    BY <1>7, <2>1, JobInIndex, Zenon DEF IInv, PlaceInv, Shape, Type, Phases, Jobs, UploadersEnded, SaveFullIndex, IndexSaved, IndexNotSaved, UploaderTo, UploaderFails, Cancel, Worker
  <2>3. NothingLost'
    BY <1>7, <2>1, JobInIndex DEF IInv, Shape, PlaceInv, WellFormed, Type, NothingLost, Healthy, UploadFailed, Phases, Task, SaveFullIndex, IndexSaved, IndexNotSaved, UploaderTo, UploaderFails, Cancel, Worker
  <2>4. AcceptedKnown'
    BY <1>7, <2>1, JobInIndex, Zenon DEF IInv, PlaceInv, OnePlace, AcceptedKnown, Indexed, SaveFullIndex, IndexSaved, IndexNotSaved, UploaderTo, UploaderFails, Cancel, Worker
  <2>5. CommittedListed'
    BY <1>7, <2>1, JobInIndex, Zenon DEF IInv, CommittedListed, SaveFullIndex, IndexSaved, IndexNotSaved, UploaderTo, UploaderFails, Cancel, Worker
  <2>6. QED BY <2>2, <2>3, <2>4, <2>5, Zenon
<1>8. ASSUME NEW u \in Uploader, PackerSaved(u) PROVE Goal
  <2>1. InIndex' = InIndex
    BY <1>8, IndexMerged, Zenon DEF PackerSaved
  <2>2. Phases'
    BY <1>8, <2>1, Zenon DEF IInv, PlaceInv, Shape, Type, Phases, Jobs, UploadersEnded, PackerSaved, MergeFinalIndexes, UploaderTo
  <2>3. NothingLost'
    BY <1>8, <2>1, ZenonT(40) DEF IInv, Shape, PlaceInv, WellFormed, Type, NothingLost, Healthy, UploadFailed, Phases, Task, PackerSaved, MergeFinalIndexes, UploaderTo
  <2>4. AcceptedKnown'
    BY <1>8, <2>1, Zenon DEF IInv, PlaceInv, OnePlace, AcceptedKnown, Indexed, PackerSaved, MergeFinalIndexes, UploaderTo
  <2>5. CommittedListed'
    BY <1>8, <2>1, Zenon DEF IInv, CommittedListed, PackerSaved, MergeFinalIndexes, UploaderTo
  <2>6. QED BY <2>2, <2>3, <2>4, <2>5, Zenon
<1>9. ASSUME NEW u \in Uploader, UploaderStops(u) PROVE Goal
  <2>1. InIndex' = InIndex
    BY <1>9, IndexSame, Zenon DEF UploaderStops, UploaderTo, vars, backendVars, indexVars, saverVars, uploaderVars, mainVars
  <2>2. Phases'
    BY <1>9, <2>1, Zenon DEF IInv, PlaceInv, Shape, Type, Phases, Jobs, UploadersEnded, UploaderStops, UploaderTo
  <2>3. NothingLost'
    BY <1>9, <2>1 DEF IInv, Shape, PlaceInv, WellFormed, Type, NothingLost, Healthy, UploadFailed, Phases, Task, UploaderStops, UploaderTo
  <2>4. AcceptedKnown'
    BY <1>9, <2>1, Zenon DEF IInv, PlaceInv, OnePlace, AcceptedKnown, Indexed, UploaderStops, UploaderTo
  <2>5. CommittedListed'
    BY <1>9, <2>1, Zenon DEF IInv, CommittedListed, UploaderStops, UploaderTo
  <2>6. QED BY <2>2, <2>3, <2>4, <2>5, Zenon
<1>10. ASSUME NotifyGroup PROVE Goal
  <2>1. InIndex' = InIndex
    BY <1>10, IndexSame, Zenon DEF NotifyGroup, Cancel, vars, backendVars, indexVars, saverVars, uploaderVars, mainVars
  <2>2. Phases'
    BY <1>10, <2>1, Zenon DEF IInv, PlaceInv, Shape, Type, Phases, Jobs, UploadersEnded, NotifyGroup, Cancel
  <2>3. NothingLost'
    BY <1>10, <2>1, Zenon DEF IInv, Shape, PlaceInv, WellFormed, Type, NothingLost, Healthy, UploadFailed, Phases, Task, NotifyGroup, Cancel
  <2>4. AcceptedKnown'
    BY <1>10, <2>1, Zenon DEF IInv, PlaceInv, OnePlace, AcceptedKnown, Indexed, NotifyGroup, Cancel
  <2>5. CommittedListed'
    BY <1>10, <2>1, Zenon DEF IInv, CommittedListed, NotifyGroup, Cancel
  <2>6. QED BY <2>2, <2>3, <2>4, <2>5, Zenon
<1>11. ASSUME FlushPackers PROVE Goal
  <2>1. InIndex' = InIndex
    BY <1>11, IndexSame, Zenon DEF FlushPackers, FlushPacker, Receive, MainTo, Abandon, Cancel, vars, backendVars, indexVars, saverVars, uploaderVars, mainVars
  <2>2. Phases'
    BY <1>11, <2>1 DEF IInv, PlaceInv, Shape, Type, Phases, Jobs, UploadersEnded, FlushPackers, FlushPacker, Receive, MainTo, Abandon, Cancel
  <2>3. NothingLost'
    BY <1>11, <2>1 DEF IInv, Shape, PlaceInv, WellFormed, Type, NothingLost, Healthy, UploadFailed, Phases, Task, FlushPackers, FlushPacker, Receive, MainTo, Abandon, Cancel
  <2>4. AcceptedKnown'
    BY <1>11, <2>1, Zenon DEF IInv, PlaceInv, OnePlace, AcceptedKnown, Indexed, FlushPackers, FlushPacker, Receive, MainTo, Abandon, Cancel
  <2>5. CommittedListed'
    BY <1>11, <2>1, Zenon DEF IInv, CommittedListed, FlushPackers, FlushPacker, Receive, MainTo, Abandon, Cancel
  <2>6. QED BY <2>2, <2>3, <2>4, <2>5, Zenon
<1>12. ASSUME TriggerShutdown PROVE Goal
  <2>1. InIndex' = InIndex
    BY <1>12, IndexSame, Zenon DEF TriggerShutdown, MainTo, vars, backendVars, indexVars, saverVars, uploaderVars, mainVars
  <2>2. Phases'
    BY <1>12, <2>1, Zenon DEF IInv, PlaceInv, Shape, Type, Phases, Jobs, UploadersEnded, TriggerShutdown, MainTo
  <2>3. NothingLost'
    BY <1>12, <2>1, Zenon DEF IInv, Shape, PlaceInv, WellFormed, Type, NothingLost, Healthy, UploadFailed, Phases, Task, TriggerShutdown, MainTo
  <2>4. AcceptedKnown'
    BY <1>12, <2>1, Zenon DEF IInv, PlaceInv, OnePlace, AcceptedKnown, Indexed, TriggerShutdown, MainTo
  <2>5. CommittedListed'
    BY <1>12, <2>1, Zenon DEF IInv, CommittedListed, TriggerShutdown, MainTo
  <2>6. QED BY <2>2, <2>3, <2>4, <2>5, Zenon
<1>13. ASSUME WaitUploaders PROVE Goal
  <2>1. InIndex' = InIndex
    BY <1>13, IndexSame, Zenon DEF WaitUploaders, UploadersEnded, UploadFailed, FlushFails, MainTo, vars, backendVars, indexVars, saverVars, uploaderVars, mainVars
  <2>2. Phases'
    BY <1>13, <2>1 DEF IInv, PlaceInv, Shape, Type, Phases, Jobs, UploadersEnded, WaitUploaders, UploadersEnded, UploadFailed, FlushFails, MainTo
  <2>3. NothingLost'
    BY <1>13, <2>1, Zenon DEF IInv, Shape, PlaceInv, WellFormed, Type, NothingLost, Healthy, UploadFailed, Phases, Task, WaitUploaders, UploadersEnded, UploadFailed, FlushFails, MainTo
  <2>4. AcceptedKnown'
    BY <1>13, <2>1, Zenon DEF IInv, PlaceInv, OnePlace, AcceptedKnown, Indexed, WaitUploaders, UploadersEnded, UploadFailed, FlushFails, MainTo
  <2>5. CommittedListed'
    BY <1>13, <2>1, Zenon DEF IInv, CommittedListed, WaitUploaders, UploadersEnded, UploadFailed, FlushFails, MainTo
  <2>6. QED BY <2>2, <2>3, <2>4, <2>5, Zenon
<1>14. ASSUME FinalizeNotFinalIndexes PROVE Goal
  <2>1. InIndex' = InIndex
    BY <1>14, IndexFinalized, IndexSame, Zenon DEF FinalizeNotFinalIndexes, IInv, PlaceInv, Worker, Jobs, indexVars
  <2>2. Phases'
    BY <1>14, <2>1 DEF IInv, PlaceInv, Shape, Type, Phases, Jobs, UploadersEnded, FinalizeNotFinalIndexes, Finalize, MainTo
  <2>3. NothingLost'
    BY <1>14, <2>1, Zenon DEF IInv, Shape, PlaceInv, WellFormed, Type, NothingLost, Healthy, UploadFailed, Phases, Task, FinalizeNotFinalIndexes, Finalize, MainTo
  <2>4. AcceptedKnown'
    BY <1>14, <2>1, Zenon DEF IInv, PlaceInv, OnePlace, AcceptedKnown, Indexed, FinalizeNotFinalIndexes, Finalize, MainTo
  <2>5. CommittedListed'
    BY <1>14, <2>1, Zenon DEF IInv, CommittedListed, FinalizeNotFinalIndexes, Finalize, MainTo
  <2>6. QED BY <2>2, <2>3, <2>4, <2>5, Zenon
<1>15. ASSUME SaveIndex PROVE Goal
  <2>1. InIndex' = InIndex
    BY <1>15, IndexGotID, Zenon DEF SaveIndex, IInv, PlaceInv, IndexSaved, IndexNotSaved, Worker
  <2>2. Phases'
    BY <1>15, <2>1, JobInIndex DEF IInv, PlaceInv, Shape, Type, Phases, Jobs, UploadersEnded, SaveIndex, IndexSaved, IndexNotSaved, FlushFails, MainTo, Worker
  <2>3. NothingLost'
    BY <1>15, <2>1, JobInIndex, Zenon DEF IInv, Shape, PlaceInv, WellFormed, Type, NothingLost, Healthy, UploadFailed, Phases, Task, SaveIndex, IndexSaved, IndexNotSaved, FlushFails, MainTo, Worker
  <2>4. AcceptedKnown'
    BY <1>15, <2>1, JobInIndex, Zenon DEF IInv, PlaceInv, OnePlace, AcceptedKnown, Indexed, SaveIndex, IndexSaved, IndexNotSaved, FlushFails, MainTo, Worker
  <2>5. CommittedListed'
    BY <1>15, <2>1, JobInIndex, Zenon DEF IInv, CommittedListed, SaveIndex, IndexSaved, IndexNotSaved, FlushFails, MainTo, Worker
  <2>6. QED BY <2>2, <2>3, <2>4, <2>5, Zenon
<1>16. ASSUME FlushReturns PROVE Goal
  <2>1. InIndex' = InIndex
    BY <1>16, IndexMerged, Zenon DEF FlushReturns
  <2>2. Phases'
    BY <1>16, <2>1, Zenon DEF IInv, PlaceInv, Shape, Type, Phases, Jobs, UploadersEnded, FlushReturns, MergeFinalIndexes
  <2>3. NothingLost'
    BY <1>16, <2>1, Zenon DEF IInv, Shape, PlaceInv, WellFormed, Type, NothingLost, Healthy, UploadFailed, Phases, Task, FlushReturns, MergeFinalIndexes
  <2>4. AcceptedKnown'
    BY <1>16, <2>1, Zenon DEF IInv, PlaceInv, OnePlace, AcceptedKnown, Indexed, FlushReturns, MergeFinalIndexes
  <2>5. CommittedListed'
    <3>1. Healthy
      BY <1>16, Zenon DEF FlushReturns, IInv, Phases, Healthy, UploadFailed
    <3>2. pending = {}
      BY <1>16, <3>1, ZenonT(40) DEF FlushReturns, IInv, PlaceInv, TypeOK, WellFormed, Type, Phases, NothingLost, Task
    <3>3. \A w \in Worker : job[w] = {}
      BY <1>16, Zenon DEF FlushReturns, IInv, PlaceInv, Phases, Jobs, Worker
    <3>4. InIndex \subseteq listed
      BY <1>16, <3>1, <3>3 DEF FlushReturns, IInv, Phases, NothingLost, InIndex, Worker
    <3>5. QED BY <1>16, <3>2, <3>4, Zenon DEF FlushReturns, IInv, AcceptedKnown, Indexed, CommittedListed
  <2>6. QED BY <2>2, <2>3, <2>4, <2>5, Zenon
<1>17. ASSUME StartPackUploader PROVE Goal
  <2>1. InIndex' = InIndex
    BY <1>17, IndexSame, Zenon DEF StartPackUploader, MainTo, vars, backendVars, indexVars, saverVars, uploaderVars, mainVars
  <2>2. Phases'
    BY <1>17, <2>1, Zenon DEF IInv, PlaceInv, Shape, Type, Phases, Jobs, UploadersEnded, StartPackUploader, MainTo
  <2>3. NothingLost'
    BY <1>17, <2>1, Zenon DEF IInv, Shape, PlaceInv, WellFormed, Type, NothingLost, Healthy, UploadFailed, Phases, Task, StartPackUploader, MainTo
  <2>4. AcceptedKnown'
    BY <1>17, <2>1, Zenon DEF IInv, PlaceInv, OnePlace, AcceptedKnown, Indexed, StartPackUploader, MainTo
  <2>5. CommittedListed'
    BY <1>17, <2>1, Zenon DEF IInv, CommittedListed, StartPackUploader, MainTo
  <2>6. QED BY <2>2, <2>3, <2>4, <2>5, Zenon
<1>18. ASSUME SaversDone PROVE Goal
  <2>1. InIndex' = InIndex
    BY <1>18, IndexSame, Zenon DEF SaversDone, MainTo, Abandon, Cancel, vars, backendVars, indexVars, saverVars, uploaderVars, mainVars
  <2>2. Phases'
    BY <1>18, <2>1 DEF IInv, PlaceInv, Shape, Type, Phases, Jobs, UploadersEnded, SaversDone, MainTo, Abandon, Cancel
  <2>3. NothingLost'
    BY <1>18, <2>1, Zenon DEF IInv, Shape, PlaceInv, WellFormed, Type, NothingLost, Healthy, UploadFailed, Phases, Task, SaversDone, MainTo, Abandon, Cancel
  <2>4. AcceptedKnown'
    BY <1>18, <2>1, Zenon DEF IInv, PlaceInv, OnePlace, AcceptedKnown, Indexed, SaversDone, MainTo, Abandon, Cancel
  <2>5. CommittedListed'
    BY <1>18, <2>1, Zenon DEF IInv, CommittedListed, SaversDone, MainTo, Abandon, Cancel
  <2>6. QED BY <2>2, <2>3, <2>4, <2>5, Zenon
<1>19. ASSUME UserCancels PROVE Goal
  <2>1. InIndex' = InIndex
    BY <1>19, IndexSame, Zenon DEF UserCancels, Cancel, vars, backendVars, indexVars, saverVars, uploaderVars, mainVars
  <2>2. Phases'
    BY <1>19, <2>1, Zenon DEF IInv, PlaceInv, Shape, Type, Phases, Jobs, UploadersEnded, UserCancels, Cancel
  <2>3. NothingLost'
    BY <1>19, <2>1, Zenon DEF IInv, Shape, PlaceInv, WellFormed, Type, NothingLost, Healthy, UploadFailed, Phases, Task, UserCancels, Cancel
  <2>4. AcceptedKnown'
    BY <1>19, <2>1, Zenon DEF IInv, PlaceInv, OnePlace, AcceptedKnown, Indexed, UserCancels, Cancel
  <2>5. CommittedListed'
    BY <1>19, <2>1, Zenon DEF IInv, CommittedListed, UserCancels, Cancel
  <2>6. QED BY <2>2, <2>3, <2>4, <2>5, Zenon
<1>20. ASSUME Restart PROVE Goal
  <2>1. InIndex' = listed
    BY <1>20, IndexLoaded, Zenon
  <2>2. Phases'
    BY <1>20, <2>1, Zenon DEF IInv, PlaceInv, Shape, Type, Phases, Jobs, UploadersEnded, Restart, Loaded
  <2>3. NothingLost'
    BY <1>20, <2>1, Zenon DEF IInv, Shape, PlaceInv, WellFormed, Type, NothingLost, Healthy, UploadFailed, Phases, Task, Restart, Loaded
  <2>4. AcceptedKnown'
    BY <1>20, <2>1, Zenon DEF IInv, PlaceInv, OnePlace, AcceptedKnown, Indexed, Restart, Loaded
  <2>5. CommittedListed'
    BY <1>20, <2>1, Zenon DEF IInv, CommittedListed, Restart, Loaded
  <2>6. QED BY <2>2, <2>3, <2>4, <2>5, Zenon
<1>21. ASSUME UNCHANGED vars PROVE Goal
  <2>1. InIndex' = InIndex
    BY <1>21, IndexSame, Zenon
  <2>2. Phases'
    BY <1>21, <2>1, Zenon DEF IInv, PlaceInv, Shape, Type, Phases, Jobs, UploadersEnded
  <2>3. NothingLost'
    BY <1>21, <2>1, Zenon DEF IInv, Shape, PlaceInv, WellFormed, Type, NothingLost, Healthy, UploadFailed, Phases, Task
  <2>4. AcceptedKnown'
    BY <1>21, <2>1, Zenon DEF IInv, PlaceInv, OnePlace, AcceptedKnown, Indexed
  <2>5. CommittedListed'
    BY <1>21, <2>1, Zenon DEF IInv, CommittedListed
  <2>6. QED BY <2>2, <2>3, <2>4, <2>5, Zenon
<1>22. QED
  BY <1>1, <1>2, <1>3, <1>4, <1>5, <1>6, <1>7, <1>8, <1>9, <1>10, <1>11, <1>12, <1>13, <1>14, <1>15, <1>16, <1>17, <1>18, <1>19, <1>20, <1>21, Zenon
     DEF Next, SaverStep, UploaderStep, FlushStep

\* Once Flush has returned nil, every blob that SaveBlob has accepted is found through an
\* index file in a stored pack, for callers that give up after an error.
THEOREM FlushIsDurable == ASSUME ~Retry PROVE Spec => []FlushCommits
<1>1. Init => IInv
  BY PlaceInit, Zenon DEF Init, IInv, Phases, NothingLost, AcceptedKnown, CommittedListed
<1>2. IInv /\ [Next]_vars => IInv'
  BY TypeStep, WellFormedStep, JobsStep, PlaceStep, CommitStep, Zenon DEF IInv, PlaceInv
<1>3. IInv => FlushCommits
  BY Zenon DEF IInv, PlaceInv, StoredFirst, CommittedListed, FlushCommits, Durable
<1>4. QED BY <1>1, <1>2, <1>3, PTL DEF Spec
=============================================================================
