--------------------------- MODULE ArchiverProofs ---------------------------
(***************************************************************************)
(* Proofs about module Archiver: a snapshot that is saved is complete, and *)
(* nothing panics.  ArchiverStepProofs has the invariant.                  *)
(***************************************************************************)
EXTENDS ArchiverStepProofs

\* The walk makes the future of item i, and goes on to the next call.
Sent(i) ==
  /\ Call("file") \/ Call("save")
  /\ i = Current /\ pos' = pos + 1 /\ UNCHANGED leftOut
  /\ AddNode(i, future'[i]) /\ future'[i] \in {"pending", "node", "closed"}
  /\ future'[i] = "node" => i \in Unchanged
  /\ future'[i] = "closed" => cancelled

\* The ways in which the future of item i can change.
FutureMoves(i) ==
  \/ future'[i] = future[i]
  \/ future[i] = "none" /\ Sent(i)
  \/ future[i] = "pending" /\ i \in File /\ future'[i] \in {"node", "error"}
  \/ /\ future[i] = "pending"
     /\ \E w \in TreeWorker :
          dir[w] = i /\ ((TreeSaved(w) /\ future'[i] = "node") \/ (TreeFails(w) /\ future'[i] = "closed"))

LEMMA WalkStepFutures ==
  ASSUME Types, WalkOK, WalkStep, NEW i \in Item PROVE FutureMoves(i) /\ (i = Current => future'[i] = future[i] \/ Sent(i))
<1>1. CASE UNCHANGED future
  BY <1>1, Zenon DEF FutureMoves
<1>2. CASE SaveUnchanged \/ SendNothing \/ (\E w \in FileWorker : SendFile(w)) \/ (\E w \in TreeWorker : SendTree(w))
  <2>1. PICK s \in {"pending", "node", "closed"} :
          /\ Call("file") \/ Call("save")
          /\ AddNode(Current, s) /\ pos' = pos + 1 /\ UNCHANGED leftOut
          /\ (s = "node" => Current \in Unchanged) /\ (s = "closed" => cancelled)
    BY <1>2, Zenon DEF SaveUnchanged, SendNothing, SendFile, SendTree
  <2>2. Current \in Item /\ future[Current] = "none"
    BY <2>1, CallFacts, FreshFuture, Zenon
  <2>3. future'[Current] = s /\ (i # Current => future'[i] = future[i])
    BY <2>1, <2>2, AddNodeFacts, Zenon
  <2>4. QED BY <2>1, <2>2, <2>3, Zenon DEF FutureMoves, Sent
<1>3. QED BY <1>1, <1>2, Zenon DEF WalkStep, OpenDir, LeaveOut, WalkFails, StopWorkers, NoSnapshot

LEMMA FileStepFutures ==
  ASSUME Types, FilesOK, NEW w \in FileWorker, FileStep(w), NEW i \in Item PROVE FutureMoves(i)
<1>1. CASE UNCHANGED future
  BY <1>1, Zenon DEF FutureMoves
<1>2. CASE ReadFails(w) \/ DropChunk(w) \/ FinishReading(w)
  <2>1. file[w] # None
    BY <1>2, Zenon DEF FilesOK, ReaderInv, ReadFails, DropChunk, FinishReading
  <2>2. PICK f \in File : file[w] = f /\ f \in Item /\ future[f] = "pending"
    BY <2>1, FileOfReader, Zenon
  <2>3. future' = future \/ \E s \in {"node", "error"} : future' = [future EXCEPT ![f] = s]
    BY <1>2, <2>2, Zenon DEF ReadFails, DropChunk, FinishReading, CompleteError, CompleteBlob
  <2>4. future \in [Item -> {"none", "pending", "node", "error", "closed"}]
    BY Zenon DEF Types, TypeOK
  <2>5. QED BY <2>2, <2>3, <2>4, Zenon DEF FutureMoves
<1>3. QED BY <1>1, <1>2, Zenon DEF FileStep, ReadChunk, EndOfFile, FileWorkerStops, SendChunk

LEMMA BlobStepFutures ==
  ASSUME Types, FilesOK, NEW b \in BlobWorker, BlobStep(b), NEW i \in Item PROVE FutureMoves(i)
<1>1. CASE UNCHANGED future
  BY <1>1, Zenon DEF FutureMoves
<1>2. CASE ChunkSaved(b) /\ ~UNCHANGED future
  <2>1. saver[b] = "complete" /\ saver[b] \in Busy /\ SaverInv(b)
    BY <1>2, Zenon DEF ChunkSaved, Busy, FilesOK
  <2>2. PICK f \in File, n \in Nat : blob[b] = <<f, n>> /\ n \in 1 .. idx[f] /\ f \notin Unchanged
    BY <2>1, ItemFacts, Zenon DEF SaverInv, Types
  <2>3. remaining[f] = 1 /\ f \notin broken /\ future' = [future EXCEPT ![f] = "node"]
    BY <1>2, <2>2 DEF ChunkSaved, CompleteBlob
  <2>4. n \in Open(f)
    BY <2>1, <2>2, Zenon DEF Open, Has
  <2>5. FileInv(f) /\ f \in Item
    BY ItemFacts, Zenon DEF FilesOK
  <2>6. future[f] = "pending"
    BY <2>2, <2>3, <2>4, <2>5 DEF FileInv, Reading, Types, TypeOK
  <2>7. QED BY <2>3, <2>5, <2>6, Zenon DEF FutureMoves, Types, TypeOK
<1>3. QED BY <1>1, <1>2, Zenon DEF BlobStep, SaveBlob, SaveBlobFails, FillContent, TreeBlobSaved, BlobWorkerStops

LEMMA TreeStepFutures ==
  ASSUME Types, TreesOK, NEW w \in TreeWorker, TreeStep(w), NEW i \in Item PROVE FutureMoves(i)
<1>1. CASE UNCHANGED future
  BY <1>1, Zenon DEF FutureMoves
<1>2. CASE TreeFails(w) \/ TreeSaved(w)
  <2>1. dir[w] \in Item /\ future[dir[w]] = "pending"
    BY <1>2, DirOfBuilder, Zenon DEF TreeFails, TreeSaved, NoResult, FileError
  <2>2. \/ TreeSaved(w) /\ future'[dir[w]] = "node"
        \/ TreeFails(w) /\ future'[dir[w]] = "closed"
    BY <1>2, <2>1, Zenon DEF TreeFails, TreeSaved, Types, TypeOK
  <2>3. i # dir[w] => future'[i] = future[i]
    BY <1>2, Zenon DEF TreeFails, TreeSaved, Types, TypeOK
  <2>4. QED BY <2>1, <2>2, <2>3, Zenon DEF FutureMoves
<1>3. QED BY <1>1, <1>2, Zenon DEF TreeStep, TakeNode, TakeError, TreeBuilt, DropTreeBlob, TreeWorkerStops, SendTreeBlob

LEMMA FutureStep ==
  ASSUME Types, FilesOK, WalkOK, TreesOK, Next, NEW i \in Item PROVE FutureMoves(i)
<1>1. CASE EndStep \/ Cancel
  BY <1>1, Zenon DEF EndStep, GroupEnds, Flush, SaveSnapshot, Cancel, FutureMoves
<1>2. QED BY <1>1, WalkStepFutures, FileStepFutures, BlobStepFutures, TreeStepFutures, Zenon DEF Next, Step

LEMMA FutureKept ==
  ASSUME NEW i \in Item, FutureMoves(i)
  PROVE  /\ future[i] \in {"node", "error", "closed"} => future'[i] = future[i]
         /\ future[i] # "none" => future'[i] # "none"
BY Zenon DEF FutureMoves

-----------------------------------------------------------------------------
(* What a future with a node promises *)

LEMMA AcceptsStep ==
  ASSUME Types, FilesOK, Accepts, Next, \A i \in Item : FutureMoves(i)
  PROVE  Accepts'
<1>1. accepted \subseteq accepted'
  BY ZenonT(60), Zenon DEF Next, Step, WalkStep, FileStep, BlobStep, TreeStep, EndStep, OpenDir, LeaveOut, WalkFails, SaveUnchanged, SendFile,
         SendTree, SendNothing, StopWorkers, NoSnapshot, ReadChunk, ReadFails, DropChunk, CompleteError, EndOfFile,
         FinishReading, FileWorkerStops, SendChunk, SaveBlob, SaveBlobFails, FillContent, ChunkSaved, TreeBlobSaved,
         BlobWorkerStops, TakeNode, TakeError, TreeFails, TreeBuilt, DropTreeBlob, TreeSaved, TreeWorkerStops,
         SendTreeBlob, GroupEnds, Flush, SaveSnapshot, Cancel
<1>2. \/ UNCHANGED <<content, answered>>
      \/ \E b \in BlobWorker : FillContent(b) \/ TreeBlobSaved(b)
  BY ZenonT(60), Zenon DEF Next, Step, WalkStep, FileStep, BlobStep, TreeStep, EndStep, OpenDir, LeaveOut, WalkFails, SaveUnchanged, SendFile,
         SendTree, SendNothing, StopWorkers, NoSnapshot, ReadChunk, ReadFails, DropChunk, CompleteError, EndOfFile,
         FinishReading, CompleteBlob, FileWorkerStops, SendChunk, SaveBlob, SaveBlobFails, ChunkSaved,
         BlobWorkerStops, TakeNode, TakeError, TreeFails, TreeBuilt, DropTreeBlob, TreeSaved, TreeWorkerStops,
         SendTreeBlob, GroupEnds, Flush, SaveSnapshot, Cancel, fileVars, treeVars
<1>3. (\A f \in File : \A n \in content'[f] : <<f, n>> \in accepted') /\ \A d \in answered' \cap Dir : <<d, 0>> \in accepted'
  <2>1. CASE UNCHANGED <<content, answered>>
    BY <1>1, <2>1, Zenon DEF Accepts
  <2>2. ASSUME NEW b \in BlobWorker, FillContent(b) \/ TreeBlobSaved(b)
        PROVE  (\A f \in File : \A n \in content'[f] : <<f, n>> \in accepted') /\ \A d \in answered' \cap Dir : <<d, 0>> \in accepted'
    <3>1. saver[b] \in Busy /\ saver[b] = "fill" /\ SaverInv(b)
      BY <2>2, Zenon DEF FillContent, TreeBlobSaved, Busy, FilesOK
    <3>2. blob[b] \in accepted
      BY <3>1, Zenon DEF SaverInv
    <3>3. CASE FillContent(b)
      <4>1. PICK f \in File, n \in Nat : blob[b] = <<f, n>>
        BY <3>1, <3>3, BlobOfSaver, SMTT(30) DEF FillContent
      <4>2. content' = [content EXCEPT ![f] = @ \cup {n}] /\ UNCHANGED answered
        BY <3>3, <4>1 DEF FillContent, treeVars
      <4>3. QED BY <1>1, <3>2, <4>1, <4>2, Zenon DEF Accepts, Types
    <3>4. CASE TreeBlobSaved(b)
      <4>1. PICK d \in Dir : blob[b] = <<d, 0>>
        BY <3>1, <3>4, BlobOfSaver, SMTT(30) DEF TreeBlobSaved
      <4>2. answered' = answered \cup {d} /\ UNCHANGED content
        BY <3>4, <4>1 DEF TreeBlobSaved, fileVars
      <4>3. QED BY <1>1, <3>2, <4>1, <4>2, Zenon DEF Accepts
    <3>5. QED BY <2>2, <3>3, <3>4, Zenon
  <2>3. QED BY <1>2, <2>1, <2>2, Zenon
<1>4. ASSUME NEW d \in Dir, future'[d] = "node" PROVE <<d, 0>> \in accepted'
  <2>1. FutureMoves(d) /\ d \notin File /\ Unchanged \subseteq File
    BY ItemFacts, WalkAssumption, Zenon
  <2>2. future[d] = "node" \/ \E w \in TreeWorker : dir[w] = d /\ TreeSaved(w)
    BY <1>4, <2>1, Zenon DEF FutureMoves, Sent
  <2>3. QED BY <1>1, <2>2, Zenon DEF Accepts, TreeSaved
<1>5. QED BY <1>1, <1>3, <1>4, Zenon DEF Accepts

LEMMA NodeAccepted ==
  ASSUME Types, FilesOK, Accepts, NEW i \in Item, future[i] = "node" PROVE BlobsOf(i) \subseteq accepted
<1>1. CASE i \in Dir
  BY <1>1, Zenon DEF Accepts, BlobsOf
<1>2. CASE i \in Unchanged
  BY <1>2, Zenon DEF Accepts
<1>3. CASE i \in File /\ i \notin Unchanged
  <2>1. FileInv(i) /\ ~Reading(i)
    BY <1>3, Zenon DEF FilesOK, Reading, ReaderInv
  <2>2. Open(i) = {} /\ idx[i] = Chunks[i]
    BY <1>3, <2>1, Zenon DEF FileInv
  <2>3. \A n \in 1 .. Chunks[i] : n \in content[i]
    BY <2>2, Zenon DEF Open
  <2>4. QED BY <1>3, <2>3, ItemFacts, Zenon DEF Accepts, BlobsOf
<1>4. QED BY <1>1, <1>2, <1>3, Zenon DEF Item

-----------------------------------------------------------------------------
(* Trees *)

\* What a step changes, by the actions that can.
LEMMA StepParts ==
  ASSUME Next
  PROVE  /\ leftOut \subseteq leftOut'
         /\ UNCHANGED entries \/ \E w \in TreeWorker : TakeNode(w)
         /\ UNCHANGED <<builder, dir, todo>> \/ (\E w \in TreeWorker : SendTree(w)) \/ \E w \in TreeWorker : TreeStep(w)
         /\ UNCHANGED <<pos, nodes>> \/ OpenDir \/ LeaveOut \/ (WalkStep /\ pos' = pos + 1 /\ (Call("file") \/ Call("save")) /\ \E s \in {"pending", "node", "closed"} : AddNode(Current, s))
         /\ UNCHANGED main \/ WalkStep
<1> USE DEF Next, Step, WalkStep, FileStep, BlobStep, TreeStep, EndStep, OpenDir, LeaveOut, WalkFails, SaveUnchanged, SendFile,
            SendTree, SendNothing, StopWorkers, NoSnapshot, ReadChunk, ReadFails, DropChunk, CompleteError, EndOfFile,
            FinishReading, FileWorkerStops, SendChunk, SaveBlob, SaveBlobFails, FillContent, ChunkSaved, TreeBlobSaved,
            BlobWorkerStops, TakeNode, TakeError, TreeFails, TreeBuilt, DropTreeBlob, TreeSaved, TreeWorkerStops,
            SendTreeBlob, GroupEnds, Flush, SaveSnapshot, Cancel, walkVars, treeVars
<1>1. leftOut \subseteq leftOut'
  BY ZenonT(60), Zenon
<1>2. UNCHANGED entries \/ \E w \in TreeWorker : TakeNode(w)
  BY ZenonT(60), Zenon
<1>3. UNCHANGED <<builder, dir, todo>> \/ (\E w \in TreeWorker : SendTree(w)) \/ \E w \in TreeWorker : TreeStep(w)
  BY ZenonT(60), Zenon
<1>4. UNCHANGED <<pos, nodes>> \/ OpenDir \/ LeaveOut \/ (WalkStep /\ pos' = pos + 1 /\ (Call("file") \/ Call("save")) /\ \E s \in {"pending", "node", "closed"} : AddNode(Current, s))
  BY ZenonT(60), Zenon
<1>5. UNCHANGED main \/ WalkStep
  BY ZenonT(60), Zenon
<1>6. QED BY <1>1, <1>2, <1>3, <1>4, <1>5, ZenonT(60), Zenon

LEMMA BuildersKept ==
  ASSUME Types, TreesOK, UNCHANGED <<builder, dir, todo>>, \A i \in Item : FutureMoves(i), NEW w \in TreeWorker
  PROVE  BuilderInv(w)'
<1>1. BuilderInv(w) /\ dir[w] \in Dir \cup {None}
  BY Zenon DEF TreesOK, Types, TypeOK
<1>2. CASE dir[w] = None
  BY <1>1, <1>2, ItemFacts, Zenon DEF BuilderInv
<1>3. CASE dir[w] # None
  <2>1. FutureMoves(dir[w]) /\ dir[w] \in Item /\ dir[w] \notin File /\ future[dir[w]] = "pending"
    BY <1>1, <1>3, ItemFacts, Zenon DEF BuilderInv
  <2>2. \A v \in TreeWorker : dir[v] # None => ~TreeSaved(v) /\ ~TreeFails(v)
    BY DEF TreeSaved, TreeFails, Types, TypeOK
  <2>3. future'[dir[w]] = "pending"
    BY <1>3, <2>1, <2>2, Zenon DEF FutureMoves
  <2>4. QED BY <1>1, <2>3, Zenon DEF BuilderInv
<1>4. QED BY <1>2, <1>3, Zenon

LEMMA SendTreeBuilders ==
  ASSUME Types, TreesOK, WalkOK, NEW w \in TreeWorker, SendTree(w), NEW v \in TreeWorker
  PROVE  BuilderInv(v)'
<1>1. Current \in Dir /\ Current \in Item /\ future[Current] = "none" /\ Current # None
  BY CallFacts, FreshFuture, ItemFacts, Zenon DEF SendTree
<1>2. future'[Current] = "pending" /\ \A i \in Item : i # Current => future'[i] = future[i]
  BY <1>1, AddNodeFacts, Zenon DEF SendTree
<1>3. /\ builder'[w] = "take" /\ dir'[w] = Current
      /\ \A u \in TreeWorker : u # w => builder'[u] = builder[u] /\ dir'[u] = dir[u] /\ todo'[u] = todo[u]
  BY Zenon DEF SendTree, Types, TypeOK
<1>4. \A u \in TreeWorker : BuilderInv(u) /\ dir[u] # Current /\ (dir[u] # None => dir[u] \in Item)
  BY <1>1, ItemFacts DEF TreesOK, BuilderInv, Types, TypeOK
<1>5. CASE v = w
  BY <1>1, <1>2, <1>3, <1>4, <1>5 DEF BuilderInv
<1>6. CASE v # w
  BY <1>1, <1>2, <1>3, <1>4, <1>6 DEF BuilderInv
<1>7. QED BY <1>5, <1>6, Zenon

LEMMA TreeStepBuilders ==
  ASSUME Types, TreesOK, NEW w \in TreeWorker, TreeStep(w), NEW v \in TreeWorker
  PROVE  BuilderInv(v)'
<1>1. /\ \A u \in TreeWorker : u # w => builder'[u] = builder[u] /\ dir'[u] = dir[u] /\ todo'[u] = todo[u]
      /\ dir'[w] \in {dir[w], None}
      /\ \/ builder'[w] \in {"take", "send", "wait"} /\ builder[w] \in {"take", "send", "wait"} /\ dir'[w] = dir[w]
               /\ UNCHANGED future
         \/ builder'[w] \in {"idle", "done"} /\ builder[w] \in {"take", "send", "wait"} /\ dir'[w] = None
               /\ \E s : future' = [future EXCEPT ![dir[w]] = s]
         \/ builder'[w] \in {"idle", "done"} /\ builder[w] = "idle" /\ dir'[w] = dir[w] /\ UNCHANGED future
  BY ZenonT(30) DEF TreeStep, TakeNode, TakeError, TreeFails, TreeBuilt, DropTreeBlob, TreeSaved, TreeWorkerStops, SendTreeBlob,
         NoResult, FileError, Types, TypeOK
<1>2. builder'[w] # "take" => todo'[w] = <<>>
  BY DEF TreeStep, TakeNode, TakeError, TreeFails, TreeBuilt, DropTreeBlob, TreeSaved, TreeWorkerStops, SendTreeBlob,
         NoResult, FileError, Types, TypeOK, TreesOK, BuilderInv
<1>3. \A u \in TreeWorker : BuilderInv(u) /\ (dir[u] # None => dir[u] \in Item)
  BY ItemFacts, Zenon DEF TreesOK, Types, TypeOK
<1>4. \A i \in Item : i # dir[w] => future'[i] = future[i]
  BY <1>1, Zenon DEF Types, TypeOK
<1>5. CASE v = w
  BY <1>1, <1>2, <1>3, <1>5 DEF BuilderInv
<1>6. CASE v # w
  BY <1>1, <1>3, <1>4, <1>6 DEF BuilderInv
<1>7. QED BY <1>5, <1>6, Zenon

LEMMA TreesStep ==
  ASSUME Types, TreesOK, WalkOK, Next, \A i \in Item : FutureMoves(i)
  PROVE  TreesOK'
<1>1. \A w \in TreeWorker : BuilderInv(w)'
  BY StepParts, BuildersKept, SendTreeBuilders, TreeStepBuilders, Zenon
<1>2. ASSUME NEW d \in Dir, NEW i \in entries'[d] PROVE future'[i] = "node"
  <2>1. CASE UNCHANGED entries
    BY <1>2, <2>1, FutureKept, Zenon DEF TreesOK, Types, TypeOK
  <2>2. ASSUME NEW w \in TreeWorker, TakeNode(w) PROVE future'[i] = "node"
    <3>1. entries' = [entries EXCEPT ![dir[w]] = @ \cup {Head(todo[w])}] /\ future[Head(todo[w])] = "node" /\ UNCHANGED future
      BY <2>2, Zenon DEF TakeNode
    <3>2. QED BY <1>2, <3>1, Zenon DEF TreesOK, Types, TypeOK
  <2>3. QED BY <2>1, <2>2, StepParts, Zenon
<1>3. QED BY <1>1, <1>2, Zenon DEF TreesOK

-----------------------------------------------------------------------------
(* The walk *)

LEMMA LeavesOut ==
  ASSUME LeaveOut
  PROVE  \E a \in Item \ {Root} :
           /\ a \in Ignored /\ a \in Chain(pos) /\ a \in Path(Current)
           /\ \A b \in Stops : After(a) <= After(b)
           /\ pos' = After(a) /\ pos < pos'
           /\ leftOut' = leftOut \cup {i \in Chain(pos) : After(i) <= After(a)}
<1>1. pos \in Calls /\ Current \in Item /\ pos \in Nat
  BY CallFacts, Zenon DEF LeaveOut
<1>2. Chain(pos) = Path(Current) /\ pos < After(Current)
  BY <1>1, WalkNested, Zenon DEF Current
<1>3. PICK a \in Stops :
        /\ \A b \in Stops : After(a) <= After(b)
        /\ pos' = After(a) /\ leftOut' = leftOut \cup {i \in Chain(pos) : After(i) <= After(a)}
  BY Zenon DEF LeaveOut
<1>4. a \in Item /\ a # Root /\ a \in Ignored /\ a \in Chain(pos) /\ a \in Path(Current)
  BY <1>1, <1>2, <1>3, PathFacts, Zenon DEF Stops
<1>5. pos < After(a)
  <2>1. a = Current \/ After(Current) < After(a)
    BY <1>1, <1>4, PathFacts, Zenon
  <2>2. QED BY <1>1, <1>2, <1>4, <2>1, LastCall
<1>6. QED BY <1>3, <1>4, <1>5, Zenon

LEMMA WalkForward ==
  ASSUME Types, Next
  PROVE  /\ pos' >= pos /\ pos' \in Nat /\ pos \in Nat
         /\ \A d \in Dir : RangeOf(nodes[d]) \subseteq RangeOf(nodes'[d])
<1>1. pos \in Nat
  BY WalkTypes DEF Types, TypeOK
<1>2. CASE UNCHANGED <<pos, nodes>>
  BY <1>1, <1>2
<1>3. CASE OpenDir
  BY <1>1, <1>3 DEF OpenDir
<1>4. CASE LeaveOut
  <2>1. UNCHANGED nodes /\ pos' \in Nat
    BY <1>4, LeavesOut, LastCall, Zenon DEF LeaveOut
  <2>2. QED BY <1>1, <1>4, <2>1, LeavesOut
<1>5. CASE WalkStep /\ pos' = pos + 1 /\ (Call("file") \/ Call("save")) /\ \E s \in {"pending", "node", "closed"} : AddNode(Current, s)
  <2>1. PICK s \in {"pending", "node", "closed"} : AddNode(Current, s) /\ Current \in Item
    BY <1>5, CallFacts, Zenon
  <2>2. \A d \in Dir : RangeOf(nodes'[d]) = RangeOf(nodes[d]) \cup {i \in {Current} \ {Root} : Parent[i] = d}
    BY <2>1, AddNodeFacts, ZenonT(30), Zenon
  <2>3. pos' >= pos /\ pos' \in Nat
    BY <1>1, <1>5
  <2>4. QED BY <1>1, <2>2, <2>3, Zenon
<1>6. QED BY <1>2, <1>3, <1>4, <1>5, StepParts, Zenon

LEMMA WalkedStep ==
  ASSUME Types, WalkOK, Next, \A i \in Item : FutureMoves(i)
  PROVE  WalkOK'
<1>0. /\ pos' >= pos /\ pos' \in Nat /\ pos \in Nat
      /\ \A d \in Dir : RangeOf(nodes[d]) \subseteq RangeOf(nodes'[d])
      /\ leftOut \subseteq leftOut'
  BY WalkForward, StepParts, Zenon
<1>1. ASSUME NEW k \in Calls, k >= pos', Walk[k].op # "open" PROVE future'[Walk[k].item] = "none"
  <2>1. Walk[k].item \in Item /\ k \in Nat
    BY WalkTypes
  <2>2. future[Walk[k].item] = "none" /\ FutureMoves(Walk[k].item)
    BY <1>0, <1>1, <2>1 DEF WalkOK
  <2>3. ~Sent(Walk[k].item)
    <3>1. ASSUME Sent(Walk[k].item) PROVE FALSE
      <4>1. pos \in Calls /\ Walk[pos].op # "open" /\ Walk[pos].item = Walk[k].item /\ pos' = pos + 1
        BY <3>1, CallFacts, Zenon DEF Sent, Current
      <4>2. k = pos
        BY <1>1, <4>1, CallOnce, Zenon
      <4>3. QED BY <1>0, <1>1, <4>1, <4>2
    <3>2. QED BY <3>1, Zenon
  <2>4. QED BY <2>2, <2>3, Zenon DEF FutureMoves
<1>2. ASSUME NEW i \in Item \ {Root}, After(i) <= pos', After(Parent[i]) > pos'
      PROVE  i \in leftOut' \cup RangeOf(nodes'[Parent[i]])
  <2>1. /\ After(i) \in Nat /\ After(Parent[i]) \in Nat /\ Parent[i] \in Dir
        /\ After(i) - 1 \in Calls /\ Walk[After(i) - 1].item = i /\ Walk[After(i) - 1].op # "open"
    BY <1>2, ItemFacts, LastCall, Zenon
  <2>2. CASE After(i) <= pos
    <3>1. After(Parent[i]) > pos
      BY <1>0, <1>2, <2>1
    <3>2. i \in leftOut \cup RangeOf(nodes[Parent[i]])
      BY <1>2, <2>2, <3>1, Zenon DEF WalkOK
    <3>3. QED BY <1>0, <2>1, <3>2, Zenon
  <2>3. CASE After(i) > pos
    <3>1. pos' # pos
      BY <1>0, <1>2, <2>1, <2>3
    <3>2. CASE OpenDir
      <4>1. After(i) - 1 = pos
        BY <1>0, <1>2, <2>1, <2>3, <3>2 DEF OpenDir
      <4>2. QED BY <2>1, <3>2, <4>1, Zenon DEF OpenDir, Call
    <3>3. CASE LeaveOut
      <4>1. PICK a \in Item \ {Root} :
              /\ a \in Chain(pos) /\ pos' = After(a)
              /\ leftOut' = leftOut \cup {j \in Chain(pos) : After(j) <= After(a)}
        BY <3>3, LeavesOut, Zenon
      <4>2. pos \in Calls
        BY <3>3, CallFacts, Zenon DEF LeaveOut
      <4>3. a \in Path(i)
        BY <1>2, <2>3, <4>1, <4>2, WalkNested, Zenon
      <4>4. CASE a = i
        BY <1>2, <4>1, <4>4, Zenon
      <4>5. CASE a # i
        <5>1. a \in Path(Parent[i])
          BY <1>2, <4>3, <4>5, PathFacts
        <5>2. a = Parent[i] \/ After(Parent[i]) < After(a)
          BY <2>1, <5>1, ItemFacts, PathFacts, Zenon
        <5>3. QED BY <1>0, <1>2, <2>1, <4>1, <5>2
      <4>6. QED BY <4>4, <4>5, Zenon
    <3>4. CASE pos' = pos + 1 /\ (Call("file") \/ Call("save")) /\ \E s \in {"pending", "node", "closed"} : AddNode(Current, s)
      <4>1. After(i) - 1 = pos
        BY <1>0, <1>2, <2>1, <2>3, <3>4
      <4>2. i = Current
        BY <2>1, <4>1, ZenonT(40) DEF Current
      <4>3. QED BY <1>2, <2>1, <3>4, <4>2, AddNodeFacts
    <3>5. QED BY <3>1, <3>2, <3>3, <3>4, StepParts, Zenon
  <2>4. QED BY <1>0, <2>1, <2>2, <2>3
<1>3. QED BY <1>1, <1>2, Zenon DEF WalkOK

-----------------------------------------------------------------------------
(* The end *)

LEMMA GroupParts ==
  ASSUME Next
  PROVE  /\ cancelled => cancelled'
         /\ UNCHANGED failed \/ (failed' = TRUE /\ cancelled' = TRUE)
         /\ \/ UNCHANGED <<main, stopped>> \/ StopWorkers
            \/ main \in {"walk", "take"} /\ main' \in {"walk", "take"} /\ UNCHANGED stopped
            \/ main \in {"walk", "take"} /\ main' = "error" /\ failed' /\ UNCHANGED stopped
         /\ UNCHANGED result \/ EndStep
<1> USE DEF Next, Step, WalkStep, FileStep, BlobStep, TreeStep, EndStep, OpenDir, LeaveOut, WalkFails, SaveUnchanged, SendFile,
            SendTree, SendNothing, StopWorkers, NoSnapshot, ReadChunk, ReadFails, DropChunk, CompleteError, EndOfFile,
            FinishReading, FileWorkerStops, SendChunk, SaveBlob, SaveBlobFails, FillContent, ChunkSaved, TreeBlobSaved,
            BlobWorkerStops, TakeNode, TakeError, TreeFails, TreeBuilt, DropTreeBlob, TreeSaved, TreeWorkerStops,
            SendTreeBlob, GroupEnds, Flush, SaveSnapshot, Cancel, GroupFails, Call, walkVars, groupVars, endVars
<1>1. cancelled => cancelled'
  BY ZenonT(60), Zenon
<1>2. UNCHANGED failed \/ (failed' = TRUE /\ cancelled' = TRUE)
  BY ZenonT(60), Zenon
<1>3. \/ UNCHANGED <<main, stopped>> \/ StopWorkers
      \/ main \in {"walk", "take"} /\ main' \in {"walk", "take"} /\ UNCHANGED stopped
      \/ main \in {"walk", "take"} /\ main' = "error" /\ failed' /\ UNCHANGED stopped
  BY ZenonT(60), Zenon
<1>4. UNCHANGED result \/ EndStep
  BY ZenonT(60), Zenon
<1>5. QED BY <1>1, <1>2, <1>3, <1>4, ZenonT(60), Zenon

LEMMA OnlyTheEnd ==
  ASSUME Next, result # "none", EndOK
  PROVE  EndStep
<1>1. /\ main \in {"nil", "error"} /\ (\A w \in FileWorker : reader[w] = "done")
      /\ (\A b \in BlobWorker : saver[b] = "done") /\ \A w \in TreeWorker : builder[w] = "done"
  BY Zenon DEF EndOK
<1>2. ~WalkStep /\ ~Cancel
  BY <1>1, Zenon DEF WalkStep, OpenDir, LeaveOut, WalkFails, SaveUnchanged, SendFile, SendTree, SendNothing, StopWorkers, NoSnapshot, Call, Cancel
<1>3. \A w \in FileWorker : ~FileStep(w)
  BY <1>1, Zenon DEF FileStep, ReadChunk, ReadFails, DropChunk, EndOfFile, FinishReading, FileWorkerStops, SendChunk
<1>4. \A b \in BlobWorker : ~BlobStep(b)
  BY <1>1, Zenon DEF BlobStep, SaveBlob, SaveBlobFails, FillContent, ChunkSaved, TreeBlobSaved, BlobWorkerStops
<1>5. \A w \in TreeWorker : ~TreeStep(w)
  BY <1>1, Zenon DEF TreeStep, TakeNode, TakeError, TreeFails, TreeBuilt, DropTreeBlob, TreeSaved, TreeWorkerStops, SendTreeBlob, NoResult, FileError
<1>6. QED BY <1>2, <1>3, <1>4, <1>5, Zenon DEF Next, Step

LEMMA EndsStep ==
  ASSUME Types, EndOK, Next, \A i \in Item : FutureMoves(i)
  PROVE  EndOK'
<1>1. CASE EndStep
  <2>1. UNCHANGED <<main, future, stopped, cancelled, failed, reader, saver, builder, accepted>>
    BY <1>1, Zenon DEF EndStep, GroupEnds, Flush, SaveSnapshot, walkVars, treeVars, groupVars
  <2>2. CASE GroupEnds
    BY <2>1, <2>2, Zenon DEF EndOK, GroupEnds
  <2>3. CASE Flush \/ SaveSnapshot
    BY <2>1, <2>3, Zenon DEF EndOK, Flush, SaveSnapshot
  <2>4. QED BY <1>1, <2>2, <2>3, Zenon DEF EndStep
<1>2. CASE ~EndStep
  <2>1. result = "none" /\ result' = "none"
    BY <1>2, OnlyTheEnd, GroupParts, Zenon
  <2>2. main' = "nil" => future'[Root] = "node"
    <3>1. Root \in Item /\ FutureMoves(Root)
      BY ItemFacts, Zenon
    <3>2. CASE StopWorkers
      BY <3>2, Zenon DEF StopWorkers
    <3>3. CASE ~StopWorkers
      BY <3>1, <3>3, GroupParts, FutureKept, Zenon DEF EndOK
    <3>4. QED BY <3>2, <3>3, Zenon
  <2>3. main' = "nil" <=> stopped'
    <3>1. CASE StopWorkers
      BY <3>1, Zenon DEF StopWorkers
    <3>2. CASE ~StopWorkers
      BY <3>2, GroupParts DEF EndOK
    <3>3. QED BY <3>1, <3>2, Zenon
  <2>4. (main' = "error" => failed') /\ (failed' => cancelled')
    <3>1. failed' => cancelled'
      BY GroupParts, ZenonT(30), Zenon DEF EndOK
    <3>2. CASE StopWorkers
      BY <3>1, <3>2, Zenon DEF StopWorkers
    <3>3. CASE ~StopWorkers
      <4>1. failed => failed'
        BY GroupParts, ZenonT(30), Zenon
      <4>2. QED BY <3>1, <3>3, <4>1, GroupParts, Zenon DEF EndOK
    <3>4. QED BY <3>2, <3>3, Zenon
  <2>5. ASSUME NEW i \in Item, future'[i] = "closed" PROVE cancelled'
    <3>1. FutureMoves(i)
      BY Zenon
    <3>2. future[i] = "closed" \/ cancelled \/ \E w \in TreeWorker : TreeFails(w)
      BY <2>5, <3>1, Zenon DEF FutureMoves, Sent
    <3>3. QED BY <3>2, GroupParts, Zenon DEF EndOK, TreeFails, GroupFails
  <2>6. QED BY <2>1, <2>2, <2>3, <2>4, <2>5, Zenon DEF EndOK
<1>3. QED BY <1>1, <1>2, Zenon

-----------------------------------------------------------------------------
(* What is in a tree *)

LEMMA EntriesGrow ==
  ASSUME Types, TreesOK, Next
  PROVE  /\ leftOut \subseteq leftOut'
         /\ \A d \in Dir : entries[d] \subseteq entries'[d] /\ (AllIn(d) => AllIn(d)')
         /\ \A d \in Dir : entries'[d] # entries[d] => future[d] = "pending"
<1>1. \A d \in Dir : entries[d] \subseteq entries'[d] /\ (entries'[d] # entries[d] => future[d] = "pending")
  <2>1. CASE UNCHANGED entries
    BY <2>1, Zenon
  <2>2. ASSUME NEW w \in TreeWorker, TakeNode(w)
        PROVE  \A d \in Dir : entries[d] \subseteq entries'[d] /\ (entries'[d] # entries[d] => future[d] = "pending")
    <3>1. dir[w] \in Dir /\ future[dir[w]] = "pending"
      BY <2>2, DirOfBuilder, Zenon DEF TakeNode
    <3>2. QED BY <2>2, <3>1, Zenon DEF TakeNode, Types, TypeOK
  <2>3. QED BY <2>1, <2>2, StepParts, Zenon
<1>2. QED BY <1>1, StepParts, Zenon DEF AllIn, ChildrenOf

\* The futures that a worker has not taken, and the entries it has, are all there is.
LEMMA TodoStep ==
  ASSUME Types, TreesOK, WalkOK, EndOK, CompleteOK, Next, ~cancelled', ~cancelled,
         NEW w \in TreeWorker, dir'[w] # None, NEW i \in ChildrenOf(dir'[w])
  PROVE  i \in leftOut' \cup entries'[dir'[w]] \cup RangeOf(todo'[w])
<1>0. dir[w] \in Dir \cup {None} /\ i \in Item /\ i # Root /\ Parent[i] = dir'[w] /\ leftOut \subseteq leftOut'
  BY StepParts, Zenon DEF Types, TypeOK, ChildrenOf
<1>1. CASE dir'[w] = dir[w] /\ todo'[w] = todo[w]
  <2>1. i \in leftOut \cup entries[dir[w]] \cup RangeOf(todo[w])
    BY <1>1, Zenon DEF CompleteOK
  <2>2. entries[dir[w]] \subseteq entries'[dir[w]]
    BY <1>0, <1>1, EntriesGrow, Zenon
  <2>3. QED BY <1>0, <1>1, <2>1, <2>2, Zenon
<1>2. CASE SendTree(w)
  <2>1. Current \in Dir /\ Current \in Item /\ After(Current) = pos + 1 /\ pos \in Nat
    BY <1>2, CallFacts, ItemFacts, Zenon DEF SendTree
  <2>2. dir'[w] = Current /\ todo'[w] = nodes[Current]
    BY <1>2, Zenon DEF SendTree, Types, TypeOK
  <2>3. After(i) <= pos /\ After(Parent[i]) > pos
    <3>1. After(i) < After(Parent[i]) /\ After(i) \in Nat
      BY <1>0, PathFacts, LastCall, Zenon
    <3>2. QED BY <1>0, <2>1, <2>2, <3>1
  <2>4. i \in leftOut \cup RangeOf(nodes[Parent[i]])
    BY <1>0, <2>3, Zenon DEF WalkOK
  <2>5. QED BY <1>0, <2>2, <2>4, Zenon
<1>3. CASE TakeNode(w) \/ TakeError(w)
  <2>1. /\ dir'[w] = dir[w] /\ todo[w] # <<>> /\ todo[w] \in Seq(Item) /\ todo'[w] = Tail(todo[w])
        /\ builder[w] = "take"
    BY <1>3, Zenon DEF TakeNode, TakeError, NoResult, FileError, Types, TypeOK
  <2>2. RangeOf(todo[w]) = {Head(todo[w])} \cup RangeOf(todo'[w]) /\ Head(todo[w]) \in Item
    BY <2>1, TailType, Zenon
  <2>3. i \in leftOut \cup entries[dir[w]] \cup RangeOf(todo[w])
    BY <2>1, Zenon DEF CompleteOK
  <2>4. dir[w] \in Dir /\ entries[dir[w]] \subseteq entries'[dir[w]]
    BY <1>0, <2>1, EntriesGrow, Zenon
  <2>5. Head(todo[w]) \in leftOut' \cup entries'[dir[w]]
    <3>1. CASE TakeNode(w)
      BY <2>4, <3>1, Zenon DEF TakeNode, Types, TypeOK
    <3>2. CASE TakeError(w)
      <4>1. ~NoResult(w)
        BY <2>2, Zenon DEF NoResult, EndOK
      <4>2. QED BY <3>2, <4>1, Zenon DEF TakeError
    <3>3. QED BY <1>3, <3>1, <3>2, Zenon
  <2>6. QED BY <1>0, <2>1, <2>2, <2>3, <2>4, <2>5, Zenon
<1>4. QED
  <2>1. CASE UNCHANGED <<builder, dir, todo>>
    BY <1>1, <2>1, Zenon
  <2>2. ASSUME NEW v \in TreeWorker, SendTree(v) PROVE v = w \/ (dir'[w] = dir[w] /\ todo'[w] = todo[w])
    BY <2>2, Zenon DEF SendTree, Types, TypeOK
  <2>3. ASSUME NEW v \in TreeWorker, TreeStep(v)
        PROVE  (v = w /\ (TakeNode(v) \/ TakeError(v))) \/ (dir'[w] = dir[w] /\ todo'[w] = todo[w])
    BY <2>3, ZenonT(40) DEF TreeStep, TakeNode, TakeError, TreeFails, TreeBuilt, DropTreeBlob, TreeSaved, TreeWorkerStops, SendTreeBlob, Types, TypeOK
  <2>4. QED BY <1>1, <1>2, <1>3, <2>1, <2>2, <2>3, StepParts, Zenon

LEMMA CompleteStep ==
  ASSUME Types, TreesOK, TreesOK', WalkOK, EndOK, EndOK', CompleteOK, Next, \A i \in Item : FutureMoves(i)
  PROVE  CompleteOK'
<1>1. ~cancelled' => ~cancelled
  BY GroupParts, Zenon
<1>2. ASSUME ~cancelled', NEW d \in Dir, future'[d] = "node" PROVE AllIn(d)'
  <2>1. d \in Item /\ d \notin File /\ Unchanged \subseteq File /\ FutureMoves(d)
    BY ItemFacts, WalkAssumption, Zenon
  <2>2. future[d] = "node" \/ \E w \in TreeWorker : dir[w] = d /\ TreeSaved(w)
    BY <1>2, <2>1, Zenon DEF FutureMoves, Sent
  <2>3. AllIn(d)
    <3>1. CASE future[d] = "node"
      BY <1>1, <1>2, <3>1, Zenon DEF CompleteOK
    <3>2. ASSUME NEW w \in TreeWorker, dir[w] = d, TreeSaved(w) PROVE AllIn(d)
      <4>1. todo[w] = <<>> /\ d # None
        BY <3>2, ItemFacts, Zenon DEF TreesOK, BuilderInv, TreeSaved
      <4>2. QED BY <1>1, <1>2, <3>2, <4>1, NothingLeft, Zenon DEF CompleteOK, AllIn
    <3>3. QED BY <2>2, <3>1, <3>2, Zenon
  <2>4. QED BY <2>3, EntriesGrow, Zenon
<1>3. ASSUME main' = "nil", NEW d \in Dir, InSnapshot(d)' PROVE AllIn(d)'
  <2>1. d \in Item /\ Path(d) \subseteq Item /\ d \in Path(d)
    BY ItemFacts, PathFacts, Zenon
  <2>2. CASE StopWorkers
    <3>1. UNCHANGED <<entries, future, cancelled>> /\ ~cancelled /\ future[Root] = "node"
      BY <2>2, Zenon DEF StopWorkers, treeVars
    <3>2. CASE d = Root
      BY <3>1, <3>2, EntriesGrow, Zenon DEF CompleteOK
    <3>3. CASE d # Root
      <4>1. d \in entries[Parent[d]] /\ Parent[d] \in Dir
        BY <1>3, <2>1, <3>1, <3>3, ItemFacts, Zenon DEF InSnapshot
      <4>2. future[d] = "node"
        BY <4>1, Zenon DEF TreesOK
      <4>3. QED BY <3>1, <4>2, EntriesGrow, Zenon DEF CompleteOK
    <3>4. QED BY <3>2, <3>3, Zenon
  <2>3. CASE ~StopWorkers
    <3>1. main = "nil" /\ future[Root] = "node"
      BY <1>3, <2>3, GroupParts, ZenonT(30), Zenon DEF EndOK
    <3>2. ASSUME NEW a \in Path(d) \ {Root} PROVE a \in entries[Parent[a]]
      <4>1. a \in Item /\ Parent[a] \in Dir /\ Parent[a] \in Path(d) /\ a \in entries'[Parent[a]]
        BY <1>3, <2>1, <3>2, ItemFacts, PathFacts, Zenon DEF InSnapshot
      <4>2. future[Parent[a]] # "pending"
        <5>1. CASE Parent[a] = Root
          BY <3>1, <5>1, Zenon
        <5>2. CASE Parent[a] # Root
          <6>1. Parent[a] \in entries'[Parent[Parent[a]]] /\ Parent[Parent[a]] \in Dir
            BY <1>3, <2>1, <4>1, <5>2, ItemFacts, Zenon DEF InSnapshot
          <6>2. future'[Parent[a]] = "node"
            BY <6>1, Zenon DEF TreesOK
          <6>3. ASSUME future[Parent[a]] = "pending" PROVE FALSE
            <7>1. PICK w \in TreeWorker : TreeSaved(w) /\ dir[w] = Parent[a]
              BY <4>1, <6>2, <6>3, ItemFacts, ZenonT(40) DEF FutureMoves
            <7>2. UNCHANGED entries
              BY <7>1, Zenon DEF TreeSaved
            <7>3. Parent[a] \in entries[Parent[Parent[a]]]
              BY <6>1, <7>2, Zenon
            <7>4. QED BY <6>1, <6>3, <7>3, Zenon DEF TreesOK
          <6>4. QED BY <6>3, Zenon
        <5>3. QED BY <5>1, <5>2, Zenon
      <4>3. QED BY <4>1, <4>2, EntriesGrow, Zenon
    <3>3. InSnapshot(d)
      BY <3>2, Zenon DEF InSnapshot
    <3>4. QED BY <3>1, <3>3, EntriesGrow, Zenon DEF CompleteOK
  <2>4. QED BY <2>2, <2>3, Zenon
<1>4. QED BY <1>1, <1>2, <1>3, TodoStep, Zenon DEF CompleteOK

-----------------------------------------------------------------------------
(* What the root waits for *)

LEMMA Passed ==
  ASSUME Types, WalkOK, NEW i \in Item, future[i] # "none"
  PROVE  After(i) <= pos /\ After(i) \in Nat /\ pos \in Nat
<1>1. /\ After(i) \in Nat /\ After(i) - 1 \in Calls /\ Walk[After(i) - 1].item = i /\ Walk[After(i) - 1].op # "open"
      /\ pos \in Nat
  BY LastCall, WalkTypes DEF Types, TypeOK
<1>2. ~(After(i) - 1 >= pos)
  BY <1>1, Zenon DEF WalkOK
<1>3. QED BY <1>1, <1>2

LEMMA NodesSame ==
  ASSUME Types, Next, NEW d \in Dir, After(d) <= pos + 1
  PROVE  RangeOf(nodes'[d]) = RangeOf(nodes[d])
<1>1. CASE UNCHANGED nodes
  BY <1>1, Zenon
<1>2. CASE (Call("file") \/ Call("save")) /\ \E s \in {"pending", "node", "closed"} : AddNode(Current, s)
  <2>1. Current \in Item /\ After(Current) = pos + 1 /\ pos \in Nat /\ After(d) \in Nat
    BY <1>2, CallFacts, LastCall, ItemFacts, Zenon
  <2>2. ~(Current # Root /\ Parent[Current] = d)
    <3>1. Current # Root /\ Parent[Current] = d => After(Current) < After(d)
      BY <2>1, PathFacts, Zenon
    <3>2. QED BY <2>1, <3>1
  <2>3. RangeOf(nodes'[d]) = RangeOf(nodes[d]) \cup {i \in {Current} \ {Root} : Parent[i] = d}
    BY <1>2, <2>1, AddNodeFacts, ZenonT(30), Zenon
  <2>4. QED BY <2>2, <2>3, Zenon
<1>3. QED BY <1>1, <1>2, StepParts, Zenon DEF OpenDir, LeaveOut

LEMMA BelowCurrent ==
  ASSUME WalkOK, Call("open") \/ Call("file"), NEW i \in Item, Current \in Path(i)
  PROVE  future[i] = "none"
<1>1. pos \in Calls /\ pos \in Nat /\ Current \in Item /\ Walk[pos].item = Current
  BY CallFacts, Zenon DEF Current
<1>2. After(i) \in Nat /\ After(i) - 1 \in Calls /\ Walk[After(i) - 1].item = i /\ Walk[After(i) - 1].op # "open"
  BY LastCall, Zenon
<1>3. After(i) - 1 >= pos
  <2>1. CASE i = Current
    <3>1. pos < After(i)
      BY <1>1, <2>1, WalkNested, Zenon
    <3>2. QED BY <1>1, <1>2, <3>1
  <2>2. CASE i # Current
    <3>1. Current \in Dir
      BY <2>2, PathFacts, Zenon
    <3>2. Walk[pos].op = "open"
      BY <3>1, CallFacts, ItemFacts, Zenon DEF Call
    <3>3. PICK j \in 1 .. (After(i) - 1) - 1 : Walk[j] = [op |-> "open", item |-> Current]
      BY <1>2, <2>2, Zenon DEF Path, Chain
    <3>4. j \in Calls /\ Walk[j].item = Walk[pos].item /\ Walk[j].op = "open"
      BY <1>1, <1>2, <3>3, WalkTypes
    <3>5. j = pos
      BY <1>1, <3>2, <3>4, CallOnce, Zenon
    <3>6. QED BY <1>2, <3>3, <3>5
  <2>3. QED BY <2>1, <2>2, Zenon
<1>4. QED BY <1>2, <1>3, Zenon DEF WalkOK

LEMMA KnownStep ==
  ASSUME ErrorsPassedUp, Types, WalkOK, Known, Next, \A i \in Item : FutureMoves(i)
  PROVE  Known'
<1>0. /\ pos' >= pos /\ pos' \in Nat /\ pos \in Nat
      /\ \A d \in Dir : RangeOf(nodes[d]) \subseteq RangeOf(nodes'[d])
  BY WalkForward, Zenon
<1>1. ASSUME NEW i \in Item \ {Root}, future'[i] # "none" PROVE i \in RangeOf(nodes'[Parent[i]])
  <2>1. Parent[i] \in Dir /\ FutureMoves(i)
    BY <1>1, ItemFacts, Zenon
  <2>2. CASE future[i] # "none"
    BY <1>0, <1>1, <2>1, <2>2, Zenon DEF Known
  <2>3. CASE future[i] = "none"
    <3>1. Sent(i)
      BY <1>1, <2>1, <2>3, Zenon DEF FutureMoves
    <3>2. QED BY <1>1, <2>1, <3>1, AddNodeFacts DEF Sent
  <2>4. QED BY <2>2, <2>3, Zenon
<1>2. ASSUME NEW i \in Item, NEW c \in Path(i), future'[i] # "none", After(c) <= pos', future'[c] = "none" PROVE FALSE
  <2>1. /\ c \in Item /\ FutureMoves(c) /\ FutureMoves(i) /\ After(c) \in Nat /\ After(c) - 1 \in Calls
        /\ Walk[After(c) - 1].item = c /\ Walk[After(c) - 1].op # "open"
    BY <1>2, PathFacts, LastCall, Zenon
  <2>2. future[c] = "none" /\ ~Sent(c)
    BY <1>2, <2>1, FutureKept, Zenon DEF Sent
  <2>3. CASE After(c) <= pos
    <3>1. future[i] = "none"
      BY <1>2, <2>2, <2>3, Zenon DEF Known
    <3>2. Sent(i) /\ c # i
      BY <1>2, <2>1, <2>2, <3>1, Zenon DEF FutureMoves
    <3>3. After(i) = pos + 1 /\ After(i) < After(c)
      BY <1>2, <3>2, CallFacts, PathFacts, Zenon DEF Sent
    <3>4. QED BY <1>0, <2>1, <2>3, <3>3
  <2>4. CASE After(c) > pos
    <3>1. CASE OpenDir
      <4>1. After(c) - 1 = pos
        BY <1>0, <1>2, <2>1, <2>4, <3>1 DEF OpenDir
      <4>2. QED BY <2>1, <3>1, <4>1, Zenon DEF OpenDir, Call
    <3>2. CASE LeaveOut
      <4>1. PICK a \in Item \ {Root} :
              /\ a \in Ignored /\ a \in Chain(pos) /\ a \in Path(Current) /\ pos' = After(a)
              /\ \A b \in Stops : After(a) <= After(b)
        BY <3>2, LeavesOut, Zenon
      <4>2. pos \in Calls /\ Current \in Item /\ Current # Root /\ Chain(pos) = Path(Current)
        BY <3>2, CallFacts, WalkNested, Zenon DEF LeaveOut, Current
      <4>3. Current \in Stops
        BY <4>1, <4>2, PathFacts DEF ErrorsPassedUp, Stops
      <4>4. a = Current
        <5>1. After(a) <= After(Current) /\ After(a) \in Nat /\ After(Current) \in Nat
          BY <4>1, <4>2, <4>3, LastCall, Zenon
        <5>2. QED BY <4>1, <4>2, <5>1, PathFacts
      <4>5. a \in Path(i)
        BY <1>2, <2>1, <2>4, <4>1, <4>2, WalkNested, PathFacts, Zenon
      <4>6. future[i] = "none"
        BY <3>2, <4>4, <4>5, BelowCurrent, Zenon DEF LeaveOut
      <4>7. QED BY <1>2, <3>2, <4>6, Zenon DEF LeaveOut
    <3>3. CASE pos' = pos + 1 /\ (Call("file") \/ Call("save")) /\ \E s \in {"pending", "node", "closed"} : AddNode(Current, s)
      <4>1. After(c) - 1 = pos
        BY <1>0, <1>2, <2>1, <2>4, <3>3
      <4>2. c = Current
        BY <2>1, <4>1, Zenon DEF Current
      <4>3. QED BY <1>2, <2>1, <3>3, <4>2, AddNodeFacts, Zenon
    <3>4. QED BY <1>0, <1>2, <2>1, <2>4, <3>1, <3>2, <3>3, StepParts
  <2>5. QED BY <1>0, <2>1, <2>3, <2>4
<1>3. ASSUME NEW d \in Dir PROVE future'[d] # "error"
  <2>1. FutureMoves(d) /\ d \notin File /\ future[d] # "error"
    BY ItemFacts, Zenon DEF Known
  <2>2. QED BY <2>1, Zenon DEF FutureMoves, Sent
<1>4. QED BY <1>1, <1>2, <1>3, Zenon DEF Known

LEMMA TakenStep ==
  ASSUME Types, TreesOK, WalkOK, EndOK, Taken, Next, \A i \in Item : FutureMoves(i)
  PROVE  Taken'
<1> SUFFICES ASSUME ~cancelled', NEW w \in TreeWorker, dir'[w] # None, NEW i \in RangeOf(nodes'[dir'[w]])
             PROVE  i \in RangeOf(todo'[w]) \/ future'[i] \in {"node", "error"}
  BY SMTT(30) DEF Taken
<1>0. ~cancelled /\ dir[w] \in Dir \cup {None} /\ nodes \in [Dir -> Seq(Item)] /\ \A v \in TreeWorker : todo[v] \in Seq(Item)
  BY GroupParts, Zenon DEF Types, TypeOK
<1>1. ASSUME dir'[w] = dir[w]
      PROVE  i \in Item /\ (i \in RangeOf(todo[w]) \/ future'[i] \in {"node", "error"})
  <2>1. dir[w] \in Dir /\ dir[w] \in Item /\ future[dir[w]] = "pending"
    BY <1>0, <1>1, ItemFacts, ZenonT(30), Zenon DEF TreesOK, BuilderInv
  <2>2. After(dir[w]) <= pos /\ After(dir[w]) \in Nat /\ pos \in Nat
    BY <2>1, Passed, Zenon
  <2>3. i \in RangeOf(nodes[dir[w]])
    BY <1>1, <2>1, <2>2, NodesSame
  <2>4. i \in Item
    BY <1>0, <2>1, <2>3, ElementType DEF RangeOf
  <2>5. i \in RangeOf(todo[w]) \/ future[i] \in {"node", "error"}
    BY <1>0, <1>1, <2>3, Zenon DEF Taken
  <2>6. QED BY <2>4, <2>5, FutureKept, Zenon
<1>2. CASE dir'[w] = dir[w] /\ todo'[w] = todo[w]
  BY <1>1, <1>2, Zenon
<1>3. CASE SendTree(w)
  <2>1. Current \in Dir /\ After(Current) = pos + 1 /\ pos \in Nat
    BY <1>3, CallFacts, Zenon DEF SendTree
  <2>2. dir'[w] = Current /\ todo'[w] = nodes[Current]
    BY <1>3, Zenon DEF SendTree, Types, TypeOK
  <2>3. QED BY <2>1, <2>2, NodesSame
<1>4. CASE TakeNode(w) \/ TakeError(w)
  <2>1. dir'[w] = dir[w] /\ todo[w] # <<>> /\ todo'[w] = Tail(todo[w]) /\ UNCHANGED future
    BY <1>4, Zenon DEF TakeNode, TakeError, NoResult, FileError, Types, TypeOK
  <2>2. RangeOf(todo[w]) = {Head(todo[w])} \cup RangeOf(todo'[w]) /\ Head(todo[w]) \in Item
    BY <1>0, <2>1, TailType, Zenon
  <2>3. future[Head(todo[w])] \in {"node", "error"}
    BY <1>0, <1>4, <2>2, Zenon DEF TakeNode, TakeError, NoResult, FileError, EndOK
  <2>4. QED BY <1>1, <2>1, <2>2, <2>3, Zenon
<1>5. QED
  <2>1. ASSUME NEW v \in TreeWorker, SendTree(v) PROVE v = w \/ (dir'[w] = dir[w] /\ todo'[w] = todo[w])
    BY <2>1, Zenon DEF SendTree, Types, TypeOK
  <2>2. ASSUME NEW v \in TreeWorker, TreeStep(v)
        PROVE  (v = w /\ (TakeNode(v) \/ TakeError(v))) \/ (dir'[w] = dir[w] /\ todo'[w] = todo[w])
    BY <2>2, ZenonT(40) DEF TreeStep, TakeNode, TakeError, TreeFails, TreeBuilt, DropTreeBlob, TreeSaved, TreeWorkerStops, SendTreeBlob, Types, TypeOK
  <2>3. QED BY <1>2, <1>3, <1>4, <2>1, <2>2, StepParts, Zenon

LEMMA BelowStep ==
  ASSUME Types, TreesOK, WalkOK, Known, Taken, BelowSettled, Next, \A i \in Item : FutureMoves(i)
  PROVE  BelowSettled'
<1> SUFFICES ASSUME ~cancelled', NEW i \in Item, NEW d \in Path(i) \ {i}, future'[d] = "node"
             PROVE  Settled(i)'
  BY Zenon DEF BelowSettled
<1>1. ~cancelled /\ d \in Dir /\ d \in Item /\ d \notin File /\ After(i) < After(d) /\ FutureMoves(i) /\ FutureMoves(d)
  BY GroupParts, PathFacts, ItemFacts
<1>2. CASE future[d] = "node"
  <2>1. Settled(i)
    BY <1>1, <1>2, Zenon DEF BelowSettled
  <2>2. ~Sent(i)
    <3>1. After(d) <= pos /\ After(d) \in Nat /\ pos \in Nat /\ After(i) \in Nat
      BY <1>1, <1>2, Passed, LastCall, Zenon
    <3>2. Sent(i) => After(i) = pos + 1
      BY CallFacts, Zenon DEF Sent
    <3>3. QED BY <1>1, <3>1, <3>2
  <2>3. QED BY <1>1, <2>1, <2>2, Zenon DEF FutureMoves, Settled
<1>3. ASSUME NEW w \in TreeWorker, TreeSaved(w), dir[w] = d PROVE Settled(i)'
  <2>1. future[d] = "pending" /\ todo[w] = <<>> /\ d # None
    BY <1>1, <1>3, ItemFacts, Zenon DEF TreesOK, BuilderInv, TreeSaved
  <2>2. future'[i] = future[i]
    BY <1>3, Zenon DEF TreeSaved, Types, TypeOK
  <2>3. ASSUME future[i] # "none" PROVE Settled(i)
    <3>1. PICK c \in Path(i) \ {Root} : Parent[c] = d
      BY PathFacts, Zenon
    <3>2. c \in Item /\ After(c) < After(d) /\ After(c) \in Nat
      BY <3>1, PathFacts, LastCall, Zenon
    <3>3. After(d) <= pos /\ After(d) \in Nat /\ pos \in Nat
      BY <1>1, <2>1, Passed, Zenon
    <3>4. future[c] # "none"
      BY <2>3, <3>1, <3>2, <3>3 DEF Known
    <3>5. c \in RangeOf(nodes[d])
      BY <3>1, <3>2, <3>4, Zenon DEF Known
    <3>6. future[c] \in {"node", "error"}
      BY <1>1, <1>3, <2>1, <3>5, NothingLeft, Zenon DEF Taken
    <3>7. CASE c = i
      BY <3>6, <3>7, Zenon DEF Settled
    <3>8. CASE c # i
      <4>1. c \in Dir
        BY <3>1, <3>8, PathFacts, Zenon
      <4>2. future[c] = "node"
        BY <3>6, <4>1, Zenon DEF Known
      <4>3. QED BY <1>1, <3>1, <3>8, <4>2, Zenon DEF BelowSettled
    <3>9. QED BY <3>7, <3>8, Zenon
  <2>4. QED BY <2>2, <2>3, Zenon DEF Settled
<1>4. future[d] = "node" \/ \E w \in TreeWorker : TreeSaved(w) /\ dir[w] = d
  BY <1>1, WalkAssumption, Zenon DEF FutureMoves, Sent
<1>5. QED BY <1>2, <1>3, <1>4, Zenon

LEMMA QuietStep ==
  ASSUME Types, FilesOK, TreesOK, EndOK, BelowSettled, Quiet, Next
  PROVE  Quiet'
<1>1. CASE StopWorkers
  <2>1. UNCHANGED <<file, dir>> /\ ~cancelled /\ future[Root] = "node"
    BY <1>1, Zenon DEF StopWorkers, treeVars
  <2>2. ASSUME NEW i \in Item, i # Root PROVE future[i] # "pending"
    <3>1. Root \in Path(i) \ {i}
      BY <2>2, PathFacts, Zenon
    <3>2. QED BY <2>1, <3>1, Zenon DEF BelowSettled, Settled
  <2>3. ASSUME NEW w \in FileWorker PROVE file[w] = None
    BY <2>2, FileOfReader, ItemFacts, Zenon
  <2>4. ASSUME NEW w \in TreeWorker PROVE dir[w] = None
    BY <2>1, <2>2, ItemFacts, SMTT(30) DEF TreesOK, BuilderInv, Types, TypeOK
  <2>5. QED BY <2>1, <2>3, <2>4, Zenon DEF Quiet
<1>2. CASE ~StopWorkers /\ stopped'
  <2>1. stopped /\ main = "nil"
    BY <1>2, GroupParts, ZenonT(30), Zenon DEF EndOK
  <2>2. (\A w \in FileWorker : file[w] = None) /\ \A w \in TreeWorker : dir[w] = None
    BY <2>1, Zenon DEF Quiet
  <2>3. (\A w \in FileWorker : ~SendFile(w)) /\ (\A w \in TreeWorker : ~SendTree(w)) /\ ~WalkStep
    BY <1>2, <2>1, ZenonT(30), Zenon DEF SendFile, SendTree, WalkStep, OpenDir, LeaveOut, WalkFails, SaveUnchanged, SendNothing, NoSnapshot, Call
  <2>4. ASSUME NEW w \in TreeWorker PROVE dir'[w] = None
    <3>1. UNCHANGED dir \/ \E v \in TreeWorker : dir' = [dir EXCEPT ![v] = None]
      BY <2>3, StepParts, Zenon DEF TreeStep, TakeNode, TakeError, TreeFails, TreeBuilt, DropTreeBlob, TreeSaved, TreeWorkerStops, SendTreeBlob
    <3>2. QED BY <2>2, <3>1, Zenon DEF Types, TypeOK
  <2>5. ASSUME NEW w \in FileWorker PROVE file'[w] = None
    <3>1. UNCHANGED file \/ \E v \in FileWorker : file' = [file EXCEPT ![v] = None]
      BY <2>3, ZenonT(60), Zenon DEF Next, Step, FileStep, BlobStep, TreeStep, EndStep, ReadChunk, ReadFails, DropChunk, CompleteError, EndOfFile,
            FinishReading, FileWorkerStops, SendChunk, SaveBlob, SaveBlobFails, FillContent, ChunkSaved, TreeBlobSaved,
            BlobWorkerStops, TakeNode, TakeError, TreeFails, TreeBuilt, DropTreeBlob, TreeSaved, TreeWorkerStops,
            SendTreeBlob, GroupEnds, Flush, SaveSnapshot, Cancel
    <3>2. QED BY <2>2, <3>1, ZenonT(30), Zenon DEF Types, TypeOK
  <2>6. QED BY <2>4, <2>5, Zenon DEF Quiet
<1>3. QED BY <1>1, <1>2, Zenon DEF Quiet

-----------------------------------------------------------------------------
(* The theorems *)

LEMMA InitArchInv == Init => ArchInv
<1> SUFFICES ASSUME Init PROVE ArchInv
  BY Zenon
<1>1. \A b \in BlobWorker : ~(saver[b] \in Busy)
  BY Zenon DEF Init, Busy
<1>2. Types
  <2>1. 1 \in 1 .. Len(Walk) + 1 /\ <<>> \in Seq(Item)
    BY WalkTypes
  <2>2. /\ pos \in 1 .. Len(Walk) + 1 /\ main = "walk" /\ nodes \in [Dir -> Seq(Item)] /\ leftOut = {}
        /\ future \in [Item -> {"none", "pending", "node", "error", "closed"}]
        /\ reader \in [FileWorker -> {"idle", "read", "send", "finish", "done"}]
        /\ file \in [FileWorker -> File \cup {None}]
    BY <2>1, ZenonT(40) DEF Init
  <2>3. /\ idx \in [File -> Nat] /\ content \in [File -> SUBSET Nat]
        /\ remaining \in [File -> Int] /\ finished \in [File -> 0 .. 1] /\ broken = {}
        /\ \A f \in File : idx[f] \in 0 .. Chunks[f] /\ content[f] \subseteq 1 .. idx[f]
    BY ItemFacts DEF Init
  <2>4. /\ saver \in [BlobWorker -> {"idle", "save", "fill", "complete", "done"}]
        /\ blob \in [BlobWorker -> (Item \X Nat) \cup {None}] /\ \A b \in BlobWorker : blob[b] = None
    BY Zenon DEF Init
  <2>5. /\ builder \in [TreeWorker -> {"idle", "take", "send", "wait", "done"}]
        /\ dir \in [TreeWorker -> Dir \cup {None}] /\ todo \in [TreeWorker -> Seq(Item)]
        /\ entries \in [Dir -> SUBSET Item] /\ answered = {}
    BY <2>1, Zenon DEF Init
  <2>6. stopped = FALSE /\ cancelled = FALSE /\ failed = FALSE /\ panic = FALSE /\ result = "none"
    BY Zenon DEF Init
  <2>7. QED BY <2>2, <2>3, <2>4, <2>5, <2>6, ZenonT(30), Zenon DEF Types, TypeOK
<1>3. FilesOK
  <2>1. ASSUME NEW f \in File PROVE FileInv(f)
    <3>1. Open(f) = {} /\ Reading(f) /\ ~Finishing(f) /\ f \in Item
      BY <1>1, ItemFacts DEF Init, Open, Reading, Finishing, Has
    <3>2. Counts(0, {})
      <4> DEFINE g == [i \in 1 .. 0 |-> i]
      <4>1. g \in [1 .. 0 -> {}] /\ \A i \in 1 .. 0 : FALSE
        OBVIOUS
      <4> HIDE DEF g
      <4>2. QED BY <4>1, ZenonT(30), Zenon DEF Counts
    <3>3. Offset(f) = 0 /\ remaining[f] = 0 /\ finished[f] = 0 /\ future[f] = "none" /\ f \notin broken
      <4>1. idx[f] = 0 /\ remaining[f] = 0 /\ finished[f] = 0 /\ future[f] = "none" /\ f \notin broken
        BY <3>1, Zenon DEF Init
      <4>2. QED BY <3>1, <4>1 DEF Offset
    <3>4. Counted(f)
      BY <3>1, <3>2, <3>3 DEF Counted
    <3>5. QED BY <3>1, <3>3, <3>4 DEF FileInv
  <2>2. \A w \in FileWorker : ReaderInv(w)
    BY Zenon DEF ReaderInv, Init
  <2>3. \A b \in BlobWorker : SaverInv(b)
    BY <1>1, Zenon DEF SaverInv
  <2>4. QED BY <2>1, <2>2, <2>3, Zenon DEF FilesOK, Init
<1>4. Accepts
  BY ItemFacts, WalkAssumption, Zenon DEF Accepts, Init
<1>5. TreesOK
  BY Zenon DEF TreesOK, BuilderInv, Init
<1>6. WalkOK
  <2>1. \A i \in Item : After(i) > 1 /\ After(i) \in Nat
    BY LastCall, WalkTypes
  <2>2. QED BY <2>1, WalkTypes DEF WalkOK, Init
<1>7. EndOK
  BY ItemFacts, Zenon DEF EndOK, Init
<1>8. CompleteOK
  BY ItemFacts, Zenon DEF CompleteOK, Init
<1>9. QED BY <1>2, <1>3, <1>4, <1>5, <1>6, <1>7, <1>8, Zenon DEF ArchInv

LEMMA StutterArch == ASSUME UNCHANGED vars PROVE (ArchInv => ArchInv') /\ (Waits => Waits')
<1>1. /\ UNCHANGED <<pos, main, nodes, future, reader, file, idx, content, remaining, finished, broken, saver, blob>>
      /\ UNCHANGED <<builder, dir, todo, entries, answered, leftOut, stopped, cancelled, failed, panic, accepted, durable, result>>
  BY Zenon DEF vars, walkVars, fileVars, treeVars, groupVars, endVars
<1>2. Types /\ FilesOK => Types' /\ FilesOK'
  <2>1. UNCHANGED <<walkVars, treeVars, groupVars, fileVars>>
    BY <1>1, Zenon DEF walkVars, treeVars, groupVars, fileVars
  <2>2. Types => Types'
    BY <1>1, <2>1, TypesParts, SameTypes, TypesJoin, Zenon
  <2>3. Types /\ FilesOK => FilesOK'
    BY <1>1, <2>1, UntouchedFiles, Zenon
  <2>4. QED BY <2>2, <2>3, Zenon
<1>3. (Accepts => Accepts') /\ (TreesOK => TreesOK') /\ (WalkOK => WalkOK') /\ (EndOK => EndOK') /\ (CompleteOK => CompleteOK')
  BY <1>1, ZenonT(40) DEF Accepts, TreesOK, BuilderInv, WalkOK, EndOK, CompleteOK, AllIn, InSnapshot
<1>4. Waits => Waits'
  BY <1>1, Zenon DEF Waits, Known, Taken, BelowSettled, Settled, Quiet
<1>5. QED BY <1>2, <1>3, <1>4, Zenon DEF ArchInv

LEMMA NextArchInv == ASSUME ArchInv, Next PROVE ArchInv' /\ \A i \in Item : FutureMoves(i)
<1>1. Types /\ FilesOK /\ Accepts /\ TreesOK /\ WalkOK /\ EndOK /\ CompleteOK
  BY Zenon DEF ArchInv
<1>2. FilesOK' /\ Types'
  BY <1>1, FilesStep, TypesStep, Zenon
<1>3. \A i \in Item : FutureMoves(i)
  BY <1>1, FutureStep, Zenon
<1>4. Accepts' /\ TreesOK' /\ WalkOK' /\ EndOK'
  BY <1>1, <1>3, AcceptsStep, TreesStep, WalkedStep, EndsStep, Zenon
<1>5. CompleteOK'
  BY <1>1, <1>3, <1>4, CompleteStep, Zenon
<1>6. QED BY <1>2, <1>3, <1>4, <1>5, Zenon DEF ArchInv

LEMMA ArchInvSafe == ArchInv => SnapshotSafe
<1> SUFFICES ASSUME ArchInv PROVE SnapshotSafe
  BY Zenon
<1>1. Types /\ FilesOK /\ Accepts /\ TreesOK /\ EndOK /\ CompleteOK
  BY Zenon DEF ArchInv
<1>2. TypeOK
  BY <1>1, Zenon DEF Types
<1>3. TreesLast
  <2>1. ASSUME NEW d \in Dir, NEW i \in entries[d] PROVE BlobsOf(i) \subseteq accepted
    <3>1. i \in Item /\ future[i] = "node"
      BY <1>1, <2>1, Zenon DEF TreesOK, Types, TypeOK
    <3>2. QED BY <1>1, <3>1, NodeAccepted, Zenon
  <2>2. QED BY <2>1, Zenon DEF TreesLast
<1>4. SnapshotComplete
  <2>1. SUFFICES ASSUME result = "saved", NEW i \in Item
                 PROVE  /\ InSnapshot(i) => BlobsOf(i) \subseteq durable
                        /\ i # Root /\ InSnapshot(Parent[i]) => i \in leftOut \/ InSnapshot(i)
    BY Zenon DEF SnapshotComplete
  <2>2. main = "nil" /\ future[Root] = "node" /\ durable = accepted
    BY <1>1, <2>1, Zenon DEF EndOK
  <2>3. ASSUME InSnapshot(i) PROVE BlobsOf(i) \subseteq durable
    <3>1. future[i] = "node"
      <4>1. CASE i = Root
        BY <2>2, <4>1, Zenon
      <4>2. CASE i # Root
        <5>1. i \in entries[Parent[i]] /\ Parent[i] \in Dir
          BY <2>3, <4>2, PathFacts, ItemFacts, Zenon DEF InSnapshot
        <5>2. QED BY <1>1, <5>1, Zenon DEF TreesOK
      <4>3. QED BY <4>1, <4>2, Zenon
    <3>2. QED BY <1>1, <2>2, <3>1, NodeAccepted, Zenon
  <2>4. ASSUME i # Root, InSnapshot(Parent[i]) PROVE i \in leftOut \/ InSnapshot(i)
    <3>1. Parent[i] \in Dir /\ Path(i) = Path(Parent[i]) \cup {i}
      BY <2>4, PathFacts, ItemFacts, Zenon
    <3>2. AllIn(Parent[i])
      BY <1>1, <2>2, <2>4, <3>1, Zenon DEF CompleteOK
    <3>3. i \in leftOut \/ i \in entries[Parent[i]]
      BY <2>4, <3>2, Zenon DEF AllIn, ChildrenOf
    <3>4. QED BY <2>4, <3>1, <3>3, Zenon DEF InSnapshot
  <2>5. QED BY <2>3, <2>4, Zenon
<1>5. QED BY <1>2, <1>3, <1>4, Zenon DEF SnapshotSafe

\* A snapshot that Snapshot saves has every item that was selected and not reported, all blobs it
\* refers to are in the repository, and every tree was accepted after what is in it: whatever
\* fails, and in whatever order the workers of FileSaver, BlobSaver and TreeSaver finish.
THEOREM SnapshotIsSafe == Spec => []SnapshotSafe
<1>1. ArchInv /\ [Next]_vars => ArchInv'
  BY NextArchInv, StutterArch, Zenon
<1>2. QED BY <1>1, InitArchInv, ArchInvSafe, PTL DEF Spec

\* saveFile never panics, and when stopWorkers closes the channels nobody is left who would send on
\* them, if a callback that ignores the error of a directory ignores the errors in it as well.
THEOREM NoPanics == ASSUME ErrorsPassedUp PROVE Spec => []NoPanic
<1>1. Init => ArchInv /\ Waits
  <2>1. Init => Waits
    <3> SUFFICES ASSUME Init PROVE Waits
      BY Zenon
    <3>2. (\A i \in Item : future[i] = "none") /\ (\A w \in TreeWorker : dir[w] = None)
      BY Zenon DEF Init
    <3>3. Known /\ BelowSettled
      BY <3>2, ItemFacts, PathFacts, Zenon DEF Known, BelowSettled, Settled
    <3>4. ~stopped
      BY Zenon DEF Init
    <3>5. QED BY <3>2, <3>3, <3>4, Zenon DEF Waits, Taken, Quiet
  <2>2. QED BY <2>1, InitArchInv, Zenon
<1>2. ArchInv /\ Waits /\ [Next]_vars => ArchInv' /\ Waits'
  <2>1. ASSUME ArchInv, Waits, Next PROVE Waits'
    <3>1. Types /\ FilesOK /\ TreesOK /\ WalkOK /\ EndOK /\ Known /\ Taken /\ BelowSettled /\ Quiet
      BY <2>1, Zenon DEF ArchInv, Waits
    <3>2. \A i \in Item : FutureMoves(i)
      BY <2>1, NextArchInv, Zenon
    <3>3. Known' /\ Taken' /\ BelowSettled' /\ Quiet'
      BY <2>1, <3>1, <3>2, KnownStep, TakenStep, BelowStep, QuietStep, Zenon
    <3>4. QED BY <3>3, Zenon DEF Waits
  <2>2. QED BY <2>1, NextArchInv, StutterArch, Zenon
<1>3. ArchInv /\ Waits => NoPanic
  <2>1. SUFFICES ASSUME ArchInv, Waits PROVE NoPanic
    BY Zenon
  <2>2. FilesOK /\ TreesOK /\ Quiet
    BY <2>1, Zenon DEF ArchInv, Waits
  <2>3. QED BY <2>2, Zenon DEF NoPanic, FilesOK, ReaderInv, TreesOK, BuilderInv, Quiet
<1>4. QED BY <1>1, <1>2, <1>3, PTL DEF Spec
=============================================================================
