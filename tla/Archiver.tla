------------------------------- MODULE Archiver -------------------------------
(***************************************************************************)
(* Making a snapshot: internal/archiver.  One goroutine walks the targets  *)
(* and hands files to FileSaver and directories to TreeSaver; both give    *)
(* blobs to BlobSaver.  A directory's job has a future for each of its     *)
(* entries.  All channels between the pools are unbuffered and all workers *)
(* belong to one errgroup, whose context the first error cancels.          *)
(*                                                                         *)
(* The walk is a sequence of calls: "open" and "save" enclose the entries  *)
(* of a directory, "file" is everything else that is not excluded.  A      *)
(* blob is <<f, n>>, the n-th chunk of file f, or <<d, 0>>, the tree of    *)
(* directory d.  SaveBlob and Flush are used as module PackUpload          *)
(* describes them: what SaveBlob has accepted is stored when Flush has     *)
(* returned nil.                                                           *)
(***************************************************************************)
EXTENDS Integers, Sequences, FiniteSets

CONSTANTS
  Walk,            \* the calls of SaveTree, SaveDir and Save, in their order
  Parent,          \* the directory of each item but the root
  Root,            \* the directory of the targets
  Chunks,          \* the number of chunks of each file
  Unchanged,       \* the files that are as in the parent snapshot
  Ignored,         \* the items whose errors the Error callback ignores
  FileWorker,
  BlobWorker,
  TreeWorker,
  Faults,          \* "read" (the source), "save" (SaveBlob), "flush" (and the snapshot file), "cancel"
  None

Calls == 1 .. Len(Walk)
File == {Walk[k].item : k \in {j \in Calls : Walk[j].op = "file"}}
Dir == {Walk[k].item : k \in {j \in Calls : Walk[j].op = "save"}}
Item == File \cup Dir

BlobsOf(i) == IF i \in Dir THEN {<<i, 0>>} ELSE {<<i, n>> : n \in 1 .. Chunks[i]}

ASSUME WalkAssumption ==
  /\ Root \in Dir /\ None \notin Item
  /\ File \cap Dir = {}
  /\ Parent \in [Item \ {Root} -> Dir]
  /\ Chunks \in [File -> Nat]
  /\ Unchanged \subseteq File
  /\ Ignored \subseteq Item
  /\ Faults \subseteq {"read", "save", "flush", "cancel"}

VARIABLES
  pos,             \* the next call of the walk
  main,            \* what the walking goroutine is doing, or what it has returned
  nodes,           \* the futures of each directory's entries
  future,          \* the state of each item's future
  reader, file,    \* what each worker of FileSaver is doing, and for which file
  idx,             \* how many chunks of each file have been read
  content,         \* which of them have their ID in node.Content
  remaining,       \* the counter in saveFile
  finished,        \* how often finish was called for each file
  broken,          \* the files whose fnr.err is set
  saver, blob,     \* what each worker of BlobSaver is doing, and with which blob
  builder, dir,    \* what each worker of TreeSaver is doing, and for which directory
  todo,            \* the futures it has not taken yet
  entries,         \* the nodes in the tree of each directory
  answered,        \* the directories whose tree blob has its ID
  leftOut,         \* the items of which the callback was told, and whose errors it ignored
  stopped,         \* whether stopWorkers was called
  cancelled,       \* whether wgCtx is cancelled
  failed,          \* whether some goroutine of the group has returned an error
  panic,           \* whether saveFile has panicked
  accepted,        \* the blobs for which SaveBlob has returned nil
  durable,         \* the blobs that are stored and in a stored index
  result           \* how far Snapshot is after the group has ended

walkVars == <<pos, main, nodes>>
fileVars == <<idx, content, remaining, finished, broken>>
treeVars == <<builder, dir, todo, entries, answered>>
groupVars == <<stopped, cancelled, failed>>
endVars == <<durable, result>>
vars == <<walkVars, future, reader, file, fileVars, saver, blob, treeVars, leftOut,
          groupVars, panic, accepted, endVars>>

TypeOK ==
  /\ pos \in 1 .. Len(Walk) + 1
  /\ main \in {"walk", "take", "nil", "error"}
  /\ nodes \in [Dir -> Seq(Item)]
  /\ future \in [Item -> {"none", "pending", "node", "error", "closed"}]
  /\ reader \in [FileWorker -> {"idle", "read", "send", "finish", "done"}]
  /\ file \in [FileWorker -> File \cup {None}]
  /\ \A f \in File : idx[f] \in 0 .. Chunks[f] /\ content[f] \subseteq 1 .. idx[f]
  /\ remaining \in [File -> Int]
  /\ finished \in [File -> 0 .. 1]
  /\ broken \subseteq File
  /\ saver \in [BlobWorker -> {"idle", "save", "fill", "complete", "done"}]
  /\ \A b \in BlobWorker : blob[b] # None => blob[b] \in BlobsOf(blob[b][1])
  /\ builder \in [TreeWorker -> {"idle", "take", "send", "wait", "done"}]
  /\ dir \in [TreeWorker -> Dir \cup {None}]
  /\ todo \in [TreeWorker -> Seq(Item)]
  /\ entries \in [Dir -> SUBSET Item]
  /\ answered \subseteq Dir
  /\ leftOut \subseteq Item
  /\ stopped \in BOOLEAN /\ cancelled \in BOOLEAN /\ failed \in BOOLEAN /\ panic \in BOOLEAN
  /\ result \in {"none", "flush", "snapshot", "saved", "error", "hangs"}

\* The blobs of unchanged files are in the repository.
Init ==
  /\ pos = 1
  /\ main = "walk"
  /\ nodes = [d \in Dir |-> <<>>]
  /\ future = [i \in Item |-> "none"]
  /\ reader = [w \in FileWorker |-> "idle"]
  /\ file = [w \in FileWorker |-> None]
  /\ idx = [f \in File |-> 0]
  /\ content = [f \in File |-> {}]
  /\ remaining = [f \in File |-> 0]
  /\ finished = [f \in File |-> 0]
  /\ broken = {}
  /\ saver = [b \in BlobWorker |-> "idle"]
  /\ blob = [b \in BlobWorker |-> None]
  /\ builder = [w \in TreeWorker |-> "idle"]
  /\ dir = [w \in TreeWorker |-> None]
  /\ todo = [w \in TreeWorker |-> <<>>]
  /\ entries = [d \in Dir |-> {}]
  /\ answered = {}
  /\ leftOut = {}
  /\ stopped = FALSE
  /\ cancelled = FALSE
  /\ failed = FALSE
  /\ panic = FALSE
  /\ accepted = UNION {BlobsOf(f) : f \in Unchanged}
  /\ durable = accepted
  /\ result = "none"

\* A goroutine of the group returns an error.
GroupFails == failed' = TRUE /\ cancelled' = TRUE /\ UNCHANGED stopped

-----------------------------------------------------------------------------
(* The walk: SaveTree, SaveDir and Save *)

Call(op) == main = "walk" /\ pos \in Calls /\ Walk[pos].op = op
Current == Walk[pos].item

\* The call after the last one for item i.
After(i) == 1 + CHOOSE k \in Calls : Walk[k].item = i /\ Walk[k].op # "open"

\* The directories that are open at call k, and the item of call k.
Chain(k) == {Walk[k].item} \cup {d \in Dir : After(d) > k /\ \E j \in 1 .. k - 1 : Walk[j] = [op |-> "open", item |-> d]}

\* The directories that are above item i, and i.
Path(i) == Chain(After(i) - 1)

\* The walk is depth-first: the calls for the entries of a directory are between its own.
ASSUME WalkNested ==
  /\ Walk \in Seq([op : {"open", "file", "save"}, item : Item])
  /\ \A j, k \in Calls : Walk[j].item = Walk[k].item /\ (Walk[j].op = "open" <=> Walk[k].op = "open") => j = k
  /\ \A k \in Calls : Chain(k) = Path(Walk[k].item) /\ k < After(Walk[k].item)
  /\ \A i \in Item \ {Root} : Path(i) = Path(Parent[i]) \cup {i} /\ After(i) < After(Parent[i])
  /\ \A i \in Item : Root \in Path(i)
  /\ \A i \in Item : \A a \in Path(i) : Path(a) \subseteq Path(i)
  /\ \A i \in Item : \A a \in Path(i) \ {i} : \E c \in Path(i) \ {Root} : Parent[c] = a
  /\ \A k \in Calls, i \in Item : \A a \in Chain(k) : k < After(i) /\ After(i) <= After(a) => a \in Path(i)

\* The items at which the callback stops an error of the current call on its way up.
Stops == (Ignored \cap Chain(pos)) \ {Root}

\* Item i has a future, in its directory's list, that is in state s.
AddNode(i, s) ==
  /\ future' = [future EXCEPT ![i] = s]
  /\ nodes' = IF i = Root THEN nodes ELSE [nodes EXCEPT ![Parent[i]] = Append(@, i)]

\* A directory is read, and its tree in the parent snapshot loaded.
OpenDir ==
  /\ Call("open")
  /\ pos' = pos + 1
  /\ UNCHANGED <<main, nodes, future, reader, file, fileVars, saver, blob, treeVars, leftOut, groupVars, panic, accepted, endVars>>

\* The item has an error that is ignored: by the callback for the item itself, or for a
\* directory it is in, with all the rest of that directory.
LeaveOut ==
  /\ "read" \in Faults
  /\ Call("open") \/ Call("file")
  /\ Current # Root
  /\ \E a \in Stops :
       /\ \A b \in Stops : After(a) <= After(b)
       /\ pos' = After(a)
       /\ leftOut' = leftOut \cup {i \in Chain(pos) : After(i) <= After(a)}
  /\ UNCHANGED <<main, nodes, future, reader, file, fileVars, saver, blob, treeVars, groupVars, panic, accepted, endVars>>

\* SaveTree returns an error that nobody ignores, or finds the context cancelled.
WalkFails ==
  /\ Call("open") \/ Call("file")
  /\ Current # Root
  /\ cancelled \/ ("read" \in Faults /\ Stops = {})
  /\ main' = "error"
  /\ GroupFails
  /\ UNCHANGED <<pos, nodes, future, reader, file, fileVars, saver, blob, treeVars, leftOut, panic, accepted, endVars>>

\* The file is not read again: its node has the blobs of the old one.
SaveUnchanged ==
  /\ Call("file")
  /\ Current \in Unchanged
  /\ AddNode(Current, "node")
  /\ pos' = pos + 1
  /\ UNCHANGED <<main, reader, file, fileVars, saver, blob, treeVars, leftOut, groupVars, panic, accepted, endVars>>

\* FileSaver.Save: an idle worker gets the file.
SendFile(w) ==
  /\ Call("file")
  /\ Current \notin Unchanged
  /\ reader[w] = "idle"
  /\ AddNode(Current, "pending")
  /\ reader' = [reader EXCEPT ![w] = "read"]
  /\ file' = [file EXCEPT ![w] = Current]
  /\ pos' = pos + 1
  /\ UNCHANGED <<main, fileVars, saver, blob, treeVars, leftOut, groupVars, panic, accepted, endVars>>

\* TreeSaver.Save: an idle worker gets the directory and the futures of its entries.
SendTree(w) ==
  /\ Call("save")
  /\ builder[w] = "idle"
  /\ AddNode(Current, "pending")
  /\ builder' = [builder EXCEPT ![w] = "take"]
  /\ dir' = [dir EXCEPT ![w] = Current]
  /\ todo' = [todo EXCEPT ![w] = nodes[Current]]
  /\ pos' = pos + 1
  /\ main' = IF Current = Root THEN "take" ELSE main
  /\ UNCHANGED <<reader, file, fileVars, saver, blob, entries, answered, leftOut, groupVars, panic, accepted, endVars>>

\* FileSaver.Save and TreeSaver.Save when the context is cancelled.
SendNothing ==
  /\ cancelled
  /\ Call("save") \/ (Call("file") /\ Current \notin Unchanged)
  /\ AddNode(Current, "closed")
  /\ pos' = pos + 1
  /\ main' = IF Current = Root THEN "take" ELSE main
  /\ UNCHANGED <<reader, file, fileVars, saver, blob, treeVars, leftOut, groupVars, panic, accepted, endVars>>

\* Mutant of StopWorkers: the result of the root is not waited for.
StopWorkersEarly ==
  /\ main = "take"
  /\ ~cancelled
  /\ nodes[Root] # <<>>
  /\ main' = "nil"
  /\ stopped' = TRUE
  /\ UNCHANGED <<pos, nodes, future, reader, file, fileVars, saver, blob, treeVars, leftOut, cancelled, failed, panic, accepted, endVars>>

\* The result of the root is taken and the workers are told to stop.
StopWorkers ==
  /\ main = "take"
  /\ future[Root] = "node"
  /\ ~cancelled
  /\ nodes[Root] # <<>>
  /\ main' = "nil"
  /\ stopped' = TRUE
  /\ UNCHANGED <<pos, nodes, future, reader, file, fileVars, saver, blob, treeVars, leftOut, cancelled, failed, panic, accepted, endVars>>

\* There is no result, or the snapshot is empty.
NoSnapshot ==
  /\ main = "take"
  /\ \/ cancelled
     \/ future[Root] = "closed"
     \/ future[Root] = "node" /\ nodes[Root] = <<>>
  /\ main' = "error"
  /\ GroupFails
  /\ UNCHANGED <<pos, nodes, future, reader, file, fileVars, saver, blob, treeVars, leftOut, panic, accepted, endVars>>

-----------------------------------------------------------------------------
(* FileSaver *)

\* completeBlob: the last one to call it finishes the file.
CompleteBlob(f) ==
  /\ remaining' = [remaining EXCEPT ![f] = @ - 1]
  /\ \/ /\ remaining[f] = 1 /\ f \notin broken
        /\ panic' = (panic \/ finished[f] > 0 \/ content[f] # 1 .. idx[f])
        /\ finished' = [finished EXCEPT ![f] = @ + 1]
        /\ future' = [future EXCEPT ![f] = "node"]
     \/ /\ remaining[f] # 1 \/ f \in broken
        /\ UNCHANGED <<panic, finished, future>>
  /\ UNCHANGED <<idx, content, broken>>

\* completeError; the worker takes the next file.
CompleteError(w) ==
  /\ panic' = (panic \/ finished[file[w]] > 0)
  /\ finished' = [finished EXCEPT ![file[w]] = @ + 1]
  /\ broken' = broken \cup {file[w]}
  /\ future' = [future EXCEPT ![file[w]] = "error"]
  /\ reader' = [reader EXCEPT ![w] = "idle"]
  /\ file' = [file EXCEPT ![w] = None]
  /\ UNCHANGED <<walkVars, idx, content, remaining, saver, blob, treeVars, leftOut, groupVars, accepted, endVars>>

\* A chunk is read, and is to be saved.
ReadChunk(w) ==
  /\ reader[w] = "read"
  /\ idx[file[w]] < Chunks[file[w]]
  /\ ~cancelled
  /\ idx' = [idx EXCEPT ![file[w]] = @ + 1]
  /\ reader' = [reader EXCEPT ![w] = "send"]
  /\ UNCHANGED <<walkVars, future, file, content, remaining, finished, broken, saver, blob, treeVars, leftOut, groupVars, panic, accepted, endVars>>

\* The file cannot be read or closed, or the context is found cancelled.
ReadFails(w) ==
  /\ reader[w] = "read"
  /\ "read" \in Faults \/ (cancelled /\ Chunks[file[w]] > 0)
  /\ CompleteError(w)

\* BlobSaver.Save: an idle worker gets the chunk.
SendChunk(w, b) ==
  /\ reader[w] = "send"
  /\ saver[b] = "idle"
  /\ ~stopped
  /\ saver' = [saver EXCEPT ![b] = "save"]
  /\ blob' = [blob EXCEPT ![b] = <<file[w], idx[file[w]]>>]
  /\ reader' = [reader EXCEPT ![w] = "read"]
  /\ UNCHANGED <<walkVars, future, file, fileVars, treeVars, leftOut, groupVars, panic, accepted, endVars>>

\* BlobSaver.Save when the context is cancelled; saveFile looks at the context next.
DropChunk(w) ==
  /\ reader[w] = "send"
  /\ cancelled
  /\ CompleteError(w)

\* The end of the file: now the callbacks may finish it.
EndOfFile(w) ==
  /\ reader[w] = "read"
  /\ idx[file[w]] = Chunks[file[w]]
  /\ remaining' = [remaining EXCEPT ![file[w]] = @ + idx[file[w]] + 1]
  /\ reader' = [reader EXCEPT ![w] = "finish"]
  /\ UNCHANGED <<walkVars, future, file, idx, content, finished, broken, saver, blob, treeVars, leftOut, groupVars, panic, accepted, endVars>>

\* The last call of completeBlob in saveFile.
FinishReading(w) ==
  /\ reader[w] = "finish"
  /\ CompleteBlob(file[w])
  /\ reader' = [reader EXCEPT ![w] = "idle"]
  /\ file' = [file EXCEPT ![w] = None]
  /\ UNCHANGED <<walkVars, saver, blob, treeVars, leftOut, groupVars, accepted, endVars>>

FileWorkerStops(w) ==
  /\ reader[w] = "idle"
  /\ cancelled \/ stopped
  /\ reader' = [reader EXCEPT ![w] = "done"]
  /\ UNCHANGED <<walkVars, future, file, fileVars, saver, blob, treeVars, leftOut, groupVars, panic, accepted, endVars>>

-----------------------------------------------------------------------------
(* BlobSaver *)

\* SaveBlob returns nil.
SaveBlob(b) ==
  /\ saver[b] = "save"
  /\ accepted' = accepted \cup {blob[b]}
  /\ saver' = [saver EXCEPT ![b] = "fill"]
  /\ UNCHANGED <<walkVars, future, reader, file, fileVars, blob, treeVars, leftOut, groupVars, panic, endVars>>

\* SaveBlob returns an error, and so does the worker.  The callback is not called.
SaveBlobFails(b) ==
  /\ saver[b] = "save"
  /\ "save" \in Faults \/ cancelled
  /\ saver' = [saver EXCEPT ![b] = "done"]
  /\ blob' = [blob EXCEPT ![b] = None]
  /\ GroupFails
  /\ UNCHANGED <<walkVars, future, reader, file, fileVars, treeVars, leftOut, panic, accepted, endVars>>

\* The callback of a chunk stores its ID in the node.
FillContent(b) ==
  /\ saver[b] = "fill"
  /\ blob[b][1] \in File
  /\ content' = [content EXCEPT ![blob[b][1]] = @ \cup {blob[b][2]}]
  /\ saver' = [saver EXCEPT ![b] = "complete"]
  /\ UNCHANGED <<walkVars, future, reader, file, idx, remaining, finished, broken, blob, treeVars, leftOut, groupVars, panic, accepted, endVars>>

\* The callback of a chunk calls completeBlob.
ChunkSaved(b) ==
  /\ saver[b] = "complete"
  /\ CompleteBlob(blob[b][1])
  /\ saver' = [saver EXCEPT ![b] = "idle"]
  /\ blob' = [blob EXCEPT ![b] = None]
  /\ UNCHANGED <<walkVars, reader, file, treeVars, leftOut, groupVars, accepted, endVars>>

\* The callback of a tree sends its ID to the worker that waits for it.
TreeBlobSaved(b) ==
  /\ saver[b] = "fill"
  /\ blob[b][1] \in Dir
  /\ answered' = answered \cup {blob[b][1]}
  /\ saver' = [saver EXCEPT ![b] = "idle"]
  /\ blob' = [blob EXCEPT ![b] = None]
  /\ UNCHANGED <<walkVars, future, reader, file, fileVars, builder, dir, todo, entries, leftOut, groupVars, panic, accepted, endVars>>

BlobWorkerStops(b) ==
  /\ saver[b] = "idle"
  /\ cancelled \/ stopped
  /\ saver' = [saver EXCEPT ![b] = "done"]
  /\ UNCHANGED <<walkVars, future, reader, file, fileVars, blob, treeVars, leftOut, groupVars, panic, accepted, endVars>>

-----------------------------------------------------------------------------
(* TreeSaver *)

\* The future of an entry has a node, which goes into the tree.
TakeNode(w) ==
  /\ builder[w] = "take"
  /\ todo[w] # <<>>
  /\ future[Head(todo[w])] = "node"
  /\ entries' = [entries EXCEPT ![dir[w]] = @ \cup {Head(todo[w])}]
  /\ todo' = [todo EXCEPT ![w] = Tail(@)]
  /\ UNCHANGED <<walkVars, future, reader, file, fileVars, saver, blob, builder, dir, answered, leftOut, groupVars, panic, accepted, endVars>>

\* take finds that there will be no result, and does not know the name of the entry.
NoResult(w) ==
  /\ builder[w] = "take"
  /\ todo[w] # <<>>
  /\ future[Head(todo[w])] = "closed" \/ (cancelled /\ Head(todo[w]) \notin Unchanged)

\* take returns the error of a file.
FileError(w) ==
  /\ builder[w] = "take"
  /\ todo[w] # <<>>
  /\ future[Head(todo[w])] = "error"

\* The callback ignores the error.
TakeError(w) ==
  /\ \/ NoResult(w) /\ UNCHANGED leftOut
     \/ FileError(w) /\ Head(todo[w]) \in Ignored /\ leftOut' = leftOut \cup {Head(todo[w])}
  /\ todo' = [todo EXCEPT ![w] = Tail(@)]
  /\ UNCHANGED <<walkVars, future, reader, file, fileVars, saver, blob, builder, dir, entries, answered, groupVars, panic, accepted, endVars>>

\* Mutant of TreeFails: a worker that waits for the ID of its tree ignores the context.
TreeFailsEarlier(w) ==
  /\ NoResult(w) \/ (FileError(w) /\ Head(todo[w]) \notin Ignored)
  /\ future' = [future EXCEPT ![dir[w]] = "closed"]
  /\ builder' = [builder EXCEPT ![w] = "done"]
  /\ dir' = [dir EXCEPT ![w] = None]
  /\ todo' = [todo EXCEPT ![w] = <<>>]
  /\ GroupFails
  /\ UNCHANGED <<walkVars, reader, file, fileVars, saver, blob, entries, answered, leftOut, panic, accepted, endVars>>

\* The worker closes the future of its directory and returns an error, because the callback
\* does not ignore that of an entry, or because the context is cancelled.
TreeFails(w) ==
  /\ \/ NoResult(w)
     \/ FileError(w) /\ Head(todo[w]) \notin Ignored
     \/ builder[w] = "wait" /\ cancelled
  /\ future' = [future EXCEPT ![dir[w]] = "closed"]
  /\ builder' = [builder EXCEPT ![w] = "done"]
  /\ dir' = [dir EXCEPT ![w] = None]
  /\ todo' = [todo EXCEPT ![w] = <<>>]
  /\ GroupFails
  /\ UNCHANGED <<walkVars, reader, file, fileVars, saver, blob, entries, answered, leftOut, panic, accepted, endVars>>

\* All futures are taken: the tree is to be saved.
TreeBuilt(w) ==
  /\ builder[w] = "take"
  /\ todo[w] = <<>>
  /\ builder' = [builder EXCEPT ![w] = "send"]
  /\ UNCHANGED <<walkVars, future, reader, file, fileVars, saver, blob, dir, todo, entries, answered, leftOut, groupVars, panic, accepted, endVars>>

\* BlobSaver.Save: an idle worker gets the tree.
SendTreeBlob(w, b) ==
  /\ builder[w] = "send"
  /\ saver[b] = "idle"
  /\ ~stopped
  /\ saver' = [saver EXCEPT ![b] = "save"]
  /\ blob' = [blob EXCEPT ![b] = <<dir[w], 0>>]
  /\ builder' = [builder EXCEPT ![w] = "wait"]
  /\ UNCHANGED <<walkVars, future, reader, file, fileVars, dir, todo, entries, answered, leftOut, groupVars, panic, accepted, endVars>>

\* BlobSaver.Save when the context is cancelled.
DropTreeBlob(w) ==
  /\ builder[w] = "send"
  /\ cancelled
  /\ builder' = [builder EXCEPT ![w] = "wait"]
  /\ UNCHANGED <<walkVars, future, reader, file, fileVars, saver, blob, dir, todo, entries, answered, leftOut, groupVars, panic, accepted, endVars>>

\* The ID of the tree has arrived: the future of the directory has its node.
TreeSaved(w) ==
  /\ builder[w] = "wait"
  /\ dir[w] \in answered
  /\ future' = [future EXCEPT ![dir[w]] = "node"]
  /\ builder' = [builder EXCEPT ![w] = "idle"]
  /\ dir' = [dir EXCEPT ![w] = None]
  /\ UNCHANGED <<walkVars, reader, file, fileVars, saver, blob, todo, entries, answered, leftOut, groupVars, panic, accepted, endVars>>

TreeWorkerStops(w) ==
  /\ builder[w] = "idle"
  /\ cancelled \/ stopped
  /\ builder' = [builder EXCEPT ![w] = "done"]
  /\ UNCHANGED <<walkVars, future, reader, file, fileVars, saver, blob, dir, todo, entries, answered, leftOut, groupVars, panic, accepted, endVars>>

-----------------------------------------------------------------------------
(* Snapshot *)

\* The user, or an upload that fails, cancels the context.
Cancel ==
  /\ "cancel" \in Faults
  /\ result = "none"
  /\ ~cancelled
  /\ cancelled' = TRUE
  /\ UNCHANGED <<walkVars, future, reader, file, fileVars, saver, blob, treeVars, leftOut, stopped, failed, panic, accepted, endVars>>

\* Mutant of GroupEnds: errors of the workers are ignored.
GroupEndsAnyway ==
  /\ result = "none"
  /\ main \in {"nil", "error"}
  /\ \A w \in FileWorker : reader[w] = "done"
  /\ \A b \in BlobWorker : saver[b] = "done"
  /\ \A w \in TreeWorker : builder[w] = "done"
  /\ result' = "flush"
  /\ UNCHANGED <<walkVars, future, reader, file, fileVars, saver, blob, treeVars, leftOut, groupVars, panic, accepted, durable>>

\* wg.Wait returns.
GroupEnds ==
  /\ result = "none"
  /\ main \in {"nil", "error"}
  /\ \A w \in FileWorker : reader[w] = "done"
  /\ \A b \in BlobWorker : saver[b] = "done"
  /\ \A w \in TreeWorker : builder[w] = "done"
  /\ result' = IF failed THEN "error" ELSE "flush"
  /\ UNCHANGED <<walkVars, future, reader, file, fileVars, saver, blob, treeVars, leftOut, groupVars, panic, accepted, durable>>

\* Flush commits what was accepted, or an upload fails: then it returns the error, or it waits for
\* ever to queue a pack, as its context is the caller's and not that of the uploaders.
Flush ==
  /\ result = "flush"
  /\ \/ durable' = accepted /\ result' = "snapshot"
     \/ "flush" \in Faults /\ result' \in {"error", "hangs"} /\ UNCHANGED durable
  /\ UNCHANGED <<walkVars, future, reader, file, fileVars, saver, blob, treeVars, leftOut, groupVars, panic, accepted>>

\* The snapshot with the root tree is saved.
SaveSnapshot ==
  /\ result = "snapshot"
  /\ \/ result' = "saved"
     \/ "flush" \in Faults /\ result' = "error"
  /\ UNCHANGED <<walkVars, future, reader, file, fileVars, saver, blob, treeVars, leftOut, groupVars, panic, accepted, durable>>

WalkStep ==
  \/ OpenDir \/ LeaveOut \/ WalkFails \/ SaveUnchanged
  \/ \E w \in FileWorker : SendFile(w)
  \/ \E w \in TreeWorker : SendTree(w)
  \/ SendNothing \/ StopWorkers \/ NoSnapshot

FileStep(w) ==
  \/ ReadChunk(w) \/ ReadFails(w) \/ DropChunk(w) \/ EndOfFile(w) \/ FinishReading(w)
  \/ FileWorkerStops(w)
  \/ \E b \in BlobWorker : SendChunk(w, b)

BlobStep(b) ==
  SaveBlob(b) \/ SaveBlobFails(b) \/ FillContent(b) \/ ChunkSaved(b) \/ TreeBlobSaved(b) \/ BlobWorkerStops(b)

TreeStep(w) ==
  \/ TakeNode(w) \/ TakeError(w) \/ TreeFails(w) \/ TreeBuilt(w) \/ DropTreeBlob(w) \/ TreeSaved(w)
  \/ TreeWorkerStops(w)
  \/ \E b \in BlobWorker : SendTreeBlob(w, b)

EndStep == GroupEnds \/ Flush \/ SaveSnapshot

\* A step of one of the goroutines.
Step ==
  \/ WalkStep
  \/ \E w \in FileWorker : FileStep(w)
  \/ \E b \in BlobWorker : BlobStep(b)
  \/ \E w \in TreeWorker : TreeStep(w)
  \/ EndStep

Next == Step \/ Cancel

Spec == Init /\ [][Next]_vars

\* As long as a goroutine can take a step, one does.
Fairness == WF_vars(Step)

FairSpec == Spec /\ Fairness

-----------------------------------------------------------------------------
(* Properties *)

\* Item i is in the snapshot: all the way down from the root, trees have an entry for it.
InSnapshot(i) == \A a \in Path(i) \ {Root} : a \in entries[Parent[a]]

\* A snapshot that is saved has every item of every directory in it, except what was excluded
\* or reported, and all blobs it refers to are in the repository.
SnapshotComplete ==
  result = "saved" =>
    \A i \in Item :
      /\ InSnapshot(i) => BlobsOf(i) \subseteq durable
      /\ i # Root /\ InSnapshot(Parent[i]) => i \in leftOut \/ InSnapshot(i)

\* A tree is saved after everything it refers to, whatever the order in which the workers
\* finish: TreeSaver waits for the futures of all its entries.
TreesLast ==
  \A d \in Dir : <<d, 0>> \in accepted =>
    \A i \in entries[d] : BlobsOf(i) \subseteq accepted

\* saveFile never finishes a file twice or with a missing ID, which would be a panic; and when
\* stopWorkers closes the channel of BlobSaver, nobody wants to send on it any more.
NoPanic ==
  /\ ~panic
  /\ stopped =>
       /\ \A w \in FileWorker : reader[w] # "send"
       /\ \A w \in TreeWorker : builder[w] # "send"

\* No goroutine of Snapshot waits for ever, whatever fails: Snapshot returns, if Flush does.  Flush
\* may hang after a failed upload, as FlushEnds of PackUpload shows.
SnapshotEnds == <>(result \in {"saved", "error", "hangs"})

\* What Snapshot and its workers have done is in order whenever the process stops: a snapshot that
\* is saved refers to all that was selected, and a tree is saved only after what is in it.
SnapshotSafe == TypeOK /\ SnapshotComplete /\ TreesLast
=============================================================================
