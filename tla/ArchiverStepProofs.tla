------------------------- MODULE ArchiverStepProofs -------------------------
(***************************************************************************)
(* The inductive invariant of module Archiver, and the proof that each     *)
(* step keeps the part of it that is about files, and all types.  Module   *)
(* ArchiverProofs has the rest of the argument and the theorems.           *)
(*                                                                         *)
(* saveFile counts the chunks of a file in remaining, which is below zero  *)
(* until the whole file is read, and finishes the file when the counter    *)
(* gets to zero.  The invariant says what is counted: the chunks that are  *)
(* Open, that is, read and not yet completed.                              *)
(***************************************************************************)
EXTENDS Archiver, TLAPS

\* The elements of a sequence, and the entries of a directory.
RangeOf(s) == {s[i] : i \in 1 .. Len(s)}
ChildrenOf(d) == {i \in Item \ {Root} : Parent[i] = d}

\* TypeOK, and the domains it leaves open.
Types ==
  /\ TypeOK
  /\ idx \in [File -> Nat] /\ content \in [File -> SUBSET Nat]
  /\ blob \in [BlobWorker -> (Item \X Nat) \cup {None}]

\* Blob worker b has the n-th chunk of file f.
Busy == {"save", "fill", "complete"}
Has(b, f, n) == saver[b] \in Busy /\ blob[b] = <<f, n>>

\* The chunks of f that are read and of which completeBlob has not been called.
Open(f) == {n \in 1 .. idx[f] : n \notin content[f] \/ \E b \in BlobWorker : Has(b, f, n)}
\* The counter of f is raised: its reader is about to call completeBlob.
Finishing(f) == \E w \in FileWorker : file[w] = f /\ reader[w] = "finish"
\* The counter of f is not raised yet.
Reading(f) ==
  \/ f \in Unchanged \/ future[f] \in {"none", "error", "closed"}
  \/ \E w \in FileWorker : file[w] = f /\ reader[w] \in {"read", "send"}
\* By how much the counter differs from the number of open chunks.
Offset(f) == IF Finishing(f) THEN 1 ELSE IF Reading(f) THEN 0 - idx[f] ELSE 0

\* The elements of S can be numbered from 1 to n.
Counts(n, S) ==
  \E f \in [1 .. n -> S] :
    /\ \A i, j \in 1 .. n : f[i] = f[j] => i = j
    /\ \A c \in S : \E i \in 1 .. n : f[i] = c

\* The counter of f is what it should be.
Counted(f) == \E k \in Nat : Counts(k, Open(f)) /\ remaining[f] = k + Offset(f)

\* A file has a node only when all its chunks are completed, and is finished once.
FileInv(f) ==
  /\ Reading(f) => remaining[f] <= 0
  /\ ~Reading(f) => idx[f] = Chunks[f]
  /\ future[f] = "node" /\ f \notin Unchanged => Open(f) = {}
  /\ f \in Unchanged => future[f] \in {"none", "node"}
  /\ f \in broken <=> future[f] = "error"
  /\ finished[f] = IF f \notin Unchanged /\ future[f] \in {"node", "error"} THEN 1 ELSE 0
  /\ Counted(f)

\* A file that is being read has a future without result, and one reader.
ReaderInv(w) ==
  /\ reader[w] \in {"read", "send", "finish"} <=> file[w] # None
  /\ file[w] # None => file[w] \notin Unchanged /\ future[file[w]] = "pending"
  /\ \A v \in FileWorker : file[v] = file[w] /\ file[w] # None => v = w
  /\ reader[w] = "send" =>
       /\ idx[file[w]] > 0
       /\ idx[file[w]] \notin content[file[w]]
       /\ \A b \in BlobWorker : ~Has(b, file[w], idx[file[w]])

\* A chunk is in the hands of one worker, and has its ID after it is saved.
SaverInv(b) ==
  saver[b] \in Busy =>
    /\ \/ blob[b][1] \in Dir /\ blob[b] = <<blob[b][1], 0>> /\ saver[b] # "complete"
       \/ /\ blob[b][1] \in File \ Unchanged
          /\ blob[b] = <<blob[b][1], blob[b][2]>>
          /\ blob[b][2] \in 1 .. idx[blob[b][1]]
          /\ blob[b][2] \in content[blob[b][1]] <=> saver[b] = "complete"
          /\ \A c \in BlobWorker : saver[c] \in Busy /\ blob[c] = blob[b] => c = b
    /\ saver[b] # "save" => blob[b] \in accepted

\* What has an ID is accepted by SaveBlob.
Accepts ==
  /\ \A f \in File : \A n \in content[f] : <<f, n>> \in accepted
  /\ \A f \in Unchanged : BlobsOf(f) \subseteq accepted
  /\ \A d \in Dir : d \in answered \/ future[d] = "node" => <<d, 0>> \in accepted

\* All that is about files.
FilesOK == ~panic /\ (\A f \in File : FileInv(f)) /\ (\A w \in FileWorker : ReaderInv(w)) /\ (\A b \in BlobWorker : SaverInv(b))

\* A directory that is being built has a future without result, and one worker.
BuilderInv(w) ==
  /\ builder[w] \in {"take", "send", "wait"} <=> dir[w] # None
  /\ dir[w] # None => future[dir[w]] = "pending"
  /\ \A v \in TreeWorker : dir[v] = dir[w] /\ dir[w] # None => v = w
  /\ builder[w] # "take" => todo[w] = <<>>

\* Only items with a node are in trees.
TreesOK ==
  /\ \A w \in TreeWorker : BuilderInv(w)
  /\ \A d \in Dir : \A i \in entries[d] : future[i] = "node"

\* Items that the walk has not come to have no future, and those that it has passed are left
\* out or known to their directory.
WalkOK ==
  /\ \A k \in Calls : k >= pos /\ Walk[k].op # "open" => future[Walk[k].item] = "none"
  /\ \A i \in Item \ {Root} : After(i) <= pos /\ After(Parent[i]) > pos => i \in leftOut \cup RangeOf(nodes[Parent[i]])

\* What the results of the walk and of Snapshot say about the workers and about errors.
EndOK ==
  /\ main = "nil" => future[Root] = "node"
  /\ main = "nil" <=> stopped
  /\ main = "error" => failed
  /\ failed => cancelled
  /\ \A i \in Item : future[i] = "closed" => cancelled
  /\ result # "none" =>
       /\ main \in {"nil", "error"}
       /\ \A w \in FileWorker : reader[w] = "done"
       /\ \A b \in BlobWorker : saver[b] = "done"
       /\ \A w \in TreeWorker : builder[w] = "done"
  /\ result \in {"flush", "snapshot", "saved"} => ~failed
  /\ result \in {"snapshot", "saved"} => durable = accepted

\* Each entry of directory d is in its tree, or left out.
AllIn(d) == \A i \in ChildrenOf(d) : i \in leftOut \cup entries[d]

\* Nothing is lost between the walk, the futures of a directory and its tree.
CompleteOK ==
  /\ ~cancelled =>
       /\ \A w \in TreeWorker : dir[w] # None =>
            \A i \in ChildrenOf(dir[w]) : i \in leftOut \cup entries[dir[w]] \cup RangeOf(todo[w])
       /\ \A d \in Dir : future[d] = "node" => AllIn(d)
  /\ main = "nil" => \A d \in Dir : InSnapshot(d) => AllIn(d)

\* A callback that ignores an error for a directory ignores it for what is in it.
ErrorsPassedUp == \A i \in Item : Ignored \cap (Path(i) \ {Root}) # {} => i \in Ignored

\* Nobody is going to work for item i.
Settled(i) == future[i] \in {"none", "node", "error"}

\* Directories have a future for each entry, and the walk comes to a directory after all that
\* is in it.
Known ==
  /\ \A i \in Item \ {Root} : future[i] # "none" => i \in RangeOf(nodes[Parent[i]])
  /\ \A i \in Item : \A c \in Path(i) : future[i] # "none" /\ After(c) <= pos => future[c] # "none"
  /\ \A d \in Dir : future[d] # "error"

\* The futures that a worker has taken have a result.
Taken ==
  ~cancelled =>
    \A w \in TreeWorker : dir[w] # None =>
      \A i \in RangeOf(nodes[dir[w]]) : i \in RangeOf(todo[w]) \/ future[i] \in {"node", "error"}

\* Nobody works on anything in a directory that is done.
BelowSettled == ~cancelled => \A i \in Item : \A d \in Path(i) \ {i} : future[d] = "node" => Settled(i)

\* After stopWorkers nobody has work left.
Quiet == stopped => (\A w \in FileWorker : file[w] = None) /\ (\A w \in TreeWorker : dir[w] = None)

Waits == Known /\ Taken /\ BelowSettled /\ Quiet

\* The inductive invariant.
ArchInv == Types /\ FilesOK /\ Accepts /\ TreesOK /\ WalkOK /\ EndOK /\ CompleteOK

-----------------------------------------------------------------------------
(* Counting, and the shape of the walk *)

LEMMA CountsMore ==
  ASSUME NEW n \in Nat, NEW S, NEW c, c \notin S, Counts(n, S) PROVE Counts(n + 1, S \cup {c})
<1>1. PICK f \in [1 .. n -> S] :
        /\ \A i, j \in 1 .. n : f[i] = f[j] => i = j
        /\ \A d \in S : \E i \in 1 .. n : f[i] = d
  BY Zenon DEF Counts
<1> DEFINE g == [i \in 1 .. n + 1 |-> IF i \in 1 .. n THEN f[i] ELSE c]
<1>2. g \in [1 .. n + 1 -> S \cup {c}]
  BY <1>1, Zenon
<1>3. \A i, j \in 1 .. n + 1 : g[i] = g[j] => i = j
  BY <1>1
<1>4. \A d \in S \cup {c} : \E i \in 1 .. n + 1 : g[i] = d
  <2>1. n + 1 \in 1 .. n + 1 /\ g[n + 1] = c
    OBVIOUS
  <2>2. \A i \in 1 .. n : i \in 1 .. n + 1 /\ g[i] = f[i]
    OBVIOUS
  <2> HIDE DEF g
  <2> QED
    BY <1>1, <2>1, <2>2, Zenon
<1> HIDE DEF g
<1> QED
  BY <1>2, <1>3, <1>4, ZenonT(30), Zenon DEF Counts

LEMMA CountsLess ==
  ASSUME NEW n \in Nat, NEW S, NEW c \in S, Counts(n, S) PROVE n > 0 /\ Counts(n - 1, S \ {c})
<1>1. PICK f \in [1 .. n -> S] :
        /\ \A i, j \in 1 .. n : f[i] = f[j] => i = j
        /\ \A d \in S : \E i \in 1 .. n : f[i] = d
  BY Zenon DEF Counts
<1>2. PICK k \in 1 .. n : f[k] = c
  BY <1>1, Zenon
<1> DEFINE g == [i \in 1 .. n - 1 |-> IF i = k THEN f[n] ELSE f[i]]
<1>3. n > 0 /\ n \in 1 .. n /\ \A i \in 1 .. n - 1 : i \in 1 .. n /\ i # n
  BY <1>2
<1>4. g \in [1 .. n - 1 -> S \ {c}]
  BY <1>1, <1>2, <1>3, Zenon
<1>5. \A i, j \in 1 .. n - 1 : g[i] = g[j] => i = j
  BY <1>1, <1>2, <1>3, Zenon
<1>6. \A d \in S \ {c} : \E i \in 1 .. n - 1 : g[i] = d
  <2>1. ASSUME NEW d \in S \ {c} PROVE \E i \in 1 .. n - 1 : g[i] = d
    <3>1. PICK i \in 1 .. n : f[i] = d
      BY <1>1, <2>1, Zenon
    <3>2. CASE i = n
      <4>1. k \in 1 .. n - 1 /\ g[k] = d
        BY <1>2, <2>1, <3>1, <3>2
      <4> QED
        BY <4>1, Zenon
    <3>3. CASE i # n
      <4>1. i \in 1 .. n - 1 /\ g[i] = d
        BY <1>2, <2>1, <3>1, <3>3
      <4> QED
        BY <4>1, Zenon
    <3> QED
      BY <3>2, <3>3, Zenon
  <2> QED
    BY <2>1, Zenon
<1> HIDE DEF g
<1> QED
  BY <1>3, <1>4, <1>5, <1>6, ZenonT(30), Zenon DEF Counts

LEMMA CountsNone == ASSUME NEW S, Counts(0, S) PROVE S = {}
BY DEF Counts

LEMMA ItemFacts ==
  /\ Root \in Dir /\ Root \in Item /\ None \notin Item /\ None \notin File /\ None \notin Dir
  /\ File \cap Dir = {} /\ File \subseteq Item /\ Dir \subseteq Item
  /\ \A i \in Item : i # Root => Parent[i] \in Dir
  /\ \A f \in File : Chunks[f] \in Nat
BY WalkAssumption, Zenon DEF Item

LEMMA ElementType == \A S : \A s \in Seq(S) : Len(s) \in Nat /\ \A k \in 1 .. Len(s) : s[k] \in S
OBVIOUS

LEMMA WalkTypes ==
  /\ Calls = 1 .. Len(Walk) /\ Len(Walk) \in Nat
  /\ \A k \in Calls : Walk[k].item \in Item /\ Walk[k].op \in {"open", "file", "save"}
  /\ \A k \in Calls : Walk[k].op = "file" => Walk[k].item \in File
  /\ \A k \in Calls : Walk[k].op = "save" => Walk[k].item \in Dir
<1>1. Walk \in Seq([op : {"open", "file", "save"}, item : Item])
  BY WalkNested, Zenon
<1>2. \A k \in Calls : Walk[k] \in [op : {"open", "file", "save"}, item : Item]
  BY <1>1, ElementType, ZenonT(30), Zenon DEF Calls
<1>3. QED BY <1>1, <1>2, ElementType, Zenon DEF Calls, File, Dir

LEMMA LastCall ==
  ASSUME NEW i \in Item
  PROVE  /\ After(i) \in Nat /\ After(i) - 1 \in Calls
         /\ Walk[After(i) - 1].item = i /\ Walk[After(i) - 1].op # "open"
<1>1. \E k \in Calls : Walk[k].item = i /\ Walk[k].op # "open"
  BY Zenon DEF Item, File, Dir
<1> DEFINE k == CHOOSE k \in Calls : Walk[k].item = i /\ Walk[k].op # "open"
<1>2. k \in Calls /\ Walk[k].item = i /\ Walk[k].op # "open"
  BY <1>1, Zenon
<1>3. After(i) = 1 + k
  BY Zenon DEF After
<1> HIDE DEF k
<1>4. k \in Nat /\ After(i) - 1 = k /\ After(i) \in Nat
  BY <1>2, <1>3, WalkTypes
<1>5. QED BY <1>2, <1>4, Zenon

LEMMA CallOnce ==
  ASSUME NEW j \in Calls, NEW k \in Calls, Walk[j].item = Walk[k].item, Walk[j].op = "open" <=> Walk[k].op = "open"
  PROVE  j = k
BY WalkNested, Zenon

LEMMA AfterCall == ASSUME NEW k \in Calls, Walk[k].op # "open" PROVE After(Walk[k].item) = k + 1
<1>1. After(Walk[k].item) \in Nat /\ After(Walk[k].item) - 1 = k
  BY LastCall, CallOnce, WalkTypes, ZenonT(40)
<1>2. k \in Nat
  BY WalkTypes
<1>3. QED BY <1>1, <1>2

LEMMA PathFacts ==
  /\ \A i \in Item : i \in Path(i) /\ Root \in Path(i) /\ Path(i) \subseteq Item
  /\ \A i \in Item : \A a \in Path(i) : Path(a) \subseteq Path(i)
  /\ \A i \in Item \ {Root} : Path(i) = Path(Parent[i]) \cup {i} /\ After(i) < After(Parent[i])
  /\ \A i \in Item : \A a \in Path(i) \ {i} : a \in Dir /\ After(i) < After(a)
  /\ \A i \in Item : \A a \in Path(i) \ {i} : \E c \in Path(i) \ {Root} : Parent[c] = a
<1>1. ASSUME NEW i \in Item
      PROVE  /\ i \in Path(i) /\ Path(i) \subseteq Item
             /\ \A a \in Path(i) \ {i} : a \in Dir /\ After(i) < After(a)
  <2>1. Path(i) = {i} \cup {d \in Dir : After(d) > After(i) - 1 /\ \E j \in 1 .. (After(i) - 1) - 1 : Walk[j] = [op |-> "open", item |-> d]}
    BY LastCall, Zenon DEF Path, Chain
  <2>2. ASSUME NEW a \in Path(i) \ {i} PROVE a \in Dir /\ After(i) < After(a)
    <3>1. a \in Dir /\ After(a) > After(i) - 1
      BY <2>1, Zenon
    <3>2. After(a) # After(i)
      BY <3>1, LastCall, ItemFacts, Zenon
    <3>3. QED BY <3>1, <3>2, LastCall, ItemFacts
  <2>3. QED BY <2>1, <2>2, ItemFacts, Zenon
<1>2. QED BY <1>1, WalkNested, Zenon

LEMMA CallFacts ==
  /\ \A op \in {"open", "file", "save"} : Call(op) => pos \in Calls /\ pos \in Nat /\ Current \in Item /\ main = "walk"
  /\ Call("file") => Current \in File /\ After(Current) = pos + 1 /\ Walk[pos].op # "open"
  /\ Call("save") => Current \in Dir /\ After(Current) = pos + 1 /\ Walk[pos].op # "open"
BY WalkTypes, AfterCall DEF Call, Current

-----------------------------------------------------------------------------
(* Files: steps of the walk *)

\* Nothing of f changes.
SameFile(f) ==
  /\ idx'[f] = idx[f] /\ content'[f] = content[f] /\ remaining'[f] = remaining[f]
  /\ finished'[f] = finished[f] /\ future'[f] = future[f] /\ (f \in broken' <=> f \in broken)

LEMMA FileFrame ==
  ASSUME NEW f \in File, FileInv(f), SameFile(f), Open(f)' = Open(f),
         Reading(f)' <=> Reading(f), Finishing(f)' <=> Finishing(f)
  PROVE  FileInv(f)'
BY Zenon DEF FileInv, Counted, Offset, SameFile

LEMMA OpenFrame ==
  ASSUME NEW f \in File, idx'[f] = idx[f], content'[f] = content[f],
         \A b \in BlobWorker, n \in Nat : Has(b, f, n)' <=> Has(b, f, n),
         idx[f] \in Nat
  PROVE  Open(f)' = Open(f)
BY DEF Open

LEMMA ReadingFrame ==
  ASSUME NEW f \in File, future'[f] = future[f],
         \A w \in FileWorker : file'[w] = f \/ file[w] = f => file'[w] = file[w] /\ reader'[w] = reader[w]
  PROVE  (Reading(f)' <=> Reading(f)) /\ (Finishing(f)' <=> Finishing(f))
BY Zenon DEF Reading, Finishing

\* Nothing happens to files.
LEMMA UntouchedFiles ==
  ASSUME Types, FilesOK, UNCHANGED <<reader, file, fileVars, saver, blob, panic, accepted>>,
         \A f \in File : future'[f] = future[f]
  PROVE  FilesOK'
<1>1. UNCHANGED <<reader, file, idx, content, remaining, finished, broken, saver, blob, panic, accepted>>
  BY Zenon DEF fileVars
<1>2. ASSUME NEW f \in File PROVE FileInv(f)'
  <2>1. Open(f)' = Open(f) /\ (Reading(f)' <=> Reading(f)) /\ (Finishing(f)' <=> Finishing(f))
    BY <1>1, Zenon DEF Open, Has, Reading, Finishing
  <2>2. QED BY <1>1, <2>1, FileFrame, Zenon DEF SameFile, FilesOK
<1>3. ASSUME NEW w \in FileWorker PROVE ReaderInv(w)'
  <2>1. ReaderInv(w) /\ (file[w] # None => file[w] \in File)
    BY Zenon DEF FilesOK, Types, TypeOK
  <2>2. QED BY <1>1, <2>1, Zenon DEF ReaderInv, Has
<1>4. ASSUME NEW b \in BlobWorker PROVE SaverInv(b)'
  BY <1>1, Zenon DEF FilesOK, SaverInv
<1>5. QED BY <1>1, <1>2, <1>3, <1>4 DEF FilesOK

LEMMA FreshFuture == ASSUME WalkOK, Call("file") \/ Call("save") PROVE future[Current] = "none"
BY CallFacts, WalkTypes DEF WalkOK, Current, Call

\* A file that is not read.
LEMMA NotReadFiles ==
  ASSUME Types, FilesOK, WalkOK, SaveUnchanged \/ SendNothing
  PROVE  FilesOK'
<1>1. UNCHANGED <<reader, file, idx, content, remaining, finished, broken, saver, blob, panic, accepted>>
  BY Zenon DEF SaveUnchanged, SendNothing, fileVars
<1>2. /\ Current \in Item /\ future[Current] = "none"
      /\ \/ Current \in Unchanged /\ future' = [future EXCEPT ![Current] = "node"]
         \/ Current \notin Unchanged /\ future' = [future EXCEPT ![Current] = "closed"]
  BY FreshFuture, CallFacts, ItemFacts, WalkAssumption, Zenon DEF SaveUnchanged, SendNothing, AddNode
<1>3. future \in [Item -> {"none", "pending", "node", "error", "closed"}]
  BY Zenon DEF Types, TypeOK
<1>4. ASSUME NEW f \in File PROVE FileInv(f)'
  <2>1. Open(f)' = Open(f) /\ (Finishing(f)' <=> Finishing(f))
    BY <1>1, Zenon DEF Open, Has, Finishing
  <2>2. Reading(f)' <=> Reading(f)
    BY <1>1, <1>2, <1>3, ItemFacts, Zenon DEF Reading
  <2>3. FileInv(f) /\ f \in Item
    BY ItemFacts, Zenon DEF FilesOK
  <2>4. CASE f = Current
    BY <1>1, <1>2, <1>3, <2>1, <2>2, <2>3, <2>4, Zenon DEF FileInv, Counted, Offset
  <2>5. CASE f # Current
    BY <1>1, <1>2, <1>3, <2>1, <2>2, <2>3, <2>5, FileFrame, Zenon DEF SameFile
  <2>6. QED BY <2>4, <2>5, Zenon
<1>5. ASSUME NEW w \in FileWorker PROVE ReaderInv(w)'
  <2>1. ReaderInv(w) /\ (file[w] # None => file[w] \in Item)
    BY ItemFacts, Zenon DEF FilesOK, Types, TypeOK
  <2>2. file[w] # None => file[w] # Current /\ future'[file[w]] = future[file[w]]
    BY <1>2, <1>3, <2>1, Zenon DEF ReaderInv
  <2>3. QED BY <1>1, <2>1, <2>2, Zenon DEF ReaderInv, Has
<1>6. ASSUME NEW b \in BlobWorker PROVE SaverInv(b)'
  BY <1>1, Zenon DEF FilesOK, SaverInv
<1>7. QED BY <1>1, <1>4, <1>5, <1>6, Zenon DEF FilesOK

\* A file goes to a worker.
LEMMA SendFileFiles ==
  ASSUME Types, FilesOK, WalkOK, NEW w \in FileWorker, SendFile(w)
  PROVE  FilesOK'
<1>1. UNCHANGED <<idx, content, remaining, finished, broken, saver, blob, panic, accepted>>
  BY Zenon DEF SendFile, fileVars
<1>2. /\ Current \in File \ Unchanged /\ Current \in Item /\ future[Current] = "none" /\ reader[w] = "idle" /\ Current # None
      /\ future' = [future EXCEPT ![Current] = "pending"]
      /\ reader' = [reader EXCEPT ![w] = "read"]
      /\ file' = [file EXCEPT ![w] = Current]
  BY FreshFuture, CallFacts, ItemFacts, Zenon DEF SendFile, AddNode
<1>3. /\ future \in [Item -> {"none", "pending", "node", "error", "closed"}]
      /\ reader \in [FileWorker -> {"idle", "read", "send", "finish", "done"}]
      /\ file \in [FileWorker -> File \cup {None}]
  BY Zenon DEF Types, TypeOK
<1>4. ASSUME NEW v \in FileWorker PROVE ReaderInv(v) /\ (file[v] # None => file[v] \in Item /\ file[v] # Current)
  BY <1>2, <1>3, ItemFacts DEF FilesOK, ReaderInv
<1>5. file[w] = None
  BY <1>2, <1>4, Zenon DEF ReaderInv
<1>6. ASSUME NEW f \in File PROVE FileInv(f)'
  <2>1. Open(f)' = Open(f)
    BY <1>1, Zenon DEF Open, Has
  <2>2. FileInv(f) /\ f \in Item /\ f # None
    BY ItemFacts, Zenon DEF FilesOK
  <2>3. CASE f = Current
    <3>1. Reading(f) /\ ~Finishing(f)
      BY <1>2, <1>4, <2>3, <2>2, Zenon DEF Reading, Finishing
    <3>2. file'[w] = f /\ reader'[w] = "read" /\ \A v \in FileWorker : v # w => file'[v] = file[v]
      BY <1>2, <1>3, <2>3, Zenon
    <3>3. Reading(f)' /\ ~Finishing(f)'
      BY <1>4, <2>2, <2>3, <3>2, Zenon DEF Reading, Finishing
    <3>4. QED BY <1>1, <1>2, <1>3, <2>1, <2>2, <2>3, <3>1, <3>3, Zenon DEF FileInv, Counted, Offset
  <2>4. CASE f # Current
    <3>1. (Reading(f)' <=> Reading(f)) /\ (Finishing(f)' <=> Finishing(f))
      BY <1>2, <1>3, <1>5, <2>2, <2>4, ReadingFrame, Zenon
    <3>2. QED BY <1>1, <1>2, <1>3, <2>1, <2>2, <2>4, <3>1, FileFrame, Zenon DEF SameFile
  <2>5. QED BY <2>3, <2>4, Zenon
<1>7. ASSUME NEW v \in FileWorker PROVE ReaderInv(v)'
  <2>1. CASE v = w
    BY <1>1, <1>2, <1>3, <1>4, <2>1, Zenon DEF ReaderInv, Has
  <2>2. CASE v # w
    <3>1. reader'[v] = reader[v] /\ file'[v] = file[v] /\ (file[v] # None => future'[file[v]] = future[file[v]])
      BY <1>2, <1>3, <1>4, <2>2, Zenon
    <3>2. \A u \in FileWorker : file'[u] = file'[v] /\ file'[v] # None => u = v
      BY <1>2, <1>3, <1>4, <2>2, <3>1, Zenon DEF ReaderInv
    <3>3. QED BY <1>1, <1>4, <3>1, <3>2 DEF ReaderInv, Has
  <2>3. QED BY <2>1, <2>2, Zenon
<1>8. ASSUME NEW b \in BlobWorker PROVE SaverInv(b)'
  BY <1>1, Zenon DEF FilesOK, SaverInv
<1>9. QED BY <1>1, <1>6, <1>7, <1>8, Zenon DEF FilesOK

-----------------------------------------------------------------------------
(* Files: steps of a reader *)

\* What is known of the file that a worker has.
LEMMA FileOfReader ==
  ASSUME Types, FilesOK, NEW w \in FileWorker, file[w] # None
  PROVE  /\ file[w] \in File \ Unchanged /\ file[w] \in Item /\ FileInv(file[w])
         /\ future[file[w]] = "pending" /\ finished[file[w]] = 0 /\ file[w] \notin broken
         /\ \A v \in FileWorker : v # w => file[v] # file[w]
         /\ reader[w] = "finish" <=> Finishing(file[w])
         /\ reader[w] \in {"read", "send"} <=> Reading(file[w])
         /\ idx[file[w]] \in Nat /\ content[file[w]] \subseteq 1 .. idx[file[w]] /\ remaining[file[w]] \in Int
<1>1. file[w] \in File /\ file[w] \in Item
  BY ItemFacts, Zenon DEF Types, TypeOK
<1>2. ReaderInv(w) /\ FileInv(file[w])
  BY <1>1, Zenon DEF FilesOK
<1>3. idx[file[w]] \in Nat /\ content[file[w]] \subseteq 1 .. idx[file[w]] /\ remaining[file[w]] \in Int
  BY <1>1, Zenon DEF Types, TypeOK
<1>4. file[w] \notin Unchanged /\ future[file[w]] = "pending" /\ \A v \in FileWorker : v # w => file[v] # file[w]
  BY <1>2, Zenon DEF ReaderInv
<1>5. finished[file[w]] = 0 /\ file[w] \notin broken
  BY <1>2, <1>4, Zenon DEF FileInv
<1>6. /\ reader[w] = "finish" <=> Finishing(file[w])
      /\ reader[w] \in {"read", "send"} <=> Reading(file[w])
  BY <1>4, Zenon DEF Finishing, Reading
<1>7. QED BY <1>1, <1>2, <1>3, <1>4, <1>5, <1>6, Zenon

StepOf(w) == \A v \in FileWorker : v # w => file'[v] = file[v] /\ reader'[v] = reader[v]

LEMMA OtherFiles ==
  ASSUME Types, FilesOK, NEW w \in FileWorker, file[w] # None, StepOf(w), file'[w] \in {file[w], None},
         NEW f \in File, f # file[w], SameFile(f), Open(f)' = Open(f)
  PROVE  FileInv(f)'
<1>1. f # None /\ FileInv(f)
  BY ItemFacts, Zenon DEF FilesOK
<1>2. (Reading(f)' <=> Reading(f)) /\ (Finishing(f)' <=> Finishing(f))
  BY <1>1, ReadingFrame, Zenon DEF StepOf, SameFile
<1>3. QED BY <1>1, <1>2, FileFrame, Zenon

LEMMA OtherReaders ==
  ASSUME Types, FilesOK, NEW w \in FileWorker, file[w] # None, StepOf(w), file'[w] \in {file[w], None},
         NEW v \in FileWorker, v # w,
         \A f \in File : f # file[w] => future'[f] = future[f] /\ idx'[f] = idx[f] /\ content'[f] = content[f],
         \A b \in BlobWorker, f \in File, n \in Nat : f # file[w] => (Has(b, f, n)' <=> Has(b, f, n))
  PROVE  ReaderInv(v)'
<1>1. file'[v] = file[v] /\ reader'[v] = reader[v]
  BY Zenon DEF StepOf
<1>2. ReaderInv(v) /\ ReaderInv(w) /\ (file[v] # None => file[v] \in File /\ idx[file[v]] \in Nat)
  BY Zenon DEF FilesOK, Types, TypeOK
<1>3. file[v] # None => /\ file[v] # file[w] /\ future'[file[v]] = future[file[v]]
                        /\ idx'[file[v]] = idx[file[v]] /\ content'[file[v]] = content[file[v]]
  BY <1>2, Zenon DEF ReaderInv
<1>4. \A u \in FileWorker : file'[u] = file'[v] /\ file'[v] # None => u = v
  BY <1>1, <1>2, <1>3, ZenonT(40) DEF ReaderInv, StepOf
<1>5. CASE reader[v] = "send"
  <2>1. PICK g \in File : file[v] = g
    BY <1>2, <1>5, Zenon DEF ReaderInv
  <2>2. PICK n \in Nat : idx[g] = n
    BY <1>2, <2>1, ItemFacts, Zenon
  <2>3. \A b \in BlobWorker : ~Has(b, g, n)'
    BY <1>2, <1>3, <1>5, <2>1, <2>2, ItemFacts, Zenon DEF ReaderInv
  <2>4. file'[v] = g /\ idx'[g] = n
    BY <1>1, <1>3, <2>1, <2>2, ItemFacts, Zenon
  <2>5. QED BY <1>1, <1>2, <1>3, <1>4, <2>1, <2>2, <2>3, <2>4, Zenon DEF ReaderInv
<1>6. CASE reader[v] # "send"
  BY <1>1, <1>2, <1>3, <1>4, <1>6, Zenon DEF ReaderInv
<1>7. QED BY <1>5, <1>6, Zenon

LEMMA SameSavers ==
  ASSUME Types, FilesOK, UNCHANGED <<saver, blob, accepted, content>>, \A f \in File : idx'[f] \in Nat /\ idx'[f] >= idx[f],
         NEW b \in BlobWorker
  PROVE  SaverInv(b)'
<1>1. SaverInv(b) /\ idx \in [File -> Nat]
  BY Zenon DEF FilesOK, Types
<1>2. QED BY <1>1 DEF SaverInv

LEMMA CountedNext ==
  ASSUME NEW f, NEW k \in Nat, Counts(k, Open(f)'), remaining'[f] = k + Offset(f)'
  PROVE  Counted(f)'
BY ZenonT(30), Zenon DEF Counted, Counts

\* A worker works on its file.
LEMMA ReaderStep ==
  ASSUME Types, FilesOK, NEW w \in FileWorker, NEW f \in File, file[w] = f,
         StepOf(w), file'[w] \in {f, None}, UNCHANGED <<saver, blob, accepted, content>>,
         \A g \in File : idx'[g] \in Nat /\ idx'[g] >= idx[g],
         \A g \in File : g # f => SameFile(g),
         FileInv(f)', ReaderInv(w)', ~panic'
  PROVE  FilesOK'
<1>1. \A b \in BlobWorker, g \in File, n \in Nat : Has(b, g, n)' <=> Has(b, g, n)
  BY Zenon DEF Has
<1>2. file[w] # None
  BY ItemFacts, Zenon
<1>3. ASSUME NEW g \in File, g # f PROVE FileInv(g)'
  <2>1. SameFile(g) /\ idx[g] \in Nat
    BY <1>3, Zenon DEF Types
  <2>2. Open(g)' = Open(g)
    BY <1>1, <2>1, OpenFrame, Zenon DEF SameFile
  <2>3. QED BY <1>2, <1>3, <2>1, <2>2, OtherFiles, Zenon
<1>4. ASSUME NEW v \in FileWorker, v # w PROVE ReaderInv(v)'
  BY <1>1, <1>2, <1>4, OtherReaders, Zenon DEF SameFile
<1>5. ASSUME NEW b \in BlobWorker PROVE SaverInv(b)'
  BY SameSavers, Zenon
<1>6. QED BY <1>3, <1>4, <1>5, Zenon DEF FilesOK

LEMMA ReadChunkFiles ==
  ASSUME Types, FilesOK, NEW w \in FileWorker, ReadChunk(w)
  PROVE  FilesOK'
<1>1. file[w] # None /\ ReaderInv(w)
  BY Zenon DEF FilesOK, ReaderInv, ReadChunk
<1>2. PICK f \in File : file[w] = f
  BY <1>1, Zenon DEF Types, TypeOK
<1>3. /\ UNCHANGED <<future, file, content, remaining, finished, broken, saver, blob, panic, accepted>>
      /\ reader[w] = "read" /\ reader' = [reader EXCEPT ![w] = "send"]
      /\ idx' = [idx EXCEPT ![f] = @ + 1]
  BY <1>2, Zenon DEF ReadChunk
<1>4. /\ f \notin Unchanged /\ FileInv(f) /\ ~Finishing(f) /\ Reading(f)
      /\ future[f] = "pending"
      /\ \A v \in FileWorker : v # w => file[v] # f
      /\ idx[f] \in Nat /\ content[f] \subseteq 1 .. idx[f] /\ remaining[f] \in Int
  BY <1>1, <1>2, <1>3, FileOfReader, Zenon
<1>5. /\ StepOf(w) /\ file'[w] = f /\ reader'[w] = "send" /\ idx'[f] = idx[f] + 1
      /\ \A g \in File : idx'[g] \in Nat /\ idx'[g] >= idx[g] /\ (g # f => idx'[g] = idx[g])
  BY <1>2, <1>3 DEF StepOf, Types, TypeOK
<1>6. \A b \in BlobWorker : ~Has(b, f, idx[f] + 1)
  <2>1. ASSUME NEW b \in BlobWorker, Has(b, f, idx[f] + 1) PROVE FALSE
    <3>1. SaverInv(b) /\ blob[b][1] = f /\ blob[b][2] = idx[f] + 1 /\ saver[b] \in Busy /\ f \notin Dir
      BY <2>1, ItemFacts DEF FilesOK, Has
    <3>2. QED BY <1>4, <3>1 DEF SaverInv
  <2>2. QED BY <2>1, Zenon
<1>7. Counted(f)' /\ Reading(f)' /\ ~Finishing(f)'
  <2>1. Open(f)' = Open(f) \cup {idx[f] + 1} /\ idx[f] + 1 \notin Open(f)
    BY <1>3, <1>4, <1>5 DEF Open, Has
  <2>2. PICK k \in Nat : Counts(k, Open(f)) /\ remaining[f] = k + (0 - idx[f])
    BY <1>4, Zenon DEF FileInv, Counted, Offset
  <2>3. Reading(f)' /\ ~Finishing(f)'
    BY <1>2, <1>3, <1>4, <1>5, Zenon DEF Reading, Finishing
  <2>4. Counts(k + 1, Open(f)') /\ k + 1 \in Nat /\ remaining'[f] = (k + 1) + Offset(f)'
    BY <1>3, <1>4, <1>5, <2>1, <2>2, <2>3, CountsMore DEF Offset
  <2>5. QED BY <2>3, <2>4, CountedNext, Zenon
<1>8. FileInv(f)' /\ ~panic'
  BY <1>3, <1>4, <1>5, <1>7, Zenon DEF FileInv, FilesOK
<1>9. ReaderInv(w)'
  BY <1>1, <1>2, <1>3, <1>4, <1>5, <1>6 DEF ReaderInv, Has
<1>10. \A g \in File : g # f => SameFile(g)
  BY <1>3, <1>5, Zenon DEF SameFile
<1>11. QED BY <1>2, <1>3, <1>5, <1>8, <1>9, <1>10, ReaderStep, Zenon

LEMMA CompleteErrorFiles ==
  ASSUME Types, FilesOK, NEW w \in FileWorker, ReadFails(w) \/ DropChunk(w)
  PROVE  FilesOK'
<1>1. file[w] # None /\ reader[w] \in {"read", "send"}
  BY Zenon DEF FilesOK, ReaderInv, ReadFails, DropChunk
<1>2. PICK f \in File : file[w] = f
  BY <1>1, Zenon DEF Types, TypeOK
<1>3. /\ UNCHANGED <<idx, content, remaining, saver, blob, accepted>>
      /\ panic' = (panic \/ finished[f] > 0)
      /\ finished' = [finished EXCEPT ![f] = @ + 1]
      /\ broken' = broken \cup {f}
      /\ future' = [future EXCEPT ![f] = "error"]
      /\ reader' = [reader EXCEPT ![w] = "idle"]
      /\ file' = [file EXCEPT ![w] = None]
  BY <1>2, Zenon DEF ReadFails, DropChunk, CompleteError
<1>4. /\ f \notin Unchanged /\ f \in Item /\ FileInv(f) /\ ~Finishing(f) /\ Reading(f)
      /\ finished[f] = 0
      /\ \A v \in FileWorker : v # w => file[v] # f
  BY <1>1, <1>2, FileOfReader, Zenon
<1>5. /\ StepOf(w) /\ file'[w] = None /\ reader'[w] = "idle" /\ future'[f] = "error" /\ finished'[f] = 1
      /\ \A g \in File : idx'[g] \in Nat /\ idx'[g] >= idx[g]
      /\ \A g \in File : g # f => SameFile(g)
  BY <1>3, <1>4, ItemFacts DEF StepOf, SameFile, Types, TypeOK
<1>6. Counted(f)' /\ Reading(f)' /\ ~Finishing(f)'
  <2>1. Open(f)' = Open(f)
    BY <1>3, Zenon DEF Open, Has
  <2>2. Reading(f)' /\ ~Finishing(f)'
    BY <1>4, <1>5, ItemFacts, Zenon DEF Reading, Finishing, StepOf
  <2>3. PICK k \in Nat : Counts(k, Open(f)) /\ remaining[f] = k + (0 - idx[f])
    BY <1>4, Zenon DEF FileInv, Counted, Offset
  <2>4. QED BY <1>3, <2>1, <2>2, <2>3, CountedNext, Zenon DEF Offset
<1>7. FileInv(f)' /\ ReaderInv(w)'
  BY <1>3, <1>4, <1>5, <1>6, Zenon DEF FileInv, ReaderInv
<1>8. ~panic'
  <2>1. ~(finished[f] > 0) /\ ~panic
    BY <1>4 DEF FilesOK
  <2>2. QED BY <1>3, <2>1, Zenon
<1>9. QED BY <1>2, <1>3, <1>5, <1>7, <1>8, ReaderStep, Zenon

LEMMA EndOfFileFiles ==
  ASSUME Types, FilesOK, NEW w \in FileWorker, EndOfFile(w)
  PROVE  FilesOK'
<1>1. file[w] # None /\ ReaderInv(w)
  BY Zenon DEF FilesOK, ReaderInv, EndOfFile
<1>2. PICK f \in File : file[w] = f
  BY <1>1, Zenon DEF Types, TypeOK
<1>3. /\ UNCHANGED <<future, file, idx, content, finished, broken, saver, blob, panic, accepted>>
      /\ reader[w] = "read" /\ idx[f] = Chunks[f]
      /\ remaining' = [remaining EXCEPT ![f] = @ + idx[f] + 1]
      /\ reader' = [reader EXCEPT ![w] = "finish"]
  BY <1>2, ZenonT(30), Zenon DEF EndOfFile
<1>4. /\ f \notin Unchanged /\ FileInv(f) /\ ~Finishing(f) /\ Reading(f)
      /\ future[f] = "pending"
      /\ \A v \in FileWorker : v # w => file[v] # f
      /\ idx[f] \in Nat /\ remaining[f] \in Int
  BY <1>1, <1>2, <1>3, FileOfReader, Zenon
<1>5. /\ StepOf(w) /\ file'[w] = f /\ reader'[w] = "finish" /\ remaining'[f] = remaining[f] + idx[f] + 1
      /\ \A g \in File : idx'[g] \in Nat /\ idx'[g] >= idx[g]
      /\ \A g \in File : g # f => SameFile(g)
  BY <1>2, <1>3 DEF StepOf, SameFile, Types, TypeOK
<1>6. Counted(f)' /\ ~Reading(f)' /\ Finishing(f)'
  <2>1. Open(f)' = Open(f)
    BY <1>3, Zenon DEF Open, Has
  <2>2. ~Reading(f)' /\ Finishing(f)'
    BY <1>3, <1>4, <1>5, Zenon DEF Reading, Finishing
  <2>3. PICK k \in Nat : Counts(k, Open(f)) /\ remaining[f] = k + (0 - idx[f])
    BY <1>4, Zenon DEF FileInv, Counted, Offset
  <2>4. QED BY <1>4, <1>5, <2>1, <2>2, <2>3, CountedNext DEF Offset
<1>7. FileInv(f)' /\ ReaderInv(w)' /\ ~panic'
  BY <1>1, <1>2, <1>3, <1>4, <1>5, <1>6, ZenonT(30), Zenon DEF FileInv, ReaderInv, FilesOK
<1>8. QED BY <1>2, <1>3, <1>5, <1>7, ReaderStep, Zenon

LEMMA FinishReadingFiles ==
  ASSUME Types, FilesOK, NEW w \in FileWorker, FinishReading(w)
  PROVE  FilesOK'
<1>1. file[w] # None /\ reader[w] = "finish"
  BY ZenonT(30), Zenon DEF FilesOK, ReaderInv, FinishReading
<1>2. PICK f \in File : file[w] = f
  BY <1>1, Zenon DEF Types, TypeOK
<1>3. /\ UNCHANGED <<idx, content, broken, saver, blob, accepted>>
      /\ remaining' = [remaining EXCEPT ![f] = @ - 1]
      /\ reader' = [reader EXCEPT ![w] = "idle"]
      /\ file' = [file EXCEPT ![w] = None]
  BY <1>2, Zenon DEF FinishReading, CompleteBlob
<1>4. /\ f \notin Unchanged /\ f \in Item /\ FileInv(f) /\ Finishing(f) /\ ~Reading(f)
      /\ future[f] = "pending" /\ finished[f] = 0 /\ f \notin broken
      /\ \A v \in FileWorker : v # w => file[v] # f
      /\ idx[f] \in Nat /\ content[f] \subseteq 1 .. idx[f] /\ remaining[f] \in Int
  BY <1>1, <1>2, FileOfReader, Zenon
<1>5. /\ StepOf(w) /\ file'[w] = None /\ reader'[w] = "idle" /\ remaining'[f] = remaining[f] - 1
      /\ \A g \in File : idx'[g] \in Nat /\ idx'[g] >= idx[g]
  BY <1>2, <1>3 DEF StepOf, Types, TypeOK
<1>6. PICK k \in Nat : Counts(k, Open(f)) /\ remaining[f] = k + 1
  BY <1>4, Zenon DEF FileInv, Counted, Offset
<1>7. /\ \/ /\ k = 0
            /\ panic' = (panic \/ finished[f] > 0 \/ content[f] # 1 .. idx[f])
            /\ finished' = [finished EXCEPT ![f] = @ + 1] /\ future' = [future EXCEPT ![f] = "node"]
         \/ k > 0 /\ UNCHANGED <<panic, finished, future>>
  BY <1>2, <1>4, <1>6, SMTT(30) DEF FinishReading, CompleteBlob
<1>8. /\ future'[f] = IF k = 0 THEN "node" ELSE "pending"
      /\ finished'[f] = IF k = 0 THEN 1 ELSE 0
      /\ \A g \in File : g # f => SameFile(g)
  BY <1>3, <1>4, <1>7, ItemFacts, SMTT(30) DEF SameFile, Types, TypeOK
<1>9. Open(f)' = Open(f) /\ (k = 0 => Open(f) = {})
  BY <1>3, <1>6, CountsNone, Zenon DEF Open, Has
<1>10. ~Reading(f)' /\ ~Finishing(f)'
  BY <1>4, <1>5, <1>8, ItemFacts, ZenonT(40) DEF Reading, Finishing, StepOf
<1>11. Counted(f)'
  BY <1>4, <1>5, <1>6, <1>9, <1>10, CountedNext, SMTT(30) DEF Offset
<1>12. FileInv(f)' /\ ReaderInv(w)'
  BY <1>3, <1>4, <1>5, <1>8, <1>9, <1>10, <1>11, Zenon DEF FileInv, ReaderInv
<1>13. ~panic'
  <2>1. ~(finished[f] > 0) /\ ~panic
    BY <1>4 DEF FilesOK
  <2>2. k = 0 => content[f] = 1 .. idx[f]
    BY <1>4, <1>9, ZenonT(30), Zenon DEF Open
  <2>3. QED BY <1>7, <2>1, <2>2, Zenon
<1>14. QED BY <1>2, <1>3, <1>5, <1>8, <1>12, <1>13, ReaderStep, ZenonT(30), Zenon

-----------------------------------------------------------------------------
(* Files: steps of a blob worker *)

LEMMA FileWorkerStopsFiles ==
  ASSUME Types, FilesOK, NEW w \in FileWorker, FileWorkerStops(w)
  PROVE  FilesOK'
<1>1. /\ UNCHANGED <<future, file, idx, content, remaining, finished, broken, saver, blob, panic, accepted>>
      /\ reader[w] = "idle" /\ reader' = [reader EXCEPT ![w] = "done"]
  BY Zenon DEF FileWorkerStops, fileVars
<1>2. file[w] = None /\ \A v \in FileWorker : ReaderInv(v)
  BY <1>1, Zenon DEF FilesOK, ReaderInv
<1>3. reader'[w] = "done" /\ \A v \in FileWorker : v # w => reader'[v] = reader[v]
  BY <1>1, Zenon DEF Types, TypeOK
<1>4. ASSUME NEW f \in File PROVE FileInv(f)'
  <2>1. FileInv(f) /\ f # None
    BY ItemFacts, Zenon DEF FilesOK
  <2>2. Open(f)' = Open(f) /\ SameFile(f)
    BY <1>1, Zenon DEF Open, Has, SameFile
  <2>3. (Reading(f)' <=> Reading(f)) /\ (Finishing(f)' <=> Finishing(f))
    BY <1>1, <1>2, <1>3, <2>1, ReadingFrame, Zenon
  <2>4. QED BY <2>1, <2>2, <2>3, FileFrame, Zenon
<1>5. ASSUME NEW v \in FileWorker PROVE ReaderInv(v)'
  BY <1>1, <1>2, <1>3, ZenonT(40) DEF ReaderInv, Has
<1>6. ASSUME NEW b \in BlobWorker PROVE SaverInv(b)'
  BY <1>1, Zenon DEF FilesOK, SaverInv
<1>7. QED BY <1>1, <1>4, <1>5, <1>6, Zenon DEF FilesOK

StepBy(b) == \A c \in BlobWorker : c # b => saver'[c] = saver[c] /\ blob'[c] = blob[c]

\* A worker of BlobSaver goes on with its blob.
LEMMA SaverStep ==
  ASSUME Types, FilesOK, NEW b \in BlobWorker, StepBy(b), ~panic',
         UNCHANGED <<reader, file, idx>>, accepted \subseteq accepted',
         \A f \in File, n \in Nat : Has(b, f, n)' => Has(b, f, n),
         \A f \in File : content'[f] = content[f] \/ \E n \in Nat : Has(b, f, n) /\ content'[f] = content[f] \cup {n},
         \A v \in FileWorker : file[v] # None => future'[file[v]] = future[file[v]],
         \A f \in File : FileInv(f)', SaverInv(b)'
  PROVE  FilesOK'
<1>1. \A c \in BlobWorker, f \in File, n \in Nat : Has(c, f, n)' => Has(c, f, n)
  BY DEF Has, StepBy
<1>2. ASSUME NEW v \in FileWorker PROVE ReaderInv(v)'
  <2>1. ReaderInv(v) /\ (file[v] # None => file[v] \in File /\ idx[file[v]] \in Nat)
    BY DEF FilesOK, Types, TypeOK
  <2>2. CASE reader[v] = "send"
    <3>1. PICK g \in File : file[v] = g
      BY <2>1, <2>2, Zenon DEF ReaderInv
    <3>2. PICK n \in Nat : idx[g] = n
      BY <2>1, <2>2, <3>1, Zenon DEF ReaderInv
    <3>3. \A c \in BlobWorker : ~Has(c, g, n) /\ ~Has(c, g, n)'
      BY <1>1, <2>1, <2>2, <3>1, <3>2, ZenonT(40) DEF ReaderInv
    <3>4. n \notin content'[g]
      BY <2>1, <2>2, <3>1, <3>2, <3>3 DEF ReaderInv
    <3>5. QED BY <2>1, <2>2, <3>1, <3>2, <3>3, <3>4, Zenon DEF ReaderInv
  <2>3. CASE reader[v] # "send"
    BY <2>1, <2>3, Zenon DEF ReaderInv
  <2>4. QED BY <2>2, <2>3, Zenon
<1>3. ASSUME NEW c \in BlobWorker, c # b PROVE SaverInv(c)'
  <2>1. saver'[c] = saver[c] /\ blob'[c] = blob[c] /\ SaverInv(c) /\ idx \in [File -> Nat]
    BY <1>3, Zenon DEF StepBy, FilesOK, Types
  <2>3. CASE saver[c] \in Busy /\ blob[c][1] \in File
    <3>1. PICK g \in File : blob[c][1] = g
      BY <2>3, Zenon
    <3>2. PICK m \in Nat : blob[c] = <<g, m>> /\ blob[c][2] = m
      BY <2>1, <2>3, <3>1, ItemFacts DEF SaverInv
    <3>3. ~Has(b, g, m)
      BY <1>3, <2>1, <2>3, <3>1, <3>2, ItemFacts, Zenon DEF SaverInv, Has
    <3>4. m \in content'[g] <=> m \in content[g]
      BY <3>3, ZenonT(40) DEF Has
    <3>5. \A a \in BlobWorker : saver'[a] \in Busy /\ blob'[a] = <<g, m>> => a = c
      BY <1>1, <2>1, <2>3, <3>1, <3>2, ItemFacts DEF SaverInv, Has
    <3>6. QED BY <2>1, <2>3, <3>1, <3>2, <3>4, <3>5, Zenon DEF SaverInv
  <2>4. CASE ~(saver[c] \in Busy /\ blob[c][1] \in File)
    BY <2>1, <2>4, Zenon DEF SaverInv
  <2>5. QED BY <2>3, <2>4, Zenon
<1>4. QED BY <1>2, <1>3, Zenon DEF FilesOK

LEMMA SameFiles ==
  ASSUME Types, FilesOK, UNCHANGED <<reader, file, idx, remaining, finished, broken, future>>,
         NEW f \in File, Open(f)' = Open(f)
  PROVE  FileInv(f)'
<1>1. FileInv(f)
  BY Zenon DEF FilesOK
<1>2. (Reading(f)' <=> Reading(f)) /\ (Finishing(f)' <=> Finishing(f))
  BY Zenon DEF Reading, Finishing
<1>3. PICK k \in Nat : Counts(k, Open(f)) /\ remaining[f] = k + Offset(f)
  BY <1>1, Zenon DEF FileInv, Counted
<1>4. Counted(f)'
  BY <1>2, <1>3, CountedNext, Zenon DEF Offset
<1>5. QED BY <1>1, <1>2, <1>4, Zenon DEF FileInv

\* The steps of a worker of BlobSaver that leave the chunks as they are.
LEMMA SaveBlobFiles ==
  ASSUME Types, FilesOK, NEW b \in BlobWorker,
         SaveBlob(b) \/ SaveBlobFails(b) \/ FillContent(b) \/ TreeBlobSaved(b) \/ BlobWorkerStops(b)
  PROVE  FilesOK'
<1>1. /\ UNCHANGED <<reader, file, idx, remaining, finished, broken, future, panic>>
      /\ accepted \subseteq accepted' 
      /\ StepBy(b)
  BY Zenon DEF SaveBlob, SaveBlobFails, FillContent, TreeBlobSaved, BlobWorkerStops, fileVars, StepBy, Types, TypeOK
<1>2. /\ SaverInv(b) /\ saver[b] \in {"idle", "save", "fill", "complete", "done"}
      /\ idx \in [File -> Nat] /\ content \in [File -> SUBSET Nat]
      /\ saver \in [BlobWorker -> {"idle", "save", "fill", "complete", "done"}]
      /\ blob \in [BlobWorker -> (Item \X Nat) \cup {None}]
  BY Zenon DEF FilesOK, Types, TypeOK
<1>3. saver'[b] \in Busy => saver[b] \in Busy /\ blob'[b] = blob[b]
  BY <1>2, Zenon DEF SaveBlob, SaveBlobFails, FillContent, TreeBlobSaved, BlobWorkerStops, Busy
<1>4. CASE FillContent(b)
  <2>1. PICK g \in File, m \in Nat : blob[b] = <<g, m>> /\ m \in 1 .. idx[g] /\ saver[b] \in Busy
    BY <1>2, <1>4, ItemFacts, SMTT(30) DEF FillContent, SaverInv, Busy
  <2>2. /\ content' = [content EXCEPT ![g] = @ \cup {m}] /\ saver' = [saver EXCEPT ![b] = "complete"]
        /\ UNCHANGED <<blob, accepted>>
    BY <1>4, <2>1 DEF FillContent
  <2>3. Has(b, g, m) /\ Has(b, g, m)' /\ \A f \in File, n \in Nat, c \in BlobWorker : Has(c, f, n)' <=> Has(c, f, n)
    BY <1>2, <2>1, <2>2, Zenon DEF Has, Busy
  <2>4. content'[g] = content[g] \cup {m} /\ \A f \in File : f # g => content'[f] = content[f]
    BY <1>2, <2>2, Zenon
  <2>5. \A f \in File : Open(f)' = Open(f)
    BY <1>1, <1>2, <2>3, <2>4, ZenonT(40) DEF Open
  <2>6. SaverInv(b)'
    BY <1>1, <1>2, <1>4, <2>1, <2>2, <2>4, ItemFacts DEF SaverInv, FillContent, Busy
  <2>7. QED BY <1>1, <2>3, <2>4, <2>5, <2>6, SameFiles, SaverStep, ZenonT(40) DEF FilesOK
<1>5. CASE ~FillContent(b)
  <2>1. UNCHANGED content
    BY <1>5, Zenon DEF SaveBlob, SaveBlobFails, FillContent, TreeBlobSaved, BlobWorkerStops, fileVars
  <2>2. ASSUME NEW f \in File PROVE Open(f)' = Open(f)
    <3>1. ASSUME NEW n \in Nat, Has(b, f, n), n \in content[f] PROVE Has(b, f, n)'
      BY <1>2, <1>5, <3>1, ItemFacts DEF Has, SaverInv, SaveBlob, SaveBlobFails, TreeBlobSaved, BlobWorkerStops, Busy
    <3>2. ASSUME NEW n \in Nat, NEW c \in BlobWorker PROVE (Has(c, f, n)' => Has(c, f, n)) /\ (c # b => (Has(c, f, n)' <=> Has(c, f, n)))
      BY <1>1, <1>3, Zenon DEF Has, StepBy
    <3>3. QED BY <1>1, <1>2, <2>1, <3>1, <3>2, Zenon DEF Open
  <2>3. SaverInv(b)'
    BY <1>1, <1>2, <1>5, <2>1, Zenon DEF SaverInv, SaveBlob, SaveBlobFails, TreeBlobSaved, BlobWorkerStops, Busy
  <2>4. \A f \in File, n \in Nat : Has(b, f, n)' => Has(b, f, n)
    BY <1>3, Zenon DEF Has
  <2>5. QED BY <1>1, <2>1, <2>2, <2>3, <2>4, SameFiles, SaverStep, Zenon DEF FilesOK
<1>6. QED BY <1>4, <1>5, Zenon

LEMMA SendTreeBlobFiles ==
  ASSUME Types, FilesOK, NEW w \in TreeWorker, dir[w] \in Dir, NEW b \in BlobWorker, SendTreeBlob(w, b)
  PROVE  FilesOK'
<1>1. /\ UNCHANGED <<reader, file, idx, content, remaining, finished, broken, future, panic, accepted>>
      /\ StepBy(b) /\ saver'[b] = "save" /\ blob'[b] = <<dir[w], 0>> /\ saver[b] = "idle"
  BY ZenonT(40) DEF SendTreeBlob, fileVars, StepBy, Types, TypeOK
<1>2. \A f \in File, n \in Nat : ~Has(b, f, n)' /\ ~Has(b, f, n)
  BY <1>1, ItemFacts DEF Has, Busy
<1>3. ASSUME NEW f \in File PROVE Open(f)' = Open(f)
  <2>1. \A c \in BlobWorker, n \in Nat : Has(c, f, n)' <=> Has(c, f, n)
    BY <1>1, <1>2, ZenonT(40) DEF Has, StepBy
  <2>2. QED BY <1>1, <2>1, OpenFrame, Zenon DEF Types
<1>4. SaverInv(b)'
  BY <1>1, ItemFacts DEF SaverInv
<1>5. QED BY <1>1, <1>2, <1>3, <1>4, SameFiles, SaverStep, Zenon DEF FilesOK

LEMMA SendChunkFiles ==
  ASSUME Types, FilesOK, NEW w \in FileWorker, NEW b \in BlobWorker, SendChunk(w, b)
  PROVE  FilesOK'
<1>1. file[w] # None /\ ReaderInv(w) /\ reader[w] = "send"
  BY Zenon DEF FilesOK, ReaderInv, SendChunk
<1>2. PICK f \in File : file[w] = f
  BY <1>1, Zenon DEF Types, TypeOK
<1>3. PICK n \in Nat : idx[f] = n
  BY Zenon DEF Types
<1>4. /\ UNCHANGED <<future, file, idx, content, remaining, finished, broken, panic, accepted>>
      /\ StepBy(b) /\ saver[b] = "idle" /\ saver'[b] = "save" /\ blob'[b] = <<f, n>>
      /\ StepOf(w) /\ reader'[w] = "read"
  BY <1>2, <1>3, Zenon DEF SendChunk, fileVars, StepBy, StepOf, Types, TypeOK
<1>5. /\ f \notin Unchanged /\ f \notin Dir /\ n > 0 /\ n \notin content[f]
      /\ \A c \in BlobWorker : ~Has(c, f, n)
  BY <1>1, <1>2, <1>3, FileOfReader, ItemFacts, Zenon DEF ReaderInv
<1>6. ASSUME NEW c \in BlobWorker, NEW g \in File, NEW m \in Nat
      PROVE  Has(c, g, m)' <=> Has(c, g, m) \/ (c = b /\ g = f /\ m = n)
  BY <1>4 DEF Has, StepBy, Busy
<1>7. ASSUME NEW g \in File PROVE FileInv(g)'
  <2>1. Open(g)' = Open(g)
    BY <1>3, <1>4, <1>5, <1>6, Zenon DEF Open, Types
  <2>2. (Reading(g)' <=> Reading(g)) /\ (Finishing(g)' <=> Finishing(g))
    BY <1>1, <1>4, Zenon DEF Reading, Finishing, StepOf
  <2>3. QED BY <1>4, <2>1, <2>2, FileFrame, Zenon DEF FilesOK, SameFile
<1>8. ASSUME NEW v \in FileWorker PROVE ReaderInv(v)'
  <2>1. CASE v = w
    BY <1>1, <1>2, <1>4, <2>1, Zenon DEF ReaderInv
  <2>2. CASE v # w
    BY <1>1, <1>2, <1>4, <1>6, <2>2, OtherReaders, Zenon
  <2>3. QED BY <2>1, <2>2, Zenon
<1>9. ASSUME NEW c \in BlobWorker PROVE SaverInv(c)'
  <2>1. CASE c = b
    <3>1. \A a \in BlobWorker : saver'[a] \in Busy /\ blob'[a] = <<f, n>> => a = b
      BY <1>4, <1>5, Zenon DEF Has, StepBy
    <3>2. QED BY <1>3, <1>4, <1>5, <2>1, <3>1 DEF SaverInv
  <2>2. CASE c # b
    <3>1. saver'[c] = saver[c] /\ blob'[c] = blob[c] /\ SaverInv(c)
      BY <1>4, <2>2, Zenon DEF StepBy, FilesOK
    <3>2. \A a \in BlobWorker : saver[c] \in Busy /\ saver'[a] \in Busy /\ blob'[a] = blob[c] => saver[a] \in Busy /\ blob[a] = blob[c]
      BY <1>4, <1>5, Zenon DEF Has, StepBy
    <3>3. QED BY <1>4, <3>1, <3>2, Zenon DEF SaverInv
  <2>3. QED BY <2>1, <2>2, Zenon
<1>10. QED BY <1>4, <1>7, <1>8, <1>9, Zenon DEF FilesOK

LEMMA ChunkSavedFiles ==
  ASSUME Types, FilesOK, NEW b \in BlobWorker, ChunkSaved(b)
  PROVE  FilesOK'
<1>1. SaverInv(b) /\ saver[b] = "complete" /\ saver[b] \in Busy
  BY Zenon DEF FilesOK, ChunkSaved, Busy
<1>2. PICK f \in File, n \in Nat : blob[b] = <<f, n>> /\ n \in 1 .. idx[f] /\ n \in content[f] /\ f \notin Unchanged
  BY <1>1, ItemFacts, Zenon DEF SaverInv, Types
<1>3. /\ UNCHANGED <<reader, file, idx, content, broken, accepted>>
      /\ remaining' = [remaining EXCEPT ![f] = @ - 1]
      /\ StepBy(b) /\ saver'[b] = "idle"
      /\ \/ /\ remaining[f] = 1 /\ f \notin broken
            /\ panic' = (panic \/ finished[f] > 0 \/ content[f] # 1 .. idx[f])
            /\ finished' = [finished EXCEPT ![f] = @ + 1]
            /\ future' = [future EXCEPT ![f] = "node"]
         \/ (remaining[f] # 1 \/ f \in broken) /\ UNCHANGED <<panic, finished, future>>
  BY <1>2 DEF ChunkSaved, CompleteBlob, StepBy, Types, TypeOK
<1>4. FileInv(f) /\ f \in Item /\ idx[f] \in Nat /\ content[f] \subseteq 1 .. idx[f] /\ remaining[f] \in Int
  BY ItemFacts, Zenon DEF FilesOK, Types, TypeOK
<1>5. PICK k \in Nat : Counts(k, Open(f)) /\ remaining[f] = k + Offset(f)
  BY <1>4, Zenon DEF FileInv, Counted
<1>6. \A c \in BlobWorker, g \in File, m \in Nat : Has(c, g, m)' <=> Has(c, g, m) /\ c # b
  BY <1>3, Zenon DEF Has, StepBy, Busy
<1>7. \A c \in BlobWorker, g \in File, m \in Nat : c # b /\ Has(c, g, m) => ~(g = f /\ m = n)
  BY <1>1, <1>2, ItemFacts, Zenon DEF Has, SaverInv
<1>8. Has(b, f, n) /\ \A g \in File, m \in Nat : Has(b, g, m) => g = f /\ m = n
  BY <1>1, <1>2 DEF Has
<1>9. Open(f)' = Open(f) \ {n} /\ n \in Open(f) /\ \A g \in File : g # f => Open(g)' = Open(g)
  BY <1>2, <1>3, <1>6, <1>7, <1>8 DEF Open, Types
<1>10. k > 0 /\ k - 1 \in Nat /\ Counts(k - 1, Open(f)')
  BY <1>5, <1>9, CountsLess
<1>11. remaining'[f] = remaining[f] - 1
  BY <1>3, Zenon DEF Types, TypeOK
<1>12. SaverInv(b)' /\ \A v \in FileWorker : file[v] = f => reader[v] \in {"read", "send", "finish"}
  BY <1>3, ItemFacts, Zenon DEF SaverInv, Busy, FilesOK, ReaderInv
<1>13. CASE remaining[f] = 1 /\ f \notin broken
  <2>1. ~Reading(f) /\ ~Finishing(f) /\ k = 1 /\ idx[f] = Chunks[f]
    BY <1>4, <1>5, <1>10, <1>13 DEF FileInv, Offset
  <2>2. future[f] = "pending" /\ finished[f] = 0
    BY <1>2, <1>4, <1>9, <1>13, <2>1, Zenon DEF FileInv, Reading, Types, TypeOK
  <2>3. \A v \in FileWorker : file[v] # f
    BY <1>12, <2>1, Zenon DEF Reading, Finishing
  <2>4. Open(f)' = {} /\ content[f] = 1 .. idx[f]
    <3>1. Open(f)' = {}
      BY <1>10, <2>1, CountsNone
    <3>2. QED BY <1>2, <1>4, <1>9, <3>1, ZenonT(30), Zenon DEF Open
  <2>5. ~panic'
    <3>1. ~(finished[f] > 0) /\ ~panic
      BY <2>2 DEF FilesOK
    <3>2. panic' = (panic \/ finished[f] > 0 \/ content[f] # 1 .. idx[f])
      BY <1>3, <1>13, ZenonT(40)
    <3>3. QED BY <2>4, <3>1, <3>2, Zenon
  <2>6. future'[f] = "node" /\ finished'[f] = 1 /\ \A g \in File : g # f => SameFile(g)
    BY <1>3, <1>4, <1>13, <2>2, ItemFacts DEF SameFile, Types, TypeOK
  <2>7. ~Reading(f)' /\ ~Finishing(f)'
    BY <1>2, <1>3, <2>3, <2>6, Zenon DEF Reading, Finishing
  <2>8. FileInv(f)'
    <3>1. Counted(f)'
      BY <1>5, <1>10, <1>11, <1>13, <2>1, <2>7, CountedNext DEF Offset
    <3>2. QED BY <1>2, <1>3, <1>13, <2>1, <2>4, <2>6, <2>7, <3>1, ZenonT(40) DEF FileInv
  <2>9. ASSUME NEW g \in File, g # f PROVE FileInv(g)'
    <3>1. (Reading(g)' <=> Reading(g)) /\ (Finishing(g)' <=> Finishing(g))
      BY <1>3, <2>6, <2>9, ZenonT(40) DEF Reading, Finishing, SameFile
    <3>2. QED BY <1>9, <2>6, <2>9, <3>1, FileFrame, Zenon DEF FilesOK
  <2>10. \A v \in FileWorker : file[v] # None => future'[file[v]] = future[file[v]]
    BY <2>3, <2>6 DEF SameFile, Types, TypeOK
  <2>11. QED BY <1>3, <1>6, <1>12, <2>5, <2>8, <2>9, <2>10, SaverStep, Zenon
<1>14. CASE remaining[f] # 1 \/ f \in broken
  <2>1. UNCHANGED <<panic, finished, future>>
    BY <1>3, <1>14, Zenon
  <2>2. \A g \in File : g # f => SameFile(g)
    BY <1>3, <2>1, Zenon DEF SameFile, Types, TypeOK
  <2>3. \A g \in File : (Reading(g)' <=> Reading(g)) /\ (Finishing(g)' <=> Finishing(g))
    BY <1>3, <2>1, Zenon DEF Reading, Finishing
  <2>4. FileInv(f)'
    <3>1. Offset(f)' = Offset(f) /\ Offset(f) \in Int
      BY <1>3, <1>4, <2>3 DEF Offset
    <3>2. remaining'[f] = (k - 1) + Offset(f)'
      BY <1>5, <1>10, <1>11, <3>1
    <3>3. Counted(f)'
      BY <1>10, <3>2, CountedNext, Zenon
    <3>4. QED BY <1>2, <1>3, <1>4, <1>9, <1>11, <2>1, <2>3, <3>3 DEF FileInv
  <2>5. ASSUME NEW g \in File, g # f PROVE FileInv(g)'
    BY <1>9, <2>2, <2>3, <2>5, FileFrame, Zenon DEF FilesOK
  <2>6. QED BY <1>3, <1>6, <1>12, <2>1, <2>4, <2>5, SaverStep, Zenon DEF FilesOK
<1>15. QED BY <1>13, <1>14, Zenon

LEMMA DirOfBuilder ==
  ASSUME Types, TreesOK, NEW w \in TreeWorker, builder[w] \in {"take", "send", "wait"}
  PROVE  dir[w] \in Dir /\ dir[w] \in Item /\ dir[w] \notin File /\ future[dir[w]] = "pending"
BY ItemFacts DEF Types, TypeOK, TreesOK, BuilderInv

LEMMA TreeStepFiles ==
  ASSUME Types, FilesOK, TreesOK, NEW w \in TreeWorker, TreeStep(w)
  PROVE  FilesOK'
<1>1. CASE \E b \in BlobWorker : SendTreeBlob(w, b)
  <2>1. dir[w] \in Dir
    BY <1>1, DirOfBuilder, Zenon DEF SendTreeBlob
  <2>2. QED BY <1>1, <2>1, SendTreeBlobFiles, Zenon
<1>2. CASE ~\E b \in BlobWorker : SendTreeBlob(w, b)
  <2>1. /\ UNCHANGED <<reader, file, fileVars, saver, blob, panic, accepted>>
        /\ \/ UNCHANGED future
           \/ builder[w] \in {"take", "send", "wait"} /\ \E s : future' = [future EXCEPT ![dir[w]] = s]
    BY <1>2, ZenonT(40) DEF TreeStep, TakeNode, TakeError, TreeFails, TreeBuilt, DropTreeBlob, TreeSaved, TreeWorkerStops, NoResult, FileError
  <2>2. \A f \in File : future'[f] = future[f]
    BY <2>1, DirOfBuilder, ItemFacts DEF Types, TypeOK
  <2>3. QED BY <2>1, <2>2, UntouchedFiles, Zenon
<1>3. QED BY <1>1, <1>2, Zenon

LEMMA WalkStepFiles ==
  ASSUME Types, FilesOK, WalkOK, WalkStep
  PROVE  FilesOK'
<1>1. CASE SaveUnchanged \/ SendNothing
  BY <1>1, NotReadFiles, Zenon
<1>2. CASE \E w \in FileWorker : SendFile(w)
  BY <1>2, SendFileFiles, Zenon
<1>3. CASE OpenDir \/ LeaveOut \/ WalkFails \/ StopWorkers \/ NoSnapshot \/ \E w \in TreeWorker : SendTree(w)
  <2>1. /\ UNCHANGED <<reader, file, fileVars, saver, blob, panic, accepted>>
        /\ UNCHANGED future \/ (Call("save") /\ future' = [future EXCEPT ![Current] = "pending"])
    BY <1>3, ZenonT(40) DEF OpenDir, LeaveOut, WalkFails, StopWorkers, NoSnapshot, SendTree, AddNode
  <2>2. \A f \in File : future'[f] = future[f]
    BY <2>1, CallFacts, ItemFacts DEF Types, TypeOK
  <2>3. QED BY <2>1, <2>2, UntouchedFiles, Zenon
<1>4. QED BY <1>1, <1>2, <1>3, Zenon DEF WalkStep

\* Every step keeps what is said about files.
LEMMA FilesStep ==
  ASSUME Types, FilesOK, WalkOK, TreesOK, Next
  PROVE  FilesOK'
<1>1. CASE \E w \in FileWorker : FileStep(w)
  BY <1>1, ReadChunkFiles, CompleteErrorFiles, EndOfFileFiles, FinishReadingFiles, FileWorkerStopsFiles, SendChunkFiles, Zenon DEF FileStep
<1>2. CASE \E b \in BlobWorker : BlobStep(b)
  BY <1>2, SaveBlobFiles, ChunkSavedFiles, Zenon DEF BlobStep
<1>3. CASE EndStep \/ Cancel
  <2>1. UNCHANGED <<reader, file, fileVars, saver, blob, panic, accepted>> /\ UNCHANGED future
    BY <1>3, Zenon DEF EndStep, GroupEnds, Flush, SaveSnapshot, Cancel
  <2>2. QED BY <2>1, UntouchedFiles, Zenon
<1>4. QED BY <1>1, <1>2, <1>3, TreeStepFiles, WalkStepFiles, Zenon DEF Next, Step

-----------------------------------------------------------------------------
(* Sequences of futures, and types *)

LEMMA TailType ==
  ASSUME NEW S, NEW s \in Seq(S), s # <<>>
  PROVE  Head(s) \in S /\ Tail(s) \in Seq(S) /\ RangeOf(s) = {Head(s)} \cup RangeOf(Tail(s))
<1>1. Head(s) = s[1] /\ Tail(s) \in Seq(S) /\ Len(Tail(s)) = Len(s) - 1 /\ Len(s) \in Nat /\ Len(s) > 0
      /\ \A i \in 1 .. Len(s) - 1 : Tail(s)[i] = s[i + 1]
  OBVIOUS
<1>2. s[1] \in S
  BY <1>1, ElementType
<1>3. ASSUME NEW i \in 1 .. Len(s) PROVE s[i] \in {Head(s)} \cup RangeOf(Tail(s))
  <2>1. CASE i = 1
    BY <1>1, <2>1, Zenon
  <2>2. CASE i # 1
    <3>1. i - 1 \in 1 .. Len(Tail(s)) /\ Tail(s)[i - 1] = s[i]
      BY <1>1, <2>2
    <3>2. QED BY <3>1, Zenon DEF RangeOf
  <2>3. QED BY <2>1, <2>2, Zenon
<1>4. ASSUME NEW i \in 1 .. Len(Tail(s)) PROVE Tail(s)[i] \in RangeOf(s)
  BY <1>1 DEF RangeOf
<1>5. Head(s) \in RangeOf(s)
  BY <1>1 DEF RangeOf
<1>6. QED BY <1>1, <1>2, <1>3, <1>4, <1>5, ZenonT(40) DEF RangeOf

LEMMA AppendType ==
  ASSUME NEW S, NEW s \in Seq(S), NEW x \in S
  PROVE  Append(s, x) \in Seq(S) /\ RangeOf(Append(s, x)) = RangeOf(s) \cup {x}
<1>1. Append(s, x) \in Seq(S) /\ Len(Append(s, x)) = Len(s) + 1 /\ Append(s, x)[Len(s) + 1] = x /\ Len(s) \in Nat
      /\ \A i \in 1 .. Len(s) : Append(s, x)[i] = s[i]
  OBVIOUS
<1>2. ASSUME NEW i \in 1 .. Len(s) + 1 PROVE Append(s, x)[i] \in RangeOf(s) \cup {x}
  BY <1>1 DEF RangeOf
<1>3. ASSUME NEW i \in 1 .. Len(s) PROVE s[i] \in RangeOf(Append(s, x))
  <2>1. i \in 1 .. Len(Append(s, x)) /\ Append(s, x)[i] = s[i]
    BY <1>1
  <2>2. QED BY <2>1, Zenon DEF RangeOf
<1>4. x \in RangeOf(Append(s, x))
  BY <1>1 DEF RangeOf
<1>5. QED BY <1>1, <1>2, <1>3, <1>4, Zenon DEF RangeOf

LEMMA NothingLeft == RangeOf(<<>>) = {}
BY DEF RangeOf

LEMMA AddNodeFacts ==
  ASSUME Types, NEW x \in Item, NEW s \in {"pending", "node", "closed"}, AddNode(x, s)
  PROVE  /\ nodes' \in [Dir -> Seq(Item)]
         /\ future' \in [Item -> {"none", "pending", "node", "error", "closed"}]
         /\ future'[x] = s /\ \A i \in Item : i # x => future'[i] = future[i]
         /\ \A d \in Dir : RangeOf(nodes'[d]) = RangeOf(nodes[d]) \cup {i \in {x} \ {Root} : Parent[i] = d}
<1>1. nodes \in [Dir -> Seq(Item)] /\ future \in [Item -> {"none", "pending", "node", "error", "closed"}]
  BY Zenon DEF Types, TypeOK
<1>2. CASE x = Root
  BY <1>1, <1>2, Zenon DEF AddNode
<1>3. CASE x # Root
  <2>1. Parent[x] \in Dir /\ nodes[Parent[x]] \in Seq(Item)
    BY <1>1, <1>3, ItemFacts, Zenon
  <2>2. /\ Append(nodes[Parent[x]], x) \in Seq(Item)
        /\ RangeOf(Append(nodes[Parent[x]], x)) = RangeOf(nodes[Parent[x]]) \cup {x}
    BY <2>1, AppendType
  <2>3. nodes' = [nodes EXCEPT ![Parent[x]] = Append(nodes[Parent[x]], x)]
    BY <1>3, Zenon DEF AddNode
  <2>4. nodes'[Parent[x]] = Append(nodes[Parent[x]], x) /\ \A d \in Dir : d # Parent[x] => nodes'[d] = nodes[d]
    BY <1>1, <2>1, <2>3, Zenon
  <2>5. \A d \in Dir : RangeOf(nodes'[d]) = RangeOf(nodes[d]) \cup {i \in {x} \ {Root} : Parent[i] = d}
    BY <1>3, <2>2, <2>4, ZenonT(30), Zenon
  <2>6. QED BY <1>1, <2>1, <2>2, <2>3, <2>5, Zenon DEF AddNode
<1>4. QED BY <1>2, <1>3, Zenon

LEMMA AfterBounds == \A i \in Item : After(i) \in 1 .. Len(Walk) + 1
BY LastCall, WalkTypes

\* The types of the state of each kind of goroutine.
WalkTyped ==
  pos \in 1 .. Len(Walk) + 1 /\ main \in {"walk", "take", "nil", "error"} /\ nodes \in [Dir -> Seq(Item)] /\ leftOut \subseteq Item
FutureTyped == future \in [Item -> {"none", "pending", "node", "error", "closed"}]
ReaderTyped == reader \in [FileWorker -> {"idle", "read", "send", "finish", "done"}] /\ file \in [FileWorker -> File \cup {None}]
ChunkTyped ==
  /\ idx \in [File -> Nat] /\ content \in [File -> SUBSET Nat]
  /\ \A f \in File : idx[f] \in 0 .. Chunks[f] /\ content[f] \subseteq 1 .. idx[f]
CountTyped == remaining \in [File -> Int] /\ finished \in [File -> 0 .. 1] /\ broken \subseteq File /\ panic \in BOOLEAN
SaverTyped ==
  /\ saver \in [BlobWorker -> {"idle", "save", "fill", "complete", "done"}]
  /\ blob \in [BlobWorker -> (Item \X Nat) \cup {None}]
  /\ \A b \in BlobWorker : blob[b] # None => blob[b] \in BlobsOf(blob[b][1])
TreeTyped ==
  /\ builder \in [TreeWorker -> {"idle", "take", "send", "wait", "done"}]
  /\ dir \in [TreeWorker -> Dir \cup {None}] /\ todo \in [TreeWorker -> Seq(Item)]
  /\ entries \in [Dir -> SUBSET Item] /\ answered \subseteq Dir
GroupTyped ==
  /\ stopped \in BOOLEAN /\ cancelled \in BOOLEAN /\ failed \in BOOLEAN
  /\ result \in {"none", "flush", "snapshot", "saved", "error", "hangs"}

LEMMA TypesParts ==
  ASSUME Types
  PROVE  WalkTyped /\ FutureTyped /\ ReaderTyped /\ ChunkTyped /\ CountTyped /\ SaverTyped /\ TreeTyped /\ GroupTyped
BY Zenon DEF Types, TypeOK, WalkTyped, FutureTyped, ReaderTyped, ChunkTyped, CountTyped, SaverTyped, TreeTyped, GroupTyped

LEMMA TypesJoin ==
  ASSUME WalkTyped', FutureTyped', ReaderTyped', ChunkTyped', CountTyped', SaverTyped', TreeTyped', GroupTyped'
  PROVE  Types'
BY Zenon DEF Types, TypeOK, WalkTyped, FutureTyped, ReaderTyped, ChunkTyped, CountTyped, SaverTyped, TreeTyped, GroupTyped

LEMMA SameTypes ==
  /\ WalkTyped /\ UNCHANGED <<walkVars, leftOut>> => WalkTyped'
  /\ FutureTyped /\ UNCHANGED future => FutureTyped'
  /\ ReaderTyped /\ UNCHANGED <<reader, file>> => ReaderTyped'
  /\ ChunkTyped /\ UNCHANGED <<idx, content>> => ChunkTyped'
  /\ CountTyped /\ UNCHANGED <<remaining, finished, broken, panic>> => CountTyped'
  /\ SaverTyped /\ UNCHANGED <<saver, blob>> => SaverTyped'
  /\ TreeTyped /\ UNCHANGED treeVars => TreeTyped'
  /\ GroupTyped /\ UNCHANGED <<groupVars, result>> => GroupTyped'
BY Zenon DEF walkVars, treeVars, groupVars, WalkTyped, FutureTyped, ReaderTyped, ChunkTyped, CountTyped, SaverTyped, TreeTyped, GroupTyped

LEMMA WalkStepTypes ==
  ASSUME Types, WalkStep PROVE Types'
<1>0. WalkTyped /\ FutureTyped /\ ReaderTyped /\ ChunkTyped /\ CountTyped /\ SaverTyped /\ TreeTyped /\ GroupTyped
  BY TypesParts, Zenon
<1>1. UNCHANGED <<idx, content, remaining, finished, broken, panic, saver, blob, result>>
  BY Zenon DEF WalkStep, OpenDir, LeaveOut, WalkFails, SaveUnchanged, SendFile, SendTree, SendNothing, StopWorkers, NoSnapshot, fileVars, endVars
<1>2. ChunkTyped' /\ CountTyped' /\ SaverTyped'
  BY <1>0, <1>1, SameTypes, Zenon
<1>3. CASE OpenDir \/ LeaveOut
  <2>1. UNCHANGED <<main, nodes, future, reader, file, treeVars, groupVars, result>>
    BY <1>3, Zenon DEF OpenDir, LeaveOut, endVars
  <2>2. pos' \in 1 .. Len(Walk) + 1 /\ leftOut' \subseteq Item
    <3>1. CASE OpenDir
      <4>1. pos \in Calls /\ pos' = pos + 1 /\ leftOut' = leftOut
        BY <3>1, Zenon DEF OpenDir, Call
      <4>2. leftOut \subseteq Item
        BY <1>0, Zenon DEF WalkTyped
      <4>3. pos' \in 1 .. Len(Walk) + 1
        BY <4>1, WalkTypes DEF Calls
      <4>4. QED BY <4>1, <4>2, <4>3, Zenon
    <3>2. CASE LeaveOut
      <4>1. PICK a \in Stops : pos' = After(a) /\ leftOut' = leftOut \cup {i \in Chain(pos) : After(i) <= After(a)}
        BY <3>2, Zenon DEF LeaveOut
      <4>2. pos \in Calls
        BY <3>2, Zenon DEF LeaveOut, Call
      <4>3. Chain(pos) \subseteq Item /\ a \in Item
        BY <4>1, <4>2, WalkNested, WalkTypes, PathFacts DEF Stops
      <4>4. QED BY <1>0, <4>1, <4>3, AfterBounds, Zenon DEF WalkTyped
    <3>3. QED BY <1>3, <3>1, <3>2, Zenon
  <2>3. WalkTyped'
    BY <1>0, <2>1, <2>2, Zenon DEF WalkTyped
  <2>4. QED BY <1>0, <1>2, <2>1, <2>3, SameTypes, TypesJoin, Zenon
<1>4. CASE WalkFails \/ NoSnapshot \/ StopWorkers
  <2>1. UNCHANGED <<pos, nodes, leftOut, future, reader, file, treeVars>> /\ main' \in {"nil", "error"}
    BY <1>4, Zenon DEF WalkFails, NoSnapshot, StopWorkers
  <2>2. GroupTyped'
    BY <1>0, <1>1, <1>4, ZenonT(30), Zenon DEF GroupTyped, WalkFails, NoSnapshot, StopWorkers, GroupFails
  <2>3. WalkTyped'
    BY <1>0, <2>1, Zenon DEF WalkTyped
  <2>4. QED BY <1>0, <1>2, <2>1, <2>2, <2>3, SameTypes, TypesJoin, Zenon
<1>5. CASE SaveUnchanged \/ SendNothing \/ (\E w \in FileWorker : SendFile(w)) \/ (\E w \in TreeWorker : SendTree(w))
  <2>1. /\ Call("file") \/ Call("save")
        /\ \E s \in {"pending", "node", "closed"} : AddNode(Current, s)
        /\ pos' = pos + 1 /\ UNCHANGED <<leftOut, groupVars, result>> /\ main' \in {main, "take"}
    BY <1>5, Zenon DEF SaveUnchanged, SendNothing, SendFile, SendTree, endVars
  <2>2. Current \in Item /\ pos' \in 1 .. Len(Walk) + 1
    BY <2>1, CallFacts, WalkTypes
  <2>3. WalkTyped' /\ FutureTyped'
    BY <1>0, <2>1, <2>2, AddNodeFacts, Zenon DEF WalkTyped, FutureTyped
  <2>4. ReaderTyped'
    <3>1. CASE UNCHANGED <<reader, file>>
      BY <1>0, <3>1, SameTypes, Zenon
    <3>2. ASSUME NEW w \in FileWorker, SendFile(w) PROVE ReaderTyped'
      BY <1>0, <3>2, CallFacts, Zenon DEF SendFile, ReaderTyped
    <3>3. QED BY <1>5, <3>1, <3>2, Zenon DEF SaveUnchanged, SendNothing, SendTree
  <2>5. TreeTyped'
    <3>1. CASE UNCHANGED treeVars
      BY <1>0, <3>1, SameTypes, Zenon
    <3>2. ASSUME NEW w \in TreeWorker, SendTree(w) PROVE TreeTyped'
      <4>1. Current \in Dir /\ nodes[Current] \in Seq(Item)
        BY <1>0, <3>2, CallFacts, Zenon DEF SendTree, WalkTyped
      <4>2. QED BY <1>0, <3>2, <4>1, Zenon DEF SendTree, TreeTyped
    <3>3. QED BY <1>5, <3>1, <3>2, Zenon DEF SaveUnchanged, SendNothing, SendFile
  <2>6. QED BY <1>0, <1>2, <2>1, <2>3, <2>4, <2>5, SameTypes, TypesJoin, Zenon
<1>6. QED BY <1>3, <1>4, <1>5, Zenon DEF WalkStep

\* saveFile finishes a file once.
LEMMA CountsTyped ==
  ASSUME Types, FilesOK', NEW f \in File, CompleteBlob(f) \/ (\E w \in FileWorker : file[w] = f /\ CompleteError(w))
  PROVE  CountTyped' /\ FutureTyped'
<1>1. CountTyped /\ FutureTyped /\ f \in Item
  BY TypesParts, ItemFacts, Zenon
<1>2. /\ remaining' \in [File -> Int] /\ broken' \subseteq File
      /\ finished' = finished \/ finished' = [finished EXCEPT ![f] = @ + 1]
      /\ FutureTyped'
  BY <1>1, SMTT(30) DEF CompleteBlob, CompleteError, CountTyped, FutureTyped
<1>3. ~panic' /\ \A g \in File : finished'[g] \in 0 .. 1
  BY DEF FilesOK, FileInv
<1>4. finished' \in [File -> 0 .. 1] /\ panic' = FALSE
  <2>1. finished' \in [File -> Int]
    BY <1>1, <1>2 DEF CountTyped
  <2>2. panic' \in BOOLEAN
    BY <1>1, ZenonT(30), Zenon DEF CompleteBlob, CompleteError, CountTyped
  <2>3. QED BY <1>3, <2>1, <2>2, Zenon
<1>5. QED BY <1>2, <1>4, ZenonT(30), Zenon DEF CountTyped

LEMMA FileStepTypes ==
  ASSUME Types, FilesOK, FilesOK', NEW w \in FileWorker, FileStep(w) PROVE Types'
<1>0. WalkTyped /\ FutureTyped /\ ReaderTyped /\ ChunkTyped /\ CountTyped /\ SaverTyped /\ TreeTyped /\ GroupTyped
  BY TypesParts, Zenon
<1>1. UNCHANGED <<walkVars, leftOut, treeVars, groupVars, result>>
  BY Zenon DEF FileStep, ReadChunk, ReadFails, DropChunk, CompleteError, EndOfFile, FinishReading, FileWorkerStops, SendChunk, endVars
<1>2. WalkTyped' /\ TreeTyped' /\ GroupTyped'
  BY <1>0, <1>1, SameTypes, Zenon
<1>3. CASE FileWorkerStops(w)
  <2>1. ReaderTyped' /\ UNCHANGED <<future, idx, content, remaining, finished, broken, panic, saver, blob>>
    BY <1>0, <1>3, Zenon DEF FileWorkerStops, fileVars, ReaderTyped
  <2>2. QED BY <1>0, <1>2, <2>1, SameTypes, TypesJoin, Zenon
<1>4. CASE ~FileWorkerStops(w)
  <2>1. PICK f \in File : file[w] = f
    <3>1. file[w] # None
      BY <1>4, ZenonT(30), Zenon DEF FilesOK, ReaderInv, FileStep, ReadChunk, ReadFails, DropChunk, EndOfFile, FinishReading, SendChunk
    <3>2. QED BY <3>1, FileOfReader, Zenon
  <2>2. CASE ReadChunk(w)
    <3>1. ReaderTyped' /\ UNCHANGED <<future, remaining, finished, broken, panic, saver, blob>>
      BY <1>0, <2>2, Zenon DEF ReadChunk, ReaderTyped
    <3>2. ChunkTyped'
      <4>1. idx' = [idx EXCEPT ![f] = @ + 1] /\ content' = content /\ idx[f] < Chunks[f] /\ Chunks[f] \in Nat
        BY <2>1, <2>2, ItemFacts, Zenon DEF ReadChunk
      <4>2. ChunkTyped
        BY <1>0, Zenon
      <4>3. QED BY <4>1, <4>2 DEF ChunkTyped
    <3>3. QED BY <1>0, <1>2, <3>1, <3>2, SameTypes, TypesJoin, Zenon
  <2>3. CASE ReadFails(w) \/ DropChunk(w) \/ FinishReading(w)
    <3>1. ReaderTyped' /\ UNCHANGED <<idx, content, saver, blob>>
      BY <1>0, <2>3, Zenon DEF ReadFails, DropChunk, CompleteError, FinishReading, CompleteBlob, ReaderTyped
    <3>2. CountTyped' /\ FutureTyped'
      BY <2>1, <2>3, CountsTyped, Zenon DEF ReadFails, DropChunk, FinishReading
    <3>3. QED BY <1>0, <1>2, <3>1, <3>2, SameTypes, TypesJoin, Zenon
  <2>4. CASE EndOfFile(w)
    <3>1. ReaderTyped' /\ UNCHANGED <<future, idx, content, saver, blob>>
      BY <1>0, <2>4, ZenonT(30), Zenon DEF EndOfFile, ReaderTyped
    <3>2. CountTyped'
      BY <1>0, <2>1, <2>4 DEF EndOfFile, CountTyped, ChunkTyped
    <3>3. QED BY <1>0, <1>2, <3>1, <3>2, SameTypes, TypesJoin, Zenon
  <2>5. ASSUME NEW b \in BlobWorker, SendChunk(w, b) PROVE Types'
    <3>1. ReaderTyped' /\ UNCHANGED <<future, idx, content, remaining, finished, broken, panic>>
      BY <1>0, <2>5, Zenon DEF SendChunk, ReaderTyped, fileVars
    <3>2. idx[f] \in 1 .. Chunks[f] /\ f \notin Dir /\ f \in Item
      <4>1. idx[f] > 0
        BY <2>1, <2>5, Zenon DEF FilesOK, ReaderInv, SendChunk
      <4>2. QED BY <1>0, <4>1, ItemFacts DEF ChunkTyped
    <3>3. <<f, idx[f]>> \in BlobsOf(f) /\ <<f, idx[f]>> \in Item \X Nat
      BY <3>2 DEF BlobsOf
    <3>4. SaverTyped'
      BY <1>0, <2>1, <2>5, <3>3, Zenon DEF SendChunk, SaverTyped
    <3>5. QED BY <1>0, <1>2, <3>1, <3>4, SameTypes, TypesJoin, Zenon
  <2>6. QED BY <1>4, <2>2, <2>3, <2>4, <2>5, Zenon DEF FileStep
<1>5. QED BY <1>3, <1>4, Zenon

LEMMA BlobOfSaver ==
  ASSUME Types, FilesOK, NEW b \in BlobWorker, saver[b] \in Busy
  PROVE  \/ \E d \in Dir : blob[b] = <<d, 0>> /\ d \in Item /\ d \notin File /\ saver[b] # "complete"
         \/ \E f \in File, n \in Nat : blob[b] = <<f, n>> /\ f \notin Dir /\ f \in Item /\ n \in 1 .. idx[f]
<1>1. SaverInv(b)
  BY Zenon DEF FilesOK
<1>2. CASE blob[b][1] \in Dir /\ blob[b] = <<blob[b][1], 0>> /\ saver[b] # "complete"
  BY <1>2, ItemFacts, Zenon
<1>3. CASE blob[b][1] \in File \ Unchanged /\ blob[b] = <<blob[b][1], blob[b][2]>> /\ blob[b][2] \in 1 .. idx[blob[b][1]]
  BY <1>3, ItemFacts DEF Types
<1>4. QED BY <1>1, <1>2, <1>3, Zenon DEF SaverInv

LEMMA BlobStepTypes ==
  ASSUME Types, FilesOK, FilesOK', NEW b \in BlobWorker, BlobStep(b) PROVE Types'
<1>0. WalkTyped /\ FutureTyped /\ ReaderTyped /\ ChunkTyped /\ CountTyped /\ SaverTyped /\ TreeTyped /\ GroupTyped
  BY TypesParts, Zenon
<1>1. UNCHANGED <<walkVars, leftOut, reader, file, result>>
  BY SMTT(30) DEF BlobStep, SaveBlob, SaveBlobFails, FillContent, ChunkSaved, TreeBlobSaved, BlobWorkerStops, endVars
<1>2. SaverTyped'
  BY <1>0, Zenon DEF BlobStep, SaveBlob, SaveBlobFails, FillContent, ChunkSaved, TreeBlobSaved, BlobWorkerStops, SaverTyped
<1>3. GroupTyped'
  BY <1>0, <1>1, ZenonT(30), Zenon DEF BlobStep, SaveBlob, SaveBlobFails, FillContent, ChunkSaved, TreeBlobSaved, BlobWorkerStops, GroupFails, groupVars, GroupTyped
<1>4. TreeTyped'
  <2>1. CASE TreeBlobSaved(b)
    BY <1>0, <2>1, Zenon DEF TreeBlobSaved, TreeTyped
  <2>2. CASE UNCHANGED treeVars
    BY <1>0, <2>2, SameTypes, Zenon
  <2>3. QED BY <2>1, <2>2, ZenonT(30), Zenon DEF BlobStep, SaveBlob, SaveBlobFails, FillContent, ChunkSaved, BlobWorkerStops
<1>5. CASE FillContent(b)
  <2>1. PICK f \in File, n \in Nat : blob[b] = <<f, n>> /\ n \in 1 .. idx[f]
    <3>1. saver[b] \in Busy /\ blob[b][1] \in File
      BY <1>5, Zenon DEF FillContent, Busy
    <3>2. QED BY <3>1, BlobOfSaver, SMTT(30)
  <2>2. content' = [content EXCEPT ![f] = @ \cup {n}] /\ UNCHANGED <<future, idx, remaining, finished, broken, panic>>
    BY <1>5, <2>1 DEF FillContent
  <2>3. ChunkTyped'
    BY <1>0, <2>1, <2>2, Zenon DEF ChunkTyped
  <2>4. QED BY <1>0, <1>1, <1>2, <1>3, <1>4, <2>2, <2>3, SameTypes, TypesJoin, ZenonT(40)
<1>6. CASE ChunkSaved(b)
  <2>1. PICK f \in File, n \in Nat : blob[b] = <<f, n>>
    BY <1>6, BlobOfSaver, Zenon DEF ChunkSaved, Busy
  <2>2. CompleteBlob(f) /\ UNCHANGED <<idx, content>>
    BY <1>6, <2>1 DEF ChunkSaved, CompleteBlob
  <2>3. QED BY <1>0, <1>1, <1>2, <1>3, <1>4, <2>2, SameTypes, TypesJoin, CountsTyped, Zenon
<1>7. CASE SaveBlob(b) \/ SaveBlobFails(b) \/ TreeBlobSaved(b) \/ BlobWorkerStops(b)
  <2>1. UNCHANGED <<future, idx, content, remaining, finished, broken, panic>>
    BY <1>7, Zenon DEF SaveBlob, SaveBlobFails, TreeBlobSaved, BlobWorkerStops, fileVars
  <2>2. QED BY <1>0, <1>1, <1>2, <1>3, <1>4, <2>1, SameTypes, TypesJoin, Zenon
<1>8. QED BY <1>5, <1>6, <1>7, ZenonT(40) DEF BlobStep

LEMMA TreeStepTypes ==
  ASSUME Types, TreesOK, NEW w \in TreeWorker, TreeStep(w) PROVE Types'
<1>0. WalkTyped /\ FutureTyped /\ ReaderTyped /\ ChunkTyped /\ CountTyped /\ SaverTyped /\ TreeTyped /\ GroupTyped
  BY TypesParts, Zenon
<1>1. todo[w] # <<>> => Head(todo[w]) \in Item /\ Tail(todo[w]) \in Seq(Item)
  BY <1>0, TailType, Zenon DEF TreeTyped
<1>2. builder[w] \in {"take", "send", "wait"} => dir[w] \in Dir /\ dir[w] \in Item
  BY DirOfBuilder, Zenon
<1>3. UNCHANGED <<walkVars, reader, file, idx, content, remaining, finished, broken, panic, result>>
  BY Zenon DEF TreeStep, TakeNode, TakeError, TreeFails, TreeBuilt, DropTreeBlob, TreeSaved, TreeWorkerStops, SendTreeBlob, fileVars, endVars
<1>4. CASE TakeNode(w) \/ TakeError(w)
  <2>1. UNCHANGED <<future, saver, blob, groupVars>> /\ leftOut' \subseteq Item
    BY <1>0, <1>1, <1>4, Zenon DEF TakeNode, TakeError, NoResult, FileError, WalkTyped
  <2>2. WalkTyped'
    BY <1>0, <1>3, <2>1, Zenon DEF WalkTyped, walkVars
  <2>3. TreeTyped'
    <3>1. /\ todo' = [todo EXCEPT ![w] = Tail(@)] /\ Tail(todo[w]) \in Seq(Item) /\ UNCHANGED <<builder, dir, answered>>
          /\ entries' = entries \/ \E d \in Dir, i \in Item : entries' = [entries EXCEPT ![d] = @ \cup {i}]
      BY <1>1, <1>2, <1>4, Zenon DEF TakeNode, TakeError, NoResult, FileError
    <3>2. QED BY <1>0, <3>1, ZenonT(30), Zenon DEF TreeTyped
  <2>4. QED BY <1>0, <1>3, <2>1, <2>2, <2>3, SameTypes, TypesJoin, Zenon
<1>5. CASE TreeFails(w)
  <2>1. UNCHANGED <<saver, blob, leftOut>> /\ FutureTyped'
    BY <1>0, <1>2, <1>5, Zenon DEF TreeFails, NoResult, FileError, FutureTyped
  <2>2. TreeTyped' /\ GroupTyped'
    BY <1>0, <1>3, <1>5 DEF TreeFails, GroupFails, TreeTyped, GroupTyped
  <2>3. QED BY <1>0, <1>3, <2>1, <2>2, SameTypes, TypesJoin, Zenon
<1>6. CASE TreeBuilt(w) \/ DropTreeBlob(w) \/ TreeSaved(w) \/ TreeWorkerStops(w)
  <2>1. UNCHANGED <<saver, blob, leftOut, groupVars>> /\ FutureTyped'
    BY <1>0, <1>2, <1>6, Zenon DEF TreeBuilt, DropTreeBlob, TreeSaved, TreeWorkerStops, FutureTyped
  <2>2. TreeTyped'
    BY <1>0, <1>6, ZenonT(30), Zenon DEF TreeBuilt, DropTreeBlob, TreeSaved, TreeWorkerStops, TreeTyped
  <2>3. QED BY <1>0, <1>3, <2>1, <2>2, SameTypes, TypesJoin, Zenon
<1>7. ASSUME NEW b \in BlobWorker, SendTreeBlob(w, b) PROVE Types'
  <2>1. UNCHANGED <<future, leftOut, groupVars>> /\ TreeTyped'
    BY <1>0, <1>7, Zenon DEF SendTreeBlob, TreeTyped
  <2>2. <<dir[w], 0>> \in BlobsOf(dir[w]) /\ <<dir[w], 0>> \in Item \X Nat
    BY <1>2, <1>7, Zenon DEF BlobsOf, SendTreeBlob
  <2>3. SaverTyped'
    BY <1>0, <1>7, <2>2, Zenon DEF SendTreeBlob, SaverTyped
  <2>4. QED BY <1>0, <1>3, <2>1, <2>3, SameTypes, TypesJoin, Zenon
<1>8. QED BY <1>4, <1>5, <1>6, <1>7, Zenon DEF TreeStep

\* Every step keeps the types.
LEMMA TypesStep ==
  ASSUME Types, FilesOK, FilesOK', TreesOK, Next PROVE Types'
<1>1. CASE EndStep \/ Cancel
  <2>1. WalkTyped /\ FutureTyped /\ ReaderTyped /\ ChunkTyped /\ CountTyped /\ SaverTyped /\ TreeTyped /\ GroupTyped
    BY TypesParts, Zenon
  <2>2. UNCHANGED <<walkVars, leftOut, future, reader, file, idx, content, remaining, finished, broken, panic, saver, blob, treeVars>>
    BY <1>1, Zenon DEF EndStep, GroupEnds, Flush, SaveSnapshot, Cancel, fileVars
  <2>3. GroupTyped'
    BY <1>1, <2>1, ZenonT(30), Zenon DEF EndStep, GroupEnds, Flush, SaveSnapshot, Cancel, groupVars, endVars, GroupTyped
  <2>4. QED BY <2>1, <2>2, <2>3, SameTypes, TypesJoin, Zenon
<1>2. QED BY <1>1, WalkStepTypes, FileStepTypes, BlobStepTypes, TreeStepTypes, Zenon DEF Next, Step
=============================================================================
