--------------------------------- MODULE Dump ---------------------------------
(***************************************************************************)
(* Dumping a tree as an archive (internal/dump) through the cache of blobs *)
(* (internal/bloblru).                                                     *)
(*                                                                         *)
(* A goroutine walks the tree and sends the nodes over a channel; the      *)
(* caller writes them.  Blobs go through an LRU cache, and the buffer of a *)
(* blob that was evicted is used for the next download.  A node is a       *)
(* record of type, content (a sequence of blobs), whether it is at the     *)
(* top, and the subtree that must have been loaded to reach it.            *)
(***************************************************************************)
EXTENDS Naturals, Sequences, FiniteSets, SequencesExt

CONSTANTS
  DumpNodes,       \* the nodes in the order of the walk
  BlobLen,         \* the length of each blob
  CacheSize,       \* the size of the cache
  Overhead,        \* what an entry takes besides its buffer
  DumpCap,         \* the capacity of the channel
  DumpFaults       \* what may fail: "tree", "blob", "write", "cancel"

ASSUME DumpAssumption ==
  /\ CacheSize \in Nat /\ Overhead \in Nat /\ DumpCap \in Nat
  /\ DumpFaults \subseteq {"tree", "blob", "write", "cancel"}

VARIABLES
  at,              \* how many nodes the walk has passed
  sender,          \* "run", "ended", or "broken": ended by an error, which is lost
  ch,              \* the channel
  current,         \* the number of the node that is being written (0: none)
  blobAt,          \* how many of its blobs are written
  lru,             \* the entries of the cache, the oldest first: records of id and buf
  free,            \* Cache.free
  mem,             \* what is in each buffer; a buffer is a record of number and cap
  spare,           \* the buffer that Add returned, as a set
  archive,         \* what was written: numbers of nodes and blobs
  over,            \* whether the context is cancelled, which the end of DumpTree does too
  abandoned,       \* whether the caller has cancelled it
  dumped           \* what DumpTree has returned

walkerVars == <<at, sender>>
cacheVars == <<lru, free, mem, spare>>
dumpVars == <<walkerVars, ch, current, blobAt, cacheVars, archive, over, abandoned, dumped>>

DumpInit ==
  /\ at = 0 /\ sender = "run" /\ ch = <<>>
  /\ current = 0 /\ blobAt = 0
  /\ lru = <<>> /\ free = CacheSize /\ mem = <<>> /\ spare = {}
  /\ archive = <<>> /\ over = FALSE /\ abandoned = FALSE /\ dumped = "none"

DumpTypeOK ==
  /\ at \in 0 .. Len(DumpNodes)
  /\ sender \in {"run", "ended", "broken"}
  /\ Len(ch) <= DumpCap
  /\ current \in 0 .. Len(DumpNodes)
  /\ free \in 0 .. CacheSize
  /\ Cardinality(spare) <= 1
  /\ dumped \in {"none", "nil", "error"}

-----------------------------------------------------------------------------
(* sendTrees and sendNodes *)

\* Nodes of other types are sent only at the top.
Sent(n) == n.top \/ n.type \in {"file", "dir", "symlink"}

SendNode ==
  /\ sender = "run" /\ at < Len(DumpNodes)
  /\ LET n == DumpNodes[at + 1]
     IN  IF Sent(n) THEN Len(ch) < DumpCap /\ ch' = Append(ch, at + 1) ELSE UNCHANGED ch
  /\ at' = at + 1
  /\ UNCHANGED <<sender, current, blobAt, cacheVars, archive, over, abandoned, dumped>>

\* The walk ends and closes the channel: at its end, or when a tree cannot be loaded or the
\* context is cancelled.
SenderEnds ==
  /\ sender = "run"
  /\ \/ at = Len(DumpNodes) /\ sender' = "ended"
     \/ at < Len(DumpNodes) /\ "tree" \in DumpFaults /\ ~DumpNodes[at + 1].top /\ sender' = "broken"
     \/ at < Len(DumpNodes) /\ over /\ sender' = "broken"
  /\ UNCHANGED <<at, ch, current, blobAt, cacheVars, archive, over, abandoned, dumped>>

-----------------------------------------------------------------------------
(* The cache *)

SizeOf(buf) == buf.cap + Overhead

\* How many entries RemoveOldest removes until there is room for a buffer of this size.
Evicted(size) ==
  CHOOSE k \in 0 .. Len(lru) :
    LET freed(j) == free + FoldLeft(LAMBDA a, e : a + SizeOf(e.buf), 0, SubSeq(lru, 1, j))
    IN  freed(k) >= size /\ \A j \in 0 .. k - 1 : freed(j) < size

\* The largest buffer of the entries, the first of them if there are several.
Largest(es) ==
  IF es = <<>> THEN {}
  ELSE {es[CHOOSE i \in DOMAIN es : /\ \A j \in DOMAIN es : es[j].buf.cap <= es[i].buf.cap
                                    /\ \A j \in 1 .. i - 1 : es[j].buf.cap < es[i].buf.cap].buf}

\* Mutant of CacheAdd: the oldest buffer is returned for use even if it stays.
CacheAddShares(id, buf) ==
  LET k == Evicted(SizeOf(buf))
      rest == IF lru = <<>> THEN <<>> ELSE SubSeq(lru, k + 1, Len(lru))
  IN  IF SizeOf(buf) > CacheSize THEN spare' = {} /\ UNCHANGED <<lru, free>>
      ELSE /\ lru' = Append(rest, [id |-> id, buf |-> buf])
           /\ free' = free + FoldLeft(LAMBDA a, e : a + SizeOf(e.buf), 0, SubSeq(lru, 1, k)) - SizeOf(buf)
           /\ spare' = IF lru = <<>> THEN {} ELSE {lru[1].buf}

\* Add, for a blob that is not in the cache.  The buffer that it returns is no longer in use.
CacheAdd(id, buf) ==
  LET k == Evicted(SizeOf(buf))
      out == IF k = 0 THEN <<>> ELSE SubSeq(lru, 1, k)
      rest == IF lru = <<>> THEN <<>> ELSE SubSeq(lru, k + 1, Len(lru))
  IN  IF SizeOf(buf) > CacheSize THEN spare' = {} /\ UNCHANGED <<lru, free>>
      ELSE /\ lru' = Append(rest, [id |-> id, buf |-> buf])
           /\ free' = free + FoldLeft(LAMBDA a, e : a + SizeOf(e.buf), 0, out) - SizeOf(buf)
           /\ spare' = Largest(out)

\* Get makes the entry the newest one.
CacheGet(id) ==
  LET i == CHOOSE j \in DOMAIN lru : lru[j].id = id
  IN  lru' = Append(RemoveAt(lru, i), lru[i])

Cached(id) == \E i \in DOMAIN lru : lru[i].id = id

-----------------------------------------------------------------------------
(* DumpTree: dumpTar or dumpZip, and writeNode *)

\* The header of the next node.
TakeNode ==
  /\ dumped = "none" /\ current = 0 /\ ch # <<>>
  /\ current' = Head(ch) /\ ch' = Tail(ch) /\ blobAt' = 0
  /\ archive' = Append(archive, <<Head(ch), "header">>)
  /\ UNCHANGED <<walkerVars, cacheVars, over, abandoned, dumped>>

\* LoadBlob uses the spare buffer if it is large enough, or a new one.
LoadBlob(id) ==
  LET fits == {b \in spare : b.cap >= BlobLen[id]}
      new == [number |-> Len(mem) + 1, cap |-> BlobLen[id]]
  IN  IF fits = {} THEN new ELSE CHOOSE b \in fits : TRUE

WriteBlob ==
  /\ current # 0 /\ blobAt < Len(DumpNodes[current].content)
  /\ LET id == DumpNodes[current].content[blobAt + 1]
         buf == LoadBlob(id)
         entry == lru[CHOOSE j \in DOMAIN lru : lru[j].id = id]
     IN  \/ /\ Cached(id)
            /\ CacheGet(id)
            /\ archive' = Append(archive, <<current, mem[entry.buf.number]>>)
            /\ UNCHANGED <<free, mem, spare>>
         \/ /\ ~Cached(id)
            /\ mem' = IF buf.number > Len(mem) THEN Append(mem, id) ELSE [mem EXCEPT ![buf.number] = id]
            /\ CacheAdd(id, buf)
            /\ archive' = Append(archive, <<current, id>>)
  /\ blobAt' = blobAt + 1
  /\ UNCHANGED <<walkerVars, ch, current, over, abandoned, dumped>>

NodeWritten ==
  /\ current # 0 /\ blobAt = Len(DumpNodes[current].content)
  /\ current' = 0
  /\ UNCHANGED <<walkerVars, ch, blobAt, cacheVars, archive, over, abandoned, dumped>>

\* DumpTree returns when the channel is closed, or an error when a blob cannot be loaded or
\* written; its context ends with it.
DumpReturns ==
  /\ dumped = "none"
  /\ \/ current = 0 /\ ch = <<>> /\ sender # "run" /\ dumped' = "nil"
     \/ current # 0 /\ ("write" \in DumpFaults \/ ("blob" \in DumpFaults /\ blobAt < Len(DumpNodes[current].content)))
        /\ dumped' = "error"
  /\ current' = 0 /\ over' = TRUE
  /\ UNCHANGED <<walkerVars, ch, blobAt, cacheVars, archive, abandoned>>

DumpCancelled ==
  /\ "cancel" \in DumpFaults /\ dumped = "none" /\ ~over
  /\ over' = TRUE /\ abandoned' = TRUE
  /\ UNCHANGED <<walkerVars, ch, current, blobAt, cacheVars, archive, dumped>>

DumpNext ==
  SendNode \/ SenderEnds \/ TakeNode \/ WriteBlob \/ NodeWritten \/ DumpReturns \/ DumpCancelled

-----------------------------------------------------------------------------
(* Properties *)

\* A blob in the cache is what its ID says: no buffer is given out for reuse while it is cached.
\* Cache.free is what the buffers leave of the size.
CacheTrue ==
  /\ \A i \in DOMAIN lru : mem[lru[i].buf.number] = lru[i].id /\ lru[i].buf \notin spare
  /\ free + FoldLeft(LAMBDA a, e : a + SizeOf(e.buf), 0, lru) = CacheSize

\* The archive of the whole tree.
Whole ==
  FlattenSeq([i \in DOMAIN DumpNodes |->
    IF Sent(DumpNodes[i])
    THEN <<<<i, "header">>>> \o [k \in DOMAIN DumpNodes[i].content |-> <<i, DumpNodes[i].content[k]>>]
    ELSE <<>>])

\* When DumpTree returns nil, the archive has all nodes with all their blobs in order, unless a
\* tree could not be loaded or the caller cancelled: these errors end the walk and are not
\* returned.
DumpComplete == (dumped = "nil" /\ sender = "ended") => archive = Whole

\* DumpTree writes what the snapshot has: the archive is complete when it returns nil, unless the
\* walk ended early, and blobs in the cache keep their bytes, although buffers are used again.
DumpExact == DumpTypeOK /\ CacheTrue /\ DumpComplete
=============================================================================
