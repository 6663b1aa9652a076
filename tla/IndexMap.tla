------------------------------ MODULE IndexMap ------------------------------
(***************************************************************************)
(* internal/index/indexmap.go: the chained hash table of an Index, and the *)
(* hashed array tree that holds its entries.  Positions of entries count   *)
(* from 0; position 0 is the null entry.  Blocks are sequences, a block    *)
(* that is not allocated is <<>>.                                          *)
(***************************************************************************)
EXTENDS Naturals, SequencesExt

CONSTANTS
  Key,             \* blob IDs
  HashOf,          \* their hashes, before they are cut to the number of buckets
  InitialBuckets,  \* initialBuckets, a power of two
  BlockPower,      \* blockSizePower of a new tree
  MaxLoad,         \* maxLoad
  MaxAdds          \* bound: calls of add

VARIABLES
  table,           \* the indexMap
  added            \* what add was called with, in order

mapVars == <<table, added>>

ZeroEntry == [id |-> "null", val |-> 0, next |-> 0]

-----------------------------------------------------------------------------
(* The hashed array tree.                                                  *)

NewHAT == [mask |-> 2^BlockPower - 1, shift |-> BlockPower, blockSize |-> 2^BlockPower,
           size |-> 0, blocks |-> [i \in 1..2^BlockPower |-> <<>>]]

Block(h, pos) == 1 + pos \div 2^h.shift
Sub(h, pos) == 1 + (pos % (h.mask + 1))

\* grow, when the list of blocks is full: pairs of blocks are merged.
Doubled(h) ==
  [h EXCEPT !.blockSize = 2 * @, !.mask = 2 * @ + 1, !.shift = @ + 1,
            !.blocks = [i \in 1..2*h.blockSize |-> IF 2*i <= Len(@) THEN @[2*i - 1] \o @[2*i] ELSE <<>>]]

\* grow: the block that the new entry goes to is allocated when its first entry is.
GrowHAT(h) ==
  LET full == Block(h, h.size) > Len(h.blocks)
      g == IF full THEN Doubled(h) ELSE h
      blk == IF full THEN 1 + (Block(h, h.size) - 1) \div 2 ELSE Block(h, h.size)
  IN IF Sub(h, h.size) = 1
       THEN [g EXCEPT !.blocks[blk] = [i \in 1..g.blockSize |-> ZeroEntry]]
       ELSE g

Alloc(h) == [GrowHAT(h) EXCEPT !.size = @ + 1]

Ref(h, pos) == h.blocks[Block(h, pos)][Sub(h, pos)]

SetEntry(h, pos, e) == [h EXCEPT !.blocks[Block(h, pos)][Sub(h, pos)] = e]

-----------------------------------------------------------------------------
(* The hash table.                                                         *)

EmptyMap == [buckets |-> <<>>, num |-> 0, hat |-> NewHAT]

Bucket(m, id) == 1 + (HashOf[id] % Len(m.buckets))

\* Lazy initialisation: the first entry of the tree serves as null.
InitMap == [buckets |-> [i \in 1..InitialBuckets |-> 0], num |-> 0, hat |-> Alloc(NewHAT)]

\* Puts the entry at pos in front of its chain.
Prepend(m, pos) ==
  LET e == Ref(m.hat, pos)
      b == Bucket(m, e.id)
  IN [m EXCEPT !.hat = SetEntry(@, pos, [e EXCEPT !.next = m.buckets[b]]), !.buckets[b] = pos]

\* grow that leaves the last entry out of the new chains.
GrowMissesLast(m) ==
  FoldLeft(Prepend, [m EXCEPT !.buckets = [i \in 1..2*Len(@) |-> 0]],
           [i \in 1..m.hat.size - 2 |-> i])

GrowMap(m) ==
  FoldLeft(Prepend, [m EXCEPT !.buckets = [i \in 1..2*Len(@) |-> 0]],
           [i \in 1..m.hat.size - 1 |-> i])

MapAdd(m, id, val) ==
  LET g == CASE m.num = 0 -> InitMap
             [] m.num > 0 /\ m.num >= MaxLoad * Len(m.buckets) -> GrowMap(m)
             [] OTHER -> m
      pos == g.hat.size
      h == SetEntry(Alloc(g.hat), pos, [id |-> id, val |-> val, next |-> 0])
  IN [Prepend([g EXCEPT !.hat = h], pos) EXCEPT !.num = @ + 1]

Foreach(m) == [i \in 1..(IF m.num = 0 THEN 0 ELSE m.hat.size - 1) |-> Ref(m.hat, i)]

\* The entries of the chain that starts at pos.
ChainFrom(m, pos) ==
  LET chain[p \in 0..m.hat.size] ==
        IF p = 0 THEN <<>> ELSE <<Ref(m.hat, p)>> \o chain[Ref(m.hat, p).next]
  IN chain[pos]

ForeachWithID(m, id) ==
  IF m.buckets = <<>> THEN <<>>
  ELSE SelectSeq(ChainFrom(m, m.buckets[Bucket(m, id)]), LAMBDA e : e.id = id)

FirstOf(s) == IF s = <<>> THEN <<>> ELSE <<Head(s)>>

\* The first entry of the chain with that ID, as a sequence of at most one.
Get(m, id) == FirstOf(ForeachWithID(m, id))

-----------------------------------------------------------------------------
MapInit == table = EmptyMap /\ added = <<>>

AddEntry(id) ==
  /\ Len(added) < MaxAdds
  /\ table' = MapAdd(table, id, Len(added) + 1)
  /\ added' = Append(added, [id |-> id, val |-> Len(added) + 1])

MapNext == \E id \in Key : AddEntry(id)

-----------------------------------------------------------------------------
AddedAs(es) == [i \in DOMAIN es |-> [id |-> es[i].id, val |-> es[i].val]]

\* foreachWithID finds every entry that was added for an ID, each once, the latest first,
\* and get finds the latest, however often the buckets and the blocks have been doubled.
LookupExact ==
  \A id \in Key :
    LET own == Reverse(SelectSeq(added, LAMBDA e : e.id = id))
    IN /\ AddedAs(ForeachWithID(table, id)) = own
       /\ AddedAs(Get(table, id)) = FirstOf(own)

\* foreach gives the entries in the order of the calls of add: the position of an entry
\* never changes, although grow of the hashedArrayTree moves all entries to other blocks.
OrderKept == AddedAs(Foreach(table)) = added /\ table.num = Len(added)

\* The hash table is right while it grows: it finds the entries of a key and no others, and
\* foreach passes them in the order in which they were added.
TableExact == LookupExact /\ OrderKept
=============================================================================
