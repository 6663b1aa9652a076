----------------------------- MODULE PackHeader -----------------------------
(***************************************************************************)
(* pack/pack.go: how a Packer writes the header of a pack and how List     *)
(* reads it back, from the end of a file whose header is read eagerly.     *)
(*                                                                         *)
(* A file is a sequence of cells: one for each unit of a blob's data, for  *)
(* each field of a header entry, for the nonce and the MAC of the header   *)
(* and for the length of the header.  A cell is <<kind, value>>.  The      *)
(* sizes below count cells.                                                *)
(***************************************************************************)
EXTENDS Naturals, SequencesExt

CONSTANTS
  PackBlob,       \* what may be added: [type, id, len, ulen]
  EagerEntries,   \* eagerEntries
  MaxHeader,      \* MaxHeaderSize
  MaxPacked       \* bound: blobs in a pack

VARIABLES
  packed,         \* Packer.blobs
  written,        \* Packer.bytes
  file,           \* what has been written
  sealed,         \* whether Finalize has been called
  damaged         \* whether the file has been changed since

packVars == <<packed, written, file, sealed, damaged>>

PlainEntrySize == 3
EntrySize == 4
Extension == 2
LengthSize == 1
HeaderSize == LengthSize + Extension
MinFileSize == PlainEntrySize + Extension + LengthSize

EntryLen(b) == IF b.ulen # 0 THEN EntrySize ELSE PlainEntrySize

CalculateHeaderSize(bs) == FoldLeft(LAMBDA n, b : n + EntryLen(b), HeaderSize, bs)

HeaderFull(bs) == HeaderSize + (Len(bs) + 1) * EntrySize > MaxHeader

-----------------------------------------------------------------------------
(* Writing.                                                                *)

TypeCode(b) == CASE b.type = "data" /\ b.ulen = 0 -> 0
                 [] b.type = "tree" /\ b.ulen = 0 -> 1
                 [] b.type = "data" /\ b.ulen # 0 -> 2
                 [] b.type = "tree" /\ b.ulen # 0 -> 3

EntryCells(b) ==
  <<<<"type", TypeCode(b)>>, <<"len", b.len>>>>
    \o (IF b.ulen # 0 THEN <<<<"ulen", b.ulen>>>> ELSE <<>>) \o <<<<"id", b.id>>>>

MakeHeader(bs) == FoldLeft(LAMBDA s, b : s \o EntryCells(b), <<>>, bs)

\* crypto.Key.Seal and Open; the MAC stands for what it authenticates.
Seal(s) == <<<<"nonce", 0>>>> \o s \o <<<<"mac", s>>>>

Opens(s) == Len(s) > Extension /\ s = Seal(SubSeq(s, 2, Len(s) - 1))

AddToPack(b) ==
  /\ ~sealed /\ Len(packed) < MaxPacked /\ ~HeaderFull(packed)
  /\ packed' = Append(packed, [type |-> b.type, id |-> b.id, len |-> b.len, ulen |-> b.ulen, off |-> written])
  /\ written' = written + b.len
  /\ file' = file \o [i \in 1..b.len |-> <<"data", b.id>>]
  /\ UNCHANGED <<sealed, damaged>>

FinalizePack ==
  /\ ~sealed /\ packed # <<>>
  /\ LET header == Seal(MakeHeader(packed))
     IN /\ file' = file \o header \o <<<<"hlen", Len(header)>>>>
        /\ written' = written + Len(header) + LengthSize
  /\ sealed' = TRUE
  /\ UNCHANGED <<packed, damaged>>

-----------------------------------------------------------------------------
(* Reading.  A result is [err] or [err, buf, ...].                         *)

Failed == [err |-> TRUE]

\* The last n cells of s.
LastOf(s, n) == [i \in 1..n |-> s[Len(s) - n + i]]

\* The length that the last cell of the file holds; the bytes of other cells are a number, too.
HeaderLength(c) == IF c[1] = "hlen" THEN c[2] ELSE 1

ReadRecords(f, bufsize) ==
  LET n == IF bufsize > Len(f) THEN Len(f) ELSE bufsize
      b == LastOf(f, n)
      hlen == HeaderLength(b[n])
      rest == SubSeq(b, 1, n - 1)
      total == hlen + LengthSize
  IN IF hlen = 0 \/ hlen < Extension \/ hlen > Len(f) - LengthSize \/ hlen > MaxHeader - LengthSize
       THEN Failed
       ELSE [err |-> FALSE, total |-> total,
             buf |-> IF total < n THEN LastOf(rest, hlen) ELSE rest]

\* readHeader that never asks for the rest of a long header.
ReadHeaderOnce(f) ==
  IF Len(f) < MinFileSize THEN Failed
  ELSE ReadRecords(f, EagerEntries * EntrySize + HeaderSize)

ReadHeader(f) ==
  LET eager == EagerEntries * EntrySize + HeaderSize
      first == ReadRecords(f, eager)
  IN CASE Len(f) < MinFileSize -> Failed
       [] Len(f) >= MinFileSize /\ (first.err \/ first.total <= eager) -> first
       [] OTHER -> ReadRecords(f, first.total)

\* parseHeaderEntry, for the entry at the start of s.
ParseEntry(s) ==
  LET code == s[1][2]
      compressed == code \in {2, 3}
      size == IF compressed THEN EntrySize ELSE PlainEntrySize
  IN IF Len(s) < PlainEntrySize \/ code \notin 0..3 \/ Len(s) < size THEN Failed
     ELSE [err |-> FALSE, size |-> size,
           blob |-> [type |-> IF code \in {0, 2} THEN "data" ELSE "tree", len |-> s[2][2],
                     ulen |-> IF compressed THEN s[3][2] ELSE 0, id |-> s[size][2]]]

\* The loop of List that starts with the entry at i and the offset pos.
ParseFrom(s) ==
  LET parse[i \in 1..Len(s) + 1, pos \in 0..Len(file)] ==
        IF i = Len(s) + 1 THEN [err |-> FALSE, entries |-> <<>>]
        ELSE LET e == ParseEntry(SubSeq(s, i, Len(s)))
             IN IF e.err THEN Failed
                ELSE LET more == parse[i + e.size, pos + e.blob.len]
                     IN IF more.err THEN Failed
                        ELSE [err |-> FALSE,
                              entries |-> <<[type |-> e.blob.type, id |-> e.blob.id, len |-> e.blob.len,
                                             ulen |-> e.blob.ulen, off |-> pos]>> \o more.entries]
  IN parse[1, 0]

ListPack(f) ==
  LET h == ReadHeader(f)
  IN IF h.err THEN Failed
     ELSE IF ~Opens(h.buf) THEN Failed
     ELSE LET r == ParseFrom(SubSeq(h.buf, 2, Len(h.buf) - 1))
          IN IF r.err THEN Failed
             ELSE [err |-> FALSE, entries |-> r.entries, hdrSize |-> LengthSize + Len(h.buf)]

-----------------------------------------------------------------------------
PackHeaderInit == packed = <<>> /\ written = 0 /\ file = <<>> /\ sealed = FALSE /\ damaged = FALSE

\* The end of the file is lost.
Truncate ==
  /\ sealed /\ ~damaged
  /\ \E n \in 0..Len(file) - 1 : file' = [i \in 1..n |-> file[i]]
  /\ damaged' = TRUE
  /\ UNCHANGED <<packed, written, sealed>>

\* The length of the header is damaged.
ChangeLength ==
  /\ sealed /\ ~damaged
  /\ \E n \in (0..Len(file) + 1) \ {file[Len(file)][2]} : file' = [file EXCEPT ![Len(file)] = <<"hlen", n>>]
  /\ damaged' = TRUE
  /\ UNCHANGED <<packed, written, sealed>>

PackHeaderNext ==
  \/ \E b \in PackBlob : AddToPack(b)
  \/ FinalizePack \/ Truncate \/ ChangeLength

-----------------------------------------------------------------------------
\* A finished pack can be read: List returns the blobs that were added, with their offsets,
\* whether or not the eager read gets the whole header, and the size of the header is the
\* one that CalculateHeaderSize computes from the index.
PackReadable ==
  sealed /\ ~damaged =>
    ListPack(file) = [err |-> FALSE, entries |-> packed, hdrSize |-> CalculateHeaderSize(packed)]

\* The size of a finished pack is what pack.Size computes from the entries of an index, the
\* value that the checker compares with the size of the file.
PackSizeAgrees ==
  sealed /\ ~damaged =>
    /\ Len(file) = written
    /\ written = FoldLeft(LAMBDA n, b : n + b.len, CalculateHeaderSize(packed), packed)

\* List reports a pack whose end is missing or whose header length is wrong, and does not
\* return a wrong list of blobs.
DamageSeen == damaged => ListPack(file).err

\* The format of packs is sound: List returns what Add was given, of the size that the index
\* computes, and notices when the end of the file is lost or its header damaged.
PacksExact == PackReadable /\ PackSizeAgrees /\ DamageSeen
=============================================================================
