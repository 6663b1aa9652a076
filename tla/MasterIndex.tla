----------------------------- MODULE MasterIndex -----------------------------
(***************************************************************************)
(* internal/index/index.go and master_index.go: what the indexes of a      *)
(* repository hold, how they are read from index files, filled from pack   *)
(* headers, merged, and written to files again (Repository.LoadIndex and   *)
(* CreateIndexFromPacks).  An index refers to its packs by their position  *)
(* in a list; merging lists must not mix them up.                          *)
(*                                                                         *)
(* The tables of an index keep the order of the calls of add (IndexMap),   *)
(* so they are sequences here.  The offset and the lengths of a blob are   *)
(* one value.                                                              *)
(***************************************************************************)
EXTENDS Naturals, SequencesExt

CONSTANTS
  StoredIndex,   \* index files at the start: file -> [format, packs]
  Packs,         \* packs that are added: pack -> blobs, as pack.List returns them
  BadHeader,     \* packs whose header cannot be read
  Version,       \* the repository version
  NewFiles,      \* the names of the files that SaveIndex writes
  IndexFaults    \* a subset of {"load", "save", "cancel"}

VARIABLES
  indexFiles,    \* the index files: name -> [format, packs]
  idx,           \* MasterIndex.idx; the first index is final and is merged into
  todo,          \* LoadIndex: files that have not been read
  call,          \* what the client runs
  known,         \* entries that were loaded or stored since the MasterIndex is new
  invalid,       \* the result of CreateIndexFromPacks
  lost           \* whether an index file could not be saved

masterVars == <<indexFiles, idx, todo, call, known, invalid, lost>>

-----------------------------------------------------------------------------
(* Index.  An entry is [blob, pk, at], pk the position of its pack.        *)

NewIndex == [packs |-> <<>>, entries |-> <<>>, final |-> FALSE, ids |-> <<>>]

EntriesOf(pk, blobs) == [i \in DOMAIN blobs |-> [blob |-> blobs[i].blob, pk |-> pk, at |-> blobs[i].at]]

StorePackIn(x, p, blobs) ==
  [x EXCEPT !.packs = Append(@, p), !.entries = @ \o EntriesOf(Len(x.packs) + 1, blobs)]

\* toPackedBlob.
Packed(x, e) == [pack |-> x.packs[e.pk], blob |-> e.blob, at |-> e.at]

AllOf(x) == {Packed(x, x.entries[i]) : i \in DOMAIN x.entries}

LookupIn(x, b) == {pb \in AllOf(x) : pb.blob = b}

\* generatePackList: the blobs of the index, grouped by pack.
Encode(x) ==
  LET ids == FoldLeft(LAMBDA s, e : IF x.packs[e.pk] \in Range(s) THEN s ELSE Append(s, x.packs[e.pk]),
                      <<>>, x.entries)
      blobsOf(p) == SelectSeq(x.entries, LAMBDA e : x.packs[e.pk] = p)
  IN [format |-> "json",
      packs |-> [i \in DOMAIN ids |->
                  [id |-> ids[i],
                   blobs |-> [j \in DOMAIN blobsOf(ids[i]) |->
                               [blob |-> blobsOf(ids[i])[j].blob, at |-> blobsOf(ids[i])[j].at]]]]]

\* The old format knows no uncompressed length.
Uncompressed(blobs) == [i \in DOMAIN blobs |-> [blobs[i] EXCEPT !.at.ulen = 0]]

\* DecodeIndex and decodeOldIndex; an index of the old format gets no ID.
Decode(f, name) ==
  LET old == f.format = "old"
      filled == FoldLeft(LAMBDA x, p : StorePackIn(x, p.id, IF old THEN Uncompressed(p.blobs) ELSE p.blobs),
                         NewIndex, f.packs)
  IN [filled EXCEPT !.final = TRUE, !.ids = IF old THEN <<>> ELSE <<name>>]

\* merge that forgets that the packs of y come after those of x.
MergeUnshifted(x, y) ==
  LET has(e) == \E i \in DOMAIN x.entries : Packed(x, x.entries[i]) = Packed(y, e)
  IN [x EXCEPT !.packs = @ \o y.packs,
               !.entries = @ \o SelectSeq(y.entries, LAMBDA e : ~has(e)),
               !.ids = @ \o y.ids]

\* merge: exact duplicates are left out.
Merge(x, y) ==
  LET has(e) == \E i \in DOMAIN x.entries : Packed(x, x.entries[i]) = Packed(y, e)
      new == SelectSeq(y.entries, LAMBDA e : ~has(e))
  IN [x EXCEPT !.packs = @ \o y.packs,
               !.entries = @ \o [i \in DOMAIN new |-> [new[i] EXCEPT !.pk = @ + Len(x.packs)]],
               !.ids = @ \o y.ids]

-----------------------------------------------------------------------------
(* MasterIndex.                                                            *)

NewMasterIndex == <<[NewIndex EXCEPT !.final = TRUE]>>

Mergeable(x) == x.final /\ x.ids # <<>>

\* MergeFinalIndexes.
MergedIndexes(s) ==
  <<FoldLeft(Merge, s[1], SelectSeq(Tail(s), Mergeable))>>
    \o SelectSeq(Tail(s), LAMBDA x : ~Mergeable(x))

Lookup(b) == UNION {LookupIn(idx[i], b) : i \in DOMAIN idx}

\* StorePack: the first index that is not final, or a new one.
StoredIn(s, p, blobs) ==
  LET open == {i \in DOMAIN s : ~s[i].final}
      first == CHOOSE i \in open : \A j \in open : i <= j
  IN IF open = {} THEN Append(s, StorePackIn(NewIndex, p, blobs))
     ELSE [s EXCEPT ![first] = StorePackIn(@, p, blobs)]

-----------------------------------------------------------------------------
IndexInit ==
  /\ indexFiles = StoredIndex
  /\ idx = NewMasterIndex
  /\ todo = DOMAIN StoredIndex
  /\ call = "load"
  /\ known = {} /\ invalid = {} /\ lost = FALSE

\* ForAllIndexes: one of the workers has read a file and runs the callback, which adds it.
LoadIndexFile(f) ==
  /\ call = "load" /\ f \in todo
  /\ indexFiles[f].format # "bad"
  /\ todo' = todo \ {f}
  /\ idx' = Append(idx, Decode(indexFiles[f], f))
  /\ known' = known \cup AllOf(Decode(indexFiles[f], f))
  /\ UNCHANGED <<indexFiles, call, invalid, lost>>

\* The file cannot be loaded, or the context is cancelled: LoadIndex returns the error.
LoadIndexFails ==
  /\ call = "load" /\ todo # {}
  /\ IndexFaults \cap {"load", "cancel"} # {} \/ \E f \in todo : indexFiles[f].format = "bad"
  /\ call' = "failed"
  /\ UNCHANGED <<indexFiles, idx, todo, known, invalid, lost>>

\* The end of LoadIndex: merging, and the check for version 1.
LoadIndexEnds ==
  /\ call = "load" /\ todo = {}
  /\ idx' = MergedIndexes(idx)
  /\ call' = IF Version < 2 /\ \E e \in known : e.at.ulen # 0 THEN "failed" ELSE "loaded"
  /\ UNCHANGED <<indexFiles, todo, known, invalid, lost>>

\* A worker of CreateIndexFromPacks: what it reads of a pack, possibly nothing, is stored.
ReadPackHeader(p) ==
  /\ call = "loaded"
  /\ p \notin invalid /\ \A i \in DOMAIN idx : p \notin Range(idx[i].packs)
  /\ LET blobs == IF p \in BadHeader THEN <<>> ELSE Packs[p]
     IN /\ idx' = StoredIn(idx, p, blobs)
        /\ known' = known \cup {[pack |-> p, blob |-> blobs[i].blob, at |-> blobs[i].at] : i \in DOMAIN blobs}
  /\ invalid' = invalid \cup ({p} \cap BadHeader)
  /\ UNCHANGED <<indexFiles, todo, call, lost>>

\* saveIndex: finalizeNotFinalIndexes, then a file for each index, which gets its name as ID.
SaveIndexes ==
  /\ call = "loaded"
  /\ \E i \in DOMAIN idx : ~idx[i].final
  /\ LET i == CHOOSE i \in DOMAIN idx : ~idx[i].final
     IN \E n \in NewFiles \ DOMAIN indexFiles, ok \in BOOLEAN :
          /\ ok \/ "save" \in IndexFaults
          /\ indexFiles' = IF ok THEN [f \in DOMAIN indexFiles \cup {n} |->
                                         IF f = n THEN Encode(idx[i]) ELSE indexFiles[f]]
                           ELSE indexFiles
          \* SetID is called even if the file was not saved, with the null ID
          /\ LET saved == [idx EXCEPT ![i].final = TRUE, ![i].ids = <<IF ok THEN n ELSE "null">>]
             IN idx' = IF ok THEN MergedIndexes(saved) ELSE saved
          /\ lost' = (lost \/ ~ok)
  /\ UNCHANGED <<todo, call, known, invalid>>

\* The repository is opened again.
Reopen ==
  /\ call \in {"loaded", "failed"}
  /\ idx' = NewMasterIndex /\ todo' = DOMAIN indexFiles /\ call' = "load"
  /\ known' = {} /\ invalid' = {} /\ lost' = FALSE
  /\ UNCHANGED indexFiles

IndexNext ==
  \/ \E f \in todo : LoadIndexFile(f)
  \/ LoadIndexFails \/ LoadIndexEnds \/ SaveIndexes \/ Reopen
  \/ \E p \in DOMAIN Packs : ReadPackHeader(p)

-----------------------------------------------------------------------------
EntryType == [pack : STRING, blob : STRING, at : [off : Nat, ulen : Nat]]

IndexTypeOK ==
  /\ call \in {"load", "loaded", "failed"}
  /\ todo \subseteq DOMAIN indexFiles /\ known \subseteq EntryType
  /\ \A i \in DOMAIN idx : \A e \in Range(idx[i].entries) : e.pk \in DOMAIN idx[i].packs

\* Lookup finds exactly the entries of the index files and of the packs that were read, in the
\* right pack: neither merging nor saving loses, adds or misplaces one.
IndexExact ==
  \A b \in {e.blob : e \in known} \cup {e.blob : e \in UNION {AllOf(idx[i]) : i \in DOMAIN idx}} :
    Lookup(b) = {e \in known : e.blob = b}

\* The merged index holds no entry twice, which pack.Size relies on to compute the size of packs.
MergedOnce ==
  \A i, j \in DOMAIN idx[1].entries :
    i # j => Packed(idx[1], idx[1].entries[i]) # Packed(idx[1], idx[1].entries[j])

\* Unless a save failed, what a final index of the MasterIndex holds can be loaded from index
\* files: another process that opens the repository finds it.
FinalIsStored ==
  ~lost =>
    \A i \in DOMAIN idx : idx[i].final =>
      \A e \in AllOf(idx[i]) : \E f \in DOMAIN indexFiles :
        indexFiles[f].format # "bad" /\ e \in AllOf(Decode(indexFiles[f], f))

\* The index is right through loading, merging and saving: Lookup returns all places of a blob, the
\* merged index has none twice, and what is final is stored.
IndexSound == IndexTypeOK /\ IndexExact /\ MergedOnce /\ FinalIsStored
=============================================================================
