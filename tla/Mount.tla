--------------------------------- MODULE Mount ---------------------------------
(***************************************************************************)
(* The file system of mounted snapshots (internal/fuse): the directories   *)
(* made from path templates (snapshots_dirstruct.go, snapshots_dir.go) and *)
(* how they follow the repository, the directories of a snapshot (dir.go,  *)
(* inode.go), and reading a file (file.go).                                *)
(*                                                                         *)
(* A template is a sequence of tokens: verbs such as "%i", "/", and        *)
(* literals; a name is a sequence of tokens, a path a sequence of names.   *)
(* A snapshot is a record of id, time, tname (the time as the template     *)
(* formats it), host and tags.                                             *)
(***************************************************************************)
EXTENDS Naturals, Sequences, FiniteSets, SequencesExt, TLC

CONSTANTS
  Templates,       \* Config.PathTemplates
  Mountable        \* the snapshots that may be in the repository

-----------------------------------------------------------------------------
(* pathsFromSn *)

\* "", "." and ".." cannot be names; the tags of the instances have no slash.
filenameFromTag(t) ==
  CASE t \in {"", "."} -> "_"
    [] t = ".." -> "__"
    [] OTHER -> t

\* Token t is written to the paths outs.
WriteToken(outs, t) ==
  [i \in DOMAIN outs |->
     IF t = "/" THEN Append(outs[i], <<>>)
     ELSE [outs[i] EXCEPT ![Len(outs[i])] = Append(@, t)]]

\* All paths once for each tag; a single tag is written as it is.
WriteTags(outs, tags) ==
  IF Len(tags) = 1 THEN WriteToken(outs, tags[1])
  ELSE FlattenSeq([i \in DOMAIN tags |-> WriteToken(outs, filenameFromTag(tags[i]))])

\* A verb is replaced; the time at the very end is returned as suffix.
Expand(outs, v, sn) ==
  CASE v = "%T" -> WriteToken(outs, sn.tname)
    [] v = "%t" -> WriteTags(outs, sn.tags)
    [] v = "%i" -> WriteToken(outs, sn.id)
    [] v = "%h" -> WriteToken(outs, sn.host)
    [] OTHER -> WriteToken(outs, v)

EndsWithTime(tmpl) == Last(tmpl) = "%T"

pathsFromSn(tmpl, sn) ==
  IF (\E i \in DOMAIN tmpl : tmpl[i] = "%t") /\ sn.tags = <<>> THEN <<>>
  ELSE FoldLeft(LAMBDA outs, v : Expand(outs, v, sn), <<<<<<>>>>>>,
                IF EndsWithTime(tmpl) THEN Front(tmpl) ELSE tmpl)

\* The directories of a template before its first verb; the last one counts only up to the slash.
staticPrefix(tmpl) ==
  LET verbs == {i \in DOMAIN tmpl : tmpl[i] \in {"%T", "%t", "%i", "%h"}}
      first == CHOOSE i \in verbs : \A j \in verbs : i <= j
      slashes == {i \in DOMAIN tmpl : tmpl[i] = "/" /\ i < first}
      lastSlash == CHOOSE i \in slashes : \A j \in slashes : j <= i
  IN  IF verbs = {} \/ slashes = {} THEN <<>>
      ELSE FoldLeft(WriteToken, <<<<<<>>>>>>, SubSeq(tmpl, 1, lastSlash - 1))[1]

-----------------------------------------------------------------------------
(* makeDirs.  An entry has a snapshot ("" if none), the target of a link,  *)
(* and the names in it.                                                    *)

\* path.Clean of a path from the root.
Special == {<<>>, <<"">>, <<".">>, <<"..">>}
Clean(path) ==
  FoldLeft(LAMBDA acc, n : IF n \notin Special THEN Append(acc, n)
                           ELSE IF n = <<"..">> /\ acc # <<>> THEN Front(acc) ELSE acc, <<>>, path)
WithSuffix(path, name) == [path EXCEPT ![Len(path)] = @ \o name]

\* The first of name, name-1, name-2... that is not taken.
uniqueName(entries, path, name) ==
  LET Numbered(i) == IF i = 0 THEN name ELSE name \o <<"-", ToString(i)>>
      free == {i \in 0 .. Cardinality(DOMAIN entries) : WithSuffix(path, Numbered(i)) \notin DOMAIN entries}
  IN  Numbered(CHOOSE i \in free : \A j \in free : i <= j)

NoEntry == [sn |-> "", link |-> <<>>, names |-> {}]

\* The path is entered, and into all directories above it.
mount(entries, path, sn, link) ==
  LET above == {SubSeq(path, 1, k) : k \in 0 .. Len(path) - 1}
      Old(k) == IF k \in DOMAIN entries THEN entries[k] ELSE NoEntry
  IN  [k \in above |-> [Old(k) EXCEPT !.names = @ \cup {path[Len(k) + 1]}]] @@
      (path :> IF sn # "" THEN [Old(path) EXCEPT !.sn = sn, !.link = link] ELSE Old(path)) @@ entries

\* One path of a snapshot: the directory of the snapshot, and, if the path ends with the time,
\* the link "latest" if no snapshot in that place was later.
MountSnapshot(acc, j) ==
  LET p == pathsFromSn(j.tmpl, j.sn)[j.i]
      time == IF EndsWithTime(j.tmpl) THEN <<j.sn.tname>> ELSE <<>>
      suffix == uniqueName(acc.entries, p, time)
      e == mount(acc.entries, Clean(WithSuffix(p, suffix)), j.sn.id, <<>>)
  IN  IF time = <<>> \/ (p \in DOMAIN acc.latest /\ j.sn.time < acc.latest[p])
      THEN [acc EXCEPT !.entries = e]
      ELSE [entries |-> mount(e, Clean(Append(p, <<"latest">>)), j.sn.id, suffix),
            latest |-> (p :> j.sn.time) @@ acc.latest]

\* The loops over the snapshots, the templates and the paths.
Jobs(sns) ==
  FlattenSeq([s \in DOMAIN sns |->
    FlattenSeq([t \in DOMAIN Templates |->
      [i \in DOMAIN pathsFromSn(Templates[t], sns[s]) |-> [sn |-> sns[s], tmpl |-> Templates[t], i |-> i]]])])

makeDirs(sns) ==
  LET root == <<>> :> NoEntry
      static == FoldLeft(LAMBDA e, t : mount(e, Clean(staticPrefix(t)), "", <<>>), root, Templates)
  IN  FoldLeft(MountSnapshot, [entries |-> static, latest |-> <<>>], Jobs(sns)).entries

\* The snapshots in the order in which updateSnapshots passes them, by time and then by ID.
Sorted(S) == SetToSortSeq(S, LAMBDA a, b : a.time < b.time \/ (a.time = b.time /\ a.num < b.num))

-----------------------------------------------------------------------------
(* updateSnapshots.  The repository changes while it is mounted.           *)

VARIABLES
  inRepo,          \* the snapshots in the repository
  gone,            \* those that were removed; a snapshot does not come back
  updating,        \* "no", or "listed": updateSnapshots has the mutex and listed the snapshots
  listing,         \* the snapshots it found
  hash,            \* the snapshots at the last update ("never" before it)
  recent,          \* whether lastCheck is less than minSnapshotsReloadTime ago
  checked,         \* the snapshots found at lastCheck
  shown,           \* the snapshots from which entries was made
  indexed          \* the snapshots that were in the repository when the index was loaded

mountVars == <<inRepo, gone, updating, listing, hash, recent, checked, shown, indexed>>

MountInit ==
  /\ inRepo = {} /\ gone = {}
  /\ updating = "no" /\ listing = {}
  /\ hash = <<"never">> /\ recent = FALSE
  /\ checked = {} /\ shown = {} /\ indexed = {}

\* Snapshots are saved, after the index that their data needs, or forgotten.
RepoChanges ==
  /\ \/ \E s \in Mountable \ (inRepo \cup gone) : inRepo' = inRepo \cup {s} /\ UNCHANGED gone
     \/ \E s \in inRepo : inRepo' = inRepo \ {s} /\ gone' = gone \cup {s}
  /\ UNCHANGED <<updating, listing, hash, recent, checked, shown, indexed>>

TimePasses ==
  /\ recent
  /\ recent' = FALSE
  /\ UNCHANGED <<inRepo, gone, updating, listing, hash, checked, shown, indexed>>

\* FindAll; a snapshot that cannot be loaded is left out.  An error of the listing itself, or
\* the time since lastCheck, end updateSnapshots without a change.
ListSnapshots ==
  /\ updating = "no" /\ ~recent
  /\ \E lost \in SUBSET inRepo : Cardinality(lost) <= 1 /\ listing' = inRepo \ lost
  /\ updating' = "listed"
  /\ UNCHANGED <<inRepo, gone, hash, recent, checked, shown, indexed>>

\* Mutant of FinishUpdate: the hash is kept although the index could not be loaded.
FinishUpdateEarly ==
  /\ updating = "listed"
  /\ updating' = "no" /\ listing' = {}
  /\ hash' = <<"seen", listing>> /\ recent' = TRUE /\ checked' = listing
  /\ \/ hash # <<"seen", listing>> /\ indexed' = inRepo /\ shown' = listing
     \/ UNCHANGED <<shown, indexed>>
  /\ UNCHANGED <<inRepo, gone>>

\* If the snapshots are the same as before, only lastCheck is set.  Otherwise the index is loaded,
\* and if that fails nothing is.
FinishUpdate ==
  /\ updating = "listed"
  /\ updating' = "no" /\ listing' = {}
  /\ \/ /\ hash = <<"seen", listing>>
        /\ recent' = TRUE /\ checked' = listing
        /\ UNCHANGED <<hash, shown, indexed>>
     \/ /\ hash # <<"seen", listing>>
        /\ hash' = <<"seen", listing>> /\ recent' = TRUE
        /\ checked' = listing /\ shown' = listing
        /\ indexed' = indexed \cup inRepo
     \/ /\ hash # <<"seen", listing>>
        /\ UNCHANGED <<hash, recent, checked, shown, indexed>>
  /\ UNCHANGED <<inRepo, gone>>

MountNext == RepoChanges \/ TimePasses \/ ListSnapshots \/ FinishUpdate

-----------------------------------------------------------------------------
(* dir: the directory of a tree.  A node has name (a name, or one of the   *)
(* special ones), type, links, inode and, if it is a directory, its nodes. *)

\* replaceSpecialNodes: "." and "/" stand for their contents.
replaceSpecialNodes(n) == IF n.type = "dir" /\ n.name \in {".", "/"} THEN n.nodes ELSE <<n>>

\* open: of nodes with the same name the last one is taken.
Items(nodes) ==
  LET all == FlattenSeq([i \in DOMAIN nodes |-> replaceSpecialNodes(nodes[i])])
  IN  [name \in {all[i].name : i \in DOMAIN all} |->
         all[CHOOSE i \in DOMAIN all : all[i].name = name /\ \A j \in DOMAIN all : all[j].name = name => j <= i]]

\* The links to a file have one inode; other inodes come from the parent and the name.  A hash is
\* modelled by what it is made from.
inodeFromNode(parent, n) == IF n.links > 1 /\ n.type # "dir" THEN <<"links", n.inode>> ELSE <<parent, n.name>>

\* The entries other than "." and "..".
ReadDirAll(parent, nodes) ==
  LET items == Items(nodes)
  IN  {[name |-> k, inode |-> inodeFromNode(parent, items[k]),
        type |-> IF items[k].type \in {"dir", "file", "symlink"} THEN items[k].type ELSE "unknown"] : k \in DOMAIN items}

\* What Lookup returns for a name.
DirLookup(parent, nodes, name) ==
  LET items == Items(nodes)
  IN  IF name \notin DOMAIN items \/ items[name].type \notin {"dir", "file", "symlink", "dev", "chardev", "fifo", "socket"}
      THEN [found |-> FALSE]
      ELSE [found |-> TRUE, node |-> items[name], inode |-> inodeFromNode(parent, items[name])]

-----------------------------------------------------------------------------
(* file: Open and Read.  blobs is a sequence of the contents of blobs.     *)

\* cumsize[i] is the size of the blobs before the i-th.
Cumsize(blobs) == [i \in 1 .. Len(blobs) + 1 |-> Len(FlattenSeq(SubSeq(blobs, 1, i - 1)))]

\* sort.Search: the last blob that starts at the offset or before it.
startContent(cum, offset) ==
  LET past == {i \in DOMAIN cum : cum[i] > offset} IN IF past = {} THEN Len(cum) ELSE (CHOOSE i \in past : \A j \in past : i <= j) - 1

\* The loop of Read: the rest of the blob at the offset, then whole blobs, until size bytes are
\* copied.
ReadFile(blobs, offset, size) ==
  LET cum == Cumsize(blobs)
      start == startContent(cum, offset)
      skip == offset - cum[start]
      Copy(out, i) ==
        LET blob == IF i = start /\ skip > 0 THEN SubSeq(blobs[i], skip + 1, Len(blobs[i])) ELSE blobs[i]
            room == size - Len(out)
        IN  out \o SubSeq(blob, 1, IF Len(blob) < room THEN Len(blob) ELSE room)
  IN  IF Last(cum) = 0 THEN <<>>
      ELSE FoldLeft(Copy, <<>>, [k \in 1 .. Len(blobs) + 1 - start |-> start + k - 1])

-----------------------------------------------------------------------------
(* Properties *)

\* Every snapshot is in every directory that a template gives it, as an entry that is not a link,
\* and that no other snapshot has taken, also when the times of two snapshots look the same.
\* Excepted are the paths of a snapshot whose only tag is "", "." or "..": pathsFromSn writes it as it
\* is, uniqueName does not know what path.Clean makes of it, and snapshots hide each other there.
AllMounted(S) ==
  LET entries == makeDirs(Sorted(S))
      Shown(path, id) == {k \in DOMAIN entries : /\ entries[k].sn = id /\ entries[k].link = <<>>
                                                 /\ Len(k) = Len(path) /\ SubSeq(k, 1, Len(path) - 1) = SubSeq(path, 1, Len(path) - 1)}
  IN  \A sn \in S : \A t \in DOMAIN Templates :
        LET paths == pathsFromSn(Templates[t], sn)
        IN  \A i \in DOMAIN paths :
              (\A k \in 1 .. Len(paths[i]) - 1 : paths[i][k] \notin Special) => Shown(paths[i], sn.id) # {}

\* In a directory with the link "latest", the link leads to an entry of the same directory, whose
\* snapshot no other snapshot in it is later than.
LatestIsLatest(S) ==
  LET entries == makeDirs(Sorted(S))
      timeOf == [id \in {sn.id : sn \in S} |-> (CHOOSE sn \in S : sn.id = id).time]
  IN  \A k \in DOMAIN entries :
        entries[k].link # <<>> =>
          LET dir == SubSeq(k, 1, Len(k) - 1)
              target == Append(dir, entries[k].link)
          IN  /\ target \in DOMAIN entries
              /\ entries[target].sn = entries[k].sn /\ entries[target].link = <<>>
              /\ \A n \in entries[dir].names :
                   entries[Append(dir, n)].sn # "" => timeOf[entries[Append(dir, n)].sn] <= timeOf[entries[k].sn]

\* Every entry can be reached from the root: it is among the names of the directory above it.
AllReachable(S) ==
  LET entries == makeDirs(Sorted(S))
  IN  \A k \in DOMAIN entries \ {<<>>} :
        /\ SubSeq(k, 1, Len(k) - 1) \in DOMAIN entries
        /\ Last(k) \in entries[SubSeq(k, 1, Len(k) - 1)].names

\* The index that is loaded knows the data of every snapshot that is shown and still exists,
\* although snapshots are added while updateSnapshots runs; and the snapshots that are shown are those of the last check.
ShownReadable ==
  /\ shown \cap inRepo \subseteq indexed
  /\ recent => shown = checked

\* A name that ReadDirAll lists is found by Lookup, with the same inode, unless its type is not
\* known; and two nodes with different names have the same inode only if they are links to the
\* same file.
ListedFound(parent, nodes) ==
  LET listed == ReadDirAll(parent, nodes)
      Found(d) == DirLookup(parent, nodes, d.name)
  IN  /\ \A d \in listed : Found(d).found => Found(d).inode = d.inode /\ Found(d).node.name = d.name
      /\ \A d, e \in listed :
           (Found(d).found /\ Found(e).found /\ d.name # e.name) =>
             (d.inode = e.inode <=> /\ Found(d).node.links > 1 /\ Found(e).node.links > 1
                                    /\ "dir" \notin {Found(d).node.type, Found(e).node.type}
                                    /\ Found(d).node.inode = Found(e).node.inode)

\* Read returns the bytes of the file at the offset, as many as were asked for or as there are.
ReadExact(blobs, offset, size) ==
  LET file == FlattenSeq(blobs)
      end == IF offset + size < Len(file) THEN offset + size ELSE Len(file)
  IN  ReadFile(blobs, offset, size) = [k \in 1 .. (IF end > offset THEN end - offset ELSE 0) |-> file[offset + k]]
=============================================================================
