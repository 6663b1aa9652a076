------------------------------- MODULE NodeFile -------------------------------
(***************************************************************************)
(* What a snapshot keeps of a file (restic/node.go): reading the metadata  *)
(* of a file into a node, saving the node as JSON and loading it, creating *)
(* a file from it, and comparing nodes.                                    *)
(*                                                                         *)
(* A text is valid UTF-8 without ("plain") or with ("special") characters  *)
(* that strconv.Quote escapes, or it is no UTF-8 ("invalid"); the second   *)
(* component says that it was quoted.  A time has a year, and a day of     *)
(* which only the 29th of February matters.  Nodes are records with the    *)
(* fields of the source; attributes are sequences of <<name, value>>.      *)
(***************************************************************************)
EXTENDS Integers, Sequences, FiniteSets

CONSTANT UserName        \* the names of some user IDs, as user.LookupId finds them

TextOf(t) == <<t, FALSE>>
NoText == TextOf("")
ZeroTime == [y |-> 1, day |-> "other"]

-----------------------------------------------------------------------------
(* NodeFromFileInfo *)

\* lookupUsername: a lookup that is not in the cache goes to the user database.
lookupUsername(cache, uid) ==
  IF uid \in DOMAIN cache THEN cache[uid]
  ELSE IF uid \in DOMAIN UserName THEN UserName[uid] ELSE ""

\* fillExtendedAttributes: an attribute that cannot be read is left out.
fillExtendedAttributes(f) == SelectSeq(f.xattrs, LAMBDA a : a[1] \notin f.unreadable)

\* Readlink or Listxattr fails: the node comes with an error, and is not complete.
Unread(f) == f.sys /\ (("readlink" \in f.failing /\ f.type = "symlink") \/ "listxattr" \in f.failing)

\* fillTimes and fillUser, or the values for a file without stat.
fillExtra(n, f, cache) ==
  IF f.sys
  THEN [n EXCEPT !.atime = f.atime, !.ctime = f.ctime, !.uid = f.uid,
                 !.user = lookupUsername(cache, f.uid), !.inode = f.inode,
                 !.links = IF f.type \in {"dir", "fifo", "socket"} THEN 0 ELSE f.links,
                 !.target = IF f.type = "symlink" /\ "readlink" \notin f.failing THEN f.target ELSE NoText,
                 !.device = IF f.type \in {"dev", "chardev"} THEN f.device ELSE 0,
                 !.xattrs = IF Unread(f) THEN <<>> ELSE fillExtendedAttributes(f)]
  ELSE [n EXCEPT !.ctime = n.mtime, !.uid = f.process]

NodeFromFileInfo(f, cache) ==
  fillExtra([name |-> f.name, type |-> f.type, mode |-> f.mode, mtime |-> f.mtime, atime |-> ZeroTime,
             ctime |-> ZeroTime, uid |-> 0, user |-> "", inode |-> 0,
             size |-> IF f.type = "file" THEN f.size ELSE 0, links |-> 0, target |-> NoText,
             device |-> 0, xattrs |-> <<>>, content |-> <<>>, nilContent |-> TRUE, subtree |-> "", raw |-> NoText],
            f, cache)

-----------------------------------------------------------------------------
(* MarshalJSON and UnmarshalJSON *)

\* FixTime: AddDate moves a day that the new year does not have.
FixTime(t) ==
  IF t.y < 0 THEN [t EXCEPT !.y = 0]
  ELSE IF t.y > 9999 THEN [y |-> 9999, day |-> IF t.day = "feb29" THEN "mar1" ELSE t.day]
  ELSE t

Quote(s) == IF s[1] \in {"special", "invalid"} THEN <<s[1], TRUE>> ELSE s
Unquote(s) == TextOf(s[1])

\* encoding/json writes U+FFFD for bytes that are not valid UTF-8.
JSONText(s) == IF s[1] = "invalid" /\ ~s[2] THEN TextOf("replaced") ELSE s

\* Mutant of MarshalJSON: the link target is saved as it is.
MarshalJSONTarget(n) ==
  [n EXCEPT !.mtime = FixTime(n.mtime), !.atime = FixTime(n.atime), !.ctime = FixTime(n.ctime),
            !.name = JSONText(Quote(n.name)), !.target = JSONText(n.target)]

\* raw is base64, which takes any bytes.
MarshalJSON(n) ==
  [n EXCEPT !.mtime = FixTime(n.mtime), !.atime = FixTime(n.atime), !.ctime = FixTime(n.ctime),
            !.name = JSONText(Quote(n.name)), !.target = JSONText(n.target),
            !.raw = IF n.target[1] = "invalid" THEN n.target ELSE NoText]

UnmarshalJSON(j) ==
  [j EXCEPT !.name = Unquote(j.name), !.raw = NoText, !.target = IF j.raw # NoText THEN j.raw ELSE j.target]

-----------------------------------------------------------------------------
(* CreateAt and RestoreMetadata, at a path where nothing exists *)

\* An int64 of nanoseconds holds 584.554 years, half of them before 1970.  Time is counted in
\* thousandths of a year; "other" is a day in the middle of it.
NanoRange == 584554
NanoFirst == 1970000 - NanoRange \div 2
Thousandths(t) == 1000 * t.y + (IF t.day = "feb29" THEN 160 ELSE 500)

\* RestoreTimestamps takes UnixNano of the time, which wraps around outside of 1678 to 2261.
UnixNano(t) ==
  LET wrapped == NanoFirst + ((Thousandths(t) - NanoFirst) % NanoRange)
  IN  IF wrapped = Thousandths(t) THEN t ELSE [y |-> wrapped \div 1000, day |-> "other"]

\* restoreMetadata: a permission error of lchown is ignored unless the process is root.  Only an
\* error of lchown is returned; those of the steps after it are dropped, as firsterr is nil.
\* failing is the set of the steps that fail.
restoreMetadata(n, root, failing) ==
  [err |-> "lchown" \in failing \/ ("permission" \in failing /\ root),
   uid |-> IF failing \cap {"lchown", "permission"} = {} THEN n.uid ELSE -1,
   mode |-> IF n.type # "symlink" /\ "chmod" \notin failing THEN n.mode ELSE "default",
   mtime |-> IF "utimes" \notin failing THEN UnixNano(n.mtime) ELSE ZeroTime,
   atime |-> IF "utimes" \notin failing THEN UnixNano(n.atime) ELSE ZeroTime,
   xattrs |-> IF "xattr" \notin failing THEN n.xattrs ELSE <<>>]

\* CreateAt; a socket is not created.
CreateAt(n) ==
  [type |-> IF n.type = "socket" THEN "none" ELSE n.type,
   target |-> IF n.type = "symlink" THEN n.target ELSE NoText,
   device |-> IF n.type \in {"dev", "chardev"} THEN n.device ELSE 0]

-----------------------------------------------------------------------------
(* Equals *)

sameContent(n, m) == n.nilContent = m.nilContent /\ n.content = m.content

\* The attributes of node as a map: a later value of a name replaces an earlier one.
AttrValue(xs, a) == xs[CHOOSE i \in DOMAIN xs : xs[i][1] = a /\ \A j \in DOMAIN xs : xs[j][1] = a => j <= i][2]
AttrNames(xs) == {xs[i][1] : i \in DOMAIN xs}

sameExtendedAttributes(n, m) ==
  /\ Len(n.xattrs) = Len(m.xattrs)
  /\ \A i \in DOMAIN m.xattrs :
       m.xattrs[i][1] \in AttrNames(n.xattrs) /\ m.xattrs[i][2] = AttrValue(n.xattrs, m.xattrs[i][1])
  /\ AttrNames(n.xattrs) \subseteq AttrNames(m.xattrs)

Equals(n, m) ==
  /\ \A k \in (DOMAIN n) \ {"content", "nilContent", "xattrs", "raw"} : n[k] = m[k]
  /\ sameContent(n, m)
  /\ sameExtendedAttributes(n, m)

-----------------------------------------------------------------------------
(* Properties *)

InRange(t) == t.y \in 0 .. 9999
InNano(t) == t.y \in 1678 .. 2261

\* A node that is saved and loaded Equals the one that was saved, whatever bytes its name and its
\* link target have, if its times can be written.
SavedEquals(n) ==
  (InRange(n.mtime) /\ InRange(n.atime) /\ InRange(n.ctime)) => Equals(UnmarshalJSON(MarshalJSON(n)), n)

\* FixTime keeps a time that can be written and makes one that cannot writable; of other days
\* than the 29th of February it changes only the year.
FixedTime(t) ==
  /\ InRange(FixTime(t))
  /\ InRange(t) => FixTime(t) = t
  /\ t.day # "feb29" => FixTime(t).day = t.day

\* Backing up a file without an error and restoring it as root, with nothing failing, gives a file of the same
\* type, target, device, owner, mode, times and attributes: all but sockets, unreadable
\* attributes, the mode of symbolic links and times outside of the years 1678 to 2261.
BackupRestores(f, cache) ==
  LET n == UnmarshalJSON(MarshalJSON(NodeFromFileInfo(f, cache)))
      made == CreateAt(n)
      r == restoreMetadata(n, TRUE, {})
  IN  ~Unread(f) =>
      /\ n.name = f.name
      /\ f.type # "socket" => made.type = f.type
      /\ f.sys => /\ f.type = "symlink" => made.target = f.target
                  /\ f.type \in {"dev", "chardev"} => made.device = f.device
                  /\ r.uid = f.uid
                  /\ f.uid \in DOMAIN UserName => n.user = UserName[f.uid]
                  /\ InNano(f.atime) => r.atime = f.atime
                  /\ \A i \in DOMAIN f.xattrs :
                       f.xattrs[i][1] \in f.unreadable \/ \E j \in DOMAIN r.xattrs : r.xattrs[j] = f.xattrs[i]
      /\ f.type # "symlink" => r.mode = f.mode
      /\ InNano(f.mtime) => r.mtime = f.mtime
      /\ ~r.err

\* Two nodes with attributes of different names are Equal exactly if they have the same values in
\* all fields and the same set of attributes, in any order; the comparison is symmetric.
EqualsExact(n, m) ==
  /\ Equals(n, m) = Equals(m, n)
  /\ Equals(n, m) <=>
       /\ [n EXCEPT !.xattrs = <<>>, !.raw = NoText] = [m EXCEPT !.xattrs = <<>>, !.raw = NoText]
       /\ {n.xattrs[i] : i \in DOMAIN n.xattrs} = {m.xattrs[i] : i \in DOMAIN m.xattrs}
=============================================================================
