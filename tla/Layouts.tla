--------------------------------- MODULE Layouts --------------------------------
(***************************************************************************)
(* Where a backend keeps its files: the layouts and how one is detected    *)
(* (backend/layout), and the migration of a bucket from the layout         *)
(* "s3legacy" to "default" (internal/migrations/s3_layout.go, Rename of    *)
(* backend/s3).                                                            *)
(*                                                                         *)
(* A path is a sequence of names, and a name a sequence of its parts: the  *)
(* first two characters, and the rest if there is one.  A handle has a     *)
(* type and a name.                                                        *)
(***************************************************************************)
EXTENDS Naturals, Sequences, FiniteSets

CONSTANTS
  Heads,           \* the first two characters of names
  Migrated,        \* the handles of the files in the bucket that is migrated
  RenameTries,     \* maxErrors: how often Rename is tried
  RenameFaults     \* bound: how many requests and processes fail

FileTypes == {"pack", "snapshot", "index", "lock", "key"}

ASSUME LayoutsAssumption ==
  /\ Migrated \subseteq [type : FileTypes \cup {"config"}, name : Seq(STRING)]
  /\ RenameTries \in Nat \ {0}
  /\ RenameFaults \in Nat

defaultLayoutPaths == [pack |-> "data", snapshot |-> "snapshots", index |-> "index", lock |-> "locks", key |-> "keys"]
s3LayoutPaths == [pack |-> "data", snapshot |-> "snapshot", index |-> "index", lock |-> "lock", key |-> "key"]

-----------------------------------------------------------------------------
(* DefaultLayout, RESTLayout and S3LegacyLayout *)

DirOf(l, t) == <<IF l = "s3legacy" THEN s3LayoutPaths[t] ELSE defaultLayoutPaths[t]>>

\* Packs of the default layout are in subdirectories.  Those of the REST layout, whose server
\* makes them, and of the old layout are not.
InSubdir(l, h) == l = "default" /\ h.type = "pack" /\ Len(h.name) > 1
Subdir(h) == <<h.name[1]>>

Dirname(l, h) ==
  IF h.type = "config" THEN <<>>
  ELSE IF InSubdir(l, h) THEN <<DirOf(l, h.type), Subdir(h)>> ELSE <<DirOf(l, h.type)>>

Filename(l, h) ==
  IF h.type = "config" THEN <<<<"config">>>>
  ELSE IF InSubdir(l, h) THEN <<DirOf(l, h.type), Subdir(h), h.name>> ELSE <<DirOf(l, h.type), h.name>>

\* The directories that are made when a repository is created.
Paths(l) ==
  {<<DirOf(l, t)>> : t \in FileTypes} \cup
  {<<DirOf(l, "pack"), <<x>>>> : x \in IF l = "default" THEN Heads ELSE {}}

Basedir(l, t) == [dir |-> <<DirOf(l, t)>>, subdirs |-> (l = "default" /\ t = "pack")]

\* List of the s3 backend: without subdirectories, what is in one of them shows as one name.
ListNames(l, t, objs) ==
  LET base == Basedir(l, t)
      below == {p \in objs : Len(p) > 1 /\ <<p[1]>> = base.dir}
  IN  {IF base.subdirs THEN p[Len(p)] ELSE p[2] : p \in below}

-----------------------------------------------------------------------------
(* DetectLayout and ParseLayout *)

\* A listing that fails is not modelled.
hasBackendFile(objs, dir) == \E p \in objs : Len(p) = 2 /\ p[1] = dir

DetectLayout(objs) ==
  LET foundKeysFile == hasBackendFile(objs, DirOf("default", "key"))
      foundKeyFile == hasBackendFile(objs, DirOf("s3legacy", "key"))
  IN  IF foundKeysFile /\ ~foundKeyFile THEN "default"
      ELSE IF foundKeyFile /\ ~foundKeysFile THEN "s3legacy"
      ELSE "failed"

\* With no layout given the one that is detected is used, or the one of the backend.
ParseLayout(objs, layout, defaultLayout) ==
  IF layout # "" THEN layout
  ELSE IF DetectLayout(objs) = "failed" /\ defaultLayout # "" THEN defaultLayout
  ELSE DetectLayout(objs)

-----------------------------------------------------------------------------
(* S3Layout.Apply *)

VARIABLES
  objects,         \* the paths of the objects in the bucket
  moving,          \* 0 if no migration runs, or the place in MoveOrder of the type that is moved
  toMove,          \* the names that List has still to pass
  renaming,        \* "no"; "copy" or "remove": the next request of Rename
  attempts,        \* how often Rename was called for the name
  migration,       \* how the last migration has ended
  requestsFailed

layoutVars == <<objects, moving, toMove, renaming, attempts, migration, requestsFailed>>

\* Mutant of MoveOrder: the keys are moved first.
MoveOrderKeysFirst == <<"key", "snapshot", "pack", "lock">>

MoveOrder == <<"snapshot", "pack", "key", "lock">>

LayoutsInit ==
  /\ objects = {Filename("s3legacy", h) : h \in Migrated}
  /\ moving = 0 /\ toMove = <<>> /\ renaming = "no" /\ attempts = 0
  /\ migration = "none" /\ requestsFailed = 0

LayoutsTypeOK ==
  /\ moving \in 0 .. Len(MoveOrder)
  /\ renaming \in {"no", "copy", "remove"}
  /\ attempts \in 0 .. RenameTries
  /\ migration \in {"none", "nil", "error"}

\* The orders in which List may pass the names.
Orders(names) == {s \in [1 .. Cardinality(names) -> names] : \A i, j \in DOMAIN s : s[i] = s[j] => i = j}

ListMoved(i) ==
  /\ moving' = i
  /\ toMove' \in Orders(ListNames("s3legacy", MoveOrder[i], objects))

\* The migration is for buckets in which the old layout is detected.
StartMigration ==
  /\ moving = 0
  /\ ParseLayout(objects, "", "default") = "s3legacy"
  /\ ListMoved(1)
  /\ migration' = "none"
  /\ UNCHANGED <<objects, renaming, attempts, requestsFailed>>

Moved == [type |-> MoveOrder[moving], name |-> Head(toMove)]
OldName == Filename("s3legacy", Moved)
NewName == Filename("default", Moved)

StartRename ==
  /\ moving > 0 /\ toMove # <<>> /\ renaming = "no"
  /\ renaming' = "copy" /\ attempts' = 1
  /\ UNCHANGED <<objects, moving, toMove, migration, requestsFailed>>

\* Rename has returned nil: List goes on.
Renamed == renaming' = "no" /\ attempts' = 0 /\ toMove' = Tail(toMove) /\ UNCHANGED <<moving, migration, requestsFailed>>

\* A request has failed, with or without effect on the objects: Rename is called again, or the
\* migration ends.
RequestFails(effect) ==
  /\ requestsFailed < RenameFaults /\ requestsFailed' = requestsFailed + 1
  /\ objects' \in {objects, effect}
  /\ IF attempts < RenameTries
     THEN renaming' = "copy" /\ attempts' = attempts + 1 /\ UNCHANGED <<moving, toMove, migration>>
     ELSE renaming' = "no" /\ attempts' = 0 /\ moving' = 0 /\ toMove' = <<>> /\ migration' = "error"

\* CopyObject; an object that does not exist was renamed before.
CopyObject ==
  /\ renaming = "copy"
  /\ \/ (OldName = NewName \/ OldName \notin objects) /\ Renamed /\ UNCHANGED objects
     \/ /\ OldName # NewName /\ OldName \in objects
        /\ \/ /\ objects' = objects \cup {NewName}
              /\ renaming' = "remove"
              /\ UNCHANGED <<moving, toMove, attempts, migration, requestsFailed>>
           \/ RequestFails(objects \cup {NewName})

RemoveObject ==
  /\ renaming = "remove"
  /\ \/ objects' = objects \ {OldName} /\ Renamed
     \/ RequestFails(objects \ {OldName})

\* All files of the type are moved: the next type, or the migration is done.
EndOfType ==
  /\ moving > 0 /\ toMove = <<>>
  /\ IF moving < Len(MoveOrder)
     THEN ListMoved(moving + 1) /\ UNCHANGED migration
     ELSE moving' = 0 /\ migration' = "nil" /\ UNCHANGED toMove
  /\ UNCHANGED <<objects, renaming, attempts, requestsFailed>>

\* The process is killed, or List or the context ends the migration with an error.
MigrationStops ==
  /\ moving > 0
  /\ requestsFailed < RenameFaults /\ requestsFailed' = requestsFailed + 1
  /\ moving' = 0 /\ toMove' = <<>> /\ renaming' = "no" /\ attempts' = 0
  /\ migration' \in {migration, "error"}
  /\ UNCHANGED objects

LayoutsNext ==
  \/ StartMigration \/ StartRename \/ CopyObject \/ RemoveObject \/ EndOfType \/ MigrationStops

LayoutsSpec == LayoutsInit /\ [][LayoutsNext]_layoutVars

-----------------------------------------------------------------------------
(* Properties *)

\* In each layout every file has a name of its own, in a directory that was made, and List gives
\* back the names of the files of a type and no others.
NamesExact(l, handles) ==
  LET objs == {Filename(l, h) : h \in handles}
  IN  /\ Cardinality(objs) = Cardinality(handles)
      /\ \A h \in handles : Dirname(l, h) \in Paths(l) \cup {<<>>}
      /\ \A t \in FileTypes : ListNames(l, t, objs) = {h.name : h \in {x \in handles : x.type = t}}

\* The file is where the layout has it.
In(l, h) == Filename(l, h) \in objects

\* The migration loses no file: whatever requests fail and whenever the process is killed, each
\* file is where the old layout or where the new one has it.
MigrationKeeps == \A h \in Migrated : In("s3legacy", h) \/ In("default", h)

\* A bucket whose migration was stopped can be used.  If it is opened with the new layout,
\* because that is detected or because keys are found in both places, all snapshots and packs
\* are in place and a key opens it; if with the old layout, it can be migrated again and has all
\* of its keys.  After a complete migration everything is in its new place only.
MigrationSafe ==
  /\ ParseLayout(objects, "", "default") = "default" =>
       /\ \A h \in Migrated : h.type \in {"snapshot", "pack", "index", "config"} => In("default", h)
       /\ \E h \in Migrated : h.type = "key" /\ In("default", h)
  /\ ParseLayout(objects, "", "default") = "s3legacy" =>
       \A h \in Migrated : h.type \in {"key", "index", "config"} => In("s3legacy", h)
  /\ migration = "nil" => objects = {Filename("default", h) : h \in Migrated}
=============================================================================
