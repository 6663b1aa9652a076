\* restoreFiles: everything may fail, and the Error callback may return the error: then workers
\* may be left behind, and the model stops.  The other models stop when they are done.
CHECK_DEADLOCK FALSE
SPECIFICATION MCSpec
CONSTANTS
  Part = {"p1", "p2", "p3"}
  FileOf <- PFile
  BlobOf <- PBlob
  PackOf <- PPack
  PackOrder <- TwoPacks
  Present = {"f"}
  Worker = {w1, w2}
  Retries = 1
  Abort = TRUE
  Faults = {"load", "blob", "open", "truncate", "write", "cancel"}
  None = None
  Top = "/"
  Kids <- SomeKids
  Kind <- SomeKinds
  Inode <- SomeInodes
  BadNames = {"z"}
  NoSubtree = {"y"}
  Selections <- SomeSelections
  Existing = {"b", "k", "p"}
  TreeFaults = 2
  Restorable <- FiveFiles
  BlobBytes <- ThreeBlobs
  Verifier = {v1, v2}
  VerifyCap = 1
  UserName <- OneUser
  Templates <- DefaultTemplates
  Mountable <- SnapshotsToMount
  DumpNodes <- SixNodes
  BlobLen <- FourLengths
  CacheSize = 5
  Overhead = 1
  DumpCap = 2
  DumpFaults = {"tree", "blob", "write", "cancel"}
INVARIANTS
  FilesRestored
  TreeInPlace
  VerifySound
  NodesExact
  MountExact
  DumpExact
  PatternsExact
PROPERTIES
  WritesKept
  CommandsEnd
