\* The callback ignores errors of g and h but not those of f and d.
\* The model stops when Snapshot has returned.
CHECK_DEADLOCK FALSE
SPECIFICATION MCSpec
CONSTANTS
  Walk <- Targets
  Parent <- In
  Root = "root"
  Chunks <- Sizes
  Unchanged = {"h"}
  Ignored = {"g", "h"}
  FileWorker = {r1}
  BlobWorker = {b1, b2}
  TreeWorker = {t1}
  Faults = {"read", "save", "flush", "cancel"}
  None = None
INVARIANTS
  SnapshotSafe
  NoPanic
  TargetsExact
PROPERTIES
  SnapshotEnds
