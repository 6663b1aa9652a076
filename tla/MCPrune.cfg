\* All failures, and cancellation.  The model stops when the calls have returned.
CHECK_DEADLOCK FALSE
SPECIFICATION MCSpec
CONSTANTS
  t1 = t1
  t2 = t2
  t3 = t3
  t4 = t4
  t5 = t5
  Tree = {t1, t2, t3, t4, t5}
  Subtrees <- Shared
  Huge = {t3, t5}
  Roots <- FourRoots
  Seen = {t4}
  Loader = {l1, l2}
  HugeLoader = h
  HugeCap = 1
  None = None
  Faults = {"load", "cancel"}
  OldPack = {"x", "y"}
  PackBlobs <- SharedBlobs
  KeepBlobs = {"a", "b", "c"}
  Damaged <- OneInEachPack
  Copies = {"a", "c"}
  SameRepo = TRUE
  Conns = 3
  NewPackSize = 2
  AutoIndex = FALSE
  RepackTries = 1
  RepackFaults = {"download", "copy", "upload", "flush", "cancel"}
  NoPack = NoPack
  OldIndex = {"i", "j", "k"}
  PacksOf <- ThreeIndexes
  Extra = {"k"}
  Blacklist = {"p1", "p2"}
  Reread = {"p2"}
  IndexMax = 2
  Savers = 2
  RewriteFaults = {"save", "cancel"}
  CkPack <- ThreePacks
  CkIndex <- PacksInIndexes
  CkSnapshot <- TwoSnapshots
  CkSubtrees <- OneSubtree
  CkContent <- OneFileEach
  OldFormat = {"k"}
  Damages <- AnyDamage
  MaxDamage = 1
  TreeChecker = {"w1", "w2"}
  PackChecker = {"v1", "v2"}
  CkFaults = {"load", "cancel"}
  Nothing = Nothing
  SnapFiles <- FourSnapshots
  Filters <- SomeFilters
  NoSnapshot <- EmptyID
  HoursPerDay = 2
  DaysPerWeek = 3
  DaysPerMonth = 2
  MonthsPerYear = 2
  LoadableTree <- LoadedTrees
  LossyTree <- OneTree
  NilTree = NilTree
  WalkTree <- WalkedTrees
  WalkRoot = "r"
  WalkUnloadable = {"u"}
INVARIANTS
  UsedBlobsFound
  UsedOnce
  RepackExact
  RewriteSafe
  CheckExact
  SnapshotsExact
  TreesExact
PROPERTIES
  StepsEnd
