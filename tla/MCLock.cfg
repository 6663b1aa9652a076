CONSTANTS
  p1 = p1
  p2 = p2
  Proc = {p1, p2}
  LockID = {i1, i2, i3}
  NoID = NoID
  HostOf <- OneHost
  Faults = {"save", "remove", "read", "exit"}
  Forced = FALSE
  Client = {c1}
  Searcher = {}
  Password = {"p"}
  Limits = {0}
  AtomicReplace = FALSE
  KeyFiles = 1
  KeyFaults = 0
SYMMETRY Symmetric
SPECIFICATION LockSpec
INVARIANTS
  FreshLockVisible
PROPERTIES
  ImplementsRepoLock
