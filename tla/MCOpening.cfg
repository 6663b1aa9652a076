CONSTANTS
  p1 = p1
  p2 = p2
  Proc = {p1, p2}
  LockID = {i1, i2, i3}
  NoID = NoID
  HostOf <- TwoHosts
  Faults = {}
  Forced = TRUE
  Client = {c1, c2}
  Searcher = {c2}
  Password = {"p", "q"}
  Limits = {0, 1}
  AtomicReplace = FALSE
  KeyFiles = 2
  KeyFaults = 2
SPECIFICATION MCSpec
INVARIANTS
  NoLockLeft
  KeysShared
  ConfigSafe
PROPERTIES
  CallsReturn
