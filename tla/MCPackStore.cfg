\* Safety with every kind of failure and restarts.
SPECIFICATION MCSpec
CONSTANTS
  b1 = b1
  b2 = b2
  b3 = b3
  b4 = b4
  Blob = {b1, b2, b3, b4}
  TreeBlob = {b3}
  Big = {b4}
  PackMax = 2
  IndexMax = 3
  Saver = {s1, s2}
  Uploader = {u1, u2}
  Main = Main
  FlushScope = 2
  Retry = FALSE
  Faults = {"save", "temp", "cancel"}
  PackBlob <- FourKinds
  EagerEntries = 2
  MaxHeader = 20
  MaxPacked = 5
  StoredIndex <- ThreeFiles
  Packs <- NewPacks
  BadHeader = {"u"}
  Version = 2
  NewFiles = {"n1", "n2"}
  IndexFaults = {"load", "save", "cancel"}
  Key = {"a", "b", "c"}
  HashOf <- ThreeHashes
  InitialBuckets = 1
  BlockPower = 1
  MaxLoad = 2
  MaxAdds = 8
SYMMETRY Symmetric
INVARIANTS
  IndexedPacksStored
  FlushCommits
  NoDuplicates
  PacksExact
  IndexSound
  TableExact
