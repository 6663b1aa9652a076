\* Flush gets the context of the caller, as in Archiver.Snapshot.
SPECIFICATION FairSpec
CONSTANTS
  b1 = b1
  b2 = b2
  b3 = b3
  b4 = b4
  Blob = {b1, b3}
  TreeBlob = {b3}
  Big = {}
  PackMax = 2
  IndexMax = 3
  Saver = {s1, s2}
  Uploader = {u1, u2}
  Main = Main
  FlushScope = 3
  Retry = FALSE
  Faults = {"save"}
PROPERTY
  FlushEnds
