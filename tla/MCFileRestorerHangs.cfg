\* The Error callback may return the error.
SPECIFICATION FairSpec
CONSTANTS
  Part = {"p1", "p2", "p3"}
  FileOf <- QFile
  BlobOf <- QBlob
  PackOf <- QPack
  PackOrder <- ThreePacks
  Present = {}
  Worker = {w1, w2}
  Retries = 1
  Abort = TRUE
  Faults = {"load"}
  None = None
CHECK_DEADLOCK FALSE
PROPERTY Returns
