\* Blobs are copied to another repository; nothing fails, but blobs are damaged.
\* The model stops when Repack has returned.
CHECK_DEADLOCK FALSE
SPECIFICATION RepackSpec
CONSTANTS
  OldPack = {"x", "y"}
  PackBlobs <- SharedBlobs
  KeepBlobs = {"a", "b", "c"}
  Damaged <- OneInEachPack
  Copies = {"a", "c"}
  SameRepo = FALSE
  Conns = 2
  NewPackSize = 2
  AutoIndex = TRUE
  RepackTries = 1
  RepackFaults = {}
  NoPack = NoPack
PROPERTY
  RepackEnds
