SPECIFICATION MCSpec
CONSTANTS
  Client = {"a", "b"}
  Handle = {"index", "lock"}
  AutoCached = {"index"}
  LockFile = {"lock"}
  Calls <- AllCalls
  Connections = 1
  MaxTries = 1
  Cancellable = {"b"}
  Faults = {"load", "save", "remove", "cache", "other"}
  None = None
  LocalFaults = {"io", "crash"}
  Name = {"x", "y"}
  ListTries = 1
  ListFaults = {"list", "fn", "cancel", "change"}
  Heads = {"ab", "cd"}
  Migrated <- OldBucket
  RenameTries = 2
  RenameFaults = 3
INVARIANTS
  StackSafe
  LocalSafe
  ListingExact
  LayoutsSafe
PROPERTIES
  NoBadCopy
  CallsReturn
