SPECIFICATION Spec
CONSTANTS
  NDocs = 2
  NAdapters = 2
  NRoots = 2
  AdapterOf <- MCAdapterOf
  Covers <- MCCovers
  Rejected <- MCRejected
  TooLarge <- MCTooLarge
  MayRevert = FALSE
  MaxEdits = 1
  Faults = {"rpc", "fs", "pressure"}
  MaxFaults = 1
  MaxStarts = 2
INVARIANTS SkipMeansStoredUnlessReleased OneWriterPerDocument
PROPERTIES OnlyGoneIsDeleted UnracedChangesIngested
CHECK_DEADLOCK FALSE
