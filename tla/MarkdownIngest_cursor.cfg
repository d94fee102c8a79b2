SPECIFICATION Spec
CONSTANTS
  NDocs = 2
  NAdapters = 2
  NRoots = 2
  AdapterOf <- MCAdapterOf
  Covers <- MCCovers
  Rejected <- MCRejected
  TooLarge <- MCTooLarge
  MayRevert = FALSE
  MaxEdits = 1
  Faults = {"pressure"}
  MaxFaults = 1
  MaxStarts = 1

PROPERTIES EveryChangeIngested
CHECK_DEADLOCK FALSE
