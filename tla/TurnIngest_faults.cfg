SPECIFICATION Spec
CONSTANTS
  Calls = {c1, c2}
  Engines = {e1, e2}
  NTurns = 2
  Transcript <- MCTranscript
  PrePrompt <- MCPrePrompt
  Bounded <- MCBounded
  Budget = 2
  MemoLimit = 1
  DurableHost = TRUE
  AfterTurnHost = FALSE
  InOrderHost = TRUE
  CursorDaemon = TRUE
  MaxChain = 4
  MaxFaults = 2
  MaxLate = 1
  None = None
SYMMETRY Symmetry
INVARIANT CommittedMeansStored
PROPERTIES RecoveryPaidBeforeCommit ReplayAddsNothing ImplementsTurnCommit
CHECK_DEADLOCK FALSE
