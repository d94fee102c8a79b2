SPECIFICATION Spec
CONSTANTS
  Calls = {c1, c2}
  Engines = {e1}
  NTurns = 3
  Transcript <- MCTranscript
  PrePrompt <- MCPrePrompt
  Bounded <- MCBounded
  Budget = 5
  MemoLimit = 1
  DurableHost = TRUE
  AfterTurnHost = FALSE
  InOrderHost = FALSE
  CursorDaemon = TRUE
  MaxChain = 5
  MaxFaults = 1
  MaxLate = 0
  None = None
SYMMETRY Symmetry
PROPERTY RecoveryPaidBeforeCommit
CHECK_DEADLOCK FALSE
