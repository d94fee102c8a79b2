SPECIFICATION Spec
CONSTANTS
  Calls = {c1, c2}
  Engines = {e1, e2}
  NTurns = 2
  Transcript <- MCTranscript
  PrePrompt <- MCPrePrompt
  Bounded <- MCBounded
  Budget = 4
  MemoLimit = 1
  DurableHost = TRUE
  AfterTurnHost = FALSE
  InOrderHost = FALSE
  CursorDaemon = TRUE
  MaxChain = 4
  MaxFaults = 1
  MaxLate = 0
  None = None
SYMMETRY Symmetry
PROPERTY ReplayAddsNothing
CHECK_DEADLOCK FALSE
