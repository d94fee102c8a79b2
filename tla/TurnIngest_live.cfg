SPECIFICATION Spec
CONSTANTS
  Calls = {c1, c2}
  Engines = {e1}
  NTurns = 2
  Transcript <- MCTranscript
  PrePrompt <- MCPrePrompt
  Bounded <- MCBounded
  Budget = 3
  MemoLimit = 1
  DurableHost = TRUE
  AfterTurnHost = TRUE
  InOrderHost = TRUE
  CursorDaemon = TRUE
  MaxChain = 2
  MaxFaults = 1
  MaxLate = 0
  None = None
PROPERTY EveryCommitAnswered
CHECK_DEADLOCK FALSE
