SPECIFICATION SessionSpec
CONSTANTS
  Calls = {c1, c2}
  Engines = {e1, e2}
  NTurns = 3
  Transcript <- MCTranscript
  PrePrompt <- MCPrePrompt
  Bounded <- MCBounded
  Batch = 5
  MemoLimit = 1
  DurableHost = FALSE
  AfterTurnHost = TRUE
  InOrderHost = TRUE
  CursorDaemon = FALSE
  MaxChain = 9
  MaxFaults = 2
  MaxLate = 1
  None = None
  CharsPerToken = 2
  MessageOverhead = 2
  HeadroomTokens = 2
  HeadroomShare = 5
  WindowSize = 2
  Transcripts <- MCTranscripts
  Budgets = {0, 4, 8, 14}
  ExtraSizes = {0, 6}
  ContextSizes = {0, 11}
  InjectionCap = 6
  Claims = {0, 6}
  CompactThreshold = 0
  ThresholdPercent = 80
  SessionBudget = 9
  ThresholdFloor = 1
  ThresholdCeiling = 10
  SectionFrame = 2
  ItemFrame = 1
  ItemLists <- MCItemLists
  Reserved = 1
  HookSessions = {s1, s2, s3}
  Children = {k1}
  NoKey = NoKey
  MaxRemembered = 2
  MaxBudgets = 1
  SubagentTokens = 1
  Ttl = 1
  MaxExpand = 1
  MaxExpansions = 1
  s1 = s1
  NoSession = NoSession
  NoTenant = NoTenant
  ToolScopes <- MCToolScopes
  Records <- MCRecords
  CausesOf <- MCCauses
  ParentsOf <- MCParents
  SearchQueries <- MCQueries
  SearchSlots = {q1}
  MaxScopes = 1
  DedupTtl = 1
  MaxToolFaults = 1
INVARIANTS CheckpointNotAhead SerialIngestion FitsBudget TurnsKept AimsLower ExclusionFollowsIdentity
INVARIANTS BlockedHasResults BestAreAnswered ReferencesReachTheirRecord
PROPERTY LeastActiveDropped
CHECK_DEADLOCK FALSE
