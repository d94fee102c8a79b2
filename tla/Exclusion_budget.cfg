CONSTANTS
  HookSessions = {s1}
  Children = {k1}
  NoKey = NoKey
  MaxRemembered = 2
  MaxBudgets = 1
  SubagentTokens = 1
  Ttl = 1
  MaxExpand = 1
  MaxExpansions = 3
SPECIFICATION ExclusionSpec
CHECK_DEADLOCK FALSE
INVARIANT SubagentWithinBudget
