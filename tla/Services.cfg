SPECIFICATION ServicesSpec
CONSTANTS
  s1 = s1
  Scopes <- MCScopes
  Recalls = {c1, c2}
  MaxUserTurns = 2
  Failures = {"unavailable", "auth"}
  MaxCircuits = 1
  MaxAttempts = 1
  MaxTurns = 1
  MaxTriggers = 1
  UnavailableUnit = 1
  UnavailableMax = 1
  Cooldown <- MCCooldown
  Lines <- MCLines
  NoDiary = NoDiary
  MaxEdits = 3
  MaxDreamFaults = 1
  MaxStops = 1
  Priorities = {0, 7, 12}
  Limits = {0, 1, 2}
  MaxSets = 3
  MaxRuleFaults = 2
INVARIANTS OpenedByThreshold RecallStaysWithClient StoppedIsQuiet RulesAreStored RuleIdsNameOneRule
PROPERTIES RecallRetried DiaryPromoted
CHECK_DEADLOCK FALSE
