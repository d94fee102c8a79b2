CONSTANTS
  Sessions = {s1}
  ContextEngines = {e1}
  Places = {c1, c2}
  MaxCompactions = 2
  MaxDisturbances = 1
  MaxCalls = 3
SPECIFICATION ProjectionSpec
INVARIANTS ProjectionFresh NoBlackout AssembledIsCurrent NoHole
SYMMETRY Symmetry
CHECK_DEADLOCK FALSE
