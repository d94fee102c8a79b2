SPECIFICATION Spec
CONSTANTS
  Calls = {c1, c2, c3}
  MaxSlots = 3
  MaxNonces = 3
  MaxForgets = 1
  Callers = {k1, k2}
  s1 = s1
  s2 = s2
  t0 = t0
  t1 = t1
  t2 = t2
  Sessions <- MCSessions
  Tenants <- MCTenants
  Owner <- MCOwner
  Default = t0
  Tasks = {k1, k2}
  MaxClients = 3
  d1 = d1
  d2 = d2
  Docs = {d1, d2}
  AB = AB
  SP = SP
  CR = CR
  HI = HI
  LO = LO
  Work <- MCWork
  CharsPerToken = 2
  ProbeLimit = 3
  ChunkTokens = 2
  MaxRetries = 1
  MaxFaults = 2
INVARIANTS RefusedOnlyAfterLoss NoClientLeaks RoutedToOwner
INVARIANTS NoGap SuccessMeansStored WholeCharacters
PROPERTIES EveryCallSettles EveryGetClientSettles ShutdownCompletes EveryOpSettles
CHECK_DEADLOCK FALSE
