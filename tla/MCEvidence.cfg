SPECIFICATION EvidenceSpec
CONSTANTS
  c1 = c1  c2 = c2  c3 = c3
  k1 = k1
  h1 = h1  h2 = h2
  Absent = Absent
  Callers = {c1, c2, c3}
  RequestFiles <- Files
  CostOf <- Costs
  MaxFaults = 1
  Collectors = {k1}
  Measured <- BaseRequest
  Heads = {h1, h2}
  ExpectedHead = h1
SYMMETRY Symmetry
CONSTRAINT Apart
INVARIANTS
  ReuseIsSound
  LedgerMatchesStore
  LedgerIsDetermined
  CancellationNotLost
  EveryEndIsTold
