SPECIFICATION EvidenceSpec
CONSTANTS
  c1 = c1  c2 = c2  c3 = c3
  k1 = k1
  h1 = h1  h2 = h2
  Absent = Absent
  Callers = {c1, c2}
  RequestFiles <- Measurements
  CostOf <- Costs
  MaxFaults = 0
  Collectors = {}
  Measured <- BaseRequest
  Heads = {h1}
  ExpectedHead = h1
INVARIANT
  OneEntryPerWork
CHECK_DEADLOCK FALSE
