SPECIFICATION FairPipelineSpec
CONSTANTS
  w1 = w1  w2 = w2  w3 = w3
  f0 = f0  f1 = f1
  p1 = p1  p2 = p2
  c1 = c1  c2 = c2
  Absent = Absent
  Workers = {w1, w2}
  Fences = {f0}
  Requests <- Deliveries
  Contents = {c1}
  Failures = {"after"}
  FenceOf <- OneFence
  Leases <- Long
  MinimumLease = 2
  MaxFaults = 1
  Foregrounds = {}
  Blocking = {}
CONSTRAINT Distinct
PROPERTY
  CommittedBecomesPublic
