SPECIFICATION Spec
CONSTANTS
  c1 = c1  c2 = c2  c3 = c3
  w1 = w1  w2 = w2
  f1 = f1  f2 = f2
  r1 = r1  r2 = r2
  s1 = s1  s2 = s2
  None = None
  Clients <- TwoClients
  Workers = {w1}
  Fences = {f1, f2}
  Results = {r1}
  Seals <- OneSeal
  Deadline <- Deadlines
  MaxVersion = 2
  MaxTime = 4
PROPERTY
  LapsedLeaseNeverFinishes
