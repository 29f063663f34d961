SPECIFICATION Spec
CONSTANTS
  w1 = w1  w2 = w2  w3 = w3
  f1 = f1  f2 = f2
  c1 = c1  c2 = c2
  Absent = Absent
  Workers = {w1, w2}
  Fences = {f1, f2}
  Requests <- Redrives
  Contents = {c1}
  Failures = {"after"}
INVARIANT
  CommittedBytesExist
