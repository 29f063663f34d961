SPECIFICATION PipelineSpec
CONSTANTS
  w1 = w1  w2 = w2  w3 = w3
  f0 = f0  f1 = f1
  p1 = p1  p2 = p2
  c1 = c1  c2 = c2
  Absent = Absent
  Workers = {w1, w2}
  Fences = {f0, f1}
  Requests <- Redrives
  Contents = {c1, c2}
  Failures = {"before", "after"}
  FenceOf <- TwoFences
  Leases <- ShortAndLong
  MinimumLease = 2
  MaxFaults = 1
  Foregrounds = {p1, p2}
  Blocking = {c2}
SYMMETRY Symmetry
CONSTRAINTS Distinct Apart
INVARIANTS
  RepairOnlyIfPublic
  RecoveryBindingHolds
  OrphansExpendable
  ProgressProjectable
  OneEligible
  AdmissionBindsCommitted
PROPERTIES
  ImplementsRunOutcome
