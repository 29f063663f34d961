SPECIFICATION DeliverySpec
CONSTANTS
  Absent = Absent
  Heads = {1, 2}
  ExpectedHead = 1
  Stages = {"lint", "format", "types", "tests"}
  PhaseOf <- Phases
  Tests = {"tests"}
  Handoffs = {"p1", "p2", "m1", "m2"}
  Handoff <- TwoOfEach
  MaxGitFaults = 1
CONSTRAINT Bounds
CHECK_DEADLOCK FALSE
INVARIANTS
  SealMeansEarned
  PhasesInOrder
  PassedHandoffHolds
  RemoteRestored
