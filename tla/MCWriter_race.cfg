SPECIFICATION Spec
CONSTANTS
  p1 = p1  p2 = p2  p3 = p3
  n1 = n1  n2 = n2
  c1 = c1  c2 = c2
  NoProc = NoProc
  NoFile = NoFile
  Torn = Torn
  Procs <- ThreeProcs
  Names <- OneName
  Candidates <- TwoCandidates
  Calls <- PublishCalls
  MaxAttempts = 1
  MaxPowerLosses = 1
SYMMETRY Symmetry
INVARIANTS
  TypeOK
  NoTornOutput
  HolderOwnsPending
  RecoveryNeverRefuses
  ReadbackCannotFail
  CreatedIsTruthful
  ResidueExplained
  PublishedIsDurable
