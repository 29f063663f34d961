SPECIFICATION FairSpec
CONSTANTS
  p1 = p1  p2 = p2  p3 = p3
  n1 = n1  n2 = n2
  c1 = c1  c2 = c2
  NoProc = NoProc
  NoFile = NoFile
  Torn = Torn
  Procs <- TwoProcs
  Names <- TwoNames
  Candidates <- TwoCandidates
  Calls <- NamesCalls
  MaxAttempts = 2
  MaxPowerLosses = 1
PROPERTIES
  LockEventuallyFree
  ImplementsWriteOnceStore
  DirectoryStillForReaders
