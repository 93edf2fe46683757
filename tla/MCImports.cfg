SPECIFICATION Spec
CONSTANTS
  h1 = h1
  h2 = h2
  s1 = s1
  s2 = s2
  k1 = k1
  k2 = k2
  k3 = k3
  Handlers <- TwoHandlers
  Sessions <- TwoSessions
  Keys <- MCKeys
  Codes <- MCCodes
  NoSession = NoSession
  Files <- MCFiles
  MaxFailures = 1
  MaxCrashes = 1
INVARIANTS
  ImportsInv
  OnlyChosenCreated
  RecordedIsOwn
  CommittedIsComplete
SYMMETRY Symmetry
CHECK_DEADLOCK FALSE
