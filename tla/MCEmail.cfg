SPECIFICATION FairSpec
CONSTANTS
  c1 = c1
  c2 = c2
  k1 = k1
  Callers <- TwoCallers
  Keys <- OneKey
  NoKey = NoKey
  MaxLost = 2
  MaxCalls = 4
INVARIANTS
  EmailInv
  OneMessageUnlessLost
PROPERTIES
  QueuedIsDecided
CHECK_DEADLOCK FALSE
