SPECIFICATION WebhookSpec
CONSTANTS
  i1 = i1
  i2 = i2
  h1 = h1
  h2 = h2
  Identities <- MCIdentities
  NoIdentity = NoIdentity
  Handlers <- TwoHandlers
  Histories <- OneLife
  MaxFailures = 1
  MaxCrashes = 0
INVARIANTS
  AnsweredIsHandled
CHECK_DEADLOCK FALSE
