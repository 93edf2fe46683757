SPECIFICATION FairWebhookSpec
CONSTANTS
  i1 = i1
  i2 = i2
  h1 = h1
  h2 = h2
  Identities <- MCIdentities
  NoIdentity = NoIdentity
  Handlers <- TwoHandlers
  Histories <- TwoLives
  MaxFailures = 1
  MaxCrashes = 1
INVARIANTS
  WebhookInv
  RowFollowsEvents
PROPERTIES
  EventsHandled
CHECK_DEADLOCK FALSE
