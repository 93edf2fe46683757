SPECIFICATION LedgerSpec
CONSTANTS
  Cent = 2
  PctUnit = 1
  u1 = u1
  u2 = u2
  c1 = c1
  c2 = c2
  Users <- MCUsers
  Types <- MCTypes
  Requests <- MCRequests
  Schedules <- MCSchedules
  Deposits = {8}
  Conversions <- MCConversions
  Clients <- TwoClients
  NoRequest = NoRequest
  KeyBound = 16
  LockKey <- MCLockKey
  Floors <- MCFloors
  FlooredWallets = {"community_fund"}
  MaxVolume = 6
SYMMETRY ClientSymmetry
INVARIANTS
  BooksBalance
  NoOverdraft
  NoWaitCycle
PROPERTIES
  ImplementsAtomicLedger
  FloorKept
