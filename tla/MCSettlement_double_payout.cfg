SPECIFICATION SettlementSpec
CONSTANTS
  Cent = 2
  PctUnit = 1
  u1 = u1
  u2 = u2
  a1 = a1
  a2 = a2
  r1 = r1
  s1 = s1
  Users <- MCUsers
  Types <- MCTypes
  Requests <- MCRequests
  Schedules <- MCSchedules
  Deposits = {16}
  Conversions <- NoConversions
  Clients <- AllClients
  NoRequest = NoRequest
  KeyBound = 16
  LockKey <- MCLockKey
  Floors = {}
  FlooredWallets = {}
  MaxVolume = 1
  Admins <- TwoAdmins
  Residents <- OneResident
  Settlements <- OneSettlement
  Owner <- MCOwner
  Amount <- MCAmount
  Roles = {"RESIDENT", "VENDOR"}
  NoSettlement = NoSettlement
  NoClient = NoClient
SYMMETRY AdminSymmetry
INVARIANTS
  PaidAtMostOnce
