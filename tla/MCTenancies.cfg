SPECIFICATION FairTenanciesSpec
CONSTANTS
  t1 = t1
  r1 = r1
  r2 = r2
  a1 = a1
  a2 = a2
  c1 = c1
  Tenancies <- OneLease
  Requests <- TwoRequests
  Admins <- TwoAdmins
  Crons <- OneCron
  NoRequest = NoRequest
  NoDate = NoDate
  EndingSoonDays = 1
  MaxDay = 3
  LastDate = 5
  addOneCycle <- AMonth
INVARIANTS
  TenanciesInv
  ExtensionKept
PROPERTIES
  ExpiresInTheEnd
CHECK_DEADLOCK FALSE
