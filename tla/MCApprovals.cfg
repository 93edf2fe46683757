SPECIFICATION Spec
CONSTANTS
  a1 = a1
  a2 = a2
  u1 = u1
  u2 = u2
  u3 = u3
  t1 = t1
  t2 = t2
  v1 = v1
  o1 = o1
  o2 = o2
  o3 = o3
  k1 = k1
  k2 = k2
  Admins <- TwoAdmins
  Users <- ThreeUsers
  Transfers <- TwoTransfers
  Vouchers <- OneVoucher
  Ownerships <- ThreeOwnerships
  Codes <- TwoCodes
  NoUser = NoUser
  NoRequest = NoRequest
  NoCode = NoCode
INVARIANTS
  TitleFollowsTransfers
  ToldAsDecided
PROPERTIES
  DecidedOnce
SYMMETRY Symmetry
CHECK_DEADLOCK FALSE
