SPECIFICATION AnnouncementsSpec
CONSTANTS
  Groups = {g1}
  Users = {u1, u2}
  Assigners = {a1, a2}
  Roles = {"VISITOR", "ADMIN"}
  MaxListed = 2
  NoMember = NoMember
  Updates = {k1}
  Targets <- MCTargets
  Broadcast <- MCBroadcast
  NoTarget = NoTarget
  Chunk = 1
SYMMETRY Symmetry
INVARIANTS
  NoMoreThanTogether
  AnnouncementsInv
PROPERTIES
  SeesWhatToldOf
CHECK_DEADLOCK FALSE
