---------------------------- MODULE MCApprovals ----------------------------
(* A small instance of Approvals for TLC. *)
EXTENDS Approvals, TLC

CONSTANTS a1, a2, u1, u2, u3, t1, t2, v1, o1, o2, o3, k1, k2

TwoAdmins == {a1, a2}
ThreeUsers == {u1, u2, u3}
TwoTransfers == {t1, t2}
OneVoucher == {v1}
ThreeOwnerships == {o1, o2, o3}
TwoCodes == {k1, k2}
Symmetry == Permutations(Admins) \cup Permutations(Users)
              \cup Permutations(Transfers) \cup Permutations(Ownerships)
              \cup Permutations(Codes)
=============================================================================
