---------------------------- MODULE MCSettlement ----------------------------
(* Small instances of Settlement for TLC. *)
EXTENDS Settlement, TLC

CONSTANTS u1, u2, a1, a2, r1, s1

MCUsers == {u1, u2}
MCTypes == {"PURCHASE"} \cup SettlementTypes
TwoAdmins == {a1, a2}
OneResident == {r1}
AllClients == Admins \cup Residents
AdminSymmetry == Permutations(Admins)

\* A quarter of a settlement goes to each of two funds.
MCSchedules ==
  {[t \in MCTypes |->
      IF t \in SettlementTypes
      THEN [community |-> 25, operations |-> 25, developer |-> 0]
      ELSE ZeroRule]}

OneSettlement == {s1}
MCOwner == [s \in Settlements |-> u1]
MCAmount == [s \in Settlements |-> 8]

\* The resident also spends the credits elsewhere.
Purchase == [from |-> u1, to |-> u2, amount |-> 4, type |-> "PURCHASE",
             bonus |-> 0]
MCRequests == {Purchase} \cup UNION {Payouts(s) : s \in Settlements}

MCLockKey ==
  [w \in {u1, u2} \cup SystemWallets |->
     CASE w = u1 -> 5
       [] w = "community_fund" -> 2
       [] w = "settlement_burn" -> 3
       [] OTHER -> 4]

NoConversions == {}

\* What BurnMatchesRows is about.
ASSUME BurnAssumption == OnlyPayoutsBurn /\ OneSchedule
=============================================================================
