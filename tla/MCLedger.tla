------------------------------ MODULE MCLedger ------------------------------
(* Small instances of Ledger for TLC. *)
EXTENDS Ledger, TLC

CONSTANTS u1, u2, c1, c2

MCUsers == {u1, u2}
TwoClients == {c1, c2}
ClientSymmetry == Permutations(Clients)

MCTypes == {"PURCHASE", "SETTLEMENT"}

\* Amounts are counted in half cents (Cent = 2), so that the parts of a
\* purchase of 6 units at 25% are rounded up; a settlement is free of fees.
Rule(a, b, d) == [community |-> a, operations |-> b, developer |-> d]
NoFees == [t \in MCTypes |-> ZeroRule]
WithFees == [t \in MCTypes |->
               IF t = "PURCHASE" THEN Rule(25, 0, 25) ELSE ZeroRule]
MCSchedules == {NoFees, WithFees}

Ask(a, b, k, t, x) ==
  [from |-> a, to |-> b, amount |-> k, type |-> t, bonus |-> x]

\* Two spenders of one wallet, a purchase with fees and a settlement; a cash-out
\* with a bonus; and the fund that collects a fee pays out again.
MCRequests ==
  {Ask(u1, u2, 6, "PURCHASE", 0),
   Ask(u1, "settlement_burn", 4, "SETTLEMENT", 0),
   Ask(u2, "fiat_settlement", 2, "SETTLEMENT", 1),
   Ask("community_fund", u2, 2, "SETTLEMENT", 0)}

\* Keys out of the order of the names; u2 and developer_share collide.
MCLockKey ==
  [w \in {u1, u2} \cup SystemWallets |->
     CASE w = u1 -> 5
       [] w = u2 -> 2
       [] w = "community_fund" -> 4
       [] w = "operations_fund" -> 1
       [] w = "developer_share" -> 2
       [] w = "settlement_burn" -> 3
       [] w = "fiat_settlement" -> 6
       [] w = "treasury_reserve" -> 7
       [] w = "promotions" -> 8]

MCConversions == {<<5, 1>>}

\* A floor, and a number that the route refuses.
MCFloors == {-2, 2}
=============================================================================
