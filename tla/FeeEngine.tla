----------------------------- MODULE FeeEngine -----------------------------
(***************************************************************************)
(* src/lib/ledger/fee-engine.ts: how a gross amount is split between the   *)
(* recipient and the three fee funds.                                      *)
(*                                                                         *)
(* Amounts are whole numbers of ledger units (the code's Decimal(20, 8));  *)
(* Cent units make 0.01 KCRD and PctUnit steps make one percent, so that a *)
(* fractional percentage such as 2.5 is a whole number of steps too.       *)
(***************************************************************************)
EXTENDS Integers

CONSTANTS Cent,     \* ledger units in 0.01 KCRD (10^6 in the database)
          PctUnit   \* steps in one percent

ASSUME FeeUnitsAssumption == Cent \in Nat \ {0} /\ PctUnit \in Nat \ {0}

Whole == 100 * PctUnit      \* the steps in 100 percent

\* FeeRuleEntry without totalPct, which calculateFee never reads; the route
\* that stores a rule lets each part be anything from 0 to 100 percent.
FeeRule == [community : 0..Whole, operations : 0..Whole, developer : 0..Whole]

FeeSplit == [net : Int, community : Nat, operations : Nat, developer : Nat]

\* ZERO_RULE: the rule of a transaction type the schedule does not list, and
\* of every type when no schedule is in force.
ZeroRule == [community |-> 0, operations |-> 0, developer |-> 0]

\* Decimal.ROUND_HALF_EVEN of the fraction n / d.
RoundHalfEven(n, d) ==
  LET q == n \div d
      r == n % d
  IN  IF 2 * r > d \/ (2 * r = d /\ q % 2 = 1) THEN q + 1 ELSE q

\* What three parts taken from a gross amount leave for the recipient.
Split(gross, community, operations, developer) ==
  [net |-> gross - (community + operations + developer),
   community |-> community, operations |-> operations, developer |-> developer]

totalFee(split) == split.community + split.operations + split.developer

\* Fault: the common rounding, which sends every tie up.
FeePart_TiesUp(gross, pct) ==
  Cent * ((2 * gross * pct + Whole * Cent) \div (2 * Whole * Cent))

\* One part of the fee: pct of the gross amount, to two decimals.
FeePart(gross, pct) == Cent * RoundHalfEven(gross * pct, Whole * Cent)

\* The split of a gross amount under one rule.
calculateFee(rule, gross) ==
  Split(gross, FeePart(gross, rule.community),
               FeePart(gross, rule.operations),
               FeePart(gross, rule.developer))
=============================================================================
