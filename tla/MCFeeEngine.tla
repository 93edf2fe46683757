---------------------------- MODULE MCFeeEngine ----------------------------
(***************************************************************************)
(* calculateFee against a reference definition of its rounding, for every  *)
(* gross amount up to a bound under a grid of rules.                       *)
(***************************************************************************)
EXTENDS FeeEngine

CONSTANTS MaxGross,   \* bound: the largest gross amount
          Percents    \* bound: the percentages a part may have

ASSUME GridAssumption == MaxGross \in Nat /\ Percents \subseteq 0 .. Whole

VARIABLES gross, rule

vars == <<gross, rule>>

Init ==
  /\ gross = 0
  /\ rule \in [community : Percents, operations : Percents,
               developer : Percents]

NextAmount ==
  /\ gross' = (gross + 1) % (MaxGross + 1)
  /\ UNCHANGED rule

Spec == Init /\ [][NextAmount]_vars

split == calculateFee(rule, gross)

\* A multiple of Cent is the nearest to gross * pct / Whole, and of two nearest
\* ones the even: Decimal.ROUND_HALF_EVEN by its definition, without division.
IsNearestCent(part, pct) ==
  LET error == Whole * part - gross * pct   \* in units / Whole
      half == Whole * Cent
  IN  /\ part % Cent = 0
      /\ 2 * error <= half /\ -2 * error <= half
      /\ 2 * error = half \/ -2 * error = half => (part \div Cent) % 2 = 0

\* Each part of the fee is its exact share to the nearest 0.01, ties to even
\* (fee-engine.ts, BANKER).
PartsAreNearestCents ==
  /\ IsNearestCent(split.community, rule.community)
  /\ IsNearestCent(split.operations, rule.operations)
  /\ IsNearestCent(split.developer, rule.developer)

\* While the parts of a rule add up to at most half, rounding them separately
\* never charges more than the gross amount, not even on the smallest amounts:
\* the recipient's net is not negative.
NetNotNegative ==
  2 * (rule.community + rule.operations + rule.developer) <= Whole =>
    split.net >= 0
=============================================================================
