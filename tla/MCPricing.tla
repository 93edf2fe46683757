------------------------------ MODULE MCPricing ------------------------------
(***************************************************************************)
(* What a transfer or a conversion is charged by: the rounding of a fee,   *)
(* the schedule it is taken from, and the rate and the promotion of a      *)
(* conversion.  The four parts share no state; a behaviour moves one of    *)
(* them and leaves the others as they begin.                               *)
(***************************************************************************)
EXTENDS MCFeeEngine, FeeSchedules, ConversionRates, Promotions, TLC

CONSTANTS big, small, mine   \* the promotions

\* The one for residents gives most, as does one for a user by name; the one for
\* all runs longest.
MCBonus == [p \in Promotions |-> IF p = small THEN 10 ELSE 20]
MCEligibility == [p \in Promotions |-> CASE p = big  -> "RESIDENTS_ONLY"
                                         [] p = mine -> "SPECIFIC_USERS"
                                         [] OTHER    -> "ALL"]
MCEligibleUsers == [p \in Promotions |-> IF p = mine THEN Members ELSE {}]
MCStarting == [p \in Promotions |-> IF p = big THEN 1 ELSE 0]
MCEnding == [p \in Promotions |-> IF p = mine THEN 1 ELSE 2]

\* Which administrator is which makes no difference.
AdminSymmetry == Permutations(Admins)

pricingParts == <<vars, feeVars, pricingVars, promotionVars>>

\* No part but the one that moves has left its initial state.
GridAtRest == gross = 0 /\ rule = [community |-> 0, operations |-> 0, developer |-> 0]

PricingInit == Init /\ FeeInit /\ RatesInit /\ PromotionsInit

PricingNext ==
  \/ /\ FeeInit /\ RatesInit /\ PromotionsInit
     /\ NextAmount /\ UNCHANGED <<feeVars, pricingVars, promotionVars>>
  \/ /\ GridAtRest /\ RatesInit /\ PromotionsInit
     /\ FeeNext /\ UNCHANGED <<vars, pricingVars, promotionVars>>
  \/ /\ GridAtRest /\ FeeInit /\ PromotionsInit
     /\ RatesNext /\ UNCHANGED <<vars, feeVars, promotionVars>>
  \/ /\ GridAtRest /\ FeeInit /\ RatesInit
     /\ PromotionsNext /\ UNCHANGED <<vars, feeVars, pricingVars>>

PricingSpec == PricingInit /\ [][PricingNext]_pricingParts

\* The states of the four parts: a fee's parts are the nearest cents and leave
\* a net (fee-engine.ts), and the rows are well-formed, no two rates of a pair
\* taking effect at one time (schema.prisma).
PricingInv ==
  /\ PartsAreNearestCents
  /\ NetNotNegative
  /\ FeeTypeOK
  /\ RatesTypeOK
  /\ PromotionsTypeOK
=============================================================================
