-------------------------- MODULE FeeEngineProofs --------------------------
(***************************************************************************)
(* Lemmas about the fee arithmetic that hold for every amount, every rule  *)
(* and every choice of units.                                              *)
(***************************************************************************)
EXTENDS FeeEngine, TLAPS

\* Rounding yields a natural number that is within half of the fraction.
LEMMA RoundHalfEvenBounds ==
  ASSUME NEW n \in Nat, NEW d \in Nat \ {0}
  PROVE  /\ RoundHalfEven(n, d) \in Nat
         /\ 2 * (RoundHalfEven(n, d) * d) <= 2 * n + d
         /\ RoundHalfEven(n, d) * d <= 2 * n
<1> DEFINE q == n \div d
           r == n % d
<1>1. q \in Nat /\ r \in Nat /\ r < d /\ n = q * d + r
  BY SMT
<1> HIDE DEF q, r
<1>2. RoundHalfEven(n, d) =
        IF 2 * r > d \/ (2 * r = d /\ q % 2 = 1) THEN q + 1 ELSE q
  BY DEF RoundHalfEven, q, r
<1>3. q * d \in Nat /\ (q + 1) * d = q * d + d
  BY <1>1, SMT
<1>4. CASE RoundHalfEven(n, d) = q
  BY <1>1, <1>3, <1>4, SMT
<1>5. CASE RoundHalfEven(n, d) = q + 1 /\ 2 * r >= d
  BY <1>1, <1>3, <1>5, SMT
<1>6. QED
  BY <1>1, <1>2, <1>4, <1>5, SMT

\* A part of a fee is a whole number of units, at most twice its exact share.
LEMMA FeePartBounds ==
  ASSUME NEW gross \in Nat, NEW pct \in Nat
  PROVE  /\ FeePart(gross, pct) \in Nat
         /\ FeePart(gross, pct) * Whole <= 2 * (gross * pct)
<1> DEFINE rounded == RoundHalfEven(gross * pct, Whole * Cent)
<1>1. /\ Whole \in Nat \ {0}
      /\ Whole * Cent \in Nat \ {0}
      /\ gross * pct \in Nat
      /\ Cent \in Nat
  BY FeeUnitsAssumption, SMT DEF Whole
<1>2. rounded \in Nat /\ rounded * (Whole * Cent) <= 2 * (gross * pct)
  BY <1>1, RoundHalfEvenBounds
<1>3. FeePart(gross, pct) = Cent * rounded
  BY DEF FeePart
<1> HIDE DEF rounded
<1>4. /\ Cent * rounded \in Nat
      /\ (Cent * rounded) * Whole = rounded * (Whole * Cent)
  BY <1>1, <1>2, SMT
<1>5. QED
  BY <1>2, <1>3, <1>4

\* Rounding errs by half of the divisor at most, and by half only to an even
\* result.
LEMMA RoundHalfEvenNearest ==
  ASSUME NEW n \in Nat, NEW d \in Nat \ {0}
  PROVE  LET error == RoundHalfEven(n, d) * d - n IN
         /\ 2 * error <= d /\ -2 * error <= d
         /\ 2 * error = d \/ -2 * error = d => RoundHalfEven(n, d) % 2 = 0
<1> DEFINE q == n \div d
           r == n % d
<1>1. q \in Nat /\ r \in Nat /\ r < d /\ n = q * d + r
  BY SMT
<1>2. RoundHalfEven(n, d) =
        IF 2 * r > d \/ (2 * r = d /\ q % 2 = 1) THEN q + 1 ELSE q
  BY DEF RoundHalfEven
<1> HIDE DEF q, r
<1>3. /\ q * d \in Nat /\ (q + 1) * d = q * d + d
      /\ q % 2 = 1 => (q + 1) % 2 = 0
      /\ q % 2 = 0 \/ q % 2 = 1
  BY <1>1, SMT
<1>4. CASE 2 * r > d \/ (2 * r = d /\ q % 2 = 1)
  <2>1. RoundHalfEven(n, d) = q + 1
    BY <1>2, <1>4
  <2>2. RoundHalfEven(n, d) * d - n = d - r
    BY <1>1, <1>3, <2>1, SMT
  <2>3. QED
    BY <1>1, <1>3, <1>4, <2>1, <2>2, SMT
<1>5. CASE ~ (2 * r > d \/ (2 * r = d /\ q % 2 = 1))
  <2>1. RoundHalfEven(n, d) = q
    BY <1>2, <1>5
  <2>2. RoundHalfEven(n, d) * d - n = 0 - r
    BY <1>1, <1>3, <2>1, SMT
  <2>3. QED
    BY <1>1, <1>3, <1>5, <2>1, <2>2, SMT
<1>6. QED
  BY <1>4, <1>5

\* A multiple of a number divides by it without a remainder.
LEMMA MultipleDivides ==
  ASSUME NEW c \in Nat \ {0}, NEW q \in Nat
  PROVE  (c * q) % c = 0 /\ (c * q) \div c = q
  BY SMT

\* A part of a fee is its exact share to the nearest cent, ties to even.
LEMMA FeePartNearest ==
  ASSUME NEW gross \in Nat, NEW pct \in Nat
  PROVE  LET part == FeePart(gross, pct)
             error == Whole * part - gross * pct
             half == Whole * Cent
         IN  /\ part % Cent = 0
             /\ 2 * error <= half /\ -2 * error <= half
             /\ 2 * error = half \/ -2 * error = half => (part \div Cent) % 2 = 0
<1> DEFINE n == gross * pct
           d == Whole * Cent
           rounded == RoundHalfEven(n, d)
<1>1. n \in Nat /\ d \in Nat \ {0} /\ Cent \in Nat \ {0} /\ Whole \in Nat \ {0}
  BY FeeUnitsAssumption, SMT DEF Whole
<1>2. rounded \in Nat
  BY <1>1, RoundHalfEvenBounds
<1>3. /\ 2 * (rounded * d - n) <= d /\ -2 * (rounded * d - n) <= d
      /\ 2 * (rounded * d - n) = d \/ -2 * (rounded * d - n) = d => rounded % 2 = 0
  BY <1>1, RoundHalfEvenNearest
<1>4. FeePart(gross, pct) = Cent * rounded
  BY DEF FeePart
<1> HIDE DEF rounded
<1>5. Whole * (Cent * rounded) = rounded * d
  BY <1>1, <1>2, SMT
<1>6. (Cent * rounded) % Cent = 0 /\ (Cent * rounded) \div Cent = rounded
  BY <1>1, <1>2, MultipleDivides
<1>7. QED
  BY <1>3, <1>4, <1>5, <1>6

\* calculateFee never loses or creates a unit: net and parts are the gross
\* amount again (fee-engine.ts: "so zero-sum holds under rounding").
THEOREM FeeSplitConserves ==
  ASSUME NEW rule \in FeeRule, NEW gross \in Nat
  PROVE  /\ calculateFee(rule, gross) \in FeeSplit
         /\ calculateFee(rule, gross).net + totalFee(calculateFee(rule, gross)) = gross
<1>1. /\ rule.community \in Nat
      /\ rule.operations \in Nat
      /\ rule.developer \in Nat
  BY FeeUnitsAssumption DEF FeeRule, Whole
<1>2. /\ FeePart(gross, rule.community) \in Nat
      /\ FeePart(gross, rule.operations) \in Nat
      /\ FeePart(gross, rule.developer) \in Nat
  BY <1>1, FeePartBounds
<1>3. QED
  BY <1>2 DEF calculateFee, Split, totalFee, FeeSplit

\* A rule whose parts add up to at most half leaves the recipient a net that
\* is not negative, however small the amount and however the parts round.
\* (The bound is needed: three parts of one third each can round up past the
\* gross amount, and the code posts the negative net as it is.)
THEOREM HalfRuleLeavesNet ==
  ASSUME NEW rule \in FeeRule, NEW gross \in Nat,
         2 * (rule.community + rule.operations + rule.developer) <= Whole
  PROVE  calculateFee(rule, gross).net >= 0
<1> DEFINE a == rule.community
           b == rule.operations
           c == rule.developer
           fa == FeePart(gross, a)
           fb == FeePart(gross, b)
           fc == FeePart(gross, c)
<1>1. a \in Nat /\ b \in Nat /\ c \in Nat /\ Whole \in Nat \ {0}
  BY FeeUnitsAssumption DEF FeeRule, Whole
<1>2. /\ fa \in Nat /\ fa * Whole <= 2 * (gross * a)
      /\ fb \in Nat /\ fb * Whole <= 2 * (gross * b)
      /\ fc \in Nat /\ fc * Whole <= 2 * (gross * c)
  BY <1>1, FeePartBounds
<1>3. 2 * (a + b + c) <= Whole
  OBVIOUS
<1>4. calculateFee(rule, gross).net = gross - (fa + fb + fc)
  BY DEF calculateFee, Split
<1> HIDE DEF a, b, c, fa, fb, fc
<1>5. (fa + fb + fc) * Whole <= gross * (2 * (a + b + c))
  BY <1>1, <1>2, SMT
<1>6. gross * (2 * (a + b + c)) <= gross * Whole
  BY <1>1, <1>3, SMT
<1>7. fa + fb + fc <= gross
  BY <1>1, <1>2, <1>5, <1>6, SMT
<1>8. QED
  BY <1>2, <1>4, <1>7
=============================================================================
