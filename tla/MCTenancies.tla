---------------------------- MODULE MCTenancies ----------------------------
(* Small instances of Tenancies for TLC. *)
EXTENDS Tenancies

CONSTANTS t1, r1, r2, a1, a2, c1

OneLease == {t1}
OneRequest == {r1}
TwoRequests == {r1, r2}
OneAdmin == {a1}
TwoAdmins == {a1, a2}
OneCron == {c1}

\* Months of three and of two days in turn: a lease that is due on the
\* third day of a month is due on the last day of a shorter one, and from then
\* on on the second day (addMonths).
Month(d) == 2 * (d \div 5) + (IF d % 5 < 3 THEN 0 ELSE 1)
FirstOf(m) == 5 * (m \div 2) + (IF m % 2 = 0 THEN 0 ELSE 3)
LengthOf(m) == IF m % 2 = 0 THEN 3 ELSE 2
AMonth == [d \in Dates |->
  LET next == Month(d) + 1
      day == d - FirstOf(Month(d))
  IN  FirstOf(next) + (IF day < LengthOf(next) THEN day ELSE LengthOf(next) - 1)]
=============================================================================
