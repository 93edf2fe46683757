----------------------------- MODULE RateBoard ------------------------------
(***************************************************************************)
(* What the conversion rates of a pair promise: at any time one rate is in *)
(* force, and a rate that has been superseded never comes back.  No clock, *)
(* no transactions, no administrators.                                     *)
(***************************************************************************)
CONSTANT Rates

VARIABLES current,     \* the rate in force
          superseded   \* the rates that were in force before

Init == current \in Rates /\ superseded = {}

Supersede(r) ==
  /\ r \notin superseded \cup {current}
  /\ current' = r
  /\ superseded' = superseded \cup {current}

Next == \E r \in Rates : Supersede(r)

Spec == Init /\ [][Next]_<<current, superseded>>
=============================================================================
