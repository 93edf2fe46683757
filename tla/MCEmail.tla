------------------------------ MODULE MCEmail ------------------------------
(* A small instance of Email for TLC. *)
EXTENDS Email

CONSTANTS c1, c2, k1

TwoCallers == {c1, c2}
OneKey == {k1}
=============================================================================
