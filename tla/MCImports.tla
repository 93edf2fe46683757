----------------------------- MODULE MCImports -----------------------------
(* Small instances of Imports for TLC. *)
EXTENDS Imports, TLC

CONSTANTS h1, h2, s1, s2, k1, k2, k3

TwoHandlers == {h1, h2}
OneHandler == {h1}
TwoSessions == {s1, s2}
OneSession == {s1}
MCKeys == {k1, k2, k3}
MCCodes == {k3}
Symmetry == Permutations(Handlers) \cup Permutations(Sessions)

R(key, verdict) == [key |-> key, verdict |-> verdict]

\* Two files of members that share their keys, one with rows that are not
\* valid, and a file of properties that has a code twice.
MCFiles == {<<R(k1, "WARNING"), R(k2, "ERROR")>>,
            <<R(k1, "VALID"), R(k2, "VALID")>>,
            <<R(k3, "VALID"), R(k3, "VALID")>>}
MemberFile == {<<R(k1, "VALID"), R(k2, "VALID")>>}
=============================================================================
