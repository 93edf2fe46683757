----------------------------- MODULE MCCommunity -----------------------------
(***************************************************************************)
(* Two users, a group and two requests to assign, beside one update or     *)
(* broadcast with every kind of target.                                    *)
(***************************************************************************)
EXTENDS Announcements, TLC

MCBroadcast == [type |-> "COMMUNITY_WIDE", emergency |-> TRUE]

\* A list that names one user, twice.
Twice(u) == [v \in Users |-> IF v = u THEN 2 ELSE 0]

MCTargets ==
  [type : {"COMMUNITY_WIDE"}]
    \cup [type : {"ROLE"}, role : {"VISITOR"}]
    \cup [type : {"VISITOR_GROUP"}, group : Groups]
    \cup [type : {"SPECIFIC_USERS"}, users : {Twice(u) : u \in Users}]

Symmetry == Permutations(Assigners) \cup Permutations(Users)
=============================================================================
