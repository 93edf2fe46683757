----------------------------- MODULE Promotions -----------------------------
(***************************************************************************)
(* routes/admin/promotions.ts and lib/currency/promotion-resolver.ts: the  *)
(* promotion that a conversion's bonus is paid by.                         *)
(*                                                                         *)
(* A conversion takes the time once and asks for the rate, for the user's  *)
(* row, for the promotions and for the wallets before it posts, each in a  *)
(* query of its own; meanwhile promotions are created and archived, and    *)
(* the user may get another role (accounts.ts).  Every query names its     *)
(* direction, so that the promotions of the other one do not meet these.   *)
(* Two conversions of a user share nothing but the role.                   *)
(***************************************************************************)
EXTENDS Integers, FiniteSets

CONSTANTS Members,          \* the users who convert, each once at a time
          MemberRoles,      \* the roles that they may have
          FoundingMembers,  \* no route makes or unmakes one
          Promotions,       \* the promotions that may be created
          Bonus,            \* the bonus percentage of each
          Eligibility,      \* who each is for
          EligibleUsers,    \* the users it lists
          Starting,         \* when each starts
          Ending,           \* and when it ends, later
          NoPromotion,      \* no promotion applies
          LastInstant       \* bound: the last instant

ASSUME PromotionsAssumption ==
  /\ FoundingMembers \subseteq Members
  /\ IsFiniteSet(Promotions)
  /\ Bonus \in [Promotions -> 1 .. 100]
  /\ Eligibility \in [Promotions -> {"ALL", "FOUNDING_MEMBERS", "RESIDENTS_ONLY",
                                     "SPECIFIC_USERS"}]
  /\ EligibleUsers \in [Promotions -> SUBSET Members]
  /\ Starting \in [Promotions -> Nat] /\ Ending \in [Promotions -> Nat]
  /\ \A p \in Promotions : Starting[p] < Ending[p]
  /\ NoPromotion \notin Promotions
  /\ LastInstant \in Nat

VARIABLES instant,
          promotions,   \* "none" before it is created, "active" or "archived"
          memberRole,   \* of each user's row
          converting,   \* where the user's conversion is
          askedAt,      \* the time it took
          roleRead,     \* the role it read
          promotion,    \* the promotion it got
          steady,       \* history: those that applied to it ever since it began
          wasActive,    \* history: those that were active since it began
          hadRoles      \* history: the roles its user has had since

historyVars == <<steady, wasActive, hadRoles>>
convertingVars == <<converting, askedAt, roleRead, promotion>>
promotionVars == <<instant, promotions, memberRole, convertingVars, historyVars>>

PromotionsTypeOK ==
  /\ instant \in 0 .. LastInstant
  /\ promotions \in [Promotions -> {"none", "active", "archived"}]
  /\ memberRole \in [Members -> MemberRoles]
  /\ converting \in [Members -> {"idle", "user", "promotions", "posting"}]
  /\ askedAt \in [Members -> 0 .. LastInstant]
  /\ roleRead \in [Members -> MemberRoles]
  /\ promotion \in [Members -> Promotions \cup {NoPromotion}]
  /\ steady \in [Members -> SUBSET Promotions]
  /\ wasActive \in [Members -> SUBSET Promotions]
  /\ hadRoles \in [Members -> SUBSET MemberRoles]

PromotionsInit ==
  /\ instant = 0
  /\ promotions = [p \in Promotions |-> "none"]
  /\ memberRole \in [Members -> MemberRoles]
  /\ converting = [u \in Members |-> "idle"]
  /\ askedAt = [u \in Members |-> 0]
  /\ roleRead = memberRole
  /\ promotion = [u \in Members |-> NoPromotion]
  /\ steady = [u \in Members |-> {}]
  /\ wasActive = [u \in Members |-> {}]
  /\ hadRoles = [u \in Members |-> {}]

\* The rows that are active.
Active == {p \in Promotions : promotions[p] = "active"}

\* The query's condition on the time.
RunsAt(p, time) == Starting[p] <= time /\ time < Ending[p]

isEligible(p, u, role) ==
  \/ Eligibility[p] = "ALL"
  \/ Eligibility[p] = "FOUNDING_MEMBERS" /\ u \in FoundingMembers
  \/ Eligibility[p] = "RESIDENTS_ONLY" /\ role = "RESIDENT"
  \/ Eligibility[p] = "SPECIFIC_USERS" /\ u \in EligibleUsers[p]

-----------------------------------------------------------------------------
(* A conversion, up to the transaction that posts *)

\* The time is taken before the first query.
BeginConversion(u) ==
  /\ converting[u] = "idle"
  /\ converting' = [converting EXCEPT ![u] = "user"]
  /\ askedAt' = [askedAt EXCEPT ![u] = instant]
  /\ steady' = [steady EXCEPT
                  ![u] = {p \in Active : RunsAt(p, instant)
                                         /\ isEligible(p, u, memberRole[u])}]
  /\ wasActive' = [wasActive EXCEPT ![u] = Active]
  /\ hadRoles' = [hadRoles EXCEPT ![u] = {memberRole[u]}]
  /\ UNCHANGED <<instant, promotions, memberRole, roleRead, promotion>>

\* The rate has been found, and now the user.
readUser(u) ==
  /\ converting[u] = "user"
  /\ converting' = [converting EXCEPT ![u] = "promotions"]
  /\ roleRead' = [roleRead EXCEPT ![u] = memberRole[u]]
  /\ UNCHANGED <<instant, promotions, memberRole, askedAt, promotion, historyVars>>

\* Fault: the promotions are not ordered by their bonus.
Candidates_Unordered(time) ==
  LET rows == {p \in Active : RunsAt(p, time)} IN
  {list \in [1 .. Cardinality(rows) -> rows] :
     \A p \in rows : \E i \in DOMAIN list : list[i] = p}

\* What the query may return: each row once, a greater bonus before a smaller.
Candidates(time) ==
  LET rows == {p \in Active : RunsAt(p, time)} IN
  {list \in [1 .. Cardinality(rows) -> rows] :
     /\ \A p \in rows : \E i \in DOMAIN list : list[i] = p
     /\ \A i, j \in DOMAIN list : i < j => Bonus[list[j]] <= Bonus[list[i]]}

\* The loop over them, up to the first for a user who has the role.
FirstEligible(list, u, role) ==
  LET eligible == {i \in DOMAIN list : isEligible(list[i], u, role)} IN
  IF eligible = {} THEN NoPromotion
  ELSE list[CHOOSE i \in eligible : \A j \in eligible : i <= j]

getApplicablePromotion(u) ==
  /\ converting[u] = "promotions"
  /\ \E list \in Candidates(askedAt[u]) :
       promotion' = [promotion EXCEPT ![u] = FirstEligible(list, u, roleRead[u])]
  /\ converting' = [converting EXCEPT ![u] = "posting"]
  /\ UNCHANGED <<instant, promotions, memberRole, askedAt, roleRead, historyVars>>

\* It posts by the promotion that it got; or there is no rate or no wallet, a
\* query fails, or the process ends.
EndConversion(u) ==
  /\ converting[u] # "idle"
  /\ converting' = [converting EXCEPT ![u] = "idle"]
  /\ askedAt' = [askedAt EXCEPT ![u] = 0]
  /\ roleRead' = [roleRead EXCEPT ![u] = memberRole[u]]
  /\ promotion' = [promotion EXCEPT ![u] = NoPromotion]
  /\ steady' = [steady EXCEPT ![u] = {}]
  /\ wasActive' = [wasActive EXCEPT ![u] = {}]
  /\ hadRoles' = [hadRoles EXCEPT ![u] = {}]
  /\ UNCHANGED <<instant, promotions, memberRole>>

-----------------------------------------------------------------------------
(* What changes meanwhile *)

\* POST /admin/promotions.  Its window may lie in the future or in the past.
createPromotion(p) ==
  /\ promotions[p] = "none"
  /\ promotions' = [promotions EXCEPT ![p] = "active"]
  /\ wasActive' = [u \in Members |-> IF converting[u] = "idle" THEN {}
                                     ELSE wasActive[u] \cup {p}]
  /\ UNCHANGED <<instant, memberRole, convertingVars, steady, hadRoles>>

\* POST /admin/promotions/:id/archive.  By id, whether it is active or not; no
\* query returns an archived one, so the end that it gets makes no difference.
archivePromotion(p) ==
  /\ promotions[p] # "none"
  /\ promotions' = [promotions EXCEPT ![p] = "archived"]
  /\ steady' = [u \in Members |-> steady[u] \ {p}]
  /\ UNCHANGED <<instant, memberRole, convertingVars, wasActive, hadRoles>>

\* POST /admin/accounts/:id/role.
changeMemberRole(u, role) ==
  /\ memberRole' = [memberRole EXCEPT ![u] = role]
  /\ steady' = [steady EXCEPT ![u] = {p \in @ : isEligible(p, u, role)}]
  /\ hadRoles' = [hadRoles EXCEPT
                    ![u] = IF converting[u] = "idle" THEN {} ELSE @ \cup {role}]
  /\ UNCHANGED <<instant, promotions, convertingVars, wasActive>>

PromotionsTick ==
  /\ instant < LastInstant
  /\ instant' = instant + 1
  /\ UNCHANGED <<promotions, memberRole, convertingVars, historyVars>>

-----------------------------------------------------------------------------

PromotionsNext ==
  \/ \E u \in Members : \/ BeginConversion(u)
                        \/ readUser(u)
                        \/ getApplicablePromotion(u)
                        \/ EndConversion(u)
                        \/ \E role \in MemberRoles : changeMemberRole(u, role)
  \/ \E p \in Promotions : createPromotion(p) \/ archivePromotion(p)
  \/ PromotionsTick

PromotionsSpec == PromotionsInit /\ [][PromotionsNext]_promotionVars

-----------------------------------------------------------------------------
(* Properties *)

\* Running at the time the conversion took, and active, and for a role that its
\* user had, at some moment since it began.
CouldApply(p, u) ==
  /\ p \in wasActive[u]
  /\ RunsAt(p, askedAt[u])
  /\ \E role \in hadRoles[u] : isEligible(p, u, role)

\* When a conversion posts, its bonus is no less than that of any promotion that
\* applied to it all the time, and is of one that could apply to it: whatever is
\* created, archived or changed between the look-ups of the user and of the
\* promotions, and though the loop stops at the first that the user it has read
\* is eligible for (promotion-resolver.ts).
BonusIsDue ==
  \A u \in Members : converting[u] = "posting" =>
    /\ \A p \in steady[u] :
         promotion[u] # NoPromotion /\ Bonus[p] <= Bonus[promotion[u]]
    /\ promotion[u] # NoPromotion => CouldApply(promotion[u], u)
=============================================================================
