--------------------------- MODULE VisitorGroups ----------------------------
(***************************************************************************)
(* Accounts (routes/admin/accounts.ts) and the groups that visitors are    *)
(* assigned to (routes/admin/visitor-groups.ts).                           *)
(*                                                                         *)
(* Assigning a visitor is four queries outside of any transaction: the     *)
(* group, the user, the membership there may be already, the insert.  No   *)
(* index keeps a user from being in a group twice.  A removed membership   *)
(* stays as a row that no query returns, so rows are counted, not kept.    *)
(***************************************************************************)
EXTENDS Integers, FiniteSets

CONSTANTS Groups, Users,
          Assigners,   \* requests to assign that may be in flight at a time
          Roles,       \* the roles that an account may get
          MaxListed,   \* how often a new account's list may name a group
          NoMember     \* no group and user in a request

ASSUME VisitorGroupsAssumption ==
  /\ IsFiniteSet(Assigners)
  /\ "none" \notin Roles
  /\ MaxListed \in Nat
  /\ NoMember \notin Groups \X Users

VARIABLES role,         \* of each account, "none" before it is created
          active,       \* the accounts whose status is ACTIVE
          groups,       \* "none" before it is created, "active" or "archived"
          memberships,  \* how many rows with removedAt = null there are
          assigning,    \* where each request to assign is
          assignee,     \* the group and the user it is about
          together      \* history: the most rows of a pair that one request,
                        \* or several at once, were about to insert

accountVars == <<role, active>>
assignVars == <<assigning, assignee, together>>
groupVars == <<role, active, groups, memberships, assigning, assignee, together>>

Members == Groups \X Users

GroupsTypeOK ==
  /\ role \in [Users -> Roles \cup {"none"}]
  /\ active \subseteq {u \in Users : role[u] # "none"}
  /\ groups \in [Groups -> {"none", "active", "archived"}]
  /\ memberships \in [Members -> Nat]
  /\ assigning \in [Assigners -> {"idle", "group", "user", "free"}]
  /\ assignee \in [Assigners -> Members \cup {NoMember}]
  /\ \A a \in Assigners : assigning[a] # "idle" => assignee[a] \in Members
  /\ together \in [Members -> Nat]
  /\ \A member \in Members : memberships[member] > 0 =>
       groups[member[1]] # "none" /\ role[member[2]] # "none"

GroupsInit ==
  /\ role = [u \in Users |-> "none"]
  /\ active = {}
  /\ groups = [g \in Groups |-> "none"]
  /\ memberships = [member \in Members |-> 0]
  /\ assigning = [a \in Assigners |-> "idle"]
  /\ assignee = [a \in Assigners |-> NoMember]
  /\ together = [member \in Members |-> 0]

-----------------------------------------------------------------------------
(* routes/admin/accounts.ts *)

\* A membership for each time the list of groups names one.
Listed(u, times, rows) ==
  [member \in Members |-> IF member[2] = u THEN times[member[1]] ELSE rows[member]]

\* One transaction; the account is PENDING_KYC.  The list of a visitor's groups
\* is inserted as it is, also if it names a group twice; a group that does not
\* exist (foreign key) fails it.  That of any other role is ignored.
createAccount(u, r, times) ==
  /\ role[u] = "none"
  /\ \A g \in Groups : times[g] > 0 => r = "VISITOR" /\ groups[g] # "none"
  /\ role' = [role EXCEPT ![u] = r]
  /\ memberships' = Listed(u, times, memberships)
  /\ together' = Listed(u, times, together)
  /\ UNCHANGED <<active, groups, assigning, assignee>>

suspend(u) ==
  /\ role[u] # "none"
  /\ active' = active \ {u}
  /\ UNCHANGED <<role, groups, memberships, assignVars>>

\* Of any account, also of one that was never active.
restore(u) ==
  /\ role[u] # "none"
  /\ active' = active \cup {u}
  /\ UNCHANGED <<role, groups, memberships, assignVars>>

\* The memberships of a visitor stay when the account gets another role.
changeRole(u, r) ==
  /\ role[u] # "none"
  /\ role' = [role EXCEPT ![u] = r]
  /\ UNCHANGED <<active, groups, memberships, assignVars>>

-----------------------------------------------------------------------------
(* routes/admin/visitor-groups.ts *)

createGroup(g) ==
  /\ groups[g] = "none"
  /\ groups' = [groups EXCEPT ![g] = "active"]
  /\ UNCHANGED <<accountVars, memberships, assignVars>>

setArchived(g, state) ==
  /\ groups[g] # "none"
  /\ groups' = [groups EXCEPT ![g] = state]
  /\ UNCHANGED <<accountVars, memberships, assignVars>>

archive(g) == setArchived(g, "archived")
unarchive(g) == setArchived(g, "active")

EndAssign(a) ==
  /\ assigning' = [assigning EXCEPT ![a] = "idle"]
  /\ assignee' = [assignee EXCEPT ![a] = NoMember]

\* A refusal, a failed query, the end of the process.
FailAssign(a) ==
  /\ assigning[a] # "idle"
  /\ EndAssign(a)
  /\ UNCHANGED <<accountVars, groups, memberships, together>>

FindGroup(a, g, u) ==
  /\ assigning[a] = "idle"
  /\ groups[g] = "active"
  /\ assigning' = [assigning EXCEPT ![a] = "group"]
  /\ assignee' = [assignee EXCEPT ![a] = <<g, u>>]
  /\ UNCHANGED <<accountVars, groups, memberships, together>>

FindUser(a) ==
  /\ assigning[a] = "group"
  /\ role[assignee[a][2]] = "VISITOR"
  /\ assigning' = [assigning EXCEPT ![a] = "user"]
  /\ UNCHANGED <<accountVars, groups, memberships, assignee, together>>

\* The requests that have found a user missing from a group.
Free(member) == {b \in Assigners : assigning[b] = "free" /\ assignee[b] = member}

\* The request joins those about to insert the same membership.
Join(a) ==
  LET n == Cardinality(Free(assignee[a])) + 1
  IN /\ assigning' = [assigning EXCEPT ![a] = "free"]
     /\ together' = [together EXCEPT ![assignee[a]] = IF n > @ THEN n ELSE @]
     /\ UNCHANGED <<accountVars, groups, memberships, assignee>>

\* Fault: the membership there may be is not looked up.
FindNoMembership_Unchecked(a) ==
  /\ assigning[a] = "user"
  /\ Join(a)

FindNoMembership(a) ==
  /\ assigning[a] = "user"
  /\ memberships[assignee[a]] = 0
  /\ Join(a)

InsertMembership(a) ==
  /\ assigning[a] = "free"
  /\ memberships' = [memberships EXCEPT ![assignee[a]] = @ + 1]
  /\ EndAssign(a)
  /\ UNCHANGED <<accountVars, groups, together>>

\* One row, by its id.  Of two removals at once the second only changes its time.
removeMembership(member) ==
  /\ memberships[member] > 0
  /\ memberships' = [memberships EXCEPT ![member] = @ - 1]
  /\ UNCHANGED <<accountVars, groups, assignVars>>

-----------------------------------------------------------------------------

Administration ==
  \/ \E u \in Users : \/ \E r \in Roles :
                           \/ \E times \in [Groups -> 0 .. MaxListed] :
                                createAccount(u, r, times)
                           \/ changeRole(u, r)
                      \/ suspend(u)
                      \/ restore(u)
  \/ \E g \in Groups : createGroup(g) \/ archive(g) \/ unarchive(g)
  \/ \E a \in Assigners : \/ \E g \in Groups, u \in Users : FindGroup(a, g, u)
                          \/ FindUser(a)
                          \/ FindNoMembership(a)
                          \/ InsertMembership(a)
                          \/ FailAssign(a)
  \/ \E member \in Members : removeMembership(member)

\* getUserActiveGroupIds
ActiveGroups(u) ==
  {g \in Groups : groups[g] = "active" /\ memberships[g, u] > 0}

-----------------------------------------------------------------------------
(* Properties *)

\* Nobody is in a group more often than was put there at once: by the list of the
\* account, which may name a group twice (accounts.ts), or by requests that had
\* each found the user missing before any had inserted.  Neither a later request,
\* for the conflict that the route reports (visitor-groups.ts), nor removals and
\* changes of role add to it; where one request put the user in once, one removal
\* takes the user out.
NoMoreThanTogether ==
  \A member \in Members : memberships[member] <= together[member]
=============================================================================
