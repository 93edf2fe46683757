-------------------------- MODULE CommunityProofs ---------------------------
(***************************************************************************)
(* For any accounts, groups, updates and requests: nobody is in a group    *)
(* more often than was put there at once; whoever is told of an update is  *)
(* told no more often than it allows, and can see it; and the audit row of *)
(* a broadcast counts everyone it was mailed to.  The last needs the       *)
(* account that the loop over the chunks keeps (UpdateOK): whom it mailed, *)
(* whom it has left.                                                       *)
(***************************************************************************)
EXTENDS Announcements, FiniteSetTheorems, TLAPS

\* A request that looks for a membership has found its user, and its group.
RequestsKnown ==
  \A a \in Assigners :
    /\ assigning[a] # "idle" => groups[assignee[a][1]] # "none"
    /\ assigning[a] \in {"user", "free"} => role[assignee[a][2]] # "none"

\* The rows of a membership, and the requests about to insert another, are no more
\* than were to be inserted together.
RowsAndRequests ==
  \A member \in Members :
    memberships[member] + Cardinality(Free(member)) <= together[member]

\* Before an account is created nothing has been inserted for it.
NoneBefore ==
  \A member \in Members : role[member[2]] = "none" => together[member] = 0

GroupsInv == GroupsTypeOK /\ RequestsKnown /\ RowsAndRequests /\ NoneBefore

\* A member is a pair of a group and a user.
LEMMA PairIsMember ==
  /\ \A g \in Groups, u \in Users : <<g, u>> \in Members
  /\ \A member \in Members : /\ member[1] \in Groups /\ member[2] \in Users
                              /\ member = <<member[1], member[2]>>
  BY DEF Members

\* Requests are finitely many, and so are some of them.
LEMMA AssignersFinite ==
  ASSUME NEW S \in SUBSET Assigners
  PROVE  IsFiniteSet(S) /\ Cardinality(S) \in Nat
BY VisitorGroupsAssumption, FS_Subset, FS_CardinalityType

\* The rows are no more than those put in together.
LEMMA RowsBounded == GroupsInv => NoMoreThanTogether
<1> SUFFICES ASSUME GroupsInv, NEW member \in Members
             PROVE  memberships[member] <= together[member]
  BY DEF NoMoreThanTogether
<1>1. PICK n \in Nat : n = Cardinality(Free(member))
  BY AssignersFinite DEF Free
<1>2. memberships[member] \in Nat /\ together[member] \in Nat
  BY DEF GroupsInv, GroupsTypeOK
<1>3. memberships[member] + n <= together[member]
  BY <1>1 DEF GroupsInv, RowsAndRequests
<1>4. QED
  BY <1>2, <1>3

\* With fewer rows, and fewer requests about to insert, they are still no more
\* than those put in together.
LEMMA FewerRows ==
  ASSUME GroupsInv, NEW member \in Members, together'[member] = together[member],
         memberships'[member] \in Nat, memberships'[member] <= memberships[member],
         Free(member)' \subseteq Free(member)
  PROVE  memberships'[member] + Cardinality(Free(member)') <= together'[member]
<1>1. Free(member) \in SUBSET Assigners
  BY DEF Free
<1>2. PICK n \in Nat : n = Cardinality(Free(member))
  BY <1>1, AssignersFinite
<1>3. PICK m \in Nat : m = Cardinality(Free(member)')
  BY <1>1, AssignersFinite
<1>4. m <= n
  BY <1>1, <1>2, <1>3, AssignersFinite, FS_Subset
<1>5. memberships[member] \in Nat /\ together[member] \in Nat
  BY DEF GroupsInv, GroupsTypeOK
<1>6. memberships[member] + n <= together[member]
  BY <1>2 DEF GroupsInv, RowsAndRequests
<1>7. QED
  BY <1>3, <1>4, <1>5, <1>6

\* No account, no group, no request.
LEMMA GroupsStart == GroupsInit => GroupsInv
<1> SUFFICES ASSUME GroupsInit PROVE GroupsInv
  OBVIOUS
<1>1. /\ memberships \in [Members -> Nat]
      /\ \A member \in Members : memberships[member] = 0
  BY Zenon DEF GroupsInit
<1>3. GroupsTypeOK
  BY <1>1 DEF GroupsInit, GroupsTypeOK
<1>4. RequestsKnown
  BY DEF GroupsInit, RequestsKnown
<1>5. RowsAndRequests
  <2> SUFFICES ASSUME NEW member \in Members
               PROVE  memberships[member] + Cardinality(Free(member)) <= together[member]
    BY DEF RowsAndRequests
  <2>1. Free(member) = {} /\ together[member] = 0
    BY DEF GroupsInit, Free
  <2>2. QED
    BY <1>1, <2>1, FS_EmptySet
<1>6. NoneBefore
  BY DEF GroupsInit, NoneBefore
<1>7. QED
  BY <1>3, <1>4, <1>5, <1>6 DEF GroupsInv

\* A new account had no memberships, and no request has found it.
LEMMA CreateAccountStep ==
  ASSUME GroupsInv, NEW u \in Users, NEW r \in Roles,
         NEW times \in [Groups -> 0 .. MaxListed], createAccount(u, r, times)
  PROVE  GroupsInv'
<1>1. /\ memberships' \in [Members -> Nat] /\ together' \in [Members -> Nat]
      /\ \A member \in Members : member[2] = u =>
           memberships'[member] = times[member[1]] /\ together'[member] = times[member[1]]
      /\ \A member \in Members : member[2] # u =>
           memberships'[member] = memberships[member] /\ together'[member] = together[member]
  <2>1. \A member \in Members : times[member[1]] \in Nat
    BY PairIsMember
  <2>2. memberships \in [Members -> Nat] /\ together \in [Members -> Nat]
    BY DEF GroupsInv, GroupsTypeOK
  <2>3. /\ memberships' = [member \in Members |->
              IF member[2] = u THEN times[member[1]] ELSE memberships[member]]
        /\ together' = [member \in Members |->
              IF member[2] = u THEN times[member[1]] ELSE together[member]]
    BY DEF createAccount, Listed
  <2>4. QED
    BY <2>1, <2>2, <2>3
<1>2. /\ role[u] = "none" /\ UNCHANGED <<active, groups, assigning, assignee>>
      /\ \A g \in Groups : times[g] > 0 => groups[g] # "none"
  BY DEF createAccount
<1>3. role' \in [Users -> Roles \cup {"none"}] /\ \A v \in Users :
        (role[v] # "none" => role'[v] # "none") /\ (role'[v] = "none" => v # u)
  BY VisitorGroupsAssumption DEF GroupsInv, GroupsTypeOK, createAccount
<1>4. GroupsTypeOK'
  <2>1. ASSUME NEW member \in Members, memberships'[member] > 0
        PROVE  groups[member[1]] # "none" /\ role'[member[2]] # "none"
    <3>1. CASE member[2] = u
      BY <1>1, <1>2, <1>3, <2>1, <3>1, PairIsMember
    <3>2. CASE member[2] # u
      BY <1>1, <1>3, <2>1, <3>2, PairIsMember DEF GroupsInv, GroupsTypeOK
    <3>3. QED
      BY <3>1, <3>2
  <2>2. active \subseteq {v \in Users : role'[v] # "none"}
    BY <1>3 DEF GroupsInv, GroupsTypeOK
  <2>3. QED
    BY <1>1, <1>2, <1>3, <2>1, <2>2 DEF GroupsInv, GroupsTypeOK
<1>5. RequestsKnown'
  BY <1>2, <1>3, PairIsMember DEF GroupsInv, GroupsTypeOK, RequestsKnown
<1>6. RowsAndRequests'
  <2> SUFFICES ASSUME NEW member \in Members
               PROVE  memberships'[member] + Cardinality(Free(member)') <= together'[member]
    BY DEF RowsAndRequests
  <2>1. Free(member)' = Free(member)
    BY <1>2 DEF Free
  <2>2. CASE member[2] = u
    <3>1. Free(member) = {}
      BY <1>2, <2>2 DEF Free, GroupsInv, RequestsKnown
    <3>2. times[member[1]] \in Nat
      BY PairIsMember
    <3>3. QED
      BY <1>1, <2>1, <2>2, <3>1, <3>2, FS_EmptySet
  <2>3. CASE member[2] # u
    BY <1>1, <2>1, <2>3 DEF GroupsInv, RowsAndRequests
  <2>4. QED
    BY <2>2, <2>3
<1>7. NoneBefore'
  BY <1>1, <1>3, PairIsMember DEF GroupsInv, NoneBefore
<1>8. QED
  BY <1>4, <1>5, <1>6, <1>7 DEF GroupsInv

\* Other changes of accounts and groups leave the memberships alone.
LEMMA AccountStep ==
  ASSUME GroupsInv, NEW u \in Users,
         \/ suspend(u)
         \/ restore(u)
         \/ \E r \in Roles : changeRole(u, r)
  PROVE  GroupsInv'
<1>1. /\ role' \in [Users -> Roles \cup {"none"}]
      /\ active' \subseteq {v \in Users : role'[v] # "none"}
      /\ \A v \in Users : role[v] # "none" => role'[v] # "none"
  <2>1. CASE suspend(u)
    BY <2>1 DEF GroupsInv, GroupsTypeOK, suspend
  <2>2. CASE restore(u)
    BY <2>2 DEF GroupsInv, GroupsTypeOK, restore
  <2>3. ASSUME NEW r \in Roles, changeRole(u, r)
        PROVE  /\ role' \in [Users -> Roles \cup {"none"}]
               /\ active' \subseteq {v \in Users : role'[v] # "none"}
               /\ \A v \in Users : role[v] # "none" => role'[v] # "none"
    BY <2>3, VisitorGroupsAssumption DEF GroupsInv, GroupsTypeOK, changeRole
  <2>4. QED
    BY <2>1, <2>2, <2>3
<1>2. UNCHANGED <<groups, memberships, assigning, assignee, together>>
  BY DEF suspend, restore, changeRole, assignVars
<1>3. GroupsTypeOK'
  BY <1>1, <1>2, PairIsMember DEF GroupsInv, GroupsTypeOK
<1>4. RequestsKnown'
  BY <1>1, <1>2 DEF GroupsInv, GroupsTypeOK, RequestsKnown, Members
<1>5. RowsAndRequests'
  BY <1>2 DEF GroupsInv, RowsAndRequests, Free
<1>6. NoneBefore'
  BY <1>1, <1>2, PairIsMember DEF GroupsInv, NoneBefore
<1>7. QED
  BY <1>3, <1>4, <1>5, <1>6 DEF GroupsInv

\* Creating, archiving and unarchiving a group leave its members alone.
LEMMA GroupStep ==
  ASSUME GroupsInv, NEW g \in Groups, createGroup(g) \/ archive(g) \/ unarchive(g)
  PROVE  GroupsInv'
<1>1. /\ groups' \in [Groups -> {"none", "active", "archived"}]
      /\ \A h \in Groups : groups[h] # "none" => groups'[h] # "none"
  BY DEF GroupsInv, GroupsTypeOK, createGroup, archive, unarchive, setArchived
<1>2. UNCHANGED <<role, active, memberships, assigning, assignee, together>>
  BY DEF createGroup, archive, unarchive, setArchived, assignVars, accountVars
<1>3. GroupsTypeOK'
  BY <1>1, <1>2, PairIsMember DEF GroupsInv, GroupsTypeOK
<1>4. RequestsKnown'
  BY <1>1, <1>2 DEF GroupsInv, GroupsTypeOK, RequestsKnown, Members
<1>5. RowsAndRequests'
  BY <1>2 DEF GroupsInv, RowsAndRequests, Free
<1>6. NoneBefore'
  BY <1>2 DEF GroupsInv, NoneBefore
<1>7. QED
  BY <1>3, <1>4, <1>5, <1>6 DEF GroupsInv

\* A request that finds its group or its user is not about to insert yet; one
\* that ends is not any more.
LEMMA LookUpStep ==
  ASSUME GroupsInv, NEW a \in Assigners,
         \/ \E g \in Groups, u \in Users : FindGroup(a, g, u)
         \/ FindUser(a)
         \/ FailAssign(a)
  PROVE  GroupsInv'
<1>1. UNCHANGED <<role, active, groups, memberships, together>>
  BY DEF FindGroup, FindUser, FailAssign, accountVars
<1>2. /\ assigning' \in [Assigners -> {"idle", "group", "user", "free"}]
      /\ assignee' \in [Assigners -> Members \cup {NoMember}]
      /\ assigning'[a] # "free"
      /\ assigning'[a] # "idle" => assignee'[a] \in Members
      /\ \A b \in Assigners \ {a} : assigning'[b] = assigning[b]
                                    /\ assignee'[b] = assignee[b]
  <2>1. ASSUME NEW g \in Groups, NEW u \in Users, FindGroup(a, g, u)
        PROVE  /\ assigning' \in [Assigners -> {"idle", "group", "user", "free"}]
               /\ assignee' \in [Assigners -> Members \cup {NoMember}]
               /\ assigning'[a] # "free"
               /\ assigning'[a] # "idle" => assignee'[a] \in Members
               /\ \A b \in Assigners \ {a} : assigning'[b] = assigning[b]
                                             /\ assignee'[b] = assignee[b]
    BY <2>1, PairIsMember DEF GroupsInv, GroupsTypeOK, FindGroup
  <2>2. CASE FindUser(a)
    BY <2>2 DEF GroupsInv, GroupsTypeOK, FindUser
  <2>3. CASE FailAssign(a)
    BY <2>3 DEF GroupsInv, GroupsTypeOK, FailAssign, EndAssign
  <2>4. QED
    BY <2>1, <2>2, <2>3
<1>3. GroupsTypeOK'
  BY <1>1, <1>2 DEF GroupsInv, GroupsTypeOK
<1>4. RequestsKnown'
  <2>1. assigning'[a] # "idle" => groups[assignee'[a][1]] # "none"
    <3>1. ASSUME NEW g \in Groups, NEW u \in Users, FindGroup(a, g, u)
          PROVE  assignee'[a][1] = g /\ groups[g] # "none"
      BY <3>1 DEF GroupsInv, GroupsTypeOK, FindGroup
    <3>2. CASE FindUser(a)
      BY <3>2 DEF GroupsInv, RequestsKnown, FindUser
    <3>3. CASE FailAssign(a)
      BY <3>3 DEF GroupsInv, GroupsTypeOK, FailAssign, EndAssign
    <3>4. QED
      BY <3>1, <3>2, <3>3
  <2>2. assigning'[a] = "user" => role[assignee'[a][2]] # "none"
    BY DEF GroupsInv, GroupsTypeOK, FindGroup, FindUser, FailAssign, EndAssign
  <2>3. QED
    BY <1>1, <1>2, <2>1, <2>2 DEF GroupsInv, RequestsKnown
<1>5. RowsAndRequests'
  <2> SUFFICES ASSUME NEW member \in Members
               PROVE  memberships'[member] + Cardinality(Free(member)') <= together'[member]
    BY DEF RowsAndRequests
  <2>1. Free(member)' \subseteq Free(member)
    BY <1>2 DEF Free
  <2>2. memberships[member] \in Nat
    BY DEF GroupsInv, GroupsTypeOK
  <2>3. QED
    BY <1>1, <2>1, <2>2, FewerRows
<1>6. NoneBefore'
  BY <1>1 DEF GroupsInv, NoneBefore
<1>7. QED
  BY <1>3, <1>4, <1>5, <1>6 DEF GroupsInv

\* A request that finds no membership is counted with those that found none before
\* it.
LEMMA FindNoMembershipStep ==
  ASSUME GroupsInv, NEW a \in Assigners, FindNoMembership(a)
  PROVE  GroupsInv'
<1>1. PICK pair \in Members : pair = assignee[a] /\ assigning[a] = "user"
  BY DEF GroupsInv, GroupsTypeOK, FindNoMembership
<1>2. PICK n \in Nat : n = Cardinality(Free(pair))
  BY AssignersFinite DEF Free
<1>3. /\ UNCHANGED <<role, active, groups, memberships, assignee>>
      /\ assigning' = [assigning EXCEPT ![a] = "free"]
      /\ memberships[pair] = 0
      /\ together' = [together EXCEPT ![pair] = IF n + 1 > together[pair] THEN n + 1
                                                ELSE together[pair]]
  BY <1>1, <1>2 DEF FindNoMembership, Join, accountVars
<1>4. /\ together' \in [Members -> Nat] /\ n + 1 <= together'[pair]
      /\ \A member \in Members \ {pair} : together'[member] = together[member]
  <2>1. together \in [Members -> Nat]
    BY DEF GroupsInv, GroupsTypeOK
  <2>2. QED
    BY <1>3, <2>1
<1>5. GroupsTypeOK'
  BY <1>1, <1>3, <1>4 DEF GroupsInv, GroupsTypeOK
<1>6. RequestsKnown'
  BY <1>1, <1>3 DEF GroupsInv, GroupsTypeOK, RequestsKnown
<1>7. RowsAndRequests'
  <2> SUFFICES ASSUME NEW member \in Members
               PROVE  memberships'[member] + Cardinality(Free(member)') <= together'[member]
    BY DEF RowsAndRequests
  <2>1. CASE member = pair
    <3>1. Free(pair)' = Free(pair) \cup {a} /\ a \notin Free(pair)
      BY <1>1, <1>3 DEF Free, GroupsInv, GroupsTypeOK
    <3>2. IsFiniteSet(Free(pair))
      BY AssignersFinite DEF Free
    <3>3. Cardinality(Free(pair)') = n + 1
      BY <1>2, <3>1, <3>2, FS_AddElement
    <3>4. QED
      BY <1>3, <1>4, <2>1, <3>3
  <2>2. CASE member # pair
    <3>1. Free(member)' = Free(member)
      BY <1>1, <1>3, <2>2 DEF Free, GroupsInv, GroupsTypeOK
    <3>2. QED
      BY <1>3, <1>4, <2>2, <3>1 DEF GroupsInv, RowsAndRequests
  <2>3. QED
    BY <2>1, <2>2
<1>8. NoneBefore'
  BY <1>1, <1>3, <1>4 DEF GroupsInv, NoneBefore, RequestsKnown
<1>9. QED
  BY <1>5, <1>6, <1>7, <1>8 DEF GroupsInv

\* One row more, and one request less that is about to insert it.
LEMMA InsertMembershipStep ==
  ASSUME GroupsInv, NEW a \in Assigners, InsertMembership(a)
  PROVE  GroupsInv'
<1>1. /\ UNCHANGED <<role, active, groups, together>>
      /\ assigning[a] = "free" /\ assignee[a] \in Members
      /\ memberships \in [Members -> Nat]
      /\ memberships' = [memberships EXCEPT ![assignee[a]] = @ + 1]
  BY DEF GroupsInv, GroupsTypeOK, InsertMembership, accountVars
<1>2. /\ assigning' = [assigning EXCEPT ![a] = "idle"]
      /\ assignee' = [assignee EXCEPT ![a] = NoMember]
  BY DEF InsertMembership, EndAssign
<1>3. /\ memberships' \in [Members -> Nat]
      /\ memberships'[assignee[a]] = memberships[assignee[a]] + 1
      /\ \A member \in Members \ {assignee[a]} :
           memberships'[member] = memberships[member]
  BY <1>1
<1>4. groups[assignee[a][1]] # "none" /\ role[assignee[a][2]] # "none"
  BY <1>1 DEF GroupsInv, RequestsKnown
<1>5. GroupsTypeOK'
  <2>1. \A member \in Members : memberships'[member] > 0 =>
          groups[member[1]] # "none" /\ role[member[2]] # "none"
    BY <1>3, <1>4 DEF GroupsInv, GroupsTypeOK
  <2>2. QED
    BY <1>1, <1>2, <1>3, <2>1 DEF GroupsInv, GroupsTypeOK
<1>6. RequestsKnown'
  BY <1>1, <1>2 DEF GroupsInv, GroupsTypeOK, RequestsKnown
<1>7. RowsAndRequests'
  <2> SUFFICES ASSUME NEW member \in Members
               PROVE  memberships'[member] + Cardinality(Free(member)') <= together'[member]
    BY DEF RowsAndRequests
  <2>1. /\ assigning'[a] # "free"
        /\ \A b \in Assigners \ {a} : assigning'[b] = assigning[b]
                                      /\ assignee'[b] = assignee[b]
    BY <1>2 DEF GroupsInv, GroupsTypeOK
  <2>2. CASE member = assignee[a]
    <3>1. Free(member)' = Free(member) \ {a} /\ a \in Free(member)
      BY <1>1, <2>1, <2>2 DEF Free
    <3>2. PICK n \in Nat : n = Cardinality(Free(member)) /\ IsFiniteSet(Free(member))
      BY AssignersFinite DEF Free
    <3>3. Cardinality(Free(member)') = n - 1
      BY <3>1, <3>2, FS_RemoveElement
    <3>4. memberships[member] + n <= together[member]
      BY <3>2 DEF GroupsInv, RowsAndRequests
    <3>5. memberships[member] \in Nat /\ together[member] \in Nat
      BY DEF GroupsInv, GroupsTypeOK
    <3>6. QED
      BY <1>1, <1>3, <2>2, <3>2, <3>3, <3>4, <3>5
  <2>3. CASE member # assignee[a]
    <3>1. Free(member)' = Free(member)
      BY <1>1, <2>1, <2>3 DEF Free
    <3>2. QED
      BY <1>1, <1>3, <2>3, <3>1 DEF GroupsInv, RowsAndRequests
  <2>4. QED
    BY <2>2, <2>3
<1>8. NoneBefore'
  BY <1>1 DEF GroupsInv, NoneBefore
<1>9. QED
  BY <1>5, <1>6, <1>7, <1>8 DEF GroupsInv

\* One row less.
LEMMA RemoveMembershipStep ==
  ASSUME GroupsInv, NEW member \in Members, removeMembership(member)
  PROVE  GroupsInv'
<1>1. UNCHANGED <<role, active, groups, assigning, assignee, together>>
  BY DEF removeMembership, accountVars, assignVars
<1>2. /\ memberships' \in [Members -> Nat]
      /\ \A n \in Members : memberships'[n] <= memberships[n]
  <2>1. memberships \in [Members -> Nat] /\ memberships[member] > 0
    BY DEF GroupsInv, GroupsTypeOK, removeMembership
  <2>2. memberships' = [memberships EXCEPT ![member] = memberships[member] - 1]
    BY DEF removeMembership
  <2>3. memberships[member] - 1 \in Nat
    BY <2>1
  <2>4. QED
    BY <2>1, <2>2, <2>3
<1>3. GroupsTypeOK'
  <2>1. \A n \in Members : /\ memberships[n] \in Nat /\ memberships'[n] \in Nat
                              /\ memberships'[n] <= memberships[n]
    BY <1>2 DEF GroupsInv, GroupsTypeOK
  <2>2. \A n \in Members : memberships'[n] > 0 =>
          groups[n[1]] # "none" /\ role[n[2]] # "none"
    BY <2>1 DEF GroupsInv, GroupsTypeOK
  <2>3. QED
    BY <1>1, <1>2, <2>2 DEF GroupsInv, GroupsTypeOK
<1>4. RequestsKnown'
  BY <1>1 DEF GroupsInv, RequestsKnown
<1>5. RowsAndRequests'
  <2> SUFFICES ASSUME NEW n \in Members
               PROVE  memberships'[n] + Cardinality(Free(n)') <= together'[n]
    BY DEF RowsAndRequests
  <2>1. Free(n)' = Free(n)
    BY <1>1 DEF Free
  <2>2. QED
    BY <1>1, <1>2, <2>1, FewerRows
<1>6. NoneBefore'
  BY <1>1 DEF GroupsInv, NoneBefore
<1>7. QED
  BY <1>3, <1>4, <1>5, <1>6 DEF GroupsInv

\* Publishing reads the accounts and groups, and changes none of them.
LEMMA PublishingStep == Publishing => UNCHANGED groupVars
  BY DEF Publishing, createUpdate, readRecipients, tell, failPublish,
         createBroadcast, readActive, mail, writeAudit, EndPublish, NextChunk

\* Every step, also of an announcement, keeps the invariant.
LEMMA GroupsStep == GroupsInv /\ [AnnouncementsNext]_announcementVars => GroupsInv'
<1> SUFFICES ASSUME GroupsInv, [AnnouncementsNext]_announcementVars
             PROVE  GroupsInv'
  OBVIOUS
<1>1. CASE UNCHANGED groupVars
  BY <1>1 DEF groupVars, GroupsInv, GroupsTypeOK, RequestsKnown, RowsAndRequests,
              NoneBefore, Free
<1>2. CASE Administration
  BY <1>2, CreateAccountStep, AccountStep, GroupStep, LookUpStep,
     FindNoMembershipStep, InsertMembershipStep, RemoveMembershipStep
     DEF Administration
<1>3. QED
  BY <1>1, <1>2, PublishingStep DEF AnnouncementsNext, announcementVars

\* The accounts, the groups and the requests to assign keep their types, and a
\* membership is of an account and a group that exist.
THEOREM GroupsTypeCorrect == AnnouncementsSpec => []GroupsTypeOK
<1>1. AnnouncementsInit => GroupsInv
  BY GroupsStart DEF AnnouncementsInit
<1>2. GroupsInv => GroupsTypeOK
  BY DEF GroupsInv
<1>3. QED
  BY <1>1, <1>2, GroupsStep, PTL DEF AnnouncementsSpec

\* Nobody is in a group more often than the account's list named it, or than
\* requests were about to insert the pair at once, however many requests there
\* are and in any order (accounts.ts, visitor-groups.ts).
THEOREM GroupsAddUp == AnnouncementsSpec => []NoMoreThanTogether
<1>1. AnnouncementsInit => GroupsInv
  BY GroupsStart DEF AnnouncementsInit
<1>2. QED
  BY <1>1, RowsBounded, GroupsStep, PTL DEF AnnouncementsSpec

-----------------------------------------------------------------------------
(* Updates and broadcasts *)

Counts == [total : Nat, sent : Nat, failed : Nat]
NoCounts == [total |-> 0, sent |-> 0, failed |-> 0]
Stages == {"idle", "created", "telling", "mailing", "ended"}

UpdatesTyped ==
  /\ target \in [Updates -> Targets \cup {Broadcast, NoTarget}]
  /\ publishing \in [Updates -> Stages]
  /\ toTell \in [Updates -> [Users -> Nat]]
  /\ told \in [Updates -> [Users -> Nat]]
  /\ count \in [Updates -> Counts]
  /\ audited \subseteq Updates

Mailed(k) == {u \in Users : told[k][u] > 0}

\* What is known of an update at each stage of its handler: nobody was told
\* before the recipients were read, and while a broadcast is mailed its counts
\* are those of the recipients that were mailed and of those that are left.
UpdateOK(k) ==
  /\ publishing[k] = "idle" <=> target[k] = NoTarget
  /\ publishing[k] \in {"idle", "created"} =>
       toTell[k] = Nobody /\ count[k] = NoCounts
  /\ publishing[k] \in {"idle", "created", "telling"} => told[k] = Nobody
  /\ k \in audited => publishing[k] = "ended"
  /\ publishing[k] = "telling" =>
       /\ target[k] \in Targets
       /\ \A u \in Users : toTell[k][u] <= Times(target[k], u)
  /\ publishing[k] = "mailing" =>
       /\ target[k] = Broadcast
       /\ \A u \in Users : toTell[k][u] + told[k][u] <= 1
       /\ count[k].sent = Cardinality(Mailed(k))
       /\ count[k].sent + count[k].failed + Cardinality(Remaining(k)) = count[k].total

\* NotifiedAsNamed and AuditCountsEveryone of one update.
ToldRight(k) ==
  /\ target[k] # NoTarget => \A u \in Users : told[k][u] <= Times(target[k], u)
  /\ k \in audited =>
       /\ count[k].sent + count[k].failed = count[k].total
       /\ Cardinality(Mailed(k)) = count[k].sent

UpdatesKnown == UpdatesTyped /\ \A k \in Updates : UpdateOK(k) /\ ToldRight(k)

\* What is known of the updates is what is claimed of them.
LEMMA KnownIsClaimed ==
  GroupsInv /\ UpdatesKnown => AnnouncementsInv
<1> SUFFICES ASSUME GroupsInv, UpdatesKnown PROVE AnnouncementsInv
  OBVIOUS
<1>1. AnnouncementsTypeOK
  BY DEF UpdatesKnown, UpdatesTyped, UpdateOK, AnnouncementsTypeOK, Stages, Counts
<1>2. NotifiedAsNamed
  BY DEF UpdatesKnown, ToldRight, NotifiedAsNamed
<1>3. AuditCountsEveryone
  BY DEF UpdatesKnown, UpdatesTyped, ToldRight, Mailed, AuditCountsEveryone
<1>4. QED
  BY <1>1, <1>2, <1>3 DEF GroupsInv, AnnouncementsInv

\* How often an update may reach a user is a number, for a broadcast one.
LEMMA TimesKnown ==
  ASSUME GroupsInv, NEW t \in Targets \cup {Broadcast}, NEW u \in Users
  PROVE  Times(t, u) \in Nat /\ (t = Broadcast => Times(t, u) = 1)
<1>1. CASE t.type = "SPECIFIC_USERS"
  BY <1>1, AnnouncementsAssumption DEF Times
<1>2. CASE t.type = "VISITOR_GROUP"
  <2>1. t \in Targets /\ t.group \in Groups
    BY <1>2, AnnouncementsAssumption
  <2>2. <<t.group, u>> \in Members
    BY <2>1 DEF Members
  <2>3. together[<<t.group, u>>] \in Nat
    BY <2>2 DEF GroupsInv, GroupsTypeOK
  <2>4. Times(t, u) = together[<<t.group, u>>]
    BY <1>2, Zenon DEF Times
  <2>5. t # Broadcast
    BY <1>2, AnnouncementsAssumption
  <2>6. QED
    BY <2>3, <2>4, <2>5
<1>3. CASE t.type \notin {"SPECIFIC_USERS", "VISITOR_GROUP"}
  BY <1>3 DEF Times
<1>4. QED
  BY <1>1, <1>2, <1>3

\* It never becomes less: what was put in together was.
LEMMA TimesGrow ==
  ASSUME NEW t \in Targets \cup {Broadcast}, NEW u \in Users, GroupsInv,
         \A member \in Members : together'[member] \in Nat /\ together[member] <= together'[member]
  PROVE  Times(t, u) <= Times(t, u)'
<1>1. CASE t.type = "VISITOR_GROUP"
  <2>1. <<t.group, u>> \in Members
    BY <1>1, AnnouncementsAssumption DEF Members
  <2>2. Times(t, u) = together[<<t.group, u>>] /\ Times(t, u)' = together'[<<t.group, u>>]
    BY <1>1 DEF Times
  <2>3. QED
    BY <2>1, <2>2
<1>2. CASE t.type # "VISITOR_GROUP"
  <2>1. Times(t, u)' = Times(t, u)
    BY <1>2 DEF Times
  <2>2. QED
    BY <2>1, TimesKnown
<1>3. QED
  BY <1>1, <1>2

\* Nothing has been published.
LEMMA UpdatesStart == UpdatesInit => UpdatesKnown
<1> SUFFICES ASSUME UpdatesInit PROVE UpdatesKnown
  OBVIOUS
<1>1. Nobody \in [Users -> Nat] /\ \A u \in Users : Nobody[u] = 0
  BY DEF Nobody
<1>2. UpdatesTyped
  BY <1>1 DEF UpdatesInit, UpdatesTyped, Stages, Counts
<1>3. \A k \in Updates : UpdateOK(k)
  BY <1>1 DEF UpdatesInit, UpdateOK, NoCounts
<1>4. \A k \in Updates : ToldRight(k)
  BY <1>1 DEF UpdatesInit, ToldRight
<1>5. QED
  BY <1>2, <1>3, <1>4 DEF UpdatesKnown

\* A step of the administration leaves the updates as they are, and how often they
\* may reach a user does not become less.
LEMMA AdministrationKeepsUpdates ==
  ASSUME GroupsInv, UpdatesKnown, UNCHANGED updateVars,
         \A member \in Members : together'[member] \in Nat /\ together[member] <= together'[member]
  PROVE  UpdatesKnown'
<1>1. UpdatesTyped'
  BY DEF UpdatesKnown, UpdatesTyped, updateVars
<1>2. ASSUME NEW k \in Updates PROVE UpdateOK(k)' /\ ToldRight(k)'
  <2>1. PICK t \in Targets \cup {Broadcast, NoTarget} : t = target[k] /\ t = target'[k]
    BY DEF UpdatesKnown, UpdatesTyped, updateVars
  <2>2. Mailed(k)' = Mailed(k) /\ Remaining(k)' = Remaining(k)
    BY DEF Mailed, Remaining, updateVars
  <2>3. UpdateOK(k) /\ ToldRight(k)
    BY DEF UpdatesKnown
  <2>4. t # NoTarget => \A u \in Users, n \in Nat : n <= Times(t, u) => n <= Times(t, u)'
    <3> SUFFICES ASSUME t # NoTarget, NEW u \in Users, NEW n \in Nat, n <= Times(t, u)
                 PROVE  n <= Times(t, u)'
      OBVIOUS
    <3>1. GroupsInv /\ Times(t, u) \in Nat /\ Times(t, u) <= Times(t, u)'
      BY TimesKnown, TimesGrow
    <3>2. Times(t, u)' \in Nat
      <4>1. CASE t.type = "VISITOR_GROUP"
        <5>1. <<t.group, u>> \in Members
          BY <4>1, AnnouncementsAssumption DEF Members
        <5>2. QED
          BY <4>1, <5>1 DEF Times
      <4>2. CASE t.type # "VISITOR_GROUP"
        <5>1. Times(t, u)' = Times(t, u)
          BY <4>2 DEF Times
        <5>2. QED
          BY <3>1, <5>1
      <4>3. QED
        BY <4>1, <4>2
    <3>3. QED
      BY <3>1, <3>2
  <2>5. \A u \in Users : toTell[k][u] \in Nat /\ told[k][u] \in Nat
    BY DEF UpdatesKnown, UpdatesTyped
  <2>6. /\ target'[k] = target[k] /\ publishing'[k] = publishing[k]
        /\ toTell'[k] = toTell[k] /\ told'[k] = told[k] /\ count'[k] = count[k]
        /\ audited' = audited
    BY DEF updateVars
  <2>7. publishing[k] = "telling" => \A u \in Users : toTell[k][u] <= Times(t, u)'
    <3> SUFFICES ASSUME publishing[k] = "telling", NEW u \in Users
                 PROVE  toTell[k][u] <= Times(t, u)'
      OBVIOUS
    <3>1. t # NoTarget /\ toTell[k][u] <= Times(t, u)
      BY <2>1, <2>3 DEF UpdateOK
    <3>2. QED
      BY <2>4, <2>5, <3>1
  <2>8. t # NoTarget => \A u \in Users : told[k][u] <= Times(t, u)'
    <3> SUFFICES ASSUME t # NoTarget, NEW u \in Users
                 PROVE  told[k][u] <= Times(t, u)'
      OBVIOUS
    <3>1. told[k][u] <= Times(t, u)
      BY <2>1, <2>3 DEF ToldRight
    <3>2. QED
      BY <2>4, <2>5, <3>1
  <2>9. UpdateOK(k)'
    BY <2>1, <2>2, <2>3, <2>6, <2>7 DEF UpdateOK
  <2>10. ToldRight(k)'
    BY <2>1, <2>2, <2>3, <2>6, <2>8 DEF ToldRight
  <2>11. QED
    BY <2>9, <2>10
<1>3. QED
  BY <1>1, <1>2 DEF UpdatesKnown

\* What was put in together is a number, and never becomes less.
LEMMA TogetherGrows ==
  GroupsInv /\ Administration =>
    \A member \in Members : together'[member] \in Nat /\ together[member] <= together'[member]
<1> SUFFICES ASSUME GroupsInv, Administration, NEW member \in Members
             PROVE  together'[member] \in Nat /\ together[member] <= together'[member]
  OBVIOUS
<1>1. together[member] \in Nat
  BY DEF GroupsInv, GroupsTypeOK
<1>2. CASE UNCHANGED together
  BY <1>1, <1>2
<1>3. ASSUME NEW u \in Users, NEW r \in Roles,
             NEW times \in [Groups -> 0 .. MaxListed], createAccount(u, r, times)
      PROVE  together'[member] \in Nat /\ together[member] <= together'[member]
  <2>1. /\ role[u] = "none"
        /\ together'[member] = IF member[2] = u THEN times[member[1]] ELSE together[member]
    BY <1>3 DEF createAccount, Listed
  <2>2. CASE member[2] = u
    <3>1. together[member] = 0
      BY <2>1, <2>2 DEF GroupsInv, NoneBefore
    <3>2. times[member[1]] \in Nat
      BY <1>3, PairIsMember
    <3>3. QED
      BY <2>1, <2>2, <3>1, <3>2
  <2>3. QED
    BY <1>1, <2>1, <2>2
<1>4. ASSUME NEW a \in Assigners, FindNoMembership(a)
      PROVE  together'[member] \in Nat /\ together[member] <= together'[member]
  <2>1. PICK n \in Nat : n = Cardinality(Free(assignee[a])) + 1
    <3>1. Cardinality(Free(assignee[a])) \in Nat
      BY AssignersFinite DEF Free
    <3>2. QED
      BY <3>1
  <2>2. together' = [together EXCEPT ![assignee[a]] = IF n > @ THEN n ELSE @]
    BY <1>4, <2>1 DEF FindNoMembership, Join
  <2>3. \/ together'[member] = together[member]
        \/ together'[member] = n /\ n > together[member]
    BY <2>2 DEF GroupsInv, GroupsTypeOK
  <2>4. QED
    BY <1>1, <2>1, <2>3
<1>5. QED
  BY <1>2, <1>3, <1>4
     DEF Administration, changeRole, suspend, restore, createGroup, archive,
         unarchive, setArchived, FindGroup, FindUser, InsertMembership, FailAssign,
         removeMembership, assignVars, accountVars

\* A step of the handler that publishes an update changes the row of that update
\* only.
LEMMA OneUpdate ==
  ASSUME UpdatesKnown, UNCHANGED groupVars, NEW k \in Updates,
         NEW tg \in Targets \cup {Broadcast, NoTarget}, NEW st \in Stages,
         NEW tt \in [Users -> Nat], NEW td \in [Users -> Nat], NEW ct \in Counts,
         target' = [target EXCEPT ![k] = tg],
         publishing' = [publishing EXCEPT ![k] = st],
         toTell' = [toTell EXCEPT ![k] = tt],
         told' = [told EXCEPT ![k] = td],
         count' = [count EXCEPT ![k] = ct],
         audited' \in {audited, audited \cup {k}},
         UpdateOK(k)', ToldRight(k)'
  PROVE  UpdatesKnown'
<1>1. UpdatesTyped'
  BY DEF UpdatesKnown, UpdatesTyped
<1>2. ASSUME NEW j \in Updates, j # k PROVE UpdateOK(j)' /\ ToldRight(j)'
  <2>1. /\ target'[j] = target[j] /\ publishing'[j] = publishing[j]
        /\ toTell'[j] = toTell[j] /\ told'[j] = told[j] /\ count'[j] = count[j]
        /\ j \in audited' <=> j \in audited
    BY <1>2 DEF UpdatesKnown, UpdatesTyped
  <2>2. \A u \in Users : Times(target[j], u)' = Times(target[j], u)
    BY <2>1 DEF Times, groupVars
  <2>3. Mailed(j)' = Mailed(j) /\ Remaining(j)' = Remaining(j)
    BY <2>1 DEF Mailed, Remaining
  <2>4. UpdateOK(j) /\ ToldRight(j)
    BY DEF UpdatesKnown
  <2>5. UpdateOK(j)'
    BY <2>1, <2>2, <2>3, <2>4 DEF UpdateOK
  <2>6. ToldRight(j)'
    BY <2>1, <2>2, <2>3, <2>4 DEF ToldRight
  <2>7. QED
    BY <2>5, <2>6
<1>3. QED
  BY <1>1, <1>2 DEF UpdatesKnown

\* The row of an update as it is, for the steps that change a part of it.
LEMMA RowNow ==
  ASSUME UpdatesKnown, NEW k \in Updates
  PROVE  /\ target[k] \in Targets \cup {Broadcast, NoTarget}
         /\ publishing[k] \in Stages
         /\ toTell[k] \in [Users -> Nat] /\ told[k] \in [Users -> Nat]
         /\ count[k] \in Counts
         /\ target = [target EXCEPT ![k] = target[k]]
         /\ publishing = [publishing EXCEPT ![k] = publishing[k]]
         /\ toTell = [toTell EXCEPT ![k] = toTell[k]]
         /\ told = [told EXCEPT ![k] = told[k]]
         /\ count = [count EXCEPT ![k] = count[k]]
         /\ UpdateOK(k) /\ ToldRight(k)
BY DEF UpdatesKnown, UpdatesTyped

\* Of an update that is not published nobody was told.
LEMMA NobodyIsTold ==
  Nobody \in [Users -> Nat] /\ \A u \in Users : Nobody[u] = 0
BY DEF Nobody

\* While nobody was told of an update nobody was told too often.
LEMMA NobodyYet ==
  ASSUME GroupsInv, UNCHANGED groupVars, NEW k \in Updates,
         NEW t \in Targets \cup {Broadcast}, target'[k] = t, told'[k] = Nobody,
         audited' = audited, k \notin audited
  PROVE  ToldRight(k)'
<1>1. \A u \in Users : Times(t, u)' = Times(t, u)
  BY DEF Times, groupVars
<1>2. \A u \in Users : told'[k][u] <= Times(target[k], u)'
  BY <1>1, TimesKnown, NobodyIsTold
<1>3. QED
  BY <1>2 DEF ToldRight

\* An update or a broadcast is created.
LEMMA CreateStep ==
  ASSUME GroupsInv, UpdatesKnown, NEW k \in Updates, NEW t \in Targets \cup {Broadcast},
         target[k] = NoTarget, target' = [target EXCEPT ![k] = t],
         publishing' = [publishing EXCEPT ![k] = "created"],
         UNCHANGED <<groupVars, toTell, told, count, audited>>
  PROVE  UpdatesKnown'
<1>1. UpdateOK(k) /\ ToldRight(k) /\ publishing[k] = "idle" /\ t # NoTarget
  BY RowNow, AnnouncementsAssumption DEF UpdateOK
<1>2. PICK tt, td, ct : tt = toTell[k] /\ td = told[k] /\ ct = count[k]
  OBVIOUS
<1>3. /\ toTell' = [toTell EXCEPT ![k] = tt] /\ told' = [told EXCEPT ![k] = td]
      /\ count' = [count EXCEPT ![k] = ct]
      /\ tt \in [Users -> Nat] /\ td \in [Users -> Nat] /\ ct \in Counts
  BY <1>2, RowNow
<1>4. /\ target'[k] = t /\ publishing'[k] = "created" /\ toTell'[k] = tt
      /\ told'[k] = td /\ count'[k] = ct
  BY <1>3 DEF UpdatesKnown, UpdatesTyped
<1>5. UpdateOK(k)'
  BY <1>1, <1>2, <1>4 DEF UpdateOK
<1>6. k \notin audited /\ td = Nobody
  BY <1>1, <1>2 DEF UpdateOK
<1>7. ToldRight(k)'
  BY <1>4, <1>6, NobodyYet
<1>8. QED
  BY <1>3, <1>5, <1>7, OneUpdate DEF Stages

\* The recipients of an update are users, each named as often as the update may
\* reach one.
LEMMA RecipientsKnown ==
  ASSUME GroupsInv, NEW t \in Targets
  PROVE  /\ Recipients(t) \in [Users -> Nat]
         /\ \A u \in Users : Recipients(t)[u] <= Times(t, u)
<1>1. /\ t.type \in {"COMMUNITY_WIDE", "ROLE", "VISITOR_GROUP", "SPECIFIC_USERS"}
      /\ t.type = "VISITOR_GROUP" => t.group \in Groups
      /\ t.type = "SPECIFIC_USERS" => t.users \in [Users -> Nat]
  BY AnnouncementsAssumption
<1>2. ASSUME NEW u \in Users
      PROVE  Recipients(t)[u] \in Nat /\ Recipients(t)[u] <= Times(t, u)
  <2>1. CASE t.type = "COMMUNITY_WIDE"
    BY <2>1 DEF Recipients, Times
  <2>2. CASE t.type = "ROLE"
    BY <2>2 DEF Recipients, Times
  <2>3. CASE t.type = "VISITOR_GROUP"
    <3>1. <<t.group, u>> \in Members
      BY <1>1, <2>3 DEF Members
    <3>2. /\ Recipients(t)[u] = memberships[<<t.group, u>>]
          /\ Times(t, u) = together[<<t.group, u>>]
      BY <2>3 DEF Recipients, Times
    <3>3. memberships[<<t.group, u>>] \in Nat
      BY <3>1 DEF GroupsInv, GroupsTypeOK
    <3>4. memberships[<<t.group, u>>] <= together[<<t.group, u>>]
      BY <3>1, RowsBounded DEF NoMoreThanTogether
    <3>5. QED
      BY <3>2, <3>3, <3>4
  <2>4. CASE t.type = "SPECIFIC_USERS"
    BY <1>1, <2>4 DEF Recipients, Times
  <2>5. QED
    BY <1>1, <2>1, <2>2, <2>3, <2>4
<1>3. QED
  BY <1>2, Zenon DEF Recipients

\* The recipients are read.
LEMMA ReadRecipientsStep ==
  ASSUME GroupsInv, UpdatesKnown, NEW k \in Updates, readRecipients(k)
  PROVE  UpdatesKnown'
<1>1. /\ publishing[k] = "created" /\ target[k] # Broadcast
      /\ toTell' = [toTell EXCEPT ![k] = Recipients(target[k])]
      /\ publishing' = [publishing EXCEPT ![k] = "telling"]
      /\ UNCHANGED <<groupVars, target, told, count, audited>>
  BY DEF readRecipients
<1>2. PICK t \in Targets : t = target[k]
  BY <1>1, RowNow DEF UpdateOK
<1>3. PICK td, ct : td = told[k] /\ ct = count[k]
  OBVIOUS
<1>4. PICK tt \in [Users -> Nat] : tt = Recipients(t)
  BY RecipientsKnown
<1>5. /\ target' = [target EXCEPT ![k] = t] /\ toTell' = [toTell EXCEPT ![k] = tt]
      /\ told' = [told EXCEPT ![k] = td] /\ count' = [count EXCEPT ![k] = ct]
      /\ td \in [Users -> Nat] /\ ct \in Counts
  BY <1>1, <1>2, <1>3, <1>4, RowNow
<1>6. /\ target'[k] = t /\ publishing'[k] = "telling" /\ toTell'[k] = tt
      /\ told'[k] = td /\ count'[k] = ct
  BY <1>1, <1>5 DEF UpdatesKnown, UpdatesTyped
<1>7. td = Nobody /\ k \notin audited /\ t # NoTarget
  BY <1>1, <1>2, <1>3, RowNow DEF UpdateOK
<1>8. \A u \in Users : tt[u] <= Times(target[k], u)'
  <2>1. \A u \in Users : Times(t, u)' = Times(t, u)
    BY <1>1 DEF Times, groupVars
  <2>2. QED
    BY <1>4, <1>2, <1>6, <2>1, RecipientsKnown
<1>9. UpdateOK(k)'
  BY <1>1, <1>6, <1>7, <1>8 DEF UpdateOK
<1>10. ToldRight(k)'
  BY <1>1, <1>6, <1>7, NobodyYet
<1>11. QED
  BY <1>1, <1>5, <1>9, <1>10, OneUpdate DEF Stages

\* The handler of an update ends; whoever it has told it has told.
LEMMA EndStep ==
  ASSUME UpdatesKnown, NEW k \in Updates, EndPublish(k), publishing[k] # "idle",
         NEW td \in [Users -> Nat], told' = [told EXCEPT ![k] = td],
         \A u \in Users : td[u] <= Times(target[k], u),
         NEW ct \in Counts, count' = [count EXCEPT ![k] = ct],
         audited' \in {audited, audited \cup {k}},
         k \in audited' => /\ ct.sent + ct.failed = ct.total
                           /\ Cardinality({u \in Users : td[u] > 0}) = ct.sent
  PROVE  UpdatesKnown'
<1>1. /\ publishing' = [publishing EXCEPT ![k] = "ended"]
      /\ toTell' = [toTell EXCEPT ![k] = Nobody]
      /\ UNCHANGED <<groupVars, target>>
  BY DEF EndPublish
<1>2. PICK t \in Targets \cup {Broadcast, NoTarget} : t = target[k]
  BY RowNow
<1>3. target' = [target EXCEPT ![k] = t]
  BY <1>1, <1>2, RowNow
<1>4. /\ target'[k] = t /\ publishing'[k] = "ended" /\ toTell'[k] = Nobody
      /\ told'[k] = td /\ count'[k] = ct
  BY <1>1, <1>3 DEF UpdatesKnown, UpdatesTyped
<1>5. t # NoTarget
  BY <1>2, RowNow DEF UpdateOK
<1>6. UpdateOK(k)'
  BY <1>4, <1>5 DEF UpdateOK
<1>7. ToldRight(k)'
  <2>1. \A u \in Users : td[u] <= Times(target[k], u)'
    BY <1>1, <1>2, <1>4 DEF Times, groupVars
  <2>2. Mailed(k)' = {u \in Users : td[u] > 0}
    BY <1>4 DEF Mailed
  <2>3. QED
    BY <1>4, <2>1, <2>2 DEF ToldRight
<1>8. QED
  BY <1>1, <1>3, <1>6, <1>7, NobodyIsTold, OneUpdate DEF Stages

\* The recipients of an update are told, each as often as the update names them.
LEMMA TellStep ==
  ASSUME GroupsInv, UpdatesKnown, NEW k \in Updates, tell(k)
  PROVE  UpdatesKnown'
<1>1. PICK td \in Deliveries(k) : told' = [told EXCEPT ![k] = td]
  BY DEF tell
<1>2. publishing[k] = "telling" /\ EndPublish(k) /\ UNCHANGED <<count, audited>>
  BY DEF tell
<1>3. /\ \A u \in Users : toTell[k][u] <= Times(target[k], u)
      /\ target[k] \in Targets
      /\ k \notin audited /\ toTell[k] \in [Users -> Nat]
  BY <1>2, RowNow DEF UpdateOK
<1>4. td \in [Users -> Nat] /\ \A u \in Users : td[u] <= toTell[k][u]
  <2>1. CASE td \in {toTell[k], Nobody}
    BY <1>3, <2>1, NobodyIsTold
  <2>2. CASE td \notin {toTell[k], Nobody}
    <3>1. /\ td \in [Users -> UNION {0 .. toTell[k][u] : u \in Users}]
          /\ \A u \in Users : td[u] <= toTell[k][u]
      BY <1>1, <2>2 DEF Deliveries
    <3>2. \A x \in UNION {0 .. toTell[k][u] : u \in Users} : x \in Nat
      BY <1>3
    <3>3. QED
      BY <3>1, <3>2
  <2>3. QED
    BY <2>1, <2>2
<1>5. \A u \in Users : td[u] <= Times(target[k], u)
  BY <1>3, <1>4, TimesKnown
<1>6. PICK ct \in Counts : ct = count[k]
  BY RowNow
<1>7. count' = [count EXCEPT ![k] = ct]
  BY <1>2, <1>6, RowNow
<1>8. QED
  BY <1>1, <1>2, <1>3, <1>4, <1>5, <1>7, EndStep

\* The handler fails: what it has told it has told.
LEMMA FailStep ==
  ASSUME UpdatesKnown, NEW k \in Updates, failPublish(k)
  PROVE  UpdatesKnown'
<1>1. publishing[k] \in {"created", "mailing"} /\ EndPublish(k)
      /\ UNCHANGED <<told, count, audited>>
  BY DEF failPublish
<1>2. PICK td \in [Users -> Nat], ct \in Counts : td = told[k] /\ ct = count[k]
  BY RowNow
<1>3. told' = [told EXCEPT ![k] = td] /\ count' = [count EXCEPT ![k] = ct]
  BY <1>1, <1>2, RowNow
<1>4. \A u \in Users : td[u] <= Times(target[k], u)
  BY <1>1, <1>2, RowNow DEF ToldRight, UpdateOK
<1>5. k \notin audited
  BY <1>1, RowNow DEF UpdateOK
<1>6. QED
  BY <1>1, <1>3, <1>4, <1>5, EndStep

\* Users are finitely many, and so are some of them.
LEMMA UsersFinite ==
  ASSUME NEW S \in SUBSET Users
  PROVE  IsFiniteSet(S) /\ Cardinality(S) \in Nat
BY AnnouncementsAssumption, FS_Subset, FS_CardinalityType

\* A broadcast has all its recipients left when they have been read.
LEMMA ReadActiveStep ==
  ASSUME GroupsInv, UpdatesKnown, NEW k \in Updates, readActive(k)
  PROVE  UpdatesKnown'
<1> DEFINE all == [u \in Users |-> IF u \in active THEN 1 ELSE 0]
<1>1. /\ publishing[k] = "created" /\ target[k] = Broadcast
      /\ toTell' = [toTell EXCEPT ![k] = all]
      /\ count' = [count EXCEPT ![k].total = Cardinality(active)]
      /\ publishing' = [publishing EXCEPT ![k] = "mailing"]
      /\ UNCHANGED <<groupVars, target, told, audited>>
  BY DEF readActive
<1>2. /\ told[k] = Nobody /\ count[k] = NoCounts /\ k \notin audited
  BY <1>1, RowNow DEF UpdateOK
<1>3. active \subseteq Users
  BY DEF GroupsInv, GroupsTypeOK
<1>4. PICK n \in Nat : n = Cardinality(active)
  BY <1>3, UsersFinite
<1>5. PICK tt \in [Users -> Nat] : tt = all
  OBVIOUS
<1>6. PICK td \in [Users -> Nat] : td = told[k]
  BY RowNow
<1>7. PICK ct \in Counts : ct = [total |-> n, sent |-> 0, failed |-> 0]
  BY DEF Counts
<1>8. count' = [count EXCEPT ![k] = ct]
  <2>1. count' = [count EXCEPT ![k] = [count[k] EXCEPT !.total = n]]
    BY <1>1, <1>4
  <2>2. [count[k] EXCEPT !.total = n] = ct
    BY <1>2, <1>7 DEF NoCounts
  <2>3. QED
    BY <2>1, <2>2
<1>9. /\ target' = [target EXCEPT ![k] = Broadcast]
      /\ told' = [told EXCEPT ![k] = td] /\ toTell' = [toTell EXCEPT ![k] = tt]
  BY <1>1, <1>5, <1>6, RowNow
<1>10. /\ target'[k] = Broadcast /\ publishing'[k] = "mailing" /\ toTell'[k] = tt
       /\ told'[k] = td /\ count'[k] = ct
  BY <1>1, <1>8, <1>9 DEF UpdatesKnown, UpdatesTyped
<1>11. /\ \A u \in Users : td[u] = 0 /\ tt[u] <= 1 /\ (tt[u] > 0 <=> u \in active)
  BY <1>2, <1>5, <1>6, NobodyIsTold
<1>12. Mailed(k)' = {} /\ Remaining(k)' = active
  BY <1>3, <1>10, <1>11 DEF Mailed, Remaining
<1>13. UpdateOK(k)'
  <2>1. \A u \in Users : toTell'[k][u] + told'[k][u] <= 1
    BY <1>5, <1>10, <1>11
  <2>2. count'[k].sent = Cardinality(Mailed(k)')
    BY <1>7, <1>10, <1>12, FS_EmptySet
  <2>3. count'[k].sent + count'[k].failed + Cardinality(Remaining(k)') = count'[k].total
    BY <1>4, <1>7, <1>10, <1>12
  <2>4. Broadcast # NoTarget
    BY AnnouncementsAssumption
  <2>5. QED
    BY <1>1, <1>2, <1>10, <2>1, <2>2, <2>3, <2>4 DEF UpdateOK
<1>14. ToldRight(k)'
  BY <1>1, <1>2, <1>6, <1>10, NobodyYet
<1>15. /\ Broadcast \in Targets \cup {Broadcast, NoTarget} /\ "mailing" \in Stages
       /\ audited' \in {audited, audited \cup {k}} /\ UNCHANGED groupVars
       /\ publishing' = [publishing EXCEPT ![k] = "mailing"]
  BY <1>1 DEF Stages
<1>16. QED
  BY <1>5, <1>6, <1>7, <1>8, <1>9, <1>13, <1>14, <1>15, OneUpdate

\* The counts go on to be those of the recipients mailed and left, while every
\* send of a chunk is sent or has failed.  If one throws, the handler ends
\* without an audit row.
LEMMA MailStep ==
  ASSUME GroupsInv, UpdatesKnown, NEW k \in Updates, mail(k)
  PROVE  UpdatesKnown'
<1>1. PICK chunk \in Chunks(k) : \E sent, failed \in SUBSET chunk :
        /\ MailChunk(k, chunk, sent, failed)
        /\ IF sent \cup failed = chunk THEN NextChunk(k, chunk) ELSE EndPublish(k)
  BY DEF mail
<1>2. PICK sent \in SUBSET chunk, failed \in SUBSET chunk :
        /\ MailChunk(k, chunk, sent, failed)
        /\ IF sent \cup failed = chunk THEN NextChunk(k, chunk) ELSE EndPublish(k)
  BY <1>1
<1>3. PICK old \in [Users -> Nat], left \in [Users -> Nat], c \in Counts :
        old = told[k] /\ left = toTell[k] /\ c = count[k]
  BY RowNow
<1>4. PICK td : td = [u \in Users |-> IF u \in sent THEN old[u] + 1 ELSE old[u]]
  OBVIOUS
<1>5. PICK s \in Nat, f \in Nat : s = Cardinality(sent) /\ f = Cardinality(failed)
  <2>1. chunk \subseteq Users
    BY <1>1 DEF Chunks, Remaining
  <2>2. QED
    BY <2>1, UsersFinite
<1>6. PICK ct : ct = [c EXCEPT !.sent = @ + s, !.failed = @ + f]
  OBVIOUS
<1>7. /\ ct \in Counts /\ ct.total = c.total
      /\ ct.sent = c.sent + s /\ ct.failed = c.failed + f
  <2>1. c.total \in Nat /\ c.sent + s \in Nat /\ c.failed + f \in Nat
    BY <1>3, <1>5 DEF Counts
  <2>2. c \in [total : Nat, sent : Nat, failed : Nat]
    BY <1>3 DEF Counts
  <2>3. ct = [total |-> c.total, sent |-> c.sent + s, failed |-> c.failed + f]
    BY <1>6, <2>2
  <2>4. QED
    BY <2>1, <2>3 DEF Counts
<1>8. td \in [Users -> Nat]
  BY <1>4
<1>9. /\ publishing[k] = "mailing" /\ sent \cap failed = {} /\ audited' = audited
      /\ told' = [told EXCEPT ![k] = td]
  BY <1>2, <1>3, <1>4 DEF MailChunk
<1>10. count' = [count EXCEPT ![k] = ct]
  <2>1. count' = [count EXCEPT ![k].sent = @ + s, ![k].failed = @ + f]
    BY <1>2, <1>5 DEF MailChunk
  <2>2. count \in [Updates -> Counts]
    BY DEF UpdatesKnown, UpdatesTyped
  <2>3. count' = [count EXCEPT ![k] = [count[k] EXCEPT !.sent = @ + s, !.failed = @ + f]]
    BY <2>1, <2>2
  <2>4. QED
    BY <1>3, <1>6, <2>3
<1>11. /\ target[k] = Broadcast /\ k \notin audited
       /\ \A u \in Users : left[u] + old[u] <= 1
       /\ c.sent = Cardinality(Mailed(k))
       /\ c.sent + c.failed + Cardinality(Remaining(k)) = c.total
  BY <1>3, <1>9, RowNow DEF UpdateOK
<1>12. /\ chunk \subseteq Remaining(k) /\ Remaining(k) \subseteq Users
       /\ \A u \in chunk : left[u] > 0 /\ old[u] = 0
       /\ \A u \in Users : td[u] <= 1
  <2>1. chunk \subseteq Remaining(k) /\ Remaining(k) \subseteq Users
    BY <1>1 DEF Chunks, Remaining
  <2>2. \A u \in chunk : left[u] > 0
    BY <1>3, <2>1 DEF Remaining
  <2>3. QED
    <3>1. \A u \in Users : old[u] \in Nat /\ left[u] \in Nat
      BY <1>3
    <3>2. \A u \in chunk : old[u] = 0
      BY <1>11, <2>1, <2>2, <3>1
    <3>3. \A u \in Users : td[u] <= 1
      BY <1>4, <1>11, <3>1, <3>2
    <3>4. QED
      BY <2>1, <2>2, <3>2, <3>3
<1>13. CASE sent \cup failed = chunk
  <2>1. PICK tt : tt = [u \in Users |-> IF u \in chunk THEN 0 ELSE left[u]]
    OBVIOUS
  <2>2. /\ tt \in [Users -> Nat] /\ toTell' = [toTell EXCEPT ![k] = tt]
        /\ UNCHANGED <<groupVars, target, publishing>>
    BY <1>2, <1>3, <1>13, <2>1 DEF NextChunk
  <2>3. /\ target' = [target EXCEPT ![k] = Broadcast]
        /\ publishing' = [publishing EXCEPT ![k] = "mailing"]
    BY <1>9, <1>11, <2>2, RowNow
  <2>4. /\ target'[k] = Broadcast /\ publishing'[k] = "mailing" /\ toTell'[k] = tt
        /\ told'[k] = td /\ count'[k] = ct
    BY <1>9, <1>10, <2>2, <2>3 DEF UpdatesKnown, UpdatesTyped
  <2>5. Remaining(k)' = Remaining(k) \ chunk /\ Mailed(k)' = Mailed(k) \cup sent
    BY <1>3, <1>4, <1>12, <2>1, <2>4 DEF Remaining, Mailed
  <2>6. Mailed(k) \cap sent = {}
    BY <1>3, <1>12 DEF Mailed
  <2>7. /\ Mailed(k) \in SUBSET Users /\ sent \in SUBSET Users /\ failed \in SUBSET Users
        /\ Remaining(k) \ chunk \in SUBSET Users /\ chunk \in SUBSET Users
    BY <1>12 DEF Mailed
  <2>8. Cardinality(Mailed(k) \cup sent) = c.sent + s
    <3>1. IsFiniteSet(Mailed(k)) /\ IsFiniteSet(sent) /\ c.sent \in Nat
      BY <2>7, UsersFinite DEF Counts
    <3>2. Cardinality(Mailed(k) \cup sent) = Cardinality(Mailed(k)) + Cardinality(sent)
                                              - Cardinality({})
      BY <2>6, <3>1, FS_Union
    <3>3. QED
      BY <1>5, <1>11, <3>1, <3>2, FS_EmptySet
  <2>9. Cardinality(chunk) = s + f
    <3>1. IsFiniteSet(failed) /\ IsFiniteSet(sent)
      BY <2>7, UsersFinite
    <3>2. Cardinality(sent \cup failed) = Cardinality(sent) + Cardinality(failed)
                                          - Cardinality({})
      BY <1>9, <3>1, FS_Union
    <3>3. s + f = s + f - Cardinality({})
      BY <1>5, FS_EmptySet
    <3>4. QED
      BY <1>5, <1>13, <3>2, <3>3
  <2>10. Cardinality(Remaining(k)) = Cardinality(Remaining(k) \ chunk) + s + f
    <3>1. /\ IsFiniteSet(Remaining(k) \ chunk) /\ IsFiniteSet(chunk)
          /\ Cardinality(Remaining(k) \ chunk) \in Nat
      BY <2>7, UsersFinite
    <3>2. /\ (Remaining(k) \ chunk) \cap chunk = {}
          /\ (Remaining(k) \ chunk) \cup chunk = Remaining(k)
      BY <1>12
    <3>3. Cardinality((Remaining(k) \ chunk) \cup chunk)
            = Cardinality(Remaining(k) \ chunk) + Cardinality(chunk) - Cardinality({})
      BY <3>1, <3>2, FS_Union
    <3>4. QED
      BY <2>9, <3>1, <3>2, <3>3, FS_EmptySet
  <2>11. UpdateOK(k)'
    <3>1. \A u \in Users : tt[u] + td[u] <= 1
      BY <1>4, <1>11, <1>12, <2>1
    <3>2. Cardinality(Remaining(k) \ chunk) \in Nat
      BY <2>7, UsersFinite
    <3>3. ct.sent + ct.failed + Cardinality(Remaining(k) \ chunk) = ct.total
      BY <1>5, <1>7, <1>11, <2>10, <3>2 DEF Counts
    <3>4. Broadcast # NoTarget
      BY AnnouncementsAssumption
    <3>5. QED
      BY <1>7, <1>9, <1>11, <2>4, <2>5, <2>8, <3>1, <3>3, <3>4 DEF UpdateOK
  <2>12. ToldRight(k)'
    <3>1. \A u \in Users : td[u] <= Times(Broadcast, u)'
      <4>1. \A u \in Users : Times(Broadcast, u)' = Times(Broadcast, u)
        BY <2>2 DEF Times, groupVars
      <4>2. QED
        BY <1>12, <4>1, TimesKnown
    <3>2. QED
      BY <1>9, <1>11, <2>4, <3>1 DEF ToldRight
  <2>13. QED
    BY <1>7, <1>8, <1>9, <1>10, <2>2, <2>3, <2>11, <2>12, OneUpdate DEF Stages
<1>14. CASE sent \cup failed # chunk
  <2>1. EndPublish(k)
    BY <1>2, <1>14
  <2>2. \A u \in Users : td[u] <= Times(target[k], u)
    BY <1>11, <1>12, TimesKnown
  <2>3. QED
    BY <1>7, <1>8, <1>9, <1>10, <1>11, <2>1, <2>2, EndStep
<1>15. QED
  BY <1>13, <1>14

\* The audit row is written when there is no recipient left.
LEMMA AuditStep ==
  ASSUME UpdatesKnown, NEW k \in Updates, writeAudit(k)
  PROVE  UpdatesKnown'
<1>1. /\ publishing[k] = "mailing" /\ Remaining(k) = {}
      /\ audited' = audited \cup {k} /\ EndPublish(k) /\ UNCHANGED <<told, count>>
  BY DEF writeAudit
<1>2. PICK td \in [Users -> Nat], ct \in Counts : td = told[k] /\ ct = count[k]
  BY RowNow
<1>3. told' = [told EXCEPT ![k] = td] /\ count' = [count EXCEPT ![k] = ct]
  BY <1>1, <1>2, RowNow
<1>4. \A u \in Users : td[u] <= Times(target[k], u)
  BY <1>1, <1>2, RowNow DEF ToldRight, UpdateOK
<1>5. /\ ct.sent = Cardinality({u \in Users : td[u] > 0})
      /\ ct.sent + ct.failed + 0 = ct.total
  BY <1>1, <1>2, RowNow, FS_EmptySet DEF UpdateOK, Mailed
<1>6. ct.sent + ct.failed = ct.total
  BY <1>5 DEF Counts
<1>7. audited' \in {audited, audited \cup {k}} /\ publishing[k] # "idle" /\ EndPublish(k)
  BY <1>1
<1>8. Cardinality({u \in Users : td[u] > 0}) = ct.sent
  BY <1>5
<1>9. QED
  BY <1>2, <1>3, <1>4, <1>6, <1>7, <1>8, EndStep

\* Every step keeps what is known of the updates.
LEMMA UpdatesStep ==
  GroupsInv /\ UpdatesKnown /\ [AnnouncementsNext]_announcementVars => UpdatesKnown'
<1> SUFFICES ASSUME GroupsInv, UpdatesKnown, [AnnouncementsNext]_announcementVars
             PROVE  UpdatesKnown'
  OBVIOUS
<1>1. CASE UNCHANGED announcementVars
  <2>1. \A member \in Members : together[member] \in Nat /\ together'[member] = together[member]
    BY <1>1 DEF announcementVars, groupVars, GroupsInv, GroupsTypeOK
  <2>2. \A member \in Members : together'[member] \in Nat /\ together[member] <= together'[member]
    BY <2>1
  <2>3. QED
    BY <1>1, <2>2, AdministrationKeepsUpdates DEF announcementVars
<1>2. CASE Administration /\ UNCHANGED updateVars
  BY <1>2, TogetherGrows, AdministrationKeepsUpdates
<1>3. ASSUME NEW k \in Updates,
             \/ \E t \in Targets : createUpdate(k, t)
             \/ createBroadcast(k)
      PROVE  UpdatesKnown'
  BY <1>3, CreateStep DEF createUpdate, createBroadcast
<1>4. ASSUME NEW k \in Updates, readRecipients(k) PROVE UpdatesKnown'
  BY <1>4, ReadRecipientsStep
<1>5. ASSUME NEW k \in Updates, tell(k) PROVE UpdatesKnown'
  BY <1>5, TellStep
<1>6. ASSUME NEW k \in Updates, failPublish(k) PROVE UpdatesKnown'
  BY <1>6, FailStep
<1>7. ASSUME NEW k \in Updates, readActive(k) PROVE UpdatesKnown'
  BY <1>7, ReadActiveStep
<1>8. ASSUME NEW k \in Updates, mail(k) PROVE UpdatesKnown'
  BY <1>8, MailStep
<1>9. ASSUME NEW k \in Updates, writeAudit(k) PROVE UpdatesKnown'
  BY <1>9, AuditStep
<1>10. QED
  BY <1>1, <1>2, <1>3, <1>4, <1>5, <1>6, <1>7, <1>8, <1>9
     DEF AnnouncementsNext, Publishing

\* The groups and the updates are as they should be in every reachable state.
LEMMA AnnouncementsAlways == AnnouncementsSpec => [](GroupsInv /\ UpdatesKnown)
<1>1. AnnouncementsInit => GroupsInv /\ UpdatesKnown
  BY GroupsStart, UpdatesStart DEF AnnouncementsInit
<1>2. QED
  BY <1>1, GroupsStep, UpdatesStep, PTL DEF AnnouncementsSpec

\* Whoever is told of an update is told no more often than it allows, and a
\* broadcast with an audit row reached everyone it counts, whatever the size of
\* its chunks and wherever a send throws.
THEOREM AnnouncementsCorrect == AnnouncementsSpec => []AnnouncementsInv
  BY AnnouncementsAlways, KnownIsClaimed, PTL

\* The users who are told of an update are those whose feed shows it: the two
\* queries agree on every kind of target, but for groups that are archived.
THEOREM AnnouncementsSeen == AnnouncementsSpec => SeesWhatToldOf
<1> DEFINE Seen(k, u) ==
      publishing[k] = "created" /\ toTell'[k][u] > 0 /\ role[u] # "none" =>
        \/ k \in Feed(u)
        \/ /\ target[k].type = "VISITOR_GROUP"
           /\ groups[target[k].group] = "archived"
<1>1. ASSUME GroupsInv, UpdatesKnown, AnnouncementsNext,
             NEW k \in Updates, NEW u \in Users
      PROVE  Seen(k, u)
  <2> SUFFICES ASSUME publishing[k] = "created", toTell'[k][u] > 0
               PROVE  \/ k \in Feed(u)
                      \/ /\ target[k].type = "VISITOR_GROUP"
                         /\ groups[target[k].group] = "archived"
    OBVIOUS
  <2>1. target[k] # NoTarget /\ toTell[k] = Nobody /\ Nobody[u] = 0
    BY <1>1, RowNow, NobodyIsTold DEF UpdateOK
  <2>2. readRecipients(k) \/ readActive(k)
    <3>1. toTell'[k] # Nobody
      BY <2>1
    <3>2. CASE Administration /\ UNCHANGED updateVars
      BY <2>1, <3>1, <3>2 DEF updateVars
    <3>3. PICK j \in Updates :
            \/ \E t \in Targets : createUpdate(j, t)
            \/ readRecipients(j) \/ tell(j) \/ failPublish(j)
            \/ createBroadcast(j) \/ readActive(j) \/ mail(j) \/ writeAudit(j)
      BY <1>1, <3>1, <3>2 DEF AnnouncementsNext, Publishing
    <3>4. toTell \in [Updates -> [Users -> Nat]]
      BY <1>1 DEF UpdatesKnown, UpdatesTyped
    <3>5. j = k
      BY <2>1, <3>1, <3>3, <3>4 DEF createUpdate, readRecipients, tell, failPublish,
         createBroadcast, readActive, mail, writeAudit, EndPublish, NextChunk
    <3>6. QED
      BY <2>1, <3>1, <3>3, <3>4, <3>5 DEF createUpdate, tell, failPublish,
         createBroadcast, mail, MailChunk, writeAudit, EndPublish
  <2>3. CASE readActive(k)
    BY <2>1, <2>3, AnnouncementsAssumption DEF readActive, Feed, Shows
  <2>4. CASE readRecipients(k)
    <3>1. toTell'[k] = Recipients(target[k]) /\ target[k] # Broadcast
      BY <1>1, <2>4 DEF readRecipients, UpdatesKnown, UpdatesTyped
    <3>2. PICK t \in Targets : t = target[k]
      BY <1>1, <2>1, <3>1, RowNow
    <3>3. Recipients(t)[u] > 0
      BY <3>1, <3>2
    <3>4. /\ t.type \in {"COMMUNITY_WIDE", "ROLE", "VISITOR_GROUP", "SPECIFIC_USERS"}
          /\ t.type = "VISITOR_GROUP" => t.group \in Groups
      BY AnnouncementsAssumption
    <3>5. Shows(t, u) => k \in Feed(u)
      BY <2>1, <3>2 DEF Feed
    <3>6. CASE t.type = "COMMUNITY_WIDE"
      BY <3>5, <3>6 DEF Shows
    <3>7. CASE t.type = "ROLE"
      BY <3>3, <3>5, <3>7 DEF Shows, Recipients
    <3>8. CASE t.type = "VISITOR_GROUP"
      <4>1. Recipients(t)[u] = memberships[<<t.group, u>>] /\ <<t.group, u>> \in Members
        BY <3>4, <3>8 DEF Recipients, Members
      <4>2. groups[t.group] \in {"active", "archived"}
        BY <1>1, <3>3, <3>4, <3>8, <4>1, PairIsMember DEF GroupsInv, GroupsTypeOK
      <4>3. CASE groups[t.group] = "active"
        <5>1. t.group \in ActiveGroups(u)
          BY <3>3, <3>4, <3>8, <4>1, <4>3 DEF ActiveGroups
        <5>2. QED
          BY <3>5, <3>8, <5>1 DEF Shows
      <4>4. QED
        BY <3>2, <3>8, <4>2, <4>3
    <3>9. CASE t.type = "SPECIFIC_USERS"
      BY <3>3, <3>5, <3>9 DEF Shows, Recipients
    <3>10. QED
      BY <3>4, <3>6, <3>7, <3>8, <3>9
  <2>5. QED
    BY <2>2, <2>3, <2>4
<1>2. GroupsInv /\ UpdatesKnown /\ [AnnouncementsNext]_announcementVars
        => [\A k \in Updates, u \in Users : Seen(k, u)]_announcementVars
  BY <1>1
<1>3. QED
  <2> HIDE DEF Seen
  <2>1. SeesWhatToldOf <=>
          [][\A k \in Updates, u \in Users : Seen(k, u)]_announcementVars
    BY DEF SeesWhatToldOf, Seen
  <2>2. QED
    BY <1>2, <2>1, AnnouncementsAlways, PTL DEF AnnouncementsSpec
=============================================================================
