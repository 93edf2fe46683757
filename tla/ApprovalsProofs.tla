-------------------------- MODULE ApprovalsProofs --------------------------
(***************************************************************************)
(* Theorems about Approvals for any administrators, requests and rows.     *)
(*                                                                         *)
(* A decision holds its request from the claim to the commit, so that the  *)
(* request is still PENDING when the decision is written (Holding), and    *)
(* nobody else decides it (OneHolder). What a handler tells afterwards is  *)
(* then what the row will always have (Telling).                           *)
(*                                                                         *)
(* An approval that has moved its rows holds exactly one, which was the    *)
(* seller's (HoldsOne) and which no other approval holds (HeldApart), so   *)
(* that a transfer moves one title and loses none.                         *)
(***************************************************************************)
EXTENDS Approvals, FiniteSetTheorems, TLAPS

\* A transaction works on a request that is pending.
Holding ==
  \A a \in Admins : InTransaction(a) =>
    work[a] \in Working /\ status[work[a].on] = "PENDING"

\* No two transactions work on one request.
OneHolder ==
  \A a, b \in Admins :
    a # b /\ InTransaction(a) /\ InTransaction(b) => work[a].on # work[b].on

\* A message m says what the request and the voucher's code are.
Agrees(m) ==
  /\ m \in Working
  /\ status[m.on] = m.outcome
  /\ m.on \in Vouchers => code[m.on] = m.code

\* What is about to be told, and what was told, is what the rows have.
Telling ==
  /\ \A a \in Admins : stage[a] = "tell" => Agrees(work[a])
  /\ \A m \in told : Agrees(m)

\* Ownership rows are picked for transfers only, and let go at the end.
Picking ==
  \A a \in Admins : (stage[a] \in {"pick", "move"} \/ rows[a] # {}) =>
    InTransaction(a) /\ work[a].on \in Transfers

ApprovalsInv == TypeOK /\ Holding /\ OneHolder /\ Telling /\ Picking

-----------------------------------------------------------------------------

\* The invariant holds of empty tables.
LEMMA ApprovalsInitial == Init => ApprovalsInv
BY ApprovalsAssumption
   DEF Init, ApprovalsInv, TypeOK, Holding, OneHolder, Telling, Picking,
       InTransaction, Decisions, Working, Idle, Parties, NoParties

\* A step that changes no request and no code keeps what was told.
LEMMA ToldKept ==
  ASSUME UNCHANGED <<status, code>>
  PROVE  \A m : Agrees(m) => Agrees(m)'
BY DEF Agrees

\* A step that files a request changes none that was decided.
LEMMA FilingKeepsInv ==
  ASSUME ApprovalsInv, Filing
  PROVE  ApprovalsInv'
<1>1. UNCHANGED locals /\ UNCHANGED <<code, told>>
  BY DEF Filing, assignOwner, fileTransfer, createVoucher, history
<1>2. TypeOK'
  <2>1. CASE \E o \in Ownerships, u \in Users : assignOwner(o, u)
    BY <2>1 DEF ApprovalsInv, TypeOK, assignOwner, locals
  <2>2. CASE \E r \in Transfers, p \in Parties : fileTransfer(r, p)
    BY <2>2 DEF ApprovalsInv, TypeOK, fileTransfer, locals, Requests
  <2>3. CASE \E r \in Vouchers : createVoucher(r)
    BY <2>3 DEF ApprovalsInv, TypeOK, createVoucher, locals, Requests
  <2>4. QED
    BY <2>1, <2>2, <2>3 DEF Filing
<1>3. \A r \in Requests : status[r] # "none" => status'[r] = status[r]
  BY DEF Filing, assignOwner, fileTransfer, createVoucher, ApprovalsInv, TypeOK
<1>4. \A m : Agrees(m) => Agrees(m)'
  <2>1. SUFFICES ASSUME NEW m, Agrees(m) PROVE Agrees(m)'
    OBVIOUS
  <2>2. m.on \in Requests /\ status[m.on] # "none"
    BY <2>1 DEF Agrees, Working, Decisions
  <2>3. QED
    BY <1>1, <1>3, <2>1, <2>2 DEF Agrees
<1>5. Holding'
  BY <1>1, <1>3 DEF ApprovalsInv, Holding, InTransaction, locals, Working
<1>6. OneHolder' /\ Picking'
  BY <1>1 DEF ApprovalsInv, OneHolder, Picking, InTransaction, locals
<1>7. Telling'
  BY <1>1, <1>4 DEF ApprovalsInv, Telling, locals
<1>8. QED
  BY <1>2, <1>5, <1>6, <1>7 DEF ApprovalsInv

\* Claiming a request takes one that nobody holds and that is pending.
LEMMA ClaimKeepsInv ==
  ASSUME ApprovalsInv,
         NEW a \in Admins, NEW r \in Requests, NEW outcome \in Decisions,
         NEW k \in Codes \cup {NoCode}, Claim(a, r, outcome, k)
  PROVE  ApprovalsInv'
<1> DEFINE w == [on |-> r, outcome |-> outcome, code |-> k]
<1>1. w \in Working
  BY DEF Working
<1>2. /\ stage[a] = "idle" /\ ~ Claimed(r) /\ status[r] = "PENDING"
      /\ work' = [work EXCEPT ![a] = w]
      /\ stage'[a] \in {"pick", "write"}
      /\ stage'[a] = "pick" => r \in Transfers
      /\ stage' \in [Admins -> {"idle", "pick", "move", "write", "tell"}]
      /\ \A b \in Admins \ {a} : stage'[b] = stage[b] /\ work'[b] = work[b]
      /\ UNCHANGED <<tables, rows, history>>
  BY DEF Claim, Start, ApprovalsInv, TypeOK
<1>3. TypeOK' /\ work'[a] = w
  BY <1>1, <1>2 DEF ApprovalsInv, TypeOK, tables
<1>4. Holding'
  BY <1>1, <1>2, <1>3 DEF ApprovalsInv, Holding, InTransaction, tables
<1>5. OneHolder'
  BY <1>2, <1>3 DEF ApprovalsInv, OneHolder, InTransaction, Claimed
<1>6. Telling'
  <2>1. \A m : Agrees(m) => Agrees(m)'
    BY <1>2, ToldKept DEF tables
  <2>2. QED
    BY <1>2, <2>1 DEF ApprovalsInv, Telling, history
<1>7. Picking'
  <2>1. rows[a] = {}
    BY <1>2 DEF ApprovalsInv, Picking, InTransaction
  <2>2. QED
    BY <1>2, <1>3, <2>1 DEF ApprovalsInv, Picking, InTransaction
<1>8. QED
  BY <1>3, <1>4, <1>5, <1>6, <1>7 DEF ApprovalsInv

\* Picking and moving touch the rows that the transaction will change.
LEMMA RowsKeepInv ==
  ASSUME ApprovalsInv, NEW a \in Admins, PickRows(a) \/ MoveRows(a)
  PROVE  ApprovalsInv'
<1>1. /\ stage[a] \in {"pick", "move"} /\ stage'[a] \in {"move", "write"}
      /\ stage' \in [Admins -> {"idle", "pick", "move", "write", "tell"}]
      /\ rows' \in [Admins -> SUBSET Ownerships]
      /\ \A b \in Admins \ {a} : stage'[b] = stage[b] /\ rows'[b] = rows[b]
      /\ UNCHANGED <<tables, work, history>>
  BY DEF PickRows, MoveRows, RowsOf, ApprovalsInv, TypeOK
<1>2. InTransaction(a) /\ work[a].on \in Transfers
  BY <1>1 DEF ApprovalsInv, Picking, InTransaction
<1>3. \A b \in Admins : InTransaction(b)' <=> InTransaction(b)
  BY <1>1 DEF InTransaction
<1>4. TypeOK'
  BY <1>1 DEF ApprovalsInv, TypeOK, tables
<1>5. Holding' /\ OneHolder'
  BY <1>1, <1>3 DEF ApprovalsInv, Holding, OneHolder, tables
<1>6. Telling'
  <2>1. \A m : Agrees(m) => Agrees(m)'
    BY <1>1, ToldKept DEF tables
  <2>2. QED
    BY <1>1, <2>1 DEF ApprovalsInv, Telling, history
<1>7. Picking'
  BY <1>1, <1>2, <1>3 DEF ApprovalsInv, Picking
<1>8. QED
  BY <1>4, <1>5, <1>6, <1>7 DEF ApprovalsInv

\* The commit decides a request that was pending, so no message spoke of it.
LEMMA CommitKeepsInv ==
  ASSUME ApprovalsInv, NEW a \in Admins, Commit(a)
  PROVE  ApprovalsInv'
<1> DEFINE r == work[a].on
<1>1. /\ stage[a] = "write" /\ InTransaction(a)
      /\ work[a] \in Working /\ r \in Requests /\ status[r] = "PENDING"
  BY DEF Commit, ApprovalsInv, Holding, InTransaction, Working
<1>2. /\ work[a].outcome \in Decisions
      /\ work[a].code \in Codes \cup {NoCode}
      /\ "PENDING" \notin Decisions
  BY <1>1 DEF Working, Decisions
<1>3. /\ status' = [status EXCEPT ![r] = work[a].outcome]
      /\ code' = IF r \in Vouchers THEN [code EXCEPT ![r] = work[a].code] ELSE code
      /\ owner' = [o \in Ownerships |-> IF o \in rows[a] THEN Buyer(a) ELSE owner[o]]
      /\ stage' = [stage EXCEPT ![a] = "tell"]
      /\ rows' = [rows EXCEPT ![a] = {}]
      /\ UNCHANGED <<parties, work, history>>
  BY DEF Commit
<1>4. TypeOK'
  <2>1. \A o \in rows[a] : Buyer(a) \in Users \cup {NoUser}
    <3>1. SUFFICES ASSUME NEW o \in rows[a]
                   PROVE  Buyer(a) \in Users \cup {NoUser}
      OBVIOUS
    <3>2. parties[r] \in Parties \cup {NoParties}
      BY <3>1 DEF ApprovalsInv, Picking, TypeOK
    <3>3. QED
      BY <3>2 DEF Buyer, Parties, NoParties
  <2>2. status' \in [Requests -> {"none", "PENDING"} \cup Decisions]
    BY <1>1, <1>2, <1>3 DEF ApprovalsInv, TypeOK
  <2>3. code' \in [Vouchers -> Codes \cup {NoCode}]
    BY <1>1, <1>2, <1>3 DEF ApprovalsInv, TypeOK
  <2>4. owner' \in [Ownerships -> Users \cup {NoUser}]
    BY <1>3, <2>1 DEF ApprovalsInv, TypeOK
  <2>5. QED
    BY <1>3, <2>2, <2>3, <2>4 DEF ApprovalsInv, TypeOK
<1>5. /\ status'[r] = work[a].outcome
      /\ r \in Vouchers => code'[r] = work[a].code
      /\ \A q \in Requests \ {r} : status'[q] = status[q]
      /\ \A q \in Vouchers \ {r} : code'[q] = code[q]
  BY <1>1, <1>3 DEF ApprovalsInv, TypeOK
<1>6. \A b \in Admins \ {a} : InTransaction(b) => work[b].on # r
  BY <1>1 DEF ApprovalsInv, OneHolder
<1>7. /\ ~ InTransaction(a)' /\ rows'[a] = {} /\ stage'[a] = "tell"
      /\ \A b \in Admins \ {a} : stage'[b] = stage[b] /\ rows'[b] = rows[b]
      /\ \A b \in Admins \ {a} : InTransaction(b)' <=> InTransaction(b)
  BY <1>3 DEF ApprovalsInv, TypeOK, InTransaction
<1>8. \A b \in Admins : InTransaction(b)' => b # a /\ InTransaction(b)
  BY <1>7
<1>9. Holding'
  <2>1. SUFFICES ASSUME NEW b \in Admins, InTransaction(b)'
                 PROVE  work'[b] \in Working /\ status'[work'[b].on] = "PENDING"
    BY DEF Holding
  <2>2. work[b] \in Working /\ status[work[b].on] = "PENDING" /\ work[b].on # r
    BY <1>6, <1>8, <2>1 DEF ApprovalsInv, Holding
  <2>3. work[b].on \in Requests
    BY <2>2 DEF Working
  <2>4. QED
    BY <1>3, <1>5, <2>2, <2>3
<1>10. OneHolder'
  BY <1>3, <1>8 DEF ApprovalsInv, OneHolder
<1>11. Picking'
  BY <1>3, <1>7 DEF ApprovalsInv, Picking
<1>12. Telling'
  <2>1. Agrees(work[a])'
    BY <1>1, <1>3, <1>5 DEF Agrees
  <2>2. \A m : Agrees(m) => Agrees(m)'
    <3>1. SUFFICES ASSUME NEW m, Agrees(m) PROVE Agrees(m)'
      OBVIOUS
    <3>2. m.on \in Requests /\ m.outcome \in Decisions /\ m.on # r
      BY <1>1, <1>2, <3>1 DEF Agrees, Working
    <3>3. QED
      BY <1>5, <3>1, <3>2 DEF Agrees
  <2>3. QED
    BY <1>3, <1>7, <2>1, <2>2 DEF ApprovalsInv, Telling, history
<1>13. QED
  BY <1>4, <1>9, <1>10, <1>11, <1>12 DEF ApprovalsInv

\* The end of a decision lets go of what it holds, and tells at most what it
\* has committed.
LEMMA EndKeepsInv ==
  ASSUME ApprovalsInv, NEW a \in Admins, Rollback(a) \/ Tell(a) \/ TellLost(a)
  PROVE  ApprovalsInv'
<1>1. End(a) /\ UNCHANGED tables
  BY DEF Rollback, Tell, TellLost
<1>2. told' = told \/ (stage[a] = "tell" /\ told' = told \cup {work[a]})
  BY DEF Rollback, Tell, TellLost, history
<1>3. /\ stage'[a] = "idle" /\ rows'[a] = {} /\ ~ InTransaction(a)'
      /\ \A b \in Admins \ {a} : stage'[b] = stage[b] /\ rows'[b] = rows[b]
                                /\ work'[b] = work[b]
      /\ \A b \in Admins \ {a} : InTransaction(b)' <=> InTransaction(b)
  BY <1>1 DEF End, ApprovalsInv, TypeOK, InTransaction
<1>4. TypeOK'
  BY <1>1 DEF End, ApprovalsInv, TypeOK, tables
<1>5. Holding' /\ OneHolder' /\ Picking'
  BY <1>1, <1>3 DEF ApprovalsInv, Holding, OneHolder, Picking, tables
<1>6. Telling'
  <2>1. \A m : Agrees(m) => Agrees(m)'
    BY <1>1, ToldKept DEF tables
  <2>2. \A m \in told' : Agrees(m)
    BY <1>2 DEF ApprovalsInv, Telling
  <2>3. QED
    BY <1>3, <2>1, <2>2 DEF ApprovalsInv, Telling
<1>7. QED
  BY <1>4, <1>5, <1>6 DEF ApprovalsInv

\* Every step of a decision keeps the invariant.
LEMMA DecidingKeepsInv ==
  ASSUME ApprovalsInv, NEW a \in Admins, Deciding(a)
  PROVE  ApprovalsInv'
<1>1. CASE \E r \in Transfers : approveTransfer(a, r)
  BY <1>1, ClaimKeepsInv DEF approveTransfer, Requests, Decisions
<1>2. CASE \E r \in Vouchers, k \in Codes : approveVoucher(a, r, k)
  BY <1>2, ClaimKeepsInv DEF approveVoucher, Requests, Decisions
<1>3. CASE \E r \in Requests : decline(a, r)
  BY <1>3, ClaimKeepsInv DEF decline, Decisions
<1>4. CASE PickRows(a) \/ MoveRows(a)
  BY <1>4, RowsKeepInv
<1>5. CASE Commit(a)
  BY <1>5, CommitKeepsInv
<1>6. CASE Rollback(a) \/ Tell(a) \/ TellLost(a)
  BY <1>6, EndKeepsInv
<1>7. QED
  BY <1>1, <1>2, <1>3, <1>4, <1>5, <1>6 DEF Deciding

\* The invariant holds in every reachable state.
LEMMA ApprovalsInvariant == Spec => []ApprovalsInv
<1>1. ApprovalsInv /\ [Next]_vars => ApprovalsInv'
  <2>1. SUFFICES ASSUME ApprovalsInv, [Next]_vars PROVE ApprovalsInv'
    OBVIOUS
  <2>2. CASE UNCHANGED vars
    BY <2>1, <2>2 DEF vars, tables, locals, history, ApprovalsInv, TypeOK, Holding,
       OneHolder, Telling, Picking, InTransaction, Agrees
  <2>3. CASE Next
    BY <2>1, <2>3, FilingKeepsInv, DecidingKeepsInv DEF Next
  <2>4. QED
    BY <2>1, <2>2, <2>3
<1>2. QED
  BY <1>1, ApprovalsInitial, PTL DEF Spec

-----------------------------------------------------------------------------

\* The tables and the handlers keep their types, whoever decides what.
THEOREM ApprovalsTypeCorrect == Spec => []TypeOK
<1>1. ApprovalsInv => TypeOK
  BY DEF ApprovalsInv
<1>2. QED
  BY <1>1, ApprovalsInvariant, PTL

\* However many administrators approve and decline at the same time, and
\* wherever they are interrupted, what was told is what the row has.
THEOREM ApprovalsToldAsDecided == Spec => []ToldAsDecided
<1>1. ApprovalsInv => ToldAsDecided
  BY DEF ApprovalsInv, Telling, Agrees, ToldAsDecided
<1>2. QED
  BY <1>1, ApprovalsInvariant, PTL

\* A decision is final: no step changes a request that was decided, nor the
\* code of its voucher.
THEOREM ApprovalsDecidedOnce == Spec => DecidedOnce
<1> DEFINE Kept(r) == status[r] \in Decisions =>
             /\ status'[r] = status[r]
             /\ r \in Vouchers => code'[r] = code[r]
<1>1. ApprovalsInv /\ [Next]_vars => [\A r \in Requests : Kept(r)]_vars
  <2>1. SUFFICES ASSUME ApprovalsInv, Next, NEW r \in Requests,
                        status[r] \in Decisions
                 PROVE  status'[r] = status[r] /\ (r \in Vouchers => code'[r] = code[r])
    OBVIOUS
  <2>2. status[r] \notin {"none", "PENDING"}
    BY <2>1 DEF Decisions
  <2>3. CASE Filing
    BY <2>1, <2>2, <2>3 DEF Filing, assignOwner, fileTransfer, createVoucher,
       ApprovalsInv, TypeOK
  <2>4. CASE \E a \in Admins : Commit(a)
    <3>1. PICK a \in Admins : Commit(a)
      BY <2>4
    <3>2. status[work[a].on] = "PENDING"
      BY <2>1, <3>1 DEF Commit, ApprovalsInv, Holding, InTransaction
    <3>3. r # work[a].on
      BY <2>2, <3>2
    <3>4. QED
      BY <2>1, <3>1, <3>3 DEF Commit, ApprovalsInv, TypeOK
  <2>5. CASE \E a \in Admins : Deciding(a) /\ ~ Commit(a)
    BY <2>5 DEF Deciding, approveTransfer, approveVoucher, decline, Claim, Start,
       PickRows, MoveRows, Rollback, Tell, TellLost, tables
  <2>6. QED
    BY <2>1, <2>3, <2>4, <2>5 DEF Next
<1>2. QED
  BY <1>1, ApprovalsInvariant, PTL DEF Spec, DecidedOnce

-----------------------------------------------------------------------------
(* The title *)

Transferring(a) == work[a].on \in Transfers /\ work[a].outcome = "APPROVED"

\* An ownership row has an owner from the moment it is there.
Owned ==
  /\ assigned \in [Ownerships -> Users \cup {NoUser}]
  /\ \A o \in Ownerships : owner[o] = NoUser <=> assigned[o] = NoUser

\* A transfer that has been filed has a seller and a buyer.
HasParties == \A r \in Transfers : status[r] # "none" => parties[r] \in Parties

\* An approval that has moved its rows holds exactly one, which is the seller's;
\* any other decision holds none.
HoldsOne ==
  \A a \in Admins :
    /\ stage[a] \in {"pick", "move"} => work[a].outcome = "APPROVED"
    /\ stage[a] = "write" /\ Transferring(a) =>
         \E o \in Ownerships : rows[a] = {o} /\ owner[o] = Seller(a)
    /\ stage[a] = "write" /\ ~ Transferring(a) => rows[a] = {}

\* No two approvals hold the same row.
HeldApart ==
  \A a, b \in Admins :
    a # b /\ stage[a] = "write" /\ stage[b] = "write" => rows[a] \cap rows[b] = {}

RowsInv == Owned /\ HasParties /\ HoldsOne /\ HeldApart

TitleInv == ApprovalsInv /\ RowsInv /\ TitleFollowsTransfers

\* The rows of a user, and what he has sold, bought and been assigned, are
\* finitely many.
LEMMA RowsFinite ==
  ASSUME NEW u
  PROVE  /\ IsFiniteSet(RowsOf(u)) /\ Cardinality(RowsOf(u)) \in Nat
         /\ IsFiniteSet(Sold(u)) /\ Cardinality(Sold(u)) \in Nat
         /\ IsFiniteSet(Bought(u)) /\ Cardinality(Bought(u)) \in Nat
         /\ IsFiniteSet({o \in Ownerships : assigned[o] = u})
         /\ Cardinality({o \in Ownerships : assigned[o] = u}) \in Nat
<1>1. /\ RowsOf(u) \subseteq Ownerships
      /\ Sold(u) \subseteq Transfers /\ Bought(u) \subseteq Transfers
      /\ {o \in Ownerships : assigned[o] = u} \subseteq Ownerships
  BY DEF RowsOf, Sold, Bought
<1>2. QED
  BY <1>1, ApprovalsAssumption, FS_Subset, FS_CardinalityType

\* The title holds of empty tables.
LEMMA TitleInitial == Init => RowsInv /\ TitleFollowsTransfers
<1> SUFFICES ASSUME Init PROVE RowsInv /\ TitleFollowsTransfers
  OBVIOUS
<1>1. RowsInv
  <2>1. Owned /\ HasParties
    BY DEF Init, Owned, HasParties, Requests
  <2>2. HoldsOne /\ HeldApart
    BY DEF Init, HoldsOne, HeldApart
  <2>3. QED
    BY <2>1, <2>2 DEF RowsInv
<1>2. ASSUME NEW u \in Users
      PROVE  /\ RowsOf(u) = {o \in Ownerships : assigned[o] = u}
             /\ Sold(u) = {} /\ Bought(u) = {}
  BY DEF Init, RowsOf, Sold, Bought, Requests
<1>3. TitleFollowsTransfers
  BY <1>2, RowsFinite DEF TitleFollowsTransfers
<1>4. QED
  BY <1>1, <1>3

\* A step that decides nothing, moves no row and assigns none keeps the title.
LEMMA TitleUntouched ==
  ASSUME TitleFollowsTransfers, owner' = owner, assigned' = assigned,
         \A r \in Transfers :
           \/ status'[r] = status[r] /\ parties'[r] = parties[r]
           \/ status[r] # "APPROVED" /\ status'[r] # "APPROVED"
  PROVE  TitleFollowsTransfers'
<1>1. ASSUME NEW u \in Users
      PROVE  RowsOf(u)' = RowsOf(u) /\ Sold(u)' = Sold(u) /\ Bought(u)' = Bought(u)
  BY DEF RowsOf, Sold, Bought
<1>2. QED
  BY <1>1 DEF TitleFollowsTransfers

\* Filing adds a row to its first owner, or a request that is pending.
LEMMA FilingKeepsTitle ==
  ASSUME TitleInv, Filing
  PROVE  RowsInv' /\ TitleFollowsTransfers'
<1>1. UNCHANGED locals
  BY DEF Filing, assignOwner, fileTransfer, createVoucher
<1>2. ASSUME NEW o \in Ownerships, NEW u \in Users, assignOwner(o, u)
      PROVE  RowsInv' /\ TitleFollowsTransfers'
  <2>1. /\ owner[o] = NoUser /\ assigned[o] = NoUser /\ u # NoUser
        /\ owner' = [owner EXCEPT ![o] = u] /\ assigned' = [assigned EXCEPT ![o] = u]
        /\ UNCHANGED <<status, parties>>
    BY <1>2, ApprovalsAssumption DEF assignOwner, TitleInv, RowsInv, Owned
  <2>2. owner \in [Ownerships -> Users \cup {NoUser}]
    BY DEF TitleInv, ApprovalsInv, TypeOK
  <2>3. assigned \in [Ownerships -> Users \cup {NoUser}]
    BY DEF TitleInv, RowsInv, Owned
  <2>4. Owned' /\ HasParties'
    BY <2>1, <2>2, <2>3 DEF TitleInv, RowsInv, Owned, HasParties
  <2>5. HoldsOne'
    <3>1. ASSUME NEW a \in Admins, stage[a] = "write", Transferring(a)
          PROVE  \E p \in Ownerships : rows[a] = {p} /\ owner'[p] = Seller(a)
      <4>1. PICK p \in Ownerships : rows[a] = {p} /\ owner[p] = Seller(a)
        BY <3>1 DEF TitleInv, RowsInv, HoldsOne
      <4>2. InTransaction(a)
        BY <3>1 DEF InTransaction
      <4>3. status[work[a].on] = "PENDING"
        BY <4>2 DEF TitleInv, ApprovalsInv, Holding
      <4>4. parties[work[a].on] \in Parties
        BY <3>1, <4>3 DEF TitleInv, RowsInv, HasParties, Transferring
      <4>5. Seller(a) \in Users
        BY <4>4 DEF Seller, Parties
      <4>6. p # o
        BY <2>1, <4>1, <4>5, ApprovalsAssumption
      <4>7. QED
        BY <2>1, <2>2, <4>1, <4>6
    <3>2. QED
      BY <1>1, <2>1, <3>1 DEF TitleInv, RowsInv, HoldsOne, Transferring, Seller, locals
  <2>6. HeldApart'
    BY <1>1 DEF TitleInv, RowsInv, HeldApart, locals
  <2>7. ASSUME NEW v \in Users
        PROVE  Cardinality(RowsOf(v))' + Cardinality(Sold(v))'
                 = Cardinality({p \in Ownerships : assigned[p] = v})'
                     + Cardinality(Bought(v))'
    <3> DEFINE Given == {p \in Ownerships : assigned[p] = v}
    <3>1. Sold(v)' = Sold(v) /\ Bought(v)' = Bought(v)
      BY <2>1 DEF Sold, Bought
    <3>2. CASE v = u
      <4>1. RowsOf(v)' = RowsOf(v) \cup {o} /\ o \notin RowsOf(v)
        BY <2>1, <2>2, <3>2 DEF RowsOf
      <4>2. Given' = Given \cup {o} /\ o \notin Given
        BY <2>1, <2>3, <3>2
      <4>3. /\ Cardinality(RowsOf(v)') = Cardinality(RowsOf(v)) + 1
            /\ Cardinality(Given') = Cardinality(Given) + 1
        <5>1. IsFiniteSet(RowsOf(v)) /\ IsFiniteSet(Given)
          BY RowsFinite
        <5> HIDE DEF Given
        <5>2. Cardinality(RowsOf(v)') = Cardinality(RowsOf(v)) + 1
          BY <4>1, <5>1, FS_AddElement
        <5>3. Cardinality(Given') = Cardinality(Given) + 1
          BY <4>2, <5>1, FS_AddElement
        <5>4. QED
          BY <5>2, <5>3
      <4>4. QED
        BY <3>1, <4>3, RowsFinite DEF TitleInv, TitleFollowsTransfers
    <3>3. CASE v # u
      <4>1. RowsOf(v)' = RowsOf(v)
        BY <2>1, <2>2, <3>3, ApprovalsAssumption DEF RowsOf
      <4>2. Given' = Given
        BY <2>1, <2>3, <3>3, ApprovalsAssumption
      <4>3. QED
        BY <3>1, <4>1, <4>2 DEF TitleInv, TitleFollowsTransfers
    <3>4. QED
      BY <3>2, <3>3
  <2>8. QED
    BY <2>4, <2>5, <2>6, <2>7 DEF RowsInv, TitleFollowsTransfers
<1>3. ASSUME NEW r \in Requests, status[r] = "none",
             status' = [status EXCEPT ![r] = "PENDING"],
             \A q \in Transfers : q # r => parties'[q] = parties[q],
             r \in Transfers => parties'[r] \in Parties,
             UNCHANGED <<owner, assigned>>
      PROVE  RowsInv' /\ TitleFollowsTransfers'
  <2>1. \A q \in Requests : q # r => status'[q] = status[q]
    BY <1>3 DEF TitleInv, ApprovalsInv, TypeOK
  <2>2. status'[r] = "PENDING"
    BY <1>3 DEF TitleInv, ApprovalsInv, TypeOK
  <2>3. Owned' /\ HasParties'
    BY <1>3, <2>1, <2>2 DEF TitleInv, RowsInv, Owned, HasParties, Requests
  <2>4. \A a \in Admins : stage[a] = "write" => work[a].on # r
    BY <1>3 DEF TitleInv, ApprovalsInv, Holding, InTransaction
  <2>5. HoldsOne' /\ HeldApart'
    BY <1>1, <1>3, <2>4
       DEF TitleInv, RowsInv, HoldsOne, HeldApart, Transferring, Seller, locals
  <2>6. TitleFollowsTransfers'
    BY <1>3, <2>1, <2>2, TitleUntouched DEF TitleInv, Requests
  <2>7. QED
    BY <2>3, <2>5, <2>6 DEF RowsInv
<1>4. ASSUME NEW r \in Transfers, NEW p \in Parties, fileTransfer(r, p)
      PROVE  RowsInv' /\ TitleFollowsTransfers'
  <2>1. parties \in [Transfers -> Parties \cup {NoParties}]
    BY DEF TitleInv, ApprovalsInv, TypeOK
  <2>2. QED
    BY <1>3, <1>4, <2>1 DEF fileTransfer, history, Requests
<1>5. ASSUME NEW r \in Vouchers, createVoucher(r)
      PROVE  RowsInv' /\ TitleFollowsTransfers'
  BY <1>3, <1>5, ApprovalsAssumption DEF createVoucher, history, Requests
<1>6. QED
  BY <1>2, <1>4, <1>5 DEF Filing

\* A decision that begins holds no row.
LEMMA ClaimKeepsTitle ==
  ASSUME TitleInv,
         NEW a \in Admins, NEW r \in Requests, NEW outcome \in Decisions,
         NEW k \in Codes \cup {NoCode}, Claim(a, r, outcome, k)
  PROVE  RowsInv' /\ TitleFollowsTransfers'
<1>1. /\ stage[a] = "idle"
      /\ work' = [work EXCEPT ![a] = [on |-> r, outcome |-> outcome, code |-> k]]
      /\ stage' = [stage EXCEPT ![a] =
           IF r \in Transfers /\ outcome = "APPROVED" THEN "pick" ELSE "write"]
      /\ UNCHANGED <<tables, rows, history>>
  BY DEF Claim, Start
<1>2. /\ work'[a].on = r /\ work'[a].outcome = outcome
      /\ stage'[a] = "pick" => outcome = "APPROVED"
      /\ stage'[a] = "write" => ~ (r \in Transfers /\ outcome = "APPROVED")
      /\ stage'[a] \in {"pick", "write"}
      /\ \A b \in Admins \ {a} : stage'[b] = stage[b] /\ work'[b] = work[b]
  BY <1>1 DEF TitleInv, ApprovalsInv, TypeOK
<1>3. rows[a] = {}
  BY <1>1 DEF TitleInv, ApprovalsInv, Picking, InTransaction
<1>4. Owned' /\ HasParties'
  BY <1>1 DEF TitleInv, RowsInv, Owned, HasParties, tables, history
<1>5. HoldsOne'
  <2>1. ASSUME NEW b \in Admins
        PROVE  /\ stage'[b] \in {"pick", "move"} => work'[b].outcome = "APPROVED"
               /\ stage'[b] = "write" /\ Transferring(b)' =>
                    \E o \in Ownerships : rows'[b] = {o} /\ owner'[o] = Seller(b)'
               /\ stage'[b] = "write" /\ ~ Transferring(b)' => rows'[b] = {}
    <3>1. CASE b = a
      BY <1>1, <1>2, <1>3, <3>1 DEF Transferring
    <3>2. CASE b # a
      BY <1>1, <1>2, <3>2
         DEF TitleInv, RowsInv, HoldsOne, Transferring, Seller, tables
    <3>3. QED
      BY <3>1, <3>2
  <2>2. QED
    BY <2>1 DEF HoldsOne
<1>6. HeldApart'
  BY <1>1, <1>2, <1>3 DEF TitleInv, RowsInv, HeldApart
<1>7. TitleFollowsTransfers'
  BY <1>1, TitleUntouched DEF TitleInv, tables, history
<1>8. QED
  BY <1>4, <1>5, <1>6, <1>7 DEF RowsInv

\* Picking rows changes none of them.
LEMMA PickKeepsTitle ==
  ASSUME TitleInv, NEW a \in Admins, PickRows(a)
  PROVE  RowsInv' /\ TitleFollowsTransfers'
<1>1. /\ stage[a] = "pick" /\ stage'[a] = "move"
      /\ \A b \in Admins \ {a} : stage'[b] = stage[b] /\ rows'[b] = rows[b]
      /\ UNCHANGED <<tables, work, history>>
  BY DEF PickRows, TitleInv, ApprovalsInv, TypeOK
<1>2. Owned' /\ HasParties'
  BY <1>1 DEF TitleInv, RowsInv, Owned, HasParties, tables, history
<1>3. HoldsOne' /\ HeldApart'
  BY <1>1 DEF TitleInv, RowsInv, HoldsOne, HeldApart, Transferring, Seller, tables
<1>4. TitleFollowsTransfers'
  BY <1>1, TitleUntouched DEF TitleInv, tables, history
<1>5. QED
  BY <1>2, <1>3, <1>4 DEF RowsInv

\* An approval takes the one row that is the seller's still, and that no other
\* approval holds.
LEMMA MoveKeepsTitle ==
  ASSUME TitleInv, NEW a \in Admins, MoveRows(a)
  PROVE  RowsInv' /\ TitleFollowsTransfers'
<1>1. /\ stage[a] = "move" /\ stage' = [stage EXCEPT ![a] = "write"]
      /\ rows[a] \cap LockedByOther(a) = {}
      /\ rows' = [rows EXCEPT ![a] = @ \cap RowsOf(Seller(a))]
      /\ Cardinality(rows'[a]) = 1
      /\ UNCHANGED <<tables, work, history>>
  BY DEF MoveRows
<1>2. /\ stage'[a] = "write" /\ rows'[a] = rows[a] \cap RowsOf(Seller(a))
      /\ \A b \in Admins \ {a} : stage'[b] = stage[b] /\ rows'[b] = rows[b]
  BY <1>1 DEF TitleInv, ApprovalsInv, TypeOK
<1>3. Owned' /\ HasParties'
  BY <1>1 DEF TitleInv, RowsInv, Owned, HasParties, tables, history
<1>4. \E o \in Ownerships : rows'[a] = {o} /\ owner[o] = Seller(a)
  <2>1. IsFiniteSet(rows'[a]) /\ rows'[a] \subseteq RowsOf(Seller(a))
    BY <1>2, RowsFinite, FS_Subset
  <2>2. PICK o : rows'[a] = {o}
    BY <1>1, <2>1, FS_Singleton
  <2>3. QED
    BY <2>1, <2>2 DEF RowsOf
<1>5. Transferring(a)
  BY <1>1 DEF TitleInv, RowsInv, HoldsOne, ApprovalsInv, Picking, Transferring
<1>6. HoldsOne'
  <2>1. \A b \in Admins : Transferring(b)' = Transferring(b) /\ Seller(b)' = Seller(b)
    BY <1>1 DEF Transferring, Seller, tables
  <2>2. ASSUME NEW b \in Admins
        PROVE  /\ stage'[b] \in {"pick", "move"} => work'[b].outcome = "APPROVED"
               /\ stage'[b] = "write" /\ Transferring(b)' =>
                    \E o \in Ownerships : rows'[b] = {o} /\ owner'[o] = Seller(b)'
               /\ stage'[b] = "write" /\ ~ Transferring(b)' => rows'[b] = {}
    <3>1. CASE b = a
      BY <1>1, <1>2, <1>4, <1>5, <2>1, <3>1 DEF tables
    <3>2. CASE b # a
      BY <1>1, <1>2, <2>1, <3>2 DEF TitleInv, RowsInv, HoldsOne, tables
    <3>3. QED
      BY <3>1, <3>2
  <2>3. QED
    BY <2>2 DEF HoldsOne
<1>7. HeldApart'
  <2>1. ASSUME NEW b \in Admins, b # a, stage[b] = "write"
        PROVE  rows'[a] \cap rows'[b] = {}
    <3>1. rows[b] \subseteq LockedByOther(a)
      BY <2>1 DEF LockedByOther
    <3>2. QED
      BY <1>1, <1>2, <2>1, <3>1
  <2>2. QED
    BY <1>2, <2>1 DEF TitleInv, RowsInv, HeldApart
<1>8. TitleFollowsTransfers'
  BY <1>1, TitleUntouched DEF TitleInv, tables, history
<1>9. QED
  BY <1>3, <1>6, <1>7, <1>8 DEF RowsInv

\* The end of a decision lets its rows go.
LEMMA EndKeepsTitle ==
  ASSUME TitleInv, NEW a \in Admins, Rollback(a) \/ Tell(a) \/ TellLost(a)
  PROVE  RowsInv' /\ TitleFollowsTransfers'
<1>1. End(a) /\ UNCHANGED <<tables, assigned>>
  BY DEF Rollback, Tell, TellLost, history
<1>2. /\ stage'[a] = "idle"
      /\ \A b \in Admins \ {a} : /\ stage'[b] = stage[b] /\ rows'[b] = rows[b]
                                /\ work'[b] = work[b]
  BY <1>1 DEF End, TitleInv, ApprovalsInv, TypeOK
<1>3. Owned' /\ HasParties'
  BY <1>1 DEF TitleInv, RowsInv, Owned, HasParties, tables
<1>4. HoldsOne' /\ HeldApart'
  BY <1>1, <1>2
     DEF TitleInv, RowsInv, HoldsOne, HeldApart, Transferring, Seller, tables
<1>5. TitleFollowsTransfers'
  BY <1>1, TitleUntouched DEF TitleInv, tables
<1>6. QED
  BY <1>3, <1>4, <1>5 DEF RowsInv

\* Only the rows that the decision holds change owner, and they are not those of
\* another decision.
LEMMA CommitKeepsRows ==
  ASSUME TitleInv, NEW a \in Admins, Commit(a)
  PROVE  RowsInv'
<1>1. /\ stage[a] = "write" /\ stage' = [stage EXCEPT ![a] = "tell"]
      /\ rows' = [rows EXCEPT ![a] = {}]
      /\ status' = [status EXCEPT ![work[a].on] = work[a].outcome]
      /\ owner' = [o \in Ownerships |-> IF o \in rows[a] THEN Buyer(a) ELSE owner[o]]
      /\ UNCHANGED <<parties, work, history>>
  BY DEF Commit
<1>2. /\ stage'[a] = "tell"
      /\ \A b \in Admins \ {a} : stage'[b] = stage[b] /\ rows'[b] = rows[b]
  BY <1>1 DEF TitleInv, ApprovalsInv, TypeOK
<1>3. InTransaction(a) /\ status[work[a].on] = "PENDING" /\ work[a].on \in Requests
  BY <1>1 DEF TitleInv, ApprovalsInv, Holding, InTransaction, Working
<1>4. HasParties'
  BY <1>1, <1>3 DEF TitleInv, RowsInv, HasParties, ApprovalsInv, TypeOK, Requests
<1>5. ASSUME NEW o \in rows[a]
      PROVE  o \in Ownerships /\ owner[o] \in Users /\ Buyer(a) \in Users
  <2>1. work[a].on \in Transfers /\ Transferring(a)
    BY <1>1 DEF TitleInv, RowsInv, HoldsOne, Transferring
  <2>2. parties[work[a].on] \in Parties
    BY <1>3, <2>1 DEF TitleInv, RowsInv, HasParties
  <2>3. Seller(a) \in Users /\ Buyer(a) \in Users
    BY <2>2 DEF Seller, Buyer, Parties
  <2>4. PICK p \in Ownerships : rows[a] = {p} /\ owner[p] = Seller(a)
    BY <1>1, <2>1 DEF TitleInv, RowsInv, HoldsOne
  <2>5. QED
    BY <2>3, <2>4
<1>6. Owned'
  BY <1>1, <1>5, ApprovalsAssumption DEF TitleInv, RowsInv, Owned, history
<1>7. HoldsOne'
  <2>1. \A b \in Admins : Transferring(b)' = Transferring(b) /\ Seller(b)' = Seller(b)
    BY <1>1 DEF Transferring, Seller
  <2>2. ASSUME NEW b \in Admins
        PROVE  /\ stage'[b] \in {"pick", "move"} => work'[b].outcome = "APPROVED"
               /\ stage'[b] = "write" /\ Transferring(b)' =>
                    \E o \in Ownerships : rows'[b] = {o} /\ owner'[o] = Seller(b)'
               /\ stage'[b] = "write" /\ ~ Transferring(b)' => rows'[b] = {}
    <3>1. CASE b = a
      BY <1>2, <3>1
    <3>2. CASE b # a
      <4>1. ASSUME stage[b] = "write", NEW o \in Ownerships, o \in rows[b]
            PROVE  owner'[o] = owner[o]
        BY <1>1, <3>2, <4>1 DEF TitleInv, RowsInv, HeldApart
      <4>2. QED
        BY <1>1, <1>2, <2>1, <3>2, <4>1 DEF TitleInv, RowsInv, HoldsOne
    <3>3. QED
      BY <3>1, <3>2
  <2>3. QED
    BY <2>2 DEF HoldsOne
<1>8. HeldApart'
  BY <1>2 DEF TitleInv, RowsInv, HeldApart
<1>9. QED
  BY <1>4, <1>6, <1>7, <1>8 DEF RowsInv

\* The commit of an approved transfer takes one row from the seller and gives it
\* to the buyer, and counts as sold by the one and bought by the other.
LEMMA CommitKeepsTitle ==
  ASSUME TitleInv, NEW a \in Admins, Commit(a)
  PROVE  TitleFollowsTransfers'
<1>1. /\ stage[a] = "write"
      /\ status' = [status EXCEPT ![work[a].on] = work[a].outcome]
      /\ owner' = [o \in Ownerships |-> IF o \in rows[a] THEN Buyer(a) ELSE owner[o]]
      /\ parties' = parties /\ assigned' = assigned
  BY DEF Commit, history
<1>2. /\ status[work[a].on] = "PENDING" /\ work[a].on \in Requests
      /\ owner \in [Ownerships -> Users \cup {NoUser}]
      /\ status \in [Requests -> {"none", "PENDING"} \cup Decisions]
  BY <1>1 DEF TitleInv, ApprovalsInv, Holding, InTransaction, Working, TypeOK
<1>3. CASE ~ Transferring(a)
  <2>1. rows[a] = {}
    BY <1>1, <1>3 DEF TitleInv, RowsInv, HoldsOne
  <2>2. owner' = owner
    BY <1>1, <1>2, <2>1
  <2>3. \A r \in Transfers : \/ status'[r] = status[r]
                             \/ status[r] # "APPROVED" /\ status'[r] # "APPROVED"
    BY <1>1, <1>2, <1>3 DEF Transferring, Requests
  <2>4. QED
    BY <1>1, <2>2, <2>3, TitleUntouched DEF TitleInv
<1>4. CASE Transferring(a)
  <2>1. PICK r \in Transfers : r = work[a].on
    BY <1>4 DEF Transferring
  <2>2. PICK o \in Ownerships : rows[a] = {o} /\ owner[o] = Seller(a)
    BY <1>1, <1>4 DEF TitleInv, RowsInv, HoldsOne
  <2>3. PICK s, b : s = Seller(a) /\ b = Buyer(a)
    OBVIOUS
  <2>4. parties[r].from = s /\ parties[r].to = b
    BY <2>1, <2>3 DEF Seller, Buyer
  <2>5. status' = [status EXCEPT ![r] = "APPROVED"] /\ status[r] = "PENDING"
    BY <1>1, <1>2, <1>4, <2>1 DEF Transferring
  <2>6. owner' = [owner EXCEPT ![o] = b] /\ owner[o] = s
    BY <1>1, <1>2, <2>2, <2>3
  <2>7. ASSUME NEW u \in Users
        PROVE  Cardinality(RowsOf(u)') + Cardinality(Sold(u)')
                 = Cardinality({p \in Ownerships : assigned[p] = u})
                     + Cardinality(Bought(u)')
    <3> DEFINE Given == {p \in Ownerships : assigned[p] = u}
    <3>0. /\ IsFiniteSet(Sold(u)) /\ IsFiniteSet(Bought(u)) /\ IsFiniteSet(RowsOf(u))
          /\ Cardinality(Sold(u)) \in Nat /\ Cardinality(Bought(u)) \in Nat
          /\ Cardinality(RowsOf(u)) \in Nat /\ Cardinality(Given) \in Nat
      BY RowsFinite
    <3>1. Cardinality(Sold(u)') = Cardinality(Sold(u)) + (IF u = s THEN 1 ELSE 0)
      <4>1. r \notin Sold(u)
        BY <2>5 DEF Sold
      <4>2. Sold(u)' = IF u = s THEN Sold(u) \cup {r} ELSE Sold(u)
        BY <1>1, <1>2, <2>4, <2>5 DEF Sold, Requests
      <4>3. Cardinality(Sold(u) \cup {r}) = Cardinality(Sold(u)) + 1
        BY <3>0, <4>1, FS_AddElement
      <4>4. CASE u = s
        BY <4>2, <4>3, <4>4
      <4>5. CASE u # s
        BY <3>0, <4>2, <4>5
      <4>6. QED
        BY <4>4, <4>5
    <3>2. Cardinality(Bought(u)') = Cardinality(Bought(u)) + (IF u = b THEN 1 ELSE 0)
      <4>1. r \notin Bought(u)
        BY <2>5 DEF Bought
      <4>2. Bought(u)' = IF u = b THEN Bought(u) \cup {r} ELSE Bought(u)
        BY <1>1, <1>2, <2>4, <2>5 DEF Bought, Requests
      <4>3. Cardinality(Bought(u) \cup {r}) = Cardinality(Bought(u)) + 1
        BY <3>0, <4>1, FS_AddElement
      <4>4. CASE u = b
        BY <4>2, <4>3, <4>4
      <4>5. CASE u # b
        BY <3>0, <4>2, <4>5
      <4>6. QED
        BY <4>4, <4>5
    <3>3. /\ Cardinality(RowsOf(u)') \in Int
          /\ Cardinality(RowsOf(u)') + (IF u = s THEN 1 ELSE 0)
               = Cardinality(RowsOf(u)) + (IF u = b THEN 1 ELSE 0)
      <4>1. CASE u = s /\ u = b
        <5>1. RowsOf(u)' = RowsOf(u)
          BY <1>2, <2>6, <4>1 DEF RowsOf
        <5>2. QED
          BY <3>0, <4>1, <5>1
      <4>2. CASE u = s /\ u # b
        <5>1. RowsOf(u)' = RowsOf(u) \ {o} /\ o \in RowsOf(u)
          BY <1>2, <2>6, <4>2 DEF RowsOf
        <5>2. Cardinality(RowsOf(u)') = Cardinality(RowsOf(u)) - 1
          BY <3>0, <5>1, FS_RemoveElement
        <5>3. QED
          BY <3>0, <4>2, <5>2
      <4>3. CASE u # s /\ u = b
        <5>1. RowsOf(u)' = RowsOf(u) \cup {o} /\ o \notin RowsOf(u)
          BY <1>2, <2>6, <4>3 DEF RowsOf
        <5>2. Cardinality(RowsOf(u)') = Cardinality(RowsOf(u)) + 1
          BY <3>0, <5>1, FS_AddElement
        <5>3. QED
          BY <3>0, <4>3, <5>2
      <4>4. CASE u # s /\ u # b
        <5>1. RowsOf(u)' = RowsOf(u)
          BY <1>2, <2>6, <4>4 DEF RowsOf
        <5>2. QED
          BY <3>0, <4>4, <5>1
      <4>5. QED
        BY <4>1, <4>2, <4>3, <4>4
    <3>4. QED
      <4>1. Cardinality(RowsOf(u)) + Cardinality(Sold(u))
              = Cardinality(Given) + Cardinality(Bought(u))
        BY DEF TitleInv, TitleFollowsTransfers
      <4> HIDE DEF Given
      <4>2. Cardinality(RowsOf(u)') + Cardinality(Sold(u)')
              = Cardinality(Given) + Cardinality(Bought(u)')
        BY <3>0, <3>1, <3>2, <3>3, <4>1
      <4>3. QED
        BY <4>2 DEF Given
  <2>8. QED
    BY <1>1, <2>7 DEF TitleFollowsTransfers
<1>5. QED
  BY <1>3, <1>4

\* The title follows the approved transfers, however many approvals of however
\* many transfers of one seller run side by side.
THEOREM ApprovalsMoveOneTitle == Spec => []TitleFollowsTransfers
<1>1. Init => RowsInv /\ TitleFollowsTransfers
  BY TitleInitial
<1>2. TitleInv /\ [Next]_vars => RowsInv' /\ TitleFollowsTransfers'
  <2> SUFFICES ASSUME TitleInv, [Next]_vars PROVE RowsInv' /\ TitleFollowsTransfers'
    OBVIOUS
  <2>1. CASE UNCHANGED vars
    <3>1. UNCHANGED <<tables, locals, history>>
      BY <2>1 DEF vars
    <3>2. RowsInv'
      BY <3>1 DEF TitleInv, RowsInv, Owned, HasParties, HoldsOne, HeldApart,
         Transferring, Seller, tables, locals, history
    <3>3. TitleFollowsTransfers'
      BY <3>1, TitleUntouched DEF TitleInv, tables, history
    <3>4. QED
      BY <3>2, <3>3
  <2>2. CASE Filing
    BY <2>2, FilingKeepsTitle
  <2>3. ASSUME NEW a \in Admins, Deciding(a)
        PROVE  RowsInv' /\ TitleFollowsTransfers'
    <3>1. CASE \E r \in Transfers : approveTransfer(a, r)
      BY <3>1, ClaimKeepsTitle DEF approveTransfer, Requests, Decisions
    <3>2. CASE \E r \in Vouchers, k \in Codes : approveVoucher(a, r, k)
      BY <3>2, ClaimKeepsTitle DEF approveVoucher, Requests, Decisions
    <3>3. CASE \E r \in Requests : decline(a, r)
      BY <3>3, ClaimKeepsTitle DEF decline, Decisions
    <3>4. CASE PickRows(a)
      BY <3>4, PickKeepsTitle
    <3>5. CASE MoveRows(a)
      BY <3>5, MoveKeepsTitle
    <3>6. CASE Commit(a)
      BY <3>6, CommitKeepsRows, CommitKeepsTitle
    <3>7. CASE Rollback(a) \/ Tell(a) \/ TellLost(a)
      BY <3>7, EndKeepsTitle
    <3>8. QED
      BY <2>3, <3>1, <3>2, <3>3, <3>4, <3>5, <3>6, <3>7 DEF Deciding
  <2>4. QED
    BY <2>1, <2>2, <2>3 DEF Next
<1>3. QED
  BY <1>1, <1>2, ApprovalsInvariant, PTL DEF Spec, TitleInv
=============================================================================
