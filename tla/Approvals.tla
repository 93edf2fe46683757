----------------------------- MODULE Approvals -----------------------------
(***************************************************************************)
(* Requests that an administrator decides in one transaction: transfers of *)
(* a property (src/routes/admin/property-transfers.ts) and vouchers        *)
(* (src/routes/admin/vouchers.ts and voucher-requests.ts).                 *)
(*                                                                         *)
(* A decision claims its request with a conditional update, which locks    *)
(* the row until the transaction ends.  The approval of a transfer then    *)
(* updates the ownership rows of the seller: the update picks the rows it  *)
(* sees, waits for those that another approval has changed, and looks at   *)
(* their owner again.  What was decided is told after the commit.          *)
(***************************************************************************)
EXTENDS Naturals, FiniteSets

CONSTANTS Admins,      \* decisions that may be in progress at a time
          Users,
          Transfers,   \* ids of property transfer requests
          Vouchers,    \* ids of voucher requests
          Ownerships,  \* ids of ownership rows, all of one property
          Codes,       \* voucher codes that may be drawn
          NoUser, NoRequest, NoCode

Requests == Transfers \cup Vouchers
Decisions == {"APPROVED", "DECLINED"}
NoParties == [from |-> NoUser, to |-> NoUser]
Parties == [from : Users, to : Users]
Working == [on : Requests, outcome : Decisions, code : Codes \cup {NoCode}]
Idle == [on |-> NoRequest, outcome |-> "DECLINED", code |-> NoCode]

ASSUME ApprovalsAssumption ==
  /\ NoUser \notin Users /\ NoRequest \notin Requests /\ NoCode \notin Codes
  /\ Transfers \cap Vouchers = {}
  /\ IsFiniteSet(Transfers) /\ IsFiniteSet(Ownerships)

VARIABLES status,    \* per request; "none" before it is there
          parties,   \* the seller and the buyer of each transfer
          code,      \* VoucherRequest.voucherCode
          owner,     \* PropertyOwnership.userId; NoUser before the row is there
          stage,     \* where each decision is
          work,      \* the request it holds, and what it decides
          rows,      \* the ownership rows it has picked, then the ones it holds
          assigned,  \* history: the first owner of each ownership row
          told       \* history: the decisions that somebody was told

tables == <<status, parties, code, owner>>
locals == <<stage, work, rows>>
history == <<assigned, told>>
vars == <<tables, locals, history>>

TypeOK ==
  /\ status \in [Requests -> {"none", "PENDING"} \cup Decisions]
  /\ parties \in [Transfers -> Parties \cup {NoParties}]
  /\ code \in [Vouchers -> Codes \cup {NoCode}]
  /\ owner \in [Ownerships -> Users \cup {NoUser}]
  /\ stage \in [Admins -> {"idle", "pick", "move", "write", "tell"}]
  /\ work \in [Admins -> Working \cup {Idle}]
  /\ rows \in [Admins -> SUBSET Ownerships]

Init ==
  /\ status = [r \in Requests |-> "none"]
  /\ parties = [r \in Transfers |-> NoParties]
  /\ code = [r \in Vouchers |-> NoCode]
  /\ owner = [o \in Ownerships |-> NoUser]
  /\ stage = [a \in Admins |-> "idle"]
  /\ work = [a \in Admins |-> Idle]
  /\ rows = [a \in Admins |-> {}]
  /\ assigned = owner
  /\ told = {}

-----------------------------------------------------------------------------
(* Filing *)

\* POST /properties/:propertyId/owner adds a row, also to an owner who has one.
assignOwner(o, u) ==
  /\ owner[o] = NoUser
  /\ owner' = [owner EXCEPT ![o] = u]
  /\ assigned' = [assigned EXCEPT ![o] = u]
  /\ UNCHANGED <<status, parties, code, locals, told>>

\* Transfer requests are filed outside of this backend.
fileTransfer(r, p) ==
  /\ status[r] = "none"
  /\ status' = [status EXCEPT ![r] = "PENDING"]
  /\ parties' = [parties EXCEPT ![r] = p]
  /\ UNCHANGED <<code, owner, locals, history>>

createVoucher(r) ==
  /\ status[r] = "none"
  /\ status' = [status EXCEPT ![r] = "PENDING"]
  /\ UNCHANGED <<parties, code, owner, locals, history>>

-----------------------------------------------------------------------------
(* Deciding *)

\* A transaction holds its request from the claim to its end.
InTransaction(a) == stage[a] \in {"pick", "move", "write"}
Claimed(r) == \E a \in Admins : InTransaction(a) /\ work[a].on = r

Start(a, r, outcome, k) ==
  /\ stage[a] = "idle"
  /\ ~ Claimed(r)
  /\ work' = [work EXCEPT ![a] = [on |-> r, outcome |-> outcome, code |-> k]]
  /\ stage' = [stage EXCEPT ![a] =
                 IF r \in Transfers /\ outcome = "APPROVED" THEN "pick" ELSE "write"]
  /\ UNCHANGED <<tables, rows, history>>

\* Fault: the update is by id alone.
Claim_AnyStatus(a, r, outcome, k) ==
  status[r] # "none" /\ Start(a, r, outcome, k)

\* updateMany where status = PENDING waits for the row; when it changes no row,
\* "Request already processed" and nothing else happens.
Claim(a, r, outcome, k) ==
  status[r] = "PENDING" /\ Start(a, r, outcome, k)

approveTransfer(a, r) == Claim(a, r, "APPROVED", NoCode)
approveVoucher(a, r, k) == Claim(a, r, "APPROVED", k)
decline(a, r) == Claim(a, r, "DECLINED", NoCode)

Seller(a) == parties[work[a].on].from
Buyer(a) == parties[work[a].on].to
RowsOf(u) == {o \in Ownerships : owner[o] = u}

\* The update of the ownership starts: it sees the rows of the seller ...
PickRows(a) ==
  /\ stage[a] = "pick"
  /\ rows' = [rows EXCEPT ![a] = RowsOf(Seller(a))]
  /\ stage' = [stage EXCEPT ![a] = "move"]
  /\ UNCHANGED <<tables, work, history>>

\* Rows that the transaction has changed are locked until it ends.
LockedByOther(a) ==
  UNION {rows[b] : b \in {b \in Admins \ {a} : stage[b] = "write"}}

\* Fault: the rows are updated by the ids they had when they were read.
MoveRows_Stale(a) ==
  /\ stage[a] = "move"
  /\ rows[a] \cap LockedByOther(a) = {}
  /\ Cardinality(rows[a]) = 1
  /\ stage' = [stage EXCEPT ![a] = "write"]
  /\ UNCHANGED <<tables, work, rows, history>>

\* ... and, once nobody else holds them, changes those that still are his.  The
\* transaction goes on if that is exactly one.
MoveRows(a) ==
  /\ stage[a] = "move"
  /\ rows[a] \cap LockedByOther(a) = {}
  /\ rows' = [rows EXCEPT ![a] = @ \cap RowsOf(Seller(a))]
  /\ Cardinality(rows'[a]) = 1
  /\ stage' = [stage EXCEPT ![a] = "write"]
  /\ UNCHANGED <<tables, work, history>>

End(a) ==
  /\ stage' = [stage EXCEPT ![a] = "idle"]
  /\ work' = [work EXCEPT ![a] = Idle]
  /\ rows' = [rows EXCEPT ![a] = {}]

\* "Property ownership could not be transferred", a query that fails, the
\* timeout or the end of the process.
Rollback(a) ==
  /\ InTransaction(a)
  /\ End(a)
  /\ UNCHANGED <<tables, history>>

\* The request, the voucher's code and the ownership become visible at once.
Commit(a) ==
  LET r == work[a].on IN
  /\ stage[a] = "write"
  /\ status' = [status EXCEPT ![r] = work[a].outcome]
  /\ code' = IF r \in Vouchers THEN [code EXCEPT ![r] = work[a].code] ELSE code
  /\ owner' = [o \in Ownerships |-> IF o \in rows[a] THEN Buyer(a) ELSE owner[o]]
  /\ stage' = [stage EXCEPT ![a] = "tell"]
  /\ rows' = [rows EXCEPT ![a] = {}]
  /\ UNCHANGED <<parties, work, history>>

\* Fault: the message goes out from within the transaction.
Tell_Early(a) ==
  /\ stage[a] \in {"write", "tell"}
  /\ told' = told \cup {work[a]}
  /\ IF stage[a] = "tell" THEN End(a) ELSE UNCHANGED locals
  /\ UNCHANGED <<tables, assigned>>

\* Notifications and emails, whose errors are swallowed; the voucher's code is
\* the one drawn before the transaction.
Tell(a) ==
  /\ stage[a] = "tell"
  /\ told' = told \cup {work[a]}
  /\ End(a)
  /\ UNCHANGED <<tables, assigned>>

\* The process ends, or a message fails: the decision stays, and nobody is told.
TellLost(a) ==
  /\ stage[a] = "tell"
  /\ End(a)
  /\ UNCHANGED <<tables, history>>

-----------------------------------------------------------------------------

Filing ==
  \/ \E o \in Ownerships, u \in Users : assignOwner(o, u)
  \/ \E r \in Transfers, p \in Parties : fileTransfer(r, p)
  \/ \E r \in Vouchers : createVoucher(r)

Deciding(a) ==
  \/ \E r \in Transfers : approveTransfer(a, r)
  \/ \E r \in Vouchers, k \in Codes : approveVoucher(a, r, k)
  \/ \E r \in Requests : decline(a, r)
  \/ PickRows(a) \/ MoveRows(a) \/ Rollback(a) \/ Commit(a)
  \/ Tell(a) \/ TellLost(a)

Next == Filing \/ \E a \in Admins : Deciding(a)

Spec == Init /\ [][Next]_vars

-----------------------------------------------------------------------------
(* Properties *)

Sold(u) == {r \in Transfers : status[r] = "APPROVED" /\ parties[r].from = u}
Bought(u) == {r \in Transfers : status[r] = "APPROVED" /\ parties[r].to = u}

\* The title follows the decisions: a user owns what was assigned to him, more
\* by each approved transfer to him and less by each one from him.  So two
\* approvals side by side never sell one ownership twice, and none is approved
\* without moving exactly one ("Property ownership could not be transferred").
TitleFollowsTransfers ==
  \A u \in Users :
    Cardinality(RowsOf(u)) + Cardinality(Sold(u)) =
      Cardinality({o \in Ownerships : assigned[o] = u}) + Cardinality(Bought(u))

\* A request is decided once, and a voucher keeps its code, whoever approves and
\* declines at the same time ("Request already processed").
DecidedOnce ==
  [][\A r \in Requests : status[r] \in Decisions =>
       /\ status'[r] = status[r]
       /\ r \in Vouchers => code'[r] = code[r]]_vars

\* Whoever is told of a decision is told the one that the row has, and of a
\* voucher the code that the row has: nothing is told of a decision that was
\* rolled back or lost to another one.
ToldAsDecided ==
  \A m \in told :
    /\ status[m.on] = m.outcome
    /\ m.on \in Vouchers => code[m.on] = m.code
=============================================================================
