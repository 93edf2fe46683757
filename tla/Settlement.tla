----------------------------- MODULE Settlement -----------------------------
(***************************************************************************)
(* src/lib/ledger/settlements.ts and the settlement routes: a resident     *)
(* asks for credits to be cashed out, an administrator approves, declines  *)
(* or executes, and the execution burns the credits with transferCredits   *)
(* in the transaction that marks the row SETTLED.                          *)
(*                                                                         *)
(* Each handler is a sequence of awaits of one client of Ledger.  approve, *)
(* decline and cancel read the row and then update it by id alone; execute *)
(* claims it with a conditional update, which locks the row until the      *)
(* transaction ends.  status is what has been committed: the SETTLED of a  *)
(* running execution is visible to nobody else and is rowLock here.        *)
(***************************************************************************)
EXTENDS Ledger

CONSTANTS Admins,       \* clients that serve requests of administrators
          Residents,    \* clients that serve requests of residents
          Settlements,  \* ids of the settlement requests that may be filed
          Owner,        \* the resident of each settlement
          Amount,       \* the amount of each settlement
          Roles,        \* roles that the users may be given
          NoSettlement, \* no settlement
          NoClient      \* no client

settlementTypeForRole(role) ==
  CASE role = "VENDOR" -> "VENDOR_SETTLEMENT"
    [] role = "VISITOR" -> "VISITOR_SETTLEMENT"
    [] OTHER -> "RESIDENT_SETTLEMENT"

\* Filing requires the role RESIDENT, which an administrator may change before
\* the settlement is executed (routes/admin/accounts.ts).
SettlementTypes == {settlementTypeForRole(role) : role \in Roles}

PayoutRequest(s, type) ==
  [from |-> Owner[s], to |-> "settlement_burn", amount |-> Amount[s],
   type |-> type, bonus |-> 0]

Payouts(s) == {PayoutRequest(s, type) : type \in SettlementTypes}

ASSUME SettlementAssumption ==
  /\ IsFiniteSet(Settlements)
  /\ Admins \subseteq Clients
  /\ Residents \subseteq Clients
  /\ Owner \in [Settlements -> Users]
  /\ Amount \in [Settlements -> Nat]
  /\ "RESIDENT" \in Roles
  /\ NoSettlement \notin Settlements
  /\ NoClient \notin Clients
  /\ \A s \in Settlements : Payouts(s) \subseteq Requests

VARIABLES status,        \* SettlementRequest.status, "none" before creation
          transactionId, \* whether SettlementRequest.transactionId is set
          rowLock,       \* the client whose transaction has claimed the row
          step,          \* the next step of the handler each client runs
          subject,       \* the settlement it works on
          approvals,     \* history: how often each settlement was approved
          payouts        \* history: how often each settlement was paid out

rowVars == <<status, transactionId, rowLock, approvals, payouts>>
handlerVars == <<step, subject>>
settlementVars == <<status, transactionId, rowLock, step, subject,
                    approvals, payouts>>
vars == <<ledgerVars, settlementVars>>

Statuses == {"none", "PENDING_APPROVAL", "APPROVED", "DECLINED", "SETTLED",
             "CANCELLED"}

\* The steps before which a handler has only read.
ReadOnlySteps == {"create", "approve", "decline", "cancel", "claim"}

\* The steps of an execution that has claimed its row.
ClaimedSteps == {"pay", "transfer"}

SettlementTypeOK ==
  /\ status \in [Settlements -> Statuses]
  /\ transactionId \in [Settlements -> BOOLEAN]
  /\ rowLock \in [Settlements -> Clients \cup {NoClient}]
  /\ step \in [Clients -> {"idle"} \cup ReadOnlySteps \cup ClaimedSteps]
  /\ subject \in [Clients -> Settlements \cup {NoSettlement}]
  /\ approvals \in [Settlements -> Nat]
  /\ payouts \in [Settlements -> Nat]

SettlementInit ==
  /\ LedgerInit
  /\ status = [s \in Settlements |-> "none"]
  /\ transactionId = [s \in Settlements |-> FALSE]
  /\ rowLock = [s \in Settlements |-> NoClient]
  /\ step = [c \in Clients |-> "idle"]
  /\ subject = [c \in Clients |-> NoSettlement]
  /\ approvals = [s \in Settlements |-> 0]
  /\ payouts = [s \in Settlements |-> 0]

-----------------------------------------------------------------------------

\* A client takes up a request when it has finished the one before.
Free(c) == step[c] = "idle" /\ pc[c] = "idle"

\* The handler has read what it needs; its write is to come.
Proceed(c, next, s) ==
  /\ step' = [step EXCEPT ![c] = next]
  /\ subject' = [subject EXCEPT ![c] = s]

Finish(c) == Proceed(c, "idle", NoSettlement)

\* An update of a row waits until no other transaction has it locked.
Writable(s) == rowLock[s] = NoClient

-----------------------------------------------------------------------------
(* requestSettlement: POST /wallet/settlements *)

\* The balance is compared with the amount and not reserved.
RequestCheck(c, s) ==
  /\ Free(c)
  /\ status[s] = "none"
  /\ \A d \in Clients : subject[d] # s
  /\ Amount[s] > 0
  /\ Amount[s] <= bal[Owner[s]]
  /\ Proceed(c, "create", s)
  /\ UNCHANGED <<ledgerVars, rowVars>>

\* An insert: the id is new.
requestSettlement(c) ==
  /\ step[c] = "create"
  /\ status[subject[c]] = "none"
  /\ status' = [status EXCEPT ![subject[c]] = "PENDING_APPROVAL"]
  /\ Finish(c)
  /\ UNCHANGED <<ledgerVars, transactionId, rowLock, approvals, payouts>>

-----------------------------------------------------------------------------
(* approveSettlement, declineSettlement, POST /wallet/settlements/:id/cancel *)

\* The row is read and its status is checked ...
ReadPending(c, s, next) ==
  /\ Free(c)
  /\ status[s] = "PENDING_APPROVAL"
  /\ Proceed(c, next, s)
  /\ UNCHANGED <<ledgerVars, rowVars>>

ApproveCheck(c, s) == ReadPending(c, s, "approve")
DeclineCheck(c, s) == ReadPending(c, s, "decline")
CancelCheck(c, s) == ReadPending(c, s, "cancel")

\* ... and later updated whatever its status is by then.
WriteStatus(c, this, outcome) ==
  /\ step[c] = this
  /\ Writable(subject[c])
  /\ status' = [status EXCEPT ![subject[c]] = outcome]
  /\ Finish(c)
  /\ UNCHANGED <<ledgerVars, transactionId, rowLock, payouts>>

approveSettlement(c) ==
  /\ WriteStatus(c, "approve", "APPROVED")
  /\ approvals' = [approvals EXCEPT ![subject[c]] = @ + 1]

declineSettlement(c) ==
  WriteStatus(c, "decline", "DECLINED") /\ UNCHANGED approvals

cancelSettlement(c) ==
  WriteStatus(c, "cancel", "CANCELLED") /\ UNCHANGED approvals

-----------------------------------------------------------------------------
(* executeSettlement: POST /admin/settlements/:id/execute *)

\* The route always passes the idempotency key: a row that is SETTLED with its
\* transaction is answered from the row and nothing else happens.
ExecutePreRead(c, s) ==
  /\ Free(c)
  /\ status[s] # "none"
  /\ ~ (status[s] = "SETTLED" /\ transactionId[s])
  /\ Proceed(c, "claim", s)
  /\ UNCHANGED <<ledgerVars, rowVars>>

\* Fault: the update is by id alone.
ExecuteClaim_AnyStatus(c) ==
  /\ step[c] = "claim"
  /\ Writable(subject[c])
  /\ rowLock' = [rowLock EXCEPT ![subject[c]] = c]
  /\ Proceed(c, "pay", subject[c])
  /\ UNCHANGED <<ledgerVars, status, transactionId, approvals, payouts>>

\* Fault: the update is made on db, outside the transaction.
ExecuteClaim_Committed(c) ==
  /\ step[c] = "claim"
  /\ Writable(subject[c])
  /\ status[subject[c]] = "APPROVED"
  /\ status' = [status EXCEPT ![subject[c]] = "SETTLED"]
  /\ rowLock' = [rowLock EXCEPT ![subject[c]] = c]
  /\ Proceed(c, "pay", subject[c])
  /\ UNCHANGED <<ledgerVars, transactionId, approvals, payouts>>

\* updateMany where status = APPROVED: it waits for the row, and looks at the
\* status again when it gets it.
ExecuteClaim(c) ==
  /\ step[c] = "claim"
  /\ Writable(subject[c])
  /\ status[subject[c]] = "APPROVED"
  /\ rowLock' = [rowLock EXCEPT ![subject[c]] = c]
  /\ Proceed(c, "pay", subject[c])
  /\ UNCHANGED <<ledgerVars, status, transactionId, approvals, payouts>>

\* count = 0: answered from the row if it is SETTLED, else an error.
ExecuteRefused(c) ==
  /\ step[c] = "claim"
  /\ Writable(subject[c])
  /\ status[subject[c]] # "APPROVED"
  /\ Finish(c)
  /\ UNCHANGED <<ledgerVars, rowVars>>

\* The amount and the wallets do not change once the row is there; the role is
\* read now.
ExecuteTransfer(c) ==
  /\ step[c] = "pay"
  /\ \E type \in SettlementTypes :
       StartTransfer(c, PayoutRequest(subject[c], type))
  /\ Proceed(c, "transfer", subject[c])
  /\ UNCHANGED rowVars

Unlock(c) == rowLock' = [rowLock EXCEPT ![subject[c]] = NoClient]

\* One commit for the entries, the status and the id of the transaction.
ExecuteCommit(c) ==
  /\ step[c] = "transfer"
  /\ PostEntries(c)
  /\ status' = [status EXCEPT ![subject[c]] = "SETTLED"]
  /\ transactionId' = [transactionId EXCEPT ![subject[c]] = TRUE]
  /\ payouts' = [payouts EXCEPT ![subject[c]] = @ + 1]
  /\ Unlock(c)
  /\ Finish(c)
  /\ UNCHANGED approvals

\* Fault: the transfer commits in a transaction of its own, after which the
\* row may still be lost.
ExecuteAbort_AfterPosting(c) ==
  /\ step[c] = "transfer"
  /\ Reject(c) \/ Rollback(c) \/ PostEntries(c)
  /\ Unlock(c)
  /\ Finish(c)
  /\ UNCHANGED <<status, transactionId, approvals, payouts>>

\* The transfer throws or the connection is lost: the row is as it was.
ExecuteAbort(c) ==
  /\ step[c] = "transfer"
  /\ Reject(c) \/ Rollback(c)
  /\ Unlock(c)
  /\ Finish(c)
  /\ UNCHANGED <<status, transactionId, approvals, payouts>>

\* A query fails, a transaction times out or the process ends, before a write
\* or between the claim and the transfer.
HandlerLost(c) ==
  /\ step[c] \in ReadOnlySteps \cup {"pay"}
  /\ IF step[c] = "pay" THEN Unlock(c) ELSE UNCHANGED rowLock
  /\ Finish(c)
  /\ UNCHANGED <<ledgerVars, status, transactionId, approvals, payouts>>

-----------------------------------------------------------------------------

\* transferCredits up to its end, for an execution or for another caller.
TransferBegun(c) ==
  /\ ReadFees(c) \/ ReadWallets(c) \/ AcquireLock(c) \/ CheckFunds(c)
  /\ UNCHANGED settlementVars

\* Transfers of other callers.
OtherTransfer(c) ==
  /\ step[c] = "idle"
  /\ \/ \E r \in Requests :
          /\ \A s \in Settlements : r \notin Payouts(s)
          /\ StartTransfer(c, r)
     \/ Reject(c)
     \/ PostEntries(c)
     \/ Rollback(c)
  /\ UNCHANGED settlementVars

ResidentStep(c) ==
  \/ \E s \in Settlements : RequestCheck(c, s) \/ CancelCheck(c, s)
  \/ requestSettlement(c)
  \/ cancelSettlement(c)

AdminStep(c) ==
  \/ \E s \in Settlements :
       ApproveCheck(c, s) \/ DeclineCheck(c, s) \/ ExecutePreRead(c, s)
  \/ approveSettlement(c)
  \/ declineSettlement(c)
  \/ ExecuteClaim(c)
  \/ ExecuteRefused(c)
  \/ ExecuteTransfer(c)
  \/ ExecuteCommit(c)
  \/ ExecuteAbort(c)

SettlementNext ==
  \/ \E c \in Residents : ResidentStep(c)
  \/ \E c \in Admins : AdminStep(c)
  \/ \E c \in Clients : TransferBegun(c) \/ OtherTransfer(c) \/ HandlerLost(c)
  \/ Administration /\ UNCHANGED settlementVars

SettlementSpec == SettlementInit /\ [][SettlementNext]_vars

\* A write that waits for a row gets it when its turn in the queue comes; the
\* runtime continues a handler whose query has been answered.
WaitingWrite(c) ==
  \/ approveSettlement(c) \/ declineSettlement(c) \/ cancelSettlement(c)
  \/ ExecuteClaim(c) \/ ExecuteRefused(c)

FairSettlementSpec ==
  /\ SettlementSpec
  /\ \A c \in Clients :
       /\ TransferFairness(c)
       /\ SF_vars(WaitingWrite(c))
       /\ WF_vars(requestSettlement(c) \/ ExecuteTransfer(c))

-----------------------------------------------------------------------------
(* Properties *)

\* However many executions of a settlement run at a time, are repeated after
\* an error or after a crash, credits are burnt at most once for each approval
\* (the conditional update and the replay of executeSettlement).
PaidOncePerApproval == \A s \in Settlements : payouts[s] <= approvals[s]

\* A settlement is SETTLED only with its transaction, and has a transaction
\* exactly if credits were burnt for it: a transfer that fails after the claim
\* leaves no trace in the row (settledResultFromRequest throws otherwise).
SettledIsPaid ==
  \A s \in Settlements :
    /\ status[s] = "SETTLED" => transactionId[s]
    /\ transactionId[s] <=> payouts[s] > 0

\* Nothing but the payouts of settlements goes to the burn wallet, and nothing
\* comes from it.
OnlyPayoutsBurn ==
  \A r \in Requests :
    /\ r.from # "settlement_burn"
    /\ r.to = "settlement_burn" => \E s \in Settlements : r \in Payouts(s)

\* One fee schedule is in force throughout, with one rule for every settlement
\* as in the seeded one (prisma/seed/seed.ts).
OneSchedule ==
  \E only \in Schedules :
    /\ Schedules = {only}
    /\ \A type \in SettlementTypes : only[type] = only["RESIDENT_SETTLEMENT"]

\* What the burn wallet is to have received for a settlement, after fees.
Burnt(s) ==
  IF transactionId[s]
  THEN FeeFor(PayoutRequest(s, "RESIDENT_SETTLEMENT"), schedule).net
  ELSE 0

\* As long as no settlement was approved twice, what the burn wallet received is
\* what the settlements that have a transaction were to pay, each once, after
\* fees: the rows and the ledger agree although executions overlap, abort and
\* are repeated while residents cancel.  It is about constants with
\* OnlyPayoutsBurn and OneSchedule: with other schedules the rows do not tell
\* which rule a payout was made under.
BurnMatchesRows ==
  (\A s \in Settlements : approvals[s] <= 1) =>
    bal["settlement_burn"] = SumFunction([s \in Settlements |-> Burnt(s)])

\* A settlement is paid out once.  approveSettlement refuses what is not
\* pending ("Cannot approve settlement in status ..."), so a settlement that
\* was paid cannot come back to APPROVED.
PaidAtMostOnce == \A s \in Settlements : payouts[s] <= 1

\* Every handler and every transfer ends, also when its write waits for the row
\* of an execution and the execution waits for the locks of other transfers.
HandlersEnd == \A c \in Clients : ~ Free(c) ~> Free(c)
=============================================================================
