------------------------------- MODULE Ledger -------------------------------
(***************************************************************************)
(* src/lib/ledger: transferCredits, recordDeposit and convertFiatToKcrd as *)
(* they run against PostgreSQL at READ COMMITTED, from several clients (one *)
(* per HTTP request in progress) at a time.                                *)
(*                                                                         *)
(* A transfer is a sequence of awaits.  It reads the fee schedule, then the *)
(* wallets (with the sender's floor), takes one advisory lock after the    *)
(* other, checks the sender's balance, inserts the entries and commits.    *)
(* Other clients run between any two of these, and a transfer can end      *)
(* before its commit at any of them.                                       *)
(***************************************************************************)
EXTENDS LedgerEntries, Functions

CONSTANTS Clients,       \* HTTP requests that may be in progress at a time
          NoRequest,     \* the call of a client that runs no transfer
          KeyBound,      \* lock keys are below this (2^60: 15 hex digits)
          LockKey,       \* the key of each wallet, from a hash of its id
          Floors,        \* the numbers an administrator may enter as a floor
          FlooredWallets,\* bound: the wallets whose floor is set
          MaxVolume      \* bound: no new credits are issued past this many debits

\* floor_kcrd = null
NoFloor == -1

\* A hash may order the wallets in any way and may give two the same key.
ASSUME ClientAssumption ==
  /\ KeyBound \in Nat
  /\ NoRequest \notin Requests
  /\ LockKey \in [Wallets -> 0 .. KeyBound - 1]
  /\ Floors \subseteq Int
  /\ FlooredWallets \subseteq Wallets
  /\ MaxVolume \in Nat

VARIABLES bal,        \* committed: the sum of the entries of each wallet
          credits,    \* committed: the sum of all positive entries
          debits,     \* committed: the sum of all negative entries
          floor,      \* Wallet.floor_kcrd of the system wallets
          schedule,   \* the rules of the fee schedule in force
          pc,         \* where each client is in transferCredits
          call,       \* the request it is serving
          split,      \* the fee split it computed
          seenFloor,  \* the sender's floor as it read it
          held        \* the advisory lock keys its transaction holds

sums == <<bal, credits, debits>>
clientVars == <<pc, call, split, seenFloor, held>>
ledgerVars == <<bal, credits, debits, floor, schedule,
                pc, call, split, seenFloor, held>>

Keys == {LockKey[w] : w \in Wallets}
NoSplit == Split(0, 0, 0, 0)

LedgerTypeOK ==
  /\ bal \in [Wallets -> Int]
  /\ credits \in Int
  /\ debits \in Int
  /\ floor \in [SystemWallets -> Nat \cup {NoFloor}]
  /\ schedule \in Schedules
  /\ pc \in [Clients -> {"idle", "fees", "wallets", "locking", "posting"}]
  /\ call \in [Clients -> Requests \cup {NoRequest}]
  /\ split \in [Clients -> FeeSplit]
  /\ seenFloor \in [Clients -> Nat \cup {NoFloor}]
  /\ held \in [Clients -> SUBSET Keys]

LedgerInit ==
  /\ bal = [w \in Wallets |-> 0]
  /\ credits = 0
  /\ debits = 0
  /\ floor = [w \in SystemWallets |-> NoFloor]
  /\ schedule \in Schedules
  /\ pc = [c \in Clients |-> "idle"]
  /\ call = [c \in Clients |-> NoRequest]
  /\ split = [c \in Clients |-> NoSplit]
  /\ seenFloor = [c \in Clients |-> NoFloor]
  /\ held = [c \in Clients |-> {}]

\* The bound on the volume posted, asked only of the writers that issue new
\* credits: transfers move what there is.
VolumeLeft == -debits < MaxVolume

-----------------------------------------------------------------------------
(* transferCredits *)

\* Only a positive amount gets past the first check.
StartTransfer(c, r) ==
  /\ pc[c] = "idle"
  /\ r.amount > 0
  /\ pc' = [pc EXCEPT ![c] = "fees"]
  /\ call' = [call EXCEPT ![c] = r]
  /\ UNCHANGED <<sums, floor, schedule, split, seenFloor, held>>

\* getActiveFeeSchedule and calculateFee.  The schedule is read on a pool
\* connection of its own, before the wallets and outside the transaction.
ReadFees(c) ==
  /\ pc[c] = "fees"
  /\ pc' = [pc EXCEPT ![c] = "wallets"]
  /\ split' = [split EXCEPT ![c] = FeeFor(call[c], schedule)]
  /\ UNCHANGED <<sums, floor, schedule, call, seenFloor, held>>

\* The wallet rows are read before any lock is taken; a user wallet has no
\* floor to respect.
ReadWallets(c) ==
  /\ pc[c] = "wallets"
  /\ pc' = [pc EXCEPT ![c] = "locking"]
  /\ seenFloor' = [seenFloor EXCEPT ![c] =
                     IF call[c].from \in SystemWallets
                     THEN floor[call[c].from] ELSE NoFloor]
  /\ UNCHANGED <<sums, floor, schedule, call, split, held>>

\* Fault: only the recipient is locked.
WalletsToLock_NoSender(c) == {call[c].to}

\* lockWalletIds: both ends, and each fund that is due a part.
WalletsToLock(c) ==
  {call[c].from, call[c].to}
    \cup (IF split[c].community > 0 THEN {"community_fund"} ELSE {})
    \cup (IF split[c].operations > 0 THEN {"operations_fund"} ELSE {})
    \cup (IF split[c].developer > 0 THEN {"developer_share"} ELSE {})

MissingKeys(c) == {LockKey[w] : w \in WalletsToLock(c)} \ held[c]

\* Fault: the keys are taken in the order of the wallet list.
IsNextKey_Unsorted(c, k) ==
  pc[c] = "locking" /\ k \in MissingKeys(c)

\* The key that acquireWalletLocks asks for next: keys are sorted.
IsNextKey(c, k) ==
  /\ pc[c] = "locking"
  /\ k \in MissingKeys(c)
  /\ \A other \in MissingKeys(c) : k <= other

\* pg_advisory_xact_lock returns when no other transaction holds the key.
AcquireLock(c) ==
  \E k \in Keys :
    /\ IsNextKey(c, k)
    /\ \A d \in Clients : k \notin held[d]
    /\ held' = [held EXCEPT ![c] = @ \cup {k}]
    /\ UNCHANGED <<sums, floor, schedule, pc, call, split, seenFloor>>

\* Fault: the floor is not looked at.
MayPost_NoFloor(c) == bal[call[c].from] >= call[c].amount

\* The balance, floor and zero-sum checks made under the locks.
MayPost(c) ==
  LET r == call[c] IN
  /\ bal[r.from] >= r.amount
  /\ seenFloor[c] # NoFloor => bal[r.from] - r.amount >= seenFloor[c]
  /\ split[c].net + totalFee(split[c]) = r.amount

\* Fault: the balance is read before all locks are held.
CheckFunds_Early(c) ==
  /\ pc[c] = "locking"
  /\ MayPost(c)
  /\ pc' = [pc EXCEPT ![c] = "posting"]
  /\ UNCHANGED <<sums, floor, schedule, call, split, seenFloor, held>>

CheckFunds(c) ==
  /\ pc[c] = "locking"
  /\ MissingKeys(c) = {}
  /\ MayPost(c)
  /\ pc' = [pc EXCEPT ![c] = "posting"]
  /\ UNCHANGED <<sums, floor, schedule, call, split, seenFloor, held>>

\* Commit and rollback end the transaction: its locks are released with it.
EndTransfer(c) ==
  /\ pc' = [pc EXCEPT ![c] = "idle"]
  /\ call' = [call EXCEPT ![c] = NoRequest]
  /\ split' = [split EXCEPT ![c] = NoSplit]
  /\ seenFloor' = [seenFloor EXCEPT ![c] = NoFloor]
  /\ held' = [held EXCEPT ![c] = {}]
  /\ UNCHANGED <<floor, schedule>>

\* The checks fail: the error thrown rolls the transaction back.
Reject(c) ==
  /\ pc[c] = "locking"
  /\ MissingKeys(c) = {}
  /\ ~ MayPost(c)
  /\ EndTransfer(c)
  /\ UNCHANGED sums

\* The entries become visible to every other transaction at the commit.
PostEntries(c) ==
  /\ pc[c] = "posting"
  /\ bal' = [w \in Wallets |-> bal[w] + TransferCredit(w, call[c], split[c])
                                      - TransferDebit(w, call[c])]
  /\ credits' = credits + CreditTotal(call[c], split[c])
  /\ debits' = debits - DebitTotal(call[c])
  /\ EndTransfer(c)

\* A failed query, the timeout of an interactive transaction, a lost
\* connection or the end of the process: nothing was committed.
Rollback(c) ==
  /\ pc[c] # "idle"
  /\ EndTransfer(c)
  /\ UNCHANGED sums

-----------------------------------------------------------------------------
(* The writers that take no locks: each is one transaction of inserts.     *)

recordDeposit(u, k) ==
  /\ k > 0
  /\ bal' = [w \in Wallets |-> bal[w] + DepositDelta(w, u, k)]
  /\ credits' = credits + k
  /\ debits' = debits - k
  /\ UNCHANGED <<floor, schedule, clientVars>>

\* One pair of entries for the base amount and one for the bonus, if any.
convertFiatToKcrd(u, base, bonus) ==
  /\ bal' = [w \in Wallets |-> bal[w] + ConversionDelta(w, u, base, bonus)]
  /\ credits' = credits + base + bonus
  /\ debits' = debits - base - bonus
  /\ UNCHANGED <<floor, schedule, clientVars>>

\* POST /admin/treasury/wallets/:walletId/floor refuses a negative number and
\* the wallet of a user.
SetFloor(w, f) ==
  /\ f = NoFloor \/ f >= 0
  /\ w \in SystemWallets
  /\ floor' = [floor EXCEPT ![w] = f]
  /\ UNCHANGED <<sums, schedule, clientVars>>

\* POST /admin/settings/fee-schedule, and effectiveAt being reached
ApplySchedule(s) ==
  /\ schedule' = s
  /\ UNCHANGED <<sums, floor, clientVars>>

-----------------------------------------------------------------------------

\* The steps that a transfer takes once it has started.
TransferStep(c) ==
  \/ ReadFees(c)
  \/ ReadWallets(c)
  \/ AcquireLock(c)
  \/ CheckFunds(c)
  \/ Reject(c)
  \/ PostEntries(c)
  \/ Rollback(c)

\* What happens to the ledger without a client of transferCredits.
Administration ==
  \/ \E u \in Users, k \in Deposits : VolumeLeft /\ recordDeposit(u, k)
  \/ \E u \in Users, conversion \in Conversions :
       VolumeLeft /\ convertFiatToKcrd(u, conversion[1], conversion[2])
  \/ \E w \in FlooredWallets, f \in Floors \cup {NoFloor} :
       SetFloor(w, f)
  \/ \E s \in Schedules : ApplySchedule(s)

LedgerNext ==
  \/ \E c \in Clients, r \in Requests : StartTransfer(c, r)
  \/ \E c \in Clients : TransferStep(c)
  \/ Administration

LedgerSpec == LedgerInit /\ [][LedgerNext]_ledgerVars

\* The runtime continues every transfer whose query has been answered, and
\* PostgreSQL grants a lock in the order of its queue, so a transfer that
\* waits for a key that is released again and again does get it.
TransferFairness(c) ==
  /\ WF_ledgerVars(ReadFees(c) \/ ReadWallets(c))
  /\ SF_ledgerVars(AcquireLock(c))
  /\ WF_ledgerVars(CheckFunds(c) \/ Reject(c))
  /\ WF_ledgerVars(PostEntries(c))

-----------------------------------------------------------------------------
(* Properties *)

\* What runAndSaveReconciliation reports as OK (netSum = 0): in every committed
\* state the positive and the negative entries cancel, whatever commits in
\* whatever order.
ZeroSum == credits + debits = 0

\* The balances of all wallets, user wallets and system wallets together, sum
\* to zero: no posting credits or debits a wallet without its counter-entry.
BalancesSumToZero == SumFunction(bal) = 0

\* The books balance: positive and negative entries cancel in every committed
\* state, and so do the balances that they sum up to, over well-formed wallets.
BooksBalance == LedgerTypeOK /\ ZeroSum /\ BalancesSumToZero

\* No wallet that only transferCredits debits is ever overdrawn: of two
\* transfers from one wallet that both saw enough credits, the second is
\* refused (service.ts, "Insufficient balance").
NoOverdraft == \A w \in GuardedWallets : bal[w] >= 0

\* The clients that hold the key c asks for.
WaitsFor(c) == {d \in Clients : \E k \in held[d] : IsNextKey(c, k)}

\* Transfers never wait for each other in a circle, although each takes up to
\* five locks one at a time, the funds' locks are shared by all of them, and
\* hashes order the wallets arbitrarily (acquireWalletLocks sorts the keys).
NoWaitCycle ==
  \A S \in (SUBSET Clients) \ {{}} : \E c \in S : WaitsFor(c) \cap S = {}

\* A debit of a system wallet breaches its floor only when the floor changed
\* after the transfer read it (service.ts, FloorBreachError); the wallets that
\* back deposits and conversions are debited without a look at the floor.
FloorKept ==
  [][\A w \in SystemWallets \ BackingWallets :
       bal'[w] < bal[w] =>
         \E c \in Clients :
           /\ pc[c] = "posting" /\ call[c].from = w
           /\ \/ floor[w] = NoFloor
              \/ bal'[w] >= floor[w]
              \/ seenFloor[c] # floor[w]]_ledgerVars

\* The transfers, taken apart into awaits, still are atomic: each commit is one
\* step of AtomicLedger, funds check included, and no other step moves credits.
Abstract == INSTANCE AtomicLedger
              WITH bal <- bal, credits <- credits, debits <- debits
ImplementsAtomicLedger == Abstract!Spec
=============================================================================
