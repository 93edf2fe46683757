---------------------------- MODULE AtomicLedger ----------------------------
(***************************************************************************)
(* What the ledger promises its callers: every transfer happens at once or *)
(* not at all, it is paid for out of credits the sender has at that        *)
(* moment, and nothing but a deposit or a conversion puts new credits into *)
(* circulation.  No locks, no steps, no clients.                           *)
(***************************************************************************)
EXTENDS LedgerEntries

VARIABLES bal,      \* the sum of the entries of each wallet
          credits,  \* the sum of all positive entries
          debits    \* the sum of all negative entries

sums == <<bal, credits, debits>>

Init ==
  /\ bal = [w \in Wallets |-> 0]
  /\ credits = 0
  /\ debits = 0

Transfer(r, schedule) ==
  LET s == FeeFor(r, schedule) IN
  /\ r.from \in GuardedWallets => bal[r.from] >= r.amount
  /\ bal' = [w \in Wallets |->
               bal[w] + TransferCredit(w, r, s) - TransferDebit(w, r)]
  /\ credits' = credits + CreditTotal(r, s)
  /\ debits' = debits - DebitTotal(r)

Deposit(u, k) ==
  /\ bal' = [w \in Wallets |-> bal[w] + DepositDelta(w, u, k)]
  /\ credits' = credits + k
  /\ debits' = debits - k

ConvertFiat(u, base, bonus) ==
  /\ bal' = [w \in Wallets |-> bal[w] + ConversionDelta(w, u, base, bonus)]
  /\ credits' = credits + base + bonus
  /\ debits' = debits - base - bonus

Next ==
  \/ \E r \in Requests, schedule \in Schedules : Transfer(r, schedule)
  \/ \E u \in Users, k \in Deposits : Deposit(u, k)
  \/ \E u \in Users, conversion \in Conversions :
       ConvertFiat(u, conversion[1], conversion[2])

Spec == Init /\ [][Next]_sums
=============================================================================
