--------------------------- MODULE LedgerEntries ---------------------------
(***************************************************************************)
(* The data of the double-entry ledger: wallets, transfer requests, and    *)
(* the entries that each kind of posting writes.                           *)
(*                                                                         *)
(* The database keeps one row per entry and computes balances as sums.     *)
(* The sums are all that the code ever reads back, so a posting is         *)
(* modelled by what it adds to them: the balance of each wallet, and the   *)
(* totals of the positive and of the negative entries.                     *)
(***************************************************************************)
EXTENDS FeeEngine, FiniteSets

CONSTANTS Users,        \* owners of a user wallet (a wallet is named by its owner)
          Types,        \* the TransactionType values in use
          Requests,     \* the transfers that may be asked for
          Schedules,    \* the fee schedules that may come into force
          Deposits,     \* the amounts an administrator may record as deposited
          Conversions   \* the fiat conversions, as <<base, bonus>> credited

SystemWallets == {"treasury_reserve", "community_fund", "operations_fund",
                  "developer_share", "settlement_burn", "fiat_settlement",
                  "promotions"}

Wallets == Users \cup SystemWallets

\* Wallets that some writer debits without a lock and without looking at the
\* balance: recordDeposit and the two conversions post against them directly.
BackingWallets == {"treasury_reserve", "fiat_settlement", "promotions"}

\* Wallets that only transferCredits debits.
GuardedWallets == Wallets \ BackingWallets

\* TransferRequest; bonus is the promotion that convertKcrdToFiat adds to the
\* transfer in the same database transaction, 0 for every other caller.
TransferRequest == [from : Wallets, to : Wallets, amount : Nat,
                    type : Types, bonus : Nat]

ASSUME LedgerAssumption ==
  /\ IsFiniteSet(Users)
  /\ Users \cap SystemWallets = {}
  /\ Requests \subseteq TransferRequest
  /\ Schedules \subseteq [Types -> FeeRule]
  /\ Schedules # {}
  /\ Deposits \subseteq Nat
  /\ Conversions \subseteq Nat \X Nat

\* The split of a request under a schedule.
FeeFor(r, schedule) == calculateFee(schedule[r.type], r.amount)

\* No request is so small, and no rule so high, that rounding up the parts
\* takes more than the amount.  HalfRuleLeavesNet (FeeEngineProofs) gives it
\* for every amount when the parts of each rule add up to at most half.
ASSUME FeesAssumption ==
  \A r \in Requests, s \in Schedules : FeeFor(r, s).net >= 0

-----------------------------------------------------------------------------

\* What an entry of amount a on wallet x adds to wallet w.
On(w, x, a) == IF w = x THEN a ELSE 0

\* Fault: the part of the developer is taken but not posted.
TransferCredit_LostPart(w, r, s) ==
  On(w, r.to, s.net) + On(w, "community_fund", s.community)
    + On(w, "operations_fund", s.operations) + On(w, r.from, r.bonus)

\* The entries of a transfer: the sender pays the gross amount, the recipient
\* gets the net, each fund its part, and a bonus goes from promotions to the
\* sender.
TransferCredit(w, r, s) ==
  On(w, r.to, s.net) + On(w, "community_fund", s.community)
    + On(w, "operations_fund", s.operations)
    + On(w, "developer_share", s.developer) + On(w, r.from, r.bonus)

TransferDebit(w, r) == On(w, r.from, r.amount) + On(w, "promotions", r.bonus)

\* The sums of the positive and of the negative entries of a transfer.
CreditTotal(r, s) == s.net + totalFee(s) + r.bonus
DebitTotal(r) == r.amount + r.bonus

\* The entries of recordDeposit: the treasury reserve backs the credit.
DepositDelta(w, u, k) == On(w, u, k) - On(w, "treasury_reserve", k)

\* The entries of convertFiatToKcrd: fiat_settlement backs the base amount and
\* promotions the bonus.
ConversionDelta(w, u, base, bonus) ==
  On(w, u, base + bonus) - On(w, "fiat_settlement", base)
    - On(w, "promotions", bonus)
=============================================================================
