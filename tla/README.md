# A TLA+ model of the City of Karis backend

This directory holds TLA+ specifications of the backend in `src/`: a Hono HTTP
service over Prisma and PostgreSQL that keeps a double-entry ledger of K
credits, settlements (cash-outs), leases, imports, webhooks and a community
area. The modules are checked with TLC on small instances, and every
safety property that a passing run checks is also proved with TLAPS, for every
value of the constants. `PROJECT.json` lists
runs, mutants, the source lines of each definition, hazards and theorems. Paths
below are relative to `src/src/`.

## The system and what is hard about it

Every HTTP request is one asynchronous handler in a single Node.js process (or
one of several). Between two awaits any other handler may run. State lives in
PostgreSQL, at READ COMMITTED: a read sees what was committed when it ran, a
write by primary key waits for the row and then overwrites whatever is there,
and a conditional write (`updateMany ... where status = ...`) looks at the
condition again once it has the row. `db.$transaction(fn)` gives atomic commit
and rollback, and nothing else; its 5 s timeout, a lost connection or the end of
the process roll it back. There is no queue and no worker: emails and
notifications are sent by the handler itself, after its commit.

### Components that are modelled

| Component | State | Operations | Correct when |
|---|---|---|---|
| Fee engine (`lib/ledger/fee-engine.ts`) | none | `calculateFee` | parts are the nearest cents, nothing lost, net never negative |
| Ledger transfers (`lib/ledger/service.ts`) | ledger entries, advisory locks, floors | `transferCredits` | atomic, no overdraft, entries cancel, no deadlock, transfers end |
| Deposits, conversions (`lib/ledger/deposits.ts`, `lib/currency/conversion-engine.ts`) | ledger entries | `recordDeposit`, `convertFiatToKcrd`, `convertKcrdToFiat` | each posting has its counter-entry |
| Treasury floors (`routes/admin/treasury.ts`) | `Wallet.floor_kcrd` | set floor | a debit respects the floor it read |
| Settlements (`lib/ledger/settlements.ts`, settlement routes) | `SettlementRequest` rows | request, approve, decline, cancel, execute | paid once, rows agree with the ledger, handlers end |
| Connection pool (`lib/prisma.ts`) | five connections and a queue | executions that hold one and ask for another, other queries | nobody waits for ever |
| Reconciliation (`lib/ledger/reconciliation-report.ts`, its routes and cron) | `ReconciliationReport` rows | run, alert, acknowledge | a quiet run is exact, alarms have a cause, acknowledged once |
| Fee schedules (`routes/admin/settings.ts`) | `FeeSchedule` rows | apply, look up | one replaced stays replaced; without one only before a start |
| Rates, promotions (`routes/admin/rates.ts`, `promotions.ts`, `lib/currency/*`) | `ConversionRate`, `Promotion` rows | set, create, archive, look up | always a rate, never one that was followed; no bonus less than one that applied all the time |
| Email (`lib/email/service.ts`) | `EmailLog` | `sendEmail`, `resendEmailById`, `dispatchEmail` | the log says what the provider did; one message per key |
| Clerk webhook (`webhooks/clerk.ts`) | `WebhookEvent`, `User` | created, updated, deleted | each event handled, by one handler at a time; the row follows |
| Imports (`routes/admin/imports.ts`, `lib/imports/*`) | `ImportSession`, `ImportRecord`, users, properties | parse, commit, cancel | only chosen rows create; records, counts and status tell what happened |
| Leases (`cron/leases.ts`, `lib/lease/cycle.ts`, extension routes) | `PropertyTenancy`, `RentalExtensionRequest` | maintenance, request, approve, decline | the end date is that of the extension approved last, no due date is too late, a lease that is over expires |
| Property transfers, vouchers (`routes/admin/property-transfers.ts`, `vouchers.ts`, `voucher-requests.ts`) | `PropertyTransferRequest`, `VoucherRequest`, `PropertyOwnership` | file, approve, decline, assign an owner | decided once; the owners are those the decisions give; what is told is what was committed |
| Community (`routes/*/community.ts`) | votes, ballots, updates | open, close, cast; publish, notify, feed | one ballot, tallies add up and settle; who is told can see it |
| Visitor groups, accounts (`routes/admin/visitor-groups.ts`, `accounts.ts`) | users, roles, groups, memberships | create, suspend, restore, change a role; archive, assign, remove | in a group no more often than was put there at once |
| Broadcast (`routes/admin/broadcast.ts`) | the broadcast and its audit row | send | the counts account for every recipient |

Of the community area, acknowledging an update is an upsert on a unique index,
and issues are single inserts and updates of which the last wins. Of accounts,
profiles and settings are single updates; tokens, sessions and second factors
are Clerk's.

### Not modelled

- **Rate limits** (`lib/rate-limit`): a counter per window and key, read and
  written without an await in between; with Upstash configured it is external.
- **Storage and attachments** (`lib/storage`): drivers are input and output. A
  file is stored by one request and named by the row of another; nothing removes
  files, so that one without a row only takes up room.
- **Notifications and audit rows**: single inserts, made once the change they
  report is committed or within its transaction; no decision reads them. Who is
  notified of an announcement, and what the audit row of a broadcast says, is
  modelled.
- **Queries and read-only routes** change no state.
- **Server, configuration, middleware**: wiring. That handlers interleave at
  their awaits is in every module.
- **Schema and seeds**: tables are variables, unique indexes are guards. Seeding
  runs alone, on an empty database.

## Modules

    FeeEngine  <-  LedgerEntries  <-  AtomicLedger  <-  Reconciliation
                         ^            (what a ledger promises)
                         +--------  Ledger          (transferCredits in awaits)
                                      ^
                                      +----  Settlement    (handlers run by Ledger's clients)
    RateBoard  <=  ConversionRates   Promotions   FeeSchedules   ConnectionPool
    Poll       <=  Voting                VisitorGroups  <-  Announcements
    Email    ClerkWebhook    Imports    Tenancies    Approvals    (stand alone)

An arrow `<-` is `EXTENDS`; `A <= B` says that B is shown to implement A by
`INSTANCE A WITH ...`, as Ledger does `AtomicLedger`.
An `MC*` module and its `.cfg` files hold the instances for TLC. Definitions
called "Fault" are the mutants of `PROJECT.json`: plausible bugs, used by no
specification. The theorems are in

| Module | about |
|---|---|
| `FeeEngineProofs` | the fee arithmetic |
| `LedgerProofs` | Ledger, its refinement of AtomicLedger, Settlement |
| `PricingProofs` | ConversionRates and its refinement of RateBoard, Promotions, FeeSchedules, MCPricing |
| `OperationsProofs` | Voting and its refinement of Poll, Reconciliation, ConnectionPool, MCOperations |
| `CommunityProofs` | VisitorGroups, Announcements |
| `ApprovalsProofs` | Approvals |
| `ServicesProofs` | Email, ClerkWebhook |
| `RegistersProofs` | Imports, Tenancies |

**FeeEngine** translates `calculateFee` in whole ledger units: `Cent` units make
0.01, so banker's rounding is exact. `LedgerEntries` gives what each kind of
posting adds to each wallet. The database keeps the entries and the code reads
only their sums, so a balance is a variable.

**Ledger** has one client per request in progress. `transferCredits` is
`StartTransfer`, `ReadFees` (outside the transaction, as in the code),
`ReadWallets` (with the floor, before any lock), one `AcquireLock` per advisory
lock in the order of the hash keys, `CheckFunds` or `Reject`, and `PostEntries`;
`Rollback` may come at any of them. Deposits, conversions, floors and schedules
are single transactions, and steps of their own. A key is any function of the
wallet, so that collisions and every order are covered. `AtomicLedger` is the
abstract specification: a transfer is one step, with its funds check.

**Settlement** extends Ledger: `step` is where a client is in a settlement
handler, and its `pc` where it is in `transferCredits`. Approve, decline and
cancel read the status and later write by id; execute claims the row with a
conditional update (`rowLock`), calls the transfer in the same transaction, and
commits or aborts both. The type of the transaction is that of the role that the
resident has by then, which may be another than at the request
(`settlementTypeForRole`, any of `Roles`).

**Email** has one caller per call of `sendEmail` or `resendEmailById`. The
provider is external: it accepts or rejects, and its answer may be lost.

**ClerkWebhook** follows one user: a sequence of events, delivered any number of
times and in any order until each is answered with 200, two requests at a time,
each failing or ending at any await. An update may be to an email that another row
has (`taken`): it meets the unique index at every delivery (`EmailConflict`).

**Imports** has files of rows whose columns are abstracted to the verdict they
get; keys decide what a row would create, and whether the database lets it. A
commit processes one row per step, in any order, as its query has none, and
updates its session at the end.

**Tenancies** has the maintenance as a loop over what it read, approvals as
transactions, and days that pass at any time. Dates are small numbers; the
calendar of `MCTenancies` has months of three and two days, so that the drift of
`addMonths` at the end of a month occurs.

**Approvals** has one actor per decision in progress. A decision claims its
request with a conditional update and so holds the row until it ends. The
approval of a transfer then runs the update of the ownership in two steps, as
PostgreSQL does at READ COMMITTED: `PickRows` takes the rows the statement sees,
`MoveRows` waits for those that another approval has changed, keeps those that
still are the seller's, and goes on if that is exactly one. `Commit` makes all of it
visible, and `Tell` or `TellLost` follows. Locks that a waiting update already
holds on other rows are left out: they delay others, or let PostgreSQL abort one
of two updates that wait for each other, which is `Rollback`.

**Reconciliation** adds to `AtomicLedger`, in which every posting is one step, the
two sums of a run (`ReadCredits` and `ReadDebits`, in either order, since the code
asks both at once), the report it saves, the alert, and the acknowledgement, which
reads and then writes by id. `Edit` is what a report is there to find: an entry
changed by hand.

**FeeSchedules** has an application as the code's transaction: `BeginApply` finds
the newest open row, `CloseActive` updates it by id (and waits for another
transaction that has), `CommitApply` inserts. A look-up takes the time first and
asks later. **ConversionRates** is alike, but the update closes every open row
(`FindOpen` takes those that the statement sees, `CloseOpen` those still open
once it has the locks), the time is taken before the transaction, and
(base, quote, effectiveFrom) is unique. A conversion takes its time before it asks
for the rate. `RateBoard` is the abstract
specification: a rate replaces its predecessor for good.

**Promotions** has the rest of a conversion up to its transaction: the user's row is
read (`readUser`), then the promotions (`Candidates`: any order of the rows in which
a greater bonus comes first, as the query leaves ties open), and the loop takes the
first for a user of the role that was read (`FirstEligible`). Promotions are created
and archived, and the role changes, between any two of these.

**Voting** has the cast as the code's transaction: `Accept` or `Refuse` by what it
reads, `Insert` or `Reject` by the unique index, which makes an insert wait for
another of the same key, `CommitCast`. The vote of the path and the option of
the body are any two. `Poll` is the abstract specification: slips handed in
while the poll is open, and counted at most once per voter.

**VisitorGroups** has an assignment as the four queries it is, outside of any
transaction, beside the operations on accounts and groups. Memberships are counted,
since no query returns a removed one and no index keeps two apart. A new account's
list of groups is inserted as it is: it may name a group up to `MaxListed` times.
**Announcements** extends it: an update or a broadcast is inserted, its recipients
are read, and they are told; a feed (`Feed`) asks anew each time. A chunk of a
broadcast is one step with any outcome of each of its sends. Recipients are counted:
a user of a list as often as it names the user, a member of a group for each row.

**ConnectionPool** has the pool with its queue, served in order, and the
executions of settlements, which hold a connection while they wait for the row
and while they ask for a second connection, because `transferCredits` reads the
fee schedule through `db`. `Timeout` may come while none of the transaction's own
statements is running; the other query then stays in the queue, or runs on
(`stray`).

`MCPricing` composes FeeEngine, FeeSchedules, ConversionRates and Promotions, and
`MCOperations` Voting, Reconciliation and ConnectionPool. The parts share no
state: a behaviour moves one and leaves the others as they begin, so their states
are added and not multiplied.

History variables (`approvals`, `payouts`, `accepted`, `overlapped`, `concurrent`,
`handled`, `granted`, `followed`, `superseded`, `steady`, `wasActive`, `hadRoles`,
`together`, `quiet`, `raced`, ...) are written and never read by the guards and the
other variables of the actions.

## Runs

| Run | Shows | Instance |
|---|---|---|
| `ledger` | `BooksBalance` (types, `ZeroSum`, `BalancesSumToZero`), `NoOverdraft`, `FloorKept`, `NoWaitCycle`, and that the ledger implements `AtomicLedger` | 2 clients, 4 kinds of transfer, 2 schedules, a floor, colliding keys |
| `settlement` | `PaidOncePerApproval`, `SettledIsPaid`, `BurnMatchesRows`; every handler and every transfer ends | 2 administrators, 1 resident, 1 settlement, another spender, roles RESIDENT and VENDOR |
| `settlement_double_payout` | **violated**: `PaidAtMostOnce` | the same |
| `fees` | `PricingInv` (rounding by its definition as nearest cents, a net under every rule of at most one half, types); `FreeOnlyBeforeStart`, `ReplacedStaysReplaced`; `LookUpsFindRates`, `BonusIsDue`, and that rates implement `RateBoard` | gross 0..60, 729 rules; 2 administrators, at most 3 schedules after the seeded one, 1 look-up; the same of rates; 3 promotions, 2 roles, 1 user who converts |
| `email` | `EmailInv` (types, `SentWasAccepted`, `BlankNeverSent`), `OneMessageUnlessLost`; a queued message is decided | 2 callers, 1 key, 4 calls, 2 losses |
| `webhook` | `WebhookInv` (types, `NoEventLost`, `OneHandlerPerEvent`), `RowFollowsEvents`; every event is handled but for an update to a taken email | 2 requests, 4 histories of 2 or 3 events, 1 failure, 1 crash |
| `webhook_redelivery` | **violated**: `AnsweredIsHandled` | 1 failure |
| `imports` | `OnlyChosenCreated`, `RecordedIsOwn`, `CommittedIsComplete`, `ImportsInv` (types, `CountsAddUp`) | 2 requests, 2 sessions, 3 files of 2 rows, 1 failure, 1 crash |
| `leases` | `ExtensionKept`, `TenanciesInv` (types, `NoPaymentSkipped`); a lease that is over expires | 1 lease of every date, 2 requests, 2 administrators, 4 days |
| `approvals` | `TitleFollowsTransfers`, `ToldAsDecided`, `DecidedOnce` | 2 administrators, 3 users, 2 transfers, 1 voucher, 3 ownership rows, 2 codes |
| `community` | `NoMoreThanTogether`, `AnnouncementsInv` (types, `NotifiedAsNamed`, `AuditCountsEveryone`), `SeesWhatToldOf` | 2 users, 1 group, 2 requests to assign, roles VISITOR and ADMIN, lists that name one twice, 1 update or broadcast, chunks of 1 |
| `operations` | `OperationsInv` (types, `OneBallot`, `TallyAddsUp`, `AlarmHasCause`, no connection lost), `TallySettles`, that casting implements `Poll`; `QuietRunIsExact`, `AcknowledgedOnce`; nobody waits for a connection for ever | 2 requests of one resident, 2 votes, 3 options; 1 run, 2 reports, 2 officers, 1 edit; 3 executions of 2 settlements, 2 connections, 1 other query |

A property ending in `Inv` and `BooksBalance` gather a module's type invariant
and the named parts in brackets. The types of Settlement and Approvals are
proved and not checked again.

*Why the bounds are enough.* A race in this code is between two handlers about
one row, so two of each suffice to have it, with a third actor (the resident, a
depositor, the cron) beside them. `MaxVolume` stops new credits, not transfers:
after the last deposit the credits still move until fees or fund balances end
it. Floors and amounts are chosen so that a second transfer fails for want of
funds, so that a fee is rounded up, and so that a floor bites. `MaxCalls`, `MaxLost`,
`MaxFailures` and `MaxCrashes` bound how often an actor starts or fails; what follows
a failure is a retry, which differs from the first attempt by what the failure left,
and `EmailConflict` fails without a bound. Two mentions in a list (`MaxListed`) are
one too many. One of the three promotions needs the role, one names the user, and one is for
all and runs as long as both; with three instants (`LastInstant`) the one for the
user ends when the one for the role starts. `MaxDay` and `LastDate` let a lease
pass through all of its states and two months of its payments. Three ownership
rows let a seller have one, two or none, and a buyer be a seller. Three
executions on two connections are as many as it takes for all connections to be
held by transactions that ask for one more with a third in the queue. Three
schedules after the first let a closed row, two open ones and a future one exist
at a time. One reconciliation run is enough: two share only the numbering of
their reports. `MaxCredits` admits a posting between the two sums whose amount is
that of the edit, so that it hides it. For safety the proofs do away with all of
these bounds; the caps that stay in the guards (`MaxVolume`, `MaxDay`, ...) are
arbitrary numbers there.

*Symmetry* is used in safety runs only, over clients, administrators, the
handlers and sessions of imports, the users and assigners of the community, and
everything in approvals, which no definition tells apart.

*Deadlock* is checked for the ledger and the settlements. In the other modules a
handler stops when its bounded inputs are used up.

### Fairness

- `TransferFairness`: weak fairness of each await (the runtime continues a handler
  whose query was answered), and strong fairness of `AcquireLock`: PostgreSQL
  serves a lock's queue in order, so a waiter is not passed over for ever.
  Nothing is assumed of `Rollback`, which may happen and need not.
- `FairSettlementSpec` takes it for every client and adds strong fairness of a write
  that waits for a row, for the same reason.
- Email and webhook: weak fairness of each handler's steps. Each event's deliveries
  are strongly fair: the provider repeats them until it has a 200, whatever becomes
  of other events, and a server has more handlers than the model's two, which an
  event that always fails may keep busy now and then but not for ever. Other
  failures, and crashes, have bounds instead of fairness.
- Leases: the scheduler starts the maintenance again and again, and the
  maintenance does not fail each time before the same lease (strong fairness of
  `MaintainLease`).
- `VotingFairness`: weak fairness of each request that waits for a query.
- `PoolFairness`: weak fairness of the queue, of every answer, of an execution's
  next step, and of the timer of an open transaction. Nobody need start, and
  nobody need give up waiting (`GiveUp`, Prisma's maxWait): with the timeout the pool
  drains even if everybody waits patiently.

## What is proved

Every invariant, action property and refinement that a passing run checks is a
theorem: for any sets of users, requests, schedules, clients, settlements, files,
leases and so on, any amounts, any lock keys and any order of the steps. The
theorems named `...Correct` or `...TypeCorrect` state the types with the named
parts that the run checks in one property.

### From which assumptions

Each is stated by name where its constants are declared, and TLC evaluates it in
every run. Most give the types of constants and that a null is not a value. These
say more:

- `FeesAssumption`: no rule is so high that rounding takes more than the amount.
  `HalfRuleLeavesNet` gives it for all rules of at most one half, which every
  seeded schedule is. `routes/admin/settings.ts` accepts rules up to 100 %; above
  about 75 % the parts of a few cents can exceed them (34, 33 and 33 % of 0.02), and
  `transferCredits` would post a negative net.
- Sets that a table or a process holds are finite where something is summed or
  counted over them: `Users` (`LedgerAssumption`, `AnnouncementsAssumption`),
  `Settlements` (`SettlementAssumption`), `Transfers` and `Ownerships`
  (`ApprovalsAssumption`), and what shares a pool (`ConnectionPoolAssumption`).
- `HistoriesAssumption`: the provider's events of one user form a history: a sign-up
  first, one id until the deletion, nothing after it but a sign-up. A condition on
  Clerk, not on this code.
- `TenanciesAssumption`: `addOneCycle` yields a later date, and stays within the
  calendar for every day that can come.
- `ImportsAssumption`: a file is of members or of properties.
- `SettlementBurnMatchesRows` has two hypotheses, that only payouts go to the
  burn wallet (`OnlyPayoutsBurn`: no other code names that wallet) and that
  one schedule is in force, with one rule for every type of settlement, as the
  seeded one has (`OneSchedule`: else two payouts of an amount may have different
  nets, or one whose resident got another role). The instance states them as `BurnAssumption`.

### Along which argument

None of the properties is inductive alone, but for a few types. Each item names
what its invariant adds.

**Fees.** `FeeSplitConserves` and `FeePartNearest`: the parts add up, and each is the
multiple of a cent nearest to the exact product, by what division leaves over.

**Ledger** (`LedgerTypeCorrect`, `LedgerNoOverdraft`, `LedgerZeroSum`,
`LedgerKeepsFloors`, `LedgerImplementsAtomicLedger`). `LedgerInv` adds that a client
past its start serves a request with a split of some schedule (`CallsServed`),
that no two transactions hold one key (`Exclusive`), and that a client about to
post has every key it needs and would still pass its checks, of the amount and of
the floor it read, if its sender is guarded (`Funded`). `Funded` survives another
client's commit because that client would need the same key to debit the same
sender (`OnlyBackingPays`), and deposits and conversions only debit the backing
wallets. `LedgerKeepsFloors` needs no more: what is debited is what passed.

`LedgerNoWaitCycle`: keys are taken in increasing order (`LockOrder`), so the
member of a set of clients that holds the greatest key waits for none in it.

`LedgerBooksBalance`: the balances of all wallets sum to zero. The sum is a fold
over a finite set, a recursive function of its subsets. That this function exists
is shown by a smallest set on which no partial sum exists (`PartSumsExist`), and
then that a change of one entry changes the sum by the same (`SumChanges`). Each
posting changes at most seven entries, and the changes cancel (`TransferCancels`,
`UnlockedCancels`).

**Settlement** (`SettlementTypeCorrect`, `SettlementPaysOncePerApproval`,
`SettlementSettledIsPaid`). `SettlementInv` adds what each handler works on
(`Subjects`), that a row is locked exactly by the execution that claimed it and is
still APPROVED (`Claims`), and that an APPROVED settlement has an approval that
has not been spent (`Unspent`). `SettlementImplementsLedger` and
`SettlementsKeepLedger`: every step of the settlement service is a step of the
ledger or leaves it alone, so that the ledger's theorems hold of it.
`SettlementBurnMatchesRows` adds that a client in a transfer to the burn wallet
serves the payout of its settlement (`PayoutCalls`); a commit then raises the wallet
and the sum over the rows by the same net.

**Rates** (`RatesTypeCorrect`, `RatesNeverMissing`, `RatesFollowedUnused`,
`RatesLookUpsFind`, `RatesImplementBoard`). `RatesInv` adds that at every time some
rate is running (`Covered`): a row ends when its successor begins. That is not
enough, since the later commit may have the earlier time and two rows may stay
open. What saves the code is that an update closes *all* open rows that were
committed before it (`SetsCloseAll`, with `ClosingLocked` for the rows that two
updates want), so that a row that was followed is closed (`FollowedClosed`), and a
superseded row that is still open has an open one behind it that begins later and
wins (`SupersededBehind`).

**Promotions** (`PromotionsBonusIsDue`). `PromotionsInv` adds what the histories say at
each stage (`KnownOf`): a promotion that applied all the time is still active and
for the role that was read, and whatever is active, and the role read, has been so
since the conversion began. That the loop finds the greatest bonus is a lemma
about sorted lists (`LoopFindsBest`).

**Fee schedules** (`FeesFreeOnlyBeforeStart`, `FeesReplacedStaysReplaced`). `FeeInv`
adds that some schedule is always open (`SchedulesNumbered`), so that one which does
not cover a transfer has not begun; and, as long as no two applications have overlapped,
that exactly one is open, none that was replaced, and an application under way
closes it (`OneRowOpen`). `PricingCorrect` puts the parts of `PricingInv` together.

**Votes** (`VotingTypeCorrect`, `VotingOneBallot`, `VotingTallyAddsUp`,
`VotingImplementsPoll`). `VotingInv` adds that a request's ballot is its own and,
past the check, for an option of its vote (`ChoiceIsOwn`), and that an inserted
row has its key to itself before it is committed (`KeyHeld`).

**Reconciliation** (`ReconciliationQuietRunIsExact`, `ReconciliationAlarmHasCause`,
`ReconciliationAcknowledgedOnce`). `ReconciliationInv` adds that what a run has
read is still so unless something was posted (`ReadsCurrent`), that only an edit
leaves the entries out of balance (`EditedWhenUnbalanced`, from the postings of
`AtomicLedger`), and that who is about to acknowledge a report found it
unacknowledged and is alone, but for a race (`FoundUnacknowledged`).

**Pool** (`PoolAddsUp`). `PoolInv` adds that nobody is in the queue twice or for what
it has already (`QueueFits`), and that only transactions that ended leave a query
behind (`StraysEnded`): a connection handed to the head of the queue is then
counted once. `OperationsCorrect` puts the three together.

**Groups** (`GroupsTypeCorrect`, `GroupsAddUp`, of `AnnouncementsSpec`, which has
every operation on groups). `GroupsInv` adds that a request knows a group and a
user that exist (`RequestsKnown`), that the rows of a pair and the requests about to
insert another are together no more than were to be inserted at once
(`RowsAndRequests`), and that nothing was inserted before there was an account
(`NoneBefore`).

**Announcements** (`AnnouncementsCorrect`, `AnnouncementsSeen`). `UpdatesKnown` adds what is
known at each stage of a handler (`UpdateOK`): nobody was told before the
recipients were read, who is left to be told is so no more often than the update
allows (`Times`), and while a broadcast is mailed its counts are those of the
recipients mailed, and these and the ones left are all recipients.

**Approvals** (`ApprovalsTypeCorrect`, `ApprovalsToldAsDecided`,
`ApprovalsDecidedOnce`). `ApprovalsInv` adds that a transaction's request is still
PENDING (`Holding`), that no two transactions hold one request (`OneHolder`), that
what is about to be told is what the rows have (`Telling`), and that only
transfers pick ownership rows (`Picking`). `ApprovalsMoveOneTitle`: how many rows a
user owns changes only as decisions say. `TitleInv` adds that an approval that has
moved its rows holds exactly one and it was the seller's (`HoldsOne`), and that no
two hold the same (`HeldApart`), so that a commit moves one row and one transfer
joins the count of each side.

**Email** (`EmailCorrect`, `EmailSendsOnce`). A caller that hands a message over has a
row with it, and one that was answered has an acceptance (`CallsBacked`). On a key
where no two calls met there is one caller at a time (`OneCallAtATime`), none
once the message is SENT (`SentIsTheEnd`), and every acceptance but the one on
record, or about to be, was lost (`OthersLost`).

**Webhook** (`WebhookCorrect`, `WebhookRowFollows`). A handler works alone on an event
that is logged (`HandlersBusy`), and what is logged is handled or at work unless a
request died (`LoggedForGood`). For events handled in order, one at a time, what
was answered is a prefix and the one at work comes next (`OneByOne`), and the row
is as the last event of that prefix left it (`RowAtPrefix`).

**Imports** (`ImportsOnlyChosen`, `ImportsRecordTheirOwn`, `ImportsComplete`,
`ImportsCorrect`). `ImportsKnown`: a commit works on chosen rows of an uploaded
session (`HandlersAtWork`), and what it creates points to such a row
(`OriginKnown`). Unless the database failed, a commit passes over no valid row
but one whose key exists (`PassesOverNone`). A handler's tally and the rows it has left
are those chosen, and a session that one request commits shows that request's
tally (`CountsRight`, `SessionCounted`).

**Leases** (`TenanciesCorrect`, `TenanciesKeepExtensions`). What a cron run or an
approval has read, days ago perhaps, was on schedule and has the start that the
lease still has (`LeasesRead`), and the due date of a lease was, on some day up to
this one, the next that follows from its start (`OnSchedule`). A stale due date is
then too early and never too late. `computeNextPaymentDue` is a recursive function of
dates; that it exists, and returns the first date after the day, is shown from a
closed form (`NextFrom`: the dates that follow, up to the first after the day)
and not assumed.

### Only model-checked

Liveness, since fairness is beyond the prover: `HandlersEnd`, `QueuedIsDecided`,
`EventsHandled`, `ExpiresInTheEnd`, `TallySettles` and `NobodyWaitsForEver`. The two
violations are counterexamples and need no proof.

## Findings

1. **A settlement can be paid twice** (`lib/ledger/settlements.ts:87`). Two
   administrators read it as pending; one approves and executes it; the other's
   approval then writes APPROVED over SETTLED, and the next execution pays again.
   The payouts never exceed the approvals, which is what the claim of the
   execution guarantees (proved).
2. **A webhook event can be answered and not handled**
   (`webhooks/clerk.ts:114`). The 200 of a second delivery is given while the
   first is still at work; if that one rolls back, no retry comes.

Seen while modelling, and not runs of their own. Where a property above would be
broken by one of them, its antecedent names the case (`overlapped`, `concurrent`, `reordered`,
`crashes`, `approvals`, `commits`, `raced`, `quiet`) or its bound does (`together`):

- *Ledger*: the floor of `treasury_reserve` is not looked at by deposits and
  conversions. A settlement can be cancelled after it was approved or paid.
- *Pool*: five requests at a time, even for one settlement, can hold all
  connections until the 5 s timeout, and every other query waits meanwhile.
- *Reconciliation*: a posting between the two sums makes a false alarm, or hides a
  discrepancy of its amount. Two administrators at a time may both acknowledge a report,
  although
  the route "refuses if already acknowledged" (`routes/admin/reconciliation.ts:128`).
  The demo seed's initial reserve has no counter-entry, so that every report on a
  demo-seeded database is a MISMATCH; and `reconcileTreasury`, in development only, calls
  the treasury unbalanced after any issuance.
- *Fees and rates*: two fee schedules applied side by side stay open, and the older
  can come back into force; rates heal, because their update closes all open rows. A
  schedule that begins later leaves none in force until then, and transfers are
  free. The production seed creates five system wallets (no `promotions`, no
  `fiat_settlement`) and no rates, so that conversions are refused until they exist.
- *Email*: two calls under one key that overlap send two messages.
- *Webhook*: a crash after the idempotency row was stored makes retries no-ops. A user
  who was deleted and signs up again gets the new id and stays deactivated. An update
  to an email that another row has fails at every delivery and is never handled.
- *Imports*: two commits of one session can both report COMMITTED, and one that was
  committed can become CANCELLED. A confirmed row "will create a duplicate account"
  (`lib/imports/members-parser.ts:196`), but the email is unique and the row is skipped.
- *Leases*: an extension approved out of order may shorten a lease. A lease that
  expired before its extension was approved stays EXPIRED (`cron/leases.ts:21`,
  `routes/admin/rental-extensions.ts:65`), and so does one that a run, having read the
  old end date, marks EXPIRED after the approval.
- *Property transfers*: a seller with two ownership rows of one property can never
  have a transfer approved.
- *Community*: an update for an archived group notifies members whose feed hides it, and
  vendors see
  community-wide updates of which they are not notified. Two assignments at once can
  put a visitor into a group twice, and so can an account whose list of groups names
  it twice (`routes/admin/accounts.ts:197`), without any race; one removal then does
  not take the visitor out, and the group's updates reach the visitor twice. A targeted
  update whose list names a user twice notifies twice (`routes/admin/community.ts:145`).
  A role change keeps the memberships; restoring
  activates an account that was never active. A broadcast that throws writes no
  audit row.

## Not in the model

- The text of messages, dates and times beyond days or instants, decimals beyond the
  ledger's units, and audit rows other than that of a broadcast.
- `TreasuryAdjustment` rows, which nothing reads, and the reconciliation that runs after
  a transfer in development only.
- System wallets that are missing: the models begin with all seven.
- Invitations and emails of imports and webhooks, which are best effort.
- Currency pairs beside each other: every query names its pair.

## What is left

1. A composition of ConnectionPool with Settlement, in which the executions that
   the timeout ends are retried.
2. The safety half of liveness: that no reachable state of an execution of the
   settlement is without a next step (what deadlock checking shows on the
   instance), stated of the guards and not of ENABLED.
3. Rate limits and storage, once decisions come to depend on them.
