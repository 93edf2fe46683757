-------------------------- MODULE OperationsProofs --------------------------
(***************************************************************************)
(* For any votes, options, residents and requests: one ballot per resident *)
(* and vote, tallies that add up, and the refinement of Poll.              *)
(*                                                                         *)
(* For any ledger, runs and administrators: the report of a run during     *)
(* which nothing was posted is exact, and it raises no alarm over what the *)
(* program posted itself.                                                  *)
(*                                                                         *)
(* For any executions, queries and size of the pool: no connection is lost *)
(* and none is given twice.                                                *)
(***************************************************************************)
EXTENDS MCOperations, FeeEngineProofs, FiniteSetTheorems

\* Casts past the check of the option.
InFlight(q) == casting[q] \in {"accepted", "inserted"}

\* A request's ballot is its own, and past the check it is for an option of its
\* vote.
ChoiceIsOwn ==
  \A q \in Casts :
    /\ casting[q] # "idle" => choice[q].voter = VoterOf[q]
    /\ InFlight(q) => OptionVote[choice[q].option] = choice[q].vote

\* An inserted row has its key to itself, before it is committed.
KeyHeld ==
  \A q \in Casts : casting[q] = "inserted" =>
    /\ ~ HasVoted(q)
    /\ \A p \in Casts : casting[p] = "inserted" /\ p # q =>
                             ~ SameVoter(choice[p], choice[q])

VotingInv == VotingTypeOK /\ ChoiceIsOwn /\ KeyHeld /\ OneBallot /\ TallyAddsUp

\* The initial tables are empty and no request is in flight.
LEMMA VotingInitInv == VotingInit => VotingInv
BY VotingAssumption DEF VotingInit, VotingInv, VotingTypeOK, ChoiceIsOwn,
   KeyHeld, OneBallot, TallyAddsUp, InFlight

\* A request that ends leaves the others as they were.
LEMMA EndCastInv ==
  ASSUME VotingInv, NEW q \in Casts, EndCast(q), UNCHANGED <<votes, ballots>>
  PROVE  VotingInv'
<1>1. VotingTypeOK'
  BY DEF VotingInv, VotingTypeOK, EndCast
<1>2. \A p \in Casts : p # q => casting'[p] = casting[p] /\ choice'[p] = choice[p]
  BY DEF VotingInv, VotingTypeOK, EndCast
<1>3. casting'[q] = "idle"
  BY DEF VotingInv, VotingTypeOK, EndCast
<1>4. ChoiceIsOwn'
  BY <1>2, <1>3 DEF VotingInv, ChoiceIsOwn, InFlight
<1>5. KeyHeld'
  BY <1>2, <1>3 DEF VotingInv, KeyHeld, HasVoted, SameVoter
<1>6. OneBallot' /\ TallyAddsUp'
  BY DEF VotingInv, OneBallot, TallyAddsUp, SameVoter
<1>. QED BY <1>1, <1>4, <1>5, <1>6 DEF VotingInv

\* No step of an administrator or of a request breaks the invariant.
LEMMA VotingStepInv == VotingInv /\ [VotingNext]_votingVars => VotingInv'
<1>. SUFFICES ASSUME VotingInv, [VotingNext]_votingVars PROVE VotingInv'
  OBVIOUS
<1>. USE VotingAssumption DEF VotingInv
<1>1. CASE UNCHANGED votingVars
  BY <1>1 DEF votingVars, VotingTypeOK, ChoiceIsOwn, KeyHeld, OneBallot,
     TallyAddsUp, InFlight, HasVoted, SameVoter
<1>2. ASSUME NEW v \in Votes, createVote(v) \/ closeVote(v) PROVE VotingInv'
  BY <1>2 DEF createVote, closeVote, VotingTypeOK, ChoiceIsOwn, KeyHeld,
     OneBallot, TallyAddsUp, InFlight, HasVoted, SameVoter
<1>3. ASSUME NEW q \in Casts, NEW v \in Votes, NEW o \in Options,
             BeginCast(q, v, o)
      PROVE  VotingInv'
  <2>. DEFINE b == [vote |-> v, voter |-> VoterOf[q], option |-> o]
  <2>1. b \in Ballots
    BY DEF Ballots
  <2>2. /\ casting' = [casting EXCEPT ![q] = "reading"]
        /\ choice' = [choice EXCEPT ![q] = b]
        /\ UNCHANGED <<votes, ballots>>
    BY <1>3 DEF BeginCast
  <2>. HIDE DEF b
  <2>3. VotingTypeOK'
    BY <2>1, <2>2 DEF VotingTypeOK
  <2>4. b.voter = VoterOf[q]
    BY DEF b
  <2>5. ChoiceIsOwn'
    BY <2>2, <2>4 DEF ChoiceIsOwn, InFlight, VotingTypeOK
  <2>6. KeyHeld'
    BY <2>2 DEF KeyHeld, HasVoted, SameVoter, VotingTypeOK
  <2>7. OneBallot' /\ TallyAddsUp'
    BY <2>2 DEF OneBallot, TallyAddsUp, SameVoter
  <2>. QED BY <2>3, <2>5, <2>6, <2>7
<1>4. ASSUME NEW q \in Casts, Accept(q) PROVE VotingInv'
  <2>1. VotingTypeOK'
    BY <1>4 DEF Accept, VotingTypeOK
  <2>2. ChoiceIsOwn'
    BY <1>4 DEF Accept, Acceptable, ChoiceIsOwn, InFlight, VotingTypeOK
  <2>3. KeyHeld'
    BY <1>4 DEF Accept, KeyHeld, HasVoted, SameVoter, VotingTypeOK
  <2>4. OneBallot' /\ TallyAddsUp'
    BY <1>4 DEF Accept, OneBallot, TallyAddsUp, SameVoter
  <2>. QED BY <2>1, <2>2, <2>3, <2>4
<1>5. ASSUME NEW q \in Casts, Insert(q) PROVE VotingInv'
  <2>1. VotingTypeOK'
    BY <1>5 DEF Insert, VotingTypeOK
  <2>2. ChoiceIsOwn'
    BY <1>5 DEF Insert, ChoiceIsOwn, InFlight, VotingTypeOK
  <2>3. KeyHeld'
    BY <1>5 DEF Insert, IndexFree, KeyHeld, HasVoted, SameVoter, VotingTypeOK
  <2>4. OneBallot' /\ TallyAddsUp'
    BY <1>5 DEF Insert, OneBallot, TallyAddsUp, SameVoter
  <2>. QED BY <2>1, <2>2, <2>3, <2>4
<1>6. ASSUME NEW q \in Casts, CommitCast(q) PROVE VotingInv'
  <2>1. /\ casting[q] = "inserted"
        /\ ballots' = ballots \cup {choice[q]}
        /\ votes' = votes
        /\ casting' = [casting EXCEPT ![q] = "idle"]
        /\ choice' = [choice EXCEPT ![q] = NoBallot]
    BY <1>6 DEF CommitCast, EndCast
  <2>2. VotingTypeOK'
    BY <2>1 DEF VotingTypeOK
  <2>3. \A p \in Casts : p # q => casting'[p] = casting[p] /\ choice'[p] = choice[p]
    BY <2>1 DEF VotingTypeOK
  <2>4. casting'[q] = "idle"
    BY <2>1 DEF VotingTypeOK
  <2>5. ChoiceIsOwn'
    BY <2>3, <2>4 DEF ChoiceIsOwn, InFlight
  <2>6. KeyHeld'
    BY <2>1, <2>3, <2>4 DEF KeyHeld, HasVoted, SameVoter
  <2>7. OneBallot'
    BY <2>1 DEF OneBallot, KeyHeld, HasVoted, SameVoter
  <2>8. TallyAddsUp'
    BY <2>1 DEF TallyAddsUp, ChoiceIsOwn, InFlight
  <2>. QED BY <2>2, <2>5, <2>6, <2>7, <2>8
<1>7. ASSUME NEW q \in Casts, Refuse(q) \/ Reject(q) \/ AbortCast(q)
      PROVE  VotingInv'
  BY <1>7, EndCastInv DEF Refuse, Reject, AbortCast
<1>. QED BY <1>1, <1>2, <1>3, <1>4, <1>5, <1>6, <1>7 DEF VotingNext

\* The invariant of every reachable state.
THEOREM VotingInvariant == VotingSpec => []VotingInv
<1>1. VotingSafety => []VotingInv
  BY VotingInitInv, VotingStepInv, PTL DEF VotingSafety
<1>. QED BY <1>1, PTL DEF VotingSpec

\* The tables and the handlers keep their types.
THEOREM VotingTypeCorrect == VotingSpec => []VotingTypeOK
BY VotingInvariant, PTL DEF VotingInv

\* However many requests a resident sends at once, one ballot counts in a vote.
THEOREM VotingOneBallot == VotingSpec => []OneBallot
BY VotingInvariant, PTL DEF VotingInv

\* The ballots of a vote are the ballots of its options.
THEOREM VotingTallyAddsUp == VotingSpec => []TallyAddsUp
BY VotingInvariant, PTL DEF VotingInv

-----------------------------------------------------------------------------

Slip == [q \in Casts |-> IF casting[q] \in {"accepted", "inserted"}
                            THEN choice[q] ELSE NoBallot]

\* Before any request there are no slips.
LEMMA PollInit == VotingInit => Paper!Init
BY DEF VotingInit, Paper!Init

\* A request that ends withdraws its slip.
LEMMA EndWithdraws ==
  ASSUME VotingInv, NEW q \in Casts, EndCast(q)
  PROVE  Slip' = [Slip EXCEPT ![q] = NoBallot]
BY DEF VotingInv, VotingTypeOK, EndCast, Slip

\* Every step of a vote is a step of the poll, or leaves it as it is.
LEMMA PollStep ==
  VotingInv /\ [VotingNext]_votingVars => [Paper!Next]_(Paper!pollVars)
<1>. SUFFICES ASSUME VotingInv, VotingNext PROVE [Paper!Next]_(Paper!pollVars)
  BY DEF votingVars, Paper!pollVars
<1>. USE VotingAssumption DEF VotingInv
<1>1. ASSUME NEW v \in Votes, createVote(v) PROVE Paper!Open(v)
  BY <1>1 DEF createVote, Paper!Open
<1>2. ASSUME NEW v \in Votes, closeVote(v) PROVE Paper!Close(v)
  BY <1>2 DEF closeVote, Paper!Close
<1>3. ASSUME NEW q \in Casts, NEW v \in Votes, NEW o \in Options,
             BeginCast(q, v, o)
      PROVE  UNCHANGED Paper!pollVars
  <2>1. Slip' = Slip
    BY <1>3 DEF BeginCast, Slip, VotingTypeOK
  <2>. QED BY <1>3, <2>1 DEF BeginCast, Paper!pollVars, Slip
<1>4. ASSUME NEW q \in Casts, Accept(q)
      PROVE  \E o \in Options : Paper!Hand(q, o)
  <2>. DEFINE o == choice[q].option
  <2>1. choice[q] \in Ballots
    BY <1>4 DEF Accept, VotingTypeOK
  <2>2. o \in Options
    BY <2>1 DEF Ballots
  <2>3. /\ choice[q].vote = OptionVote[o]
        /\ votes[OptionVote[o]] = "open"
        /\ choice[q].voter = VoterOf[q]
    BY <1>4 DEF Accept, Acceptable, ChoiceIsOwn
  <2>4. choice[q] = Paper!Ballot(q, o)
    BY <2>1, <2>3 DEF Ballots, Paper!Ballot
  <2>5. Slip' = [Slip EXCEPT ![q] = choice[q]]
    BY <1>4 DEF Accept, Slip, VotingTypeOK
  <2>6. Slip[q] = NoBallot
    BY <1>4 DEF Accept, Slip
  <2>7. Paper!Hand(q, o)
    BY <1>4, <2>3, <2>4, <2>5, <2>6 DEF Accept, Paper!Hand, Slip
  <2>. HIDE DEF o
  <2>. QED BY <2>2, <2>7 DEF Paper!Hand
<1>5. ASSUME NEW q \in Casts, Insert(q) PROVE UNCHANGED Paper!pollVars
  <2>1. Slip' = Slip
    BY <1>5 DEF Insert, Slip, VotingTypeOK
  <2>. QED BY <1>5, <2>1 DEF Insert, Paper!pollVars, Slip
<1>6. ASSUME NEW q \in Casts, CommitCast(q) PROVE Paper!Count(q)
  <2>1. EndCast(q) /\ casting[q] = "inserted" /\ votes' = votes
    BY <1>6 DEF CommitCast
  <2>2. Slip' = [Slip EXCEPT ![q] = NoBallot]
    BY <2>1, EndWithdraws
  <2>3. Slip[q] = choice[q] /\ choice[q] \in Ballots
    BY <2>1 DEF Slip, VotingTypeOK
  <2>4. Slip[q] # NoBallot
    BY <2>3, NoBallotAssumption
  <2>5. \A b \in ballots : ~ (b.vote = Slip[q].vote /\ b.voter = Slip[q].voter)
    BY <2>1, <2>3 DEF KeyHeld, HasVoted, SameVoter
  <2>6. ballots' = ballots \cup {Slip[q]}
    BY <1>6, <2>3 DEF CommitCast
  <2>. QED BY <2>1, <2>2, <2>4, <2>5, <2>6 DEF Paper!Count, Slip
<1>7. ASSUME NEW q \in Casts, Refuse(q) \/ Reject(q) \/ AbortCast(q)
      PROVE  Paper!Withdraw(q)
  <2>1. EndCast(q) /\ UNCHANGED <<votes, ballots>>
    BY <1>7 DEF Refuse, Reject, AbortCast
  <2>2. Slip' = [Slip EXCEPT ![q] = NoBallot]
    BY <2>1, EndWithdraws
  <2>. QED BY <2>1, <2>2 DEF Paper!Withdraw, Slip
<1>. QED
  BY <1>1, <1>2, <1>3, <1>4, <1>5, <1>6, <1>7 DEF VotingNext, Paper!Next

\* Casting beside closing, with its transactions and locks, is the poll.
THEOREM VotingImplementsPoll == VotingSpec => ImplementsPoll
<1>1. VotingSafety => Paper!Spec
  <2>1. VotingSafety => []VotingInv
    BY VotingInitInv, VotingStepInv, PTL DEF VotingSafety
  <2>. QED BY <2>1, PollInit, PollStep, PTL DEF VotingSafety, Paper!Spec
<1>. QED BY <1>1, PTL DEF VotingSpec, ImplementsPoll

-----------------------------------------------------------------------------
(* Reconciliation *)

\* Every posting has its counter-entries: only an edit by hand leaves the
\* entries out of balance.
EditedWhenUnbalanced == credits + debits = 0 \/ edited

\* What a run has read is still so, unless something was posted meanwhile; a
\* run that does not ask has read nothing.
ReadsCurrent ==
  \A r \in Runs :
    /\ running[r] # "asking" => totalCredits[r] = NoSum /\ totalDebits[r] = NoSum
    /\ quiet[r] => /\ totalCredits[r] \in {NoSum, credits}
                   /\ totalDebits[r] \in {NoSum, debits}

\* An administrator who is about to acknowledge a report found it so; it has
\* been acknowledged since, or another has found it, only in a race.
FoundUnacknowledged ==
  \A o \in Officers : acknowledging[o] # NoReport =>
    /\ acknowledging[o] \in Reports
    /\ acknowledging[o] \notin raced =>
         /\ acknowledged[acknowledging[o]] = NoOfficer
         /\ \A p \in Officers : acknowledging[p] = acknowledging[o] => p = o

ReconciliationInv ==
  /\ ReconciliationTypeOK
  /\ EditedWhenUnbalanced
  /\ ReadsCurrent
  /\ FoundUnacknowledged
  /\ QuietRunIsExact
  /\ AlarmHasCause

\* With no entries and no reports the invariant holds.
LEMMA ReconciliationStart == ReconciliationInit => ReconciliationInv
<1> SUFFICES ASSUME ReconciliationInit PROVE ReconciliationInv
  OBVIOUS
<1>1. /\ Reports = {} /\ reports \in [{} -> {}]
      /\ credits = 0 /\ debits = 0
  BY DEF ReconciliationInit, Init, Reports
<1>2. ReconciliationTypeOK
  <2>1. reports \in [Reports -> [status : {"OK", "MISMATCH"},
                                quiet : BOOLEAN, balanced : BOOLEAN]]
    BY <1>1
  <2>2. /\ running \in [Runs -> {"idle", "asking", "alerting"}]
        /\ totalCredits \in [Runs -> Nat \cup {NoSum}]
        /\ totalDebits \in [Runs -> Int \cup {NoSum}]
        /\ quiet \in [Runs -> BOOLEAN]
    BY DEF ReconciliationInit
  <2>3. /\ acknowledging \in [Officers -> ReportIds \cup {NoReport}]
        /\ acknowledged \in [ReportIds -> Officers \cup {NoOfficer}]
        /\ \A i \in ReportIds : acknowledged[i] = NoOfficer
        /\ edited \in BOOLEAN /\ raced \subseteq ReportIds
    BY DEF ReconciliationInit
  <2>4. QED
    BY <1>1, <2>1, <2>2, <2>3 DEF ReconciliationTypeOK
<1>3. EditedWhenUnbalanced /\ ReadsCurrent
  BY <1>1 DEF ReconciliationInit, EditedWhenUnbalanced, ReadsCurrent
<1>4. FoundUnacknowledged
  BY DEF ReconciliationInit, FoundUnacknowledged
<1>5. QuietRunIsExact /\ AlarmHasCause
  BY <1>1 DEF QuietRunIsExact, AlarmHasCause
<1>6. QED
  BY <1>2, <1>3, <1>4, <1>5 DEF ReconciliationInv

\* A posting adds as much to the positive entries as to the negative ones.
LEMMA PostingBalances ==
  ASSUME ReconciliationTypeOK, Next
  PROVE  /\ credits' \in Nat /\ debits' \in Int
         /\ credits' + debits' = credits + debits
<1> USE DEF ReconciliationTypeOK
<1>1. ASSUME NEW r \in Requests, NEW schedule \in Schedules, Transfer(r, schedule)
      PROVE  /\ credits' \in Nat /\ debits' \in Int
             /\ credits' + debits' = credits + debits
  <2>1. /\ r \in TransferRequest
        /\ schedule[r.type] \in FeeRule
        /\ FeeFor(r, schedule).net >= 0
    BY LedgerAssumption, FeesAssumption DEF TransferRequest
  <2>2. r.amount \in Nat /\ r.bonus \in Nat
    BY <2>1 DEF TransferRequest
  <2>3. /\ FeeFor(r, schedule) \in FeeSplit
        /\ FeeFor(r, schedule).net + totalFee(FeeFor(r, schedule)) = r.amount
    BY <2>1, <2>2, FeeSplitConserves DEF FeeFor
  <2>4. totalFee(FeeFor(r, schedule)) \in Int /\ FeeFor(r, schedule).net \in Int
    BY <2>3 DEF FeeSplit, totalFee
  <2>5. CreditTotal(r, FeeFor(r, schedule)) = DebitTotal(r) /\ DebitTotal(r) \in Nat
    BY <2>2, <2>3, <2>4 DEF CreditTotal, DebitTotal
  <2>6. QED
    BY <1>1, <2>5 DEF Transfer
<1>2. ASSUME NEW u \in Users, NEW k \in Deposits, Deposit(u, k)
      PROVE  /\ credits' \in Nat /\ debits' \in Int
             /\ credits' + debits' = credits + debits
  <2>1. k \in Nat
    BY LedgerAssumption
  <2>2. QED
    BY <1>2, <2>1 DEF Deposit
<1>3. ASSUME NEW u \in Users, NEW conversion \in Conversions,
             ConvertFiat(u, conversion[1], conversion[2])
      PROVE  /\ credits' \in Nat /\ debits' \in Int
             /\ credits' + debits' = credits + debits
  <2>1. conversion[1] \in Nat /\ conversion[2] \in Nat
    BY LedgerAssumption
  <2>2. QED
    BY <1>3, <2>1 DEF ConvertFiat
<1>4. QED
  BY <1>1, <1>2, <1>3 DEF Next

\* A posting or an edit makes no run quiet that has read a sum.
LEMMA LedgerMoves ==
  ASSUME ReconciliationInv, Disturb,
         UNCHANGED <<running, totalCredits, totalDebits, reports, ackVars>>,
         credits' \in Nat, debits' \in Int, edited' \in BOOLEAN,
         edited => edited', EditedWhenUnbalanced'
  PROVE  ReconciliationInv'
<1>1. /\ quiet' \in [Runs -> BOOLEAN]
      /\ \A r \in Runs : quiet'[r] => running[r] # "asking"
  BY DEF ReconciliationInv, ReconciliationTypeOK, Disturb
<1>2. ReconciliationTypeOK'
  BY <1>1 DEF ReconciliationInv, ReconciliationTypeOK, ackVars, Reports
<1>3. ReadsCurrent'
  BY <1>1 DEF ReconciliationInv, ReadsCurrent
<1>4. FoundUnacknowledged'
  BY DEF ReconciliationInv, FoundUnacknowledged, ackVars, Reports
<1>5. QuietRunIsExact' /\ AlarmHasCause'
  BY DEF ReconciliationInv, QuietRunIsExact, AlarmHasCause, Reports
<1>6. QED
  BY <1>2, <1>3, <1>4, <1>5 DEF ReconciliationInv

\* A posting moves both sums alike, and disturbs the runs that are asking.
LEMMA PostStep ==
  ASSUME ReconciliationInv, Post
  PROVE  ReconciliationInv'
<1>1. /\ credits' \in Nat /\ debits' \in Int
      /\ credits' + debits' = credits + debits
  BY PostingBalances DEF Post, ReconciliationInv
<1>2. /\ Disturb /\ edited' = edited /\ edited \in BOOLEAN
      /\ UNCHANGED <<running, totalCredits, totalDebits, reports, ackVars>>
  BY DEF Post, ReconciliationInv, ReconciliationTypeOK
<1>3. EditedWhenUnbalanced'
  BY <1>1, <1>2 DEF ReconciliationInv, EditedWhenUnbalanced
<1>4. QED
  BY <1>1, <1>2, <1>3, LedgerMoves

\* An edit by hand disturbs the runs that are asking, and is remembered.
LEMMA EditStep ==
  ASSUME ReconciliationInv, NEW w \in Users, NEW amount \in Edits, Edit(w, amount)
  PROVE  ReconciliationInv'
<1>1. credits' \in Nat /\ debits' \in Int
  BY ReconciliationAssumption DEF ReconciliationInv, ReconciliationTypeOK, Edit
<1>2. /\ Disturb /\ edited' = TRUE
      /\ UNCHANGED <<running, totalCredits, totalDebits, reports, ackVars>>
  BY DEF Edit
<1>3. EditedWhenUnbalanced'
  BY <1>2 DEF EditedWhenUnbalanced
<1>4. QED
  BY <1>1, <1>2, <1>3, LedgerMoves

\* The sums that a run reads are those of the moment.
LEMMA ReadStep ==
  ASSUME ReconciliationInv, NEW r \in Runs,
         BeginRun(r) \/ ReadCredits(r) \/ ReadDebits(r)
  PROVE  ReconciliationInv'
<1>1. /\ UNCHANGED <<sums, quiet, reports, ackVars, edited>>
      /\ running' \in [Runs -> {"idle", "asking", "alerting"}]
      /\ totalCredits' \in [Runs -> Nat \cup {NoSum}]
      /\ totalDebits' \in [Runs -> Int \cup {NoSum}]
  BY DEF ReconciliationInv, ReconciliationTypeOK, BeginRun, ReadCredits, ReadDebits
<1>2. /\ running'[r] = "asking"
      /\ totalCredits'[r] \in {totalCredits[r], credits}
      /\ totalDebits'[r] \in {totalDebits[r], debits}
      /\ \A s \in Runs \ {r} : /\ running'[s] = running[s]
                               /\ totalCredits'[s] = totalCredits[s]
                               /\ totalDebits'[s] = totalDebits[s]
  BY DEF ReconciliationInv, ReconciliationTypeOK, BeginRun, ReadCredits, ReadDebits
<1>3. ReconciliationTypeOK'
  BY <1>1 DEF ReconciliationInv, ReconciliationTypeOK, sums, ackVars, Reports
<1>4. ReadsCurrent'
  BY <1>1, <1>2 DEF ReconciliationInv, ReadsCurrent, sums
<1>5. EditedWhenUnbalanced' /\ FoundUnacknowledged'
  BY <1>1 DEF ReconciliationInv, EditedWhenUnbalanced, FoundUnacknowledged,
              sums, ackVars, Reports
<1>6. QuietRunIsExact' /\ AlarmHasCause'
  BY <1>1 DEF ReconciliationInv, QuietRunIsExact, AlarmHasCause, Reports
<1>7. QED
  BY <1>3, <1>4, <1>5, <1>6 DEF ReconciliationInv

\* A run that stops asking forgets what it has read.
LEMMA RunForgets ==
  ASSUME ReconciliationInv, NEW r \in Runs, NEW s \in {"idle", "alerting"},
         running' = [running EXCEPT ![r] = s],
         totalCredits' = [totalCredits EXCEPT ![r] = NoSum],
         totalDebits' = [totalDebits EXCEPT ![r] = NoSum],
         quiet' = [quiet EXCEPT ![r] = TRUE],
         UNCHANGED <<sums, ackVars, edited>>
  PROVE  /\ running' \in [Runs -> {"idle", "asking", "alerting"}]
         /\ totalCredits' \in [Runs -> Nat \cup {NoSum}]
         /\ totalDebits' \in [Runs -> Int \cup {NoSum}]
         /\ quiet' \in [Runs -> BOOLEAN]
         /\ ReadsCurrent'
         /\ EditedWhenUnbalanced'
<1>1. EditedWhenUnbalanced'
  BY DEF ReconciliationInv, EditedWhenUnbalanced, sums
<1>2. ReadsCurrent'
  BY DEF ReconciliationInv, ReconciliationTypeOK, ReadsCurrent, sums
<1>3. QED
  BY <1>1, <1>2 DEF ReconciliationInv, ReconciliationTypeOK

\* A run that ends forgets what it has read.
LEMMA EndStep ==
  ASSUME ReconciliationInv, NEW r \in Runs, notifyMasterAdmins(r) \/ CrashRun(r)
  PROVE  ReconciliationInv'
<1>1. EndRun(r) /\ UNCHANGED reports
  BY DEF notifyMasterAdmins, CrashRun
<1>2. /\ running' \in [Runs -> {"idle", "asking", "alerting"}]
      /\ totalCredits' \in [Runs -> Nat \cup {NoSum}]
      /\ totalDebits' \in [Runs -> Int \cup {NoSum}]
      /\ quiet' \in [Runs -> BOOLEAN]
      /\ ReadsCurrent' /\ EditedWhenUnbalanced'
  BY <1>1, RunForgets DEF EndRun
<1>3. UNCHANGED <<sums, ackVars, edited, reports>>
  BY <1>1 DEF EndRun
<1>4. ReconciliationTypeOK'
  BY <1>2, <1>3 DEF ReconciliationInv, ReconciliationTypeOK, sums, ackVars, Reports
<1>5. FoundUnacknowledged'
  BY <1>3 DEF ReconciliationInv, FoundUnacknowledged, ackVars, Reports
<1>6. QuietRunIsExact' /\ AlarmHasCause'
  BY <1>3 DEF ReconciliationInv, QuietRunIsExact, AlarmHasCause, Reports
<1>7. QED
  BY <1>2, <1>4, <1>5, <1>6 DEF ReconciliationInv

\* What a new row says of the balance.
LEMMA RowFields ==
  ASSUME NEW s, NEW q, NEW b
  PROVE  [status |-> s, quiet |-> q, balanced |-> b].balanced = b
  OBVIOUS

\* The two sums of a quiet run are those of one moment, and of this one.
LEMMA SaveStep ==
  ASSUME ReconciliationInv, NEW r \in Runs, SaveReport(r)
  PROVE  ReconciliationInv'
<1> DEFINE id == Cardinality(Reports)
           status == StatusOf(totalCredits[r], totalDebits[r])
           row == [status |-> status, quiet |-> quiet[r],
                   balanced |-> credits + debits = 0]
<1>1. /\ id \in ReportIds
      /\ reports' = [i \in Reports \cup {id} |-> IF i = id THEN row ELSE reports[i]]
      /\ totalCredits[r] # NoSum /\ totalDebits[r] # NoSum
  BY DEF SaveReport
<1>2. PICK s \in {"idle", "alerting"} :
        /\ running' = [running EXCEPT ![r] = s]
        /\ totalCredits' = [totalCredits EXCEPT ![r] = NoSum]
        /\ totalDebits' = [totalDebits EXCEPT ![r] = NoSum]
        /\ quiet' = [quiet EXCEPT ![r] = TRUE]
        /\ UNCHANGED <<sums, ackVars, edited>>
  BY DEF SaveReport, EndRun
<1>3. /\ running' \in [Runs -> {"idle", "asking", "alerting"}]
      /\ totalCredits' \in [Runs -> Nat \cup {NoSum}]
      /\ totalDebits' \in [Runs -> Int \cup {NoSum}]
      /\ quiet' \in [Runs -> BOOLEAN]
      /\ ReadsCurrent' /\ EditedWhenUnbalanced'
  BY <1>2, RunForgets
<1>4. /\ Reports' = Reports \cup {id}
      /\ reports'[id] = row
      /\ \A i \in Reports : i # id => reports'[i] = reports[i]
  BY <1>1 DEF Reports
<1>5. status \in {"OK", "MISMATCH"} /\ quiet[r] \in BOOLEAN
  BY DEF StatusOf, ReconciliationInv, ReconciliationTypeOK
<1>6. quiet[r] => (status = "OK" <=> credits + debits = 0)
  BY <1>1 DEF ReconciliationInv, ReadsCurrent, StatusOf
<1>7. ReconciliationTypeOK'
  <2>1. reports' \in [Reports' -> [status : {"OK", "MISMATCH"},
                                   quiet : BOOLEAN, balanced : BOOLEAN]]
    BY <1>1, <1>4, <1>5 DEF ReconciliationInv, ReconciliationTypeOK
  <2>2. QED
    BY <1>1, <1>2, <1>3, <1>4, <2>1
       DEF ReconciliationInv, ReconciliationTypeOK, sums, ackVars
<1>8. FoundUnacknowledged'
  BY <1>2, <1>4 DEF ReconciliationInv, FoundUnacknowledged, ackVars
<1>9. QuietRunIsExact'
  <2>1. reports'[id].quiet => (reports'[id].status = "OK" <=> reports'[id].balanced)
    <3>1. reports'[id].status = status /\ reports'[id].quiet = quiet[r]
      BY <1>4
    <3>2. reports'[id].balanced = (credits + debits = 0)
      BY <1>4, RowFields
    <3>3. QED
      BY <1>6, <3>1, <3>2, Zenon
  <2>2. \A i \in Reports : i # id =>
          (reports'[i].quiet => (reports'[i].status = "OK" <=> reports'[i].balanced))
    BY <1>4 DEF ReconciliationInv, QuietRunIsExact
  <2>3. QED
    BY <1>4, <2>1, <2>2, Zenon DEF QuietRunIsExact
<1>10. AlarmHasCause'
  BY <1>2, <1>4, <1>5, <1>6
     DEF ReconciliationInv, AlarmHasCause, EditedWhenUnbalanced
<1>11. QED
  BY <1>3, <1>7, <1>8, <1>9, <1>10 DEF ReconciliationInv

\* Two that find a report at once are in a race, and so is the report.
LEMMA AcknowledgeStep ==
  ASSUME ReconciliationInv, NEW o \in Officers,
         \/ \E i \in ReportIds : FindUnacknowledged(o, i)
         \/ Acknowledge(o)
         \/ FailAcknowledge(o)
  PROVE  ReconciliationInv'
<1>1. UNCHANGED <<sums, runVars, reports, edited>>
  BY DEF FindUnacknowledged, Found, Acknowledge, FailAcknowledge, EndAcknowledge
<1>2. EditedWhenUnbalanced' /\ ReadsCurrent' /\ QuietRunIsExact' /\ AlarmHasCause'
  BY <1>1 DEF ReconciliationInv, EditedWhenUnbalanced, ReadsCurrent,
              QuietRunIsExact, AlarmHasCause, Reports, sums, runVars
<1>3. ASSUME NEW i \in ReportIds, FindUnacknowledged(o, i)
      PROVE  ReconciliationTypeOK' /\ FoundUnacknowledged'
  <2>1. /\ i \in Reports /\ acknowledged[i] = NoOfficer
        /\ acknowledging[o] = NoReport
        /\ acknowledging' = [acknowledging EXCEPT ![o] = i]
        /\ acknowledged' = acknowledged
        /\ raced \subseteq raced' /\ raced' \subseteq raced \cup {i}
        /\ \A p \in Officers : acknowledging[p] = i => i \in raced'
    BY <1>3 DEF FindUnacknowledged, Found
  <2>2. ReconciliationTypeOK'
    BY <1>1, <2>1 DEF ReconciliationInv, ReconciliationTypeOK, sums, runVars, Reports
  <2>3. i # NoReport
    BY DEF ReportIds, NoReport
  <2>4. FoundUnacknowledged'
    BY <1>1, <2>1, <2>3
       DEF ReconciliationInv, ReconciliationTypeOK, FoundUnacknowledged, Reports
  <2>5. QED
    BY <2>2, <2>4
<1>4. ASSUME Acknowledge(o) \/ FailAcknowledge(o)
      PROVE  ReconciliationTypeOK' /\ FoundUnacknowledged'
  <2> DEFINE i == acknowledging[o]
  <2>1. /\ i \in Reports /\ i # NoReport
        /\ acknowledging' = [acknowledging EXCEPT ![o] = NoReport]
        /\ raced' = raced
        /\ acknowledged' \in {acknowledged, [acknowledged EXCEPT ![i] = o]}
    BY <1>4 DEF Acknowledge, FailAcknowledge, EndAcknowledge, ReconciliationInv,
                FoundUnacknowledged
  <2>2. Reports \subseteq ReportIds
    BY DEF ReconciliationInv, ReconciliationTypeOK
  <2>3. ReconciliationTypeOK'
    BY <1>1, <2>1, <2>2
       DEF ReconciliationInv, ReconciliationTypeOK, sums, runVars, Reports
  <2>4. \A j \in ReportIds \ {i} : acknowledged'[j] = acknowledged[j]
    BY <2>1 DEF ReconciliationInv, ReconciliationTypeOK
  <2>5. FoundUnacknowledged'
    BY <1>1, <2>1, <2>2, <2>4
       DEF ReconciliationInv, ReconciliationTypeOK, FoundUnacknowledged, Reports
  <2>6. QED
    BY <2>3, <2>5
<1>5. QED
  BY <1>2, <1>3, <1>4 DEF ReconciliationInv

\* Every step keeps the invariant.
LEMMA ReconciliationStep ==
  ReconciliationInv /\ [ReconciliationNext]_reconciliationVars => ReconciliationInv'
<1> SUFFICES ASSUME ReconciliationInv, [ReconciliationNext]_reconciliationVars
             PROVE  ReconciliationInv'
  OBVIOUS
<1>1. CASE UNCHANGED reconciliationVars
  BY <1>1 DEF reconciliationVars, sums, ReconciliationInv, ReconciliationTypeOK,
              EditedWhenUnbalanced, ReadsCurrent, FoundUnacknowledged,
              QuietRunIsExact, AlarmHasCause, Reports
<1>2. CASE ReconciliationNext
  BY <1>2, PostStep, EditStep, ReadStep, SaveStep, EndStep, AcknowledgeStep
     DEF ReconciliationNext
<1>3. QED
  BY <1>1, <1>2

\* The invariant holds in every reachable state of the reports.
THEOREM ReconciliationInvariant == ReconciliationSpec => []ReconciliationInv
  BY ReconciliationStart, ReconciliationStep, PTL DEF ReconciliationSpec

\* The report of a run during which nothing was posted says OK exactly when the
\* entries add up to zero.
THEOREM ReconciliationQuietRunIsExact == ReconciliationSpec => []QuietRunIsExact
<1>1. ReconciliationInv => QuietRunIsExact
  BY DEF ReconciliationInv
<1>2. QED
  BY <1>1, ReconciliationInvariant, PTL

\* Nothing that the program posts makes a quiet run raise an alarm, whatever the
\* transfers, the fees, the deposits and the conversions are.
THEOREM ReconciliationAlarmHasCause == ReconciliationSpec => []AlarmHasCause
<1>1. ReconciliationInv => AlarmHasCause
  BY DEF ReconciliationInv
<1>2. QED
  BY <1>1, ReconciliationInvariant, PTL

\* Who acknowledged a report does not change, unless two administrators had
\* found it unacknowledged at once.
THEOREM ReconciliationAcknowledgedOnce == ReconciliationSpec => AcknowledgedOnce
<1>1. ReconciliationInv /\ [ReconciliationNext]_reconciliationVars =>
        [\A i \in ReportIds \ raced :
           acknowledged[i] # NoOfficer => acknowledged'[i] = acknowledged[i]]_reconciliationVars
  <2> SUFFICES ASSUME ReconciliationInv, ReconciliationNext,
                      NEW i \in ReportIds \ raced, acknowledged[i] # NoOfficer
               PROVE  acknowledged'[i] = acknowledged[i]
    OBVIOUS
  <2>1. ASSUME NEW o \in Officers, Acknowledge(o)
        PROVE  acknowledged'[i] = acknowledged[i]
    <3>1. acknowledging[o] # NoReport
      BY <2>1 DEF Acknowledge
    <3>2. acknowledging[o] # i
      BY <3>1 DEF ReconciliationInv, FoundUnacknowledged
    <3>3. QED
      BY <2>1, <3>2 DEF Acknowledge, ReconciliationInv, ReconciliationTypeOK
  <2>2. CASE UNCHANGED acknowledged
    BY <2>2
  <2>3. QED
    BY <2>1, <2>2
       DEF ReconciliationNext, Post, Edit, BeginRun, ReadCredits, ReadDebits,
           SaveReport, notifyMasterAdmins, CrashRun, EndRun, FindUnacknowledged,
           Found, FailAcknowledge, EndAcknowledge, ackVars
<1>2. QED
  BY <1>1, ReconciliationInvariant, PTL DEF ReconciliationSpec, AcknowledgedOnce

-----------------------------------------------------------------------------
(* The pool of connections *)

\* What holds a connection, by kind.
Transactions == {e \in Executions : stage[e] \in InTx}
Readers == {e \in Executions : stage[e] = "reading"}
Running == {p \in Others : other[p] = "running"}

\* What waits in the queue.
Queued == {pending[i] : i \in 1 .. Len(pending)}

\* What waits with a ticket has not got its connection yet: a second query waits,
\* or was left behind by a transaction that ended, and then does not run yet.
Fits(t) ==
  /\ t.for = "transaction" => stage[t.who] \in {"begin", "ended"}
  /\ t.for = "schedule" => stage[t.who] \in {"asking", "ended"} /\ t.who \notin stray
  /\ t.for = "query" => other[t.who] = "waiting"

\* Nobody waits twice for the same thing.
QueueFits ==
  /\ \A i, j \in 1 .. Len(pending) : pending[i] = pending[j] => i = j
  /\ \A t \in Queued : Fits(t)

\* Only what a transaction left behind is stray.
StraysEnded == \A e \in stray : stage[e] = "ended"

PoolInv == PoolTypeOK /\ QueueFits /\ StraysEnded

\* The holders are finitely many, whatever their stages are.
LEMMA HoldersFinite ==
  ASSUME stray \subseteq Executions
  PROVE  /\ IsFiniteSet(Transactions) /\ Cardinality(Transactions) \in Nat
         /\ IsFiniteSet(Readers) /\ Cardinality(Readers) \in Nat
         /\ IsFiniteSet(Running) /\ Cardinality(Running) \in Nat
         /\ IsFiniteSet(stray) /\ Cardinality(stray) \in Nat
<1>1. /\ Transactions \subseteq Executions /\ Readers \subseteq Executions
      /\ Running \subseteq Others
  BY DEF Transactions, Readers, Running
<1>2. /\ IsFiniteSet(Transactions) /\ IsFiniteSet(Readers)
      /\ IsFiniteSet(Running) /\ IsFiniteSet(stray)
  BY <1>1, FS_Subset, ConnectionPoolAssumption
<1>3. QED
  BY <1>2, FS_CardinalityType

\* How many connections are held is the sum of the four kinds.
LEMMA HeldByKind ==
  Held = Cardinality(Transactions) + Cardinality(Readers) + Cardinality(stray)
           + Cardinality(Running)
  BY DEF Held, Count, Transactions, Readers, Running

\* With nothing begun every connection is free.
LEMMA PoolStart == PoolInit => PoolInv
<1> SUFFICES ASSUME PoolInit PROVE PoolInv
  OBVIOUS
<1>1. Transactions = {} /\ Readers = {} /\ Running = {} /\ stray = {}
  BY DEF PoolInit, Transactions, Readers, Running, InTx
<1>2. Held = 0
  BY <1>1, HeldByKind, FS_EmptySet
<1>3. PoolTypeOK
  BY <1>2, ConnectionPoolAssumption DEF PoolInit, PoolTypeOK
<1>4. QueueFits /\ StraysEnded
  BY DEF PoolInit, QueueFits, Queued, StraysEnded
<1>5. QED
  BY <1>3, <1>4 DEF PoolInv

\* What the first in the queue leaves behind, and what joins at its end.
LEMMA QueueMoves ==
  ASSUME NEW s \in Seq(Tickets), NEW t \in Tickets
  PROVE  /\ Append(s, t) \in Seq(Tickets) /\ Len(Append(s, t)) = Len(s) + 1
         /\ \A i \in 1 .. Len(s) : Append(s, t)[i] = s[i]
         /\ Append(s, t)[Len(s) + 1] = t
         /\ s # <<>> => /\ Head(s) = s[1] /\ 1 \in 1 .. Len(s)
                        /\ Tail(s) \in Seq(Tickets) /\ Len(Tail(s)) = Len(s) - 1
                        /\ \A i \in 1 .. Len(s) - 1 : Tail(s)[i] = s[i + 1]
  OBVIOUS

\* A ticket that fits and was not there yet may join the queue, if those that are
\* there still fit.
LEMMA Join ==
  ASSUME PoolInv, NEW t \in Tickets, pending' = Append(pending, t), Fits(t)',
         t \notin Queued, \A u \in Queued : Fits(u)'
  PROVE  QueueFits' /\ pending' \in Seq(Tickets)
<1>1. pending \in Seq(Tickets)
  BY DEF PoolInv, PoolTypeOK
<1>2. /\ Len(pending') = Len(pending) + 1 /\ Len(pending) \in Nat
      /\ \A i \in 1 .. Len(pending) : pending'[i] = pending[i]
      /\ pending'[Len(pending) + 1] = t
  BY <1>1, QueueMoves
<1>3. \A i \in 1 .. Len(pending') : i \in 1 .. Len(pending) \/ i = Len(pending) + 1
  BY <1>2
<1>4. \A i, j \in 1 .. Len(pending') : pending'[i] = pending'[j] => i = j
  BY <1>2, <1>3 DEF PoolInv, QueueFits, Queued
<1>5. \A u \in Queued' : u \in Queued \/ u = t
  BY <1>2, <1>3 DEF Queued
<1>6. QED
  BY <1>1, <1>4, <1>5, QueueMoves DEF QueueFits

\* The first leaves the queue, if the others still fit.
LEMMA Leave ==
  ASSUME PoolInv, pending # <<>>, pending' = Tail(pending),
         \A u \in Queued \ {Head(pending)} : Fits(u)'
  PROVE  QueueFits' /\ pending' \in Seq(Tickets) /\ Head(pending) \in Queued
<1>1. pending \in Seq(Tickets)
  BY DEF PoolInv, PoolTypeOK
<1>2. /\ Head(pending) = pending[1] /\ Len(pending) \in Nat
      /\ 1 \in 1 .. Len(pending)
      /\ Len(pending') = Len(pending) - 1
      /\ \A i \in 1 .. Len(pending) - 1 : pending'[i] = pending[i + 1]
      /\ pending' \in Seq(Tickets)
  BY <1>1
<1>3. \A i \in 1 .. Len(pending') : /\ i + 1 \in 1 .. Len(pending)
                                    /\ pending'[i] = pending[i + 1]
                                    /\ i + 1 # 1
  BY <1>2
<1>4. \A i \in 1 .. Len(pending') : pending'[i] \in Queued \ {Head(pending)}
  BY <1>2, <1>3 DEF PoolInv, QueueFits, Queued
<1>5. \A i, j \in 1 .. Len(pending') : pending'[i] = pending'[j] => i = j
  BY <1>2, <1>3 DEF PoolInv, QueueFits
<1>6. \A u \in Queued' : u \in Queued \ {Head(pending)}
  BY <1>4 DEF Queued
<1>7. QED
  BY <1>2, <1>5, <1>6 DEF QueueFits, Queued

\* The holders after a step, by kind.
LEMMA HeldAfter ==
  ASSUME stray' \subseteq Executions
  PROVE  /\ Held' = Cardinality(Transactions') + Cardinality(Readers')
                      + Cardinality(stray') + Cardinality(Running')
         /\ IsFiniteSet(Transactions') /\ Cardinality(Transactions') \in Nat
         /\ IsFiniteSet(Readers') /\ Cardinality(Readers') \in Nat
         /\ IsFiniteSet(Running') /\ Cardinality(Running') \in Nat
         /\ IsFiniteSet(stray') /\ Cardinality(stray') \in Nat
<1>1. /\ Transactions' \subseteq Executions /\ Readers' \subseteq Executions
      /\ Running' \subseteq Others
  BY DEF Transactions, Readers, Running
<1>2. /\ IsFiniteSet(Transactions') /\ IsFiniteSet(Readers')
      /\ IsFiniteSet(Running') /\ IsFiniteSet(stray')
  BY <1>1, FS_Subset, ConnectionPoolAssumption
<1>3. Held' = Cardinality(Transactions') + Cardinality(Readers')
                + Cardinality(stray') + Cardinality(Running')
  BY DEF Held, Count, Transactions, Readers, Running
<1>4. QED
  BY <1>2, <1>3, FS_CardinalityType

\* One element more or less changes the size of a finite set by one.
LEMMA OneMore ==
  ASSUME NEW S, IsFiniteSet(S), NEW x
  PROVE  /\ x \notin S => Cardinality(S \cup {x}) = Cardinality(S) + 1
         /\ x \in S => Cardinality(S \ {x}) = Cardinality(S) - 1
  BY FS_AddElement, FS_RemoveElement

\* The books of the pool: what is taken from it is held, and comes back.
LEMMA PoolCounts ==
  ASSUME PoolInv, stray' \subseteq Executions, free' \in Int,
         free' - free = (Cardinality(Transactions) - Cardinality(Transactions'))
                          + (Cardinality(Readers) - Cardinality(Readers'))
                          + (Cardinality(stray) - Cardinality(stray'))
                          + (Cardinality(Running) - Cardinality(Running'))
  PROVE  free' + Held' = MaxConns /\ free' <= MaxConns
<1>1. /\ free + Held = MaxConns /\ free \in Int /\ MaxConns \in Int
      /\ stray \subseteq Executions
  BY ConnectionPoolAssumption DEF PoolInv, PoolTypeOK
<1>2. QED
  BY <1>1, HoldersFinite, HeldByKind, HeldAfter

\* A connection goes to the first in the queue, if that one still wants it.
LEMMA GrantStep == ASSUME PoolInv, Grant PROVE PoolInv'
<1> DEFINE t == Head(pending)
<1> USE DEF PoolInv
<1>1. /\ pending # <<>> /\ pending' = Tail(pending) /\ executed' = executed
      /\ free > 0
  BY DEF Grant
<1>2. t \in Queued /\ t \in Tickets
  <2>1. pending \in Seq(Tickets)
    BY DEF PoolTypeOK
  <2>2. t = pending[1] /\ 1 \in 1 .. Len(pending) /\ t \in Tickets
    BY <1>1, <2>1
  <2>3. QED
    BY <2>2 DEF Queued
<1>3. \A u \in Queued : u \in Tickets /\ Fits(u)
  <2>1. pending \in Seq(Tickets)
    BY DEF PoolTypeOK
  <2>2. QED
    BY <2>1 DEF Queued, QueueFits
<1>4. \A u \in Queued \ {t} : u.for = t.for => u.who # t.who
  BY <1>2, <1>3 DEF Tickets
<1>5. /\ free \in 0 .. MaxConns /\ free - 1 \in 0 .. MaxConns /\ MaxConns \in Int
  BY <1>1, ConnectionPoolAssumption DEF PoolTypeOK
<1>6. Fits(t)
  BY <1>2, <1>3
<1> HIDE DEF t
<1>7. CASE t.for = "transaction"
  <2>1. t.who \in Executions /\ UNCHANGED <<stray, other>>
    BY <1>2, <1>7 DEF Grant, Tickets, t
  <2>2. CASE stage[t.who] = "begin"
    <3>1. stage' = [stage EXCEPT ![t.who] = "open"] /\ free' = free - 1
      BY <1>7, <2>2 DEF Grant, t
    <3>2. /\ stage'[t.who] = "open"
          /\ \A e \in Executions \ {t.who} : stage'[e] = stage[e]
          /\ stage' \in [Executions -> {"idle", "begin", "ended"} \cup InTx]
      BY <2>1, <3>1 DEF PoolTypeOK, InTx
    <3>3. /\ Transactions' = Transactions \cup {t.who}
          /\ t.who \notin Transactions
          /\ Readers' = Readers /\ Running' = Running
      BY <2>1, <2>2, <3>2 DEF Transactions, Readers, Running, InTx
    <3>4. Cardinality(Transactions') = Cardinality(Transactions) + 1
      BY <3>3, HoldersFinite, OneMore DEF PoolTypeOK
    <3>5. free' + Held' = MaxConns
      BY <1>5, <2>1, <3>1, <3>3, <3>4, HoldersFinite, PoolCounts DEF PoolTypeOK
    <3>6. \A u \in Queued \ {t} : Fits(u)'
      BY <1>3, <1>4, <1>7, <2>1, <2>2, <3>2 DEF Fits, Tickets
    <3>7. QueueFits' /\ pending' \in Seq(Tickets)
      BY <1>1, <3>6, Leave DEF t
    <3>8. StraysEnded'
      BY <2>1, <2>2, <3>2 DEF StraysEnded, PoolTypeOK
    <3>9. PoolTypeOK'
      BY <1>1, <1>5, <2>1, <3>1, <3>2, <3>5, <3>7 DEF PoolTypeOK
    <3>10. QED
      BY <3>7, <3>8, <3>9
  <2>3. CASE stage[t.who] # "begin"
    <3>1. UNCHANGED <<stage, free>>
      BY <1>7, <2>3 DEF Grant, t
    <3>2. \A u \in Queued \ {t} : Fits(u)'
      BY <1>3, <2>1, <3>1 DEF Fits
    <3>3. QueueFits' /\ pending' \in Seq(Tickets)
      BY <1>1, <3>2, Leave DEF t
    <3>4. PoolTypeOK' /\ StraysEnded'
      BY <1>1, <2>1, <3>1, <3>3 DEF PoolTypeOK, StraysEnded, Held, Count
    <3>5. QED
      BY <3>3, <3>4
  <2>4. QED
    BY <2>2, <2>3
<1>8. CASE t.for = "schedule"
  <2>1. /\ t.who \in Executions /\ free' = free - 1 /\ other' = other
        /\ t.who \notin stray /\ stage[t.who] \in {"asking", "ended"}
        /\ Running' = Running
    BY <1>2, <1>6, <1>8 DEF Grant, Tickets, t, Fits, Running
  <2>2. CASE stage[t.who] = "asking"
    <3>1. stage' = [stage EXCEPT ![t.who] = "reading"] /\ stray' = stray
      BY <1>8, <2>2 DEF Grant, t
    <3>2. /\ stage'[t.who] = "reading"
          /\ \A e \in Executions \ {t.who} : stage'[e] = stage[e]
          /\ stage' \in [Executions -> {"idle", "begin", "ended"} \cup InTx]
      BY <2>1, <3>1 DEF PoolTypeOK, InTx
    <3>3. /\ Transactions' = Transactions
          /\ Readers' = Readers \cup {t.who} /\ t.who \notin Readers
      BY <2>1, <2>2, <3>2 DEF Transactions, Readers, InTx
    <3>4. Cardinality(Readers') = Cardinality(Readers) + 1
      BY <3>3, HoldersFinite, OneMore DEF PoolTypeOK
    <3>5. free' + Held' = MaxConns
      BY <1>5, <2>1, <3>1, <3>3, <3>4, HoldersFinite, PoolCounts DEF PoolTypeOK
    <3>6. \A u \in Queued \ {t} : Fits(u)'
      BY <1>3, <1>4, <1>8, <2>1, <2>2, <3>1, <3>2 DEF Fits, Tickets
    <3>7. QueueFits' /\ pending' \in Seq(Tickets)
      BY <1>1, <3>6, Leave DEF t
    <3>8. StraysEnded'
      BY <2>1, <3>1, <3>2 DEF StraysEnded, PoolTypeOK
    <3>9. PoolTypeOK'
      BY <1>1, <1>5, <2>1, <3>1, <3>2, <3>5, <3>7 DEF PoolTypeOK
    <3>10. QED
      BY <3>7, <3>8, <3>9
  <2>3. CASE stage[t.who] # "asking"
    <3>1. stray' = stray \cup {t.who} /\ stage' = stage
      BY <1>8, <2>3 DEF Grant, t
    <3>2. Transactions' = Transactions /\ Readers' = Readers
      BY <3>1 DEF Transactions, Readers
    <3>3. Cardinality(stray') = Cardinality(stray) + 1 /\ stray' \subseteq Executions
      BY <2>1, <3>1, HoldersFinite, OneMore DEF PoolTypeOK
    <3>4. free' + Held' = MaxConns
      BY <1>5, <2>1, <3>2, <3>3, HoldersFinite, PoolCounts DEF PoolTypeOK
    <3>5. \A u \in Queued \ {t} : Fits(u)'
      BY <1>3, <1>4, <1>8, <2>1, <3>1 DEF Fits
    <3>6. QueueFits' /\ pending' \in Seq(Tickets)
      BY <1>1, <3>5, Leave DEF t
    <3>7. StraysEnded'
      BY <2>1, <2>3, <3>1 DEF StraysEnded
    <3>8. PoolTypeOK'
      BY <1>1, <1>5, <2>1, <3>1, <3>3, <3>4, <3>6 DEF PoolTypeOK
    <3>9. QED
      BY <3>6, <3>7, <3>8
  <2>4. QED
    BY <2>2, <2>3
<1>9. CASE t.for = "query"
  <2>1. /\ t.who \in Others /\ free' = free - 1 /\ UNCHANGED <<stage, stray>>
        /\ other' = [other EXCEPT ![t.who] = "running"]
        /\ other[t.who] = "waiting"
    BY <1>2, <1>6, <1>9 DEF Grant, Tickets, t, Fits
  <2>2. /\ other'[t.who] = "running"
        /\ \A p \in Others \ {t.who} : other'[p] = other[p]
        /\ other' \in [Others -> {"idle", "waiting", "running"}]
    BY <2>1 DEF PoolTypeOK
  <2>3. /\ Running' = Running \cup {t.who} /\ t.who \notin Running
        /\ Transactions' = Transactions /\ Readers' = Readers
    BY <2>1, <2>2 DEF Transactions, Readers, Running
  <2>4. Cardinality(Running') = Cardinality(Running) + 1
    BY <2>3, HoldersFinite, OneMore DEF PoolTypeOK
  <2>5. free' + Held' = MaxConns
    BY <1>5, <2>1, <2>3, <2>4, HoldersFinite, PoolCounts DEF PoolTypeOK
  <2>6. \A u \in Queued \ {t} : Fits(u)'
    BY <1>3, <1>4, <1>9, <2>1, <2>2 DEF Fits, Tickets
  <2>7. QueueFits' /\ pending' \in Seq(Tickets)
    BY <1>1, <2>6, Leave DEF t
  <2>8. PoolTypeOK' /\ StraysEnded'
    BY <1>1, <1>5, <2>1, <2>2, <2>5, <2>7 DEF PoolTypeOK, StraysEnded
  <2>9. QED
    BY <2>7, <2>8
<1>10. QED
  BY <1>2, <1>7, <1>8, <1>9 DEF Tickets

\* What is in the queue is a ticket, and fits.
LEMMA QueuedFit == ASSUME PoolInv PROVE \A u \in Queued : u \in Tickets /\ Fits(u)
<1>1. pending \in Seq(Tickets)
  BY DEF PoolInv, PoolTypeOK
<1>2. QED
  BY <1>1 DEF PoolInv, QueueFits, Queued

\* Queries, transactions and their second queries join the queue.
LEMMA EnqueueStep ==
  ASSUME PoolInv,
         \/ \E p \in Others : Send(p)
         \/ \E e \in Executions : Begin(e) \/ AskSchedule(e)
  PROVE  PoolInv'
<1> USE DEF PoolInv
<1>1. /\ UNCHANGED <<free, stray, executed>>
      /\ Readers' = Readers /\ Transactions' = Transactions /\ Running' = Running
      /\ stage' \in [Executions -> {"idle", "begin", "ended"} \cup InTx]
      /\ other' \in [Others -> {"idle", "waiting", "running"}]
      /\ \A e \in Executions : stage[e] = "ended" => stage'[e] = "ended"
  <2>1. ASSUME NEW p \in Others, Send(p)
        PROVE  /\ UNCHANGED <<stage, free, stray, executed>> /\ Running' = Running
               /\ other' \in [Others -> {"idle", "waiting", "running"}]
    BY <2>1 DEF Send, PoolTypeOK, Running
  <2>2. ASSUME NEW e \in Executions, Begin(e) \/ AskSchedule(e)
        PROVE  /\ UNCHANGED <<other, free, stray, executed>>
               /\ Readers' = Readers /\ Transactions' = Transactions
               /\ stage' \in [Executions -> {"idle", "begin", "ended"} \cup InTx]
               /\ \A d \in Executions : stage[d] = "ended" => stage'[d] = "ended"
    BY <2>2 DEF Begin, AskSchedule, PoolTypeOK, Readers, Transactions, InTx
  <2>3. QED
    BY <2>1, <2>2 DEF Readers, Transactions, Running, PoolTypeOK
<1>2. QueueFits' /\ pending' \in Seq(Tickets)
  <2>1. ASSUME NEW p \in Others, Send(p) PROVE QueueFits' /\ pending' \in Seq(Tickets)
    <3> DEFINE t == Ticket(p, "query")
    <3>1. /\ t \in Tickets /\ pending' = Append(pending, t)
          /\ other[p] = "idle" /\ UNCHANGED <<stage, stray>>
          /\ other'[p] = "waiting"
          /\ \A q \in Others \ {p} : other'[q] = other[q]
          /\ t.who = p /\ t.for = "query"
      BY <2>1 DEF Send, Ticket, Tickets, PoolTypeOK
    <3> HIDE DEF t
    <3>2. \A u \in Queued : u # t /\ Fits(u)'
      BY <3>1, QueuedFit DEF Fits, Tickets
    <3>3. Fits(t)'
      BY <3>1 DEF Fits
    <3>4. QED
      BY <3>1, <3>2, <3>3, Join
  <2>2. ASSUME NEW e \in Executions, Begin(e) PROVE QueueFits' /\ pending' \in Seq(Tickets)
    <3> DEFINE t == Ticket(e, "transaction")
    <3>1. /\ t \in Tickets /\ pending' = Append(pending, t)
          /\ stage[e] = "idle" /\ UNCHANGED <<other, stray>>
          /\ stage'[e] = "begin"
          /\ \A d \in Executions \ {e} : stage'[d] = stage[d]
          /\ t.who = e /\ t.for = "transaction"
      BY <2>2 DEF Begin, Ticket, Tickets, PoolTypeOK
    <3> HIDE DEF t
    <3>2. \A u \in Queued : u # t /\ Fits(u)'
      BY <3>1, QueuedFit DEF Fits, Tickets
    <3>3. Fits(t)'
      BY <3>1 DEF Fits
    <3>4. QED
      BY <3>1, <3>2, <3>3, Join
  <2>3. ASSUME NEW e \in Executions, AskSchedule(e)
        PROVE  QueueFits' /\ pending' \in Seq(Tickets)
    <3> DEFINE t == Ticket(e, "schedule")
    <3>1. /\ t \in Tickets /\ pending' = Append(pending, t)
          /\ stage[e] = "claimed" /\ UNCHANGED <<other, stray>>
          /\ stage'[e] = "asking"
          /\ \A d \in Executions \ {e} : stage'[d] = stage[d]
          /\ t.who = e /\ t.for = "schedule"
          /\ e \notin stray
      BY <2>3 DEF AskSchedule, Ticket, Tickets, PoolTypeOK, StraysEnded
    <3> HIDE DEF t
    <3>2. \A u \in Queued : u # t /\ Fits(u)'
      BY <3>1, QueuedFit DEF Fits, Tickets
    <3>3. Fits(t)'
      BY <3>1 DEF Fits
    <3>4. QED
      BY <3>1, <3>2, <3>3, Join
  <2>4. QED
    BY <2>1, <2>2, <2>3
<1>3. free' + Held' = MaxConns
  BY <1>1 DEF PoolTypeOK, Held, Count, Transactions, Readers, Running
<1>4. PoolTypeOK' /\ StraysEnded'
  BY <1>1, <1>2, <1>3 DEF PoolTypeOK, StraysEnded
<1>5. QED
  BY <1>2, <1>4

\* A query that is answered gives its connection back.
LEMMA AnswerStep ==
  ASSUME PoolInv,
         \/ \E p \in Others : Answer(p)
         \/ \E e \in Executions : AnswerStray(e)
  PROVE  PoolInv'
<1> USE DEF PoolInv
<1>1. /\ UNCHANGED <<stage, pending, executed>> /\ free' = free + 1
      /\ Transactions' = Transactions /\ Readers' = Readers
      /\ Queued' = Queued
      /\ free \in Int /\ free >= 0
  BY DEF Answer, AnswerStray, Transactions, Readers, Queued, PoolTypeOK
<1>2. ASSUME NEW p \in Others, Answer(p) PROVE PoolInv'
  <2>1. /\ other[p] = "running" /\ stray' = stray /\ other'[p] = "idle"
        /\ \A q \in Others \ {p} : other'[q] = other[q]
        /\ other' \in [Others -> {"idle", "waiting", "running"}]
    BY <1>2 DEF Answer, PoolTypeOK
  <2>2. Running' = Running \ {p} /\ p \in Running
    BY <2>1 DEF Running
  <2>3. Cardinality(Running') = Cardinality(Running) - 1
    BY <2>2, HoldersFinite, OneMore DEF PoolTypeOK
  <2>4. free' + Held' = MaxConns /\ free' <= MaxConns
    BY <1>1, <2>1, <2>3, HoldersFinite, PoolCounts DEF PoolTypeOK
  <2>5. QueueFits'
    BY <1>1, <2>1, QueuedFit DEF QueueFits, Fits, Tickets
  <2>6. PoolTypeOK' /\ StraysEnded'
    BY <1>1, <2>1, <2>4, ConnectionPoolAssumption DEF PoolTypeOK, StraysEnded
  <2>7. QED
    BY <2>5, <2>6
<1>3. ASSUME NEW e \in Executions, AnswerStray(e) PROVE PoolInv'
  <2>1. e \in stray /\ stray' = stray \ {e} /\ other' = other /\ Running' = Running
    BY <1>3 DEF AnswerStray, Running
  <2>2. Cardinality(stray') = Cardinality(stray) - 1
    BY <2>1, HoldersFinite, OneMore DEF PoolTypeOK
  <2>3. free' + Held' = MaxConns /\ free' <= MaxConns
    BY <1>1, <2>1, <2>2, HoldersFinite, PoolCounts DEF PoolTypeOK
  <2>4. QueueFits'
    BY <1>1, <2>1, QueuedFit DEF QueueFits, Fits
  <2>5. PoolTypeOK' /\ StraysEnded'
    BY <1>1, <2>1, <2>3, ConnectionPoolAssumption DEF PoolTypeOK, StraysEnded
  <2>6. QED
    BY <2>4, <2>5
<1>4. QED
  BY <1>2, <1>3

\* A transaction gives back what it holds when it ends, and its second query's
\* connection when that is answered; claiming the row or giving up takes none.
LEMMA ExecutionStep ==
  ASSUME PoolInv, NEW e \in Executions,
         \/ GiveUp(e) \/ Claim(e) \/ ClaimFails(e)
         \/ ReadSchedule(e) \/ PostAndCommit(e) \/ Timeout(e)
  PROVE  PoolInv'
<1> USE DEF PoolInv
<1>1. UNCHANGED <<pending, other>> /\ Running' = Running /\ Queued' = Queued
  BY DEF GiveUp, Claim, ClaimFails, ReadSchedule, PostAndCommit, Timeout, EndTx,
         Running, Queued
<1>2. /\ \A d \in Executions \ {e} : stage'[d] = stage[d]
      /\ stage' \in [Executions -> {"idle", "begin", "ended"} \cup InTx]
      /\ executed' \subseteq Rows
  BY DEF GiveUp, Claim, ClaimFails, ReadSchedule, PostAndCommit, Timeout, EndTx,
         PoolTypeOK, InTx, Rows
<1>3. stage[e] # "ended" /\ e \notin stray
  BY DEF GiveUp, Claim, ClaimFails, ReadSchedule, PostAndCommit, Timeout, Holding,
         StraysEnded
<1>4. free \in Int /\ free >= 0
  BY DEF PoolTypeOK
<1>5. CASE GiveUp(e) \/ Claim(e)
  <2>1. /\ UNCHANGED <<free, stray>>
        /\ \/ stage[e] = "begin" /\ stage'[e] = "ended"
           \/ stage[e] = "open" /\ stage'[e] = "claimed"
    BY <1>5 DEF GiveUp, Claim, PoolTypeOK
  <2>2. Transactions' = Transactions /\ Readers' = Readers
    BY <1>2, <2>1 DEF Transactions, Readers, InTx
  <2>3. free' + Held' = MaxConns
    BY <1>1, <2>1, <2>2 DEF PoolTypeOK, Held, Count, Transactions, Readers, Running
  <2>4. QueueFits'
    BY <1>1, <1>2, <2>1, QueuedFit DEF QueueFits, Fits, Tickets
  <2>5. PoolTypeOK' /\ StraysEnded'
    BY <1>1, <1>2, <1>3, <2>1, <2>3 DEF PoolTypeOK, StraysEnded
  <2>6. QED
    BY <2>4, <2>5
<1>6. CASE ReadSchedule(e)
  <2>1. /\ stage[e] = "reading" /\ stage'[e] = "priced"
        /\ free' = free + 1 /\ stray' = stray
    BY <1>6 DEF ReadSchedule, PoolTypeOK
  <2>2. /\ Transactions' = Transactions
        /\ Readers' = Readers \ {e} /\ e \in Readers
    BY <1>2, <2>1 DEF Transactions, Readers, InTx
  <2>3. Cardinality(Readers') = Cardinality(Readers) - 1
    BY <2>2, HoldersFinite, OneMore DEF PoolTypeOK
  <2>4. free' + Held' = MaxConns /\ free' <= MaxConns
    BY <1>1, <1>4, <2>1, <2>2, <2>3, HoldersFinite, PoolCounts DEF PoolTypeOK
  <2>5. QueueFits'
    BY <1>1, <1>2, <2>1, QueuedFit DEF QueueFits, Fits, Tickets
  <2>6. PoolTypeOK' /\ StraysEnded'
    BY <1>1, <1>2, <1>3, <1>4, <2>1, <2>4, ConnectionPoolAssumption
       DEF PoolTypeOK, StraysEnded
  <2>7. QED
    BY <2>5, <2>6
<1>7. CASE ClaimFails(e) \/ PostAndCommit(e) \/ (Timeout(e) /\ stage[e] # "reading")
  <2>1. /\ stage[e] \in InTx \ {"reading"} /\ stage'[e] = "ended"
        /\ free' = free + 1 /\ stray' = stray
    BY <1>7 DEF ClaimFails, PostAndCommit, Timeout, EndTx, Holding, InTx, PoolTypeOK
  <2>2. /\ Transactions' = Transactions \ {e} /\ e \in Transactions
        /\ Readers' = Readers
    BY <1>2, <2>1 DEF Transactions, Readers, InTx
  <2>3. Cardinality(Transactions') = Cardinality(Transactions) - 1
    BY <2>2, HoldersFinite, OneMore DEF PoolTypeOK
  <2>4. free' + Held' = MaxConns /\ free' <= MaxConns
    BY <1>1, <1>4, <2>1, <2>2, <2>3, HoldersFinite, PoolCounts DEF PoolTypeOK
  <2>5. QueueFits'
    BY <1>1, <1>2, <2>1, QueuedFit DEF QueueFits, Fits, Tickets
  <2>6. PoolTypeOK' /\ StraysEnded'
    BY <1>1, <1>2, <1>3, <1>4, <2>1, <2>4, ConnectionPoolAssumption
       DEF PoolTypeOK, StraysEnded
  <2>7. QED
    BY <2>5, <2>6
<1>8. CASE Timeout(e) /\ stage[e] = "reading"
  <2>1. /\ stage'[e] = "ended" /\ free' = free + 1 /\ stray' = stray \cup {e}
        /\ stray' \subseteq Executions
    BY <1>8 DEF Timeout, PoolTypeOK
  <2>2. /\ Transactions' = Transactions \ {e} /\ e \in Transactions
        /\ Readers' = Readers \ {e} /\ e \in Readers
    BY <1>2, <1>8, <2>1 DEF Transactions, Readers, InTx
  <2>3. /\ Cardinality(Transactions') = Cardinality(Transactions) - 1
        /\ Cardinality(Readers') = Cardinality(Readers) - 1
        /\ Cardinality(stray') = Cardinality(stray) + 1
    BY <1>3, <2>1, <2>2, HoldersFinite, OneMore DEF PoolTypeOK
  <2>4. free' + Held' = MaxConns /\ free' <= MaxConns
    BY <1>1, <1>4, <2>1, <2>3, HoldersFinite, PoolCounts DEF PoolTypeOK
  <2>5. QueueFits'
    BY <1>1, <1>2, <1>8, <2>1, QueuedFit DEF QueueFits, Fits, Tickets
  <2>6. PoolTypeOK' /\ StraysEnded'
    BY <1>1, <1>2, <1>4, <2>1, <2>4, ConnectionPoolAssumption
       DEF PoolTypeOK, StraysEnded
  <2>7. QED
    BY <2>5, <2>6
<1>9. QED
  BY <1>5, <1>6, <1>7, <1>8

\* Every step keeps the invariant.
LEMMA PoolStep == PoolInv /\ [PoolNext]_poolVars => PoolInv'
<1> SUFFICES ASSUME PoolInv, [PoolNext]_poolVars PROVE PoolInv'
  OBVIOUS
<1>1. CASE PoolNext
  BY <1>1, GrantStep, EnqueueStep, AnswerStep, ExecutionStep DEF PoolNext
<1>2. CASE UNCHANGED poolVars
  BY <1>2 DEF poolVars, PoolInv, PoolTypeOK, QueueFits, Queued, Fits, StraysEnded,
              Held, Count
<1>3. QED
  BY <1>1, <1>2

\* No connection is lost or given out twice: the free ones and those that
\* transactions, second queries, abandoned queries and others hold are always
\* as many as the pool has (lib/prisma.ts, max: 5).
THEOREM PoolAddsUp == PoolSpec => []PoolTypeOK
<1>1. PoolInv => PoolTypeOK
  BY DEF PoolInv
<1>2. QED
  BY <1>1, PoolStart, PoolStep, PTL DEF PoolSpec

-----------------------------------------------------------------------------
(* The three together *)

OperationsPartsInv == VotingInv /\ ReconciliationInv /\ PoolInv

\* A step moves one of the parts.
LEMMA OperationsStep ==
  OperationsPartsInv /\ [OperationsNext]_operationsParts => OperationsPartsInv'
<1> SUFFICES ASSUME OperationsPartsInv, [OperationsNext]_operationsParts
             PROVE  OperationsPartsInv'
  OBVIOUS
<1>1. /\ [VotingNext]_votingVars
      /\ [ReconciliationNext]_reconciliationVars
      /\ [PoolNext]_poolVars
  BY DEF OperationsNext, operationsParts
<1>2. QED
  BY <1>1, VotingStepInv, ReconciliationStep, PoolStep DEF OperationsPartsInv

\* One ballot per resident and vote, for one of its options; no alarm of a quiet
\* run without a hand edit; and no connection lost: beside each other as well.
THEOREM OperationsCorrect == OperationsSpec => []OperationsInv
<1>1. OperationsInit => OperationsPartsInv
  BY VotingInitInv, ReconciliationStart, PoolStart
     DEF OperationsInit, OperationsPartsInv
<1>2. OperationsPartsInv => OperationsInv
  BY DEF OperationsPartsInv, OperationsInv, VotingInv, ReconciliationInv, PoolInv
<1>3. QED
  BY <1>1, <1>2, OperationsStep, PTL DEF OperationsSpec
=============================================================================
