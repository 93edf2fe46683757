---------------------------- MODULE MCOperations ----------------------------
(***************************************************************************)
(* Three things that go on beside the money: the votes of the community,   *)
(* the reports that check the ledger, and the pool of connections that all *)
(* of them use.  They share no state here; a behaviour moves one of them   *)
(* and leaves the others as they begin.                                    *)
(***************************************************************************)
EXTENDS Voting, Reconciliation, ConnectionPool

CONSTANTS x1, x2, y1,     \* two options of one vote, one of the other
          v1, v2, r1,     \* the votes, and a resident with two requests
          u1,             \* the member whose credits are posted
          e1, e2, e3,     \* the last two executions are of one settlement
          s1, s2

MCOptionVote == [o \in Options |-> IF o = y1 THEN v2 ELSE v1]
MCVoterOf == [q \in Casts |-> r1]

MCRowOf == [e \in Executions |-> IF e = e1 THEN s1 ELSE s2]

MCTypes == {"PURCHASE"}
WithFees == [t \in MCTypes |->
               [community |-> 50, operations |-> 0, developer |-> 0]]
MCSchedules == {WithFees}

\* A purchase and a conversion, each as large as the deposit.
MCRequests == {[from |-> u1, to |-> "settlement_burn", amount |-> 4,
                type |-> "PURCHASE", bonus |-> 0]}
MCConversions == {<<2, 2>>}

operationsParts == <<votingVars, reconciliationVars, poolVars>>

OperationsInit == VotingInit /\ ReconciliationInit /\ PoolInit

OperationsNext ==
  \/ /\ ReconciliationInit /\ PoolInit
     /\ VotingNext
     /\ UNCHANGED <<reconciliationVars, poolVars>>
  \/ /\ VotingInit /\ PoolInit
     /\ ReconciliationNext
     /\ UNCHANGED <<votingVars, poolVars>>
  \/ /\ VotingInit /\ ReconciliationInit
     /\ PoolNext
     /\ UNCHANGED <<votingVars, reconciliationVars>>

\* A part is fair only where it can move, and then the others are at rest.
OperationsSpec ==
  /\ OperationsInit
  /\ [][OperationsNext]_operationsParts
  /\ VotingFairness
  /\ PoolFairness

\* The states of the three parts: a resident has one ballot in a vote, for one of
\* its options; an alarm of a quiet run has a hand edit behind it; and every
\* connection is free or held by somebody.
OperationsInv ==
  /\ VotingTypeOK
  /\ OneBallot
  /\ TallyAddsUp
  /\ ReconciliationTypeOK
  /\ AlarmHasCause
  /\ PoolTypeOK
=============================================================================
