------------------------------- MODULE Voting -------------------------------
(***************************************************************************)
(* Community votes: casting a ballot (routes/resident/community.ts) beside *)
(* opening and closing the vote (routes/admin/community.ts).               *)
(*                                                                         *)
(* A cast is a READ COMMITTED transaction: it reads the option with its    *)
(* vote, and inserts the ballot.  Nothing locks the vote, and only the     *)
(* unique index on (voteId, userId) keeps a voter's requests apart.        *)
(***************************************************************************)

CONSTANTS Votes, Options, Voters,
          Casts,        \* requests to cast that may be in flight at a time
          OptionVote,   \* the vote that each option belongs to
          VoterOf,      \* the resident who sends each request
          NoBallot      \* no ballot in a request

ASSUME VotingAssumption ==
  /\ OptionVote \in [Options -> Votes]
  /\ VoterOf \in [Casts -> Voters]

Ballots == [vote : Votes, voter : Voters, option : Options]

ASSUME NoBallotAssumption == NoBallot \notin Ballots

VARIABLES votes,     \* of each vote: "none" before it is created, isOpen after
          ballots,   \* committed rows of VoteSubmission
          casting,   \* where each request is
          choice     \* the ballot it would cast

votingVars == <<votes, ballots, casting, choice>>

VotingTypeOK ==
  /\ votes \in [Votes -> {"none", "open", "closed"}]
  /\ ballots \subseteq Ballots
  /\ casting \in [Casts -> {"idle", "reading", "accepted", "inserted"}]
  /\ choice \in [Casts -> Ballots \cup {NoBallot}]
  /\ \A q \in Casts : casting[q] # "idle" => choice[q] \in Ballots

VotingInit ==
  /\ votes = [v \in Votes |-> "none"]
  /\ ballots = {}
  /\ casting = [q \in Casts |-> "idle"]
  /\ choice = [q \in Casts |-> NoBallot]

-----------------------------------------------------------------------------
(* The administrators *)

\* The vote and its options are one insert.
createVote(v) ==
  /\ votes[v] = "none"
  /\ votes' = [votes EXCEPT ![v] = "open"]
  /\ UNCHANGED <<ballots, casting, choice>>

\* By id, open or not; there is no way to open a vote again.
closeVote(v) ==
  /\ votes[v] # "none"
  /\ votes' = [votes EXCEPT ![v] = "closed"]
  /\ UNCHANGED <<ballots, casting, choice>>

-----------------------------------------------------------------------------
(* POST /community/votes/:voteId/cast *)

\* The vote of the path and the option of the body are the caller's to combine.
BeginCast(q, v, o) ==
  /\ casting[q] = "idle"
  /\ casting' = [casting EXCEPT ![q] = "reading"]
  /\ choice' = [choice EXCEPT
                  ![q] = [vote |-> v, voter |-> VoterOf[q], option |-> o]]
  /\ UNCHANGED <<votes, ballots>>

EndCast(q) ==
  /\ casting' = [casting EXCEPT ![q] = "idle"]
  /\ choice' = [choice EXCEPT ![q] = NoBallot]

\* Fault: a closed vote takes ballots.
Acceptable_Closed(b) ==
  OptionVote[b.option] = b.vote /\ votes[b.vote] # "none"

Acceptable(b) == OptionVote[b.option] = b.vote /\ votes[b.vote] = "open"

Accept(q) ==
  /\ casting[q] = "reading"
  /\ Acceptable(choice[q])
  /\ casting' = [casting EXCEPT ![q] = "accepted"]
  /\ UNCHANGED <<votes, ballots, choice>>

Refuse(q) ==
  /\ casting[q] = "reading"
  /\ ~ Acceptable(choice[q])
  /\ EndCast(q)
  /\ UNCHANGED <<votes, ballots>>

SameVoter(b, c) == b.vote = c.vote /\ b.voter = c.voter

\* An insert waits for a transaction that has inserted the same key.
IndexFree(q) ==
  \A p \in Casts : casting[p] = "inserted" => ~ SameVoter(choice[p], choice[q])

HasVoted(q) == \E b \in ballots : SameVoter(b, choice[q])

\* Fault: without the unique index.
Insert_NotUnique(q) ==
  /\ casting[q] = "accepted"
  /\ casting' = [casting EXCEPT ![q] = "inserted"]
  /\ UNCHANGED <<votes, ballots, choice>>

Insert(q) ==
  /\ casting[q] = "accepted"
  /\ IndexFree(q)
  /\ ~ HasVoted(q)
  /\ casting' = [casting EXCEPT ![q] = "inserted"]
  /\ UNCHANGED <<votes, ballots, choice>>

Reject(q) ==
  /\ casting[q] = "accepted"
  /\ IndexFree(q)
  /\ HasVoted(q)
  /\ EndCast(q)
  /\ UNCHANGED <<votes, ballots>>

CommitCast(q) ==
  /\ casting[q] = "inserted"
  /\ ballots' = ballots \cup {choice[q]}
  /\ EndCast(q)
  /\ UNCHANGED votes

\* A failed query, the timeout of the transaction, the end of the process.
AbortCast(q) ==
  /\ casting[q] # "idle"
  /\ EndCast(q)
  /\ UNCHANGED <<votes, ballots>>

Advance(q) == \/ Accept(q) \/ Refuse(q)
              \/ Insert(q) \/ Reject(q)
              \/ CommitCast(q)

-----------------------------------------------------------------------------

VotingNext ==
  \/ \E v \in Votes : createVote(v) \/ closeVote(v)
  \/ \E q \in Casts : \/ \E v \in Votes, o \in Options : BeginCast(q, v, o)
                         \/ Accept(q)
                         \/ Refuse(q)
                         \/ Insert(q)
                         \/ Reject(q)
                         \/ CommitCast(q)
                         \/ AbortCast(q)

VotingSafety == VotingInit /\ [][VotingNext]_votingVars

\* A request that waits for a query gets its answer.
VotingFairness == \A q \in Casts : WF_votingVars(Advance(q))

VotingSpec == VotingSafety /\ VotingFairness

-----------------------------------------------------------------------------
(* Properties *)

\* A resident has one ballot in a vote at most, however many requests of theirs
\* find the vote open at once (schema.prisma, @@unique([voteId, userId])).
OneBallot ==
  \A b, c \in ballots : SameVoter(b, c) => b = c

\* What the pages show adds up: the ballots counted for a vote are those counted
\* for its options (queries/community.ts counts both).
TallyAddsUp ==
  \A b \in ballots : OptionVote[b.option] = b.vote

\* After a vote is closed, ballots that were accepted before may still be
\* counted, but in the end none is on its way and the tally is final.
TallySettles ==
  \A v \in Votes :
    [](votes[v] = "closed" =>
         <>[](\A q \in Casts : casting[q] \in {"accepted", "inserted"} =>
                                    choice[q].vote # v))

\* The requests and their transactions implement a poll whose slips are the
\* ballots accepted and not yet committed.
Paper == INSTANCE Poll
  WITH Slips <- Casts, NoSlip <- NoBallot, state <- votes,
       handed <- [q \in Casts |-> IF casting[q] \in {"accepted", "inserted"}
                                     THEN choice[q] ELSE NoBallot],
       tally <- ballots
ImplementsPoll == Paper!Spec
=============================================================================
