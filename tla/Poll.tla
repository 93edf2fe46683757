-------------------------------- MODULE Poll --------------------------------
(***************************************************************************)
(* What a community vote promises: a slip is handed in while the poll is   *)
(* open and for one of its own options, and is counted at most once, also  *)
(* after the poll has closed; of the slips of one voter at most one is     *)
(* counted.  No transactions, no locks, no requests.                       *)
(***************************************************************************)
CONSTANTS Votes, Options, Voters, Slips,
          OptionVote,   \* the vote that each option belongs to
          VoterOf,      \* the voter who fills in a slip
          NoSlip        \* a slip that is not handed in

VARIABLES state,    \* of each vote: "none", "open" or "closed"
          handed,   \* what is on each slip handed in and not yet counted
          tally     \* the ballots counted

pollVars == <<state, handed, tally>>

Ballot(s, o) == [vote |-> OptionVote[o], voter |-> VoterOf[s], option |-> o]

Init ==
  /\ state = [v \in Votes |-> "none"]
  /\ handed = [s \in Slips |-> NoSlip]
  /\ tally = {}

Open(v) ==
  /\ state[v] = "none"
  /\ state' = [state EXCEPT ![v] = "open"]
  /\ UNCHANGED <<handed, tally>>

Close(v) ==
  /\ state[v] # "none"
  /\ state' = [state EXCEPT ![v] = "closed"]
  /\ UNCHANGED <<handed, tally>>

Hand(s, o) ==
  /\ state[OptionVote[o]] = "open"
  /\ handed[s] = NoSlip
  /\ handed' = [handed EXCEPT ![s] = Ballot(s, o)]
  /\ UNCHANGED <<state, tally>>

Count(s) ==
  /\ handed[s] # NoSlip
  /\ \A b \in tally : ~ (b.vote = handed[s].vote /\ b.voter = handed[s].voter)
  /\ tally' = tally \cup {handed[s]}
  /\ handed' = [handed EXCEPT ![s] = NoSlip]
  /\ UNCHANGED state

Withdraw(s) ==
  /\ handed' = [handed EXCEPT ![s] = NoSlip]
  /\ UNCHANGED <<state, tally>>

Next ==
  \/ \E v \in Votes : Open(v) \/ Close(v)
  \/ \E s \in Slips : \/ \E o \in Options : Hand(s, o)
                      \/ Count(s)
                      \/ Withdraw(s)

Spec == Init /\ [][Next]_pollVars
=============================================================================
