--------------------------- MODULE ConnectionPool ---------------------------
(***************************************************************************)
(* lib/prisma.ts: the pool of a few connections that every query of the    *)
(* process goes through, and what executing a settlement does with it.     *)
(*                                                                         *)
(* An execution holds one connection for its transaction, and from within  *)
(* it asks for a second one: transferCredits reads the fee schedule        *)
(* through db, not through the transaction it was given.  When all         *)
(* connections are held that way, nothing but the transaction timeout      *)
(* gives one back.                                                         *)
(***************************************************************************)
EXTENDS Integers, Sequences, FiniteSets

CONSTANTS Executions,  \* the requests to execute a settlement
          RowOf,       \* the settlement that each is about
          Others,      \* other queries that may be in flight at a time
          MaxConns     \* max of the pool (5)

ASSUME ConnectionPoolAssumption ==
  /\ IsFiniteSet(Executions) /\ IsFiniteSet(Others)
  /\ MaxConns \in Nat \ {0}

VARIABLES stage,     \* where each execution is
          pending,   \* the pool's queue, first come first served
          free,      \* the connections that nobody holds
          stray,     \* executions that ended with their second query running
          executed,  \* the settlements that are executed
          other      \* where each other query is

poolVars == <<stage, pending, free, stray, executed, other>>

Rows == {RowOf[e] : e \in Executions}

\* What waits in the queue: a transaction, its query for the fee schedule, or
\* another query.
Tickets == [who : Executions, for : {"transaction", "schedule"}]
             \cup [who : Others, for : {"query"}]

\* A transaction is open.
InTx == {"open", "claimed", "asking", "reading", "priced"}

\* The row stays locked from the claim to the end of the transaction.
Holding == {"claimed", "asking", "reading", "priced"}

Count(S) == Cardinality(S)
Held ==
  Count({e \in Executions : stage[e] \in InTx})
    + Count({e \in Executions : stage[e] = "reading"}) + Count(stray)
    + Count({p \in Others : other[p] = "running"})

\* A connection is free, or somebody holds it.
PoolTypeOK ==
  /\ stage \in [Executions -> {"idle", "begin", "ended"} \cup InTx]
  /\ pending \in Seq(Tickets)
  /\ free \in 0 .. MaxConns
  /\ stray \subseteq Executions
  /\ executed \subseteq Rows
  /\ other \in [Others -> {"idle", "waiting", "running"}]
  /\ free + Held = MaxConns

PoolInit ==
  /\ stage = [e \in Executions |-> "idle"]
  /\ pending = <<>>
  /\ free = MaxConns
  /\ stray = {}
  /\ executed = {}
  /\ other = [p \in Others |-> "idle"]

Ticket(x, for) == [who |-> x, for |-> for]

-----------------------------------------------------------------------------
(* pg.Pool *)

\* The first in the queue gets a connection.  One whose transaction has given up
\* waiting gives it back at once; a query of a transaction that has ended runs.
Grant ==
  /\ pending # <<>>
  /\ free > 0
  /\ pending' = Tail(pending)
  /\ LET t == Head(pending) IN
     \/ /\ t.for = "transaction"
        /\ IF stage[t.who] = "begin"
           THEN stage' = [stage EXCEPT ![t.who] = "open"] /\ free' = free - 1
           ELSE UNCHANGED <<stage, free>>
        /\ UNCHANGED <<stray, other>>
     \/ /\ t.for = "schedule"
        /\ free' = free - 1
        /\ IF stage[t.who] = "asking"
           THEN stage' = [stage EXCEPT ![t.who] = "reading"] /\ UNCHANGED stray
           ELSE stray' = stray \cup {t.who} /\ UNCHANGED stage
        /\ UNCHANGED other
     \/ /\ t.for = "query"
        /\ free' = free - 1
        /\ other' = [other EXCEPT ![t.who] = "running"]
        /\ UNCHANGED <<stage, stray>>
  /\ UNCHANGED executed

Send(p) ==
  /\ other[p] = "idle"
  /\ other' = [other EXCEPT ![p] = "waiting"]
  /\ pending' = Append(pending, Ticket(p, "query"))
  /\ UNCHANGED <<stage, free, stray, executed>>

Answer(p) ==
  /\ other[p] = "running"
  /\ other' = [other EXCEPT ![p] = "idle"]
  /\ free' = free + 1
  /\ UNCHANGED <<stage, pending, stray, executed>>

AnswerStray(e) ==
  /\ e \in stray
  /\ stray' = stray \ {e}
  /\ free' = free + 1
  /\ UNCHANGED <<stage, pending, executed, other>>

-----------------------------------------------------------------------------
(* executeSettlement *)

Begin(e) ==
  /\ stage[e] = "idle"
  /\ stage' = [stage EXCEPT ![e] = "begin"]
  /\ pending' = Append(pending, Ticket(e, "transaction"))
  /\ UNCHANGED <<free, stray, executed, other>>

\* maxWait has passed.
GiveUp(e) ==
  /\ stage[e] = "begin"
  /\ stage' = [stage EXCEPT ![e] = "ended"]
  /\ UNCHANGED <<pending, free, stray, executed, other>>

RowFree(e) ==
  \A d \in Executions : stage[d] \in Holding => RowOf[d] # RowOf[e]

\* The update from APPROVED to EXECUTED waits for the row, connection in hand.
Claim(e) ==
  /\ stage[e] = "open"
  /\ RowFree(e)
  /\ RowOf[e] \notin executed
  /\ stage' = [stage EXCEPT ![e] = "claimed"]
  /\ UNCHANGED <<pending, free, stray, executed, other>>

EndTx(e) ==
  /\ stage' = [stage EXCEPT ![e] = "ended"]
  /\ free' = free + 1
  /\ UNCHANGED <<stray, other>>

\* The settlement is executed already, or the transaction timed out meanwhile.
ClaimFails(e) ==
  /\ stage[e] = "open"
  /\ RowFree(e)
  /\ EndTx(e)
  /\ UNCHANGED <<pending, executed>>

\* transferCredits calls getActiveFeeSchedule.
AskSchedule(e) ==
  /\ stage[e] = "claimed"
  /\ stage' = [stage EXCEPT ![e] = "asking"]
  /\ pending' = Append(pending, Ticket(e, "schedule"))
  /\ UNCHANGED <<free, stray, executed, other>>

ReadSchedule(e) ==
  /\ stage[e] = "reading"
  /\ stage' = [stage EXCEPT ![e] = "priced"]
  /\ free' = free + 1
  /\ UNCHANGED <<pending, stray, executed, other>>

\* The locks, the entries and the commit: queries on the connection it has.
PostAndCommit(e) ==
  /\ stage[e] = "priced"
  /\ executed' = executed \cup {RowOf[e]}
  /\ EndTx(e)
  /\ UNCHANGED pending

\* Fault: a transaction that waits for a query outside of it does not time out.
Timeout_NotAsking(e) ==
  /\ stage[e] \in Holding \ {"asking"}
  /\ stage' = [stage EXCEPT ![e] = "ended"]
  /\ free' = free + 1
  /\ stray' = IF stage[e] = "reading" THEN stray \cup {e} ELSE stray
  /\ UNCHANGED <<pending, executed, other>>

\* The timeout of the transaction (5 s) rolls it back, while no statement of its
\* own is running.  Its query for the schedule stays in the queue, or runs on.
Timeout(e) ==
  /\ stage[e] \in Holding
  /\ stage' = [stage EXCEPT ![e] = "ended"]
  /\ free' = free + 1
  /\ stray' = IF stage[e] = "reading" THEN stray \cup {e} ELSE stray
  /\ UNCHANGED <<pending, executed, other>>

-----------------------------------------------------------------------------

Proceed(e) == \/ Claim(e) \/ ClaimFails(e)
              \/ AskSchedule(e) \/ ReadSchedule(e) \/ PostAndCommit(e)

PoolNext ==
  \/ Grant
  \/ \E p \in Others : Send(p) \/ Answer(p)
  \/ \E e \in Executions : \/ Begin(e)
                           \/ GiveUp(e)
                           \/ Claim(e)
                           \/ ClaimFails(e)
                           \/ AskSchedule(e)
                           \/ ReadSchedule(e)
                           \/ PostAndCommit(e)
                           \/ Timeout(e)
                           \/ AnswerStray(e)

\* The pool serves its queue, queries are answered, and the timer of an open
\* transaction fires.  Nobody has to start anything, or to give up waiting.
PoolFairness ==
  /\ WF_poolVars(Grant)
  /\ \A p \in Others : WF_poolVars(Answer(p))
  /\ \A e \in Executions : /\ WF_poolVars(Proceed(e))
                           /\ WF_poolVars(Timeout(e))
                           /\ WF_poolVars(AnswerStray(e))

PoolSpec == PoolInit /\ [][PoolNext]_poolVars /\ PoolFairness

-----------------------------------------------------------------------------
(* Properties *)

\* Whatever waits for what, every execution that was begun ends, with its
\* connection given back, and every other query is answered.
EveryExecutionEnds == \A e \in Executions : stage[e] = "begin" ~> stage[e] = "ended"
EveryQueryAnswered == \A p \in Others : other[p] = "waiting" ~> other[p] = "idle"

\* Executions and other queries alike: the pool leaves nobody waiting for ever,
\* although executions may hold all of it and each ask for one more.
NobodyWaitsForEver == EveryExecutionEnds /\ EveryQueryAnswered
=============================================================================
