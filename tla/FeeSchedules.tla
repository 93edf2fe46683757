---------------------------- MODULE FeeSchedules ----------------------------
(***************************************************************************)
(* routes/admin/settings.ts and getActiveFeeSchedule: administrators       *)
(* replace the fee schedule, each in a READ COMMITTED transaction, while   *)
(* transfers look up the one in force.                                     *)
(*                                                                         *)
(* A schedule is a row with the time it takes effect and the time it was   *)
(* closed.  An application reads the newest open row, closes it, and       *)
(* inserts its own; nothing locks the table in between.                    *)
(***************************************************************************)
EXTENDS Integers, FiniteSets

CONSTANTS Admins,      \* administrators that may be replacing it at a time
          Transfers,   \* transfers that may be looking one up at a time
          Starts,      \* bound: the effectiveFrom dates that are entered
          Grace,       \* how far effectiveFrom may lie in the past (60 s)
          MaxClock,    \* bound: the last instant
          MaxApplied   \* bound: applications after the seeded schedule

ASSUME FeeSchedulesAssumption ==
  /\ Starts \subseteq Nat
  /\ Admins \cap Transfers = {}
  /\ Grace \in Nat
  /\ MaxClock \in Nat
  /\ MaxApplied \in Nat

\* findFirst found no row; also the state of a handler that has not looked.
NoRow == -1

RowIds == 0 .. MaxApplied

VARIABLES clock,
          schedules,   \* committed rows, in the order of their commits
          stage,       \* where each administrator's application is
          start,       \* the effectiveFrom it was given
          active,      \* the row it found and closes
          lookup,      \* where each transfer's look-up is
          at,          \* the time it asks about
          found,       \* the row it got
          known,       \* history: what was committed when each began
          replaced,    \* history: the rows an application that began after
                       \* their commit has followed
          overlapped   \* history: two applications have run side by side

applyVars == <<stage, start, active>>
lookupVars == <<lookup, at, found>>
feeVars == <<clock, schedules, stage, start, active, lookup, at, found,
             known, replaced, overlapped>>

Rows == DOMAIN schedules
Applying == {a \in Admins : stage[a] # "idle"}

FeeTypeOK ==
  /\ clock \in 0 .. MaxClock
  /\ Rows \subseteq RowIds
  /\ schedules \in [Rows -> [effectiveAt : Starts \cup {-1}, open : BOOLEAN]]
  /\ stage \in [Admins -> {"idle", "closing", "inserting"}]
  /\ start \in [Admins -> Nat]
  /\ active \in [Admins -> RowIds \cup {NoRow}]
  /\ lookup \in [Transfers -> {"idle", "asking"}]
  /\ at \in [Transfers -> 0 .. MaxClock]
  /\ found \in [Transfers -> RowIds \cup {NoRow}]
  /\ known \in [Admins \cup Transfers -> SUBSET RowIds]
  /\ replaced \subseteq RowIds
  /\ overlapped \in BOOLEAN

\* The seed's genesis schedule began a minute before it was inserted.
FeeInit ==
  /\ clock = 0
  /\ schedules = [r \in {0} |-> [effectiveAt |-> -1, open |-> TRUE]]
  /\ stage = [a \in Admins |-> "idle"]
  /\ start = [a \in Admins |-> 0]
  /\ active = [a \in Admins |-> NoRow]
  /\ lookup = [t \in Transfers |-> "idle"]
  /\ at = [t \in Transfers |-> 0]
  /\ found = [t \in Transfers |-> NoRow]
  /\ known = [x \in Admins \cup Transfers |-> {}]
  /\ replaced = {}
  /\ overlapped = FALSE

\* effectiveTo = null.  No query looks at the time a closed row was closed.
OpenRows == {r \in Rows : schedules[r].open}

\* orderBy effectiveAt desc, findFirst: the newest of some rows, of equals any.
FirstOf(rows) ==
  IF rows = {} THEN {NoRow}
  ELSE {r \in rows : \A s \in rows : schedules[s].effectiveAt
                                        <= schedules[r].effectiveAt}

-----------------------------------------------------------------------------
(* POST /admin/settings/fee-schedule *)

\* The date may not be more than Grace in the past.  r is the row the
\* transaction finds with its first query.
Begin(a, s, r) ==
  /\ stage[a] = "idle"
  /\ s >= clock - Grace
  /\ stage' = [stage EXCEPT ![a] = "closing"]
  /\ start' = [start EXCEPT ![a] = s]
  /\ active' = [active EXCEPT ![a] = r]
  /\ known' = [known EXCEPT ![a] = Rows]
  /\ overlapped' = (overlapped \/ Applying # {})
  /\ UNCHANGED <<clock, schedules, lookupVars, replaced>>

\* Fault: the schedule in force is looked up, not the newest.
BeginApply_InForce(a, s) ==
  \E r \in FirstOf({q \in OpenRows : schedules[q].effectiveAt <= clock}) :
    Begin(a, s, r)

BeginApply(a, s) == \E r \in FirstOf(OpenRows) : Begin(a, s, r)

\* A row that another transaction has updated stays locked until that one ends.
RowLocked(r, a) ==
  \E b \in Admins \ {a} : stage[b] = "inserting" /\ active[b] = r

\* Fault: the old row is closed in a transaction of its own.
CloseActive_Committed(a) ==
  /\ stage[a] = "closing"
  /\ active[a] # NoRow => ~ RowLocked(active[a], a)
  /\ schedules' = [r \in Rows |-> IF r = active[a]
                                  THEN [schedules[r] EXCEPT !.open = FALSE]
                                  ELSE schedules[r]]
  /\ stage' = [stage EXCEPT ![a] = "inserting"]
  /\ UNCHANGED <<clock, start, active, lookupVars, known, replaced,
                 overlapped>>

\* The update is by id alone: it does not look whether the row is still open.
CloseActive(a) ==
  /\ stage[a] = "closing"
  /\ active[a] # NoRow => ~ RowLocked(active[a], a)
  /\ stage' = [stage EXCEPT ![a] = "inserting"]
  /\ UNCHANGED <<clock, schedules, start, active, lookupVars, known,
                 replaced, overlapped>>

EndApply(a) ==
  /\ stage' = [stage EXCEPT ![a] = "idle"]
  /\ start' = [start EXCEPT ![a] = 0]
  /\ active' = [active EXCEPT ![a] = NoRow]
  /\ known' = [known EXCEPT ![a] = {}]
  /\ UNCHANGED <<clock, lookupVars, overlapped>>

\* The rows once a has closed the one it found and inserted its own.
RowsAfter(a) ==
  [r \in Rows \cup {Cardinality(Rows)} |->
     IF r \notin Rows THEN [effectiveAt |-> start[a], open |-> TRUE]
     ELSE [schedules[r] EXCEPT !.open = @ /\ r # active[a]]]

\* The insert, the audit rows and the commit.
CommitApply(a) ==
  /\ stage[a] = "inserting"
  /\ Cardinality(Rows) <= MaxApplied
  /\ schedules' = RowsAfter(a)
  /\ replaced' = replaced \cup known[a]
  /\ EndApply(a)

\* A failed query, the timeout of the transaction, the end of the process.
AbortApply(a) ==
  /\ stage[a] # "idle"
  /\ EndApply(a)
  /\ UNCHANGED <<schedules, replaced>>

-----------------------------------------------------------------------------
(* getActiveFeeSchedule, as transferCredits calls it *)

\* The time is taken before the query is sent.
BeginLookup(t) ==
  /\ lookup[t] = "idle"
  /\ lookup' = [lookup EXCEPT ![t] = "asking"]
  /\ at' = [at EXCEPT ![t] = clock]
  /\ found' = [found EXCEPT ![t] = NoRow]
  /\ known' = [known EXCEPT ![t] = replaced]
  /\ UNCHANGED <<clock, schedules, applyVars, replaced, overlapped>>

InForce(time) == FirstOf({r \in OpenRows : schedules[r].effectiveAt <= time})

getActiveFeeSchedule(t) ==
  /\ lookup[t] = "asking"
  /\ \E r \in InForce(at[t]) : found' = [found EXCEPT ![t] = r]
  /\ lookup' = [lookup EXCEPT ![t] = "idle"]
  /\ at' = [at EXCEPT ![t] = 0]
  /\ known' = [known EXCEPT ![t] = {}]
  /\ UNCHANGED <<clock, schedules, applyVars, replaced, overlapped>>

-----------------------------------------------------------------------------

FeeTick ==
  /\ clock < MaxClock
  /\ clock' = clock + 1
  /\ UNCHANGED <<schedules, applyVars, lookupVars, known, replaced, overlapped>>

FeeNext ==
  \/ \E a \in Admins, s \in Starts : BeginApply(a, s)
  \/ \E a \in Admins : \/ CloseActive(a)
                       \/ CommitApply(a)
                       \/ AbortApply(a)
  \/ \E t \in Transfers : BeginLookup(t) \/ getActiveFeeSchedule(t)
  \/ FeeTick

FeeSpec == FeeInit /\ [][FeeNext]_feeVars

-----------------------------------------------------------------------------
(* Properties *)

\* A transfer finds no schedule, and so charges no fee, only while one that was
\* applied is yet to take effect: closing the old row and inserting the new one
\* is one transaction (settings.ts, db.$transaction), so some row is open, and
\* begins after the time the transfer asks about.
FreeOnlyBeforeStart ==
  [][\A t \in Transfers :
       lookup[t] = "asking" /\ lookup'[t] = "idle" /\ found'[t] = NoRow =>
         \E r \in OpenRows : schedules[r].effectiveAt > at[t]]_feeVars

\* A transfer never charges by a schedule that another application followed
\* before the transfer began, unless two administrators have ever applied
\* theirs side by side: then one of the two stays open and can come back.
ReplacedStaysReplaced ==
  [][\A t \in Transfers :
       lookup[t] = "asking" /\ lookup'[t] = "idle" /\ ~ overlapped =>
         found'[t] \notin known[t]]_feeVars
=============================================================================
