------------------------------ MODULE Imports ------------------------------
(***************************************************************************)
(* src/routes/admin/imports.ts: a spreadsheet of members (or properties)   *)
(* is parsed into an import session with one record per row, and then      *)
(* committed row by row, or cancelled.                                     *)
(*                                                                         *)
(* A commit is a long loop: every row is a transaction of its own, the     *)
(* session stays UPLOADED until the last one, and nothing keeps a second   *)
(* commit, or a cancellation, from running beside it.                      *)
(***************************************************************************)
EXTENDS Naturals, Sequences, FiniteSets

CONSTANTS Handlers,     \* requests that may be in progress at a time
          Sessions,     \* import sessions
          Keys,         \* emails of members and codes of properties
          Codes,        \* those of them that are codes of properties
          NoSession,    \* the session of a handler that does nothing
          Files,        \* the spreadsheets: sequences of rows
          MaxFailures,  \* bound: rows that fail for want of the database
          MaxCrashes    \* bound: requests that end without an answer

\* A row has the key of what it would create, and the worst of the verdicts
\* that its other columns get.
Row == [key : Keys, verdict : {"VALID", "WARNING", "ERROR"}]

ASSUME ImportsAssumption ==
  /\ NoSession \notin Sessions
  /\ Files \subseteq Seq(Row)
  /\ Codes \subseteq Keys
  /\ \A file \in Files : \/ \A n \in DOMAIN file : file[n].key \in Codes
                         \/ \A n \in DOMAIN file : file[n].key \notin Codes
  /\ MaxFailures \in Nat /\ MaxCrashes \in Nat

VARIABLES origin,    \* per key, the row that created it, or None or Elsewhere
          rows,      \* ImportRecord: per session, its rows with their verdicts
          status,    \* ImportSession.status, "none" before the upload
          counts,    \* ImportSession.committedCount and skippedCount
          recorded,  \* per session, the rows with a createdEntityId
          pc,        \* what each handler does next
          at,        \* the session it works on
          todo,      \* the rows it has still to process
          current,   \* the one that it processes, 0 for none
          tally,     \* its committedCount and skippedCount so far
          commits,   \* history: per session, how many commits were begun
          confirmed, \* history: per session, the doubtful rows they confirmed
          failures, crashes

tables == <<origin, rows, status, counts, recorded>>
locals == <<pc, at, todo, current, tally>>
bounds == <<failures, crashes>>
history == <<commits, confirmed>>
vars == <<tables, locals, history, bounds>>

None == <<>>
Elsewhere == <<"elsewhere">>
Exists(k) == origin[k] # None
Zero == [committed |-> 0, skipped |-> 0]
RowNumbers(s) == DOMAIN rows[s]

TypeOK ==
  /\ origin \in [Keys -> {None, Elsewhere} \cup (Sessions \X Nat)]
  /\ rows \in [Sessions -> Seq(Row)]
  /\ status \in [Sessions -> {"none", "UPLOADED", "COMMITTED", "CANCELLED"}]
  /\ counts \in [Sessions -> [committed : Nat, skipped : Nat]]
  /\ recorded \in [Sessions -> SUBSET Nat] /\ confirmed \in [Sessions -> SUBSET Nat]
  /\ \A s \in Sessions : recorded[s] \cup confirmed[s] \subseteq RowNumbers(s)
  /\ commits \in [Sessions -> Nat]
  /\ pc \in [Handlers -> {"idle", "create", "record", "cancel"}]
  /\ at \in [Handlers -> Sessions \cup {NoSession}]
  /\ todo \in [Handlers -> SUBSET Nat] /\ current \in [Handlers -> Nat]
  /\ tally \in [Handlers -> [committed : Nat, skipped : Nat]]
  /\ failures \in 0 .. MaxFailures
  /\ crashes \in 0 .. MaxCrashes

Init ==
  /\ origin \in [Keys -> {None, Elsewhere}]
  /\ rows = [s \in Sessions |-> <<>>]
  /\ status = [s \in Sessions |-> "none"]
  /\ counts = [s \in Sessions |-> Zero]
  /\ recorded = [s \in Sessions |-> {}]
  /\ pc = [h \in Handlers |-> "idle"]
  /\ at = [h \in Handlers |-> NoSession]
  /\ todo = [h \in Handlers |-> {}] /\ current = [h \in Handlers |-> 0]
  /\ tally = [h \in Handlers |-> Zero]
  /\ commits = [s \in Sessions |-> 0]
  /\ confirmed = [s \in Sessions |-> {}]
  /\ failures = 0 /\ crashes = 0

-----------------------------------------------------------------------------
(* Parsing *)

\* A key that exists makes a row doubtful, as does, for properties, a key that
\* the file has further up.
Doubtful(file, n) ==
  \/ Exists(file[n].key)
  \/ file[n].key \in Codes /\ \E m \in 1 .. n - 1 : file[m].key = file[n].key

Verdict(file, n) ==
  IF file[n].verdict = "VALID" /\ Doubtful(file, n) THEN "WARNING"
  ELSE file[n].verdict

\* The keys are read and the session is stored later; until then nobody can
\* see it, so that one step stands for both.
parse(s, file) ==
  /\ status[s] = "none"
  /\ Len(file) > 0
  /\ status' = [status EXCEPT ![s] = "UPLOADED"]
  /\ rows' = [rows EXCEPT ![s] =
                [n \in DOMAIN file |->
                   [file[n] EXCEPT !.verdict = Verdict(file, n)]]]
  /\ UNCHANGED <<origin, counts, recorded, locals, history, bounds>>

-----------------------------------------------------------------------------
(* Committing *)

\* Fault: a doubtful row needs no confirmation.
Selected_Unconfirmed(s, ids) ==
  {n \in RowNumbers(s) : rows[s][n].verdict \in {"VALID", "WARNING"}}

Selected(s, ids) ==
  {n \in RowNumbers(s) : \/ rows[s][n].verdict = "VALID"
                         \/ rows[s][n].verdict = "WARNING" /\ n \in ids}

\* The query that reads the rows states no order: any of those left may be next.
TakeRow(h) ==
  \E n \in IF todo'[h] = {} THEN {0} ELSE todo'[h] :
    current' = [current EXCEPT ![h] = n]

\* The session is looked up with its rows; the rest of the commit works on
\* what was read here.
StartCommit(h, s, ids) ==
  /\ pc[h] = "idle"
  /\ status[s] = "UPLOADED"
  /\ pc' = [pc EXCEPT ![h] = "create"]
  /\ at' = [at EXCEPT ![h] = s]
  /\ todo' = [todo EXCEPT ![h] = Selected(s, ids)]
  /\ TakeRow(h)
  /\ tally' = [tally EXCEPT ![h] = Zero]
  /\ commits' = [commits EXCEPT ![s] = @ + 1]
  /\ confirmed' = [confirmed EXCEPT ![s] =
                     @ \cup {n \in ids : rows[s][n].verdict = "WARNING"}]
  /\ UNCHANGED <<tables, bounds>>

ThisKey(h) == rows[at[h]][current[h]].key

Creating(h) == pc[h] = "create" /\ todo[h] # {}

\* The transaction of a row: the member and a wallet, or the property.
CreateRow(h) ==
  /\ Creating(h)
  /\ ~ Exists(ThisKey(h))
  /\ origin' = [origin EXCEPT ![ThisKey(h)] = <<at[h], current[h]>>]
  /\ pc' = [pc EXCEPT ![h] = "record"]
  /\ UNCHANGED <<rows, status, counts, recorded, at, todo, current, tally,
                 history, bounds>>

NextRow(h) ==
  /\ todo' = [todo EXCEPT ![h] = @ \ {current[h]}]
  /\ TakeRow(h)
  /\ pc' = [pc EXCEPT ![h] = "create"]
  /\ UNCHANGED at

\* Fault: a row that creates nothing is counted like the others.
SkipRow_Counted(h) ==
  /\ tally' = [tally EXCEPT ![h].committed = @ + 1]
  /\ NextRow(h)

\* Fault: the first row that creates nothing ends the loop.
SkipRow_Break(h) ==
  /\ tally' = [tally EXCEPT ![h].skipped = @ + 1]
  /\ todo' = [todo EXCEPT ![h] = {}]
  /\ TakeRow(h)
  /\ pc' = [pc EXCEPT ![h] = "create"]
  /\ UNCHANGED at

\* Whatever a row throws is caught, and the loop goes on.
SkipRow(h) ==
  /\ tally' = [tally EXCEPT ![h].skipped = @ + 1]
  /\ NextRow(h)

\* Fault: the record of a row whose key is taken points to what took it.
KeyTaken_Adopted(h) ==
  /\ Creating(h)
  /\ Exists(ThisKey(h))
  /\ pc' = [pc EXCEPT ![h] = "record"]
  /\ UNCHANGED <<tables, at, todo, current, tally, history, bounds>>

\* The key is taken: email and code are unique, the transaction rolls back.
KeyTaken(h) ==
  /\ Creating(h)
  /\ Exists(ThisKey(h))
  /\ SkipRow(h)
  /\ UNCHANGED <<tables, history, bounds>>

RecordRow(h) ==
  /\ pc[h] = "record"
  /\ recorded' = [recorded EXCEPT ![at[h]] = @ \cup {current[h]}]
  /\ tally' = [tally EXCEPT ![h].committed = @ + 1]
  /\ NextRow(h)
  /\ UNCHANGED <<origin, rows, status, counts, history, bounds>>

\* The transaction of a row fails, or the update of its record after it.
RowFails(h) ==
  /\ Creating(h) \/ pc[h] = "record"
  /\ failures < MaxFailures
  /\ failures' = failures + 1
  /\ SkipRow(h)
  /\ UNCHANGED <<tables, history, crashes>>

Return(h) ==
  /\ pc' = [pc EXCEPT ![h] = "idle"]
  /\ at' = [at EXCEPT ![h] = NoSession]
  /\ todo' = [todo EXCEPT ![h] = {}]
  /\ current' = [current EXCEPT ![h] = 0]
  /\ tally' = [tally EXCEPT ![h] = Zero]
  /\ UNCHANGED history

\* The session is updated by its id, whatever its status is now.
FinishCommit(h) ==
  /\ pc[h] = "create" /\ todo[h] = {}
  /\ status' = [status EXCEPT ![at[h]] = "COMMITTED"]
  /\ counts' = [counts EXCEPT ![at[h]] = tally[h]]
  /\ Return(h)
  /\ UNCHANGED <<origin, rows, recorded, bounds>>

-----------------------------------------------------------------------------
(* Cancelling *)

StartCancel(h, s) ==
  /\ pc[h] = "idle"
  /\ status[s] = "UPLOADED"
  /\ pc' = [pc EXCEPT ![h] = "cancel"]
  /\ at' = [at EXCEPT ![h] = s]
  /\ UNCHANGED <<tables, todo, current, tally, history, bounds>>

FinishCancel(h) ==
  /\ pc[h] = "cancel"
  /\ status' = [status EXCEPT ![at[h]] = "CANCELLED"]
  /\ Return(h)
  /\ UNCHANGED <<origin, rows, counts, recorded, bounds>>

-----------------------------------------------------------------------------

\* A query outside the loop's try throws, or the process ends.
Crash(h) ==
  /\ pc[h] # "idle"
  /\ crashes < MaxCrashes
  /\ crashes' = crashes + 1
  /\ Return(h)
  /\ UNCHANGED <<tables, failures>>

\* Accounts and properties are also created one at a time.
CreateElsewhere(k) ==
  /\ ~ Exists(k)
  /\ origin' = [origin EXCEPT ![k] = Elsewhere]
  /\ UNCHANGED <<rows, status, counts, recorded, locals, history, bounds>>

HandlerStep(h) ==
  \/ CreateRow(h) \/ KeyTaken(h) \/ RecordRow(h) \/ FinishCommit(h)
  \/ FinishCancel(h)

Next ==
  \/ \E s \in Sessions, file \in Files : parse(s, file)
  \/ \E k \in Keys : CreateElsewhere(k)
  \/ \E h \in Handlers, s \in Sessions :
       \/ StartCancel(h, s)
       \/ \E ids \in SUBSET RowNumbers(s) : StartCommit(h, s, ids)
  \/ \E h \in Handlers : HandlerStep(h) \/ RowFails(h) \/ Crash(h)

Spec == Init /\ [][Next]_vars

-----------------------------------------------------------------------------
(* Properties *)

Valid(s) == {n \in RowNumbers(s) : rows[s][n].verdict = "VALID"}
CreatedFrom(s) == {n \in RowNumbers(s) : origin[rows[s][n].key] = <<s, n>>}

\* Whatever commits and cancellations run side by side, a row creates something
\* only if some commit was to process it: it was valid, or an administrator
\* confirmed its warning; a row with an error never does.
OnlyChosenCreated ==
  \A s \in Sessions : CreatedFrom(s) \subseteq Valid(s) \cup confirmed[s]

\* The createdEntityId of a record is what this very row created, also when two
\* commits of a session, or two sessions with the same keys, run side by side.
RecordedIsOwn == \A s \in Sessions : recorded[s] \subseteq CreatedFrom(s)

\* Unless the database failed, a session that says COMMITTED leaves no valid row
\* without its member or property, after a crash and a second commit as well.
CommittedIsComplete ==
  \A s \in Sessions : status[s] = "COMMITTED" /\ failures = 0 =>
    \A n \in Valid(s) : Exists(rows[s][n].key)

\* The counts of a session that was committed by one request only are right,
\* whatever other sessions and cancellations run beside it: a created row is
\* missing from committedCount only if the update of its record failed.
CountsAddUp ==
  \A s \in Sessions : status[s] = "COMMITTED" /\ commits[s] = 1 =>
    LET created == Cardinality(CreatedFrom(s)) IN
    /\ counts[s].committed <= created
    /\ created <= counts[s].committed + failures
    /\ counts[s].committed + counts[s].skipped =
         Cardinality(Valid(s) \cup confirmed[s])

\* What a session shows is well-formed, and its counts are right.
ImportsInv == TypeOK /\ CountsAddUp
=============================================================================
