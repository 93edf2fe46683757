--------------------------- MODULE Reconciliation ---------------------------
(***************************************************************************)
(* lib/ledger/reconciliation-report.ts and routes/admin/reconciliation.ts, *)
(* beside the postings of the ledger: the report that says whether all     *)
(* entries add up to zero, and its acknowledgement.                        *)
(*                                                                         *)
(* The positive and the negative entries are summed by two queries on two  *)
(* connections, outside of a transaction.  The nightly run and those that  *)
(* administrators start may overlap each other and every posting.          *)
(***************************************************************************)
EXTENDS AtomicLedger, FiniteSets

CONSTANTS Runs,         \* runs that may be in progress at a time
          Officers,     \* administrators that may acknowledge at a time
          MaxReports,   \* bound: the reports that are saved
          MaxCredits,   \* bound: the sum of the positive entries
          Edits,        \* the amounts that an entry may be changed by, by hand
          NoSum,        \* a sum that has not been read
          NoOfficer     \* nobody has acknowledged

ASSUME ReconciliationAssumption ==
  /\ MaxReports \in Nat
  /\ MaxCredits \in Nat
  /\ Edits \subseteq Nat
  /\ NoSum \notin Int
  /\ NoOfficer \notin Officers

ReportIds == 0 .. MaxReports - 1

VARIABLES running,      \* where each run is
          totalCredits, \* the sum of positive entries it has read
          totalDebits,  \* the sum of negative entries it has read
          reports,      \* saved reports: status, and history: quiet, balanced
          acknowledging,\* the report each officer has found unacknowledged
          acknowledged, \* acknowledgedById of each report
          quiet,        \* history: nothing was posted since the run
                        \* began to ask
          edited,       \* history: an entry was changed by hand
          raced         \* history: reports that two officers found so at once

runVars == <<running, totalCredits, totalDebits, quiet>>
ackVars == <<acknowledging, acknowledged, raced>>
reconciliationVars ==
  <<sums, running, totalCredits, totalDebits, reports, acknowledging,
    acknowledged, quiet, edited, raced>>

Reports == DOMAIN reports
NoReport == -1

ReconciliationTypeOK ==
  /\ credits \in Nat /\ debits \in Int
  /\ running \in [Runs -> {"idle", "asking", "alerting"}]
  /\ totalCredits \in [Runs -> Nat \cup {NoSum}]
  /\ totalDebits \in [Runs -> Int \cup {NoSum}]
  /\ Reports \subseteq ReportIds
  /\ reports \in [Reports -> [status : {"OK", "MISMATCH"},
                              quiet : BOOLEAN, balanced : BOOLEAN]]
  /\ acknowledging \in [Officers -> ReportIds \cup {NoReport}]
  /\ acknowledged \in [ReportIds -> Officers \cup {NoOfficer}]
  /\ \A i \in ReportIds \ Reports : acknowledged[i] = NoOfficer
  /\ quiet \in [Runs -> BOOLEAN]
  /\ edited \in BOOLEAN
  /\ raced \subseteq ReportIds

ReconciliationInit ==
  /\ Init
  /\ running = [r \in Runs |-> "idle"]
  /\ totalCredits = [r \in Runs |-> NoSum]
  /\ totalDebits = [r \in Runs |-> NoSum]
  /\ reports = [i \in {} |-> {}]
  /\ acknowledging = [o \in Officers |-> NoReport]
  /\ acknowledged = [i \in ReportIds |-> NoOfficer]
  /\ quiet = [r \in Runs |-> TRUE]
  /\ edited = FALSE
  /\ raced = {}

-----------------------------------------------------------------------------
(* The ledger meanwhile *)

Disturb == quiet' = [r \in Runs |-> quiet[r] /\ running[r] # "asking"]

\* A posting commits: all its entries at once.
Post ==
  /\ Next
  /\ credits' <= MaxCredits
  /\ Disturb
  /\ UNCHANGED <<running, totalCredits, totalDebits, reports, ackVars, edited>>

\* What a report is to find: an entry is added or changed by hand.
Edit(w, amount) ==
  /\ ~ edited
  /\ bal' = [bal EXCEPT ![w] = @ + amount]
  /\ credits' = credits + amount
  /\ edited' = TRUE
  /\ Disturb
  /\ UNCHANGED <<debits, running, totalCredits, totalDebits, reports, ackVars>>

-----------------------------------------------------------------------------
(* runAndSaveReconciliation *)

BeginRun(r) ==
  /\ running[r] = "idle"
  /\ running' = [running EXCEPT ![r] = "asking"]
  /\ UNCHANGED <<sums, totalCredits, totalDebits, quiet, reports, ackVars, edited>>

ReadCredits(r) ==
  /\ running[r] = "asking"
  /\ totalCredits[r] = NoSum
  /\ totalCredits' = [totalCredits EXCEPT ![r] = credits]
  /\ UNCHANGED <<sums, running, totalDebits, quiet, reports, ackVars, edited>>

ReadDebits(r) ==
  /\ running[r] = "asking"
  /\ totalDebits[r] = NoSum
  /\ totalDebits' = [totalDebits EXCEPT ![r] = debits]
  /\ UNCHANGED <<sums, running, totalCredits, quiet, reports, ackVars, edited>>

EndRun(r) ==
  /\ running' = [running EXCEPT ![r] = "idle"]
  /\ totalCredits' = [totalCredits EXCEPT ![r] = NoSum]
  /\ totalDebits' = [totalDebits EXCEPT ![r] = NoSum]
  /\ quiet' = [quiet EXCEPT ![r] = TRUE]
  /\ UNCHANGED <<sums, ackVars, edited>>

\* Fault: a surplus is no mismatch.
StatusOf_Surplus(c, d) == IF c + d >= 0 THEN "OK" ELSE "MISMATCH"

StatusOf(c, d) == IF c + d = 0 THEN "OK" ELSE "MISMATCH"

\* The row is created; on a mismatch the alert follows.
SaveReport(r) ==
  /\ running[r] = "asking"
  /\ totalCredits[r] # NoSum /\ totalDebits[r] # NoSum
  /\ LET id == Cardinality(Reports)
         status == StatusOf(totalCredits[r], totalDebits[r])
     IN
     /\ id \in ReportIds
     /\ reports' = [i \in Reports \cup {id} |->
                      IF i = id THEN [status |-> status, quiet |-> quiet[r],
                                      balanced |-> credits + debits = 0]
                      ELSE reports[i]]
     /\ \/ /\ status = "OK"
           /\ EndRun(r)
        \/ /\ status = "MISMATCH"
           /\ running' = [running EXCEPT ![r] = "alerting"]
           /\ quiet' = [quiet EXCEPT ![r] = TRUE]
           /\ totalCredits' = [totalCredits EXCEPT ![r] = NoSum]
           /\ totalDebits' = [totalDebits EXCEPT ![r] = NoSum]
           /\ UNCHANGED <<sums, ackVars, edited>>

\* The mails to the master administrators are sent (Email), each for itself:
\* what becomes of them changes nothing here.
notifyMasterAdmins(r) ==
  /\ running[r] = "alerting"
  /\ EndRun(r)
  /\ UNCHANGED reports

\* A query fails, or the process ends.
CrashRun(r) ==
  /\ running[r] # "idle"
  /\ EndRun(r)
  /\ UNCHANGED reports

-----------------------------------------------------------------------------
(* POST /:reportId/acknowledge *)

Found(o, i) ==
  /\ acknowledging[o] = NoReport
  /\ acknowledging' = [acknowledging EXCEPT ![o] = i]
  /\ raced' = raced \cup {j \in {i} : \E p \in Officers : acknowledging[p] = j}
  /\ UNCHANGED <<sums, runVars, reports, acknowledged, edited>>

\* Fault: an acknowledged report may be acknowledged again.
FindUnacknowledged_Any(o, i) == i \in Reports /\ Found(o, i)

\* Of any status.
FindUnacknowledged(o, i) ==
  /\ i \in Reports
  /\ acknowledged[i] = NoOfficer
  /\ Found(o, i)

EndAcknowledge(o) ==
  /\ acknowledging' = [acknowledging EXCEPT ![o] = NoReport]
  /\ UNCHANGED <<sums, runVars, reports, edited, raced>>

\* By id; it does not look again.
Acknowledge(o) ==
  /\ acknowledging[o] # NoReport
  /\ acknowledged' = [acknowledged EXCEPT ![acknowledging[o]] = o]
  /\ EndAcknowledge(o)

FailAcknowledge(o) ==
  /\ acknowledging[o] # NoReport
  /\ EndAcknowledge(o)
  /\ UNCHANGED acknowledged

-----------------------------------------------------------------------------

ReconciliationNext ==
  \/ Post
  \/ \E w \in Users, amount \in Edits : Edit(w, amount)
  \/ \E r \in Runs : \/ BeginRun(r)
                     \/ ReadCredits(r)
                     \/ ReadDebits(r)
                     \/ SaveReport(r)
                     \/ notifyMasterAdmins(r)
                     \/ CrashRun(r)
  \/ \E o \in Officers : \/ \E i \in ReportIds : FindUnacknowledged(o, i)
                         \/ Acknowledge(o)
                         \/ FailAcknowledge(o)

ReconciliationSpec ==
  ReconciliationInit /\ [][ReconciliationNext]_reconciliationVars

-----------------------------------------------------------------------------
(* Properties *)

\* The report of a run during which nothing was posted tells the truth: OK if
\* and only if the entries add up.  Only a posting between the two sums makes an
\* alarm false, or hides a mismatch that its amount makes up for.
QuietRunIsExact ==
  \A i \in Reports :
    reports[i].quiet => (reports[i].status = "OK" <=> reports[i].balanced)

\* No entry but one made by hand takes the ledger out of balance, so that an
\* alarm of a quiet run has a hand edit behind it.
AlarmHasCause ==
  \A i \in Reports :
    reports[i].status = "MISMATCH" /\ reports[i].quiet => edited

\* Who acknowledged a report does not change ("refuses if already
\* acknowledged", routes/admin/reconciliation.ts), unless two administrators had
\* both found it unacknowledged before either wrote.
AcknowledgedOnce ==
  [][\A i \in ReportIds \ raced :
       acknowledged[i] # NoOfficer => acknowledged'[i] = acknowledged[i]]_reconciliationVars
=============================================================================
