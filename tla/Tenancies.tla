----------------------------- MODULE Tenancies -----------------------------
(***************************************************************************)
(* Leases: the daily maintenance of src/cron/leases.ts with the dates of   *)
(* src/lib/lease/cycle.ts, and the extensions a resident asks for          *)
(* (src/routes/resident/property.ts) and an administrator decides          *)
(* (src/routes/admin/rental-extensions.ts).                                *)
(*                                                                         *)
(* A cron run reads all tenancies at once and then updates them one by one *)
(* from what it read, while extensions are approved and days pass.         *)
(***************************************************************************)
EXTENDS Naturals

CONSTANTS Tenancies,       \* leases
          Requests,        \* extension requests
          Admins,          \* approvals that may be in progress at a time
          Crons,           \* cron runs that may be in progress at a time
          NoRequest,       \* the request of an administrator who decides none
          NoDate,          \* null
          EndingSoonDays,  \* a lease ends soon from so many days before its end
          MaxDay,          \* bound: the last day
          LastDate,        \* bound: the last date a lease may have
          addOneCycle      \* the due date that follows each due date

Days == 0 .. MaxDay
Dates == 0 .. LastDate

ASSUME TenanciesAssumption ==
  /\ MaxDay \in Nat /\ LastDate \in Nat /\ EndingSoonDays \in Nat
  /\ NoDate \notin Dates /\ NoRequest \notin Requests
  /\ addOneCycle \in [Dates -> Nat]
  /\ \A d \in Dates : addOneCycle[d] > d
  /\ \A d \in Days : addOneCycle[d] \in Dates

VARIABLES today,
          tenancy,   \* PropertyTenancy: start, end, due and status
          request,   \* RentalExtensionRequest: tenancy, end and status
          decides,   \* the request whose row each administrator holds
          read,      \* the tenancy each administrator has read
          run,       \* each cron run: its day, what it read, what is left
          granted    \* history: the end date granted last, per tenancy

tenancyVars == <<today, tenancy, request, decides, read, run, granted>>
adminVars == <<decides, read>>

Lease == [start : Dates \cup {NoDate}, end : Dates \cup {NoDate},
          due : Dates \cup {NoDate}, status : {"ACTIVE", "ENDING_SOON", "EXPIRED"}]

Extension == [tenancy : Tenancies, end : Dates,
              status : {"PENDING", "APPROVED", "DECLINED"}]

NoExtension == [status |-> "none"]
Idle == [day |-> 0, seen |-> <<>>, left |-> {}]

TenancyTypeOK ==
  /\ today \in Days
  /\ tenancy \in [Tenancies -> Lease]
  /\ request \in [Requests -> {NoExtension} \cup Extension]
  /\ decides \in [Admins -> Requests \cup {NoRequest}]
  /\ read \in [Admins -> {NoRequest} \cup Lease]
  /\ run \in [Crons -> [day : Days, seen : {<<>>} \cup [Tenancies -> Lease],
                      left : SUBSET Tenancies]]
  /\ granted \in [Tenancies -> Dates \cup {NoDate}]

-----------------------------------------------------------------------------
(* Dates *)

\* The first due date after the day, counted from the given one.
computeNextPaymentDue(from, day) ==
  LET next[d \in Dates] == IF d > day THEN d ELSE next[addOneCycle[d]]
  IN  next[from]

computeLeaseStatus(end, day) ==
  CASE end = NoDate -> "ACTIVE"
    [] end # NoDate /\ end <= day -> "EXPIRED"
    [] end # NoDate /\ end > day /\ end <= day + EndingSoonDays -> "ENDING_SOON"
    [] OTHER -> "ACTIVE"

\* Fault: the due date moves on with every run.
Advanced_EveryRun(lease, day) ==
  LET current == IF lease.due = NoDate THEN lease.start ELSE lease.due
  IN  [lease EXCEPT
        !.due = IF lease.start # NoDate /\ current \in Days
                THEN computeNextPaymentDue(addOneCycle[current], day) ELSE @,
        !.status = computeLeaseStatus(lease.end, day)]

\* What the maintenance of a day makes of a lease.
Advanced(lease, day) ==
  LET current == IF lease.due = NoDate THEN lease.start ELSE lease.due
  IN  [lease EXCEPT
        !.due = IF lease.start # NoDate /\ current <= day
                THEN computeNextPaymentDue(current, day) ELSE @,
        !.status = computeLeaseStatus(lease.end, day)]

-----------------------------------------------------------------------------

\* A tenant has been assigned (POST /properties/:propertyId/tenant).
TenanciesInit ==
  /\ today = 0
  /\ tenancy \in [Tenancies -> {l \in Lease : l.status = "ACTIVE" /\ l.due = NoDate}]
  /\ request = [r \in Requests |-> NoExtension]
  /\ decides = [a \in Admins |-> NoRequest]
  /\ read = [a \in Admins |-> NoRequest]
  /\ run = [c \in Crons |-> Idle]
  /\ granted = [t \in Tenancies |-> tenancy[t].end]

DayPasses ==
  /\ today < MaxDay
  /\ today' = today + 1
  /\ UNCHANGED <<tenancy, request, adminVars, run, granted>>

-----------------------------------------------------------------------------
(* The maintenance *)

\* Fault: only ACTIVE leases are looked at.
InCare_ActiveOnly == {t \in Tenancies : tenancy[t].status = "ACTIVE"}

InCare == {t \in Tenancies : tenancy[t].status \in {"ACTIVE", "ENDING_SOON"}}

runLeasesCron(c) ==
  /\ run[c].left = {}
  /\ run' = [run EXCEPT ![c] = [day |-> today, seen |-> tenancy, left |-> InCare]]
  /\ UNCHANGED <<today, tenancy, request, adminVars, granted>>

\* Fault: the whole row is written back as it was read.
Updated_WholeRow(t, lease, new) == [tenancy EXCEPT ![t] = new]

\* The update sets status and, if there is one, due date; the rest of the row
\* is as it is now.
Updated(t, lease, new) ==
  IF new = lease THEN tenancy
  ELSE [tenancy EXCEPT ![t].status = new.status,
                       ![t].due = IF new.due = NoDate THEN @ ELSE new.due]

MaintainLease(c, t) ==
  LET lease == run[c].seen[t] IN
  /\ t \in run[c].left
  /\ tenancy' = Updated(t, lease, Advanced(lease, run[c].day))
  /\ run' = [run EXCEPT ![c] = IF run[c].left = {t} THEN Idle
                               ELSE [run[c] EXCEPT !.left = @ \ {t}]]
  /\ UNCHANGED <<today, request, adminVars, granted>>

\* A query throws: the run ends there.
CronFails(c) ==
  /\ run[c].left # {}
  /\ run' = [run EXCEPT ![c] = Idle]
  /\ UNCHANGED <<today, tenancy, request, adminVars, granted>>

-----------------------------------------------------------------------------
(* Extensions *)

\* The new end is compared with the end the tenancy has at this moment; the
\* request is stored later, which is as if it were stored now and seen later.
requestExtension(r, t, end) ==
  /\ request[r] = NoExtension
  /\ tenancy[t].end # NoDate => end > tenancy[t].end
  /\ request' = [request EXCEPT ![r] =
                   [tenancy |-> t, end |-> end, status |-> "PENDING"]]
  /\ UNCHANGED <<today, tenancy, adminVars, run, granted>>

\* An update of a request waits for the transaction that has updated it.
Held(r) == \E a \in Admins : decides[a] = r

\* The approval has updated the request if it was PENDING, and read the tenancy.
ApproveBegin(a, r) ==
  /\ decides[a] = NoRequest
  /\ request[r].status = "PENDING"
  /\ ~ Held(r)
  /\ decides' = [decides EXCEPT ![a] = r]
  /\ read' = [read EXCEPT ![a] = tenancy[request[r].tenancy]]
  /\ UNCHANGED <<today, tenancy, request, run, granted>>

Release(a) ==
  /\ decides' = [decides EXCEPT ![a] = NoRequest]
  /\ read' = [read EXCEPT ![a] = NoRequest]

\* The new end, the status as it was read, and a due date counted from the start.
Extended(lease, now, end) ==
  [now EXCEPT !.end = end,
              !.status = IF lease.status = "ENDING_SOON" THEN "ACTIVE"
                         ELSE lease.status,
              !.due = IF lease.start = NoDate THEN @
                      ELSE computeNextPaymentDue(lease.start, today)]

ApproveCommit(a) ==
  /\ decides[a] # NoRequest
  /\ LET r == decides[a] t == request[r].tenancy IN
     /\ request' = [request EXCEPT ![r].status = "APPROVED"]
     /\ tenancy' = [tenancy EXCEPT ![t] = Extended(read[a], @, request[r].end)]
     /\ granted' = [granted EXCEPT ![t] = request[r].end]
  /\ Release(a)
  /\ UNCHANGED <<today, run>>

ApproveRollback(a) ==
  /\ decides[a] # NoRequest
  /\ Release(a)
  /\ UNCHANGED <<today, tenancy, request, run, granted>>

Decline(r) ==
  /\ request[r].status = "PENDING"
  /\ ~ Held(r)
  /\ request' = [request EXCEPT ![r].status = "DECLINED"]
  /\ UNCHANGED <<today, tenancy, adminVars, run, granted>>

-----------------------------------------------------------------------------

TenanciesNext ==
  \/ DayPasses
  \/ \E c \in Crons : \/ runLeasesCron(c) \/ CronFails(c)
                      \/ \E t \in Tenancies : MaintainLease(c, t)
  \/ \E r \in Requests, t \in Tenancies, end \in Dates : requestExtension(r, t, end)
  \/ \E r \in Requests : Decline(r)
  \/ \E a \in Admins : \/ \E r \in Requests : ApproveBegin(a, r)
                       \/ ApproveCommit(a) \/ ApproveRollback(a)

TenanciesSpec == TenanciesInit /\ [][TenanciesNext]_tenancyVars

\* The scheduler starts the maintenance again and again, a run that has been
\* started goes on, and it does not fail every time before it gets to a lease.
FairTenanciesSpec ==
  /\ TenanciesSpec
  /\ \A c \in Crons :
       /\ WF_tenancyVars(runLeasesCron(c))
       /\ \A t \in Tenancies : SF_tenancyVars(MaintainLease(c, t))

-----------------------------------------------------------------------------
(* Properties *)

\* The end date of a lease is the one granted last: a cron run that read the
\* lease before an extension was approved does not undo the extension.
ExtensionKept == \A t \in Tenancies : tenancy[t].end = granted[t]

\* No payment is skipped: between today and the next due date of a lease there
\* is none of the due dates that follow from its start, whoever set the date,
\* and on whatever day it was read.
NoPaymentSkipped ==
  \A t \in Tenancies : tenancy[t].start # NoDate /\ tenancy[t].due # NoDate =>
    tenancy[t].due <= computeNextPaymentDue(tenancy[t].start, today)

\* Leases and requests are well-formed, and no lease has a due date too late.
TenanciesInv == TenancyTypeOK /\ NoPaymentSkipped

Over(t) == tenancy[t].end # NoDate /\ tenancy[t].end <= today

\* A lease that is over becomes EXPIRED, unless it is extended ("recompute lease
\* statuses (ACTIVE -> ENDING_SOON -> EXPIRED)").
ExpiresInTheEnd ==
  \A t \in Tenancies : Over(t) ~> tenancy[t].status = "EXPIRED" \/ ~ Over(t)
=============================================================================
