--------------------------- MODULE ConversionRates --------------------------
(***************************************************************************)
(* routes/admin/rates.ts, beside the look-ups of lib/currency that a       *)
(* conversion and the routes that show the rates make.                     *)
(*                                                                         *)
(* One currency pair: every query names its pair, so pairs do not meet.  A *)
(* rate row is closed and succeeded in one READ COMMITTED transaction; its *)
(* time is taken by the handler before the transaction begins, so rates    *)
(* need not be committed in the order of their times.  A look-up takes the *)
(* time first, too.                                                        *)
(***************************************************************************)
EXTENDS Integers, FiniteSets

CONSTANTS Setters,      \* administrators that may be setting the rate at a time
          Converters,   \* conversions that may be in progress at a time
          MaxTime,      \* bound: the last instant
          MaxRates      \* bound: rates set after the seeded one

ASSUME ConversionRatesAssumption ==
  /\ Setters \cap Converters = {}
  /\ MaxTime \in Nat
  /\ MaxRates \in Nat

NoRate == -1
\* effectiveTo = null
Open == -1

RateIds == 0 .. MaxRates

VARIABLES now,
          rates,        \* committed rows: [from, to]
          setter,       \* where each administrator's request is
          from,         \* the time it took
          snapshot,     \* the open rows its update found
          closing,      \* the rows it has updated, not yet committed
          converter,    \* where each conversion or view is
          takenAt,      \* the time it took
          rate,         \* the rate it got
          followed,     \* history: rates that one set later has followed
          seen,         \* history: what was committed when each began
          superseded    \* history: the rates that were in force before

rateVars == <<rates, setter, from, snapshot, closing, followed, superseded>>
conversionVars == <<converter, takenAt, rate>>
pricingVars == <<now, rates, setter, from, snapshot, closing, converter,
                 takenAt, rate, followed, seen, superseded>>

RateRows == DOMAIN rates

RatesTypeOK ==
  /\ now \in 0 .. MaxTime
  /\ RateRows \subseteq RateIds
  /\ rates \in [RateRows -> [from : 0 .. MaxTime,
                             to : 0 .. MaxTime \cup {Open}]]
  /\ \A r, q \in RateRows : rates[r].from = rates[q].from => r = q
  /\ setter \in [Setters -> {"idle", "started", "updating", "inserting"}]
  /\ from \in [Setters -> 0 .. MaxTime]
  /\ snapshot \in [Setters -> SUBSET RateIds]
  /\ closing \in [Setters -> SUBSET RateIds]
  /\ converter \in [Converters -> {"idle", "viewing", "rate"}]
  /\ takenAt \in [Converters -> 0 .. MaxTime]
  /\ rate \in [Converters -> RateIds \cup {NoRate}]
  /\ followed \subseteq RateIds
  /\ seen \in [Setters \cup Converters -> SUBSET RateIds]
  /\ superseded \subseteq RateIds

RatesInit ==
  /\ now = 0
  /\ rates = [r \in {0} |-> [from |-> 0, to |-> Open]]
  /\ setter = [a \in Setters |-> "idle"]
  /\ from = [a \in Setters |-> 0]
  /\ snapshot = [a \in Setters |-> {}]
  /\ closing = [a \in Setters |-> {}]
  /\ converter = [c \in Converters |-> "idle"]
  /\ takenAt = [c \in Converters |-> 0]
  /\ rate = [c \in Converters |-> NoRate]
  /\ followed = {}
  /\ seen = [x \in Setters \cup Converters |-> {}]
  /\ superseded = {}

\* The rows the look-ups' condition lets through at a time.
RunningAt(time, rows) ==
  {r \in DOMAIN rows :
     rows[r].from <= time /\ (rows[r].to = Open \/ rows[r].to > time)}

\* orderBy effectiveFrom desc, findFirst.
RateAt(time, rows) ==
  LET running == RunningAt(time, rows) IN
  IF running = {} THEN NoRate
  ELSE CHOOSE r \in running : \A s \in running : rows[s].from <= rows[r].from

CurrentRate == RateAt(now, rates)

-----------------------------------------------------------------------------
(* POST /admin/rates *)

StartSet(a) ==
  /\ setter[a] = "idle"
  /\ setter' = [setter EXCEPT ![a] = "started"]
  /\ from' = [from EXCEPT ![a] = now]
  /\ seen' = [seen EXCEPT ![a] = RateRows]
  /\ UNCHANGED <<now, rates, snapshot, closing, conversionVars, followed,
                 superseded>>

\* updateMany begins: it sees the open rows committed by now.
FindOpen(a) ==
  /\ setter[a] = "started"
  /\ snapshot' = [snapshot EXCEPT ![a] = {r \in RateRows : rates[r].to = Open}]
  /\ setter' = [setter EXCEPT ![a] = "updating"]
  /\ UNCHANGED <<now, rates, from, closing, conversionVars, followed, seen,
                 superseded>>

\* Fault: the old rows are closed in a transaction of their own.
CloseOpen_Committed(a) ==
  /\ setter[a] = "updating"
  /\ \A b \in Setters \ {a} : closing[b] \cap snapshot[a] = {}
  /\ closing' = [closing EXCEPT
                   ![a] = {r \in snapshot[a] : rates[r].to = Open}]
  /\ rates' = [r \in RateRows |-> IF r \in closing'[a]
                                  THEN [rates[r] EXCEPT !.to = from[a]]
                                  ELSE rates[r]]
  /\ setter' = [setter EXCEPT ![a] = "inserting"]
  /\ UNCHANGED <<now, from, snapshot, conversionVars, followed, seen,
                 superseded>>

\* It waits for rows that another transaction has updated, and then updates
\* those that are still open.
CloseOpen(a) ==
  /\ setter[a] = "updating"
  /\ \A b \in Setters \ {a} : closing[b] \cap snapshot[a] = {}
  /\ closing' = [closing EXCEPT
                   ![a] = {r \in snapshot[a] : rates[r].to = Open}]
  /\ setter' = [setter EXCEPT ![a] = "inserting"]
  /\ UNCHANGED <<now, rates, from, snapshot, conversionVars, followed,
                 seen, superseded>>

EndSet(a) ==
  /\ setter' = [setter EXCEPT ![a] = "idle"]
  /\ from' = [from EXCEPT ![a] = 0]
  /\ snapshot' = [snapshot EXCEPT ![a] = {}]
  /\ closing' = [closing EXCEPT ![a] = {}]
  /\ seen' = [seen EXCEPT ![a] = {}]
  /\ UNCHANGED <<now, conversionVars>>

\* Fault: the new rate is inserted, but the old one stays open.
RatesAfter_NotClosed(a) ==
  [r \in RateRows \cup {Cardinality(RateRows)} |->
     IF r \notin RateRows THEN [from |-> from[a], to |-> Open]
     ELSE rates[r]]

\* The rows once a has closed those it updated and inserted its own.
RatesAfter(a) ==
  [r \in RateRows \cup {Cardinality(RateRows)} |->
     IF r \notin RateRows THEN [from |-> from[a], to |-> Open]
     ELSE IF r \in closing[a] THEN [rates[r] EXCEPT !.to = from[a]]
     ELSE rates[r]]

\* The insert, the audit row and the commit.  (base, quote, effectiveFrom) is
\* unique: of two rates with one time the second is refused.
CommitSet(a) ==
  /\ setter[a] = "inserting"
  /\ Cardinality(RateRows) <= MaxRates
  /\ \A r \in RateRows : rates[r].from # from[a]
  /\ rates' = RatesAfter(a)
  /\ followed' = followed \cup seen[a]
  /\ superseded' = superseded \cup ({CurrentRate} \ {RateAt(now, rates')})
  /\ EndSet(a)

\* The unique constraint, a failed query, a timeout or the end of the process.
AbortSet(a) ==
  /\ setter[a] # "idle"
  /\ EndSet(a)
  /\ UNCHANGED <<rates, followed, superseded>>

-----------------------------------------------------------------------------
(* The look-up of convertFiatToKcrd and convertKcrdToFiat, which they continue *)
(* with; and getCurrentRates, for the routes that show the rates.             *)

\* The time is taken once, before the first query.
Start(c, stage) ==
  /\ converter[c] = "idle"
  /\ converter' = [converter EXCEPT ![c] = stage]
  /\ takenAt' = [takenAt EXCEPT ![c] = now]
  /\ rate' = [rate EXCEPT ![c] = NoRate]
  /\ seen' = [seen EXCEPT ![c] = followed]
  /\ UNCHANGED <<now, rateVars>>

StartConversion(c) == Start(c, "rate")

StartView(c) == Start(c, "viewing")

\* Not ordered: of several running rows of a pair, whichever comes last.
getCurrentRates(c) ==
  /\ converter[c] = "viewing"
  /\ LET running == RunningAt(takenAt[c], rates) IN
       \E r \in running \cup {NoRate} :
         /\ r = NoRate => running = {}
         /\ rate' = [rate EXCEPT ![c] = r]
  /\ converter' = [converter EXCEPT ![c] = "idle"]
  /\ takenAt' = [takenAt EXCEPT ![c] = 0]
  /\ seen' = [seen EXCEPT ![c] = {}]
  /\ UNCHANGED <<now, rateVars>>

\* Without a rate the conversion is refused.
getActiveRate(c) ==
  /\ converter[c] = "rate"
  /\ rate' = [rate EXCEPT ![c] = RateAt(takenAt[c], rates)]
  /\ converter' = [converter EXCEPT ![c] = "idle"]
  /\ takenAt' = [takenAt EXCEPT ![c] = 0]
  /\ seen' = [seen EXCEPT ![c] = {}]
  /\ UNCHANGED <<now, rateVars>>

-----------------------------------------------------------------------------

RatesTick ==
  /\ now < MaxTime
  /\ now' = now + 1
  /\ UNCHANGED <<rateVars, conversionVars, seen>>

RatesNext ==
  \/ \E a \in Setters : \/ StartSet(a)
                        \/ FindOpen(a)
                        \/ CloseOpen(a)
                        \/ CommitSet(a)
                        \/ AbortSet(a)
  \/ \E c \in Converters : \/ StartConversion(c)
                           \/ StartView(c)
                           \/ getCurrentRates(c)
                           \/ getActiveRate(c)
  \/ RatesTick

RatesSpec == RatesInit /\ [][RatesNext]_pricingVars

-----------------------------------------------------------------------------
(* Properties *)

\* A conversion or a view always finds a rate, however sets and look-ups
\* interleave and in whatever order sets commit: a rate's row ends when its
\* successor's begins, and both change at once.
RateNeverMissing ==
  [][\A c \in Converters :
       converter[c] \in {"rate", "viewing"} /\ converter'[c] # converter[c] =>
         rate'[c] # NoRate]_pricingVars

\* A conversion or a view never uses a rate that was followed by a later set
\* before it began, not even when sets have overlapped and left two rows open,
\* nor where the look-up does not order the running rows.
FollowedRateUnused ==
  [][\A c \in Converters :
       converter[c] \in {"rate", "viewing"} /\ converter'[c] # converter[c] =>
         rate'[c] \notin seen[c]]_pricingVars

\* So a look-up gets a rate, and none that was followed before it began.
LookUpsFindRates == RateNeverMissing /\ FollowedRateUnused

\* Whatever the interleaving, the rate in force changes as on a board on which a
\* rate replaces its predecessor for good.
Board == INSTANCE RateBoard
           WITH Rates <- RateIds, current <- CurrentRate, superseded <- superseded
ImplementsRateBoard == Board!Spec
=============================================================================
