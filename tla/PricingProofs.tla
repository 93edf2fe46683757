--------------------------- MODULE PricingProofs ---------------------------
(***************************************************************************)
(* For any administrators and conversions, and any number of rates: a      *)
(* look-up always finds a rate, never one that a later set had followed,   *)
(* and the rate in force changes as on a RateBoard.                        *)
(*                                                                         *)
(* For any administrators and transfers, and any number of fee schedules:  *)
(* some schedule is always open, and the one that is replaced stays        *)
(* replaced unless two applications overlap.                               *)
(*                                                                         *)
(* For any promotions and users: the bonus of a conversion is no less than *)
(* that of any promotion that applied to it all the time.                  *)
(*                                                                         *)
(* With the rounding of FeeEngineProofs, these are the parts of MCPricing. *)
(***************************************************************************)
EXTENDS MCPricing, FeeEngineProofs, FiniteSetTheorems, WellFoundedInduction

OpenRates == {r \in RateRows : rates[r].to = Open}

\* Rows are numbered in the order of their commits, and nothing that is
\* committed or taken lies in the future.
RowsKnown ==
  /\ Cardinality(RateRows) \in Nat
  /\ RateRows = 0 .. Cardinality(RateRows) - 1
  /\ \A r \in RateRows :
       rates[r].from <= now /\ (rates[r].to = Open \/ rates[r].to <= now)
  /\ \A a \in Setters : from[a] <= now
  /\ \A c \in Converters : takenAt[c] <= now

\* At every time some rate is running.
Covered == \A time \in Nat : RunningAt(time, rates) # {}

\* What a set has updated is open, and locked.
ClosingLocked ==
  \A a \in Setters :
    /\ closing[a] \subseteq OpenRates
    /\ \A b \in Setters : a # b => closing[a] \cap closing[b] = {}

\* A set that has begun to update closes every row that it began after and that
\* is still open, and with a row each open one that was committed before it.
SetsCloseAll ==
  \A a \in Setters :
    /\ seen[a] \subseteq RateRows
    /\ setter[a] = "updating" =>
         /\ snapshot[a] \subseteq RateRows
         /\ seen[a] \cap OpenRates \subseteq snapshot[a]
         /\ \A r \in OpenRates, s \in snapshot[a] : r < s => r \in snapshot[a]
    /\ setter[a] = "inserting" =>
         /\ seen[a] \cap OpenRates \subseteq closing[a]
         /\ \A r \in OpenRates, s \in closing[a] : r < s => r \in closing[a]

\* A rate that was followed is closed, and was when the look-up took its time.
FollowedClosed ==
  /\ followed \subseteq RateRows \ OpenRates
  /\ \A c \in Converters :
       /\ seen[c] \subseteq RateRows \ OpenRates
       /\ \A r \in seen[c] : rates[r].to <= takenAt[c]

\* A superseded rate is closed, or a row that was committed later and takes
\* effect later is open.
SupersededBehind ==
  \A r \in superseded :
    /\ r \in RateRows
    /\ r \in OpenRates =>
         \E s \in OpenRates : r < s /\ rates[r].from < rates[s].from

RatesInv ==
  /\ RatesTypeOK
  /\ RowsKnown
  /\ Covered
  /\ ClosingLocked
  /\ SetsCloseAll
  /\ FollowedClosed
  /\ SupersededBehind

-----------------------------------------------------------------------------
(* The rate that a look-up gets *)

\* Of some rows, one takes effect last: what RateAt chooses is there.
LEMMA LatestRow ==
  ASSUME NEW rows, NEW running \in SUBSET (DOMAIN rows), running # {},
         \A r \in running : rows[r].from \in 0 .. MaxTime
  PROVE  \E r \in running : \A s \in running : rows[s].from <= rows[r].from
<1> DEFINE left == {MaxTime - rows[r].from : r \in running}
<1>1. MaxTime \in Nat
  BY ConversionRatesAssumption
<1>2. left \subseteq Nat /\ left # {}
  BY <1>1
<1>3. PICK x \in left : \A y \in left : ~ (<<y, x>> \in OpToRel(<, Nat))
  BY <1>2, NatLessThanWellFounded, WFMin
<1>4. \A y \in left : ~ (y < x)
  BY <1>2, <1>3 DEF OpToRel
<1>5. PICK r \in running : x = MaxTime - rows[r].from
  OBVIOUS
<1>6. \A s \in running : MaxTime - rows[s].from \in left
  OBVIOUS
<1>7. \A s \in running : ~ (MaxTime - rows[s].from < MaxTime - rows[r].from)
  BY <1>4, <1>5, <1>6
<1>8. \A s \in running : rows[s].from <= rows[r].from
  BY <1>1, <1>7
<1>9. QED
  BY <1>8

\* A look-up gets a running row that takes effect last, or none if none runs.
LEMMA RateAtRunning ==
  ASSUME NEW rows, NEW time,
         \A r \in DOMAIN rows : rows[r].from \in 0 .. MaxTime
  PROVE  /\ RunningAt(time, rows) # {} =>
              /\ RateAt(time, rows) \in RunningAt(time, rows)
              /\ \A s \in RunningAt(time, rows) :
                   rows[s].from <= rows[RateAt(time, rows)].from
         /\ RunningAt(time, rows) = {} => RateAt(time, rows) = NoRate
<1>1. RunningAt(time, rows) \subseteq DOMAIN rows
  BY DEF RunningAt
<1>2. CASE RunningAt(time, rows) = {}
  BY <1>2 DEF RateAt
<1>3. CASE RunningAt(time, rows) # {}
  <2>1. \E r \in RunningAt(time, rows) :
          \A s \in RunningAt(time, rows) : rows[s].from <= rows[r].from
    BY <1>1, <1>3, LatestRow
  <2>2. RateAt(time, rows) = CHOOSE r \in RunningAt(time, rows) :
          \A s \in RunningAt(time, rows) : rows[s].from <= rows[r].from
    BY <1>3 DEF RateAt
  <2>3. QED
    BY <1>3, <2>1, <2>2
<1>4. QED
  BY <1>2, <1>3

\* What runs now is what is open, and the rate in force is its latest row.
LEMMA CurrentIsLatest ==
  ASSUME RatesTypeOK, RowsKnown, Covered
  PROVE  /\ RunningAt(now, rates) = OpenRates
         /\ CurrentRate \in OpenRates
         /\ \A s \in OpenRates : rates[s].from <= rates[CurrentRate].from
<1>1. now \in Nat
  BY ConversionRatesAssumption DEF RatesTypeOK
<1>2. RunningAt(now, rates) = OpenRates
  BY <1>1 DEF RowsKnown, RatesTypeOK, RunningAt, OpenRates, RateRows, Open
<1>3. \A r \in DOMAIN rates : rates[r].from \in 0 .. MaxTime
  BY DEF RatesTypeOK, RateRows
<1>4. RunningAt(now, rates) # {}
  BY <1>1 DEF Covered
<1>5. QED
  BY <1>2, <1>3, <1>4, RateAtRunning DEF CurrentRate

LatestIsOpen ==
  /\ CurrentRate \in OpenRates
  /\ \A s \in OpenRates : rates[s].from <= rates[CurrentRate].from

\* The row in force is the open row that is latest.
LEMMA CurrentIsLatestOpen == RatesTypeOK /\ RowsKnown /\ Covered => LatestIsOpen
  BY CurrentIsLatest DEF LatestIsOpen

\* A row is the rate in force exactly when it is open and none is later.
LEMMA CurrentIsUnique ==
  ASSUME RatesTypeOK, RowsKnown, Covered, NEW r \in OpenRates,
         \A s \in OpenRates : rates[s].from <= rates[r].from
  PROVE  r = CurrentRate
<1>1. /\ CurrentRate \in OpenRates
      /\ \A s \in OpenRates : rates[s].from <= rates[CurrentRate].from
  BY CurrentIsLatest
<1>2. rates[r].from <= rates[CurrentRate].from
      /\ rates[CurrentRate].from <= rates[r].from
  BY <1>1
<1>3. r \in RateRows /\ CurrentRate \in RateRows
  BY <1>1 DEF OpenRates
<1>4. rates[r].from \in Int /\ rates[CurrentRate].from \in Int
  BY <1>3 DEF RatesTypeOK
<1>5. rates[r].from = rates[CurrentRate].from
  BY <1>2, <1>4
<1>6. QED
  BY <1>3, <1>5 DEF RatesTypeOK

-----------------------------------------------------------------------------
(* The steps *)

\* The seeded rate is open from the beginning.
LEMMA RatesStart == RatesInit => RatesInv
<1> SUFFICES ASSUME RatesInit PROVE RatesInv
  OBVIOUS
<1> USE ConversionRatesAssumption
<1>1. /\ RateRows = {0} /\ OpenRates = {0}
      /\ rates[0].from = 0 /\ rates[0].to = Open
      /\ rates = [r \in {0} |-> [from |-> 0, to |-> Open]]
  BY DEF RatesInit, RateRows, OpenRates, Open
<1>2. RatesTypeOK
  <2>1. rates \in [RateRows -> [from : 0 .. MaxTime, to : 0 .. MaxTime \cup {Open}]]
    BY <1>1
  <2>2. QED
    BY <1>1, <2>1 DEF RatesInit, RatesTypeOK, RateIds
<1>3. RowsKnown
  <2>1. Cardinality({0}) = 1
    BY FS_Singleton
  <2>2. {0} = 0 .. 1 - 1
    OBVIOUS
  <2>3. QED
    BY <1>1, <2>1, <2>2 DEF RatesInit, RowsKnown
<1>4. Covered
  BY <1>1 DEF Covered, RunningAt, RateRows
<1>5. ClosingLocked /\ SetsCloseAll /\ FollowedClosed /\ SupersededBehind
  BY DEF RatesInit, ClosingLocked, SetsCloseAll, FollowedClosed, SupersededBehind
<1>6. QED
  BY <1>2, <1>3, <1>4, <1>5 DEF RatesInv

\* A set that is under way commits nothing.
LEMMA SettingStep ==
  ASSUME RatesInv, NEW a \in Setters, StartSet(a) \/ FindOpen(a) \/ CloseOpen(a)
  PROVE  RatesInv'
<1> USE DEF RatesInv
<1>1. UNCHANGED <<now, rates, conversionVars, followed, superseded>>
  BY DEF StartSet, FindOpen, CloseOpen
<1>2. RateRows' = RateRows /\ OpenRates' = OpenRates
  BY <1>1 DEF RateRows, OpenRates
<1>3. \A c \in Converters : seen'[c] = seen[c]
  BY ConversionRatesAssumption DEF RatesTypeOK, StartSet, FindOpen, CloseOpen
<1>4. RatesTypeOK'
  <2>1. CASE StartSet(a)
    BY <1>1, <1>2, <2>1 DEF RatesTypeOK, StartSet, conversionVars
  <2>2. CASE FindOpen(a)
    BY <1>1, <1>2, <2>2 DEF RatesTypeOK, FindOpen, conversionVars
  <2>3. CASE CloseOpen(a)
    BY <1>1, <1>2, <2>3 DEF RatesTypeOK, CloseOpen, conversionVars
  <2>4. QED
    BY <2>1, <2>2, <2>3
<1>5. RowsKnown'
  <2>1. from' = from \/ from' = [from EXCEPT ![a] = now]
    BY DEF StartSet, FindOpen, CloseOpen
  <2>2. \A b \in Setters : from'[b] <= now
    <3>1. now \in Nat
      BY ConversionRatesAssumption DEF RatesTypeOK
    <3>2. from \in [Setters -> 0 .. MaxTime] /\ \A b \in Setters : from[b] <= now
      BY DEF RowsKnown, RatesTypeOK
    <3>3. CASE from' = from
      BY <3>2, <3>3
    <3>4. CASE from' = [from EXCEPT ![a] = now]
      BY <3>1, <3>2, <3>4
    <3>5. QED
      BY <2>1, <3>3, <3>4
  <2>3. QED
    BY <1>1, <1>2, <2>2 DEF RowsKnown, conversionVars
<1>6. Covered'
  BY <1>1 DEF Covered, RunningAt
<1>7. ClosingLocked'
  <2>1. CASE CloseOpen(a)
    <3>1. /\ closing' = [closing EXCEPT ![a] = {r \in snapshot[a] : rates[r].to = Open}]
          /\ \A b \in Setters \ {a} : closing[b] \cap snapshot[a] = {}
          /\ snapshot[a] \subseteq RateRows
      BY <2>1 DEF CloseOpen, SetsCloseAll
    <3>2. /\ closing'[a] \subseteq OpenRates
          /\ closing'[a] \subseteq snapshot[a]
          /\ \A b \in Setters \ {a} : closing'[b] = closing[b]
      BY <3>1 DEF RatesTypeOK, OpenRates
    <3>3. QED
      BY <1>2, <3>1, <3>2 DEF ClosingLocked
  <2>2. CASE closing' = closing
    BY <1>2, <2>2 DEF ClosingLocked
  <2>3. QED
    BY <2>1, <2>2 DEF StartSet, FindOpen
<1>8. SetsCloseAll'
  <2>1. \A b \in Setters \ {a} : /\ seen'[b] = seen[b]
                                 /\ setter'[b] = setter[b]
                                 /\ snapshot'[b] = snapshot[b]
                                 /\ closing'[b] = closing[b]
    BY DEF RatesTypeOK, StartSet, FindOpen, CloseOpen
  <2>2. CASE StartSet(a)
    <3>1. setter'[a] = "started" /\ seen'[a] = RateRows
      BY <2>2 DEF RatesTypeOK, StartSet
    <3>2. QED
      BY <1>2, <2>1, <3>1 DEF SetsCloseAll
  <2>3. CASE FindOpen(a)
    <3>1. setter'[a] = "updating" /\ seen'[a] = seen[a] /\ snapshot'[a] = OpenRates
      BY <2>3 DEF RatesTypeOK, FindOpen, OpenRates
    <3>2. OpenRates \subseteq RateRows
      BY DEF OpenRates
    <3>3. QED
      BY <1>2, <2>1, <3>1, <3>2 DEF SetsCloseAll
  <2>4. CASE CloseOpen(a)
    <3>1. /\ setter[a] = "updating" /\ setter'[a] = "inserting"
          /\ seen'[a] = seen[a]
          /\ closing'[a] = {r \in snapshot[a] : rates[r].to = Open}
      BY <2>4 DEF RatesTypeOK, CloseOpen
    <3>2. closing'[a] = snapshot[a] \cap OpenRates
      BY <3>1 DEF SetsCloseAll, OpenRates
    <3>3. QED
      BY <1>2, <2>1, <3>1, <3>2 DEF SetsCloseAll
  <2>5. QED
    BY <2>2, <2>3, <2>4
<1>9. FollowedClosed'
  BY <1>1, <1>2, <1>3 DEF FollowedClosed, conversionVars
<1>10. SupersededBehind'
  BY <1>1, <1>2 DEF SupersededBehind
<1>11. QED
  BY <1>4, <1>5, <1>6, <1>7, <1>8, <1>9, <1>10

\* The rows after a set commits: those it updated are closed, its own is added.
LEMMA CommittedRows ==
  ASSUME RatesInv, NEW a \in Setters, CommitSet(a)
  PROVE  LET new == Cardinality(RateRows) IN
         /\ new \in RateIds /\ new \notin RateRows
         /\ RateRows' = RateRows \cup {new}
         /\ rates' \in [RateRows' -> [from : 0 .. MaxTime,
                                      to : 0 .. MaxTime \cup {Open}]]
         /\ rates'[new].from = from[a] /\ rates'[new].to = Open
         /\ \A r \in RateRows :
              /\ r < new
              /\ rates'[r].from = rates[r].from
              /\ r \in closing[a] => rates'[r].to = from[a]
              /\ r \notin closing[a] => rates'[r].to = rates[r].to
         /\ OpenRates' = (OpenRates \ closing[a]) \cup {new}
<1> DEFINE new == Cardinality(RateRows)
<1> USE DEF RatesInv
<1>1. /\ new \in Nat /\ new <= MaxRates /\ RateRows = 0 .. new - 1
      /\ rates' = RatesAfter(a)
  BY DEF CommitSet, RowsKnown
<1>2. new \in RateIds /\ new \notin RateRows /\ \A r \in RateRows : r < new
  BY <1>1, ConversionRatesAssumption DEF RateIds
<1>3. rates' = [r \in RateRows \cup {new} |->
                  IF r \notin RateRows THEN [from |-> from[a], to |-> Open]
                  ELSE IF r \in closing[a] THEN [rates[r] EXCEPT !.to = from[a]]
                  ELSE rates[r]]
  BY <1>1 DEF RatesAfter
<1>4. RateRows' = RateRows \cup {new}
  BY <1>3 DEF RateRows
<1>5. rates'[new] = [from |-> from[a], to |-> Open]
  BY <1>2, <1>3
<1>6. /\ from[a] \in 0 .. MaxTime
      /\ \A r \in RateRows : rates[r] \in [from : 0 .. MaxTime,
                                           to : 0 .. MaxTime \cup {Open}]
  BY DEF RatesTypeOK
<1>7. \A r \in RateRows :
        /\ r \in closing[a] => rates'[r] = [rates[r] EXCEPT !.to = from[a]]
        /\ r \notin closing[a] => rates'[r] = rates[r]
  BY <1>3
<1>8. \A r \in RateRows : /\ rates'[r].from = rates[r].from
                          /\ r \in closing[a] => rates'[r].to = from[a]
                          /\ r \notin closing[a] => rates'[r].to = rates[r].to
  BY <1>6, <1>7
<1>9. rates' \in [RateRows' -> [from : 0 .. MaxTime, to : 0 .. MaxTime \cup {Open}]]
  <2>1. \A r \in RateRows : rates'[r] \in [from : 0 .. MaxTime,
                                           to : 0 .. MaxTime \cup {Open}]
    BY <1>6, <1>7
  <2>2. rates'[new] \in [from : 0 .. MaxTime, to : 0 .. MaxTime \cup {Open}]
    BY <1>5, <1>6
  <2>3. QED
    BY <1>3, <1>4, <2>1, <2>2
<1>10. rates'[new].from = from[a] /\ rates'[new].to = Open
  BY <1>5
<1>11. OpenRates' = (OpenRates \ closing[a]) \cup {new}
  <2>1. from[a] # Open
    BY <1>6, ConversionRatesAssumption DEF Open
  <2>2. \A r \in RateRows : rates'[r].to = Open <=> (rates[r].to = Open /\ r \notin closing[a])
    BY <1>8, <2>1
  <2>3. QED
    BY <1>4, <1>10, <2>2 DEF OpenRates
<1>12. QED
  BY <1>2, <1>4, <1>8, <1>9, <1>10, <1>11

\* Who commits leaves the others what they have read and updated.
LEMMA OthersUntouched ==
  ASSUME RatesInv, NEW a \in Setters, EndSet(a)
  PROVE  /\ UNCHANGED <<now, conversionVars>>
         /\ setter'[a] = "idle" /\ closing'[a] = {} /\ seen'[a] = {}
         /\ \A b \in Setters \ {a} : /\ setter'[b] = setter[b]
                                     /\ snapshot'[b] = snapshot[b]
                                     /\ closing'[b] = closing[b]
                                     /\ seen'[b] = seen[b]
         /\ \A b \in Setters : from'[b] \in {0, from[b]}
         /\ \A c \in Converters : seen'[c] = seen[c]
  BY ConversionRatesAssumption DEF RatesInv, RatesTypeOK, EndSet

\* The locals of a set that has ended keep their types.
LEMMA EndedTypes ==
  ASSUME RatesInv, NEW a \in Setters, EndSet(a)
  PROVE  /\ setter' \in [Setters -> {"idle", "started", "updating", "inserting"}]
         /\ from' \in [Setters -> 0 .. MaxTime]
         /\ snapshot' \in [Setters -> SUBSET RateIds]
         /\ closing' \in [Setters -> SUBSET RateIds]
         /\ seen' \in [Setters \cup Converters -> SUBSET RateIds]
  BY ConversionRatesAssumption DEF RatesInv, RatesTypeOK, EndSet

\* A set that is given up leaves the rows alone and forgets what it closed.
LEMMA AbortStep ==
  ASSUME RatesInv, NEW a \in Setters, AbortSet(a)
  PROVE  RatesInv'
<1> USE DEF RatesInv
<1>1. EndSet(a) /\ UNCHANGED <<rates, followed, superseded>>
  BY DEF AbortSet
<1>2. RateRows' = RateRows /\ OpenRates' = OpenRates
  BY <1>1 DEF RateRows, OpenRates
<1>3. RatesTypeOK'
  BY <1>1, <1>2, EndedTypes, OthersUntouched DEF RatesTypeOK, conversionVars
<1>4. RowsKnown'
  <2>1. \A b \in Setters : from'[b] <= now
    <3>1. 0 <= now
      BY ConversionRatesAssumption DEF RatesTypeOK
    <3>2. QED
      BY <1>1, <3>1, OthersUntouched DEF RowsKnown
  <2>2. QED
    BY <1>1, <1>2, <2>1, OthersUntouched DEF RowsKnown, conversionVars
<1>5. Covered'
  BY <1>1 DEF Covered, RunningAt
<1>6. ClosingLocked'
  BY <1>1, <1>2, OthersUntouched DEF ClosingLocked
<1>7. SetsCloseAll'
  BY <1>1, <1>2, OthersUntouched DEF SetsCloseAll
<1>8. FollowedClosed'
  BY <1>1, <1>2, OthersUntouched DEF FollowedClosed, conversionVars
<1>9. SupersededBehind'
  BY <1>1, <1>2 DEF SupersededBehind
<1>10. QED
  BY <1>3, <1>4, <1>5, <1>6, <1>7, <1>8, <1>9

\* A set closes only rows that began before its own, and its own begins where
\* theirs end; so a time that was covered still is.
LEMMA CommitCovers ==
  ASSUME RatesInv, NEW a \in Setters, CommitSet(a)
  PROVE  Covered'
<1> DEFINE new == Cardinality(RateRows)
<1> SUFFICES ASSUME NEW time \in Nat
             PROVE  RunningAt(time, rates') # {}
  BY DEF Covered
<1>1. from[a] \in Nat
  BY ConversionRatesAssumption DEF RatesInv, RatesTypeOK
<1>2. CASE from[a] <= time
  <2>1. new \in RunningAt(time, rates')
    BY <1>2, CommittedRows DEF RunningAt, RateRows
  <2>2. QED
    BY <2>1
<1>3. CASE time < from[a]
  <2>1. PICK r \in RunningAt(time, rates) : TRUE
    BY DEF RatesInv, Covered
  <2>2. r \in RateRows /\ rates[r].from <= time
        /\ (rates[r].to = Open \/ rates[r].to > time)
    BY <2>1 DEF RunningAt, RateRows
  <2>3. r \in RunningAt(time, rates')
    BY <1>1, <1>3, <2>2, CommittedRows DEF RunningAt, RateRows
  <2>4. QED
    BY <2>3
<1>4. QED
  BY <1>1, <1>2, <1>3

\* The new row joins the open ones, those it closed end where it begins.
LEMMA CommitStep ==
  ASSUME RatesInv, NEW a \in Setters, CommitSet(a)
  PROVE  RatesInv'
<1> DEFINE new == Cardinality(RateRows)
<1> USE DEF RatesInv
<1>1. /\ EndSet(a) /\ setter[a] = "inserting"
      /\ \A r \in RateRows : rates[r].from # from[a]
      /\ followed' = followed \cup seen[a]
      /\ superseded' = superseded \cup ({CurrentRate} \ {RateAt(now, rates')})
      /\ now' = now
  BY DEF CommitSet, EndSet
<1>2. /\ CurrentRate \in OpenRates
      /\ \A s \in OpenRates : rates[s].from <= rates[CurrentRate].from
  BY CurrentIsLatest
<1>3. OpenRates \subseteq RateRows /\ RateRows \subseteq RateIds
  BY DEF OpenRates, RatesTypeOK
<1>4. seen[a] \subseteq RateRows /\ seen[a] \cap OpenRates \subseteq closing[a]
  BY <1>1 DEF SetsCloseAll
<1>5. RatesTypeOK'
  <2>1. \A r, q \in RateRows' : rates'[r].from = rates'[q].from => r = q
    BY <1>1, CommittedRows DEF RatesTypeOK
  <2>2. followed' \subseteq RateIds /\ superseded' \subseteq RateIds
    BY <1>1, <1>2, <1>3, <1>4 DEF RatesTypeOK
  <2>3. RateRows' \subseteq RateIds
    BY <1>3, CommittedRows
  <2>4. QED
    BY <1>1, <2>1, <2>2, <2>3, CommittedRows, EndedTypes, OthersUntouched
       DEF RatesTypeOK, conversionVars
<1>6. RowsKnown'
  <2>1. /\ new \in Nat /\ RateRows = 0 .. new - 1
    BY DEF RowsKnown
  <2>2. RateRows' = 0 .. new
    <3>1. RateRows' = RateRows \cup {new}
      BY CommittedRows
    <3>2. (0 .. new - 1) \cup {new} = 0 .. new
      BY <2>1
    <3>3. QED
      BY <2>1, <3>1, <3>2
  <2>3. Cardinality(0 .. new) = new + 1
    BY <2>1, FS_Interval
  <2>4. 0 <= now /\ from[a] <= now /\ from[a] \in Nat
    BY ConversionRatesAssumption DEF RatesTypeOK, RowsKnown
  <2>5. \A r \in RateRows' :
          rates'[r].from <= now /\ (rates'[r].to = Open \/ rates'[r].to <= now)
    BY <2>4, CommittedRows DEF RowsKnown
  <2>6. \A b \in Setters : from'[b] <= now
    BY <1>1, <2>4, OthersUntouched DEF RowsKnown
  <2>7. QED
    BY <1>1, <2>1, <2>2, <2>3, <2>5, <2>6, OthersUntouched
       DEF RowsKnown, conversionVars
<1>7. Covered'
  BY CommitCovers
<1>8. ClosingLocked'
  BY <1>1, OthersUntouched, CommittedRows DEF ClosingLocked
<1>9. SetsCloseAll'
  <2> SUFFICES ASSUME NEW b \in Setters
               PROVE  /\ seen'[b] \subseteq RateRows'
                      /\ setter'[b] = "updating" =>
                           /\ snapshot'[b] \subseteq RateRows'
                           /\ seen'[b] \cap OpenRates' \subseteq snapshot'[b]
                           /\ \A r \in OpenRates', s \in snapshot'[b] :
                                r < s => r \in snapshot'[b]
                      /\ setter'[b] = "inserting" =>
                           /\ seen'[b] \cap OpenRates' \subseteq closing'[b]
                           /\ \A r \in OpenRates', s \in closing'[b] :
                                r < s => r \in closing'[b]
    BY DEF SetsCloseAll
  <2>1. CASE b = a
    BY <1>1, <2>1, OthersUntouched
  <2>2. CASE b # a
    <3>1. /\ setter'[b] = setter[b] /\ snapshot'[b] = snapshot[b]
          /\ closing'[b] = closing[b] /\ seen'[b] = seen[b]
      BY <1>1, <2>2, OthersUntouched
    <3>2. /\ new \notin RateRows /\ \A r \in RateRows : r < new
          /\ RateRows' = RateRows \cup {new}
          /\ OpenRates' \subseteq OpenRates \cup {new}
      BY CommittedRows
    <3>3. \A s \in RateRows : ~ (new < s)
      BY <3>2 DEF RowsKnown
    <3>4. closing[b] \subseteq RateRows
      BY <1>3 DEF ClosingLocked
    <3>5. QED
      BY <3>1, <3>2, <3>3, <3>4 DEF SetsCloseAll
  <2>3. QED
    BY <2>1, <2>2
<1>10. FollowedClosed'
  <2>1. \A r \in RateRows \ OpenRates : r \notin closing[a]
    BY DEF ClosingLocked
  <2>2. RateRows \ OpenRates \subseteq RateRows' \ OpenRates'
    BY CommittedRows
  <2>3. seen[a] \subseteq RateRows' \ OpenRates'
    BY <1>4, CommittedRows
  <2>4. ASSUME NEW c \in Converters
        PROVE  /\ seen'[c] \subseteq RateRows' \ OpenRates'
               /\ \A r \in seen'[c] : rates'[r].to <= takenAt'[c]
    <3>1. /\ seen'[c] = seen[c] /\ takenAt'[c] = takenAt[c]
          /\ converter'[c] = converter[c]
      BY <1>1, OthersUntouched DEF conversionVars
    <3>2. \A r \in seen[c] : r \in RateRows \ OpenRates /\ rates'[r].to = rates[r].to
      BY <2>1, CommittedRows DEF FollowedClosed
    <3>3. QED
      BY <2>2, <3>1, <3>2 DEF FollowedClosed
  <2>5. QED
    BY <1>1, <2>2, <2>3, <2>4 DEF FollowedClosed
<1>11. SupersededBehind'
  <2> SUFFICES ASSUME NEW r \in superseded'
               PROVE  /\ r \in RateRows'
                      /\ r \in OpenRates' =>
                           \E s \in OpenRates' : r < s /\ rates'[r].from < rates'[s].from
    BY DEF SupersededBehind
  <2>1. r \in RateRows
    BY <1>1, <1>2, <1>3 DEF SupersededBehind
  <2>2. r \in RateRows' /\ r < new /\ new \in OpenRates'
    BY <2>1, CommittedRows
  <2>3. CASE r \notin OpenRates'
    BY <2>2, <2>3
  <2>4. CASE r \in OpenRates' /\ r \in superseded
    <3>1. r \in OpenRates /\ r \notin closing[a]
      BY <2>1, <2>4, CommittedRows
    <3>2. PICK s \in OpenRates : r < s /\ rates[r].from < rates[s].from
      BY <2>4, <3>1 DEF SupersededBehind
    <3>3. s \notin closing[a]
      BY <1>1, <3>1, <3>2 DEF SetsCloseAll
    <3>4. s \in OpenRates' /\ rates'[s].from = rates[s].from
          /\ rates'[r].from = rates[r].from
      BY <1>3, <2>1, <3>2, <3>3, CommittedRows
    <3>5. QED
      BY <2>2, <3>2, <3>4
  <2>5. CASE r \in OpenRates' /\ r \notin superseded
    <3>1. r = CurrentRate /\ CurrentRate' # r
      BY <1>1, <2>5 DEF CurrentRate
    <3>2. /\ CurrentRate' \in OpenRates'
          /\ \A s \in OpenRates' : rates'[s].from <= rates'[CurrentRate'].from
      <4>1. RatesTypeOK' /\ RowsKnown' /\ Covered'
        BY <1>5, <1>6, <1>7
      <4>2. LatestIsOpen'
        BY <4>1, CurrentIsLatestOpen, PTL
      <4>3. QED
        BY <4>2 DEF LatestIsOpen
    <3>3. \A s \in OpenRates : rates[s].from <= rates[r].from
      BY <1>2, <3>1
    <3>4. \A s \in OpenRates' : s # r /\ s # new => rates'[s].from <= rates'[r].from
                                                   /\ s \in RateRows
      BY <1>3, <2>1, <3>3, CommittedRows
    <3>5. r \in RateRows' /\ CurrentRate' \in RateRows'
      BY <1>3, <2>2, <3>2, CommittedRows
    <3>6. /\ rates'[r].from \in Int /\ rates'[CurrentRate'].from \in Int
          /\ rates'[r].from # rates'[CurrentRate'].from
      BY <1>5, <3>1, <3>5 DEF RatesTypeOK
    <3>7. rates'[r].from < rates'[CurrentRate'].from
      BY <2>5, <3>2, <3>6
    <3>8. CurrentRate' = new
      BY <3>1, <3>2, <3>4, <3>6, <3>7
    <3>9. QED
      BY <2>2, <3>2, <3>7, <3>8
  <2>6. QED
    BY <2>3, <2>4, <2>5
<1>12. QED
  BY <1>5, <1>6, <1>7, <1>8, <1>9, <1>10, <1>11

\* Views and conversions change no rate.
LEMMA ConverterTypes ==
  ASSUME RatesInv, NEW c \in Converters, NEW first \in {"rate", "viewing"},
         \/ Start(c, first) \/ getCurrentRates(c)
         \/ getActiveRate(c)
  PROVE  /\ converter' \in [Converters -> {"idle", "viewing", "rate"}]
         /\ takenAt' \in [Converters -> 0 .. MaxTime]
         /\ rate' \in [Converters -> RateIds \cup {NoRate}]
         /\ seen' \in [Setters \cup Converters -> SUBSET RateIds]
<1> USE DEF RatesInv
<1>1. CASE Start(c, first)
  BY <1>1 DEF RatesTypeOK, Start
<1>2. CASE getCurrentRates(c)
  <2>1. RunningAt(takenAt[c], rates) \subseteq RateIds
    BY DEF RunningAt, RatesTypeOK, RateRows
  <2>2. rate' \in [Converters -> RateIds \cup {NoRate}]
    BY <1>2, <2>1 DEF RatesTypeOK, getCurrentRates
  <2>3. QED
    BY <1>2, <2>2, ConversionRatesAssumption DEF RatesTypeOK, getCurrentRates
<1>3. CASE getActiveRate(c)
  <2>1. \A r \in DOMAIN rates : rates[r].from \in 0 .. MaxTime
    BY DEF RatesTypeOK, RateRows
  <2>2. RunningAt(takenAt[c], rates) \subseteq RateIds
    BY DEF RunningAt, RatesTypeOK, RateRows
  <2>3. RateAt(takenAt[c], rates) \in RateIds \cup {NoRate}
    BY <2>1, <2>2, RateAtRunning
  <2>4. rate' \in [Converters -> RateIds \cup {NoRate}]
    BY <1>3, <2>3 DEF RatesTypeOK, getActiveRate
  <2>5. QED
    BY <1>3, <2>4, ConversionRatesAssumption DEF RatesTypeOK, getActiveRate
<1>4. QED
  BY <1>1, <1>2, <1>3

\* Look-ups change no rate.
LEMMA ConverterStep ==
  ASSUME RatesInv, NEW c \in Converters, NEW first \in {"rate", "viewing"},
         \/ Start(c, first) \/ getCurrentRates(c)
         \/ getActiveRate(c)
  PROVE  RatesInv'
<1> USE DEF RatesInv
<1>1. UNCHANGED <<now, rateVars>>
  BY DEF Start, getCurrentRates, getActiveRate
<1>2. RateRows' = RateRows /\ OpenRates' = OpenRates
  BY <1>1 DEF RateRows, OpenRates, rateVars
<1>3. RatesTypeOK'
  BY <1>1, <1>2, ConverterTypes DEF RatesTypeOK, rateVars
<1>4. /\ \A a \in Setters : seen'[a] = seen[a]
      /\ \A d \in Converters \ {c} : /\ seen'[d] = seen[d] /\ takenAt'[d] = takenAt[d]
                                      /\ converter'[d] = converter[d]
  BY ConversionRatesAssumption
     DEF RatesTypeOK, Start, getCurrentRates, getActiveRate
<1>5. \/ seen'[c] = followed /\ takenAt'[c] = now
      \/ seen'[c] = {} /\ takenAt'[c] \in {0, takenAt[c]}
  <2>1. CASE Start(c, first)
    BY <2>1 DEF RatesTypeOK, Start
  <2>2. CASE getCurrentRates(c)
    BY <2>2 DEF RatesTypeOK, getCurrentRates
  <2>3. CASE getActiveRate(c)
    BY <2>3 DEF RatesTypeOK, getActiveRate
  <2>4. QED
    BY <2>1, <2>2, <2>3
<1>6. RowsKnown'
  <2>1. now \in Nat
    BY ConversionRatesAssumption DEF RatesTypeOK
  <2>2. \A d \in Converters : takenAt'[d] <= now
    BY <1>4, <1>5, <2>1 DEF RowsKnown
  <2>3. QED
    BY <1>1, <1>2, <2>2 DEF RowsKnown, rateVars
<1>7. Covered'
  BY <1>1 DEF Covered, RunningAt, rateVars
<1>8. ClosingLocked' /\ SupersededBehind'
  BY <1>1, <1>2 DEF ClosingLocked, SupersededBehind, rateVars
<1>9. SetsCloseAll'
  BY <1>1, <1>2, <1>4 DEF SetsCloseAll, rateVars
<1>10. FollowedClosed'
  <2>1. \A r \in followed : r \in RateRows \ OpenRates /\ rates[r].to <= now
    BY DEF FollowedClosed, RowsKnown, OpenRates
  <2>2. QED
    BY <1>1, <1>2, <1>4, <1>5, <2>1 DEF FollowedClosed, rateVars
<1>11. QED
  BY <1>3, <1>6, <1>7, <1>8, <1>9, <1>10

\* No row begins later than now, so that time puts none in force.
LEMMA TickStep == ASSUME RatesInv, RatesTick PROVE RatesInv'
<1> USE DEF RatesInv
<1>1. UNCHANGED <<rateVars, conversionVars, seen>>
  BY DEF RatesTick
<1>2. now \in Nat /\ now' \in 0 .. MaxTime /\ now' = now + 1
  BY ConversionRatesAssumption DEF RatesTick, RatesTypeOK
<1>3. RateRows' = RateRows /\ OpenRates' = OpenRates
  BY <1>1 DEF RateRows, OpenRates, rateVars
<1>4. RatesTypeOK'
  BY <1>1, <1>2, <1>3 DEF RatesTypeOK, rateVars, conversionVars
<1>5. RowsKnown'
  <2>1. \A r \in RateRows : /\ rates[r].from \in Int
                            /\ rates[r].to \in Int
    BY ConversionRatesAssumption DEF RatesTypeOK, Open
  <2>2. /\ \A a \in Setters : from[a] \in Int
        /\ \A c \in Converters : takenAt[c] \in Int
    BY DEF RatesTypeOK
  <2>3. \A n \in Int : n <= now => n <= now'
    BY <1>2
  <2>4. QED
    BY <1>1, <1>3, <2>1, <2>2, <2>3 DEF RowsKnown, rateVars, conversionVars
<1>6. QED
  BY <1>1, <1>3, <1>4, <1>5
     DEF Covered, RunningAt, ClosingLocked, SetsCloseAll, FollowedClosed,
         SupersededBehind, rateVars, conversionVars

\* Every step keeps the invariant.
LEMMA RatesStep == RatesInv /\ [RatesNext]_pricingVars => RatesInv'
<1> SUFFICES ASSUME RatesInv, [RatesNext]_pricingVars PROVE RatesInv'
  OBVIOUS
<1>1. CASE UNCHANGED pricingVars
  <2>1. RateRows' = RateRows /\ OpenRates' = OpenRates
    BY <1>1 DEF RateRows, OpenRates, pricingVars
  <2>2. RatesTypeOK'
    BY <1>1, <2>1 DEF RatesInv, RatesTypeOK, pricingVars
  <2>3. RowsKnown' /\ Covered' /\ SupersededBehind'
    BY <1>1, <2>1 DEF pricingVars, RatesInv, RowsKnown, Covered, RunningAt,
       SupersededBehind
  <2>4. ClosingLocked' /\ SetsCloseAll' /\ FollowedClosed'
    BY <1>1, <2>1
       DEF pricingVars, RatesInv, ClosingLocked, SetsCloseAll, FollowedClosed
  <2>5. QED
    BY <2>2, <2>3, <2>4 DEF RatesInv
<1>2. CASE RatesNext
  BY <1>2, SettingStep, CommitStep, AbortStep, ConverterStep, TickStep
     DEF RatesNext, StartConversion, StartView
<1>3. QED
  BY <1>1, <1>2

\* The invariant holds in every reachable state of the rates.
THEOREM RatesInvariant == RatesSpec => []RatesInv
  BY RatesStart, RatesStep, PTL DEF RatesSpec

-----------------------------------------------------------------------------
(* What follows *)

\* Times, rows, requests and conversions keep their types, and no two rates of
\* the pair take effect at one time.
THEOREM RatesTypeCorrect == RatesSpec => []RatesTypeOK
<1>1. RatesInv => RatesTypeOK
  BY DEF RatesInv
<1>2. QED
  BY <1>1, RatesInvariant, PTL

\* What the two look-ups return, of a conversion or a view that ends one.
LEMMA LookUpReturns ==
  ASSUME RatesInv, RatesNext, NEW c \in Converters,
         converter[c] \in {"rate", "viewing"}, converter'[c] # converter[c]
  PROVE  rate'[c] \in RunningAt(takenAt[c], rates)
<1>1. getActiveRate(c) \/ getCurrentRates(c)
  BY DEF RatesNext, StartSet, FindOpen, CloseOpen, CommitSet, AbortSet, EndSet,
         StartConversion, StartView, Start, getCurrentRates, getActiveRate,
         RatesTick,
         conversionVars, RatesInv, RatesTypeOK
<1>2. RunningAt(takenAt[c], rates) # {}
  BY ConversionRatesAssumption DEF RatesInv, RatesTypeOK, Covered
<1>3. CASE getActiveRate(c)
  <2>1. \A r \in DOMAIN rates : rates[r].from \in 0 .. MaxTime
    BY DEF RatesInv, RatesTypeOK, RateRows
  <2>2. rate'[c] = RateAt(takenAt[c], rates)
    BY <1>3 DEF getActiveRate, RatesInv, RatesTypeOK
  <2>3. QED
    BY <1>2, <2>1, <2>2, RateAtRunning
<1>4. CASE getCurrentRates(c)
  BY <1>2, <1>4 DEF getCurrentRates, RatesInv, RatesTypeOK
<1>5. QED
  BY <1>1, <1>3, <1>4

\* A conversion or a view always finds a rate.
THEOREM RatesNeverMissing == RatesSpec => RateNeverMissing
<1>1. RatesInv /\ [RatesNext]_pricingVars =>
        [\A c \in Converters :
           converter[c] \in {"rate", "viewing"} /\ converter'[c] # converter[c] =>
             rate'[c] # NoRate]_pricingVars
  <2> SUFFICES ASSUME RatesInv, RatesNext, NEW c \in Converters,
                      converter[c] \in {"rate", "viewing"},
                      converter'[c] # converter[c]
               PROVE  rate'[c] # NoRate
    OBVIOUS
  <2>1. rate'[c] \in RateIds
    BY LookUpReturns DEF RatesInv, RatesTypeOK, RunningAt, RateRows
  <2>2. QED
    BY <2>1, ConversionRatesAssumption DEF RateIds, NoRate
<1>2. QED
  BY <1>1, RatesInvariant, PTL DEF RatesSpec, RateNeverMissing

\* No conversion and no view uses a rate that a later set had followed.
THEOREM RatesFollowedUnused == RatesSpec => FollowedRateUnused
<1>1. RatesInv /\ [RatesNext]_pricingVars =>
        [\A c \in Converters :
           converter[c] \in {"rate", "viewing"} /\ converter'[c] # converter[c] =>
             rate'[c] \notin seen[c]]_pricingVars
  <2> SUFFICES ASSUME RatesInv, RatesNext, NEW c \in Converters,
                      converter[c] \in {"rate", "viewing"},
                      converter'[c] # converter[c], rate'[c] \in seen[c]
               PROVE  FALSE
    OBVIOUS
  <2>1. /\ rate'[c] \in RateRows
        /\ rates[rate'[c]].to = Open \/ rates[rate'[c]].to > takenAt[c]
    BY LookUpReturns DEF RunningAt, RateRows
  <2>2. rates[rate'[c]].to # Open /\ rates[rate'[c]].to <= takenAt[c]
    BY <2>1 DEF RatesInv, FollowedClosed, OpenRates
  <2>3. rates[rate'[c]].to \in Int /\ takenAt[c] \in Int
    BY <2>1, ConversionRatesAssumption DEF RatesInv, RatesTypeOK, Open
  <2>4. QED
    BY <2>1, <2>2, <2>3
<1>2. QED
  BY <1>1, RatesInvariant, PTL DEF RatesSpec, FollowedRateUnused

\* A look-up gets a rate, and none that was followed before it began
\* (conversion-engine.ts and current-rates.ts).
THEOREM RatesLookUpsFind == RatesSpec => LookUpsFindRates
BY RatesNeverMissing, RatesFollowedUnused DEF LookUpsFindRates

-----------------------------------------------------------------------------
(* Refinement *)

\* The seeded rate is the first on the board.
LEMMA BoardStart == RatesInit => Board!Init
<1> SUFFICES ASSUME RatesInit PROVE Board!Init
  OBVIOUS
<1>1. RatesInv
  BY RatesStart
<1>2. CurrentRate \in RateIds
  BY <1>1, CurrentIsLatest DEF RatesInv, OpenRates, RatesTypeOK
<1>3. QED
  BY <1>2 DEF RatesInit, Board!Init

\* Nothing but the commit of a set changes the rate in force.
LEMMA CurrentStays ==
  ASSUME RatesInv, RatesInv', UNCHANGED <<rates, superseded>>
  PROVE  UNCHANGED <<CurrentRate, superseded>>
<1>1. OpenRates' = OpenRates
  BY DEF OpenRates, RateRows
<1>2. /\ CurrentRate' \in OpenRates'
      /\ \A s \in OpenRates' : rates'[s].from <= rates'[CurrentRate'].from
  <2>1. RatesTypeOK' /\ RowsKnown' /\ Covered'
    BY DEF RatesInv
  <2>2. LatestIsOpen'
    BY <2>1, CurrentIsLatestOpen, PTL
  <2>3. QED
    BY <2>2 DEF LatestIsOpen
<1>3. CurrentRate' = CurrentRate
  BY <1>1, <1>2, CurrentIsUnique DEF RatesInv
<1>4. QED
  BY <1>3

\* A commit puts another rate in force for good, or leaves the one there is.
LEMMA CommitSupersedes ==
  ASSUME RatesInv, RatesInv', NEW a \in Setters, CommitSet(a)
  PROVE  Board!Next \/ UNCHANGED <<CurrentRate, superseded>>
<1>1. /\ CurrentRate' = RateAt(now, rates')
      /\ superseded' = superseded \cup ({CurrentRate} \ {CurrentRate'})
  BY DEF CommitSet, EndSet, CurrentRate
<1>2. CASE CurrentRate' = CurrentRate
  BY <1>1, <1>2
<1>3. CASE CurrentRate' # CurrentRate
  <2>1. superseded' = superseded \cup {CurrentRate}
    BY <1>1, <1>3
  <2>2. /\ CurrentRate' \in OpenRates'
        /\ \A s \in OpenRates' : rates'[s].from <= rates'[CurrentRate'].from
    <3>1. RatesTypeOK' /\ RowsKnown' /\ Covered'
      BY DEF RatesInv
    <3>2. LatestIsOpen'
      BY <3>1, CurrentIsLatestOpen, PTL
    <3>3. QED
      BY <3>2 DEF LatestIsOpen
  <2>3. CurrentRate' \in RateIds
    BY <2>2 DEF RatesInv, RatesTypeOK, OpenRates
  <2>4. CurrentRate' \notin superseded'
    <3> SUFFICES ASSUME CurrentRate' \in superseded' PROVE FALSE
      OBVIOUS
    <3>1. PICK s \in OpenRates' : rates'[CurrentRate'].from < rates'[s].from
      BY <2>2 DEF RatesInv, SupersededBehind
    <3>2. rates'[s].from \in Int /\ rates'[CurrentRate'].from \in Int
      BY <2>2, <3>1 DEF RatesInv, RatesTypeOK, OpenRates
    <3>3. QED
      BY <2>2, <3>1, <3>2
  <2>5. Board!Supersede(CurrentRate')
    BY <1>3, <2>1, <2>4 DEF Board!Supersede
  <2>6. QED
    BY <2>3, <2>5 DEF Board!Next
<1>4. QED
  BY <1>2, <1>3

\* A step replaces the rate in force on the board or leaves the board alone.
LEMMA BoardStep ==
  RatesInv /\ RatesInv' /\ [RatesNext]_pricingVars
    => [Board!Next]_<<CurrentRate, superseded>>
<1> SUFFICES ASSUME RatesInv, RatesInv', [RatesNext]_pricingVars
             PROVE  Board!Next \/ UNCHANGED <<CurrentRate, superseded>>
  OBVIOUS
<1>1. CASE \E a \in Setters : CommitSet(a)
  BY <1>1, CommitSupersedes
<1>2. CASE ~ \E a \in Setters : CommitSet(a)
  <2>1. UNCHANGED <<rates, superseded>>
    BY <1>2 DEF RatesNext, StartSet, FindOpen, CloseOpen, AbortSet,
                StartConversion, StartView, Start, getCurrentRates,
                getActiveRate, RatesTick, pricingVars, rateVars
  <2>2. QED
    BY <2>1, CurrentStays
<1>3. QED
  BY <1>1, <1>2

\* However sets interleave, the rate in force changes as on the board: one that
\* was superseded never comes back.
THEOREM RatesImplementBoard == RatesSpec => ImplementsRateBoard
  BY BoardStart, BoardStep, RatesInvariant, PTL
     DEF RatesSpec, ImplementsRateBoard, Board!Spec

-----------------------------------------------------------------------------
(* Fee schedules *)

\* Rows are numbered in the order of their commits, and one is always open.
SchedulesNumbered ==
  /\ Cardinality(Rows) \in Nat
  /\ Rows = 0 .. Cardinality(Rows) - 1
  /\ OpenRows # {}

\* An application under way has an entered date, and knows rows that are there.
ApplicationsKnown ==
  /\ replaced \subseteq Rows
  /\ \A a \in Admins : /\ stage[a] # "idle" => start[a] \in Starts
                       /\ known[a] \subseteq Rows

\* What a look-up knows to be replaced has been replaced.
LookupsKnown == \A t \in Transfers : known[t] \subseteq replaced

\* As long as no two applications have overlapped, one row is open, no open row
\* has been replaced, and an application under way is alone and closes it.
OneRowOpen ==
  ~ overlapped =>
    /\ \E r \in Rows : /\ OpenRows = {r}
                       /\ \A a \in Applying : active[a] = r
    /\ replaced \cap OpenRows = {}
    /\ \A a, b \in Applying : a = b

FeeInv ==
  /\ FeeTypeOK
  /\ SchedulesNumbered
  /\ ApplicationsKnown
  /\ LookupsKnown
  /\ OneRowOpen

\* The genesis schedule is the open row of the beginning.
LEMMA FeeStart == FeeInit => FeeInv
<1> SUFFICES ASSUME FeeInit PROVE FeeInv
  OBVIOUS
<1> USE FeeSchedulesAssumption
<1>1. /\ Rows = {0} /\ OpenRows = {0}
      /\ schedules \in [{0} -> [effectiveAt : Starts \cup {-1}, open : BOOLEAN]]
      /\ Applying = {}
  BY DEF FeeInit, Rows, OpenRows, Applying
<1>2. FeeTypeOK
  <2>1. schedules \in [Rows -> [effectiveAt : Starts \cup {-1}, open : BOOLEAN]]
    BY <1>1
  <2>2. Rows \subseteq RowIds
    BY <1>1 DEF RowIds
  <2>3. /\ clock \in 0 .. MaxClock
        /\ stage \in [Admins -> {"idle", "closing", "inserting"}]
        /\ start \in [Admins -> Nat]
        /\ active \in [Admins -> RowIds \cup {NoRow}]
    BY DEF FeeInit
  <2>4. /\ lookup \in [Transfers -> {"idle", "asking"}]
        /\ at \in [Transfers -> 0 .. MaxClock]
        /\ found \in [Transfers -> RowIds \cup {NoRow}]
        /\ known \in [Admins \cup Transfers -> SUBSET RowIds]
        /\ replaced \subseteq RowIds
    BY DEF FeeInit
  <2>5. overlapped \in BOOLEAN
    BY DEF FeeInit
  <2>6. QED
    BY <2>1, <2>2, <2>3, <2>4, <2>5 DEF FeeTypeOK
<1>3. SchedulesNumbered
  <2>1. Cardinality({0}) = 1
    BY FS_Singleton
  <2>2. {0} = 0 .. 1 - 1
    OBVIOUS
  <2>3. QED
    BY <1>1, <2>1, <2>2 DEF SchedulesNumbered
<1>4. ApplicationsKnown /\ LookupsKnown /\ OneRowOpen
  BY <1>1 DEF FeeInit, ApplicationsKnown, LookupsKnown, OneRowOpen
<1>5. QED
  BY <1>2, <1>3, <1>4 DEF FeeInv

\* An application that begins finds an open row.
LEMMA BeginApplyStep ==
  ASSUME FeeInv, NEW a \in Admins, NEW s \in Starts, BeginApply(a, s)
  PROVE  FeeInv'
<1> USE FeeSchedulesAssumption DEF FeeInv
<1>1. PICK r \in FirstOf(OpenRows) : Begin(a, s, r)
  BY DEF BeginApply
<1>2. r \in OpenRows /\ r \in Rows
  BY DEF SchedulesNumbered, FirstOf, OpenRows
<1>3. Rows' = Rows /\ OpenRows' = OpenRows
  BY <1>1 DEF Begin, Rows, OpenRows
<1>4. FeeTypeOK'
  BY <1>1, <1>2, <1>3 DEF Begin, FeeTypeOK, lookupVars
<1>5. SchedulesNumbered'
  BY <1>3 DEF SchedulesNumbered
<1>6. /\ \A b \in Admins \ {a} : /\ stage'[b] = stage[b] /\ start'[b] = start[b]
                                 /\ active'[b] = active[b] /\ known'[b] = known[b]
      /\ stage'[a] = "closing" /\ start'[a] = s
      /\ active'[a] = r /\ known'[a] = Rows
      /\ \A t \in Transfers : known'[t] = known[t]
  BY <1>1 DEF Begin, FeeTypeOK
<1>7. ApplicationsKnown' /\ LookupsKnown'
  BY <1>1, <1>3, <1>6 DEF Begin, ApplicationsKnown, LookupsKnown
<1>8. OneRowOpen'
  <2> SUFFICES ASSUME ~ overlapped' PROVE OneRowOpen'
    BY DEF OneRowOpen
  <2>1. ~ overlapped /\ Applying = {}
    BY <1>1 DEF Begin
  <2>2. Applying' = {a}
    BY <1>6, <2>1 DEF Applying
  <2>3. replaced' = replaced
    BY <1>1 DEF Begin
  <2>4. QED
    BY <1>2, <1>3, <1>6, <2>1, <2>2, <2>3 DEF OneRowOpen
<1>9. QED
  BY <1>4, <1>5, <1>7, <1>8

\* An application that updates its row commits nothing.
LEMMA CloseActiveStep ==
  ASSUME FeeInv, NEW a \in Admins, CloseActive(a)
  PROVE  FeeInv'
<1> USE DEF FeeInv
<1>1. Rows' = Rows /\ OpenRows' = OpenRows
  BY DEF CloseActive, Rows, OpenRows
<1>2. FeeTypeOK'
  BY <1>1 DEF CloseActive, FeeTypeOK, lookupVars
<1>3. \A b \in Admins : stage'[b] = "idle" <=> stage[b] = "idle"
  BY DEF CloseActive, FeeTypeOK
<1>4. Applying' = Applying
  BY <1>3 DEF Applying
<1>5. QED
  BY <1>1, <1>2, <1>3, <1>4
     DEF CloseActive, SchedulesNumbered, ApplicationsKnown, LookupsKnown, OneRowOpen

\* The rows after an application: the one it closes is closed, its own is open.
LEMMA AppliedRows ==
  ASSUME FeeInv, NEW a \in Admins, CommitApply(a)
  PROVE  LET new == Cardinality(Rows) IN
         /\ new \in RowIds /\ new \notin Rows
         /\ Rows' = Rows \cup {new}
         /\ schedules' \in [Rows' -> [effectiveAt : Starts \cup {-1}, open : BOOLEAN]]
         /\ OpenRows' = (OpenRows \ {active[a]}) \cup {new}
         /\ Cardinality(Rows') = new + 1
         /\ Rows' = 0 .. new
<1> DEFINE new == Cardinality(Rows)
<1> USE DEF FeeInv
<1>1. /\ new \in Nat /\ new <= MaxApplied /\ Rows = 0 .. new - 1
      /\ schedules' = RowsAfter(a) /\ stage[a] = "inserting"
  BY DEF CommitApply, SchedulesNumbered
<1>2. new \in RowIds /\ new \notin Rows
  BY <1>1, FeeSchedulesAssumption DEF RowIds
<1>3. schedules' = [r \in Rows \cup {new} |->
                      IF r \notin Rows THEN [effectiveAt |-> start[a], open |-> TRUE]
                      ELSE [schedules[r] EXCEPT !.open = @ /\ r # active[a]]]
  BY <1>1 DEF RowsAfter
<1>4. Rows' = Rows \cup {new}
  BY <1>3 DEF Rows
<1>5. start[a] \in Starts
  BY <1>1 DEF ApplicationsKnown
<1>6. \A r \in Rows : schedules[r] \in [effectiveAt : Starts \cup {-1}, open : BOOLEAN]
  BY DEF FeeTypeOK
<1>7. /\ schedules'[new] = [effectiveAt |-> start[a], open |-> TRUE]
      /\ \A r \in Rows :
           schedules'[r] = [schedules[r] EXCEPT !.open = @ /\ r # active[a]]
  BY <1>2, <1>3
<1>8. \A r \in Rows :
        /\ schedules'[r] \in [effectiveAt : Starts \cup {-1}, open : BOOLEAN]
        /\ schedules'[r].open = (schedules[r].open /\ r # active[a])
  BY <1>6, <1>7
<1>9. schedules' \in [Rows' -> [effectiveAt : Starts \cup {-1}, open : BOOLEAN]]
  BY <1>2, <1>3, <1>4, <1>5, <1>7, <1>8
<1>10. OpenRows' = (OpenRows \ {active[a]}) \cup {new}
  BY <1>2, <1>4, <1>7, <1>8 DEF OpenRows
<1>11. Cardinality(Rows') = new + 1 /\ Rows' = 0 .. new
  <2>1. IsFiniteSet(0 .. new - 1)
    BY <1>1, FS_Interval
  <2>2. Cardinality(Rows \cup {new}) = new + 1
    BY <1>1, <1>2, <2>1, FS_AddElement
  <2>3. (0 .. new - 1) \cup {new} = 0 .. new
    BY <1>1
  <2>4. QED
    BY <1>1, <1>4, <2>2, <2>3
<1>12. QED
  BY <1>2, <1>4, <1>9, <1>10, <1>11

\* An application that ends, whether its rows are committed or not, is forgotten.
LEMMA ApplicationEnds ==
  ASSUME FeeInv, NEW a \in Admins, EndApply(a)
  PROVE  /\ \A b \in Admins \ {a} : /\ stage'[b] = stage[b] /\ start'[b] = start[b]
                                    /\ active'[b] = active[b] /\ known'[b] = known[b]
         /\ stage'[a] = "idle" /\ known'[a] = {}
         /\ \A t \in Transfers : known'[t] = known[t]
         /\ Applying' = Applying \ {a}
         /\ stage' \in [Admins -> {"idle", "closing", "inserting"}]
         /\ start' \in [Admins -> Nat]
         /\ active' \in [Admins -> RowIds \cup {NoRow}]
         /\ known' \in [Admins \cup Transfers -> SUBSET RowIds]
<1>1. /\ \A b \in Admins \ {a} : /\ stage'[b] = stage[b] /\ start'[b] = start[b]
                                 /\ active'[b] = active[b] /\ known'[b] = known[b]
      /\ stage'[a] = "idle" /\ known'[a] = {}
      /\ \A t \in Transfers : known'[t] = known[t]
  BY FeeSchedulesAssumption DEF EndApply, FeeInv, FeeTypeOK
<1>2. Applying' = Applying \ {a}
  BY <1>1 DEF Applying
<1>3. QED
  BY <1>1, <1>2 DEF EndApply, FeeInv, FeeTypeOK

\* A commit that no other application has overlapped leaves its row alone open.
LEMMA CommitApplyStep ==
  ASSUME FeeInv, NEW a \in Admins, CommitApply(a)
  PROVE  FeeInv'
<1> DEFINE new == Cardinality(Rows)
<1> USE DEF FeeInv
<1>1. EndApply(a) /\ replaced' = replaced \cup known[a] /\ stage[a] = "inserting"
  BY DEF CommitApply
<1>2. /\ new \in RowIds /\ new \notin Rows
      /\ Rows' = Rows \cup {new}
      /\ schedules' \in [Rows' -> [effectiveAt : Starts \cup {-1}, open : BOOLEAN]]
      /\ OpenRows' = (OpenRows \ {active[a]}) \cup {new}
      /\ Cardinality(Rows') = new + 1
      /\ Rows' = 0 .. new
  BY AppliedRows
<1> HIDE DEF new
<1>3. /\ new \in Nat
      /\ UNCHANGED <<clock, lookupVars, overlapped>>
  BY <1>1, <1>2, FeeSchedulesAssumption DEF EndApply, RowIds
<1>4. known[a] \subseteq Rows
  BY DEF ApplicationsKnown
<1>5. FeeTypeOK'
  BY <1>1, <1>2, <1>3, <1>4, ApplicationEnds DEF FeeTypeOK, lookupVars
<1>6. SchedulesNumbered'
  <2>1. new + 1 \in Nat /\ 0 .. new = 0 .. (new + 1) - 1
    BY <1>3
  <2>2. QED
    BY <1>2, <2>1 DEF SchedulesNumbered
<1>7. ApplicationsKnown' /\ LookupsKnown'
  BY <1>1, <1>2, <1>4, ApplicationEnds DEF ApplicationsKnown, LookupsKnown
<1>8. OneRowOpen'
  <2> SUFFICES ASSUME ~ overlapped' PROVE OneRowOpen'
    BY DEF OneRowOpen
  <2>1. a \in Applying /\ ~ overlapped
    BY <1>1, <1>3 DEF Applying
  <2>2. OpenRows = {active[a]} /\ \A b \in Applying : b = a
    BY <2>1 DEF OneRowOpen
  <2>3. OpenRows' = {new} /\ Applying' = {}
    BY <1>1, <1>2, <2>2, ApplicationEnds
  <2>4. replaced' \subseteq Rows
    BY <1>1, <1>4 DEF ApplicationsKnown
  <2>5. QED
    BY <1>2, <2>3, <2>4 DEF OneRowOpen
<1>9. QED
  BY <1>5, <1>6, <1>7, <1>8

\* An application that is rolled back leaves the rows as they were.
LEMMA AbortApplyStep ==
  ASSUME FeeInv, NEW a \in Admins, AbortApply(a)
  PROVE  FeeInv'
<1> USE DEF FeeInv
<1>1. EndApply(a) /\ UNCHANGED <<schedules, replaced>>
  BY DEF AbortApply
<1>2. UNCHANGED <<clock, lookupVars, overlapped>>
  BY <1>1 DEF EndApply
<1>3. Rows' = Rows /\ OpenRows' = OpenRows
  BY <1>1 DEF Rows, OpenRows
<1>4. FeeTypeOK'
  BY <1>1, <1>2, <1>3, ApplicationEnds DEF FeeTypeOK, lookupVars
<1>5. SchedulesNumbered' /\ ApplicationsKnown' /\ LookupsKnown'
  BY <1>1, <1>3, ApplicationEnds
     DEF SchedulesNumbered, ApplicationsKnown, LookupsKnown
<1>6. OneRowOpen'
  <2>1. \A b \in Applying' : b \in Applying /\ active'[b] = active[b]
    BY <1>1, ApplicationEnds DEF Applying
  <2>2. QED
    BY <1>1, <1>2, <1>3, <2>1 DEF OneRowOpen
<1>7. QED
  BY <1>4, <1>5, <1>6

\* A look-up changes nothing but what is known of it.
LEMMA LookupStep ==
  ASSUME FeeInv, NEW t \in Transfers, BeginLookup(t) \/ getActiveFeeSchedule(t)
  PROVE  FeeInv'
<1> USE DEF FeeInv
<1>1. UNCHANGED <<clock, schedules, applyVars, replaced, overlapped>>
  BY DEF BeginLookup, getActiveFeeSchedule
<1>2. Rows' = Rows /\ OpenRows' = OpenRows /\ Applying' = Applying
  BY <1>1 DEF Rows, OpenRows, Applying, applyVars
<1>3. /\ \A a \in Admins : known'[a] = known[a]
      /\ \A u \in Transfers \ {t} : known'[u] = known[u]
      /\ known'[t] \in {replaced, {}}
      /\ known' \in [Admins \cup Transfers -> SUBSET RowIds]
  BY FeeSchedulesAssumption DEF BeginLookup, getActiveFeeSchedule, FeeTypeOK
<1>4. /\ lookup' \in [Transfers -> {"idle", "asking"}]
      /\ at' \in [Transfers -> 0 .. MaxClock]
      /\ found' \in [Transfers -> RowIds \cup {NoRow}]
  <2>1. CASE BeginLookup(t)
    BY <2>1 DEF BeginLookup, FeeTypeOK
  <2>2. CASE getActiveFeeSchedule(t)
    <3>1. PICK r \in InForce(at[t]) : found' = [found EXCEPT ![t] = r]
      BY <2>2 DEF getActiveFeeSchedule
    <3>2. r \in RowIds \cup {NoRow}
      BY <3>1 DEF InForce, FirstOf, OpenRows, FeeTypeOK
    <3>3. QED
      BY <2>2, <3>1, <3>2, FeeSchedulesAssumption DEF getActiveFeeSchedule, FeeTypeOK
  <2>3. QED
    BY <2>1, <2>2
<1>5. FeeTypeOK'
  BY <1>1, <1>2, <1>3, <1>4 DEF FeeTypeOK, applyVars
<1>6. SchedulesNumbered' /\ ApplicationsKnown' /\ LookupsKnown' /\ OneRowOpen'
  BY <1>1, <1>2, <1>3
     DEF SchedulesNumbered, ApplicationsKnown, LookupsKnown, OneRowOpen, applyVars
<1>7. QED
  BY <1>5, <1>6

\* Every step keeps the invariant.
LEMMA FeeStep == FeeInv /\ [FeeNext]_feeVars => FeeInv'
<1> SUFFICES ASSUME FeeInv, [FeeNext]_feeVars PROVE FeeInv'
  OBVIOUS
<1>1. CASE FeeTick \/ UNCHANGED feeVars
  <2>1. UNCHANGED <<schedules, applyVars, lookupVars, known, replaced, overlapped>>
    BY <1>1 DEF FeeTick, feeVars, applyVars, lookupVars
  <2>2. Rows' = Rows /\ OpenRows' = OpenRows /\ Applying' = Applying
    BY <2>1 DEF Rows, OpenRows, Applying, applyVars
  <2>3. clock' \in 0 .. MaxClock
    BY <1>1, FeeSchedulesAssumption DEF FeeTick, feeVars, FeeInv, FeeTypeOK
  <2>4. FeeTypeOK'
    BY <2>1, <2>2, <2>3 DEF FeeInv, FeeTypeOK, applyVars, lookupVars
  <2>5. QED
    BY <2>1, <2>2, <2>4
       DEF FeeInv, SchedulesNumbered, ApplicationsKnown, LookupsKnown, OneRowOpen,
           applyVars
<1>2. CASE FeeNext
  BY <1>1, <1>2, BeginApplyStep, CloseActiveStep, CommitApplyStep, AbortApplyStep,
     LookupStep DEF FeeNext
<1>3. QED
  BY <1>1, <1>2

\* The invariant holds in every reachable state of the schedules.
THEOREM FeeInvariant == FeeSpec => []FeeInv
  BY FeeStart, FeeStep, PTL DEF FeeSpec

\* A look-up that ends is the query of getActiveFeeSchedule.
LEMMA LookupEnds ==
  ASSUME FeeInv, FeeNext, NEW t \in Transfers,
         lookup[t] = "asking", lookup'[t] = "idle"
  PROVE  found'[t] \in InForce(at[t])
<1>1. getActiveFeeSchedule(t)
  BY DEF FeeNext, BeginApply, Begin, CloseActive, CommitApply, AbortApply, EndApply,
         BeginLookup, getActiveFeeSchedule, FeeTick, lookupVars, FeeInv, FeeTypeOK
<1>2. QED
  BY <1>1 DEF getActiveFeeSchedule, FeeInv, FeeTypeOK

\* A transfer charges no fee only before the start of a schedule: some row is
\* open whenever a transfer asks (settings.ts closes and inserts in one
\* transaction).
THEOREM FeesFreeOnlyBeforeStart == FeeSpec => FreeOnlyBeforeStart
<1>1. FeeInv /\ [FeeNext]_feeVars =>
        [\A t \in Transfers :
           lookup[t] = "asking" /\ lookup'[t] = "idle" /\ found'[t] = NoRow =>
             \E r \in OpenRows : schedules[r].effectiveAt > at[t]]_feeVars
  <2> SUFFICES ASSUME FeeInv, FeeNext, NEW t \in Transfers,
                      lookup[t] = "asking", lookup'[t] = "idle", found'[t] = NoRow
               PROVE  \E r \in OpenRows : schedules[r].effectiveAt > at[t]
    OBVIOUS
  <2> DEFINE open == {r \in OpenRows : schedules[r].effectiveAt <= at[t]}
  <2>1. found'[t] \in FirstOf(open)
    BY LookupEnds DEF InForce
  <2>2. NoRow \notin OpenRows
    BY FeeSchedulesAssumption DEF FeeInv, FeeTypeOK, OpenRows, RowIds, NoRow
  <2>3. open = {}
    BY <2>1, <2>2 DEF FirstOf
  <2>4. PICK r \in OpenRows : TRUE
    BY DEF FeeInv, SchedulesNumbered
  <2>5. ~ (schedules[r].effectiveAt <= at[t])
    BY <2>3
  <2>6. schedules[r].effectiveAt \in Int /\ at[t] \in Int
    <3>1. schedules[r].effectiveAt \in Starts \cup {-1} /\ at[t] \in 0 .. MaxClock
      BY DEF FeeInv, FeeTypeOK, OpenRows
    <3>2. Starts \cup {-1} \subseteq Int /\ 0 .. MaxClock \subseteq Int
      BY FeeSchedulesAssumption
    <3>3. QED
      BY <3>1, <3>2
  <2>7. QED
    BY <2>5, <2>6
<1>2. QED
  BY <1>1, FeeInvariant, PTL DEF FeeSpec, FreeOnlyBeforeStart

\* While administrators have applied their schedules one after the other, no
\* transfer charges by a schedule that was replaced before it began.
THEOREM FeesReplacedStaysReplaced == FeeSpec => ReplacedStaysReplaced
<1>1. FeeInv /\ [FeeNext]_feeVars =>
        [\A t \in Transfers :
           lookup[t] = "asking" /\ lookup'[t] = "idle" /\ ~ overlapped =>
             found'[t] \notin known[t]]_feeVars
  <2> SUFFICES ASSUME FeeInv, FeeNext, NEW t \in Transfers,
                      lookup[t] = "asking", lookup'[t] = "idle", ~ overlapped
               PROVE  found'[t] \notin known[t]
    OBVIOUS
  <2>1. found'[t] \in OpenRows \cup {NoRow}
    BY LookupEnds DEF InForce, FirstOf
  <2>2. known[t] \subseteq replaced /\ replaced \cap OpenRows = {}
    BY DEF FeeInv, LookupsKnown, OneRowOpen
  <2>3. NoRow \notin replaced
    BY FeeSchedulesAssumption DEF FeeInv, FeeTypeOK, RowIds, NoRow
  <2>4. QED
    BY <2>1, <2>2, <2>3
<1>2. QED
  BY <1>1, FeeInvariant, PTL DEF FeeSpec, ReplacedStaysReplaced

-----------------------------------------------------------------------------
(* Promotions *)

\* What is known of a conversion at each stage, from what has been since it began.
KnownOf(u) ==
  /\ \A p \in steady[u] :
       p \in Active /\ RunsAt(p, askedAt[u]) /\ isEligible(p, u, memberRole[u])
  /\ converting[u] # "idle" => Active \subseteq wasActive[u] /\ memberRole[u] \in hadRoles[u]
  /\ converting[u] = "promotions" =>
       /\ roleRead[u] \in hadRoles[u]
       /\ \A p \in steady[u] : isEligible(p, u, roleRead[u])

\* BonusIsDue of one conversion.
DueOf(u) ==
  converting[u] = "posting" =>
    /\ \A p \in steady[u] :
         promotion[u] # NoPromotion /\ Bonus[p] <= Bonus[promotion[u]]
    /\ promotion[u] # NoPromotion => CouldApply(promotion[u], u)

PromotionsInv ==
  PromotionsTypeOK /\ \A u \in Members : KnownOf(u) /\ DueOf(u)

\* Among some places of a list there is a first.
LEMMA FirstPlace ==
  ASSUME NEW places \in SUBSET Nat, places # {}
  PROVE  \E i \in places : \A j \in places : i <= j
<1>1. PICK i \in places : \A j \in places : ~ (<<j, i>> \in OpToRel(<, Nat))
  BY NatLessThanWellFounded, WFMin
<1>2. \A j \in places : ~ (j < i)
  BY <1>1 DEF OpToRel
<1>3. QED
  BY <1>2

\* The loop returns an active promotion that runs at the time and that the user is
\* eligible for, with no smaller bonus than any other such; none if there is none.
LEMMA LoopFindsBest ==
  ASSUME PromotionsTypeOK, NEW u \in Members, NEW role \in MemberRoles,
         NEW time \in 0 .. LastInstant, NEW list \in Candidates(time)
  PROVE  LET p == FirstEligible(list, u, role) IN
         /\ \A q \in Active : RunsAt(q, time) /\ isEligible(q, u, role) =>
              p # NoPromotion /\ Bonus[q] <= Bonus[p]
         /\ p # NoPromotion =>
              p \in Active /\ RunsAt(p, time) /\ isEligible(p, u, role)
<1> DEFINE rows == {p \in Active : RunsAt(p, time)}
<1> DEFINE eligible == {i \in DOMAIN list : isEligible(list[i], u, role)}
<1> DEFINE p == FirstEligible(list, u, role)
<1>1. /\ list \in [1 .. Cardinality(rows) -> rows]
      /\ \A q \in rows : \E i \in DOMAIN list : list[i] = q
      /\ \A i, j \in DOMAIN list : i < j => Bonus[list[j]] <= Bonus[list[i]]
  BY DEF Candidates
<1>2. /\ DOMAIN list \subseteq Nat /\ eligible \in SUBSET Nat
      /\ \A i \in DOMAIN list : list[i] \in rows
  BY <1>1
<1>3. \A q \in rows : q \in Promotions /\ q # NoPromotion /\ Bonus[q] \in Int
  BY PromotionsAssumption DEF Active
<1>4. CASE eligible = {}
  <2>1. p = NoPromotion
    BY <1>4 DEF FirstEligible
  <2>2. \A q \in rows : ~ isEligible(q, u, role)
    BY <1>1, <1>4
  <2>3. QED
    BY <2>1, <2>2
<1>5. CASE eligible # {}
  <2>1. PICK i \in eligible : p = list[i] /\ \A j \in eligible : i <= j
    <3>1. \E i \in eligible : \A j \in eligible : i <= j
      BY <1>2, <1>5, FirstPlace
    <3>2. p = list[CHOOSE i \in eligible : \A j \in eligible : i <= j]
      BY <1>5 DEF FirstEligible
    <3>3. QED
      BY <3>1, <3>2
  <2>2. p \in rows /\ isEligible(p, u, role)
    BY <1>2, <2>1
  <2>3. ASSUME NEW q \in rows, isEligible(q, u, role)
        PROVE  Bonus[q] <= Bonus[p]
    <3>1. PICK j \in DOMAIN list : list[j] = q
      BY <1>1
    <3>2. j \in eligible /\ i <= j /\ i \in DOMAIN list
      BY <2>1, <2>3, <3>1
    <3>3. CASE i = j
      BY <1>3, <2>1, <3>1, <3>3
    <3>4. CASE i < j
      BY <1>1, <2>1, <3>1, <3>2, <3>4
    <3>5. QED
      BY <1>2, <3>2, <3>3, <3>4
  <2>4. QED
    BY <1>3, <2>2, <2>3
<1>6. QED
  BY <1>4, <1>5

\* No conversion, no promotion.
LEMMA PromotionsStart == PromotionsInit => PromotionsInv
<1> SUFFICES ASSUME PromotionsInit PROVE PromotionsInv
  OBVIOUS
<1>1. PromotionsTypeOK
  BY PromotionsAssumption DEF PromotionsInit, PromotionsTypeOK
<1>2. \A u \in Members : KnownOf(u) /\ DueOf(u)
  BY DEF PromotionsInit, KnownOf, DueOf
<1>3. QED
  BY <1>1, <1>2 DEF PromotionsInv

\* A step of a user's conversion leaves those of others alone.
LEMMA OneMember ==
  ASSUME PromotionsInv, PromotionsTypeOK', NEW u \in Members,
         UNCHANGED promotions,
         \A v \in Members \ {u} :
           /\ memberRole'[v] = memberRole[v] /\ converting'[v] = converting[v]
           /\ askedAt'[v] = askedAt[v] /\ roleRead'[v] = roleRead[v]
           /\ promotion'[v] = promotion[v] /\ steady'[v] = steady[v]
           /\ wasActive'[v] = wasActive[v] /\ hadRoles'[v] = hadRoles[v],
         KnownOf(u)', DueOf(u)'
  PROVE  PromotionsInv'
<1>1. ASSUME NEW v \in Members \ {u} PROVE KnownOf(v)' /\ DueOf(v)'
  <2>1. KnownOf(v) /\ DueOf(v)
    BY DEF PromotionsInv
  <2>2. Active' = Active
    BY DEF Active
  <2>3. KnownOf(v)'
    BY <2>1, <2>2 DEF KnownOf
  <2>4. DueOf(v)'
    BY <2>1 DEF DueOf, CouldApply
  <2>5. QED
    BY <2>3, <2>4
<1>2. QED
  BY <1>1 DEF PromotionsInv

\* A conversion begins, or ends.
LEMMA BeginOrEndStep ==
  ASSUME PromotionsInv, NEW u \in Members, BeginConversion(u) \/ EndConversion(u)
  PROVE  PromotionsInv'
<1> USE DEF PromotionsInv
<1>1. CASE BeginConversion(u)
  <2>1. PromotionsTypeOK'
    BY <1>1 DEF BeginConversion, PromotionsTypeOK, Active
  <2>2. /\ converting'[u] = "user" /\ askedAt'[u] = instant
        /\ steady'[u] = {p \in Active : RunsAt(p, instant)
                                        /\ isEligible(p, u, memberRole[u])}
        /\ wasActive'[u] = Active /\ hadRoles'[u] = {memberRole[u]}
        /\ UNCHANGED <<promotions, memberRole>>
    BY <1>1 DEF BeginConversion, PromotionsTypeOK
  <2>3. Active' = Active
    BY <2>2 DEF Active
  <2>4. KnownOf(u)' /\ DueOf(u)'
    BY <2>2, <2>3 DEF KnownOf, DueOf
  <2>5. QED
    BY <1>1, <2>1, <2>4, OneMember DEF BeginConversion, PromotionsTypeOK
<1>2. CASE EndConversion(u)
  <2>1. PromotionsTypeOK'
    BY <1>2, PromotionsAssumption DEF EndConversion, PromotionsTypeOK
  <2>2. converting'[u] = "idle" /\ steady'[u] = {}
    BY <1>2 DEF EndConversion, PromotionsTypeOK
  <2>3. KnownOf(u)' /\ DueOf(u)'
    BY <2>2 DEF KnownOf, DueOf
  <2>4. QED
    BY <1>2, <2>1, <2>3, OneMember DEF EndConversion, PromotionsTypeOK
<1>3. QED
  BY <1>1, <1>2

\* What applied all the time applies for the role that is read.
LEMMA ReadUserStep ==
  ASSUME PromotionsInv, NEW u \in Members, readUser(u)
  PROVE  PromotionsInv'
<1>1. PromotionsTypeOK'
  BY DEF PromotionsInv, readUser, PromotionsTypeOK, historyVars
<1>2. /\ converting[u] = "user" /\ converting'[u] = "promotions"
      /\ roleRead'[u] = memberRole[u]
      /\ UNCHANGED <<promotions, memberRole, askedAt, steady, wasActive, hadRoles>>
  BY DEF readUser, historyVars, PromotionsInv, PromotionsTypeOK
<1>3. Active' = Active
  BY <1>2 DEF Active
<1>4. KnownOf(u)' /\ DueOf(u)'
  <2>1. KnownOf(u)
    BY DEF PromotionsInv
  <2>2. QED
    BY <1>2, <1>3, <2>1 DEF KnownOf, DueOf
<1>5. QED
  BY <1>1, <1>4, OneMember DEF readUser, historyVars, PromotionsInv, PromotionsTypeOK

\* What the loop returns is due.
LEMMA GetPromotionStep ==
  ASSUME PromotionsInv, NEW u \in Members, getApplicablePromotion(u)
  PROVE  PromotionsInv'
<1>1. PICK list \in Candidates(askedAt[u]) :
        promotion' = [promotion EXCEPT ![u] = FirstEligible(list, u, roleRead[u])]
  BY DEF getApplicablePromotion
<1>2. PICK p : p = FirstEligible(list, u, roleRead[u])
  OBVIOUS
<1>3. /\ converting[u] = "promotions" /\ converting'[u] = "posting"
      /\ promotion'[u] = p
      /\ UNCHANGED <<promotions, memberRole, askedAt, roleRead, steady, wasActive,
                     hadRoles>>
  BY <1>1, <1>2
     DEF getApplicablePromotion, historyVars, PromotionsInv, PromotionsTypeOK
<1>4. askedAt[u] \in 0 .. LastInstant /\ roleRead[u] \in MemberRoles
  BY DEF PromotionsInv, PromotionsTypeOK
<1>5. /\ \A q \in Active : RunsAt(q, askedAt[u]) /\ isEligible(q, u, roleRead[u]) =>
           p # NoPromotion /\ Bonus[q] <= Bonus[p]
      /\ p # NoPromotion =>
           p \in Active /\ RunsAt(p, askedAt[u]) /\ isEligible(p, u, roleRead[u])
  BY <1>2, <1>4, LoopFindsBest DEF PromotionsInv
<1>6. KnownOf(u)
  BY DEF PromotionsInv
<1>7. PromotionsTypeOK'
  <2>1. p \in Promotions \cup {NoPromotion}
    BY <1>5 DEF Active
  <2>2. QED
    BY <1>1, <1>2, <2>1
       DEF PromotionsInv, getApplicablePromotion, PromotionsTypeOK, historyVars
<1>8. Active' = Active
  BY <1>3 DEF Active
<1>9. KnownOf(u)'
  BY <1>3, <1>6, <1>8 DEF KnownOf
<1>10. DueOf(u)'
  <2>1. \A q \in steady[u] : p # NoPromotion /\ Bonus[q] <= Bonus[p]
    BY <1>3, <1>5, <1>6 DEF KnownOf
  <2>2. p # NoPromotion => CouldApply(p, u)
    BY <1>3, <1>5, <1>6 DEF KnownOf, CouldApply
  <2>3. p # NoPromotion => CouldApply(promotion[u], u)'
    BY <1>3, <2>2 DEF CouldApply
  <2>4. QED
    BY <1>3, <2>1, <2>3 DEF DueOf
<1>11. QED
  BY <1>1, <1>7, <1>9, <1>10, OneMember
     DEF getApplicablePromotion, historyVars, PromotionsInv, PromotionsTypeOK

\* A role that is changed leaves steady what it applies for.
LEMMA ChangeRoleStep ==
  ASSUME PromotionsInv, NEW u \in Members, NEW role \in MemberRoles,
         changeMemberRole(u, role)
  PROVE  PromotionsInv'
<1>1. PromotionsTypeOK'
  BY DEF PromotionsInv, changeMemberRole, PromotionsTypeOK, convertingVars
<1>2. /\ memberRole'[u] = role
      /\ steady'[u] = {p \in steady[u] : isEligible(p, u, role)}
      /\ hadRoles'[u] = IF converting[u] = "idle" THEN {} ELSE hadRoles[u] \cup {role}
      /\ UNCHANGED <<promotions, converting, askedAt, roleRead, promotion, wasActive>>
  BY DEF changeMemberRole, convertingVars, PromotionsInv, PromotionsTypeOK
<1>3. Active' = Active
  BY <1>2 DEF Active
<1>4. KnownOf(u) /\ DueOf(u)
  BY DEF PromotionsInv
<1>5. KnownOf(u)'
  BY <1>2, <1>3, <1>4 DEF KnownOf
<1>6. DueOf(u)'
  <2>1. converting[u] # "idle" => \A p : CouldApply(p, u) => CouldApply(p, u)'
    BY <1>2 DEF CouldApply
  <2>2. QED
    BY <1>2, <1>4, <2>1 DEF DueOf
<1>7. QED
  BY <1>1, <1>5, <1>6, OneMember
     DEF changeMemberRole, convertingVars, PromotionsInv, PromotionsTypeOK

\* A promotion that is created becomes active, and one that is archived is no
\* longer steady; neither changes a conversion.
LEMMA PromotionStep ==
  ASSUME PromotionsInv, NEW p \in Promotions, createPromotion(p) \/ archivePromotion(p)
  PROVE  PromotionsInv'
<1>1. UNCHANGED <<instant, memberRole, converting, askedAt, roleRead, promotion, hadRoles>>
  BY DEF createPromotion, archivePromotion, convertingVars
<1>2. PromotionsTypeOK'
  BY DEF PromotionsInv, createPromotion, archivePromotion, PromotionsTypeOK,
         convertingVars
<1>3. ASSUME NEW u \in Members PROVE KnownOf(u)' /\ DueOf(u)'
  <2>1. /\ Active' \subseteq Active \cup {p}
        /\ steady'[u] \subseteq steady[u]
        /\ \A q \in steady'[u] : q \in Active => q \in Active'
        /\ converting[u] # "idle" => /\ wasActive[u] \subseteq wasActive'[u]
                                     /\ Active' \subseteq Active \cup wasActive'[u]
    <3>1. CASE createPromotion(p)
      BY <3>1 DEF createPromotion, Active, PromotionsInv, PromotionsTypeOK
    <3>2. CASE archivePromotion(p)
      BY <3>2 DEF archivePromotion, Active, PromotionsInv, PromotionsTypeOK
    <3>3. QED
      BY <3>1, <3>2
  <2>2. KnownOf(u) /\ DueOf(u)
    BY DEF PromotionsInv
  <2>3. KnownOf(u)'
    BY <1>1, <2>1, <2>2 DEF KnownOf
  <2>4. DueOf(u)'
    <3>1. converting[u] # "idle" => \A q : CouldApply(q, u) => CouldApply(q, u)'
      BY <1>1, <2>1 DEF CouldApply
    <3>2. QED
      BY <1>1, <2>1, <2>2, <3>1 DEF DueOf
  <2>5. QED
    BY <2>3, <2>4
<1>4. QED
  BY <1>2, <1>3 DEF PromotionsInv

\* Every step keeps what is known.
LEMMA PromotionsStep == PromotionsInv /\ [PromotionsNext]_promotionVars => PromotionsInv'
<1> SUFFICES ASSUME PromotionsInv, [PromotionsNext]_promotionVars PROVE PromotionsInv'
  OBVIOUS
<1>1. CASE UNCHANGED <<promotions, memberRole, convertingVars, historyVars>>
           /\ instant' \in 0 .. LastInstant
  <2>1. PromotionsTypeOK'
    BY <1>1 DEF PromotionsInv, PromotionsTypeOK, convertingVars, historyVars
  <2>2. Active' = Active
    BY <1>1 DEF Active
  <2>3. ASSUME NEW u \in Members PROVE KnownOf(u)' /\ DueOf(u)'
    BY <1>1, <2>2 DEF PromotionsInv, KnownOf, DueOf, CouldApply, convertingVars,
                      historyVars
  <2>4. QED
    BY <2>1, <2>3 DEF PromotionsInv
<1>2. CASE UNCHANGED promotionVars
  BY <1>1, <1>2 DEF promotionVars, PromotionsInv, PromotionsTypeOK
<1>3. CASE PromotionsTick
  <2>1. instant' \in 0 .. LastInstant
    BY <1>3, PromotionsAssumption DEF PromotionsTick, PromotionsInv, PromotionsTypeOK
  <2>2. QED
    BY <1>1, <1>3, <2>1 DEF PromotionsTick
<1>4. CASE PromotionsNext /\ ~ PromotionsTick
  BY <1>4, BeginOrEndStep, ReadUserStep, GetPromotionStep, ChangeRoleStep,
     PromotionStep DEF PromotionsNext
<1>5. QED
  BY <1>2, <1>3, <1>4

\* Whatever is created, archived or changed while a conversion looks up its user
\* and its promotion, the bonus that it posts is due, for any promotions and users.
THEOREM PromotionsBonusIsDue == PromotionsSpec => []BonusIsDue
<1>1. PromotionsInv => BonusIsDue
  BY DEF PromotionsInv, DueOf, BonusIsDue
<1>2. QED
  BY <1>1, PromotionsStart, PromotionsStep, PTL DEF PromotionsSpec

-----------------------------------------------------------------------------
(* All that a transfer or a conversion is charged by *)

\* The grid of amounts and rules stays within its bounds.
GridOK == gross \in Nat /\ rule \in FeeRule

\* On every amount and rule the parts are nearest cents, and while they add up
\* to at most half they leave a net.
LEMMA GridSplits == GridOK => PartsAreNearestCents /\ NetNotNegative
<1> SUFFICES ASSUME GridOK PROVE PartsAreNearestCents /\ NetNotNegative
  OBVIOUS
<1>1. /\ rule.community \in Nat /\ rule.operations \in Nat /\ rule.developer \in Nat
      /\ gross \in Nat /\ rule \in FeeRule
  BY FeeUnitsAssumption DEF GridOK, FeeRule, Whole
<1>2. /\ split.community = FeePart(gross, rule.community)
      /\ split.operations = FeePart(gross, rule.operations)
      /\ split.developer = FeePart(gross, rule.developer)
  BY DEF split, calculateFee, Split
<1>3. PartsAreNearestCents
  <2>1. ASSUME NEW pct \in Nat PROVE IsNearestCent(FeePart(gross, pct), pct)
    BY <1>1, FeePartNearest DEF IsNearestCent
  <2>2. QED
    BY <1>1, <1>2, <2>1 DEF PartsAreNearestCents
<1>4. NetNotNegative
  BY <1>1, HalfRuleLeavesNet DEF NetNotNegative, split
<1>5. QED
  BY <1>3, <1>4

PricingPartsInv == GridOK /\ FeeInv /\ RatesInv /\ PromotionsInv

\* All parts begin as they do by themselves.
LEMMA PricingStart == PricingInit => PricingPartsInv
<1> SUFFICES ASSUME PricingInit PROVE PricingPartsInv
  OBVIOUS
<1>1. GridOK
  BY GridAssumption DEF PricingInit, Init, GridOK, FeeRule
<1>2. QED
  BY <1>1, FeeStart, RatesStart, PromotionsStart DEF PricingInit, PricingPartsInv

\* A step moves one part and leaves the others alone.
LEMMA PricingStep == PricingPartsInv /\ [PricingNext]_pricingParts => PricingPartsInv'
<1> SUFFICES ASSUME PricingPartsInv, [PricingNext]_pricingParts
             PROVE  PricingPartsInv'
  OBVIOUS
<1>1. /\ [NextAmount]_vars /\ [FeeNext]_feeVars /\ [RatesNext]_pricingVars
      /\ [PromotionsNext]_promotionVars
  BY DEF PricingNext, pricingParts
<1>2. GridOK'
  BY <1>1, GridAssumption DEF PricingPartsInv, GridOK, NextAmount, vars
<1>3. QED
  BY <1>1, <1>2, FeeStep, RatesStep, PromotionsStep DEF PricingPartsInv

\* In every state the parts of a fee are nearest cents, ties to even, and the
\* tables of schedules and rates are well-formed (fee-engine.ts, schema.prisma).
THEOREM PricingCorrect == PricingSpec => []PricingInv
<1>1. PricingPartsInv => PricingInv
  BY GridSplits DEF PricingPartsInv, PricingInv, FeeInv, RatesInv, PromotionsInv
<1>2. QED
  BY <1>1, PricingStart, PricingStep, PTL DEF PricingSpec
=============================================================================
