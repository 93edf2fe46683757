-------------------------- MODULE RegistersProofs ---------------------------
(***************************************************************************)
(* The registers that administrators and the scheduler keep beside each    *)
(* other: Imports, whose commits run row by row next to other commits and  *)
(* cancellations, and Tenancies, whose maintenance works on what it read   *)
(* days ago.  Theorems for any number of files, handlers, leases and days. *)
(***************************************************************************)
EXTENDS Imports, Tenancies, FiniteSetTheorems, WellFoundedInduction, TLAPS

-----------------------------------------------------------------------------
(* Imports *)

Committing(h) == pc[h] \in {"create", "record"}

Chosen(s) == Valid(s) \cup confirmed[s]

\* A handler works on a session that was uploaded, on rows that were chosen.
HandlersAtWork ==
  \A h \in Handlers :
    /\ pc[h] = "idle" <=> at[h] = NoSession
    /\ pc[h] # "idle" => status[at[h]] # "none"
    /\ Committing(h) => todo[h] \subseteq Chosen(at[h]) /\ commits[at[h]] > 0
    /\ todo[h] # {} => current[h] \in todo[h]
    /\ pc[h] = "record" => /\ todo[h] # {}
                           /\ origin[ThisKey(h)] = <<at[h], current[h]>>

\* What an import created points to one of its rows, which was chosen.
OriginKnown ==
  \A k \in Keys, s \in Sessions, n \in Nat :
    origin[k] = <<s, n>> =>
      /\ n \in RowNumbers(s)
      /\ rows[s][n].key = k
      /\ n \in Chosen(s)
      /\ commits[s] > 0

\* A session that was not uploaded has nothing.
NothingBefore ==
  \A s \in Sessions :
    /\ status[s] = "none" => commits[s] = 0
    /\ commits[s] = 0 => /\ recorded[s] = {} /\ confirmed[s] = {}
                         /\ status[s] # "COMMITTED"

ImportsKnown == TypeOK /\ HandlersAtWork /\ OriginKnown /\ NothingBefore

\* The row at hand is one of those left.
LEMMA CurrentIsLeft ==
  ASSUME ImportsKnown, NEW h \in Handlers, todo[h] # {}
  PROVE  current[h] \in todo[h]
BY DEF ImportsKnown, HandlersAtWork

\* The choice of the next row concerns one handler, and is one of those left.
LEMMA TakeRowEffect ==
  ASSUME current \in [Handlers -> Nat], todo' \in [Handlers -> SUBSET Nat],
         NEW h \in Handlers, TakeRow(h)
  PROVE  /\ current' \in [Handlers -> Nat]
         /\ \A g \in Handlers \ {h} : current'[g] = current[g]
         /\ todo'[h] # {} => current'[h] \in todo'[h]
<1>1. PICK n \in IF todo'[h] = {} THEN {0} ELSE todo'[h] :
             current' = [current EXCEPT ![h] = n]
  BY DEF TakeRow
<1>2. n \in Nat /\ (todo'[h] # {} => n \in todo'[h])
  BY <1>1
<1>3. QED
  BY <1>1, <1>2

\* The origin in a row is not none or elsewhere.
LEMMA OriginDiffers ==
  \A s, n : <<s, n>> # None /\ <<s, n>> # Elsewhere
BY DEF None, Elsewhere

\* Rows are numbered from 1.
LEMMA RowsNumbered ==
  ASSUME TypeOK, NEW s \in Sessions
  PROVE  /\ RowNumbers(s) = 1 .. Len(rows[s])
         /\ RowNumbers(s) \subseteq Nat
         /\ IsFiniteSet(RowNumbers(s))
         /\ \A n \in RowNumbers(s) : rows[s][n] \in Row
<1>1. rows[s] \in Seq(Row)
  BY DEF TypeOK
<1>2. Len(rows[s]) \in Nat /\ RowNumbers(s) = 1 .. Len(rows[s])
  BY <1>1 DEF RowNumbers
<1>3. IsFiniteSet(1 .. Len(rows[s]))
  BY <1>2, FS_Interval
<1>4. QED
  BY <1>1, <1>2, <1>3

\* No session, no handler at work.
LEMMA ImportsStart == Init => ImportsKnown
<1> SUFFICES ASSUME Init PROVE ImportsKnown
  OBVIOUS
<1>1. <<>> \in Seq(Row) /\ DOMAIN <<>> = {}
  OBVIOUS
<1>2. TypeOK
  <2>1. Zero \in [committed : Nat, skipped : Nat]
    BY DEF Zero
  <2>2. failures \in 0 .. MaxFailures /\ crashes \in 0 .. MaxCrashes
    BY ImportsAssumption DEF Init
  <2>3. origin \in [Keys -> {None, Elsewhere} \cup (Sessions \X Nat)]
    BY DEF Init
  <2>4. QED
    BY <1>1, <2>1, <2>2, <2>3 DEF Init, TypeOK, RowNumbers
<1>3. HandlersAtWork /\ NothingBefore
  BY ImportsAssumption DEF Init, HandlersAtWork, NothingBefore, Committing
<1>4. OriginKnown
  BY OriginDiffers DEF Init, OriginKnown
<1>5. QED
  BY <1>2, <1>3, <1>4 DEF ImportsKnown

\* An upload, of rows that nobody had seen.
LEMMA ParseKept ==
  ASSUME ImportsKnown, NEW s \in Sessions, NEW file \in Files, parse(s, file)
  PROVE  ImportsKnown'
<1> DEFINE new == [n \in DOMAIN file |->
                     [file[n] EXCEPT !.verdict = Verdict(file, n)]]
<1>1. /\ status[s] = "none"
      /\ status' = [status EXCEPT ![s] = "UPLOADED"]
      /\ rows' = [rows EXCEPT ![s] = new]
      /\ UNCHANGED <<origin, counts, recorded, pc, at, todo, current, tally,
                     commits, confirmed, failures, crashes>>
  BY DEF parse, locals, history, bounds
<1>2. new \in Seq(Row)
  <2>1. file \in Seq(Row)
    BY ImportsAssumption
  <2>2. \A n \in DOMAIN file :
          /\ file[n] \in Row
          /\ Verdict(file, n) \in {"VALID", "WARNING", "ERROR"}
    <3>1. \A n \in DOMAIN file : file[n] \in Row
      BY <2>1
    <3>2. \A n \in DOMAIN file :
            Verdict(file, n) = "WARNING" \/ Verdict(file, n) = file[n].verdict
      BY DEF Verdict
    <3>3. QED
      BY <3>1, <3>2 DEF Row
  <2>3. \A n \in DOMAIN file : [file[n] EXCEPT !.verdict = Verdict(file, n)] \in Row
    BY <2>2 DEF Row
  <2>4. QED
    BY <2>1, <2>3
<1>3. rows' \in [Sessions -> Seq(Row)] /\ \A t \in Sessions \ {s} : rows'[t] = rows[t]
  BY <1>1, <1>2 DEF ImportsKnown, TypeOK
<1>4. commits[s] = 0 /\ recorded[s] = {} /\ confirmed[s] = {}
  BY <1>1 DEF ImportsKnown, NothingBefore
<1>5. TypeOK'
  <2>1. \A t \in Sessions : recorded'[t] \cup confirmed'[t] \subseteq RowNumbers(t)'
    BY <1>1, <1>3, <1>4 DEF ImportsKnown, TypeOK, RowNumbers
  <2>2. QED
    BY <1>1, <1>3, <2>1 DEF ImportsKnown, TypeOK
<1>6. \A t \in Sessions \ {s} : status'[t] = status[t] /\ Chosen(t)' = Chosen(t)
                                /\ RowNumbers(t)' = RowNumbers(t)
  BY <1>1, <1>3 DEF ImportsKnown, TypeOK, Chosen, Valid, RowNumbers
<1>7. \A h \in Handlers : pc[h] # "idle" => at[h] \in Sessions \ {s}
  BY <1>1 DEF ImportsKnown, TypeOK, HandlersAtWork
<1>8. HandlersAtWork'
  <2>1. \A h \in Handlers : pc[h] # "idle" =>
          /\ status'[at[h]] = status[at[h]] /\ rows'[at[h]] = rows[at[h]]
    BY <1>3, <1>6, <1>7
  <2>2. \A h \in Handlers : pc[h] # "idle" => Chosen(at[h])' = Chosen(at[h])
    BY <1>1, <2>1 DEF Chosen, Valid, RowNumbers
  <2>3. \A h \in Handlers :
          /\ current'[h] = current[h]
          /\ pc[h] # "idle" => ThisKey(h)' = ThisKey(h)
    BY <1>1, <2>1 DEF ThisKey
  <2>4. \A h \in Handlers : Committing(h)' =>
          todo'[h] \subseteq Chosen(at[h])' /\ commits'[at'[h]] > 0
    BY <1>1, <2>2 DEF ImportsKnown, HandlersAtWork, Committing
  <2>5. \A h \in Handlers : pc'[h] = "record" =>
          todo'[h] # {} /\ origin'[ThisKey(h)'] = <<at'[h], current'[h]>>
    BY <1>1, <2>3 DEF ImportsKnown, HandlersAtWork
  <2>6. \A h \in Handlers :
          /\ pc'[h] = "idle" <=> at'[h] = NoSession
          /\ pc'[h] # "idle" => status'[at'[h]] # "none"
          /\ todo'[h] # {} => current'[h] \in todo'[h]
    BY <1>1, <2>1 DEF ImportsKnown, HandlersAtWork
  <2>7. QED
    BY <2>4, <2>5, <2>6 DEF HandlersAtWork
<1>9. OriginKnown'
  <2>1. \A k \in Keys, t \in Sessions, n \in Nat : origin[k] = <<t, n>> => t # s
    BY <1>4 DEF ImportsKnown, OriginKnown
  <2>2. QED
    BY <1>1, <1>3, <1>6, <2>1 DEF ImportsKnown, OriginKnown
<1>10. NothingBefore'
  BY <1>1, <1>4 DEF ImportsKnown, TypeOK, NothingBefore
<1>11. QED
  BY <1>5, <1>8, <1>9, <1>10 DEF ImportsKnown

\* A request begins: a commit, with the rows that it will process, or a
\* cancellation.
LEMMA StartKept ==
  ASSUME ImportsKnown, NEW h \in Handlers, NEW s \in Sessions,
         StartCancel(h, s) \/ \E ids \in SUBSET RowNumbers(s) : StartCommit(h, s, ids)
  PROVE  ImportsKnown'
<1>1. /\ pc[h] = "idle" /\ status[s] = "UPLOADED"
      /\ at' = [at EXCEPT ![h] = s]
      /\ UNCHANGED <<origin, rows, status, counts, recorded, failures, crashes>>
  BY DEF StartCancel, StartCommit, tables, bounds
<1>2. PICK new \in {"create", "cancel"}, ids \in SUBSET RowNumbers(s) :
        /\ pc' = [pc EXCEPT ![h] = new]
        /\ \/ new = "cancel" /\ StartCancel(h, s)
           \/ new = "create" /\ StartCommit(h, s, ids)
  <2>1. CASE StartCancel(h, s)
    <3>1. pc' = [pc EXCEPT ![h] = "cancel"]
      BY <2>1 DEF StartCancel
    <3>2. QED
      BY <2>1, <3>1
  <2>2. CASE \E ids \in SUBSET RowNumbers(s) : StartCommit(h, s, ids)
    BY <2>2 DEF StartCommit
  <2>3. QED
    BY <2>1, <2>2
<1>3. IF new = "cancel" THEN UNCHANGED <<todo, current, tally, commits, confirmed>>
        ELSE /\ todo' = [todo EXCEPT ![h] = Selected(s, ids)]
             /\ TakeRow(h)
             /\ tally' = [tally EXCEPT ![h] = Zero]
             /\ commits' = [commits EXCEPT ![s] = @ + 1]
             /\ confirmed' = [confirmed EXCEPT ![s] =
                  @ \cup {n \in ids : rows[s][n].verdict = "WARNING"}]
  BY <1>2 DEF StartCancel, StartCommit, history
<1>4. /\ RowNumbers(s) \subseteq Nat
      /\ Selected(s, ids) \subseteq Valid(s) \cup {n \in ids : rows[s][n].verdict = "WARNING"}
      /\ Valid(s) \subseteq RowNumbers(s)
  BY RowsNumbered DEF ImportsKnown, Selected, Valid
<1>5. /\ \A t \in Sessions : confirmed[t] \subseteq confirmed'[t] /\ commits[t] <= commits'[t]
      /\ \A t \in Sessions \ {s} : confirmed'[t] = confirmed[t] /\ commits'[t] = commits[t]
      /\ commits \in [Sessions -> Nat] /\ commits' \in [Sessions -> Nat]
      /\ confirmed' \in [Sessions -> SUBSET Nat]
      /\ confirmed'[s] \subseteq RowNumbers(s)
      /\ commits'[s] # 0 \/ UNCHANGED <<commits, confirmed>>
  <2>1. /\ commits \in [Sessions -> Nat]
        /\ confirmed \in [Sessions -> SUBSET Nat]
        /\ confirmed[s] \subseteq RowNumbers(s)
    BY DEF ImportsKnown, TypeOK
  <2>2. CASE new = "cancel"
    BY <1>3, <2>1, <2>2
  <2>3. CASE new # "cancel"
    <3> DEFINE more == {n \in ids : rows[s][n].verdict = "WARNING"}
    <3>1. /\ commits' = [commits EXCEPT ![s] = @ + 1]
          /\ confirmed' = [confirmed EXCEPT ![s] = @ \cup more]
          /\ more \subseteq RowNumbers(s)
      BY <1>3, <2>3
    <3> HIDE DEF more
    <3>2. /\ commits' \in [Sessions -> Nat] /\ commits'[s] = commits[s] + 1
          /\ \A t \in Sessions \ {s} : commits'[t] = commits[t]
      BY <2>1, <3>1
    <3>3. /\ confirmed' \in [Sessions -> SUBSET Nat]
          /\ confirmed'[s] = confirmed[s] \cup more
          /\ \A t \in Sessions \ {s} : confirmed'[t] = confirmed[t]
      BY <1>4, <2>1, <3>1
    <3>4. QED
      BY <2>1, <3>1, <3>2, <3>3
  <2>4. QED
    BY <2>2, <2>3
<1>6. /\ TypeOK'
      /\ \A g \in Handlers \ {h} : current'[g] = current[g]
      /\ \A g \in Handlers : todo'[g] # {} => current'[g] \in todo'[g]
  <2>1. todo' \in [Handlers -> SUBSET Nat]
    BY <1>3, <1>4 DEF ImportsKnown, TypeOK
  <2>2. tally' \in [Handlers -> [committed : Nat, skipped : Nat]]
    <3>1. Zero \in [committed : Nat, skipped : Nat]
      BY DEF Zero
    <3>2. tally' = tally \/ tally' = [tally EXCEPT ![h] = Zero]
      BY <1>3
    <3>3. QED
      BY <3>1, <3>2 DEF ImportsKnown, TypeOK
  <2>3. /\ pc' \in [Handlers -> {"idle", "create", "record", "cancel"}]
        /\ at' \in [Handlers -> Sessions \cup {NoSession}]
    BY <1>1, <1>2 DEF ImportsKnown, TypeOK
  <2>4. \A t \in Sessions : recorded'[t] \cup confirmed'[t] \subseteq RowNumbers(t)'
    BY <1>1, <1>5 DEF ImportsKnown, TypeOK, RowNumbers
  <2>5. current \in [Handlers -> Nat] /\ todo \in [Handlers -> SUBSET Nat]
    BY DEF ImportsKnown, TypeOK
  <2>6. /\ current' \in [Handlers -> Nat]
        /\ \A g \in Handlers \ {h} : current'[g] = current[g]
        /\ \A g \in Handlers : todo'[g] # {} => current'[g] \in todo'[g]
    <3>1. \A g \in Handlers : todo[g] # {} => current[g] \in todo[g]
      BY CurrentIsLeft
    <3>2. CASE new = "cancel"
      BY <1>3, <2>5, <3>1, <3>2
    <3>3. CASE new # "cancel"
      <4>1. TakeRow(h) /\ todo' = [todo EXCEPT ![h] = Selected(s, ids)]
        BY <1>3, <3>3
      <4>2. \A g \in Handlers \ {h} : todo'[g] = todo[g]
        BY <2>5, <4>1
      <4>3. QED
        BY <2>1, <2>5, <3>1, <4>1, <4>2, TakeRowEffect
    <3>4. QED
      BY <3>2, <3>3
  <2>7. TypeOK'
    BY <1>1, <1>5, <2>1, <2>2, <2>3, <2>4, <2>6 DEF ImportsKnown, TypeOK
  <2>8. QED
    BY <2>6, <2>7
<1>7. \A t \in Sessions : Chosen(t) \subseteq Chosen(t)'
  BY <1>1, <1>5 DEF Chosen, Valid, RowNumbers
<1>8. HandlersAtWork'
  <2>1. ASSUME NEW g \in Handlers \ {h}
        PROVE  /\ pc'[g] = pc[g] /\ at'[g] = at[g] /\ todo'[g] = todo[g]
               /\ current'[g] = current[g] /\ ThisKey(g)' = ThisKey(g)
    <3>1. pc'[g] = pc[g] /\ at'[g] = at[g] /\ todo'[g] = todo[g]
      BY <1>1, <1>2, <1>3 DEF ImportsKnown, TypeOK
    <3>2. current'[g] = current[g]
      BY <1>6
    <3>3. ThisKey(g)' = ThisKey(g)
      BY <1>1, <3>1, <3>2 DEF ThisKey
    <3>4. QED
      BY <3>1, <3>2, <3>3
  <2>2. ASSUME NEW g \in Handlers \ {h}, Committing(g)
        PROVE  todo'[g] \subseteq Chosen(at[g])' /\ commits'[at'[g]] > 0
    <3>1. PICK t \in Sessions : t = at[g]
      BY <2>2, ImportsAssumption
         DEF ImportsKnown, TypeOK, HandlersAtWork, Committing
    <3>2. todo[g] \subseteq Chosen(t) /\ commits[t] > 0
      BY <2>2, <3>1 DEF ImportsKnown, HandlersAtWork
    <3>3. todo'[g] \subseteq Chosen(t)' /\ commits'[t] > 0
      BY <1>5, <1>7, <2>1, <3>1, <3>2
    <3>4. Chosen(t)' = Chosen(at[g])'
      BY <2>1, <3>1 DEF Chosen, Valid, RowNumbers
    <3>5. QED
      BY <2>1, <3>1, <3>3, <3>4
  <2>3. /\ pc'[h] = new /\ at'[h] = s
        /\ new = "create" => /\ commits'[s] > 0
                             /\ todo'[h] = Selected(s, ids)
                             /\ Selected(s, ids) \subseteq Chosen(s)'
    <3>1. pc'[h] = new /\ at'[h] = s
      BY <1>1, <1>2 DEF ImportsKnown, TypeOK
    <3>2. ASSUME new = "create"
          PROVE  /\ commits'[s] > 0 /\ todo'[h] = Selected(s, ids)
                 /\ confirmed'[s] = confirmed[s] \cup
                      {n \in ids : rows[s][n].verdict = "WARNING"}
      BY <1>3, <3>2 DEF ImportsKnown, TypeOK
    <3>3. Valid(s)' = Valid(s)
      BY <1>1 DEF Valid, RowNumbers
    <3>4. QED
      BY <1>4, <3>1, <3>2, <3>3 DEF Chosen
  <2>4. Chosen(s)' = Chosen(at[h])'
    BY <2>3 DEF Chosen, Valid, RowNumbers
  <2>5. \A g \in Handlers : Committing(g)' =>
          todo'[g] \subseteq Chosen(at[g])' /\ commits'[at'[g]] > 0
    BY <1>2, <2>1, <2>2, <2>3, <2>4 DEF Committing
  <2>6. \A g \in Handlers : pc'[g] = "record" =>
          todo'[g] # {} /\ origin'[ThisKey(g)'] = <<at'[g], current'[g]>>
    BY <1>1, <1>2, <2>1, <2>3 DEF ImportsKnown, HandlersAtWork
  <2>7. \A g \in Handlers :
          /\ pc'[g] = "idle" <=> at'[g] = NoSession
          /\ pc'[g] # "idle" => status'[at'[g]] # "none"
    BY <1>1, <1>2, <2>1, <2>3, ImportsAssumption DEF ImportsKnown, HandlersAtWork
  <2>8. QED
    BY <1>6, <2>5, <2>6, <2>7 DEF HandlersAtWork
<1>9. OriginKnown'
  BY <1>1, <1>5, <1>7 DEF ImportsKnown, OriginKnown, RowNumbers
<1>10. NothingBefore'
  BY <1>1, <1>5 DEF ImportsKnown, NothingBefore
<1>11. QED
  BY <1>6, <1>8, <1>9, <1>10 DEF ImportsKnown

\* What a handler that processes a row works on.
LEMMA RowAtHand ==
  ASSUME ImportsKnown, NEW h \in Handlers, Committing(h)
  PROVE  /\ at[h] \in Sessions
         /\ todo[h] \subseteq RowNumbers(at[h])
         /\ todo[h] # {} => /\ current[h] \in todo[h]
                            /\ current[h] \in Chosen(at[h])
                            /\ current[h] \in RowNumbers(at[h])
                            /\ current[h] \in Nat
                            /\ ThisKey(h) \in Keys
<1>1. /\ at[h] \in Sessions
      /\ todo[h] \subseteq Chosen(at[h])
  BY DEF ImportsKnown, TypeOK, HandlersAtWork, Committing
<1>2. Chosen(at[h]) \subseteq RowNumbers(at[h])
  BY <1>1 DEF ImportsKnown, TypeOK, Chosen, Valid
<1>3. /\ RowNumbers(at[h]) \subseteq Nat
      /\ \A n \in RowNumbers(at[h]) : rows[at[h]][n] \in Row
  BY <1>1, RowsNumbered DEF ImportsKnown
<1>4. QED
  BY <1>1, <1>2, <1>3, CurrentIsLeft DEF ThisKey, Row

\* Something is created, by a row or elsewhere, under a key that was free.
LEMMA CreateKept ==
  ASSUME ImportsKnown, NEW k \in Keys, origin[k] = None,
         NEW value, origin' = [origin EXCEPT ![k] = value],
         UNCHANGED <<rows, status, counts, recorded, at, todo, current, tally,
                     commits, confirmed, failures, crashes>>,
         \/ value = Elsewhere /\ pc' = pc
         \/ \E h \in Handlers :
              /\ Creating(h) /\ k = ThisKey(h) /\ value = <<at[h], current[h]>>
              /\ pc' = [pc EXCEPT ![h] = "record"]
  PROVE  ImportsKnown'
<1>1. \A h \in Handlers : current'[h] = current[h] /\ ThisKey(h)' = ThisKey(h)
  BY DEF ThisKey
<1>2. \A s \in Sessions : Chosen(s)' = Chosen(s) /\ RowNumbers(s)' = RowNumbers(s)
  BY DEF Chosen, Valid, RowNumbers
<1>3. /\ origin'[k] = value
      /\ \A j \in Keys \ {k} : origin'[j] = origin[j]
      /\ \A j \in Keys : origin[j] # None => origin'[j] = origin[j]
  BY DEF ImportsKnown, TypeOK
<1>4. value = Elsewhere \/ value \in Sessions \X Nat
  BY RowAtHand DEF Creating, Committing
<1>5. TypeOK'
  <2>1. origin' \in [Keys -> {None, Elsewhere} \cup (Sessions \X Nat)]
    BY <1>4 DEF ImportsKnown, TypeOK
  <2>2. pc' \in [Handlers -> {"idle", "create", "record", "cancel"}]
    BY DEF ImportsKnown, TypeOK
  <2>3. QED
    BY <1>2, <2>1, <2>2 DEF ImportsKnown, TypeOK
<1>6. \A h \in Handlers : \/ pc'[h] = pc[h]
                         \/ /\ pc[h] = "create" /\ pc'[h] = "record"
                            /\ todo[h] # {} /\ k = ThisKey(h)
                            /\ value = <<at[h], current[h]>>
  BY DEF Creating, ImportsKnown, TypeOK
<1>7. HandlersAtWork'
  <2>1. \A h \in Handlers : pc'[h] = "record" =>
          todo'[h] # {} /\ origin'[ThisKey(h)'] = <<at'[h], current'[h]>>
    <3> SUFFICES ASSUME NEW h \in Handlers, pc'[h] = "record"
                 PROVE  todo[h] # {} /\ origin'[ThisKey(h)] = <<at[h], current[h]>>
      BY <1>1
    <3>1. CASE pc[h] = "record"
      <4>1. todo[h] # {} /\ origin[ThisKey(h)] = <<at[h], current[h]>>
        BY <3>1 DEF ImportsKnown, HandlersAtWork
      <4>2. ThisKey(h) \in Keys /\ origin[ThisKey(h)] # None
        BY <3>1, <4>1, RowAtHand, OriginDiffers DEF Committing
      <4>3. QED
        BY <1>3, <4>1, <4>2
    <3>2. CASE pc[h] # "record"
      BY <1>3, <1>6, <3>2
    <3>3. QED
      BY <3>1, <3>2
  <2>2. \A h \in Handlers : Chosen(at[h])' = Chosen(at[h])
    BY DEF Chosen, Valid, RowNumbers
  <2>3. \A h \in Handlers :
          /\ pc'[h] = "idle" <=> at'[h] = NoSession
          /\ pc'[h] # "idle" => status'[at'[h]] # "none"
          /\ todo'[h] # {} => current'[h] \in todo'[h]
          /\ Committing(h)' => todo'[h] \subseteq Chosen(at[h])' /\ commits'[at'[h]] > 0
    BY <1>6, <2>2 DEF ImportsKnown, HandlersAtWork, Committing
  <2>4. QED
    BY <2>1, <2>3 DEF HandlersAtWork
<1>8. OriginKnown'
  <2> SUFFICES ASSUME NEW j \in Keys, NEW s \in Sessions, NEW n \in Nat,
                      origin'[j] = <<s, n>>
               PROVE  /\ n \in RowNumbers(s) /\ rows[s][n].key = j
                      /\ n \in Chosen(s) /\ commits[s] > 0
    BY <1>2 DEF OriginKnown
  <2>1. CASE origin[j] = <<s, n>>
    BY <2>1 DEF ImportsKnown, OriginKnown
  <2>2. CASE origin[j] # <<s, n>>
    <3>1. j = k /\ value = <<s, n>>
      BY <1>3, <2>2
    <3>2. PICK h \in Handlers : Creating(h) /\ k = ThisKey(h)
                                /\ value = <<at[h], current[h]>>
      BY <3>1, OriginDiffers
    <3>3. s = at[h] /\ n = current[h]
      BY <3>1, <3>2
    <3>4. Committing(h) /\ todo[h] # {}
      BY <3>2 DEF Creating, Committing
    <3>5. n \in RowNumbers(s) /\ n \in Chosen(s)
      BY <3>3, <3>4, RowAtHand
    <3>6. commits[s] > 0
      BY <3>3, <3>4 DEF ImportsKnown, HandlersAtWork
    <3>7. rows[s][n].key = j
      BY <3>1, <3>2, <3>3 DEF ThisKey
    <3>8. QED
      BY <3>5, <3>6, <3>7
  <2>3. QED
    BY <2>1, <2>2
<1>9. NothingBefore'
  BY DEF ImportsKnown, NothingBefore
<1>10. QED
  BY <1>5, <1>7, <1>8, <1>9 DEF ImportsKnown

\* A row is done with, created or not, and the handler turns to the next one.
RowDone(h) == KeyTaken(h) \/ RecordRow(h) \/ RowFails(h)

\* What all ways to be done with a row have in common.
LEMMA RowDoneEffect ==
  ASSUME ImportsKnown, NEW h \in Handlers, RowDone(h)
  PROVE  /\ Committing(h) /\ todo[h] # {}
         /\ todo' = [todo EXCEPT ![h] = @ \ {current[h]}]
         /\ TakeRow(h)
         /\ pc' = [pc EXCEPT ![h] = "create"]
         /\ UNCHANGED <<origin, rows, status, counts, at, commits, confirmed>>
<1>1. pc[h] = "record" => todo[h] # {}
  BY DEF ImportsKnown, HandlersAtWork
<1>2. QED
  BY <1>1 DEF RowDone, KeyTaken, RecordRow, RowFails, SkipRow, NextRow, Creating,
              Committing, tables, history

\* One row less to do; the record that is set is the row's own.
LEMMA RowDoneKept ==
  ASSUME ImportsKnown, NEW h \in Handlers, RowDone(h)
  PROVE  ImportsKnown'
<1>1. /\ Committing(h) /\ todo[h] # {}
      /\ todo' = [todo EXCEPT ![h] = @ \ {current[h]}]
      /\ TakeRow(h)
      /\ pc' = [pc EXCEPT ![h] = "create"]
      /\ UNCHANGED <<origin, rows, status, counts, at, commits, confirmed>>
  BY RowDoneEffect
<1>2. /\ at[h] \in Sessions /\ current[h] \in RowNumbers(at[h]) /\ current[h] \in Nat
  BY <1>1, RowAtHand
<1>3. \/ UNCHANGED recorded
      \/ recorded' = [recorded EXCEPT ![at[h]] = @ \cup {current[h]}]
  BY DEF RowDone, KeyTaken, RecordRow, RowFails, tables
<1>4. /\ TypeOK'
      /\ \A g \in Handlers \ {h} : current'[g] = current[g]
      /\ todo'[h] # {} => current'[h] \in todo'[h]
  <2>1. tally' \in [Handlers -> [committed : Nat, skipped : Nat]]
    <3>1. \/ tally' = [tally EXCEPT ![h].skipped = @ + 1]
          \/ tally' = [tally EXCEPT ![h].committed = @ + 1]
      BY DEF RowDone, KeyTaken, RecordRow, RowFails, SkipRow
    <3>2. /\ tally[h] \in [committed : Nat, skipped : Nat]
          /\ tally \in [Handlers -> [committed : Nat, skipped : Nat]]
      BY DEF ImportsKnown, TypeOK
    <3>3. /\ [tally[h] EXCEPT !.skipped = @ + 1] \in [committed : Nat, skipped : Nat]
          /\ [tally[h] EXCEPT !.committed = @ + 1] \in [committed : Nat, skipped : Nat]
      BY <3>2
    <3>4. \/ tally' = [tally EXCEPT ![h] = [tally[h] EXCEPT !.skipped = @ + 1]]
          \/ tally' = [tally EXCEPT ![h] = [tally[h] EXCEPT !.committed = @ + 1]]
      BY <3>1
    <3>5. QED
      BY <3>2, <3>3, <3>4
  <2>2. /\ todo' \in [Handlers -> SUBSET Nat]
        /\ pc' \in [Handlers -> {"idle", "create", "record", "cancel"}]
    BY <1>1 DEF ImportsKnown, TypeOK
  <2>3. /\ recorded' \in [Sessions -> SUBSET Nat]
        /\ \A s \in Sessions : recorded'[s] \cup confirmed'[s] \subseteq RowNumbers(s)
    <3>1. /\ recorded \in [Sessions -> SUBSET Nat]
          /\ \A s \in Sessions : recorded[s] \cup confirmed[s] \subseteq RowNumbers(s)
      BY DEF ImportsKnown, TypeOK
    <3>2. CASE UNCHANGED recorded
      BY <1>1, <3>1, <3>2
    <3>3. CASE recorded' = [recorded EXCEPT ![at[h]] = @ \cup {current[h]}]
      <4>1. /\ recorded'[at[h]] = recorded[at[h]] \cup {current[h]}
            /\ \A s \in Sessions \ {at[h]} : recorded'[s] = recorded[s]
            /\ recorded' \in [Sessions -> SUBSET Nat]
        BY <1>2, <3>1, <3>3
      <4>2. QED
        BY <1>1, <1>2, <3>1, <4>1
    <3>4. QED
      BY <1>3, <3>2, <3>3
  <2>4. \A s \in Sessions : RowNumbers(s)' = RowNumbers(s)
    BY <1>1 DEF RowNumbers
  <2>5. failures' \in 0 .. MaxFailures /\ crashes' = crashes
    BY ImportsAssumption
       DEF RowDone, KeyTaken, RecordRow, RowFails, bounds, ImportsKnown, TypeOK
  <2>6. current \in [Handlers -> Nat]
    BY DEF ImportsKnown, TypeOK
  <2>7. /\ current' \in [Handlers -> Nat]
        /\ \A g \in Handlers \ {h} : current'[g] = current[g]
        /\ todo'[h] # {} => current'[h] \in todo'[h]
    BY <1>1, <2>2, <2>6, TakeRowEffect
  <2>8. TypeOK'
    BY <1>1, <2>1, <2>2, <2>3, <2>4, <2>5, <2>7 DEF ImportsKnown, TypeOK
  <2>9. QED
    BY <2>7, <2>8
<1>5. /\ pc'[h] = "create" /\ todo'[h] \subseteq todo[h]
      /\ \A g \in Handlers \ {h} : /\ pc'[g] = pc[g] /\ todo'[g] = todo[g]
                                   /\ current'[g] = current[g]
  BY <1>1, <1>4 DEF ImportsKnown, TypeOK
<1>6. HandlersAtWork'
  <2>1. \A g \in Handlers \ {h} : current'[g] = current[g] /\ ThisKey(g)' = ThisKey(g)
    BY <1>1, <1>5 DEF ThisKey
  <2>2. \A g \in Handlers : Chosen(at[g])' = Chosen(at[g])
    BY <1>1 DEF Chosen, Valid, RowNumbers
  <2>3. \A g \in Handlers : Committing(g)' =>
          todo'[g] \subseteq Chosen(at[g])' /\ commits'[at'[g]] > 0
    BY <1>1, <1>5, <2>2 DEF ImportsKnown, HandlersAtWork, Committing
  <2>4. \A g \in Handlers : pc'[g] = "record" =>
          todo'[g] # {} /\ origin'[ThisKey(g)'] = <<at'[g], current'[g]>>
    BY <1>1, <1>5, <2>1 DEF ImportsKnown, HandlersAtWork
  <2>5. \A g \in Handlers :
          /\ pc'[g] = "idle" <=> at'[g] = NoSession
          /\ pc'[g] # "idle" => status'[at'[g]] # "none"
          /\ todo'[g] # {} => current'[g] \in todo'[g]
    BY <1>1, <1>4, <1>5 DEF ImportsKnown, HandlersAtWork, Committing
  <2>6. QED
    BY <2>3, <2>4, <2>5 DEF HandlersAtWork
<1>7. OriginKnown'
  BY <1>1 DEF ImportsKnown, OriginKnown, RowNumbers, Chosen, Valid
<1>8. NothingBefore'
  <2>1. commits[at[h]] > 0
    BY <1>1 DEF ImportsKnown, HandlersAtWork
  <2>2. \A s \in Sessions : s # at[h] => recorded'[s] = recorded[s]
    BY <1>3 DEF ImportsKnown, TypeOK
  <2>3. QED
    BY <1>1, <2>1, <2>2 DEF ImportsKnown, NothingBefore
<1>9. QED
  BY <1>4, <1>6, <1>7, <1>8 DEF ImportsKnown

\* A request ends: its session is marked, or not.
LEMMA EndOfRequestKept ==
  ASSUME ImportsKnown, NEW h \in Handlers,
         FinishCommit(h) \/ FinishCancel(h) \/ Crash(h)
  PROVE  ImportsKnown'
<1>1. /\ pc[h] # "idle"
      /\ pc' = [pc EXCEPT ![h] = "idle"]
      /\ at' = [at EXCEPT ![h] = NoSession]
      /\ todo' = [todo EXCEPT ![h] = {}]
      /\ current' = [current EXCEPT ![h] = 0]
      /\ tally' = [tally EXCEPT ![h] = Zero]
      /\ UNCHANGED <<origin, rows, recorded, commits, confirmed, failures>>
  BY DEF FinishCommit, FinishCancel, Crash, Return, tables, history, bounds
<1>2. /\ \/ UNCHANGED counts
         \/ counts' = [counts EXCEPT ![at[h]] = tally[h]]
      /\ \/ UNCHANGED status
         \/ status' = [status EXCEPT ![at[h]] = "CANCELLED"]
         \/ status' = [status EXCEPT ![at[h]] = "COMMITTED"] /\ Committing(h)
  BY DEF FinishCommit, FinishCancel, Crash, tables, Committing
<1>3. at[h] \in Sessions
  BY <1>1 DEF ImportsKnown, TypeOK, HandlersAtWork
<1>4. TypeOK'
  <2>1. /\ counts' \in [Sessions -> [committed : Nat, skipped : Nat]]
        /\ status' \in [Sessions -> {"none", "UPLOADED", "COMMITTED", "CANCELLED"}]
    <3>1. tally[h] \in [committed : Nat, skipped : Nat]
      BY DEF ImportsKnown, TypeOK
    <3>2. counts' \in [Sessions -> [committed : Nat, skipped : Nat]]
      BY <1>2, <3>1 DEF ImportsKnown, TypeOK
    <3>3. status' \in [Sessions -> {"none", "UPLOADED", "COMMITTED", "CANCELLED"}]
      BY <1>2 DEF ImportsKnown, TypeOK
    <3>4. QED
      BY <3>2, <3>3
  <2>2. /\ pc' \in [Handlers -> {"idle", "create", "record", "cancel"}]
        /\ at' \in [Handlers -> Sessions \cup {NoSession}]
        /\ todo' \in [Handlers -> SUBSET Nat] /\ current' \in [Handlers -> Nat]
        /\ tally' \in [Handlers -> [committed : Nat, skipped : Nat]]
    BY <1>1 DEF ImportsKnown, TypeOK, Zero
  <2>3. crashes' \in 0 .. MaxCrashes
    BY ImportsAssumption
       DEF FinishCommit, FinishCancel, Crash, bounds, ImportsKnown, TypeOK
  <2>4. \A s \in Sessions : RowNumbers(s)' = RowNumbers(s)
    BY <1>1 DEF RowNumbers
  <2>5. /\ origin' \in [Keys -> {None, Elsewhere} \cup (Sessions \X Nat)]
        /\ rows' \in [Sessions -> Seq(Row)]
        /\ recorded' \in [Sessions -> SUBSET Nat]
        /\ confirmed' \in [Sessions -> SUBSET Nat]
        /\ \A s \in Sessions : recorded'[s] \cup confirmed'[s] \subseteq RowNumbers(s)'
        /\ commits' \in [Sessions -> Nat]
        /\ failures' \in 0 .. MaxFailures
    BY <1>1, <2>4 DEF ImportsKnown, TypeOK
  <2>6. QED
    BY <2>1, <2>2, <2>3, <2>5 DEF TypeOK
<1>5. /\ pc'[h] = "idle" /\ at'[h] = NoSession
      /\ \A g \in Handlers \ {h} : /\ pc'[g] = pc[g] /\ at'[g] = at[g]
                                   /\ todo'[g] = todo[g] /\ current'[g] = current[g]
      /\ todo'[h] = {}
      /\ \A s \in Sessions : status[s] # "none" => status'[s] # "none"
  BY <1>1, <1>2, <1>3 DEF ImportsKnown, TypeOK
<1>6. HandlersAtWork'
  <2>1. \A g \in Handlers \ {h} : current'[g] = current[g] /\ ThisKey(g)' = ThisKey(g)
    BY <1>1, <1>5 DEF ThisKey
  <2>2. \A g \in Handlers \ {h} : Chosen(at[g])' = Chosen(at[g])
    BY <1>1, <1>5 DEF Chosen, Valid, RowNumbers
  <2>3. \A g \in Handlers : Committing(g)' =>
          todo'[g] \subseteq Chosen(at[g])' /\ commits'[at'[g]] > 0
    BY <1>1, <1>5, <2>2 DEF ImportsKnown, HandlersAtWork, Committing
  <2>4. \A g \in Handlers : pc'[g] = "record" =>
          todo'[g] # {} /\ origin'[ThisKey(g)'] = <<at'[g], current'[g]>>
    BY <1>1, <1>5, <2>1 DEF ImportsKnown, HandlersAtWork
  <2>5. \A g \in Handlers : pc[g] # "idle" => at[g] \in Sessions
    BY DEF ImportsKnown, TypeOK, HandlersAtWork
  <2>6. \A g \in Handlers :
          /\ pc'[g] = "idle" <=> at'[g] = NoSession
          /\ pc'[g] # "idle" => status'[at'[g]] # "none"
          /\ todo'[g] # {} => current'[g] \in todo'[g]
    BY <1>5, <2>5 DEF ImportsKnown, HandlersAtWork
  <2>7. QED
    BY <2>3, <2>4, <2>6 DEF HandlersAtWork
<1>7. OriginKnown'
  BY <1>1 DEF ImportsKnown, OriginKnown, RowNumbers, Chosen, Valid
<1>8. NothingBefore'
  <2>1. Committing(h) => commits[at[h]] > 0
    BY DEF ImportsKnown, HandlersAtWork
  <2>2. QED
    BY <1>1, <1>2, <1>3, <1>5, <2>1 DEF ImportsKnown, NothingBefore, TypeOK
<1>9. QED
  BY <1>4, <1>6, <1>7, <1>8 DEF ImportsKnown

\* Whatever requests do side by side, what is known of them stays true.
LEMMA ImportsKept ==
  ASSUME ImportsKnown, [Next]_vars
  PROVE  ImportsKnown'
<1>1. CASE UNCHANGED vars
  <2>1. UNCHANGED <<origin, rows, status, counts, recorded, pc, at, todo, current,
                    tally, commits, confirmed, failures, crashes>>
    BY <1>1 DEF vars, tables, locals, history, bounds
  <2>2. TypeOK'
    BY <2>1 DEF ImportsKnown, TypeOK, RowNumbers
  <2>3. HandlersAtWork'
    BY <2>1 DEF ImportsKnown, HandlersAtWork, Committing, Chosen, Valid, RowNumbers,
                ThisKey
  <2>4. OriginKnown' /\ NothingBefore'
    BY <2>1 DEF ImportsKnown, OriginKnown, NothingBefore, Chosen, Valid, RowNumbers
  <2>5. QED
    BY <2>2, <2>3, <2>4 DEF ImportsKnown
<1>2. ASSUME NEW k \in Keys, CreateElsewhere(k)
      PROVE  ImportsKnown'
  <2>1. /\ origin[k] = None /\ origin' = [origin EXCEPT ![k] = Elsewhere]
        /\ UNCHANGED <<rows, status, counts, recorded, pc, at, todo, current,
                       tally, commits, confirmed, failures, crashes>>
    BY <1>2 DEF CreateElsewhere, Exists, locals, history, bounds
  <2>2. QED
    BY <2>1, CreateKept
<1>3. ASSUME NEW h \in Handlers, CreateRow(h)
      PROVE  ImportsKnown'
  <2>1. Creating(h) /\ ThisKey(h) \in Keys
    BY <1>3, RowAtHand DEF CreateRow, Creating, Committing
  <2>2. /\ origin[ThisKey(h)] = None
        /\ origin' = [origin EXCEPT ![ThisKey(h)] = <<at[h], current[h]>>]
        /\ pc' = [pc EXCEPT ![h] = "record"]
        /\ UNCHANGED <<rows, status, counts, recorded, at, todo, current, tally,
                       commits, confirmed, failures, crashes>>
    BY <1>3 DEF CreateRow, Exists, history, bounds
  <2>3. PICK k \in Keys : k = ThisKey(h)
    BY <2>1
  <2>4. QED
    BY <2>1, <2>2, <2>3, CreateKept
<1>4. ASSUME NEW h \in Handlers, HandlerStep(h) \/ RowFails(h) \/ Crash(h)
      PROVE  ImportsKnown'
  BY <1>3, <1>4, RowDoneKept, EndOfRequestKept DEF HandlerStep, RowDone
<1>5. QED
  BY <1>1, <1>2, <1>4, ParseKept, StartKept DEF Next

\* For any files and any number of requests, whatever fails or ends early, a
\* row creates something only if some commit was to process it.
THEOREM ImportsOnlyChosen == Spec => []OnlyChosenCreated
<1>1. Init => ImportsKnown
  BY ImportsStart
<1>2. ImportsKnown /\ [Next]_vars => ImportsKnown'
  BY ImportsKept
<1>3. ImportsKnown => OnlyChosenCreated
  <2> SUFFICES ASSUME ImportsKnown, NEW s \in Sessions, NEW n \in CreatedFrom(s)
               PROVE  n \in Chosen(s)
    BY DEF OnlyChosenCreated, Chosen
  <2>1. /\ n \in RowNumbers(s) /\ n \in Nat
        /\ rows[s][n].key \in Keys
        /\ origin[rows[s][n].key] = <<s, n>>
    BY RowsNumbered DEF CreatedFrom, ImportsKnown, Row
  <2>2. QED
    BY <2>1 DEF ImportsKnown, OriginKnown
<1>4. QED
  BY <1>1, <1>2, <1>3, PTL DEF Spec

\* The sessions that were uploaded keep their rows, what was created stays, and
\* failures are not forgotten.
LEMMA CreationLasts ==
  ASSUME ImportsKnown, [Next]_vars
  PROVE  /\ \A k \in Keys : origin[k] # None => origin'[k] = origin[k]
         /\ \A s \in Sessions : status[s] # "none" => rows'[s] = rows[s]
         /\ \A s \in Sessions : CreatedFrom(s) \subseteq CreatedFrom(s)'
         /\ failures \in Nat /\ failures' \in Nat /\ failures <= failures'
<1>1. \A k \in Keys : origin[k] # None => origin'[k] = origin[k]
  <2>1. \/ UNCHANGED origin
        \/ \E k \in Keys : CreateElsewhere(k)
        \/ \E h \in Handlers : CreateRow(h)
    BY DEF Next, vars, tables, parse, StartCancel, StartCommit, HandlerStep,
           KeyTaken, RecordRow, RowFails, FinishCommit, FinishCancel, Crash
  <2>2. QED
    BY <2>1 DEF CreateElsewhere, CreateRow, Exists, ImportsKnown, TypeOK
<1>2. \A s \in Sessions : status[s] # "none" => rows'[s] = rows[s]
  <2>1. UNCHANGED rows \/ \E s \in Sessions, file \in Files : parse(s, file)
    BY DEF Next, vars, tables, StartCancel, StartCommit, HandlerStep, CreateRow,
           CreateElsewhere, KeyTaken, RecordRow, RowFails, FinishCommit,
           FinishCancel, Crash
  <2>2. QED
    BY <2>1 DEF parse, ImportsKnown, TypeOK
<1>3. ASSUME NEW s \in Sessions PROVE CreatedFrom(s) \subseteq CreatedFrom(s)'
  <2>1. CASE status[s] = "none"
    <3>1. CreatedFrom(s) = {}
      <4>1. SUFFICES ASSUME NEW n \in CreatedFrom(s) PROVE FALSE
        OBVIOUS
      <4>2. /\ n \in Nat /\ rows[s][n].key \in Keys
            /\ origin[rows[s][n].key] = <<s, n>>
        BY <4>1, RowsNumbered DEF CreatedFrom, ImportsKnown, Row
      <4>3. commits[s] > 0 /\ commits[s] = 0
        BY <2>1, <4>2 DEF ImportsKnown, OriginKnown, NothingBefore
      <4>4. QED
        BY <4>3
    <3>2. QED
      BY <3>1
  <2>2. CASE status[s] # "none"
    <3>1. \A n \in RowNumbers(s) : rows[s][n].key \in Keys
      BY RowsNumbered DEF ImportsKnown, Row
    <3>2. rows'[s] = rows[s] /\ RowNumbers(s)' = RowNumbers(s)
      BY <1>2, <2>2 DEF RowNumbers
    <3>3. \A n \in CreatedFrom(s) :
            /\ n \in RowNumbers(s) /\ rows[s][n].key \in Keys
            /\ origin[rows[s][n].key] = <<s, n>>
      BY <3>1 DEF CreatedFrom
    <3>4. \A n \in CreatedFrom(s) : origin'[rows[s][n].key] = <<s, n>>
      BY <1>1, <3>3, OriginDiffers
    <3>5. QED
      BY <3>2, <3>3, <3>4 DEF CreatedFrom
  <2>3. QED
    BY <2>1, <2>2
<1>4. failures \in Nat /\ failures' \in Nat /\ failures <= failures'
  <2>1. failures' = failures \/ failures' = failures + 1
    BY DEF Next, vars, bounds, parse, StartCancel, StartCommit, HandlerStep,
           CreateRow, CreateElsewhere, KeyTaken, RecordRow, RowFails,
           FinishCommit, FinishCancel, Crash
  <2>2. QED
    BY <2>1, ImportsAssumption DEF ImportsKnown, TypeOK
<1>5. QED
  BY <1>1, <1>2, <1>3, <1>4

\* The row that a handler is about to record is one that it created.
LEMMA RecordsItsOwn ==
  ASSUME ImportsKnown, NEW h \in Handlers, pc[h] = "record"
  PROVE  current[h] \in CreatedFrom(at[h])
<1>1. current[h] \in RowNumbers(at[h])
  BY RowAtHand DEF Committing, ImportsKnown, HandlersAtWork
<1>2. QED
  BY <1>1 DEF ImportsKnown, HandlersAtWork, CreatedFrom, ThisKey

\* For any number of requests and sessions with the same keys, a record points
\* to what its own row created.
THEOREM ImportsRecordTheirOwn == Spec => []RecordedIsOwn
<1>1. Init => ImportsKnown /\ RecordedIsOwn
  BY ImportsStart DEF Init, RecordedIsOwn
<1>2. ImportsKnown /\ RecordedIsOwn /\ [Next]_vars => ImportsKnown' /\ RecordedIsOwn'
  <2> SUFFICES ASSUME ImportsKnown, RecordedIsOwn, [Next]_vars PROVE RecordedIsOwn'
    BY ImportsKept
  <2>1. \A s \in Sessions : CreatedFrom(s) \subseteq CreatedFrom(s)'
    BY CreationLasts
  <2>2. UNCHANGED recorded \/ \E h \in Handlers : RecordRow(h)
    BY DEF Next, vars, tables, parse, StartCancel, StartCommit, HandlerStep,
           CreateRow, CreateElsewhere, KeyTaken, RowFails, FinishCommit,
           FinishCancel, Crash
  <2>3. CASE UNCHANGED recorded
    BY <2>1, <2>3 DEF RecordedIsOwn
  <2>4. ASSUME NEW h \in Handlers, RecordRow(h)
        PROVE  RecordedIsOwn'
    <3>1. PICK t, n : t = at[h] /\ n = current[h]
      OBVIOUS
    <3>2. /\ recorded' = [recorded EXCEPT ![t] = @ \cup {n}]
          /\ n \in CreatedFrom(t)
      BY <2>4, <3>1, RecordsItsOwn DEF RecordRow
    <3>3. \A s \in Sessions : recorded'[s] \subseteq recorded[s] \cup
                               (IF s = t THEN {n} ELSE {})
      BY <3>2 DEF ImportsKnown, TypeOK
    <3>4. QED
      BY <2>1, <3>2, <3>3 DEF RecordedIsOwn
  <2>5. QED
    BY <2>2, <2>3, <2>4
<1>3. QED
  BY <1>1, <1>2, PTL DEF Spec

\* Unless the database failed, a commit passes over no valid row.
PassesOverNone ==
  failures = 0 =>
    \A h \in Handlers : Committing(h) =>
      \A n \in Valid(at[h]) : n \in todo[h] \/ Exists(rows[at[h]][n].key)

\* Unless the database failed, a session that says COMMITTED is complete, with
\* any number of commits, crashes and cancellations beside it.
THEOREM ImportsComplete == Spec => []CommittedIsComplete
<1>1. Init => ImportsKnown /\ PassesOverNone /\ CommittedIsComplete
  BY ImportsStart DEF Init, PassesOverNone, CommittedIsComplete, Committing
<1>2. ImportsKnown /\ PassesOverNone /\ CommittedIsComplete /\ [Next]_vars
        => ImportsKnown' /\ PassesOverNone' /\ CommittedIsComplete'
  <2> SUFFICES ASSUME ImportsKnown, PassesOverNone, CommittedIsComplete, [Next]_vars
               PROVE  PassesOverNone' /\ CommittedIsComplete'
    BY ImportsKept
  <2>1. /\ \A k \in Keys : origin[k] # None => origin'[k] = origin[k]
        /\ \A s \in Sessions : status[s] # "none" => rows'[s] = rows[s]
        /\ failures \in Nat /\ failures' \in Nat /\ failures <= failures'
    BY CreationLasts
  <2>2. \A s \in Sessions, n \in Nat : status[s] # "none" =>
          /\ n \in Valid(s)' <=> n \in Valid(s)
          /\ n \in Valid(s) /\ Exists(rows[s][n].key) => Exists(rows[s][n].key)'
    <3> SUFFICES ASSUME NEW s \in Sessions, NEW n \in Nat, status[s] # "none"
                 PROVE  /\ n \in Valid(s)' <=> n \in Valid(s)
                        /\ n \in Valid(s) /\ Exists(rows[s][n].key)
                             => Exists(rows[s][n].key)'
      OBVIOUS
    <3>1. n \in Valid(s)' <=> n \in Valid(s)
      BY <2>1 DEF Valid, RowNumbers
    <3>2. n \in Valid(s) => rows[s][n].key \in Keys
      BY RowsNumbered DEF Valid, ImportsKnown, Row
    <3>3. QED
      BY <2>1, <3>1, <3>2 DEF Exists
  <2>3. ASSUME failures' = 0, NEW h \in Handlers, Committing(h)', NEW n \in Valid(at[h])'
        PROVE  n \in todo'[h] \/ Exists(rows[at[h]][n].key)'
    <3>1. failures = 0
      BY <2>1, <2>3
    <3>2. n \in Nat
      <4>1. at'[h] \in Sessions /\ TypeOK'
        BY <2>3, ImportsKept DEF ImportsKnown, TypeOK, HandlersAtWork, Committing
      <4>2. n \in RowNumbers(at[h])'
        BY <2>3 DEF Valid
      <4>3. rows'[at'[h]] \in Seq(Row)
        BY <4>1 DEF TypeOK
      <4>4. QED
        BY <4>2, <4>3 DEF RowNumbers
    <3>3. CASE /\ Committing(h) /\ at'[h] = at[h]
               /\ todo'[h] = todo[h] \/ (todo[h] # {} /\ todo'[h] = todo[h] \ {current[h]}
                                          /\ Exists(ThisKey(h)))
      <4>1. PICK s \in Sessions : s = at[h]
        BY <3>3, RowAtHand
      <4>2. status[s] # "none"
        BY <3>3, <4>1 DEF ImportsKnown, HandlersAtWork, Committing
      <4>3. n \in Valid(s)'
        BY <2>3, <3>3, <4>1 DEF Valid, RowNumbers
      <4>4. n \in Valid(s)
        BY <2>2, <3>2, <4>2, <4>3
      <4>5. n \in todo[h] \/ Exists(rows[s][n].key)
        BY <3>1, <3>3, <4>1, <4>4 DEF PassesOverNone
      <4>6. n \in todo'[h] \/ Exists(rows[s][n].key)
        BY <3>3, <4>1, <4>5 DEF ThisKey
      <4>7. n \in todo'[h] \/ Exists(rows[s][n].key)'
        BY <2>2, <3>2, <4>2, <4>4, <4>6
      <4>8. QED
        BY <3>3, <4>1, <4>7 DEF Exists
    <3>4. CASE \E s \in Sessions : \E ids \in SUBSET RowNumbers(s) : StartCommit(h, s, ids)
      <4>0. PICK s \in Sessions : \E ids \in SUBSET RowNumbers(s) : StartCommit(h, s, ids)
        BY <3>4
      <4>1. PICK ids \in SUBSET RowNumbers(s) : StartCommit(h, s, ids)
        BY <4>0
      <4>2. /\ at'[h] = s /\ todo'[h] = Selected(s, ids) /\ rows' = rows
        BY <4>1 DEF StartCommit, tables, ImportsKnown, TypeOK
      <4>3. n \in Valid(s)
        BY <2>3, <4>2 DEF Valid, RowNumbers
      <4>4. QED
        BY <4>2, <4>3 DEF Selected, Valid
    <3>5. CASE UNCHANGED <<at, todo>> /\ Committing(h)
      BY <3>3, <3>5
    <3>6. ASSUME NEW g \in Handlers, RowDone(g)
          PROVE  n \in todo'[h] \/ Exists(rows[at[h]][n].key)'
      <4>1. /\ Committing(g) /\ todo[g] # {} /\ at' = at
            /\ todo' = [todo EXCEPT ![g] = @ \ {current[g]}]
            /\ pc' = [pc EXCEPT ![g] = "create"]
        BY <3>6, RowDoneEffect
      <4>2. CASE g # h
        BY <2>3, <3>3, <4>1, <4>2 DEF Committing, ImportsKnown, TypeOK
      <4>3. CASE g = h
        <5>1. ~ RowFails(h)
          BY <2>1, <2>3 DEF RowFails
        <5>2. CASE RecordRow(h)
          <6>1. current[h] \in CreatedFrom(at[h])
            BY <5>2, RecordsItsOwn DEF RecordRow
          <6>2. Exists(ThisKey(h))
            BY <6>1, OriginDiffers DEF CreatedFrom, ThisKey, Exists
          <6>3. QED
            BY <3>3, <4>1, <4>3, <6>2 DEF ImportsKnown, TypeOK
        <5>3. CASE KeyTaken(h)
          <6>1. Exists(ThisKey(h))
            BY <5>3 DEF KeyTaken
          <6>2. QED
            BY <3>3, <4>1, <4>3, <6>1 DEF ImportsKnown, TypeOK
        <5>4. QED
          BY <3>6, <4>3, <5>1, <5>2, <5>3 DEF RowDone
      <4>4. QED
        BY <4>2, <4>3
    <3>7. ASSUME NEW g \in Handlers, FinishCommit(g) \/ FinishCancel(g) \/ Crash(g)
          PROVE  n \in todo'[h] \/ Exists(rows[at[h]][n].key)'
      <4>1. /\ pc' = [pc EXCEPT ![g] = "idle"]
            /\ at' = [at EXCEPT ![g] = NoSession]
            /\ todo' = [todo EXCEPT ![g] = {}]
        BY <3>7 DEF FinishCommit, FinishCancel, Crash, Return
      <4>2. g # h
        BY <2>3, <4>1 DEF Committing, ImportsKnown, TypeOK
      <4>3. QED
        BY <2>3, <3>3, <4>1, <4>2 DEF Committing, ImportsKnown, TypeOK
    <3>8. ASSUME NEW g \in Handlers \ {h}, NEW s \in Sessions,
                 \/ StartCancel(g, s)
                 \/ \E ids \in SUBSET RowNumbers(s) : StartCommit(g, s, ids)
          PROVE  n \in todo'[h] \/ Exists(rows[at[h]][n].key)'
      <4>1. pc'[h] = pc[h] /\ at'[h] = at[h] /\ todo'[h] = todo[h]
        BY <3>8 DEF StartCancel, StartCommit, ImportsKnown, TypeOK
      <4>2. QED
        BY <2>3, <3>3, <4>1 DEF Committing
    <3>9. CASE \/ UNCHANGED vars
               \/ \E s \in Sessions, file \in Files : parse(s, file)
               \/ \E k \in Keys : CreateElsewhere(k)
               \/ \E g \in Handlers : CreateRow(g)
      <4>1. UNCHANGED <<at, todo>> /\ Committing(h)
        BY <2>3, <3>9 DEF vars, locals, parse, CreateElsewhere, CreateRow, Creating,
                          Committing, ImportsKnown, TypeOK
      <4>2. QED
        BY <3>5, <4>1
    <3>10. CASE \E g \in Handlers, s \in Sessions :
                  \/ StartCancel(g, s)
                  \/ \E ids \in SUBSET RowNumbers(s) : StartCommit(g, s, ids)
      <4>1. PICK g \in Handlers, s \in Sessions :
              \/ StartCancel(g, s)
              \/ \E ids \in SUBSET RowNumbers(s) : StartCommit(g, s, ids)
        BY <3>10
      <4>2. CASE StartCancel(g, s)
        <5>1. g # h
          BY <2>3, <4>2 DEF StartCancel, Committing, ImportsKnown, TypeOK
        <5>2. QED
          BY <3>8, <4>2, <5>1
      <4>3. CASE \E ids \in SUBSET RowNumbers(s) : StartCommit(g, s, ids)
        <5>1. CASE g = h
          BY <3>4, <4>3, <5>1
        <5>2. CASE g # h
          BY <3>8, <4>3, <5>2
        <5>3. QED
          BY <5>1, <5>2
      <4>4. QED
        BY <4>1, <4>2, <4>3
    <3>11. CASE \E g \in Handlers : HandlerStep(g) \/ RowFails(g) \/ Crash(g)
      BY <3>6, <3>7, <3>9, <3>11 DEF HandlerStep, RowDone
    <3>12. QED
      BY <3>9, <3>10, <3>11 DEF Next
  <2>4. PassesOverNone'
    BY <2>3 DEF PassesOverNone
  <2>5. ASSUME failures' = 0, NEW s \in Sessions, status'[s] = "COMMITTED",
               NEW n \in Valid(s)'
        PROVE  Exists(rows[s][n].key)'
    <3>1. status[s] # "none" /\ n \in Nat
      <4>1. n \in RowNumbers(s)' /\ rows'[s] \in Seq(Row)
        BY <2>5, ImportsKept DEF ImportsKnown, TypeOK, Valid
      <4>2. n \in Nat
        BY <4>1 DEF RowNumbers
      <4>3. \/ status' = status
            \/ \E t \in Sessions : status' = [status EXCEPT ![t] = "UPLOADED"]
            \/ \E h \in Handlers : (FinishCommit(h) \/ FinishCancel(h))
        BY DEF Next, vars, tables, parse, StartCancel, StartCommit, HandlerStep,
               CreateRow, CreateElsewhere, KeyTaken, RecordRow, RowFails, Crash
      <4>4. QED
        BY <2>5, <4>2, <4>3
           DEF FinishCommit, FinishCancel, ImportsKnown, TypeOK, HandlersAtWork
    <3>2. failures = 0 /\ n \in Valid(s)
      BY <2>1, <2>2, <2>5, <3>1
    <3>3. CASE status[s] = "COMMITTED"
      BY <2>2, <3>1, <3>2, <3>3 DEF CommittedIsComplete
    <3>4. CASE status[s] # "COMMITTED"
      <4>1. PICK h \in Handlers : FinishCommit(h) /\ at[h] = s
        <5>1. \/ status' = status
              \/ \E t \in Sessions : status' = [status EXCEPT ![t] = "UPLOADED"]
              \/ \E h \in Handlers : FinishCommit(h) \/ FinishCancel(h)
          BY DEF Next, vars, tables, parse, StartCancel, StartCommit, HandlerStep,
                 CreateRow, CreateElsewhere, KeyTaken, RecordRow, RowFails, Crash
        <5>2. QED
          BY <2>5, <3>4, <5>1 DEF FinishCommit, FinishCancel, ImportsKnown, TypeOK
      <4>2. Committing(h) /\ todo[h] = {}
        BY <4>1 DEF FinishCommit, Committing
      <4>3. Exists(rows[s][n].key)
        BY <3>2, <4>1, <4>2 DEF PassesOverNone
      <4>4. QED
        BY <2>2, <3>1, <3>2, <4>3
    <3>5. QED
      BY <3>3, <3>4
  <2>6. CommittedIsComplete'
    BY <2>5 DEF CommittedIsComplete
  <2>7. QED
    BY <2>4, <2>6
<1>3. QED
  BY <1>1, <1>2, PTL DEF Spec

\* The tally of a handler that works on a session: a row that it has created is
\* counted when it is recorded, unless the record fails, and the rows counted
\* and the rows left are those chosen.
TallyRight(h, s) ==
  LET created == Cardinality(CreatedFrom(s))
      done == tally[h].committed + (IF pc[h] = "record" THEN 1 ELSE 0)
  IN  /\ done <= created
      /\ created <= done + failures
      /\ tally[h].committed + tally[h].skipped + Cardinality(todo[h]) =
           Cardinality(Chosen(s))

CountsRight(s) ==
  LET created == Cardinality(CreatedFrom(s)) IN
  /\ counts[s].committed <= created
  /\ created <= counts[s].committed + failures
  /\ counts[s].committed + counts[s].skipped = Cardinality(Chosen(s))

\* A session that one request has begun to commit: this request alone is at
\* work, or it has ended and left its tally.
SessionCounted(s) ==
  commits[s] = 1 =>
    /\ \A h \in Handlers : Committing(h) /\ at[h] = s =>
         /\ TallyRight(h, s)
         /\ status[s] # "COMMITTED"
         /\ \A g \in Handlers : Committing(g) /\ at[g] = s => g = h
    /\ status[s] = "COMMITTED" => CountsRight(s)

\* The rows of a session are finitely many.
LEMMA RowsFinite ==
  ASSUME ImportsKnown, NEW s \in Sessions
  PROVE  /\ IsFiniteSet(CreatedFrom(s)) /\ Cardinality(CreatedFrom(s)) \in Nat
         /\ IsFiniteSet(Chosen(s)) /\ Cardinality(Chosen(s)) \in Nat
         /\ failures \in Nat
<1>1. IsFiniteSet(RowNumbers(s))
  BY RowsNumbered DEF ImportsKnown
<1>2. CreatedFrom(s) \subseteq RowNumbers(s) /\ Chosen(s) \subseteq RowNumbers(s)
  BY DEF CreatedFrom, Chosen, Valid, ImportsKnown, TypeOK
<1>3. IsFiniteSet(CreatedFrom(s)) /\ IsFiniteSet(Chosen(s))
  BY <1>1, <1>2, FS_Subset
<1>4. failures \in Nat
  BY ImportsAssumption DEF ImportsKnown, TypeOK
<1>5. QED
  BY <1>3, <1>4, FS_CardinalityType

\* The rows that a handler has left are finitely many.
LEMMA TodoFinite ==
  ASSUME ImportsKnown, NEW h \in Handlers, Committing(h)
  PROVE  /\ IsFiniteSet(todo[h]) /\ Cardinality(todo[h]) \in Nat
         /\ tally[h].committed \in Nat /\ tally[h].skipped \in Nat
<1>1. at[h] \in Sessions /\ todo[h] \subseteq RowNumbers(at[h])
  BY RowAtHand
<1>2. IsFiniteSet(todo[h])
  BY <1>1, RowsNumbered, FS_Subset DEF ImportsKnown
<1>3. tally[h] \in [committed : Nat, skipped : Nat]
  BY DEF ImportsKnown, TypeOK
<1>4. QED
  BY <1>2, <1>3, FS_CardinalityType

\* Nothing is created from a session that nobody has begun to commit.
LEMMA NothingCreatedBefore ==
  ASSUME ImportsKnown, NEW s \in Sessions, commits[s] = 0
  PROVE  CreatedFrom(s) = {}
<1>1. SUFFICES ASSUME NEW n \in CreatedFrom(s) PROVE FALSE
  OBVIOUS
<1>2. /\ n \in Nat /\ rows[s][n].key \in Keys
      /\ origin[rows[s][n].key] = <<s, n>>
  BY RowsNumbered DEF CreatedFrom, ImportsKnown, Row
<1>3. commits[s] > 0
  BY <1>2 DEF ImportsKnown, OriginKnown
<1>4. QED
  BY <1>3

\* What is created from a session is its own only.
LEMMA CreatedStep ==
  ASSUME ImportsKnown, NEW s \in Sessions, NEW k \in Keys, origin[k] = None,
         NEW value, origin' = [origin EXCEPT ![k] = value],
         UNCHANGED rows
  PROVE  /\ (\A n : value # <<s, n>>) => CreatedFrom(s)' = CreatedFrom(s)
         /\ \A n \in RowNumbers(s) : value = <<s, n>> /\ rows[s][n].key = k =>
              /\ n \notin CreatedFrom(s)
              /\ CreatedFrom(s)' = CreatedFrom(s) \cup {n}
<1>1. /\ origin'[k] = value /\ RowNumbers(s)' = RowNumbers(s)
      /\ \A j \in Keys \ {k} : origin'[j] = origin[j]
      /\ \A m \in RowNumbers(s) : rows[s][m].key \in Keys
  BY RowsNumbered DEF ImportsKnown, TypeOK, RowNumbers, Row
<1>2. \A m : origin[k] # <<s, m>>
  BY OriginDiffers
<1>3. ASSUME \A n : value # <<s, n>>
      PROVE  CreatedFrom(s)' = CreatedFrom(s)
  BY <1>1, <1>2, <1>3 DEF CreatedFrom
<1>4. ASSUME NEW n \in RowNumbers(s), value = <<s, n>>, rows[s][n].key = k
      PROVE  /\ n \notin CreatedFrom(s)
             /\ CreatedFrom(s)' = CreatedFrom(s) \cup {n}
  <2>1. n \notin CreatedFrom(s)
    BY <1>2, <1>4 DEF CreatedFrom
  <2>2. \A m \in RowNumbers(s) :
          origin'[rows[s][m].key] = <<s, m>> <=>
            (origin[rows[s][m].key] = <<s, m>> \/ m = n)
    <3> SUFFICES ASSUME NEW m \in RowNumbers(s)
                 PROVE  origin'[rows[s][m].key] = <<s, m>> <=>
                          (origin[rows[s][m].key] = <<s, m>> \/ m = n)
      OBVIOUS
    <3>1. CASE rows[s][m].key = k
      <4>1. origin'[k] = <<s, m>> <=> m = n
        BY <1>1, <1>4
      <4>2. QED
        BY <1>2, <3>1, <4>1
    <3>2. CASE rows[s][m].key # k
      BY <1>1, <1>4, <3>2
    <3>3. QED
      BY <3>1, <3>2
  <2>3. QED
    BY <1>1, <1>4, <2>1, <2>2 DEF CreatedFrom
<1>5. QED
  BY <1>3, <1>4

\* The first commit of a session begins with nothing created and all chosen.
LEMMA FirstCommitCounted ==
  ASSUME ImportsKnown, NEW h \in Handlers, NEW s \in Sessions,
         NEW ids \in SUBSET RowNumbers(s), StartCommit(h, s, ids)
  PROVE  SessionCounted(s)'
<1> SUFFICES ASSUME commits'[s] = 1 PROVE SessionCounted(s)'
  BY DEF SessionCounted
<1>1. /\ pc[h] = "idle" /\ status[s] = "UPLOADED" /\ status' = status
      /\ pc' = [pc EXCEPT ![h] = "create"]
      /\ at' = [at EXCEPT ![h] = s]
      /\ todo' = [todo EXCEPT ![h] = Selected(s, ids)]
      /\ tally' = [tally EXCEPT ![h] = Zero]
      /\ commits' = [commits EXCEPT ![s] = @ + 1]
      /\ confirmed' = [confirmed EXCEPT ![s] =
                         @ \cup {n \in ids : rows[s][n].verdict = "WARNING"}]
      /\ UNCHANGED <<origin, rows, failures>>
  BY DEF StartCommit, tables, bounds
<1>2. commits[s] = 0
  BY <1>1 DEF ImportsKnown, TypeOK
<1>3. CreatedFrom(s)' = {}
  BY <1>1, <1>2, NothingCreatedBefore DEF CreatedFrom, RowNumbers
<1>4. Chosen(s)' = Selected(s, ids)
  <2>1. confirmed[s] = {}
    BY <1>2 DEF ImportsKnown, NothingBefore
  <2>2. confirmed'[s] = {n \in ids : rows[s][n].verdict = "WARNING"}
    BY <1>1, <2>1 DEF ImportsKnown, TypeOK
  <2>3. Valid(s)' = Valid(s)
    BY <1>1 DEF Valid, RowNumbers
  <2>4. QED
    BY <2>2, <2>3 DEF Chosen, Selected, Valid
<1>5. /\ pc'[h] = "create" /\ todo'[h] = Selected(s, ids) /\ tally'[h] = Zero
      /\ \A g \in Handlers \ {h} : pc'[g] = pc[g] /\ at'[g] = at[g]
  BY <1>1 DEF ImportsKnown, TypeOK
<1>6. \A g \in Handlers : Committing(g)' /\ at'[g] = s => g = h
  <2>1. \A g \in Handlers : Committing(g) => commits[at[g]] > 0
    BY DEF ImportsKnown, HandlersAtWork
  <2>2. QED
    BY <1>2, <1>5, <2>1 DEF Committing
<1>7. TallyRight(h, s)'
  <2>1. IsFiniteSet(Selected(s, ids))
    BY RowsNumbered, FS_Subset DEF ImportsKnown, Selected
  <2>2. failures \in Nat /\ Cardinality(Selected(s, ids)) \in Nat
    BY <2>1, RowsFinite, FS_CardinalityType
  <2>3. QED
    BY <1>1, <1>3, <1>4, <1>5, <2>2, FS_EmptySet DEF TallyRight, Zero
<1>8. QED
  BY <1>1, <1>6, <1>7 DEF SessionCounted

\* A row is created, and waits to be counted.
LEMMA CreateCounted ==
  ASSUME ImportsKnown, NEW h \in Handlers, NEW s \in Sessions, CreateRow(h),
         SessionCounted(s)
  PROVE  SessionCounted(s)'
<1>1. /\ Creating(h) /\ ThisKey(h) \in Keys /\ current[h] \in RowNumbers(at[h])
      /\ at[h] \in Sessions /\ Committing(h) /\ pc[h] = "create"
  BY RowAtHand DEF CreateRow, Creating, Committing
<1>2. PICK k \in Keys, t \in Sessions, n \in RowNumbers(at[h]) : k = ThisKey(h) /\ t = at[h] /\ n = current[h]
  BY <1>1
<1>3. /\ origin[k] = None /\ origin' = [origin EXCEPT ![k] = <<t, n>>]
      /\ pc' = [pc EXCEPT ![h] = "record"]
      /\ UNCHANGED <<rows, status, counts, at, todo, tally, commits, confirmed,
                     failures>>
      /\ rows[t][n].key = k
  BY <1>2 DEF CreateRow, Exists, history, bounds, ThisKey
<1>4. /\ s # t => CreatedFrom(s)' = CreatedFrom(s)
      /\ s = t => n \notin CreatedFrom(s) /\ CreatedFrom(s)' = CreatedFrom(s) \cup {n}
  <2>1. /\ (\A m : <<t, n>> # <<s, m>>) => CreatedFrom(s)' = CreatedFrom(s)
        /\ \A m \in RowNumbers(s) : <<t, n>> = <<s, m>> /\ rows[s][m].key = k =>
              /\ m \notin CreatedFrom(s)
              /\ CreatedFrom(s)' = CreatedFrom(s) \cup {m}
    BY <1>3, CreatedStep
  <2>2. s # t => \A m : <<t, n>> # <<s, m>>
    OBVIOUS
  <2>3. s = t => n \in RowNumbers(s)
    BY <1>1, <1>2
  <2>4. QED
    BY <1>3, <2>1, <2>2, <2>3
<1>5. Chosen(s)' = Chosen(s)
  BY <1>3 DEF Chosen, Valid, RowNumbers
<1>6. /\ \A g \in Handlers : Committing(g)' <=> Committing(g)
      /\ \A g \in Handlers \ {h} : pc'[g] = pc[g]
      /\ pc'[h] = "record"
  BY <1>1, <1>3 DEF Committing, ImportsKnown, TypeOK
<1>7. CASE s # t
  <2>1. \A g \in Handlers : at[g] = s => (TallyRight(g, s) => TallyRight(g, s)')
    BY <1>2, <1>3, <1>4, <1>5, <1>6, <1>7 DEF TallyRight
  <2>2. CountsRight(s) => CountsRight(s)'
    BY <1>3, <1>4, <1>5, <1>7 DEF CountsRight
  <2>3. QED
    BY <1>3, <1>6, <2>1, <2>2 DEF SessionCounted
<1>8. CASE s = t
  <2> SUFFICES ASSUME commits[s] = 1 PROVE SessionCounted(s)'
    BY <1>3 DEF SessionCounted
  <2>1. /\ TallyRight(h, s) /\ status[s] # "COMMITTED"
        /\ \A g \in Handlers : Committing(g) /\ at[g] = s => g = h
    BY <1>1, <1>2, <1>8 DEF SessionCounted
  <2>2. Cardinality(CreatedFrom(s))' = Cardinality(CreatedFrom(s)) + 1
    BY <1>4, <1>8, RowsFinite, FS_AddElement
  <2>3. /\ Cardinality(CreatedFrom(s)) \in Nat /\ failures \in Nat
        /\ tally[h].committed \in Nat
    BY <1>1, RowsFinite, TodoFinite
  <2>4. TallyRight(h, s)'
    BY <1>1, <1>3, <1>5, <1>6, <2>1, <2>2, <2>3 DEF TallyRight
  <2>5. QED
    BY <1>3, <1>6, <2>1, <2>4 DEF SessionCounted
<1>9. QED
  BY <1>7, <1>8

\* A row done with is counted once, as created or as skipped.
LEMMA RowDoneCounted ==
  ASSUME ImportsKnown, NEW h \in Handlers, NEW s \in Sessions, RowDone(h),
         SessionCounted(s)
  PROVE  SessionCounted(s)'
<1>1. /\ Committing(h) /\ todo[h] # {}
      /\ todo' = [todo EXCEPT ![h] = @ \ {current[h]}]
      /\ pc' = [pc EXCEPT ![h] = "create"]
      /\ UNCHANGED <<origin, rows, status, counts, at, commits, confirmed>>
  BY RowDoneEffect
<1>2. /\ \A g \in Handlers : Committing(g)' <=> Committing(g)
      /\ \A g \in Handlers \ {h} : /\ pc'[g] = pc[g] /\ todo'[g] = todo[g]
                                   /\ tally'[g] = tally[g]
      /\ pc'[h] = "create" /\ todo'[h] = todo[h] \ {current[h]}
  BY <1>1 DEF Committing, ImportsKnown, TypeOK, RowDone, KeyTaken, RecordRow,
              RowFails, SkipRow
<1>3. \/ /\ tally'[h] = [tally[h] EXCEPT !.skipped = @ + 1]
         /\ failures' = failures /\ pc[h] = "create"
      \/ /\ tally'[h] = [tally[h] EXCEPT !.committed = @ + 1]
         /\ failures' = failures /\ pc[h] = "record"
      \/ /\ tally'[h] = [tally[h] EXCEPT !.skipped = @ + 1]
         /\ failures' = failures + 1
  BY DEF RowDone, KeyTaken, RecordRow, RowFails, SkipRow, Creating, bounds,
         ImportsKnown, TypeOK
<1>4. /\ CreatedFrom(s)' = CreatedFrom(s) /\ Chosen(s)' = Chosen(s)
      /\ Cardinality(CreatedFrom(s)) \in Nat /\ failures \in Nat
      /\ failures' \in Nat /\ failures <= failures'
  <2>1. CreatedFrom(s)' = CreatedFrom(s) /\ Chosen(s)' = Chosen(s)
    BY <1>1 DEF CreatedFrom, Chosen, Valid, RowNumbers
  <2>2. Cardinality(CreatedFrom(s)) \in Nat /\ failures \in Nat
    BY RowsFinite
  <2>3. QED
    BY <1>3, <2>1, <2>2
<1>5. CountsRight(s) => CountsRight(s)'
  <2>1. counts[s].committed \in Nat
    BY DEF ImportsKnown, TypeOK
  <2>2. QED
    BY <1>1, <1>4, <2>1 DEF CountsRight
<1>6. ASSUME NEW g \in Handlers, Committing(g), TallyRight(g, s)
      PROVE  TallyRight(g, s)'
  <2>1. /\ tally[g] \in [committed : Nat, skipped : Nat]
        /\ IsFiniteSet(todo[g]) /\ Cardinality(todo[g]) \in Nat
    BY <1>6, TodoFinite DEF ImportsKnown, TypeOK
  <2>2. CASE g # h
    BY <1>2, <1>4, <1>6, <2>1, <2>2 DEF TallyRight
  <2>3. CASE g = h
    <3>1. Cardinality(todo[h] \ {current[h]}) = Cardinality(todo[h]) - 1
      BY <1>1, <2>1, <2>3, CurrentIsLeft, FS_RemoveElement
    <3>2. /\ tally[h].committed \in Nat /\ tally[h].skipped \in Nat
          /\ Cardinality(todo'[h]) = Cardinality(todo[h]) - 1
          /\ \/ /\ tally'[h].skipped = tally[h].skipped + 1
                /\ tally'[h].committed = tally[h].committed
                /\ failures' = failures /\ pc[h] # "record"
             \/ /\ tally'[h].committed = tally[h].committed + 1
                /\ tally'[h].skipped = tally[h].skipped
                /\ failures' = failures /\ pc[h] = "record"
             \/ /\ tally'[h].skipped = tally[h].skipped + 1
                /\ tally'[h].committed = tally[h].committed
                /\ failures' = failures + 1
      BY <1>2, <1>3, <2>1, <2>3, <3>1
    <3> DEFINE created == Cardinality(CreatedFrom(s))
    <3>3. /\ tally[h].committed + (IF pc[h] = "record" THEN 1 ELSE 0) <= created
          /\ created <= tally[h].committed
                          + (IF pc[h] = "record" THEN 1 ELSE 0) + failures
          /\ tally[h].committed + tally[h].skipped + Cardinality(todo[h]) =
               Cardinality(Chosen(s))
      BY <1>6, <2>3 DEF TallyRight
    <3>4. /\ tally'[h].committed <= created
          /\ created <= tally'[h].committed + failures'
          /\ tally'[h].committed + tally'[h].skipped + Cardinality(todo'[h]) =
               Cardinality(Chosen(s))
      BY <1>4, <2>1, <2>3, <3>2, <3>3
    <3>5. tally'[h].committed \in Nat
      BY <3>2
    <3>6. /\ Cardinality(CreatedFrom(s))' = created
          /\ Cardinality(Chosen(s))' = Cardinality(Chosen(s))
      BY <1>4
    <3>7. tally'[h].committed + (IF pc'[h] = "record" THEN 1 ELSE 0) =
            tally'[h].committed
      BY <1>2, <3>5
    <3>8. TallyRight(h, s)'
      BY <3>4, <3>6, <3>7 DEF TallyRight
    <3>9. QED
      BY <2>3, <3>8
  <2>4. QED
    BY <2>2, <2>3
<1>7. QED
  BY <1>1, <1>2, <1>5, <1>6 DEF SessionCounted

\* A commit that ends leaves its tally; other ends change no count.
LEMMA EndCounted ==
  ASSUME ImportsKnown, NEW h \in Handlers, NEW s \in Sessions,
         FinishCommit(h) \/ FinishCancel(h) \/ Crash(h), SessionCounted(s)
  PROVE  SessionCounted(s)'
<1>1. /\ pc[h] # "idle"
      /\ pc' = [pc EXCEPT ![h] = "idle"]
      /\ at' = [at EXCEPT ![h] = NoSession]
      /\ todo' = [todo EXCEPT ![h] = {}]
      /\ tally' = [tally EXCEPT ![h] = Zero]
      /\ UNCHANGED <<origin, rows, commits, confirmed, failures>>
  BY DEF FinishCommit, FinishCancel, Crash, Return, tables, history, bounds
<1>2. /\ ~ Committing(h)'
      /\ \A g \in Handlers \ {h} :
           /\ pc'[g] = pc[g] /\ at'[g] = at[g] /\ todo'[g] = todo[g]
           /\ tally'[g] = tally[g] /\ (Committing(g)' <=> Committing(g))
  BY <1>1 DEF Committing, ImportsKnown, TypeOK
<1>3. CreatedFrom(s)' = CreatedFrom(s) /\ Chosen(s)' = Chosen(s)
  BY <1>1 DEF CreatedFrom, Chosen, Valid, RowNumbers
<1>4. \A g \in Handlers \ {h} : TallyRight(g, s) => TallyRight(g, s)'
  BY <1>1, <1>2, <1>3 DEF TallyRight
<1>5. /\ at[h] \in Sessions
      /\ counts \in [Sessions -> [committed : Nat, skipped : Nat]]
      /\ status \in [Sessions -> {"none", "UPLOADED", "COMMITTED", "CANCELLED"}]
  BY <1>1 DEF ImportsKnown, TypeOK, HandlersAtWork
<1>6. CASE FinishCommit(h) /\ at[h] = s
  <2> SUFFICES ASSUME commits[s] = 1 PROVE SessionCounted(s)'
    BY <1>1 DEF SessionCounted
  <2>1. /\ Committing(h) /\ todo[h] = {} /\ pc[h] = "create"
        /\ counts'[s] = tally[h]
    BY <1>5, <1>6 DEF FinishCommit, Committing
  <2>2. TallyRight(h, s) /\ \A g \in Handlers : Committing(g) /\ at[g] = s => g = h
    BY <1>6, <2>1 DEF SessionCounted
  <2>3. /\ tally[h].committed \in Nat /\ tally[h].skipped \in Nat
        /\ Cardinality(todo[h]) = 0
    BY <2>1, TodoFinite, FS_EmptySet
  <2>4. CountsRight(s)'
    BY <1>1, <1>3, <2>1, <2>2, <2>3 DEF TallyRight, CountsRight
  <2>5. QED
    BY <1>2, <2>2, <2>4 DEF SessionCounted
<1>7. CASE ~ (FinishCommit(h) /\ at[h] = s)
  <2>1. /\ status'[s] = "COMMITTED" => status[s] = "COMMITTED"
        /\ counts'[s] = counts[s]
    BY <1>5, <1>7 DEF FinishCommit, FinishCancel, Crash, tables
  <2>2. CountsRight(s) => CountsRight(s)'
    BY <1>1, <1>3, <2>1 DEF CountsRight
  <2>3. QED
    BY <1>1, <1>2, <1>4, <2>1, <2>2 DEF SessionCounted
<1>8. QED
  BY <1>6, <1>7

\* A step that does not concern a session changes none of its counts.
LEMMA OthersCounted ==
  ASSUME ImportsKnown, NEW s \in Sessions, SessionCounted(s),
         CreatedFrom(s)' = CreatedFrom(s), rows'[s] = rows[s],
         commits'[s] = commits[s], confirmed'[s] = confirmed[s],
         status'[s] = status[s], counts'[s] = counts[s], failures' = failures,
         \A g \in Handlers : Committing(g)' /\ at'[g] = s =>
           /\ Committing(g) /\ at[g] = s
           /\ pc'[g] = pc[g] /\ todo'[g] = todo[g] /\ tally'[g] = tally[g]
  PROVE  SessionCounted(s)'
<1>1. Chosen(s)' = Chosen(s)
  BY DEF Chosen, Valid, RowNumbers
<1>2. \A g \in Handlers : Committing(g)' /\ at'[g] = s /\ TallyRight(g, s)
        => TallyRight(g, s)'
  BY <1>1 DEF TallyRight
<1>3. CountsRight(s) => CountsRight(s)'
  BY <1>1 DEF CountsRight
<1>4. QED
  BY <1>2, <1>3 DEF SessionCounted

\* The counts of every session stay right.
LEMMA CountsKept ==
  ASSUME ImportsKnown, [Next]_vars, NEW s \in Sessions, SessionCounted(s)
  PROVE  SessionCounted(s)'
<1>1. CASE UNCHANGED vars
  <2>1. UNCHANGED <<origin, rows, status, counts, pc, at, todo, tally, commits,
                    confirmed, failures>>
    BY <1>1 DEF vars, tables, locals, history, bounds
  <2>2. CreatedFrom(s)' = CreatedFrom(s)
    BY <2>1 DEF CreatedFrom, RowNumbers
  <2>3. QED
    BY <2>1, <2>2, OthersCounted DEF Committing
<1>2. ASSUME NEW t \in Sessions, NEW file \in Files, parse(t, file)
      PROVE  SessionCounted(s)'
  <2>1. /\ status[t] = "none"
        /\ status' = [status EXCEPT ![t] = "UPLOADED"]
        /\ \A u \in Sessions \ {t} : rows'[u] = rows[u] /\ status'[u] = status[u]
        /\ UNCHANGED <<origin, counts, pc, at, todo, tally, commits, confirmed,
                       failures>>
    BY <1>2 DEF parse, locals, history, bounds, ImportsKnown, TypeOK
  <2>2. CASE s = t
    BY <2>1, <2>2 DEF ImportsKnown, NothingBefore, SessionCounted
  <2>3. CASE s # t
    <3>1. CreatedFrom(s)' = CreatedFrom(s)
      BY <2>1, <2>3 DEF CreatedFrom, RowNumbers
    <3>2. QED
      BY <2>1, <2>3, <3>1, OthersCounted DEF Committing
  <2>4. QED
    BY <2>2, <2>3
<1>3. ASSUME NEW k \in Keys, CreateElsewhere(k)
      PROVE  SessionCounted(s)'
  <2>1. /\ origin[k] = None /\ origin' = [origin EXCEPT ![k] = Elsewhere]
        /\ UNCHANGED <<rows, status, counts, pc, at, todo, tally, commits,
                       confirmed, failures>>
    BY <1>3 DEF CreateElsewhere, Exists, locals, history, bounds
  <2>2. CreatedFrom(s)' = CreatedFrom(s)
    BY <2>1, CreatedStep, OriginDiffers
  <2>3. QED
    BY <2>1, <2>2, OthersCounted DEF Committing
<1>4. ASSUME NEW h \in Handlers, NEW t \in Sessions,
             \/ StartCancel(h, t)
             \/ s # t /\ \E ids \in SUBSET RowNumbers(t) : StartCommit(h, t, ids)
      PROVE  SessionCounted(s)'
  <2>1. /\ UNCHANGED <<origin, rows, status, counts, failures>>
        /\ at' = [at EXCEPT ![h] = t]
        /\ commits'[s] = commits[s] /\ confirmed'[s] = confirmed[s]
    BY <1>4 DEF StartCancel, StartCommit, tables, bounds, history, ImportsKnown,
                TypeOK
  <2>2. /\ \A g \in Handlers \ {h} : /\ pc'[g] = pc[g] /\ at'[g] = at[g]
                                    /\ todo'[g] = todo[g] /\ tally'[g] = tally[g]
        /\ at'[h] = t
        /\ s = t => ~ Committing(h)'
    BY <1>4 DEF StartCancel, StartCommit, Committing, ImportsKnown, TypeOK
  <2>3. CreatedFrom(s)' = CreatedFrom(s)
    BY <2>1 DEF CreatedFrom, RowNumbers
  <2>4. \A g \in Handlers : Committing(g)' /\ at'[g] = s => g # h
    BY <2>2
  <2>5. QED
    BY <2>1, <2>2, <2>3, <2>4, OthersCounted DEF Committing
<1>5. ASSUME NEW h \in Handlers, NEW t \in Sessions,
             NEW ids \in SUBSET RowNumbers(t), StartCommit(h, t, ids)
      PROVE  SessionCounted(s)'
  <2>1. CASE s = t
    BY <1>5, <2>1, FirstCommitCounted
  <2>2. CASE s # t
    BY <1>4, <1>5, <2>2
  <2>3. QED
    BY <2>1, <2>2
<1>6. ASSUME NEW h \in Handlers, HandlerStep(h) \/ RowFails(h) \/ Crash(h)
      PROVE  SessionCounted(s)'
  BY <1>6, CreateCounted, RowDoneCounted, EndCounted DEF HandlerStep, RowDone
<1>7. QED
  BY <1>1, <1>2, <1>3, <1>4, <1>5, <1>6 DEF Next

\* For any files, sessions and requests: what a session shows is well-formed, and
\* if one request committed it, its counts are right but for rows whose record
\* failed.
THEOREM ImportsCorrect == Spec => []ImportsInv
<1> DEFINE Counted == \A s \in Sessions : SessionCounted(s)
<1>1. Init => ImportsKnown /\ Counted
  BY ImportsStart DEF Init, SessionCounted
<1>2. ImportsKnown /\ Counted /\ [Next]_vars => ImportsKnown' /\ Counted'
  <2> SUFFICES ASSUME ImportsKnown, Counted, [Next]_vars PROVE Counted'
    BY ImportsKept
  <2>1. \A s \in Sessions : SessionCounted(s)'
    BY CountsKept
  <2>2. QED
    BY <2>1
<1>3. ImportsKnown /\ Counted => ImportsInv
  <2> SUFFICES ASSUME ImportsKnown, Counted, NEW s \in Sessions,
                      status[s] = "COMMITTED", commits[s] = 1
               PROVE  CountsRight(s)
    BY DEF ImportsInv, ImportsKnown, CountsAddUp, CountsRight, Chosen
  <2>1. QED
    BY DEF SessionCounted
<1>4. QED
  <2> HIDE DEF Counted
  <2>1. QED
    BY <1>1, <1>2, <1>3, PTL DEF Spec

-----------------------------------------------------------------------------
(* Tenancies: the dates *)

\* The dates that follow from a date until one is after the day.
ClosedUntil(day) ==
  {S \in SUBSET Dates : \A d \in S : d <= day => addOneCycle[d] \in S}

From(d, day) == {e \in Dates : \A S \in ClosedUntil(day) : d \in S => e \in S}

After(d, day) == {e \in From(d, day) : e > day}

NextFrom(day) == [d \in Dates |-> CHOOSE e : e \in After(d, day)]

\* A date up to the last day is followed by a later one.
LEMMA CycleGoesOn ==
  ASSUME NEW day \in Days, NEW d \in Dates, d <= day
  PROVE  addOneCycle[d] \in Dates /\ addOneCycle[d] > d
BY TenanciesAssumption DEF Days, Dates

\* The first date after the day, among those that follow, is the same from a
\* date that is not after it and from the next.
LEMMA AfterNext ==
  ASSUME NEW day \in Days, NEW d \in Dates
  PROVE  IF d > day THEN After(d, day) = {d}
         ELSE After(d, day) = After(addOneCycle[d], day)
<1>0. day \in Nat /\ d \in Nat
  BY DEF Days, Dates
<1>1. CASE d > day
  <2>1. {d} \in ClosedUntil(day)
    BY <1>0, <1>1 DEF ClosedUntil
  <2>2. d \in From(d, day) /\ From(d, day) \subseteq {d}
    BY <2>1 DEF From
  <2>3. QED
    BY <1>1, <2>2 DEF After
<1>2. CASE ~ d > day
  <2> DEFINE n == addOneCycle[d]
  <2>1. d <= day /\ n \in Dates
    BY <1>0, <1>2, CycleGoesOn
  <2>2. From(n, day) \subseteq From(d, day)
    BY <2>1 DEF From, ClosedUntil
  <2>3. ASSUME NEW e \in From(d, day), e # d
        PROVE  e \in From(n, day)
    <3> SUFFICES ASSUME NEW S \in ClosedUntil(day), n \in S PROVE e \in S
      BY DEF From
    <3>1. S \cup {d} \in ClosedUntil(day)
      BY <2>1 DEF ClosedUntil
    <3>2. QED
      BY <2>3, <3>1 DEF From
  <2>4. After(d, day) = After(n, day)
    BY <1>2, <2>2, <2>3 DEF After
  <2>5. QED
    BY <1>2, <2>4
<1>3. QED
  BY <1>1, <1>2

IsNext(f, day) ==
  f = [d \in Dates |-> IF d > day THEN d ELSE f[addOneCycle[d]]]

\* Hence the function of computeNextPaymentDue exists.
LEMMA NextExists ==
  ASSUME NEW day \in Days
  PROVE  IsNext(NextFrom(day), day)
<1>1. ASSUME NEW d \in Dates
      PROVE  NextFrom(day)[d] = IF d > day THEN d
                                ELSE NextFrom(day)[addOneCycle[d]]
  <2>1. CASE d > day
    <3>1. After(d, day) = {d}
      BY <2>1, AfterNext
    <3>2. (CHOOSE e : e \in After(d, day)) = d
      BY <3>1
    <3>3. QED
      BY <2>1, <3>2 DEF NextFrom
  <2>2. CASE ~ d > day
    <3>1. d <= day
      BY <2>2 DEF Days, Dates
    <3>2. addOneCycle[d] \in Dates /\ After(d, day) = After(addOneCycle[d], day)
      BY <2>2, <3>1, AfterNext, CycleGoesOn
    <3>3. QED
      BY <2>2, <3>2 DEF NextFrom
  <2>3. QED
    BY <2>1, <2>2
<1>2. QED
  BY <1>1 DEF IsNext, NextFrom

NextOf(day) == CHOOSE f : IsNext(f, day)

\* computeNextPaymentDue takes a date that is after the day as it is, and looks
\* from any other to the next.
LEMMA NextStep ==
  ASSUME NEW day \in Days, NEW d \in Dates
  PROVE  computeNextPaymentDue(d, day) =
           IF d > day THEN d ELSE computeNextPaymentDue(addOneCycle[d], day)
<1>1. \A from : computeNextPaymentDue(from, day) = NextOf(day)[from]
  BY DEF computeNextPaymentDue, NextOf, IsNext
<1>2. IsNext(NextOf(day), day)
  BY NextExists DEF NextOf
<1>3. NextOf(day)[d] = IF d > day THEN d ELSE NextOf(day)[addOneCycle[d]]
  BY <1>2 DEF IsNext
<1>4. QED
  BY <1>1, <1>3

\* Some dates, if there are any, have a last one among them.
LEMMA LastOfDates ==
  ASSUME NEW S \in SUBSET Dates, S # {}
  PROVE  \E d \in S : \A e \in S : e <= d
<1> DEFINE Left == {LastDate - d : d \in S}
<1>1. \A d \in S : d \in Nat /\ LastDate - d \in Nat
  BY TenanciesAssumption DEF Dates
<1>2. Left \subseteq Nat /\ Left # {}
  BY <1>1
<1>3. PICK x \in Left : \A y \in Left : ~ (<<y, x>> \in OpToRel(<, Nat))
  BY <1>2, NatLessThanWellFounded, WFMin
<1>4. PICK d \in S : x = LastDate - d
  OBVIOUS
<1>5. ASSUME NEW e \in S
      PROVE  e <= d
  <2>1. LastDate - e \in Left
    OBVIOUS
  <2>2. ~ (LastDate - e < LastDate - d)
    BY <1>2, <1>3, <1>4, <2>1 DEF OpToRel
  <2>3. QED
    BY <1>1, <2>2, TenanciesAssumption
<1>6. QED
  BY <1>5

\* The next due date is a date, is after the day, and is not before the date it
\* is counted from.
LEMMA DueIsLater ==
  ASSUME NEW day \in Days, NEW d \in Dates
  PROVE  /\ computeNextPaymentDue(d, day) \in Dates
         /\ computeNextPaymentDue(d, day) > day
         /\ computeNextPaymentDue(d, day) >= d
<1> DEFINE Good(e) == /\ computeNextPaymentDue(e, day) \in Dates
                      /\ computeNextPaymentDue(e, day) > day
                      /\ computeNextPaymentDue(e, day) >= e
           Bad == {e \in Dates : ~ Good(e)}
<1>1. SUFFICES ASSUME Bad # {} PROVE FALSE
  OBVIOUS
<1>2. PICK e \in Bad : \A f \in Bad : f <= e
  BY <1>1, LastOfDates
<1>3. e \in Nat /\ day \in Nat /\ e \in Dates /\ Dates \subseteq Nat
  BY DEF Days, Dates
<1>4. CASE e > day
  <2>1. computeNextPaymentDue(e, day) = e
    BY <1>3, <1>4, NextStep
  <2>2. QED
    BY <1>3, <1>4, <2>1
<1>5. CASE e <= day
  <2>1. addOneCycle[e] \in Dates /\ addOneCycle[e] > e
    BY <1>3, <1>5, CycleGoesOn
  <2>2. computeNextPaymentDue(e, day) = computeNextPaymentDue(addOneCycle[e], day)
    BY <1>3, <1>5, NextStep
  <2>3. addOneCycle[e] \notin Bad
    <3>1. addOneCycle[e] \in Nat
      BY <2>1, TenanciesAssumption DEF Dates
    <3>2. ~ (addOneCycle[e] <= e)
      BY <1>3, <2>1, <3>1
    <3>3. QED
      BY <1>2, <3>2
  <2>4. Good(addOneCycle[e])
    BY <2>1, <2>3
  <2>5. computeNextPaymentDue(e, day) >= e
    <3>1. addOneCycle[e] \in Nat /\ computeNextPaymentDue(addOneCycle[e], day) \in Nat
      BY <2>1, <2>4, TenanciesAssumption DEF Dates
    <3>2. QED
      BY <1>3, <2>1, <2>2, <2>4, <3>1
  <2>6. QED
    BY <2>2, <2>4, <2>5
<1>6. QED
  BY <1>3, <1>4, <1>5

\* Counting on from the date that was due on an earlier day comes to the same
\* date as counting from the start.
LEMMA DueInTwoSteps ==
  ASSUME NEW day \in Days, NEW before \in 0 .. day, NEW d \in Dates
  PROVE  computeNextPaymentDue(computeNextPaymentDue(d, before), day)
           = computeNextPaymentDue(d, day)
<1> DEFINE Bad == {e \in Dates :
             computeNextPaymentDue(computeNextPaymentDue(e, before), day)
               # computeNextPaymentDue(e, day)}
<1>1. SUFFICES ASSUME Bad # {} PROVE FALSE
  OBVIOUS
<1>2. PICK e \in Bad : \A f \in Bad : f <= e
  BY <1>1, LastOfDates
<1>3. /\ e \in Nat /\ day \in Nat /\ before \in Days /\ before <= day
      /\ e \in Dates /\ Dates \subseteq Nat
  BY TenanciesAssumption DEF Days, Dates
<1>4. CASE e > before
  BY <1>3, <1>4, NextStep
<1>5. CASE e <= before
  <2>1. addOneCycle[e] \in Dates /\ addOneCycle[e] > e
    BY <1>3, <1>5, CycleGoesOn
  <2>2. computeNextPaymentDue(e, before)
          = computeNextPaymentDue(addOneCycle[e], before)
    BY <1>3, <1>5, NextStep
  <2>3. computeNextPaymentDue(e, day) = computeNextPaymentDue(addOneCycle[e], day)
    BY <1>3, <1>5, NextStep
  <2>4. addOneCycle[e] \notin Bad
    <3>1. addOneCycle[e] \in Nat
      BY <2>1, TenanciesAssumption DEF Dates
    <3>2. ~ (addOneCycle[e] <= e)
      BY <1>3, <2>1, <3>1
    <3>3. QED
      BY <1>2, <3>2
  <2>5. QED
    BY <2>1, <2>2, <2>3, <2>4
<1>6. QED
  BY <1>3, <1>4, <1>5

\* The later the day, the later the next due date.
LEMMA DueNoEarlier ==
  ASSUME NEW day \in Days, NEW before \in 0 .. day, NEW d \in Dates
  PROVE  computeNextPaymentDue(d, before) <= computeNextPaymentDue(d, day)
<1>1. before \in Days
  BY TenanciesAssumption DEF Days
<1>2. computeNextPaymentDue(d, before) \in Dates
  BY <1>1, DueIsLater
<1>3. QED
  BY <1>2, DueInTwoSteps, DueIsLater

-----------------------------------------------------------------------------
(* Tenancies: the schedule *)

\* The due date of a lease was, on some day up to this one, the next that
\* follows from its start.
OnSchedule(lease, day) ==
  lease.start # NoDate /\ lease.due # NoDate =>
    \E d \in 0 .. day : lease.due = computeNextPaymentDue(lease.start, d)

\* Cron runs and approvals have read leases that were on schedule, with the
\* start the lease has now; an approval holds a request that exists.
LeasesRead ==
  /\ \A c \in Crons : run[c].left # {} =>
       /\ run[c].seen \in [Tenancies -> Lease]
       /\ run[c].day <= today
       /\ \A t \in Tenancies : /\ OnSchedule(run[c].seen[t], today)
                               /\ run[c].seen[t].start = tenancy[t].start
  /\ \A a \in Admins : decides[a] # NoRequest =>
       /\ request[decides[a]] \in Extension
       /\ read[a] \in Lease
       /\ read[a].start = tenancy[request[decides[a]].tenancy].start

TenanciesKnown ==
  /\ TenancyTypeOK
  /\ \A t \in Tenancies : OnSchedule(tenancy[t], today)
  /\ LeasesRead
  /\ ExtensionKept

\* A lease that is on schedule has no due date that is too late.
LEMMA KnownIsInv == TenanciesKnown => TenanciesInv
<1> SUFFICES ASSUME TenanciesKnown, NEW t \in Tenancies,
                    tenancy[t].start # NoDate, tenancy[t].due # NoDate
             PROVE  tenancy[t].due <= computeNextPaymentDue(tenancy[t].start, today)
  BY DEF TenanciesInv, NoPaymentSkipped, TenanciesKnown
<1>1. tenancy[t].start \in Dates /\ today \in Days
  BY DEF TenanciesKnown, TenancyTypeOK, Lease
<1>2. PICK d \in 0 .. today :
           tenancy[t].due = computeNextPaymentDue(tenancy[t].start, d)
  BY DEF TenanciesKnown, OnSchedule
<1>3. QED
  BY <1>1, <1>2, DueNoEarlier

\* The status that follows from an end and a day is one of the three.
LEMMA StatusIsOne ==
  ASSUME NEW end \in Dates \cup {NoDate}, NEW day \in Days
  PROVE  computeLeaseStatus(end, day) \in {"ACTIVE", "ENDING_SOON", "EXPIRED"}
<1>1. CASE end = NoDate
  BY <1>1 DEF computeLeaseStatus
<1>2. CASE end # NoDate /\ end <= day
  BY <1>2 DEF computeLeaseStatus
<1>3. CASE end # NoDate /\ ~ end <= day /\ end > day /\ end <= day + EndingSoonDays
  BY <1>3 DEF computeLeaseStatus
<1>4. CASE end # NoDate /\ ~ end <= day /\ ~ (end > day /\ end <= day + EndingSoonDays)
  BY <1>4 DEF computeLeaseStatus
<1>5. QED
  BY <1>1, <1>2, <1>3, <1>4

\* The maintenance of a lease that is on schedule leaves it on schedule, even if
\* the run began on an earlier day.
LEMMA AdvancedIsOnSchedule ==
  ASSUME NEW now \in Days, NEW day \in 0 .. now, NEW lease \in Lease,
         OnSchedule(lease, now)
  PROVE  /\ Advanced(lease, day) \in Lease
         /\ Advanced(lease, day).start = lease.start
         /\ OnSchedule(Advanced(lease, day), now)
<1> DEFINE dueNow == IF lease.due = NoDate THEN lease.start ELSE lease.due
           due == IF lease.start # NoDate /\ dueNow <= day
                  THEN computeNextPaymentDue(dueNow, day) ELSE lease.due
           standing == computeLeaseStatus(lease.end, day)
<1>1. Advanced(lease, day) = [lease EXCEPT !.due = due, !.status = standing]
  BY DEF Advanced
<1>2. day \in Days /\ now \in Nat /\ day \in Nat
  BY TenanciesAssumption DEF Days
<1>3. standing \in {"ACTIVE", "ENDING_SOON", "EXPIRED"}
  BY <1>2, StatusIsOne DEF Lease
<1>4. /\ due \in Dates \cup {NoDate}
      /\ lease.start # NoDate /\ due # NoDate =>
           \E d \in 0 .. now : due = computeNextPaymentDue(lease.start, d)
  <2>1. CASE ~ (lease.start # NoDate /\ dueNow <= day)
    BY <2>1 DEF OnSchedule, Lease
  <2>2. CASE lease.start # NoDate /\ dueNow <= day /\ lease.due = NoDate
    <3>1. lease.start \in Dates /\ due = computeNextPaymentDue(lease.start, day)
      BY <2>2 DEF Lease
    <3>2. QED
      BY <1>2, <3>1, DueIsLater
  <2>3. CASE lease.start # NoDate /\ dueNow <= day /\ lease.due # NoDate
    <3>1. /\ lease.start \in Dates /\ lease.due \in Dates /\ lease.due <= day
          /\ due = computeNextPaymentDue(lease.due, day)
      BY <2>3 DEF Lease
    <3>2. PICK d \in 0 .. now : lease.due = computeNextPaymentDue(lease.start, d)
      BY <2>3 DEF OnSchedule
    <3>3. d \in Days /\ d \in Nat
      BY TenanciesAssumption DEF Days
    <3>4. lease.due > d
      BY <3>1, <3>2, <3>3, DueIsLater
    <3>5. d \in 0 .. day
      BY <1>2, <3>1, <3>3, <3>4 DEF Dates
    <3>6. due = computeNextPaymentDue(lease.start, day)
      BY <1>2, <3>1, <3>2, <3>5, DueInTwoSteps
    <3>7. QED
      BY <1>2, <3>1, <3>6, DueIsLater
  <2>4. QED
    BY <2>1, <2>2, <2>3
<1> HIDE DEF due, standing
<1>5. QED
  BY <1>1, <1>3, <1>4 DEF Lease, OnSchedule

\* An approval counts the due date from the start, which has not changed since
\* the approval read it.
LEMMA ExtendedIsOnSchedule ==
  ASSUME TenancyTypeOK, NEW lease \in Lease, NEW before \in Lease, NEW end \in Dates,
         before.start = lease.start, OnSchedule(lease, today)
  PROVE  /\ Extended(before, lease, end) \in Lease
         /\ Extended(before, lease, end).start = lease.start
         /\ Extended(before, lease, end).end = end
         /\ OnSchedule(Extended(before, lease, end), today)
<1> DEFINE due == IF before.start = NoDate THEN lease.due
                  ELSE computeNextPaymentDue(before.start, today)
           standing == IF before.status = "ENDING_SOON" THEN "ACTIVE"
                     ELSE before.status
<1>1. Extended(before, lease, end)
        = [lease EXCEPT !.end = end, !.status = standing, !.due = due]
  BY DEF Extended
<1>2. today \in Days /\ today \in 0 .. today
  BY TenanciesAssumption DEF TenancyTypeOK, Days
<1>3. standing \in {"ACTIVE", "ENDING_SOON", "EXPIRED"}
  BY DEF Lease
<1>4. /\ due \in Dates \cup {NoDate}
      /\ lease.start # NoDate =>
           due = computeNextPaymentDue(lease.start, today)
  <2>1. CASE lease.start = NoDate
    BY <2>1 DEF Lease
  <2>2. CASE lease.start # NoDate
    <3>1. lease.start \in Dates
      BY <2>2 DEF Lease
    <3>2. QED
      BY <1>2, <2>2, <3>1, DueIsLater
  <2>3. QED
    BY <2>1, <2>2
<1> HIDE DEF due, standing
<1>5. QED
  BY <1>1, <1>2, <1>3, <1>4 DEF Lease, OnSchedule

\* A lease that is on schedule remains so as days pass.
LEMMA ScheduleLasts ==
  ASSUME NEW day \in Days, NEW now \in Days, day <= now, NEW lease \in Lease,
         OnSchedule(lease, day)
  PROVE  OnSchedule(lease, now)
<1>1. \A d \in 0 .. day : d \in 0 .. now
  BY TenanciesAssumption DEF Days
<1>2. QED
  BY <1>1 DEF OnSchedule

\* Leases start without a due date.
LEMMA TenanciesStart == TenanciesInit => TenanciesKnown
<1> SUFFICES ASSUME TenanciesInit PROVE TenanciesKnown
  OBVIOUS
<1>1. tenancy \in [Tenancies -> Lease] /\ \A t \in Tenancies : tenancy[t].due = NoDate
  BY DEF TenanciesInit
<1>2. granted \in [Tenancies -> Dates \cup {NoDate}]
  BY <1>1 DEF TenanciesInit, Lease
<1>3. 0 \in Days
  BY TenanciesAssumption DEF Days
<1>4. run \in [Crons -> [day : Days, seen : {<<>>} \cup [Tenancies -> Lease],
                         left : SUBSET Tenancies]]
  BY <1>3 DEF TenanciesInit, Idle
<1>5. TenancyTypeOK
  BY <1>1, <1>2, <1>3, <1>4 DEF TenanciesInit, TenancyTypeOK
<1>6. LeasesRead
  BY DEF TenanciesInit, LeasesRead, Idle
<1>7. QED
  BY <1>1, <1>5, <1>6 DEF TenanciesInit, TenanciesKnown, OnSchedule, ExtensionKept

\* A day passes: every lease that was on schedule is still.
LEMMA DayKept == TenanciesKnown /\ DayPasses => TenanciesKnown'
<1> SUFFICES ASSUME TenanciesKnown, DayPasses PROVE TenanciesKnown'
  OBVIOUS
<1>1. today \in Days /\ today' \in Days /\ today <= today'
  BY TenanciesAssumption DEF TenanciesKnown, TenancyTypeOK, DayPasses, Days
<1>2. TenancyTypeOK'
  BY <1>1 DEF TenanciesKnown, TenancyTypeOK, DayPasses, adminVars
<1>3. \A lease \in Lease : OnSchedule(lease, today) => OnSchedule(lease, today')
  BY <1>1, ScheduleLasts
<1>4. \A t \in Tenancies : OnSchedule(tenancy'[t], today')
  BY <1>3 DEF TenanciesKnown, TenancyTypeOK, DayPasses
<1>5. LeasesRead'
  <2>1. ASSUME NEW c \in Crons, run'[c].left # {}
        PROVE  /\ run'[c].seen \in [Tenancies -> Lease]
               /\ run'[c].day <= today'
               /\ \A t \in Tenancies : /\ OnSchedule(run'[c].seen[t], today')
                                       /\ run'[c].seen[t].start = tenancy'[t].start
    <3>1. run[c].day \in Days
      BY DEF TenanciesKnown, TenancyTypeOK
    <3>2. /\ run[c].seen \in [Tenancies -> Lease]
          /\ run[c].day <= today
          /\ \A t \in Tenancies : /\ OnSchedule(run[c].seen[t], today)
                                  /\ run[c].seen[t].start = tenancy[t].start
      BY <2>1 DEF TenanciesKnown, LeasesRead, DayPasses
    <3>3. run[c].day <= today'
      BY <1>1, <3>1, <3>2, TenanciesAssumption DEF Days
    <3>4. QED
      BY <1>3, <3>2, <3>3 DEF DayPasses
  <2>2. \A a \in Admins : decides'[a] # NoRequest =>
          /\ request'[decides'[a]] \in Extension
          /\ read'[a] \in Lease
          /\ read'[a].start = tenancy'[request'[decides'[a]].tenancy].start
    BY DEF TenanciesKnown, LeasesRead, DayPasses, adminVars
  <2>3. QED
    BY <2>1, <2>2 DEF LeasesRead
<1>6. QED
  BY <1>2, <1>4, <1>5 DEF TenanciesKnown, ExtensionKept, DayPasses

\* A cron run begins with all leases as they are.
LEMMA CronStartKept ==
  ASSUME TenanciesKnown, NEW c \in Crons, runLeasesCron(c)
  PROVE  TenanciesKnown'
<1>1. today \in Days /\ today <= today
  BY TenanciesAssumption DEF TenanciesKnown, TenancyTypeOK, Days
<1>2. InCare \in SUBSET Tenancies
  BY DEF InCare
<1>3. run' \in [Crons -> [day : Days, seen : {<<>>} \cup [Tenancies -> Lease],
                          left : SUBSET Tenancies]]
  BY <1>1, <1>2 DEF TenanciesKnown, TenancyTypeOK, runLeasesCron
<1>4. TenancyTypeOK'
  BY <1>3 DEF TenanciesKnown, TenancyTypeOK, runLeasesCron, adminVars
<1>5. LeasesRead'
  <2>1. ASSUME NEW i \in Crons, run'[i].left # {}
        PROVE  /\ run'[i].seen \in [Tenancies -> Lease]
               /\ run'[i].day <= today'
               /\ \A t \in Tenancies : /\ OnSchedule(run'[i].seen[t], today')
                                       /\ run'[i].seen[t].start = tenancy'[t].start
    <3>1. CASE i = c
      <4>1. run'[i].day = today /\ run'[i].seen = tenancy
        BY <3>1 DEF TenanciesKnown, TenancyTypeOK, runLeasesCron
      <4>2. QED
        BY <1>1, <4>1 DEF TenanciesKnown, TenancyTypeOK, runLeasesCron
    <3>2. CASE i # c
      <4>1. run'[i] = run[i]
        BY <3>2 DEF TenanciesKnown, TenancyTypeOK, runLeasesCron
      <4>2. QED
        BY <2>1, <4>1 DEF TenanciesKnown, LeasesRead, runLeasesCron
    <3>3. QED
      BY <3>1, <3>2
  <2>2. \A a \in Admins : decides'[a] # NoRequest =>
          /\ request'[decides'[a]] \in Extension
          /\ read'[a] \in Lease
          /\ read'[a].start = tenancy'[request'[decides'[a]].tenancy].start
    BY DEF TenanciesKnown, LeasesRead, runLeasesCron, adminVars
  <2>3. QED
    BY <2>1, <2>2 DEF LeasesRead
<1>6. QED
  BY <1>4, <1>5 DEF TenanciesKnown, ExtensionKept, runLeasesCron

\* What the maintenance writes to a lease: status and due date, no more.
LEMMA MaintainEffect ==
  ASSUME TenanciesKnown, NEW c \in Crons, NEW t \in Tenancies, MaintainLease(c, t)
  PROVE  /\ tenancy' \in [Tenancies -> Lease]
         /\ \A u \in Tenancies : /\ tenancy'[u].start = tenancy[u].start
                                 /\ tenancy'[u].end = tenancy[u].end
                                 /\ OnSchedule(tenancy'[u], today)
<1> DEFINE lease == run[c].seen[t]
           new == Advanced(lease, run[c].day)
           due == IF new.due = NoDate THEN tenancy[t].due ELSE new.due
<1>1. /\ run[c].seen \in [Tenancies -> Lease] /\ run[c].day <= today
      /\ OnSchedule(lease, today) /\ lease.start = tenancy[t].start
  BY DEF MaintainLease, TenanciesKnown, LeasesRead
<1>2. lease \in Lease /\ today \in Days /\ run[c].day \in 0 .. today
  BY <1>1, TenanciesAssumption DEF TenanciesKnown, TenancyTypeOK, Days
<1>3. new \in Lease /\ new.start = tenancy[t].start /\ OnSchedule(new, today)
  BY <1>1, <1>2, AdvancedIsOnSchedule
<1>4. tenancy \in [Tenancies -> Lease] /\ \A u \in Tenancies : OnSchedule(tenancy[u], today)
  BY DEF TenanciesKnown, TenancyTypeOK
<1>5. tenancy' = Updated(t, lease, new)
  BY DEF MaintainLease
<1> HIDE DEF lease, new
<1>6. CASE new = lease
  BY <1>4, <1>5, <1>6 DEF Updated
<1>7. CASE new # lease
  <2>1. due \in Dates \cup {NoDate} /\ new.status \in {"ACTIVE", "ENDING_SOON", "EXPIRED"}
    BY <1>3, <1>4 DEF Lease
  <2>2. tenancy[t].start # NoDate /\ due # NoDate =>
          \E d \in 0 .. today : due = computeNextPaymentDue(tenancy[t].start, d)
    BY <1>3, <1>4 DEF OnSchedule
  <2> HIDE DEF due
  <2>3. tenancy' = [tenancy EXCEPT ![t] = [@ EXCEPT !.status = new.status, !.due = due]]
    BY <1>4, <1>5, <1>7 DEF Updated, due
  <2>4. tenancy'[t] = [tenancy[t] EXCEPT !.status = new.status, !.due = due]
    BY <1>4, <2>3
  <2>5. /\ tenancy'[t] \in Lease
        /\ tenancy'[t].start = tenancy[t].start /\ tenancy'[t].end = tenancy[t].end
        /\ tenancy'[t].due = due
    <3>1. PICK l \in Lease : l = tenancy[t]
      BY <1>4
    <3>2. PICK d \in Dates \cup {NoDate} : d = due
      BY <2>1
    <3>3. PICK w \in {"ACTIVE", "ENDING_SOON", "EXPIRED"} : w = new.status
      BY <2>1
    <3>4. PICK m : m = [l EXCEPT !.status = w, !.due = d]
      OBVIOUS
    <3>5. m \in Lease /\ m.start = l.start /\ m.end = l.end /\ m.due = d
      BY <3>4 DEF Lease
    <3>6. tenancy'[t] = m
      BY <2>4, <3>1, <3>2, <3>3, <3>4
    <3>7. QED
      BY <3>1, <3>2, <3>5, <3>6
  <2>6. OnSchedule(tenancy'[t], today)
    BY <2>2, <2>5 DEF OnSchedule
  <2>7. \A u \in Tenancies : u # t => tenancy'[u] = tenancy[u]
    BY <1>4, <2>3
  <2>8. tenancy' \in [Tenancies -> Lease]
    BY <1>4, <2>3, <2>5
  <2>9. QED
    BY <1>4, <2>5, <2>6, <2>7, <2>8
<1>8. QED
  BY <1>6, <1>7

\* A lease is maintained, from what the run read: the rows of leases that were
\* updated since keep what the run does not write.
LEMMA MaintainKept ==
  ASSUME TenanciesKnown, NEW c \in Crons, NEW t \in Tenancies, MaintainLease(c, t)
  PROVE  TenanciesKnown'
<1>1. /\ tenancy' \in [Tenancies -> Lease]
      /\ \A u \in Tenancies : /\ tenancy'[u].start = tenancy[u].start
                              /\ tenancy'[u].end = tenancy[u].end
                              /\ OnSchedule(tenancy'[u], today)
  BY MaintainEffect
<1>2. today' = today /\ UNCHANGED <<request, decides, read, granted>>
  BY DEF MaintainLease, adminVars
<1>3. /\ run' = [run EXCEPT ![c] = IF run[c].left = {t} THEN Idle
                                   ELSE [run[c] EXCEPT !.left = @ \ {t}]]
      /\ run[c].left # {}
  BY DEF MaintainLease
<1>4. run \in [Crons -> [day : Days, seen : {<<>>} \cup [Tenancies -> Lease],
                         left : SUBSET Tenancies]]
  BY DEF TenanciesKnown, TenancyTypeOK
<1>5. /\ \A i \in Crons : i # c => run'[i] = run[i]
      /\ \/ run'[c] = Idle
         \/ run'[c] = [run[c] EXCEPT !.left = @ \ {t}]
  <2>1. CASE run[c].left = {t}
    BY <1>3, <1>4, <2>1
  <2>2. CASE run[c].left # {t}
    <3>1. PICK x : x = IF run[c].left = {t} THEN Idle
                       ELSE [run[c] EXCEPT !.left = @ \ {t}]
      OBVIOUS
    <3>2. run' = [run EXCEPT ![c] = x]
      BY <1>3, <3>1
    <3>3. QED
      BY <1>4, <2>2, <3>1, <3>2
  <2>3. QED
    BY <2>1, <2>2
<1>6. TenancyTypeOK'
  <2>1. 0 \in Days
    BY TenanciesAssumption DEF Days
  <2>2. run'[c] \in [day : Days, seen : {<<>>} \cup [Tenancies -> Lease],
                     left : SUBSET Tenancies]
    <3>1. CASE run'[c] = Idle
      BY <2>1, <3>1 DEF Idle
    <3>2. CASE run'[c] = [run[c] EXCEPT !.left = @ \ {t}]
      BY <1>4, <3>2
    <3>3. QED
      BY <1>5, <3>1, <3>2
  <2>3. run' \in [Crons -> [day : Days, seen : {<<>>} \cup [Tenancies -> Lease],
                            left : SUBSET Tenancies]]
    BY <1>3, <1>4, <2>2
  <2>4. QED
    BY <1>1, <1>2, <2>3 DEF TenanciesKnown, TenancyTypeOK
<1>7. LeasesRead'
  <2>1. ASSUME NEW i \in Crons, run'[i].left # {}
        PROVE  /\ run'[i].seen \in [Tenancies -> Lease]
               /\ run'[i].day <= today'
               /\ \A u \in Tenancies : /\ OnSchedule(run'[i].seen[u], today')
                                       /\ run'[i].seen[u].start = tenancy'[u].start
    <3>1. run'[i].seen = run[i].seen /\ run'[i].day = run[i].day /\ run[i].left # {}
      BY <1>3, <1>4, <1>5, <2>1 DEF Idle
    <3>2. /\ run[i].seen \in [Tenancies -> Lease]
          /\ run[i].day <= today
          /\ \A u \in Tenancies : /\ OnSchedule(run[i].seen[u], today)
                                  /\ run[i].seen[u].start = tenancy[u].start
      BY <3>1 DEF TenanciesKnown, LeasesRead
    <3>3. QED
      BY <1>1, <1>2, <3>1, <3>2
  <2>2. ASSUME NEW a \in Admins, decides'[a] # NoRequest
        PROVE  /\ request'[decides'[a]] \in Extension
               /\ read'[a] \in Lease
               /\ read'[a].start = tenancy'[request'[decides'[a]].tenancy].start
    <3>1. /\ request[decides[a]] \in Extension
          /\ read[a] \in Lease
          /\ read[a].start = tenancy[request[decides[a]].tenancy].start
      BY <1>2, <2>2 DEF TenanciesKnown, LeasesRead
    <3>2. request[decides[a]].tenancy \in Tenancies
      BY <3>1 DEF Extension
    <3>3. QED
      BY <1>1, <1>2, <3>1, <3>2
  <2>3. QED
    BY <2>1, <2>2 DEF LeasesRead
<1>8. QED
  BY <1>1, <1>2, <1>6, <1>7 DEF TenanciesKnown, ExtensionKept

\* A cron run that fails has updated what it has updated.
LEMMA CronFailsKept ==
  ASSUME TenanciesKnown, NEW c \in Crons, CronFails(c)
  PROVE  TenanciesKnown'
<1>1. 0 \in Days
  BY TenanciesAssumption DEF Days
<1>2. TenancyTypeOK'
  BY <1>1 DEF TenanciesKnown, TenancyTypeOK, CronFails, Idle, adminVars
<1>3. \A i \in Crons : run'[i].left # {} => run'[i] = run[i]
  BY DEF TenanciesKnown, TenancyTypeOK, CronFails, Idle
<1>4. LeasesRead'
  BY <1>3 DEF TenanciesKnown, LeasesRead, CronFails, adminVars
<1>5. QED
  BY <1>2, <1>4 DEF TenanciesKnown, ExtensionKept, CronFails

\* A request that is stored, or declined, is not one that is being approved.
LEMMA RequestKept ==
  ASSUME TenanciesKnown, NEW r \in Requests,
         NEW x \in Extension, request' = [request EXCEPT ![r] = x],
         \A a \in Admins : decides[a] # r,
         UNCHANGED <<today, tenancy, adminVars, run, granted>>
  PROVE  TenanciesKnown'
<1>1. TenancyTypeOK'
  BY DEF TenanciesKnown, TenancyTypeOK, adminVars
<1>2. \A a \in Admins : decides'[a] # NoRequest =>
        /\ request'[decides'[a]] \in Extension
        /\ read'[a] \in Lease
        /\ read'[a].start = tenancy'[request'[decides'[a]].tenancy].start
  <2> SUFFICES ASSUME NEW a \in Admins, decides[a] # NoRequest
               PROVE  /\ request'[decides[a]] \in Extension
                      /\ read[a] \in Lease
                      /\ read[a].start = tenancy[request'[decides[a]].tenancy].start
    BY DEF adminVars
  <2>1. request'[decides[a]] = request[decides[a]]
    BY DEF TenanciesKnown, TenancyTypeOK
  <2>2. QED
    BY <2>1 DEF TenanciesKnown, LeasesRead
<1>3. LeasesRead'
  BY <1>2 DEF TenanciesKnown, LeasesRead
<1>4. QED
  BY <1>1, <1>3 DEF TenanciesKnown, ExtensionKept

\* An approval has read the lease, or has given up.
LEMMA ApproveBeginKept ==
  ASSUME TenanciesKnown, NEW a \in Admins, NEW r \in Requests, ApproveBegin(a, r)
  PROVE  TenanciesKnown'
<1>1. request[r] \in Extension
  BY DEF TenanciesKnown, TenancyTypeOK, ApproveBegin, NoExtension
<1>2. request[r].tenancy \in Tenancies /\ tenancy[request[r].tenancy] \in Lease
  BY <1>1 DEF TenanciesKnown, TenancyTypeOK, Extension
<1>3. /\ decides' \in [Admins -> Requests \cup {NoRequest}]
      /\ read' \in [Admins -> {NoRequest} \cup Lease]
  BY <1>2 DEF TenanciesKnown, TenancyTypeOK, ApproveBegin
<1>4. TenancyTypeOK'
  BY <1>3 DEF TenanciesKnown, TenancyTypeOK, ApproveBegin
<1>5. \A i \in Admins : decides'[i] # NoRequest =>
        /\ request'[decides'[i]] \in Extension
        /\ read'[i] \in Lease
        /\ read'[i].start = tenancy'[request'[decides'[i]].tenancy].start
  <2> SUFFICES ASSUME NEW i \in Admins, decides'[i] # NoRequest
               PROVE  /\ request[decides'[i]] \in Extension
                      /\ read'[i] \in Lease
                      /\ read'[i].start = tenancy[request[decides'[i]].tenancy].start
    BY DEF ApproveBegin
  <2>1. CASE i = a
    <3>1. decides'[i] = r /\ read'[i] = tenancy[request[r].tenancy]
      BY <2>1 DEF TenanciesKnown, TenancyTypeOK, ApproveBegin
    <3>2. QED
      BY <1>1, <1>2, <3>1
  <2>2. CASE i # a
    <3>1. decides'[i] = decides[i] /\ read'[i] = read[i]
      BY <2>2 DEF TenanciesKnown, TenancyTypeOK, ApproveBegin
    <3>2. QED
      BY <3>1 DEF TenanciesKnown, LeasesRead
  <2>3. QED
    BY <2>1, <2>2
<1>6. LeasesRead'
  BY <1>5 DEF TenanciesKnown, LeasesRead, ApproveBegin
<1>7. QED
  BY <1>4, <1>6 DEF TenanciesKnown, ExtensionKept, ApproveBegin

\* An approval that is rolled back has changed nothing.
LEMMA RollbackKept ==
  ASSUME TenanciesKnown, NEW a \in Admins, ApproveRollback(a)
  PROVE  TenanciesKnown'
<1>1. TenancyTypeOK'
  BY DEF TenanciesKnown, TenancyTypeOK, ApproveRollback, Release
<1>2. \A i \in Admins : decides'[i] # NoRequest =>
        decides'[i] = decides[i] /\ read'[i] = read[i]
  BY DEF TenanciesKnown, TenancyTypeOK, ApproveRollback, Release
<1>3. LeasesRead'
  BY <1>2 DEF TenanciesKnown, LeasesRead, ApproveRollback
<1>4. QED
  BY <1>1, <1>3 DEF TenanciesKnown, ExtensionKept, ApproveRollback

\* An approval extends the lease as it is now.
LEMMA CommitKept ==
  ASSUME TenanciesKnown, NEW a \in Admins, ApproveCommit(a)
  PROVE  TenanciesKnown'
<1> DEFINE r == decides[a]
<1>1. /\ r \in Requests /\ r # NoRequest /\ request[r] \in Extension
      /\ read[a] \in Lease /\ read[a].start = tenancy[request[r].tenancy].start
  BY DEF TenanciesKnown, TenancyTypeOK, LeasesRead, ApproveCommit
<1>2. PICK t \in Tenancies, end \in Dates : t = request[r].tenancy /\ end = request[r].end
  BY <1>1 DEF Extension
<1>3. PICK x : x = [request[r] EXCEPT !.status = "APPROVED"]
  OBVIOUS
<1>4. x \in Extension /\ x.tenancy = t
  BY <1>1, <1>2, <1>3 DEF Extension
<1>5. /\ request' = [request EXCEPT ![r] = x]
      /\ tenancy' = [tenancy EXCEPT ![t] = Extended(read[a], tenancy[t], end)]
      /\ granted' = [granted EXCEPT ![t] = end]
      /\ decides' = [decides EXCEPT ![a] = NoRequest]
      /\ read' = [read EXCEPT ![a] = NoRequest]
      /\ today' = today /\ run' = run
  BY <1>2, <1>3 DEF ApproveCommit, Release
<1>6. tenancy \in [Tenancies -> Lease] /\ \A u \in Tenancies : OnSchedule(tenancy[u], today)
  BY DEF TenanciesKnown, TenancyTypeOK
<1>7. PICK lease : lease = Extended(read[a], tenancy[t], end)
  OBVIOUS
<1>8. /\ lease \in Lease /\ lease.start = tenancy[t].start
      /\ lease.end = end /\ OnSchedule(lease, today)
  BY <1>1, <1>2, <1>6, <1>7, ExtendedIsOnSchedule DEF TenanciesKnown
<1>9. /\ tenancy' \in [Tenancies -> Lease]
      /\ \A u \in Tenancies : /\ OnSchedule(tenancy'[u], today)
                              /\ tenancy'[u].start = tenancy[u].start
  BY <1>5, <1>6, <1>7, <1>8
<1>10. TenancyTypeOK'
  <2>1. request' \in [Requests -> {NoExtension} \cup Extension]
    BY <1>1, <1>4, <1>5 DEF TenanciesKnown, TenancyTypeOK
  <2>2. granted' \in [Tenancies -> Dates \cup {NoDate}]
    BY <1>2, <1>5 DEF TenanciesKnown, TenancyTypeOK
  <2>3. /\ decides' \in [Admins -> Requests \cup {NoRequest}]
        /\ read' \in [Admins -> {NoRequest} \cup Lease]
    BY <1>5 DEF TenanciesKnown, TenancyTypeOK
  <2>4. QED
    BY <1>5, <1>9, <2>1, <2>2, <2>3 DEF TenanciesKnown, TenancyTypeOK
<1>11. ExtensionKept'
  <2>1. \A u \in Tenancies : tenancy'[u].end = granted'[u]
    BY <1>2, <1>5, <1>6, <1>7, <1>8 DEF TenanciesKnown, TenancyTypeOK, ExtensionKept
  <2>2. QED
    BY <2>1 DEF ExtensionKept
<1>12. LeasesRead'
  <2>1. ASSUME NEW c \in Crons, run'[c].left # {}
        PROVE  /\ run'[c].seen \in [Tenancies -> Lease]
               /\ run'[c].day <= today'
               /\ \A u \in Tenancies : /\ OnSchedule(run'[c].seen[u], today')
                                       /\ run'[c].seen[u].start = tenancy'[u].start
    BY <1>5, <1>9, <2>1 DEF TenanciesKnown, LeasesRead
  <2>2. ASSUME NEW i \in Admins, decides'[i] # NoRequest
        PROVE  /\ request'[decides'[i]] \in Extension
               /\ read'[i] \in Lease
               /\ read'[i].start = tenancy'[request'[decides'[i]].tenancy].start
    <3>1. i # a /\ decides'[i] = decides[i] /\ read'[i] = read[i]
      BY <1>5, <2>2 DEF TenanciesKnown, TenancyTypeOK
    <3>2. /\ request[decides[i]] \in Extension
          /\ read[i] \in Lease
          /\ read[i].start = tenancy[request[decides[i]].tenancy].start
      BY <2>2, <3>1 DEF TenanciesKnown, LeasesRead
    <3>3. decides[i] \in Requests
      BY <2>2, <3>1 DEF TenanciesKnown, TenancyTypeOK
    <3>4. request'[decides[i]] \in Extension
          /\ request'[decides[i]].tenancy = request[decides[i]].tenancy
      BY <1>1, <1>2, <1>4, <1>5, <3>2, <3>3 DEF TenanciesKnown, TenancyTypeOK
    <3>5. request[decides[i]].tenancy \in Tenancies
      BY <3>2 DEF Extension
    <3>6. QED
      BY <1>9, <3>1, <3>2, <3>4, <3>5
  <2>3. QED
    BY <2>1, <2>2 DEF LeasesRead
<1>13. QED
  BY <1>5, <1>9, <1>10, <1>11, <1>12 DEF TenanciesKnown

\* Every step keeps the leases on schedule.
LEMMA TenanciesKept == TenanciesKnown /\ [TenanciesNext]_tenancyVars => TenanciesKnown'
<1> SUFFICES ASSUME TenanciesKnown, [TenanciesNext]_tenancyVars PROVE TenanciesKnown'
  OBVIOUS
<1>1. CASE UNCHANGED tenancyVars
  BY <1>1 DEF TenanciesKnown, TenancyTypeOK, LeasesRead, ExtensionKept, tenancyVars
<1>2. CASE DayPasses
  BY <1>2, DayKept
<1>3. ASSUME NEW c \in Crons, runLeasesCron(c) PROVE TenanciesKnown'
  BY <1>3, CronStartKept
<1>4. ASSUME NEW c \in Crons, CronFails(c) PROVE TenanciesKnown'
  BY <1>4, CronFailsKept
<1>5. ASSUME NEW c \in Crons, NEW t \in Tenancies, MaintainLease(c, t)
      PROVE  TenanciesKnown'
  BY <1>5, MaintainKept
<1>6. ASSUME NEW r \in Requests, NEW t \in Tenancies, NEW end \in Dates,
             requestExtension(r, t, end)
      PROVE  TenanciesKnown'
  <2>1. [tenancy |-> t, end |-> end, status |-> "PENDING"] \in Extension
    BY DEF Extension
  <2>2. \A a \in Admins : decides[a] # r
    <3> SUFFICES ASSUME NEW a \in Admins, decides[a] = r PROVE FALSE
      OBVIOUS
    <3>1. request[r] \in Extension
      BY TenanciesAssumption DEF TenanciesKnown, LeasesRead
    <3>2. request[r].status = "none"
      BY <1>6 DEF requestExtension, NoExtension
    <3>3. QED
      BY <3>1, <3>2 DEF Extension
  <2>3. QED
    BY <1>6, <2>1, <2>2, RequestKept DEF requestExtension
<1>7. ASSUME NEW r \in Requests, Decline(r) PROVE TenanciesKnown'
  <2>1. request[r] \in Extension
    BY <1>7 DEF TenanciesKnown, TenancyTypeOK, Decline, NoExtension
  <2>2. PICK x : x = [request[r] EXCEPT !.status = "DECLINED"]
    OBVIOUS
  <2>3. x \in Extension
    BY <2>1, <2>2 DEF Extension
  <2>4. request' = [request EXCEPT ![r] = x]
    BY <1>7, <2>2 DEF Decline
  <2>5. QED
    BY <1>7, <2>3, <2>4, RequestKept DEF Decline, Held
<1>8. ASSUME NEW a \in Admins, NEW r \in Requests, ApproveBegin(a, r)
      PROVE  TenanciesKnown'
  BY <1>8, ApproveBeginKept
<1>9. ASSUME NEW a \in Admins, ApproveCommit(a) PROVE TenanciesKnown'
  BY <1>9, CommitKept
<1>10. ASSUME NEW a \in Admins, ApproveRollback(a) PROVE TenanciesKnown'
  BY <1>10, RollbackKept
<1>11. QED
  BY <1>1, <1>2, <1>3, <1>4, <1>5, <1>6, <1>7, <1>8, <1>9, <1>10 DEF TenanciesNext

\* The leases are on schedule in every reachable state.
LEMMA TenanciesAlways == TenanciesSpec => []TenanciesKnown
  BY TenanciesStart, TenanciesKept, PTL DEF TenanciesSpec

\* The due date the maintenance and the approvals write never skips a payment
\* (computeNextPaymentDue of src/lib/lease/cycle.ts), however many runs and
\* approvals overlap and whatever cycle the leases have.
THEOREM TenanciesCorrect == TenanciesSpec => []TenanciesInv
  BY TenanciesAlways, KnownIsInv, PTL

\* An extension that was approved is not undone by the maintenance, which reads
\* a lease and updates it later (runLeasesCron of src/cron/leases.ts).
THEOREM TenanciesKeepExtensions == TenanciesSpec => []ExtensionKept
<1>1. TenanciesKnown => ExtensionKept
  BY DEF TenanciesKnown
<1>2. QED
  BY <1>1, TenanciesAlways, PTL

=============================================================================
