---------------------------- MODULE LedgerProofs ----------------------------
(***************************************************************************)
(* Theorems about Ledger and Settlement for any wallets, clients,          *)
(* settlements, requests, schedules and lock keys.                         *)
(*                                                                         *)
(* The invariants do not hold inductively by themselves. What makes the    *)
(* checks of one client, of the funds and of the floor, survive the        *)
(* commits of the others is that two transactions never hold one key       *)
(* (Exclusive), and that a client about to post still holds the key of its *)
(* sender (Funded).                                                        *)
(*                                                                         *)
(* Settlement runs on the ledger, so that what is proved of Ledger holds   *)
(* of it. What makes an approval pay for one execution is the row lock:    *)
(* from the claim to the commit of an execution no other client can write  *)
(* the row, so that the row is still APPROVED, and its approval unused,    *)
(* when the payout commits (Claims and Unspent).                           *)
(*                                                                         *)
(* That the balances sum to zero, and that the burn wallet has received    *)
(* what the settlements were to pay, needs sums of finite functions: that  *)
(* they exist (PartSumsExist), and how they change with the function       *)
(* (SumChanges).                                                           *)
(***************************************************************************)
EXTENDS Settlement, FeeEngineProofs, FiniteSetTheorems, WellFoundedInduction

\* A client outside "idle" serves a request; once it has read the schedule its
\* split is the one of some schedule.
CallsServed ==
  \A c \in Clients :
    /\ pc[c] # "idle" => call[c] \in Requests
    /\ pc[c] \in {"wallets", "locking", "posting"} =>
         \E s \in Schedules : split[c] = FeeFor(call[c], s)

\* No two transactions hold the same advisory lock key.
Exclusive ==
  \A c, d \in Clients : c # d => held[c] \cap held[d] = {}

\* Before it posts, a client holds every key it needs, and the checks of a
\* guarded sender would still pass: it has the amount, down to the floor read.
Funded ==
  \A c \in Clients :
    pc[c] = "posting" =>
      /\ MissingKeys(c) = {}
      /\ call[c].from \in GuardedWallets => MayPost(c)

LedgerInv ==
  /\ LedgerTypeOK
  /\ CallsServed
  /\ Exclusive
  /\ Funded
  /\ NoOverdraft
  /\ ZeroSum

-----------------------------------------------------------------------------
(* Sums of finite functions *)

\* The element that a fold takes next.
Taken(T) == CHOOSE x \in T : TRUE

\* A function that sums up f over each of the sets in a collection, taking one
\* element after the other.
SumsUp(it, f, C) ==
  it = [T \in C |-> IF T = {} THEN 0 ELSE f[Taken(T)] + it[T \ {Taken(T)}]]

\* The function behind SumFunction.
PartSums(f) == CHOOSE it : SumsUp(it, f, SUBSET DOMAIN f)

\* SumFunction looks the whole domain up.
LEMMA SumIsPart ==
  ASSUME NEW f
  PROVE  SumFunction(f) = PartSums(f)[DOMAIN f]
BY DEF SumFunction, SumFunctionOnSet, FoldFunctionOnSet, MapThenFoldSet, SumsUp,
       PartSums, Taken

\* Of some finite sets there is one with the fewest elements.
LEMMA SmallestSet ==
  ASSUME NEW D, IsFiniteSet(D), NEW C \in SUBSET (SUBSET D), C # {}
  PROVE  \E T \in C : \A U \in C : Cardinality(T) <= Cardinality(U)
<1> DEFINE Sizes == {Cardinality(T) : T \in C}
<1>1. \A T \in C : Cardinality(T) \in Nat
  BY FS_Subset, FS_CardinalityType
<1>2. Sizes \subseteq Nat /\ Sizes # {}
  BY <1>1
<1> HIDE DEF Sizes
<1>3. PICK n \in Sizes : \A m \in Sizes : ~ (<<m, n>> \in OpToRel(<, Nat))
  BY <1>2, NatLessThanWellFounded, WFMin
<1> USE DEF Sizes
<1>4. PICK T \in C : n = Cardinality(T)
  BY <1>3
<1>5. ASSUME NEW U \in C
      PROVE  Cardinality(T) <= Cardinality(U)
  <2>1. Cardinality(U) \in Sizes
    OBVIOUS
  <2>2. ~ (Cardinality(U) < Cardinality(T))
    BY <1>2, <1>3, <1>4, <2>1 DEF OpToRel
  <2>3. QED
    BY <1>1, <2>2
<1>6. QED
  BY <1>5

\* A set without the element taken has one element less.
LEMMA TakenLess ==
  ASSUME NEW D, IsFiniteSet(D), NEW T \in SUBSET D, T # {}
  PROVE  /\ Taken(T) \in T
         /\ T \ {Taken(T)} \in SUBSET D
         /\ Cardinality(T \ {Taken(T)}) \in Nat
         /\ Cardinality(T) = Cardinality(T \ {Taken(T)}) + 1
<1>1. Taken(T) \in T
  BY DEF Taken
<1>2. IsFiniteSet(T) /\ Cardinality(T) \in Nat
  BY FS_Subset, FS_CardinalityType
<1>3. /\ IsFiniteSet(T \ {Taken(T)})
      /\ Cardinality(T \ {Taken(T)}) = Cardinality(T) - 1
  BY <1>1, <1>2, FS_RemoveElement
<1>4. Cardinality(T \ {Taken(T)}) \in Nat
  BY <1>3, FS_CardinalityType
<1>5. QED
  BY <1>1, <1>2, <1>3, <1>4

\* A finite function can be summed up: a set of n elements needs the sums of
\* the sets of n - 1 elements only.
LEMMA PartSumsExist ==
  ASSUME NEW f, IsFiniteSet(DOMAIN f)
  PROVE  SumsUp(PartSums(f), f, SUBSET DOMAIN f)
<1> DEFINE UpTo(n) == {T \in SUBSET DOMAIN f : Cardinality(T) <= n}
           Missing == {n \in Nat : ~ \E it : SumsUp(it, f, UpTo(n))}
<1>1. \A T \in SUBSET DOMAIN f : Cardinality(T) \in Nat
  BY FS_Subset, FS_CardinalityType
<1>2. Missing = {}
  <2> SUFFICES ASSUME Missing # {} PROVE FALSE
    OBVIOUS
  <2>1. PICK n \in Missing : \A m \in Missing : ~ (<<m, n>> \in OpToRel(<, Nat))
    BY NatLessThanWellFounded, WFMin
  <2>2. n # 0
    <3>1. ASSUME NEW T \in UpTo(0)
          PROVE  T = {}
      <4>1. Cardinality(T) = 0
        BY <1>1
      <4>2. QED
        BY <4>1, FS_Subset, FS_EmptySet
    <3>2. SumsUp([T \in UpTo(0) |-> 0], f, UpTo(0))
      BY <3>1 DEF SumsUp
    <3>3. QED
      BY <3>2
  <2>3. n \in Nat /\ n - 1 \in Nat /\ n - 1 < n
    <3>1. n \in Nat
      BY <2>1
    <3>2. QED
      BY <2>2, <3>1
  <2>4. n - 1 \notin Missing
    BY <2>1, <2>3 DEF OpToRel
  <2>5. PICK it : SumsUp(it, f, UpTo(n - 1))
    BY <2>3, <2>4
  <2> DEFINE more == [T \in UpTo(n) |->
                        IF T = {} THEN 0
                        ELSE f[Taken(T)] + it[T \ {Taken(T)}]]
  <2>6. \A T \in UpTo(n) : T # {} => T \ {Taken(T)} \in UpTo(n - 1)
    BY <1>1, <2>3, TakenLess
  <2>7. UpTo(n - 1) \subseteq UpTo(n)
    BY <1>1, <2>3
  <2>8. \A T \in UpTo(n - 1) : more[T] = it[T]
    BY <2>5, <2>7 DEF SumsUp
  <2>9. \A T \in UpTo(n) :
          more[T] = IF T = {} THEN 0 ELSE f[Taken(T)] + more[T \ {Taken(T)}]
    BY <2>6, <2>8
  <2>10. SumsUp(more, f, UpTo(n))
    BY <2>9 DEF SumsUp
  <2>11. QED
    BY <2>10
<1>3. Cardinality(DOMAIN f) \in Nat
  BY <1>1
<1>4. UpTo(Cardinality(DOMAIN f)) = SUBSET DOMAIN f
  BY FS_Subset
<1>5. \E it : SumsUp(it, f, SUBSET DOMAIN f)
  BY <1>2, <1>3, <1>4
<1>6. QED
  BY <1>5 DEF PartSums

\* So the sum over a set is a number taken plus the sum over the others.
LEMMA PartSumsStep ==
  ASSUME NEW f, IsFiniteSet(DOMAIN f), NEW T \in SUBSET DOMAIN f
  PROVE  PartSums(f)[T] =
           IF T = {} THEN 0 ELSE f[Taken(T)] + PartSums(f)[T \ {Taken(T)}]
BY PartSumsExist DEF SumsUp

\* When one of the numbers changes, their sum changes by as much.
LEMMA SumChanges ==
  ASSUME NEW D, IsFiniteSet(D), NEW f \in [D -> Int], NEW g \in [D -> Int],
         NEW x \in D, \A y \in D \ {x} : g[y] = f[y]
  PROVE  /\ SumFunction(f) \in Int
         /\ SumFunction(g) = SumFunction(f) + (g[x] - f[x])
<1> DEFINE F == PartSums(f)
           G == PartSums(g)
           Good(T) == /\ F[T] \in Int
                      /\ G[T] = IF x \in T THEN F[T] + (g[x] - f[x]) ELSE F[T]
           Bad == {T \in SUBSET D : ~ Good(T)}
<1>1. \A T \in SUBSET D :
        /\ F[T] = IF T = {} THEN 0 ELSE f[Taken(T)] + F[T \ {Taken(T)}]
        /\ G[T] = IF T = {} THEN 0 ELSE g[Taken(T)] + G[T \ {Taken(T)}]
  BY PartSumsStep
<1> HIDE DEF F, G
<1>2. Bad = {}
  <2> SUFFICES ASSUME Bad # {} PROVE FALSE
    OBVIOUS
  <2>1. PICK T \in Bad : \A U \in Bad : Cardinality(T) <= Cardinality(U)
    BY SmallestSet
  <2>2. T \in SUBSET D /\ T # {}
    <3>1. F[{}] = 0 /\ G[{}] = 0
      BY <1>1
    <3>2. Good({})
      BY <3>1
    <3>3. QED
      BY <2>1, <3>2
  <2>3. /\ Taken(T) \in T
        /\ T \ {Taken(T)} \in SUBSET D
        /\ Cardinality(T \ {Taken(T)}) \in Nat
        /\ Cardinality(T) = Cardinality(T \ {Taken(T)}) + 1
    BY <2>2, TakenLess
  <2>4. Good(T \ {Taken(T)})
    <3>1. ~ (Cardinality(T) <= Cardinality(T \ {Taken(T)}))
      BY <2>3
    <3>2. T \ {Taken(T)} \notin Bad
      <4> HIDE DEF Bad
      <4>1. QED
        BY <2>1, <3>1
    <3>3. QED
      BY <2>3, <3>2
  <2>5. /\ F[T] = f[Taken(T)] + F[T \ {Taken(T)}]
        /\ G[T] = g[Taken(T)] + G[T \ {Taken(T)}]
    BY <1>1, <2>2
  <2>6. /\ f[Taken(T)] \in Int
        /\ Taken(T) # x => g[Taken(T)] = f[Taken(T)]
        /\ f[x] \in Int /\ g[x] \in Int
    BY <2>3
  <2>7. Good(T)
    BY <2>3, <2>4, <2>5, <2>6
  <2>8. QED
    BY <2>7
<1>3. Good(D)
  BY <1>2
<1>4. QED
  BY <1>3, SumIsPart DEF F, G

\* Zeros sum up to zero.
LEMMA SumOfZeros ==
  ASSUME NEW D, IsFiniteSet(D)
  PROVE  SumFunction([y \in D |-> 0]) = 0
<1> DEFINE f == [y \in D |-> 0]
           F == PartSums(f)
           Bad == {T \in SUBSET D : F[T] # 0}
<1>1. \A T \in SUBSET D :
        F[T] = IF T = {} THEN 0 ELSE f[Taken(T)] + F[T \ {Taken(T)}]
  BY PartSumsStep
<1> HIDE DEF F
<1>2. Bad = {}
  <2> SUFFICES ASSUME Bad # {} PROVE FALSE
    OBVIOUS
  <2>1. PICK T \in Bad : \A U \in Bad : Cardinality(T) <= Cardinality(U)
    BY SmallestSet
  <2>2. T \in SUBSET D /\ T # {}
    BY <1>1, <2>1
  <2>3. /\ Taken(T) \in T
        /\ T \ {Taken(T)} \in SUBSET D
        /\ Cardinality(T \ {Taken(T)}) \in Nat
        /\ Cardinality(T) = Cardinality(T \ {Taken(T)}) + 1
    BY <2>2, TakenLess
  <2>4. F[T \ {Taken(T)}] = 0
    <3>1. ~ (Cardinality(T) <= Cardinality(T \ {Taken(T)}))
      BY <2>3
    <3>2. T \ {Taken(T)} \notin Bad
      <4> HIDE DEF Bad
      <4>1. QED
        BY <2>1, <3>1
    <3>3. QED
      BY <2>3, <3>2
  <2>5. F[T] = f[Taken(T)] + F[T \ {Taken(T)}]
    BY <1>1, <2>2
  <2>6. QED
    BY <2>3, <2>4, <2>5
<1>3. F[D] = 0
  BY <1>2
<1>4. QED
  BY <1>3, SumIsPart DEF F

-----------------------------------------------------------------------------
(* The entries *)

\* A split under any schedule shares out the amount and leaves no one a
\* negative part.
LEMMA FeeForOK ==
  ASSUME NEW r \in Requests, NEW s \in Schedules
  PROVE  /\ FeeFor(r, s) \in FeeSplit
         /\ FeeFor(r, s).net >= 0
         /\ FeeFor(r, s).net + totalFee(FeeFor(r, s)) = r.amount
<1>1. r \in TransferRequest /\ s \in [Types -> FeeRule]
  BY LedgerAssumption
<1>2. r.amount \in Nat /\ s[r.type] \in FeeRule
  BY <1>1 DEF TransferRequest
<1>3. QED
  BY <1>2, FeesAssumption, FeeSplitConserves DEF FeeFor

\* What a transfer does to the balance of a wallet.
LEMMA TransferEntries ==
  ASSUME NEW r \in Requests, NEW s \in FeeSplit, NEW w \in Wallets
  PROVE  /\ TransferCredit(w, r, s) \in Int
         /\ TransferDebit(w, r) \in Int
         /\ s.net >= 0 => TransferCredit(w, r, s) >= 0
         /\ w \in GuardedWallets =>
              TransferDebit(w, r) = IF w = r.from THEN r.amount ELSE 0
         /\ CreditTotal(r, s) = s.net + totalFee(s) + r.bonus
         /\ CreditTotal(r, s) \in Int
         /\ DebitTotal(r) = r.amount + r.bonus
         /\ DebitTotal(r) \in Int
<1>1. /\ r.amount \in Nat
      /\ r.bonus \in Nat
  BY LedgerAssumption DEF TransferRequest
<1>2. /\ s.net \in Int
      /\ s.community \in Nat
      /\ s.operations \in Nat
      /\ s.developer \in Nat
  BY DEF FeeSplit
<1>3. w \in GuardedWallets => w # "promotions"
  BY DEF GuardedWallets, BackingWallets
<1>4. QED
  BY <1>1, <1>2, <1>3
  DEF TransferCredit, TransferDebit, CreditTotal, DebitTotal, totalFee, On

-----------------------------------------------------------------------------
(* The sum of the balances *)

\* The balances g are the balances f after an entry of amount a on wallet x.
EntryPosted(f, g, x, a) ==
  /\ f \in [Wallets -> Int]
  /\ x \in Wallets
  /\ a \in Int
  /\ g = [w \in Wallets |-> f[w] + On(w, x, a)]

\* Their sums differ by a.
SumGrows(f, g, a) ==
  /\ SumFunction(f) \in Int
  /\ SumFunction(g) = SumFunction(f) + a

\* There are finitely many wallets.
LEMMA WalletsFinite == IsFiniteSet(Wallets)
<1>1. \A S, x : IsFiniteSet(S) => IsFiniteSet(S \cup {x})
  BY FS_AddElement
<1>2. SystemWallets =
        ((((((({} \cup {"treasury_reserve"}) \cup {"community_fund"})
           \cup {"operations_fund"}) \cup {"developer_share"})
           \cup {"settlement_burn"}) \cup {"fiat_settlement"})
           \cup {"promotions"})
  BY DEF SystemWallets
<1>3. IsFiniteSet(SystemWallets)
  BY <1>1, <1>2, FS_EmptySet
<1>4. QED
  BY <1>3, FS_Union, LedgerAssumption DEF Wallets

\* An entry adds its amount to the sum of the balances.
LEMMA EntryAddsUp ==
  ASSUME NEW f, NEW g, NEW x, NEW a, EntryPosted(f, g, x, a)
  PROVE  g \in [Wallets -> Int] /\ SumGrows(f, g, a)
<1>1. f \in [Wallets -> Int] /\ x \in Wallets /\ a \in Int
  BY DEF EntryPosted
<1>2. g \in [Wallets -> Int]
  BY DEF EntryPosted, On
<1>3. (\A w \in Wallets \ {x} : g[w] = f[w]) /\ g[x] = f[x] + a
  BY DEF EntryPosted, On
<1>4. /\ SumFunction(f) \in Int
      /\ SumFunction(g) = SumFunction(f) + (g[x] - f[x])
  BY <1>1, <1>2, <1>3, WalletsFinite, SumChanges
<1>5. SumFunction(g) = SumFunction(f) + a
  BY <1>1, <1>3, <1>4
<1>6. QED
  BY <1>2, <1>4, <1>5 DEF SumGrows

\* The entries of a transfer cancel: what its sender and a promotion pay is
\* what the recipient, the funds and the sender's bonus get.
LEMMA TransferCancels ==
  ASSUME NEW f \in [Wallets -> Int], NEW r \in Requests, NEW s \in FeeSplit,
         s.net + totalFee(s) = r.amount,
         NEW g, g = [w \in Wallets |-> f[w] + TransferCredit(w, r, s)
                                            - TransferDebit(w, r)]
  PROVE  SumFunction(g) = SumFunction(f)
<1>1. /\ r.from \in Wallets /\ r.to \in Wallets
      /\ r.amount \in Int /\ r.bonus \in Int
      /\ -r.amount \in Int /\ -r.bonus \in Int
  BY LedgerAssumption DEF TransferRequest
<1>2. /\ s.net \in Int /\ s.community \in Int
      /\ s.operations \in Int /\ s.developer \in Int
  BY DEF FeeSplit
<1>3. /\ "community_fund" \in Wallets /\ "operations_fund" \in Wallets
      /\ "developer_share" \in Wallets /\ "promotions" \in Wallets
  BY DEF Wallets, SystemWallets
<1> DEFINE Next(h, x, a) == [w \in Wallets |-> h[w] + On(w, x, a)]
<1>4. PICK f1 : f1 = Next(f, r.to, s.net)
  OBVIOUS
<1>5. EntryPosted(f, f1, r.to, s.net)
  BY <1>1, <1>2, <1>3, <1>4 DEF EntryPosted
<1>6. f1 \in [Wallets -> Int] /\ SumGrows(f, f1, s.net)
  BY <1>5, EntryAddsUp
<1>7. PICK f2 : f2 = Next(f1, "community_fund", s.community)
  OBVIOUS
<1>8. EntryPosted(f1, f2, "community_fund", s.community)
  BY <1>1, <1>2, <1>3, <1>6, <1>7 DEF EntryPosted
<1>9. f2 \in [Wallets -> Int] /\ SumGrows(f1, f2, s.community)
  BY <1>8, EntryAddsUp
<1>10. PICK f3 : f3 = Next(f2, "operations_fund", s.operations)
  OBVIOUS
<1>11. EntryPosted(f2, f3, "operations_fund", s.operations)
  BY <1>1, <1>2, <1>3, <1>9, <1>10 DEF EntryPosted
<1>12. f3 \in [Wallets -> Int] /\ SumGrows(f2, f3, s.operations)
  BY <1>11, EntryAddsUp
<1>13. PICK f4 : f4 = Next(f3, "developer_share", s.developer)
  OBVIOUS
<1>14. EntryPosted(f3, f4, "developer_share", s.developer)
  BY <1>1, <1>2, <1>3, <1>12, <1>13 DEF EntryPosted
<1>15. f4 \in [Wallets -> Int] /\ SumGrows(f3, f4, s.developer)
  BY <1>14, EntryAddsUp
<1>16. PICK f5 : f5 = Next(f4, r.from, r.bonus)
  OBVIOUS
<1>17. EntryPosted(f4, f5, r.from, r.bonus)
  BY <1>1, <1>2, <1>3, <1>15, <1>16 DEF EntryPosted
<1>18. f5 \in [Wallets -> Int] /\ SumGrows(f4, f5, r.bonus)
  BY <1>17, EntryAddsUp
<1>19. PICK f6 : f6 = Next(f5, r.from, -r.amount)
  OBVIOUS
<1>20. EntryPosted(f5, f6, r.from, -r.amount)
  BY <1>1, <1>2, <1>3, <1>18, <1>19 DEF EntryPosted
<1>21. f6 \in [Wallets -> Int] /\ SumGrows(f5, f6, -r.amount)
  BY <1>20, EntryAddsUp
<1>22. PICK f7 : f7 = Next(f6, "promotions", -r.bonus)
  OBVIOUS
<1>23. EntryPosted(f6, f7, "promotions", -r.bonus)
  BY <1>1, <1>2, <1>3, <1>21, <1>22 DEF EntryPosted
<1>24. f7 \in [Wallets -> Int] /\ SumGrows(f6, f7, -r.bonus)
  BY <1>23, EntryAddsUp
<1>25. \A w \in Wallets :
         f7[w] = f[w] + On(w, r.to, s.net) + On(w, "community_fund", s.community)
                   + On(w, "operations_fund", s.operations)
                   + On(w, "developer_share", s.developer)
                   + On(w, r.from, r.bonus) + On(w, r.from, -r.amount)
                   + On(w, "promotions", -r.bonus)
  BY <1>4, <1>7, <1>10, <1>13, <1>16, <1>19, <1>22
<1>26. \A w \in Wallets :
         f7[w] = f[w] + TransferCredit(w, r, s) - TransferDebit(w, r)
  BY <1>1, <1>2, <1>25 DEF TransferCredit, TransferDebit, On
<1>27. f7 = g
  BY <1>24, <1>26
<1>28. SumFunction(f7) = SumFunction(f)
  BY <1>1, <1>2, <1>6, <1>9, <1>12, <1>15, <1>18, <1>21, <1>24 DEF SumGrows, totalFee
<1>29. QED
  BY <1>27, <1>28

\* The entries of a deposit cancel, and so do those of a conversion of fiat.
LEMMA UnlockedCancels ==
  ASSUME NEW f \in [Wallets -> Int], NEW u \in Users,
         NEW a \in Nat, NEW b \in Nat, NEW g,
         \/ g = [w \in Wallets |-> f[w] + DepositDelta(w, u, a)]
         \/ g = [w \in Wallets |-> f[w] + ConversionDelta(w, u, a, b)]
  PROVE  SumFunction(g) = SumFunction(f)
<1>1. /\ u \in Wallets /\ "treasury_reserve" \in Wallets
      /\ "fiat_settlement" \in Wallets /\ "promotions" \in Wallets
  BY DEF Wallets, SystemWallets
<1>2. a \in Int /\ b \in Int /\ a + b \in Int /\ -a \in Int /\ -b \in Int
  OBVIOUS
<1> DEFINE Next(h, x, k) == [w \in Wallets |-> h[w] + On(w, x, k)]
<1>3. CASE g = [w \in Wallets |-> f[w] + DepositDelta(w, u, a)]
  <2>1. PICK f1 : f1 = Next(f, u, a)
    OBVIOUS
  <2>2. EntryPosted(f, f1, u, a)
    BY <1>1, <2>1 DEF EntryPosted
  <2>3. f1 \in [Wallets -> Int] /\ SumGrows(f, f1, a)
    BY <2>2, EntryAddsUp
  <2>4. g = Next(f1, "treasury_reserve", -a)
    BY <1>3, <2>1 DEF DepositDelta, On
  <2>5. EntryPosted(f1, g, "treasury_reserve", -a)
    BY <1>1, <1>2, <2>3, <2>4 DEF EntryPosted
  <2>6. SumGrows(f1, g, -a)
    BY <2>5, EntryAddsUp
  <2>7. QED
    BY <2>3, <2>6 DEF SumGrows
<1>4. CASE g = [w \in Wallets |-> f[w] + ConversionDelta(w, u, a, b)]
  <2>1. PICK f1 : f1 = Next(f, u, a + b)
    OBVIOUS
  <2>2. EntryPosted(f, f1, u, a + b)
    BY <1>1, <2>1 DEF EntryPosted
  <2>3. f1 \in [Wallets -> Int] /\ SumGrows(f, f1, a + b)
    BY <2>2, EntryAddsUp
  <2>4. PICK f2 : f2 = Next(f1, "fiat_settlement", -a)
    OBVIOUS
  <2>5. EntryPosted(f1, f2, "fiat_settlement", -a)
    BY <1>1, <1>2, <2>3, <2>4 DEF EntryPosted
  <2>6. f2 \in [Wallets -> Int] /\ SumGrows(f1, f2, -a)
    BY <2>5, EntryAddsUp
  <2>7. g = Next(f2, "promotions", -b)
    BY <1>4, <2>1, <2>4 DEF ConversionDelta, On
  <2>8. EntryPosted(f2, g, "promotions", -b)
    BY <1>1, <1>2, <2>6, <2>7 DEF EntryPosted
  <2>9. SumGrows(f2, g, -b)
    BY <2>8, EntryAddsUp
  <2>10. QED
    BY <2>3, <2>6, <2>9 DEF SumGrows
<1>5. QED
  BY <1>3, <1>4

-----------------------------------------------------------------------------

\* The empty ledger, without clients at work, has the invariant.
LEMMA InitEstablishes == LedgerInit => LedgerInv
<1> SUFFICES ASSUME LedgerInit PROVE LedgerInv
  OBVIOUS
<1>1. NoSplit \in FeeSplit
  BY DEF NoSplit, Split, FeeSplit
<1>2. LedgerTypeOK
  BY <1>1 DEF LedgerInit, LedgerTypeOK, NoFloor
<1>3. CallsServed /\ Exclusive /\ Funded /\ NoOverdraft /\ ZeroSum
  BY DEF LedgerInit, CallsServed, Exclusive, Funded, NoOverdraft, ZeroSum,
         GuardedWallets
<1>4. QED
  BY <1>2, <1>3 DEF LedgerInv

-----------------------------------------------------------------------------
(* Steps that leave the sums alone *)

\* The keys a client lacks depend on its own call, split and locks only.
LEMMA MissingKeysLocal ==
  ASSUME NEW c \in Clients,
         call'[c] = call[c], split'[c] = split[c], held'[c] = held[c]
  PROVE  MissingKeys(c)' = MissingKeys(c)
BY DEF MissingKeys, WalletsToLock

\* What let a transfer pass its checks lets it pass them later on, unless its
\* sender has paid something in between.
LEMMA ChecksStillPass ==
  ASSUME NEW c \in Clients, MayPost(c),
         call'[c] = call[c], split'[c] = split[c], seenFloor'[c] = seenFloor[c],
         call[c].amount \in Nat, seenFloor[c] \in Int,
         bal[call[c].from] \in Int, bal'[call[c].from] \in Int,
         bal'[call[c].from] >= bal[call[c].from]
  PROVE  MayPost(c)'
<1>1. /\ bal'[call'[c].from] >= call'[c].amount
      /\ split'[c].net + totalFee(split'[c]) = call'[c].amount
  BY DEF MayPost
<1>2. seenFloor'[c] # NoFloor =>
        bal'[call'[c].from] - call'[c].amount >= seenFloor'[c]
  BY DEF MayPost, NoFloor
<1>3. QED
  BY <1>1, <1>2 DEF MayPost

\* The checks of a client about to post are about numbers.
LEMMA ChecksTyped ==
  ASSUME LedgerTypeOK, CallsServed, NEW c \in Clients, pc[c] = "posting"
  PROVE  /\ call[c].from \in Wallets
         /\ call[c].amount \in Nat
         /\ seenFloor[c] \in Int
         /\ bal[call[c].from] \in Int
<1>1. call[c] \in TransferRequest
  BY LedgerAssumption DEF CallsServed
<1>2. QED
  BY <1>1 DEF LedgerTypeOK, TransferRequest, NoFloor

\* A client's end, by commit or rollback, gives up its locks and disturbs no
\* other client.
LEMMA EndTransferKeeps ==
  ASSUME LedgerInv, NEW c \in Clients, EndTransfer(c),
         bal' \in [Wallets -> Int], credits' \in Int, debits' \in Int
  PROVE  /\ LedgerTypeOK'
         /\ CallsServed'
         /\ Exclusive'
         /\ \A d \in Clients : pc'[d] = "posting" =>
              /\ d # c /\ pc[d] = "posting"
              /\ MissingKeys(d)' = MissingKeys(d)
              /\ call'[d] = call[d] /\ split'[d] = split[d]
              /\ seenFloor'[d] = seenFloor[d]
<1> USE DEF LedgerInv, EndTransfer
<1>1. NoSplit \in FeeSplit
  BY DEF NoSplit, Split, FeeSplit
<1>2. LedgerTypeOK'
  BY <1>1 DEF LedgerTypeOK, NoFloor
<1>3. \A d \in Clients \ {c} :
        /\ pc'[d] = pc[d] /\ call'[d] = call[d] /\ split'[d] = split[d]
        /\ seenFloor'[d] = seenFloor[d] /\ held'[d] = held[d]
  BY DEF LedgerTypeOK
<1>4. pc'[c] = "idle" /\ held'[c] = {}
  BY DEF LedgerTypeOK
<1>5. CallsServed'
  BY <1>3, <1>4 DEF CallsServed
<1>6. Exclusive'
  BY <1>3, <1>4 DEF Exclusive
<1>7. \A d \in Clients \ {c} : MissingKeys(d)' = MissingKeys(d)
  BY <1>3, MissingKeysLocal
<1>8. QED
  BY <1>2, <1>3, <1>4, <1>5, <1>6, <1>7

\* Starting and reading take no key and post nothing.
LEMMA ReadsPreserve ==
  ASSUME LedgerInv, NEW c \in Clients,
         \/ \E r \in Requests : StartTransfer(c, r)
         \/ ReadFees(c)
         \/ ReadWallets(c)
         \/ CheckFunds(c)
  PROVE  LedgerInv'
<1> USE DEF LedgerInv
<1>1. UNCHANGED <<sums, held>> /\ NoOverdraft' /\ ZeroSum'
  BY DEF StartTransfer, ReadFees, ReadWallets, CheckFunds, sums, NoOverdraft,
         ZeroSum
<1>2. Exclusive'
  BY <1>1 DEF Exclusive
<1>3. \A d \in Clients \ {c} :
        /\ pc'[d] = pc[d] /\ call'[d] = call[d] /\ split'[d] = split[d]
        /\ seenFloor'[d] = seenFloor[d]
  BY DEF StartTransfer, ReadFees, ReadWallets, CheckFunds, LedgerTypeOK
<1>4. \A d \in Clients \ {c} :
        /\ MissingKeys(d)' = MissingKeys(d)
        /\ MayPost(d)' = MayPost(d)
  <2>1. \A d \in Clients \ {c} : MissingKeys(d)' = MissingKeys(d)
    BY <1>1, <1>3, MissingKeysLocal
  <2>2. \A d \in Clients \ {c} : MayPost(d)' = MayPost(d)
    BY <1>1, <1>3 DEF MayPost, sums
  <2>3. QED
    BY <2>1, <2>2
<1>5. ASSUME NEW r \in Requests, StartTransfer(c, r)
      PROVE  LedgerInv'
  <2>1. LedgerTypeOK'
    BY <1>5 DEF StartTransfer, LedgerTypeOK, sums
  <2>2. pc'[c] = "fees" /\ call'[c] = r
    BY <1>5 DEF StartTransfer, LedgerTypeOK
  <2>3. CallsServed'
    BY <1>3, <2>2 DEF CallsServed
  <2>4. Funded'
    BY <1>1, <1>3, <1>4, <2>2 DEF Funded, sums
  <2>5. QED
    BY <1>1, <1>2, <2>1, <2>3, <2>4
<1>6. CASE ReadFees(c)
  <2>1. call[c] \in Requests /\ schedule \in Schedules
    BY <1>6 DEF ReadFees, CallsServed, LedgerTypeOK
  <2>2. FeeFor(call[c], schedule) \in FeeSplit
    BY <2>1, FeeForOK
  <2>3. LedgerTypeOK'
    BY <1>6, <2>2 DEF ReadFees, LedgerTypeOK, sums
  <2>4. /\ pc'[c] = "wallets" /\ call'[c] = call[c]
        /\ split'[c] = FeeFor(call[c], schedule)
    BY <1>6 DEF ReadFees, LedgerTypeOK
  <2>5. CallsServed'
    BY <1>3, <2>1, <2>4 DEF CallsServed
  <2>6. Funded'
    BY <1>1, <1>3, <1>4, <2>4 DEF Funded, sums
  <2>7. QED
    BY <1>1, <1>2, <2>3, <2>5, <2>6
<1>7. CASE ReadWallets(c)
  <2>1. call[c] \in Requests
    BY <1>7 DEF ReadWallets, CallsServed
  <2>2. call[c].from \in SystemWallets => floor[call[c].from] \in Nat \cup {NoFloor}
    BY DEF LedgerTypeOK
  <2>3. LedgerTypeOK'
    BY <1>7, <2>2 DEF ReadWallets, LedgerTypeOK, sums
  <2>4. pc'[c] = "locking" /\ call'[c] = call[c] /\ split'[c] = split[c]
    BY <1>7 DEF ReadWallets, LedgerTypeOK
  <2>5. CallsServed'
    BY <1>3, <1>7, <2>1, <2>4 DEF CallsServed, ReadWallets
  <2>6. Funded'
    BY <1>1, <1>3, <1>4, <2>4 DEF Funded, sums
  <2>7. QED
    BY <1>1, <1>2, <2>3, <2>5, <2>6
<1>8. CASE CheckFunds(c)
  <2>1. LedgerTypeOK'
    BY <1>8 DEF CheckFunds, LedgerTypeOK, sums
  <2>2. /\ pc[c] = "locking" /\ pc'[c] = "posting" /\ call'[c] = call[c]
        /\ split'[c] = split[c] /\ seenFloor'[c] = seenFloor[c]
        /\ MissingKeys(c) = {} /\ MayPost(c)
    BY <1>8 DEF CheckFunds, LedgerTypeOK
  <2>3. CallsServed'
    BY <1>3, <2>2 DEF CallsServed
  <2>4. MissingKeys(c)' = {} /\ MayPost(c)'
    <3>1. MissingKeys(c)' = {}
      BY <1>1, <2>2, MissingKeysLocal
    <3>2. MayPost(c)'
      BY <1>1, <2>2 DEF MayPost, sums
    <3>3. QED
      BY <3>1, <3>2
  <2>5. Funded'
    BY <1>1, <1>3, <1>4, <2>2, <2>4 DEF Funded, sums
  <2>6. QED
    BY <1>1, <1>2, <2>1, <2>3, <2>5
<1>9. QED
  BY <1>5, <1>6, <1>7, <1>8

\* A key is taken only when nobody holds it; no client that is about to post
\* lacks one.
LEMMA AcquirePreserves ==
  ASSUME LedgerInv, NEW c \in Clients, AcquireLock(c)
  PROVE  LedgerInv'
<1> USE DEF LedgerInv
<1>1. PICK k \in Keys :
        /\ IsNextKey(c, k)
        /\ \A d \in Clients : k \notin held[d]
        /\ held' = [held EXCEPT ![c] = @ \cup {k}]
        /\ UNCHANGED <<sums, floor, schedule, pc, call, split, seenFloor>>
  BY DEF AcquireLock
<1>2. LedgerTypeOK'
  BY <1>1 DEF LedgerTypeOK, sums
<1>3. pc[c] = "locking"
  BY <1>1 DEF IsNextKey
<1>4. \A d \in Clients \ {c} : held'[d] = held[d]
  BY <1>1 DEF LedgerTypeOK
<1>5. held'[c] = held[c] \cup {k}
  BY <1>1 DEF LedgerTypeOK
<1>6. Exclusive'
  BY <1>1, <1>4, <1>5 DEF Exclusive
<1>7. \A d \in Clients \ {c} : MissingKeys(d)' = MissingKeys(d)
  BY <1>1, <1>4, MissingKeysLocal
<1>8. Funded'
  <2>1. \A d \in Clients : MayPost(d)' = MayPost(d)
    BY <1>1 DEF MayPost, sums
  <2>2. QED
    BY <1>1, <1>3, <1>7, <2>1 DEF Funded
<1>9. CallsServed' /\ NoOverdraft' /\ ZeroSum'
  BY <1>1 DEF CallsServed, NoOverdraft, ZeroSum, sums
<1>10. QED
  BY <1>2, <1>6, <1>8, <1>9

\* A refused or rolled back transfer gives its keys back.
LEMMA AbortPreserves ==
  ASSUME LedgerInv, NEW c \in Clients, Reject(c) \/ Rollback(c)
  PROVE  LedgerInv'
<1>1. EndTransfer(c) /\ UNCHANGED sums
  BY DEF Reject, Rollback
<1>2. bal' \in [Wallets -> Int] /\ credits' \in Int /\ debits' \in Int
  BY <1>1 DEF LedgerInv, LedgerTypeOK, sums
<1>3. LedgerTypeOK' /\ CallsServed' /\ Exclusive'
  BY <1>1, <1>2, EndTransferKeeps
<1>4. \A d \in Clients : pc'[d] = "posting" =>
        /\ pc[d] = "posting"
        /\ MissingKeys(d)' = MissingKeys(d)
        /\ call'[d] = call[d] /\ split'[d] = split[d]
        /\ seenFloor'[d] = seenFloor[d]
  BY <1>1, <1>2, EndTransferKeeps
<1>5. Funded'
  <2>1. \A d \in Clients : pc'[d] = "posting" => MayPost(d)' = MayPost(d)
    BY <1>1, <1>4 DEF MayPost, sums
  <2>2. QED
    BY <1>4, <2>1 DEF LedgerInv, Funded
<1>6. NoOverdraft' /\ ZeroSum'
  BY <1>1 DEF LedgerInv, NoOverdraft, ZeroSum, sums
<1>7. QED
  BY <1>3, <1>5, <1>6 DEF LedgerInv

-----------------------------------------------------------------------------
(* Steps that post *)

\* A client that is about to post holds the key of its sender.
LEMMA SenderKeyHeld ==
  ASSUME NEW c \in Clients, MissingKeys(c) = {}
  PROVE  LockKey[call[c].from] \in held[c]
BY DEF MissingKeys, WalletsToLock

\* What a client about to post has read and computed.
LEMMA PostingKnows ==
  ASSUME LedgerInv, NEW c \in Clients, pc[c] = "posting"
  PROVE  /\ call[c] \in Requests
         /\ call[c].amount \in Nat
         /\ call[c].bonus \in Nat
         /\ call[c].from \in Wallets
         /\ split[c] \in FeeSplit
         /\ split[c].net >= 0
         /\ split[c].net + totalFee(split[c]) = call[c].amount
<1>1. call[c] \in Requests /\ \E s \in Schedules : split[c] = FeeFor(call[c], s)
  BY DEF LedgerInv, CallsServed
<1>2. call[c] \in TransferRequest
  BY <1>1, LedgerAssumption
<1>3. QED
  BY <1>1, <1>2, FeeForOK DEF TransferRequest

\* A commit takes the amount from its sender and, among the guarded wallets,
\* from no other.
LEMMA PostTakes ==
  ASSUME LedgerInv, NEW c \in Clients, PostEntries(c), NEW w \in GuardedWallets
  PROVE  /\ bal[w] \in Int
         /\ bal'[w] \in Int
         /\ w # call[c].from => bal'[w] >= bal[w]
         /\ w = call[c].from => bal'[w] >= bal[w] - call[c].amount
<1> DEFINE r == call[c]
           s == split[c]
<1>1. /\ r \in Requests
      /\ r.amount \in Nat
      /\ s \in FeeSplit
      /\ s.net >= 0
  BY PostingKnows DEF PostEntries
<1>2. w \in Wallets
  BY DEF GuardedWallets
<1>3. /\ bal[w] \in Int
      /\ bal'[w] = bal[w] + TransferCredit(w, r, s) - TransferDebit(w, r)
  BY <1>2 DEF PostEntries, LedgerInv, LedgerTypeOK
<1> HIDE DEF r, s
<1>4. /\ TransferCredit(w, r, s) \in Int
      /\ TransferDebit(w, r) \in Int
      /\ TransferCredit(w, r, s) >= 0
      /\ TransferDebit(w, r) = IF w = r.from THEN r.amount ELSE 0
  BY <1>1, <1>2, TransferEntries
<1>5. /\ bal[w] \in Int
      /\ bal'[w] \in Int
      /\ w # r.from => bal'[w] >= bal[w]
      /\ w = r.from => bal'[w] >= bal[w] - r.amount
  BY <1>1, <1>3, <1>4
<1>6. QED
  BY <1>5 DEF r

\* The commit of one transfer: its own sender can pay, and the sender of any
\* other transfer about to post is a different wallet, which only gains.
LEMMA PostPreserves ==
  ASSUME LedgerInv, NEW c \in Clients, PostEntries(c)
  PROVE  LedgerInv'
<1> DEFINE r == call[c]
           s == split[c]
<1>1. /\ pc[c] = "posting"
      /\ r \in Requests
      /\ r.amount \in Nat /\ r.bonus \in Nat /\ r.from \in Wallets
      /\ s \in FeeSplit
      /\ s.net >= 0
      /\ s.net + totalFee(s) = r.amount
  BY PostingKnows DEF PostEntries
<1>2. /\ bal \in [Wallets -> Int]
      /\ bal' = [w \in Wallets |-> bal[w] + TransferCredit(w, r, s)
                                          - TransferDebit(w, r)]
      /\ credits' = credits + CreditTotal(r, s)
      /\ debits' = debits - DebitTotal(r)
      /\ credits \in Int /\ debits \in Int
      /\ EndTransfer(c)
  BY DEF PostEntries, LedgerInv, LedgerTypeOK
<1>3. MissingKeys(c) = {} /\ (r.from \in GuardedWallets => MayPost(c))
  BY <1>1 DEF LedgerInv, Funded
<1>4. r.from \in GuardedWallets => bal[r.from] >= r.amount
  BY <1>3 DEF MayPost
<1>5. \A w \in GuardedWallets :
        /\ bal[w] \in Int
        /\ bal'[w] \in Int
        /\ w # r.from => bal'[w] >= bal[w]
        /\ w = r.from => bal'[w] >= bal[w] - r.amount
  BY PostTakes
<1> HIDE DEF r, s
<1>6. /\ CreditTotal(r, s) \in Int /\ DebitTotal(r) \in Int
      /\ CreditTotal(r, s) = DebitTotal(r)
  <2>1. PICK w \in Wallets : TRUE
    BY <1>1
  <2>2. QED
    BY <1>1, <2>1, TransferEntries
<1>7. bal' \in [Wallets -> Int] /\ credits' \in Int /\ debits' \in Int
  <2>1. \A w \in Wallets :
          TransferCredit(w, r, s) \in Int /\ TransferDebit(w, r) \in Int
    BY <1>1, TransferEntries
  <2>2. QED
    BY <1>2, <1>6, <2>1
<1>8. LedgerTypeOK' /\ CallsServed' /\ Exclusive'
  BY <1>2, <1>7, EndTransferKeeps
<1>9. NoOverdraft'
  BY <1>1, <1>4, <1>5 DEF LedgerInv, NoOverdraft
<1>10. ZeroSum'
  BY <1>2, <1>6 DEF LedgerInv, ZeroSum
<1>11. Funded'
  <2> SUFFICES ASSUME NEW d \in Clients, pc'[d] = "posting"
               PROVE  /\ MissingKeys(d)' = {}
                      /\ call'[d].from \in GuardedWallets => MayPost(d)'
    BY DEF Funded
  <2>1. /\ d # c /\ pc[d] = "posting"
        /\ MissingKeys(d)' = MissingKeys(d)
        /\ call'[d] = call[d] /\ split'[d] = split[d]
        /\ seenFloor'[d] = seenFloor[d]
    BY <1>2, <1>7, EndTransferKeeps
  <2>2. /\ MissingKeys(d) = {}
        /\ call[d].from \in GuardedWallets => MayPost(d)
    BY <2>1 DEF LedgerInv, Funded
  <2>3. LockKey[call[d].from] # LockKey[r.from]
    BY <1>3, <2>1, <2>2, SenderKeyHeld DEF LedgerInv, Exclusive, r
  <2>4. call[d].amount \in Nat /\ seenFloor[d] \in Int
    BY <2>1, ChecksTyped DEF LedgerInv
  <2>5. call[d].from \in GuardedWallets => bal'[call[d].from] >= bal[call[d].from]
    BY <1>5, <2>3
  <2>6. call[d].from \in GuardedWallets => MayPost(d)'
    BY <1>5, <2>1, <2>2, <2>4, <2>5, ChecksStillPass
  <2>7. QED
    BY <2>1, <2>2, <2>6
<1>12. QED
  BY <1>8, <1>9, <1>10, <1>11 DEF LedgerInv

\* A posting without locks keeps the totals' sum and takes from the backing
\* wallets only.
LEMMA OnlyBackingPays ==
  ASSUME LedgerInv,
         \/ \E u \in Users, k \in Deposits : recordDeposit(u, k)
         \/ \E u \in Users, conversion \in Conversions :
              convertFiatToKcrd(u, conversion[1], conversion[2])
  PROVE  /\ bal' \in [Wallets -> Int]
         /\ credits' \in Int /\ debits' \in Int
         /\ credits' + debits' = credits + debits
         /\ \A w \in GuardedWallets :
              bal[w] \in Int /\ bal'[w] \in Int /\ bal'[w] >= bal[w]
<1> DEFINE Goal ==
             /\ bal' \in [Wallets -> Int]
             /\ credits' \in Int /\ debits' \in Int
             /\ credits' + debits' = credits + debits
             /\ \A w \in GuardedWallets :
                  bal[w] \in Int /\ bal'[w] \in Int /\ bal'[w] >= bal[w]
<1>1. ASSUME NEW u \in Users, NEW k \in Deposits, recordDeposit(u, k)
      PROVE  Goal
  BY <1>1, LedgerAssumption
  DEF recordDeposit, DepositDelta, On, GuardedWallets, BackingWallets,
      LedgerInv, LedgerTypeOK
<1>2. ASSUME NEW u \in Users, NEW conversion \in Conversions,
             convertFiatToKcrd(u, conversion[1], conversion[2])
      PROVE  Goal
  <2>1. conversion[1] \in Nat /\ conversion[2] \in Nat
    BY LedgerAssumption
  <2>2. QED
    BY <1>2, <2>1
    DEF convertFiatToKcrd, ConversionDelta, On, GuardedWallets,
        BackingWallets, LedgerInv, LedgerTypeOK
<1>3. QED
  BY <1>1, <1>2

\* Such a posting leaves the clients of transferCredits as they are.
LEMMA UnlockedPreserves ==
  ASSUME LedgerInv,
         \/ \E u \in Users, k \in Deposits : recordDeposit(u, k)
         \/ \E u \in Users, conversion \in Conversions :
              convertFiatToKcrd(u, conversion[1], conversion[2])
  PROVE  LedgerInv'
<1>1. UNCHANGED <<floor, schedule, pc, call, split, seenFloor, held>>
  BY DEF recordDeposit, convertFiatToKcrd, clientVars
<1>2. /\ bal' \in [Wallets -> Int]
      /\ credits' \in Int /\ debits' \in Int
      /\ credits' + debits' = credits + debits
      /\ \A w \in GuardedWallets :
           bal[w] \in Int /\ bal'[w] \in Int /\ bal'[w] >= bal[w]
  BY OnlyBackingPays
<1>3. LedgerTypeOK' /\ CallsServed' /\ Exclusive'
  BY <1>1, <1>2 DEF LedgerInv, LedgerTypeOK, CallsServed, Exclusive
<1>4. \A c \in Clients : MissingKeys(c)' = MissingKeys(c)
  BY <1>1, MissingKeysLocal
<1>5. Funded'
  <2> SUFFICES ASSUME NEW c \in Clients, pc[c] = "posting"
               PROVE  /\ MissingKeys(c) = {}
                      /\ call[c].from \in GuardedWallets => MayPost(c)'
    BY <1>1, <1>4 DEF Funded
  <2>1. /\ MissingKeys(c) = {}
        /\ call[c].from \in GuardedWallets => MayPost(c)
    BY DEF LedgerInv, Funded
  <2>2. call[c].amount \in Nat /\ seenFloor[c] \in Int
    BY ChecksTyped DEF LedgerInv
  <2>3. call[c].from \in GuardedWallets => MayPost(c)'
    BY <1>1, <1>2, <2>1, <2>2, ChecksStillPass
  <2>4. QED
    BY <2>1, <2>3
<1>6. NoOverdraft'
  BY <1>2 DEF LedgerInv, NoOverdraft
<1>7. ZeroSum'
  BY <1>2 DEF LedgerInv, ZeroSum
<1>8. QED
  BY <1>3, <1>5, <1>6, <1>7 DEF LedgerInv

\* A change of a floor or of the schedule; the route keeps floors natural.
LEMMA SettingsPreserve ==
  ASSUME LedgerInv,
         \/ \E w \in FlooredWallets, f \in Floors \cup {NoFloor} : SetFloor(w, f)
         \/ \E s \in Schedules : ApplySchedule(s)
  PROVE  LedgerInv'
<1>1. UNCHANGED <<sums, clientVars>>
  BY DEF SetFloor, ApplySchedule
<1>2. LedgerTypeOK'
  <2>1. floor' \in [SystemWallets -> Nat \cup {NoFloor}] /\ schedule' \in Schedules
    BY ClientAssumption DEF LedgerInv, LedgerTypeOK, SetFloor, ApplySchedule, NoFloor
  <2>2. QED
    BY <1>1, <2>1 DEF LedgerInv, LedgerTypeOK, sums, clientVars
<1>3. \A c \in Clients :
        MissingKeys(c)' = MissingKeys(c) /\ MayPost(c)' = MayPost(c)
  <2>1. \A c \in Clients : MissingKeys(c)' = MissingKeys(c)
    BY <1>1, MissingKeysLocal DEF clientVars
  <2>2. \A c \in Clients : MayPost(c)' = MayPost(c)
    BY <1>1 DEF MayPost, sums, clientVars
  <2>3. QED
    BY <2>1, <2>2
<1>4. QED
  BY <1>1, <1>2, <1>3
  DEF LedgerInv, CallsServed, Exclusive, Funded, NoOverdraft, ZeroSum, sums,
      clientVars

\* Every step of the ledger keeps the invariant.
LEMMA StepPreserves ==
  LedgerInv /\ [LedgerNext]_ledgerVars => LedgerInv'
<1> SUFFICES ASSUME LedgerInv, [LedgerNext]_ledgerVars
             PROVE  LedgerInv'
  OBVIOUS
<1>1. ASSUME NEW c \in Clients, NEW r \in Requests, StartTransfer(c, r)
      PROVE  LedgerInv'
  BY <1>1, ReadsPreserve
<1>2. ASSUME NEW c \in Clients, TransferStep(c)
      PROVE  LedgerInv'
  BY <1>2, ReadsPreserve, AcquirePreserves, AbortPreserves, PostPreserves
  DEF TransferStep
<1>3. CASE Administration
  BY <1>3, UnlockedPreserves, SettingsPreserve DEF Administration
<1>4. CASE UNCHANGED ledgerVars
  <2>1. \A c \in Clients : MissingKeys(c)' = MissingKeys(c)
    BY <1>4, MissingKeysLocal DEF ledgerVars
  <2>2. \A c \in Clients : MayPost(c)' = MayPost(c)
    BY <1>4 DEF MayPost, ledgerVars
  <2>3. QED
    BY <1>4, <2>1, <2>2
    DEF LedgerInv, LedgerTypeOK, CallsServed, Exclusive, Funded, NoOverdraft,
        ZeroSum, ledgerVars
<1>5. QED
  BY <1>1, <1>2, <1>3, <1>4 DEF LedgerNext

-----------------------------------------------------------------------------
(* The theorems *)

\* The inductive invariant holds in every reachable state.
THEOREM LedgerInvariant == LedgerSpec => []LedgerInv
BY InitEstablishes, StepPreserves, PTL DEF LedgerSpec

\* The variables keep their types: a floor is never negative, a split never
\* has a negative part for a fund.
THEOREM LedgerTypeCorrect == LedgerSpec => []LedgerTypeOK
<1>1. LedgerInv => LedgerTypeOK
  BY DEF LedgerInv
<1>2. QED
  BY <1>1, LedgerInvariant, PTL

\* No interleaving of transfers, deposits and conversions overdraws a wallet
\* that only transferCredits debits.
THEOREM LedgerNoOverdraft == LedgerSpec => []NoOverdraft
<1>1. LedgerInv => NoOverdraft
  BY DEF LedgerInv
<1>2. QED
  BY <1>1, LedgerInvariant, PTL

\* Every committed state passes the reconciliation (netSum = 0).
THEOREM LedgerZeroSum == LedgerSpec => []ZeroSum
<1>1. LedgerInv => ZeroSum
  BY DEF LedgerInv
<1>2. QED
  BY <1>1, LedgerInvariant, PTL

\* The steps that change balances.
LEMMA OnlyTheseMove ==
  ASSUME [LedgerNext]_ledgerVars
  PROVE  \/ \E c \in Clients : PostEntries(c)
         \/ \E u \in Users, k \in Deposits : recordDeposit(u, k)
         \/ \E u \in Users, conversion \in Conversions :
              convertFiatToKcrd(u, conversion[1], conversion[2])
         \/ bal' = bal
BY DEF LedgerNext, TransferStep, Administration, StartTransfer, ReadFees,
       ReadWallets, AcquireLock, CheckFunds, Reject, Rollback, SetFloor,
       ApplySchedule, sums, ledgerVars

\* The sum of the balances never changes: every commit posts entries that
\* cancel.
LEMMA SumStays ==
  ASSUME LedgerInv, [LedgerNext]_ledgerVars
  PROVE  SumFunction(bal') = SumFunction(bal)
<1>1. bal \in [Wallets -> Int]
  BY DEF LedgerInv, LedgerTypeOK
<1>2. ASSUME NEW c \in Clients, PostEntries(c)
      PROVE  SumFunction(bal') = SumFunction(bal)
  <2>1. /\ call[c] \in Requests
        /\ split[c] \in FeeSplit
        /\ split[c].net + totalFee(split[c]) = call[c].amount
    BY <1>2, PostingKnows DEF PostEntries
  <2>2. bal' = [w \in Wallets |-> bal[w] + TransferCredit(w, call[c], split[c])
                                          - TransferDebit(w, call[c])]
    BY <1>2 DEF PostEntries
  <2>3. QED
    BY <1>1, <2>1, <2>2, TransferCancels
<1>3. ASSUME NEW u \in Users, NEW k \in Deposits, recordDeposit(u, k)
      PROVE  SumFunction(bal') = SumFunction(bal)
  <2>1. k \in Nat
    BY LedgerAssumption
  <2>2. bal' = [w \in Wallets |-> bal[w] + DepositDelta(w, u, k)]
    BY <1>3 DEF recordDeposit
  <2>3. QED
    BY <1>1, <2>1, <2>2, UnlockedCancels
<1>4. ASSUME NEW u \in Users, NEW conversion \in Conversions,
             convertFiatToKcrd(u, conversion[1], conversion[2])
      PROVE  SumFunction(bal') = SumFunction(bal)
  <2>1. conversion[1] \in Nat /\ conversion[2] \in Nat
    BY LedgerAssumption
  <2>2. bal' = [w \in Wallets |->
                  bal[w] + ConversionDelta(w, u, conversion[1], conversion[2])]
    BY <1>4 DEF convertFiatToKcrd
  <2>3. QED
    BY <1>1, <2>1, <2>2, UnlockedCancels
<1>5. ASSUME bal' = bal
      PROVE  SumFunction(bal') = SumFunction(bal)
  BY <1>5
<1>6. QED
  BY <1>2, <1>3, <1>4, <1>5, OnlyTheseMove

\* The books balance in every committed state, entry by entry and wallet by
\* wallet, however many users, clients and requests there are.
THEOREM LedgerBooksBalance == LedgerSpec => []BooksBalance
<1>1. LedgerInit => BalancesSumToZero
  BY WalletsFinite, SumOfZeros DEF LedgerInit, BalancesSumToZero
<1>2. BalancesSumToZero /\ LedgerInv /\ [LedgerNext]_ledgerVars
        => BalancesSumToZero'
  BY SumStays DEF BalancesSumToZero
<1>3. LedgerInv /\ BalancesSumToZero => BooksBalance
  BY DEF LedgerInv, BooksBalance
<1>4. QED
  BY <1>1, <1>2, <1>3, LedgerInvariant, PTL DEF LedgerSpec

\* A transfer that commits respects the floor it read: it was checked against
\* it under the locks, and since then its sender, if guarded, only gained.
LEMMA PostRespectsFloor ==
  ASSUME LedgerInv, NEW c \in Clients, PostEntries(c),
         NEW w \in SystemWallets \ BackingWallets, bal'[w] < bal[w]
  PROVE  /\ pc[c] = "posting" /\ call[c].from = w
         /\ \/ floor[w] = NoFloor
            \/ bal'[w] >= floor[w]
            \/ seenFloor[c] # floor[w]
<1>1. w \in GuardedWallets
  BY DEF GuardedWallets, Wallets
<1>2. /\ pc[c] = "posting"
      /\ call[c].amount \in Nat
  BY PostingKnows DEF PostEntries
<1>3. /\ bal[w] \in Int /\ bal'[w] \in Int
      /\ call[c].from = w
      /\ bal'[w] >= bal[w] - call[c].amount
  BY <1>1, PostTakes
<1>4. seenFloor[c] # NoFloor => bal[w] - call[c].amount >= seenFloor[c]
  BY <1>1, <1>2, <1>3 DEF LedgerInv, Funded, MayPost
<1>5. floor[w] \in Int
  BY DEF LedgerInv, LedgerTypeOK, NoFloor
<1>6. CASE seenFloor[c] = floor[w] /\ floor[w] # NoFloor
  BY <1>2, <1>3, <1>4, <1>5, <1>6
<1>7. QED
  BY <1>2, <1>3, <1>6

\* No debit of a guarded system wallet breaches the floor that its transfer
\* read before it waited for its locks, whatever commits while it waits.
THEOREM LedgerKeepsFloors == LedgerSpec => FloorKept
<1> DEFINE Breachless ==
             \A w \in SystemWallets \ BackingWallets :
               bal'[w] < bal[w] =>
                 \E c \in Clients :
                   /\ pc[c] = "posting" /\ call[c].from = w
                   /\ \/ floor[w] = NoFloor
                      \/ bal'[w] >= floor[w]
                      \/ seenFloor[c] # floor[w]
<1>1. ASSUME LedgerInv, [LedgerNext]_ledgerVars
      PROVE  Breachless
  <2>1. ASSUME NEW c \in Clients, PostEntries(c)
        PROVE  Breachless
    BY <1>1, <2>1, PostRespectsFloor
  <2>2. ASSUME bal' = bal
        PROVE  Breachless
    BY <1>1, <2>2 DEF LedgerInv, LedgerTypeOK, Wallets
  <2>3. ASSUME \/ \E u \in Users, k \in Deposits : recordDeposit(u, k)
               \/ \E u \in Users, conversion \in Conversions :
                    convertFiatToKcrd(u, conversion[1], conversion[2])
        PROVE  Breachless
    <3>1. \A w \in SystemWallets \ BackingWallets :
            bal[w] \in Int /\ bal'[w] \in Int /\ bal'[w] >= bal[w]
      BY <1>1, <2>3, OnlyBackingPays DEF GuardedWallets, Wallets
    <3>2. QED
      BY <3>1
  <2>4. QED
    BY <1>1, <2>1, <2>2, <2>3, OnlyTheseMove
<1>2. QED
  BY <1>1, LedgerInvariant, PTL DEF LedgerSpec, FloorKept

-----------------------------------------------------------------------------
(* Refinement *)

\* Both specifications write the same entries.
LEMMA SameEntries ==
  /\ Abstract!Wallets = Wallets
  /\ Abstract!GuardedWallets = GuardedWallets
  /\ Abstract!sums = sums
  /\ \A r, s : Abstract!FeeFor(r, s) = FeeFor(r, s)
  /\ \A w, r, s : Abstract!TransferCredit(w, r, s) = TransferCredit(w, r, s)
  /\ \A w, r : Abstract!TransferDebit(w, r) = TransferDebit(w, r)
  /\ \A r, s : Abstract!CreditTotal(r, s) = CreditTotal(r, s)
  /\ \A r : Abstract!DebitTotal(r) = DebitTotal(r)
  /\ \A w, u, k : Abstract!DepositDelta(w, u, k) = DepositDelta(w, u, k)
  /\ \A w, u, b, x :
       Abstract!ConversionDelta(w, u, b, x) = ConversionDelta(w, u, b, x)
<1>1. Abstract!Wallets = Wallets /\ Abstract!GuardedWallets = GuardedWallets
  BY DEF Abstract!Wallets, Abstract!SystemWallets, Abstract!GuardedWallets,
         Abstract!BackingWallets, Wallets, SystemWallets, GuardedWallets,
         BackingWallets
<1>2. \A w, x, a : Abstract!On(w, x, a) = On(w, x, a)
  BY DEF Abstract!On, On
<1>3. \A g, p : Abstract!FeePart(g, p) = FeePart(g, p)
  BY DEF Abstract!FeePart, FeePart, Abstract!Whole, Whole,
         Abstract!RoundHalfEven, RoundHalfEven
<1>4. \A r, s : Abstract!FeeFor(r, s) = FeeFor(r, s)
  BY <1>3 DEF Abstract!FeeFor, FeeFor, Abstract!calculateFee, calculateFee,
              Abstract!Split, Split
<1>5. QED
  BY <1>1, <1>2, <1>4
  DEF Abstract!TransferCredit, TransferCredit, Abstract!TransferDebit,
      TransferDebit, Abstract!CreditTotal, CreditTotal, Abstract!DebitTotal,
      DebitTotal, Abstract!DepositDelta, DepositDelta,
      Abstract!ConversionDelta, ConversionDelta, Abstract!totalFee, totalFee,
      Abstract!sums, sums

\* The empty ledger is the empty atomic ledger.
LEMMA InitRefines == LedgerInit => Abstract!Init
BY DEF LedgerInit, Abstract!Init, Wallets, SystemWallets, Abstract!Wallets,
       Abstract!SystemWallets

\* A commit is one abstract transfer under the schedule that the client read;
\* its funds check still holds because of Funded.
LEMMA StepRefines ==
  LedgerInv /\ [LedgerNext]_ledgerVars => [Abstract!Next]_(Abstract!sums)
<1> SUFFICES ASSUME LedgerInv, [LedgerNext]_ledgerVars
             PROVE  [Abstract!Next]_(Abstract!sums)
  OBVIOUS
<1>1. ASSUME NEW c \in Clients, NEW r \in Requests, StartTransfer(c, r)
      PROVE  UNCHANGED sums
  BY <1>1 DEF StartTransfer
<1>2. ASSUME NEW c \in Clients, PostEntries(c)
      PROVE  Abstract!Next
  <2>1. pc[c] = "posting" /\ call[c] \in Requests
    BY <1>2 DEF PostEntries, LedgerInv, CallsServed
  <2>2. PICK s \in Schedules : split[c] = FeeFor(call[c], s)
    BY <2>1 DEF LedgerInv, CallsServed
  <2>3. call[c].from \in GuardedWallets => bal[call[c].from] >= call[c].amount
    BY <2>1 DEF LedgerInv, Funded, MayPost
  <2>4. Abstract!Transfer(call[c], s)
    BY <1>2, <2>2, <2>3, SameEntries DEF PostEntries, Abstract!Transfer
  <2>5. QED
    BY <2>1, <2>4 DEF Abstract!Next
<1>3. ASSUME NEW c \in Clients, TransferStep(c)
      PROVE  PostEntries(c) \/ UNCHANGED sums
  BY <1>3 DEF TransferStep, ReadFees, ReadWallets, AcquireLock, CheckFunds,
              Reject, Rollback
<1>4. CASE Administration
  <2>1. ASSUME NEW u \in Users, NEW k \in Deposits, recordDeposit(u, k)
        PROVE  Abstract!Next
    BY <2>1, SameEntries DEF recordDeposit, Abstract!Deposit, Abstract!Next
  <2>2. ASSUME NEW u \in Users, NEW conversion \in Conversions,
               convertFiatToKcrd(u, conversion[1], conversion[2])
        PROVE  Abstract!Next
    BY <2>2, SameEntries
    DEF convertFiatToKcrd, Abstract!ConvertFiat, Abstract!Next
  <2>3. QED
    BY <1>4, <2>1, <2>2
    DEF Administration, SetFloor, ApplySchedule, sums, Abstract!sums
<1>5. CASE UNCHANGED ledgerVars
  BY <1>5 DEF ledgerVars, Abstract!sums
<1>6. QED
  BY <1>1, <1>2, <1>3, <1>4, <1>5 DEF LedgerNext, sums, Abstract!sums

\* transferCredits, step by step and under any interleaving, implements the
\* ledger in which every transfer is atomic and covered.
THEOREM LedgerImplementsAtomicLedger == LedgerSpec => ImplementsAtomicLedger
BY InitRefines, StepRefines, LedgerInvariant, PTL
DEF LedgerSpec, ImplementsAtomicLedger, Abstract!Spec

-----------------------------------------------------------------------------
(* The order of the locks *)

\* A client holds locks from its first acquisition to its end only, and all of
\* them are below those it still lacks.
LockOrder ==
  \A c \in Clients :
    /\ pc[c] \in {"idle", "fees", "wallets"} => held[c] = {}
    /\ pc[c] = "locking" =>
         \A k \in held[c], j \in MissingKeys(c) : k < j

\* The keys are numbers below the bound.
LEMMA KeysOK == Keys \subseteq 0 .. KeyBound - 1
BY ClientAssumption DEF Keys

\* What a client still has to lock are keys.
LEMMA CallKeysOK ==
  ASSUME LedgerInv, NEW c \in Clients, pc[c] # "idle"
  PROVE  MissingKeys(c) \subseteq Keys
<1>1. call[c].from \in Wallets /\ call[c].to \in Wallets
  BY LedgerAssumption DEF LedgerInv, CallsServed, TransferRequest
<1>2. QED
  BY <1>1 DEF MissingKeys, WalletsToLock, Keys, Wallets, SystemWallets

\* Every step keeps the order in which keys are taken.
LEMMA LockOrderStep ==
  LedgerInv /\ LockOrder /\ [LedgerNext]_ledgerVars => LockOrder'
<1> SUFFICES ASSUME LedgerInv, LockOrder, [LedgerNext]_ledgerVars
             PROVE  LockOrder'
  OBVIOUS
<1> DEFINE Ordered(c) ==
             /\ pc[c] \in {"idle", "fees", "wallets"} => held[c] = {}
             /\ pc[c] = "locking" =>
                  \A k \in held[c], j \in MissingKeys(c) : k < j
<1>1. \A c \in Clients : Ordered(c)
  BY DEF LockOrder
<1>2. ASSUME NEW c \in Clients, UNCHANGED <<pc[c], call[c], split[c], held[c]>>
      PROVE  Ordered(c)'
  <2>1. MissingKeys(c)' = MissingKeys(c)
    BY <1>2, MissingKeysLocal
  <2>2. QED
    BY <1>1, <1>2, <2>1
<1>3. ASSUME NEW c \in Clients, NEW r \in Requests, StartTransfer(c, r)
      PROVE  LockOrder'
  <2>1. \A d \in Clients \ {c} : UNCHANGED <<pc[d], call[d], split[d], held[d]>>
    BY <1>3 DEF StartTransfer, LedgerInv, LedgerTypeOK
  <2>2. Ordered(c)'
    BY <1>1, <1>3 DEF StartTransfer, LedgerInv, LedgerTypeOK
  <2>3. QED
    BY <1>2, <2>1, <2>2 DEF LockOrder
<1>4. ASSUME NEW c \in Clients, TransferStep(c)
      PROVE  LockOrder'
  <2>1. \A d \in Clients \ {c} : UNCHANGED <<pc[d], call[d], split[d], held[d]>>
    BY <1>4 DEF TransferStep, ReadFees, ReadWallets, AcquireLock, CheckFunds,
                Reject, PostEntries, Rollback, EndTransfer, LedgerInv,
                LedgerTypeOK
  <2>2. ASSUME ReadFees(c) PROVE Ordered(c)'
    BY <1>1, <2>2 DEF ReadFees, LedgerInv, LedgerTypeOK
  <2>3. ASSUME ReadWallets(c) PROVE Ordered(c)'
    BY <1>1, <2>3 DEF ReadWallets, LedgerInv, LedgerTypeOK
  <2>4. ASSUME CheckFunds(c) PROVE Ordered(c)'
    BY <2>4 DEF CheckFunds, LedgerInv, LedgerTypeOK
  <2>5. ASSUME EndTransfer(c) PROVE Ordered(c)'
    BY <2>5 DEF EndTransfer, LedgerInv, LedgerTypeOK
  <2>6. ASSUME AcquireLock(c) PROVE Ordered(c)'
    <3>1. PICK k \in Keys : IsNextKey(c, k) /\ held' = [held EXCEPT ![c] = @ \cup {k}]
                           /\ UNCHANGED <<pc, call, split>>
      BY <2>6 DEF AcquireLock
    <3>2. /\ pc[c] = "locking" /\ k \in MissingKeys(c)
          /\ \A j \in MissingKeys(c) : k <= j
      BY <3>1 DEF IsNextKey
    <3>3. held'[c] = held[c] \cup {k}
      BY <3>1 DEF LedgerInv, LedgerTypeOK
    <3>4. MissingKeys(c)' = MissingKeys(c) \ {k}
      BY <3>1, <3>3 DEF MissingKeys, WalletsToLock
    <3>5. MissingKeys(c) \subseteq Nat
      <4>1. MissingKeys(c) \subseteq Keys
        BY <3>2, CallKeysOK
      <4>2. Keys \subseteq Nat
        BY KeysOK, ClientAssumption
      <4>3. QED
        BY <4>1, <4>2
    <3>6. \A h \in held'[c], j \in MissingKeys(c)' : h < j
      BY <1>1, <3>2, <3>3, <3>4, <3>5
    <3>7. QED
      BY <3>1, <3>2, <3>6
  <2>7. Reject(c) \/ PostEntries(c) \/ Rollback(c) => EndTransfer(c)
    BY DEF Reject, PostEntries, Rollback
  <2>8. Ordered(c)'
    BY <1>4, <2>2, <2>3, <2>4, <2>5, <2>6, <2>7 DEF TransferStep
  <2>9. QED
    BY <1>2, <2>1, <2>8 DEF LockOrder
<1>5. CASE Administration
  BY <1>2, <1>5 DEF Administration, recordDeposit, convertFiatToKcrd, SetFloor,
                    ApplySchedule, clientVars, LockOrder
<1>6. CASE UNCHANGED ledgerVars
  BY <1>2, <1>6 DEF ledgerVars, LockOrder
<1>7. QED
  BY <1>3, <1>4, <1>5, <1>6 DEF LedgerNext

\* A set of waiting clients closed under waiting would need an endless chain of
\* ever larger keys: each waits for a key that another one holds, and that one
\* waits for a larger key.
LEMMA OrderedLocksNeverCycle ==
  ASSUME LedgerInv, LockOrder
  PROVE  NoWaitCycle
<1> SUFFICES ASSUME NEW S \in SUBSET Clients, S # {},
                    \A c \in S : WaitsFor(c) \cap S # {}
             PROVE  FALSE
  BY DEF NoWaitCycle
<1> DEFINE Wanted == {k \in Keys : \E c \in S : IsNextKey(c, k)}
           Distance == {KeyBound - k : k \in Wanted}
<1>1. \A c \in S : \E d \in S, k \in Wanted : k \in held[d] /\ IsNextKey(c, k)
  BY DEF WaitsFor, LedgerInv, LedgerTypeOK
<1>2. \A k \in Wanted : \E j \in Wanted : k < j
  <2> SUFFICES ASSUME NEW k \in Wanted
               PROVE  \E j \in Wanted : k < j
    OBVIOUS
  <2>1. PICK c \in S : IsNextKey(c, k)
    OBVIOUS
  <2>2. PICK d \in S, l \in Wanted : l \in held[d] /\ IsNextKey(c, l)
    BY <1>1
  <2>3. PICK j \in Wanted : IsNextKey(d, j)
    BY <1>1
  <2>4. l < j
    BY <2>2, <2>3 DEF LockOrder, IsNextKey
  <2>5. k \in Nat /\ l \in Nat /\ k <= l /\ l <= k
    BY <2>1, <2>2, KeysOK, ClientAssumption DEF IsNextKey
  <2>6. QED
    BY <2>4, <2>5
<1>3. Wanted # {}
  BY <1>1
<1>4. \A k \in Wanted : KeyBound - k \in Nat
  BY KeysOK, ClientAssumption
<1> HIDE DEF Wanted
<1>5. Distance \subseteq Nat /\ Distance # {}
  BY <1>3, <1>4
<1>6. PICK x \in Distance : \A y \in Distance : ~ (<<y, x>> \in OpToRel(<, Nat))
  BY <1>5, NatLessThanWellFounded, WFMin
<1>7. PICK k \in Wanted : x = KeyBound - k
  OBVIOUS
<1>8. PICK j \in Wanted : k < j
  BY <1>2
<1>9. KeyBound - j < x /\ KeyBound - j \in Distance
  BY <1>4, <1>7, <1>8, KeysOK, ClientAssumption DEF Wanted
<1>10. QED
  BY <1>5, <1>6, <1>9 DEF OpToRel

\* Transfers never wait for each other in a circle, whatever the hashes of the
\* wallets and however many clients there are.
THEOREM LedgerNoWaitCycle == LedgerSpec => []NoWaitCycle
<1>1. LedgerInit => LockOrder
  BY DEF LedgerInit, LockOrder
<1>2. LedgerSpec => []LockOrder
  BY <1>1, LockOrderStep, LedgerInvariant, PTL DEF LedgerSpec
<1>3. LedgerInv /\ LockOrder => NoWaitCycle
  BY OrderedLocksNeverCycle
<1>4. QED
  BY <1>2, <1>3, LedgerInvariant, PTL

-----------------------------------------------------------------------------
(* Settlement *)

\* A handler under way works on a settlement.
Subjects == \A c \in Clients : step[c] # "idle" => subject[c] \in Settlements

\* A client has claimed a row exactly while it has that row locked, and the
\* row has been APPROVED ever since.
Claims ==
  \A c \in Clients, s \in Settlements :
    /\ rowLock[s] = c => step[c] \in ClaimedSteps /\ subject[c] = s
    /\ step[c] \in ClaimedSteps /\ subject[c] = s
         => rowLock[s] = c /\ status[s] = "APPROVED"

\* A settlement that is APPROVED has an approval that was not paid for yet.
Unspent ==
  \A s \in Settlements : status[s] = "APPROVED" => payouts[s] < approvals[s]

SettlementInv ==
  /\ SettlementTypeOK
  /\ Subjects
  /\ Claims
  /\ Unspent
  /\ PaidOncePerApproval
  /\ SettledIsPaid

-----------------------------------------------------------------------------
(* The ledger inside *)

\* No step of a handler does anything to the ledger that transferCredits does
\* not do; an execution asks for one of the transfers in Requests.
LEMMA SettlementStepIsLedgerStep ==
  SettlementInv /\ [SettlementNext]_vars => [LedgerNext]_ledgerVars
<1> SUFFICES ASSUME SettlementInv, SettlementNext
             PROVE  [LedgerNext]_ledgerVars
  BY DEF vars
<1>1. ASSUME NEW c \in Residents, ResidentStep(c)
      PROVE  UNCHANGED ledgerVars
  BY <1>1 DEF ResidentStep, RequestCheck, CancelCheck, ReadPending,
              requestSettlement, cancelSettlement, WriteStatus
<1>2. ASSUME NEW c \in Admins, AdminStep(c)
      PROVE  [LedgerNext]_ledgerVars
  <2>1. c \in Clients
    BY SettlementAssumption
  <2>2. CASE ExecuteTransfer(c)
    <3>1. subject[c] \in Settlements
      BY <2>1, <2>2 DEF ExecuteTransfer, SettlementInv, Subjects
    <3>2. Payouts(subject[c]) \subseteq Requests
      BY <3>1, SettlementAssumption
    <3>3. PICK type \in SettlementTypes :
                 StartTransfer(c, PayoutRequest(subject[c], type))
      BY <2>2 DEF ExecuteTransfer
    <3>4. PayoutRequest(subject[c], type) \in Requests
      BY <3>2 DEF Payouts
    <3>5. QED
      BY <2>1, <3>3, <3>4 DEF LedgerNext
  <2>3. CASE ExecuteCommit(c) \/ ExecuteAbort(c)
    BY <2>1, <2>3 DEF ExecuteCommit, ExecuteAbort, LedgerNext, TransferStep
  <2>4. CASE UNCHANGED ledgerVars
    BY <2>4
  <2>5. QED
    BY <1>2, <2>2, <2>3, <2>4
    DEF AdminStep, ApproveCheck, DeclineCheck, ReadPending, ExecutePreRead,
        approveSettlement, declineSettlement, WriteStatus, ExecuteClaim,
        ExecuteRefused
<1>3. ASSUME NEW c \in Clients, TransferBegun(c)
      PROVE  LedgerNext
  BY <1>3 DEF TransferBegun, TransferStep, LedgerNext
<1>4. ASSUME NEW c \in Clients, OtherTransfer(c)
      PROVE  LedgerNext
  BY <1>4 DEF OtherTransfer, TransferStep, LedgerNext
<1>5. ASSUME NEW c \in Clients, HandlerLost(c)
      PROVE  UNCHANGED ledgerVars
  BY <1>5 DEF HandlerLost
<1>6. QED
  BY <1>1, <1>2, <1>3, <1>4, <1>5 DEF SettlementNext, LedgerNext

-----------------------------------------------------------------------------
(* The inductive invariant *)

\* Without settlements and handlers at work the invariant holds.
LEMMA SettlementInitEstablishes == SettlementInit => SettlementInv
BY SettlementAssumption
DEF SettlementInit, SettlementInv, SettlementTypeOK, Statuses, Subjects, Claims,
    ClaimedSteps, Unspent, PaidOncePerApproval, SettledIsPaid

\* Steps that only move a client's handler on, without a claim.
LEMMA HandlerMovesPreserve ==
  ASSUME SettlementInv, NEW c \in Clients, step[c] \notin ClaimedSteps,
         NEW next \in {"idle"} \cup ReadOnlySteps,
         NEW s \in Settlements \cup {NoSettlement},
         next = "idle" \/ s \in Settlements,
         Proceed(c, next, s), UNCHANGED rowVars
  PROVE  SettlementInv'
<1> USE DEF SettlementInv
<1>1. SettlementTypeOK'
  BY DEF SettlementTypeOK, Proceed, rowVars
<1>2. Subjects'
  BY DEF Subjects, SettlementTypeOK, Proceed
<1>3. Claims'
  BY DEF Claims, SettlementTypeOK, Proceed, rowVars, ClaimedSteps, ReadOnlySteps
<1>4. Unspent' /\ PaidOncePerApproval' /\ SettledIsPaid'
  BY DEF Unspent, PaidOncePerApproval, SettledIsPaid, rowVars
<1>5. QED
  BY <1>1, <1>2, <1>3, <1>4

\* The writes by id alone wait for the row lock: they never touch a row that
\* an execution has claimed.
LEMMA WritesPreserve ==
  ASSUME SettlementInv, NEW c \in Clients,
         \/ requestSettlement(c)
         \/ approveSettlement(c)
         \/ declineSettlement(c)
         \/ cancelSettlement(c)
  PROVE  SettlementInv'
<1> USE DEF SettlementInv
<1>1. PICK outcome \in Statuses \ {"SETTLED"} :
        /\ step[c] \in ReadOnlySteps
        /\ status' = [status EXCEPT ![subject[c]] = outcome]
        /\ UNCHANGED <<transactionId, rowLock, payouts>>
        /\ Finish(c)
        /\ IF outcome = "APPROVED"
           THEN approvals' = [approvals EXCEPT ![subject[c]] = @ + 1]
           ELSE UNCHANGED approvals
  BY DEF requestSettlement, approveSettlement, declineSettlement,
         cancelSettlement, WriteStatus, ReadOnlySteps, Statuses
<1>2. subject[c] \in Settlements
  BY <1>1 DEF Subjects, ReadOnlySteps
<1>3. rowLock[subject[c]] = NoClient
  <2>1. CASE requestSettlement(c)
    BY <1>2, <2>1 DEF requestSettlement, Claims, SettlementTypeOK
  <2>2. CASE ~ requestSettlement(c)
    BY <2>2 DEF approveSettlement, declineSettlement, cancelSettlement,
                WriteStatus, Writable
  <2>3. QED
    BY <2>1, <2>2
<1>4. SettlementTypeOK'
  BY <1>1, <1>2 DEF SettlementTypeOK, Finish, Proceed
<1>5. Subjects'
  BY <1>1 DEF Subjects, SettlementTypeOK, Finish, Proceed
<1>6. Claims'
  BY <1>1, <1>2, <1>3, SettlementAssumption
  DEF Claims, SettlementTypeOK, Finish, Proceed, ClaimedSteps, ReadOnlySteps
<1>7. Unspent' /\ PaidOncePerApproval'
  BY <1>1, <1>2 DEF Unspent, PaidOncePerApproval, SettlementTypeOK
<1>8. SettledIsPaid'
  BY <1>1, <1>2 DEF SettledIsPaid, SettlementTypeOK
<1>9. QED
  BY <1>4, <1>5, <1>6, <1>7, <1>8

\* The claim of a row: nobody else has claimed it.
LEMMA ClaimPreserves ==
  ASSUME SettlementInv, NEW c \in Clients, ExecuteClaim(c)
  PROVE  SettlementInv'
<1> USE DEF SettlementInv
<1>1. subject[c] \in Settlements
  BY DEF Subjects, ExecuteClaim
<1>2. SettlementTypeOK' /\ Subjects'
  BY <1>1 DEF SettlementTypeOK, Subjects, ExecuteClaim, Proceed, ClaimedSteps
<1>3. Claims'
  BY <1>1, SettlementAssumption
  DEF Claims, SettlementTypeOK, ExecuteClaim, Writable, Proceed, ClaimedSteps
<1>4. Unspent' /\ PaidOncePerApproval' /\ SettledIsPaid'
  BY DEF Unspent, PaidOncePerApproval, SettledIsPaid, ExecuteClaim
<1>5. QED
  BY <1>2, <1>3, <1>4

\* The end of an execution, with or without its payout, gives up the row.
LEMMA ClaimEndsPreserve ==
  ASSUME SettlementInv, NEW c \in Clients, step[c] \in ClaimedSteps,
         \/ ExecuteCommit(c)
         \/ /\ Unlock(c) /\ Finish(c)
            /\ UNCHANGED <<status, transactionId, approvals, payouts>>
  PROVE  SettlementInv'
<1> USE DEF SettlementInv
<1>1. /\ subject[c] \in Settlements
      /\ status[subject[c]] = "APPROVED"
      /\ payouts[subject[c]] < approvals[subject[c]]
  BY DEF Subjects, Claims, Unspent, ClaimedSteps
<1>2. Unlock(c) /\ Finish(c) /\ UNCHANGED approvals
  BY DEF ExecuteCommit
<1>3. \/ /\ status' = [status EXCEPT ![subject[c]] = "SETTLED"]
         /\ transactionId' = [transactionId EXCEPT ![subject[c]] = TRUE]
         /\ payouts' = [payouts EXCEPT ![subject[c]] = @ + 1]
      \/ UNCHANGED <<status, transactionId, payouts>>
  BY DEF ExecuteCommit
<1>4. SettlementTypeOK' /\ Subjects'
  <2>1. /\ status' \in [Settlements -> Statuses]
        /\ payouts' \in [Settlements -> Nat]
    BY <1>1, <1>3 DEF SettlementTypeOK, Statuses
  <2>2. transactionId' \in [Settlements -> BOOLEAN]
    BY <1>1, <1>3 DEF SettlementTypeOK
  <2>3. /\ rowLock' \in [Settlements -> Clients \cup {NoClient}]
        /\ approvals' \in [Settlements -> Nat]
    BY <1>1, <1>2 DEF SettlementTypeOK, Unlock
  <2>4. /\ step' \in [Clients -> {"idle"} \cup ReadOnlySteps \cup ClaimedSteps]
        /\ subject' \in [Clients -> Settlements \cup {NoSettlement}]
        /\ Subjects'
    BY <1>1, <1>2 DEF SettlementTypeOK, Subjects, Finish, Proceed
  <2>5. QED
    BY <2>1, <2>2, <2>3, <2>4 DEF SettlementTypeOK
<1>5. Claims'
  <2>1. \A d \in Clients \ {c} : step'[d] = step[d] /\ subject'[d] = subject[d]
    BY <1>2 DEF SettlementTypeOK, Finish, Proceed
  <2>2. step'[c] = "idle"
    BY <1>2 DEF SettlementTypeOK, Finish, Proceed
  <2>3. /\ rowLock'[subject[c]] = NoClient
        /\ \A s \in Settlements \ {subject[c]} :
             rowLock'[s] = rowLock[s] /\ status'[s] = status[s]
    BY <1>1, <1>2, <1>3 DEF SettlementTypeOK, Unlock
  <2>4. \A d \in Clients \ {c} :
          ~ (step[d] \in ClaimedSteps /\ subject[d] = subject[c])
    BY <1>1 DEF Claims
  <2>5. \A s \in Settlements : rowLock[s] = c => s = subject[c]
    BY DEF Claims
  <2>6. QED
    BY <1>1, <2>1, <2>2, <2>3, <2>4, <2>5, SettlementAssumption
    DEF Claims, ClaimedSteps
<1>6. Unspent' /\ PaidOncePerApproval'
  BY <1>1, <1>2, <1>3 DEF Unspent, PaidOncePerApproval, SettlementTypeOK
<1>7. SettledIsPaid'
  BY <1>1, <1>3 DEF SettledIsPaid, SettlementTypeOK
<1>8. QED
  BY <1>4, <1>5, <1>6, <1>7

\* An execution that starts its transfer still has its row.
LEMMA PayPreserves ==
  ASSUME SettlementInv, NEW c \in Clients, ExecuteTransfer(c)
  PROVE  SettlementInv'
<1> USE DEF SettlementInv
<1>1. subject' = subject /\ step' = [step EXCEPT ![c] = "transfer"]
  BY DEF ExecuteTransfer, Proceed, SettlementTypeOK
<1>2. SettlementTypeOK' /\ Subjects'
  BY <1>1 DEF SettlementTypeOK, Subjects, ExecuteTransfer, rowVars, ClaimedSteps
<1>3. Claims'
  BY <1>1 DEF Claims, SettlementTypeOK, ExecuteTransfer, rowVars, ClaimedSteps
<1>4. Unspent' /\ PaidOncePerApproval' /\ SettledIsPaid'
  BY DEF Unspent, PaidOncePerApproval, SettledIsPaid, ExecuteTransfer, rowVars
<1>5. QED
  BY <1>2, <1>3, <1>4

\* Every step of the settlement service keeps the invariant.
LEMMA SettlementStepPreserves ==
  SettlementInv /\ [SettlementNext]_vars => SettlementInv'
<1> SUFFICES ASSUME SettlementInv, [SettlementNext]_vars
             PROVE  SettlementInv'
  OBVIOUS
<1>1. ASSUME UNCHANGED settlementVars
      PROVE  SettlementInv'
  BY <1>1
  DEF settlementVars, SettlementInv, SettlementTypeOK, Subjects, Claims,
      Unspent, PaidOncePerApproval, SettledIsPaid
<1>2. ASSUME NEW c \in Clients, NEW s \in Settlements,
             \/ RequestCheck(c, s)
             \/ ApproveCheck(c, s)
             \/ DeclineCheck(c, s)
             \/ CancelCheck(c, s)
             \/ ExecutePreRead(c, s)
      PROVE  SettlementInv'
  <2>1. PICK next \in ReadOnlySteps : Free(c) /\ Proceed(c, next, s)
                                      /\ UNCHANGED rowVars
    BY <1>2 DEF RequestCheck, ApproveCheck, DeclineCheck, CancelCheck,
                ReadPending, ExecutePreRead, ReadOnlySteps
  <2>2. step[c] \notin ClaimedSteps
    BY <2>1 DEF Free, ClaimedSteps
  <2>3. QED
    BY <2>1, <2>2, HandlerMovesPreserve
<1>3. ASSUME NEW c \in Clients,
             \/ requestSettlement(c)
             \/ approveSettlement(c)
             \/ declineSettlement(c)
             \/ cancelSettlement(c)
      PROVE  SettlementInv'
  BY <1>3, WritesPreserve
<1>4. ASSUME NEW c \in Clients, ExecuteClaim(c)
      PROVE  SettlementInv'
  BY <1>4, ClaimPreserves
<1>5. ASSUME NEW c \in Clients, ExecuteRefused(c)
      PROVE  SettlementInv'
  <2>1. step[c] \notin ClaimedSteps /\ Proceed(c, "idle", NoSettlement)
        /\ UNCHANGED rowVars
    BY <1>5 DEF ExecuteRefused, ClaimedSteps, Finish
  <2>2. QED
    BY <2>1, HandlerMovesPreserve
<1>6. ASSUME NEW c \in Clients, ExecuteTransfer(c)
      PROVE  SettlementInv'
  BY <1>6, PayPreserves
<1>7. ASSUME NEW c \in Clients, ExecuteCommit(c) \/ ExecuteAbort(c)
      PROVE  SettlementInv'
  BY <1>7, ClaimEndsPreserve DEF ExecuteCommit, ExecuteAbort, ClaimedSteps
<1>8. ASSUME NEW c \in Clients, HandlerLost(c)
      PROVE  SettlementInv'
  <2>1. CASE step[c] = "pay"
    BY <1>8, <2>1, ClaimEndsPreserve DEF HandlerLost, ClaimedSteps
  <2>2. CASE step[c] \in ReadOnlySteps
    <3>1. step[c] \notin ClaimedSteps /\ Proceed(c, "idle", NoSettlement)
          /\ UNCHANGED rowVars
      BY <1>8, <2>2 DEF HandlerLost, ReadOnlySteps, ClaimedSteps, Finish, rowVars
    <3>2. QED
      BY <3>1, HandlerMovesPreserve
  <2>3. QED
    BY <1>8, <2>1, <2>2 DEF HandlerLost
<1>9. CASE UNCHANGED vars
  BY <1>1, <1>9 DEF vars
<1>10. QED
  BY <1>1, <1>2, <1>3, <1>4, <1>5, <1>6, <1>7, <1>8, <1>9, SettlementAssumption
  DEF SettlementNext, ResidentStep, AdminStep, TransferBegun, OtherTransfer

-----------------------------------------------------------------------------

\* The invariant holds in every reachable state of the settlements.
THEOREM SettlementInvariant == SettlementSpec => []SettlementInv
BY SettlementInitEstablishes, SettlementStepPreserves, PTL DEF SettlementSpec

\* The rows, locks and handlers of settlements keep their types.
THEOREM SettlementTypeCorrect == SettlementSpec => []SettlementTypeOK
<1>1. SettlementInv => SettlementTypeOK
  BY DEF SettlementInv
<1>2. QED
  BY <1>1, SettlementInvariant, PTL

\* Executions of one settlement, however many there are and wherever they are
\* interrupted, burn credits at most once for each approval.
THEOREM SettlementPaysOncePerApproval == SettlementSpec => []PaidOncePerApproval
<1>1. SettlementInv => PaidOncePerApproval
  BY DEF SettlementInv
<1>2. QED
  BY <1>1, SettlementInvariant, PTL

\* A settlement is SETTLED only together with the transaction that paid it.
THEOREM SettlementSettledIsPaid == SettlementSpec => []SettledIsPaid
<1>1. SettlementInv => SettledIsPaid
  BY DEF SettlementInv
<1>2. QED
  BY <1>1, SettlementInvariant, PTL

\* The executions of settlements, running in transactions of their own around
\* transferCredits, are clients of the ledger like any other.
THEOREM SettlementImplementsLedger == SettlementSpec => LedgerSpec
<1>1. SettlementInit => LedgerInit
  BY DEF SettlementInit
<1>2. QED
  BY <1>1, SettlementStepIsLedgerStep, SettlementInvariant, PTL
  DEF SettlementSpec, LedgerSpec

\* Hence paying out settlements overdraws no wallet, although a request is
\* checked against a balance that nothing reserves, keeps the ledger balanced,
\* and never waits for a lock in a circle.
THEOREM SettlementsKeepLedger ==
  SettlementSpec => [](NoOverdraft /\ ZeroSum /\ NoWaitCycle)
BY SettlementImplementsLedger, LedgerNoOverdraft, LedgerZeroSum,
   LedgerNoWaitCycle, PTL

-----------------------------------------------------------------------------
(* What was burnt *)

\* The transfer of an execution is a payout of its settlement, and no other
\* client asks for a payout.
PayoutCalls ==
  \A c \in Clients :
    /\ step[c] = "transfer" => call[c] \in Payouts(subject[c])
    /\ step[c] # "transfer" /\ pc[c] # "idle" =>
         \A s \in Settlements : call[c] \notin Payouts(s)

\* Every step of the settlement service keeps track of its payouts.
LEMMA PayoutCallsPreserved ==
  ASSUME LedgerTypeOK, SettlementTypeOK, PayoutCalls, [SettlementNext]_vars
  PROVE  PayoutCalls'
<1> USE DEF LedgerTypeOK, SettlementTypeOK
<1>1. ASSUME NEW c \in Clients,
             UNCHANGED <<pc, call>>,
             \A d \in Clients \ {c} : step'[d] = step[d] /\ subject'[d] = subject[d],
             step[c] # "transfer", step'[c] # "transfer"
      PROVE  PayoutCalls'
  BY <1>1 DEF PayoutCalls
<1>2. ASSUME NEW c \in Clients,
             \/ \E s \in Settlements :
                  \/ RequestCheck(c, s) \/ CancelCheck(c, s)
                  \/ ApproveCheck(c, s) \/ DeclineCheck(c, s)
                  \/ ExecutePreRead(c, s)
             \/ requestSettlement(c) \/ cancelSettlement(c)
             \/ approveSettlement(c) \/ declineSettlement(c)
             \/ ExecuteClaim(c) \/ ExecuteRefused(c) \/ HandlerLost(c)
      PROVE  PayoutCalls'
  <2>1. UNCHANGED <<pc, call>> /\ step[c] # "transfer"
    BY <1>2
    DEF RequestCheck, CancelCheck, ApproveCheck, DeclineCheck, ReadPending,
        ExecutePreRead, requestSettlement, cancelSettlement, approveSettlement,
        declineSettlement, WriteStatus, ExecuteClaim, ExecuteRefused,
        HandlerLost, Free, ReadOnlySteps, ledgerVars
  <2>2. \E next \in {"idle", "pay"} \cup ReadOnlySteps,
           s \in Settlements \cup {NoSettlement} : Proceed(c, next, s)
    BY <1>2
    DEF RequestCheck, CancelCheck, ApproveCheck, DeclineCheck, ReadPending,
        ExecutePreRead, requestSettlement, cancelSettlement, approveSettlement,
        declineSettlement, WriteStatus, ExecuteClaim, ExecuteRefused,
        HandlerLost, Finish, ReadOnlySteps
  <2>3. /\ \A d \in Clients \ {c} :
             step'[d] = step[d] /\ subject'[d] = subject[d]
        /\ step'[c] # "transfer"
    BY <2>2 DEF Proceed, ReadOnlySteps
  <2>4. QED
    BY <1>1, <2>1, <2>3
<1>3. ASSUME NEW c \in Clients, ExecuteTransfer(c)
      PROVE  PayoutCalls'
  <2>1. PICK type \in SettlementTypes :
               StartTransfer(c, PayoutRequest(subject[c], type))
    BY <1>3 DEF ExecuteTransfer
  <2>2. PayoutRequest(subject[c], type) \in Payouts(subject[c])
    BY DEF Payouts
  <2>3. QED
    BY <1>3, <2>1, <2>2 DEF ExecuteTransfer, StartTransfer, Proceed, PayoutCalls
<1>4. ASSUME NEW c \in Clients, ExecuteCommit(c) \/ ExecuteAbort(c)
      PROVE  PayoutCalls'
  BY <1>4 DEF ExecuteCommit, ExecuteAbort, Reject, Rollback, PostEntries,
              EndTransfer, Finish, Proceed, PayoutCalls
<1>5. ASSUME NEW c \in Clients, TransferBegun(c)
      PROVE  PayoutCalls'
  <2>1. /\ UNCHANGED <<call, step, subject>>
        /\ \A d \in Clients : pc'[d] # "idle" => pc[d] # "idle"
    BY <1>5 DEF TransferBegun, ReadFees, ReadWallets, AcquireLock, CheckFunds,
                settlementVars, IsNextKey
  <2>2. QED
    BY <2>1 DEF PayoutCalls
<1>6. ASSUME NEW c \in Clients, OtherTransfer(c)
      PROVE  PayoutCalls'
  <2>1. step[c] = "idle" /\ UNCHANGED <<step, subject>>
    BY <1>6 DEF OtherTransfer, settlementVars
  <2>2. ASSUME NEW r \in Requests,
               \A s \in Settlements : r \notin Payouts(s),
               StartTransfer(c, r)
        PROVE  PayoutCalls'
    BY <2>1, <2>2 DEF StartTransfer, PayoutCalls
  <2>3. ASSUME EndTransfer(c)
        PROVE  PayoutCalls'
    BY <2>1, <2>3 DEF EndTransfer, PayoutCalls
  <2>4. QED
    BY <1>6, <2>2, <2>3 DEF OtherTransfer, Reject, PostEntries, Rollback
<1>7. CASE Administration /\ UNCHANGED settlementVars
  BY <1>7 DEF Administration, recordDeposit, convertFiatToKcrd, SetFloor,
              ApplySchedule, clientVars, settlementVars, PayoutCalls
<1>8. CASE UNCHANGED vars
  BY <1>8 DEF vars, ledgerVars, settlementVars, PayoutCalls
<1>9. QED
  BY <1>2, <1>3, <1>4, <1>5, <1>6, <1>7, <1>8, SettlementAssumption
  DEF SettlementNext, ResidentStep, AdminStep

\* What a commit adds to the burn wallet.
LEMMA PostBurns ==
  ASSUME OnlyPayoutsBurn, LedgerInv, NEW c \in Clients, PostEntries(c)
  PROVE  bal'["settlement_burn"] =
           IF call[c].to = "settlement_burn"
           THEN bal["settlement_burn"] + split[c].net
           ELSE bal["settlement_burn"]
<1> DEFINE r == call[c]
           s == split[c]
           w == "settlement_burn"
<1>1. r \in Requests /\ s \in FeeSplit
  BY PostingKnows DEF PostEntries
<1>2. s.net \in Int /\ r.from # w
  BY <1>1 DEF FeeSplit, OnlyPayoutsBurn
<1>3. w \in Wallets
  BY DEF Wallets, SystemWallets
<1>4. /\ bal[w] \in Int
      /\ bal'[w] = bal[w] + TransferCredit(w, r, s) - TransferDebit(w, r)
  BY <1>3 DEF PostEntries, LedgerInv, LedgerTypeOK
<1> HIDE DEF r, s
<1>5. TransferCredit(w, r, s) = IF r.to = w THEN s.net ELSE 0
  BY <1>2 DEF TransferCredit, On
<1>6. TransferDebit(w, r) = 0
  BY <1>2 DEF TransferDebit, On
<1>7. bal'[w] = IF r.to = w THEN bal[w] + s.net ELSE bal[w]
  BY <1>2, <1>4, <1>5, <1>6
<1>8. QED
  BY <1>7 DEF r, s

\* A step other than the commit of an execution leaves the rows' transactions
\* and the burn wallet alone.
LEMMA OnlyCommitsBurn ==
  ASSUME OnlyPayoutsBurn, LedgerInv, PayoutCalls, [SettlementNext]_vars
  PROVE  \/ \E c \in Admins : ExecuteCommit(c)
         \/ /\ UNCHANGED transactionId
            /\ bal'["settlement_burn"] = bal["settlement_burn"]
<1> DEFINE Quiet == /\ UNCHANGED transactionId
                    /\ bal'["settlement_burn"] = bal["settlement_burn"]
<1>1. ASSUME NEW c \in Residents, ResidentStep(c)
      PROVE  Quiet
  BY <1>1 DEF ResidentStep, RequestCheck, CancelCheck, ReadPending,
              requestSettlement, cancelSettlement, WriteStatus, ledgerVars,
              rowVars
<1>2. ASSUME NEW c \in Admins, AdminStep(c), ~ ExecuteCommit(c)
      PROVE  Quiet
  BY <1>2 DEF AdminStep, ApproveCheck, DeclineCheck, ReadPending,
              ExecutePreRead, approveSettlement, declineSettlement, WriteStatus,
              ExecuteClaim, ExecuteRefused, ExecuteTransfer, StartTransfer,
              ExecuteAbort, Reject, Rollback, ledgerVars, rowVars, sums
<1>3. ASSUME NEW c \in Clients, TransferBegun(c)
      PROVE  Quiet
  BY <1>3 DEF TransferBegun, ReadFees, ReadWallets, AcquireLock, CheckFunds,
              settlementVars, sums
<1>4. ASSUME NEW c \in Clients, OtherTransfer(c)
      PROVE  Quiet
  <2>1. UNCHANGED transactionId /\ step[c] = "idle"
    BY <1>4 DEF OtherTransfer, settlementVars
  <2>2. CASE PostEntries(c)
    <3>1. call[c] \in Requests /\ pc[c] = "posting"
      BY <2>2, PostingKnows DEF PostEntries
    <3>2. \A s \in Settlements : call[c] \notin Payouts(s)
      BY <2>1, <3>1 DEF PayoutCalls
    <3>3. call[c].to # "settlement_burn"
      BY <3>1, <3>2 DEF OnlyPayoutsBurn
    <3>4. QED
      BY <2>1, <2>2, <3>3, PostBurns
  <2>3. CASE ~ PostEntries(c)
    BY <1>4, <2>1, <2>3 DEF OtherTransfer, StartTransfer, Reject, Rollback, sums
  <2>4. QED
    BY <2>2, <2>3
<1>5. ASSUME NEW c \in Clients, HandlerLost(c)
      PROVE  Quiet
  BY <1>5 DEF HandlerLost, ledgerVars
<1>6. CASE Administration /\ UNCHANGED settlementVars
  <2>1. /\ "settlement_burn" \in Wallets
        /\ "settlement_burn" \notin Users
        /\ bal["settlement_burn"] \in Int
    BY LedgerAssumption DEF Wallets, SystemWallets, LedgerInv, LedgerTypeOK
  <2>2. ASSUME NEW u \in Users, NEW k \in Deposits, recordDeposit(u, k)
        PROVE  bal'["settlement_burn"] = bal["settlement_burn"]
    <3>1. DepositDelta("settlement_burn", u, k) = 0
      BY <2>1 DEF DepositDelta, On
    <3>2. QED
      BY <2>1, <2>2, <3>1 DEF recordDeposit
  <2>3. ASSUME NEW u \in Users, NEW conversion \in Conversions,
               convertFiatToKcrd(u, conversion[1], conversion[2])
        PROVE  bal'["settlement_burn"] = bal["settlement_burn"]
    <3>1. ConversionDelta("settlement_burn", u, conversion[1], conversion[2]) = 0
      BY <2>1 DEF ConversionDelta, On
    <3>2. QED
      BY <2>1, <2>3, <3>1 DEF convertFiatToKcrd
  <2>4. QED
    BY <1>6, <2>2, <2>3
    DEF Administration, SetFloor, ApplySchedule, sums, settlementVars
<1>7. CASE UNCHANGED vars
  BY <1>7 DEF vars, ledgerVars, settlementVars
<1>8. QED
  BY <1>1, <1>2, <1>3, <1>4, <1>5, <1>6, <1>7 DEF SettlementNext

\* The rows and the burn wallet move together: an execution burns what its row
\* is to pay, and as its settlement was approved once only, it was not burnt
\* before.
LEMMA BurnStaysMatched ==
  ASSUME OnlyPayoutsBurn, OneSchedule, LedgerInv, LedgerInv', SettlementInv,
         PayoutCalls, BurnMatchesRows, [SettlementNext]_vars
  PROVE  BurnMatchesRows'
<1>1. PICK only \in Schedules :
             /\ Schedules = {only}
             /\ \A type \in SettlementTypes :
                  only[type] = only["RESIDENT_SETTLEMENT"]
  BY DEF OneSchedule
<1>2. schedule = only /\ schedule' = only
  BY <1>1 DEF LedgerInv, LedgerTypeOK
<1> SUFFICES ASSUME \A s \in Settlements : approvals'[s] <= 1
             PROVE  bal'["settlement_burn"] =
                      SumFunction([s \in Settlements |-> Burnt(s)'])
  BY DEF BurnMatchesRows
<1> DEFINE Due(s) == FeeFor(PayoutRequest(s, "RESIDENT_SETTLEMENT"), only).net
<1>3. \A s \in Settlements : Due(s) \in Int
  <2>1. "RESIDENT_SETTLEMENT" \in SettlementTypes
    BY SettlementAssumption DEF SettlementTypes, settlementTypeForRole
  <2>2. \A s \in Settlements :
          PayoutRequest(s, "RESIDENT_SETTLEMENT") \in Requests
    BY <2>1, SettlementAssumption DEF Payouts
  <2>3. QED
    BY <1>1, <2>2, FeeForOK DEF FeeSplit
<1>4. PICK f : f = [s \in Settlements |-> IF transactionId[s] THEN Due(s) ELSE 0]
  OBVIOUS
<1>5. PICK g : g = [s \in Settlements |-> IF transactionId'[s] THEN Due(s) ELSE 0]
  OBVIOUS
<1>6. g = [s \in Settlements |-> Burnt(s)']
  BY <1>2, <1>5 DEF Burnt, PayoutRequest
<1>7. f = [s \in Settlements |-> Burnt(s)]
  BY <1>2, <1>4 DEF Burnt
<1>8. \A s \in Settlements : approvals[s] <= 1
  <2>1. \/ UNCHANGED approvals
        \/ \E c \in Admins : approveSettlement(c)
    BY DEF SettlementNext, ResidentStep, AdminStep, TransferBegun,
           OtherTransfer, HandlerLost, RequestCheck, CancelCheck, ApproveCheck,
           DeclineCheck, ReadPending, ExecutePreRead, requestSettlement,
           cancelSettlement, declineSettlement, ExecuteClaim, ExecuteRefused,
           ExecuteTransfer, ExecuteCommit, ExecuteAbort, rowVars,
           settlementVars, vars
  <2>2. CASE UNCHANGED approvals
    BY <2>2
  <2>3. ASSUME NEW c \in Admins, approveSettlement(c)
        PROVE  \A s \in Settlements : approvals[s] <= 1
    <3>1. approvals' = [approvals EXCEPT ![subject[c]] = approvals[subject[c]] + 1]
      BY <2>3 DEF approveSettlement
    <3>2. \A s \in Settlements :
            approvals[s] \in Nat /\ approvals[s] <= approvals'[s]
      BY <3>1 DEF SettlementInv, SettlementTypeOK
    <3>3. \A s \in Settlements : approvals'[s] \in Nat
      BY <3>1, <3>2 DEF SettlementInv, SettlementTypeOK
    <3>4. QED
      BY <3>2, <3>3
  <2>4. QED
    BY <2>1, <2>2, <2>3
<1>9. bal["settlement_burn"] = SumFunction(f)
  BY <1>7, <1>8 DEF BurnMatchesRows
<1>10. ASSUME NEW c \in Admins, ExecuteCommit(c)
       PROVE  bal'["settlement_burn"] = SumFunction(g)
  <2> DEFINE t == subject[c]
  <2>1. c \in Clients /\ step[c] = "transfer" /\ PostEntries(c)
    BY <1>10, SettlementAssumption DEF ExecuteCommit
  <2>2. t \in Settlements /\ call[c] \in Payouts(t)
    BY <2>1 DEF SettlementInv, Subjects, PayoutCalls
  <2>3. ~ transactionId[t]
    <3>1. status[t] = "APPROVED"
      BY <2>1, <2>2 DEF SettlementInv, Claims, ClaimedSteps
    <3>2. payouts[t] \in Nat /\ approvals[t] \in Nat
      BY <2>2 DEF SettlementInv, SettlementTypeOK
    <3>3. payouts[t] < approvals[t]
      BY <2>2, <3>1 DEF SettlementInv, Unspent
    <3>4. ~ (payouts[t] > 0)
      BY <1>8, <2>2, <3>2, <3>3
    <3>5. QED
      BY <2>2, <3>4 DEF SettlementInv, SettledIsPaid
  <2>4. split[c].net = Due(t) /\ call[c].to = "settlement_burn"
    <3>1. PICK type \in SettlementTypes : call[c] = PayoutRequest(t, type)
      BY <2>2 DEF Payouts
    <3>2. only[type] = only["RESIDENT_SETTLEMENT"]
      BY <1>1
    <3>3. FeeFor(call[c], only) = FeeFor(PayoutRequest(t, "RESIDENT_SETTLEMENT"), only)
      BY <3>1, <3>2 DEF FeeFor, PayoutRequest
    <3>4. split[c].net = FeeFor(call[c], only).net
      BY <1>1, <2>1 DEF PostEntries, LedgerInv, CallsServed
    <3>5. QED
      BY <3>1, <3>3, <3>4 DEF PayoutRequest
  <2>5. bal'["settlement_burn"] = bal["settlement_burn"] + Due(t)
    BY <2>1, <2>4, PostBurns
  <2>6. /\ transactionId \in [Settlements -> BOOLEAN]
        /\ transactionId' = [transactionId EXCEPT ![t] = TRUE]
    BY <1>10 DEF ExecuteCommit, SettlementInv, SettlementTypeOK
  <2>7. /\ \A s \in Settlements \ {t} : g[s] = f[s]
        /\ f[t] = 0 /\ g[t] = Due(t)
    BY <1>4, <1>5, <2>2, <2>3, <2>6
  <2>8. f \in [Settlements -> Int] /\ g \in [Settlements -> Int]
    BY <1>3, <1>4, <1>5
  <2>9. /\ SumFunction(f) \in Int
        /\ SumFunction(g) = SumFunction(f) + (g[t] - f[t])
    BY <2>2, <2>7, <2>8, SettlementAssumption, SumChanges
  <2>10. QED
    BY <1>3, <1>9, <2>2, <2>5, <2>7, <2>9
<1>11. ASSUME UNCHANGED transactionId,
              bal'["settlement_burn"] = bal["settlement_burn"]
       PROVE  bal'["settlement_burn"] = SumFunction(g)
  <2>1. g = f
    BY <1>4, <1>5, <1>11
  <2>2. QED
    BY <1>9, <1>11, <2>1
<1>12. bal'["settlement_burn"] = SumFunction(g)
  <2>1. \/ \E c \in Admins : ExecuteCommit(c)
        \/ /\ UNCHANGED transactionId
           /\ bal'["settlement_burn"] = bal["settlement_burn"]
    BY OnlyCommitsBurn
  <2>2. QED
    BY <1>10, <1>11, <2>1
<1>13. QED
  BY <1>6, <1>12

\* Under one schedule with one rule for all settlements, and when nothing but
\* payouts goes to the burn wallet, it has received what the rows with a
\* transaction were to pay.
THEOREM SettlementBurnMatchesRows ==
  ASSUME OnlyPayoutsBurn, OneSchedule
  PROVE  SettlementSpec => []BurnMatchesRows
<1>1. SettlementInit => BurnMatchesRows /\ PayoutCalls
  <2> SUFFICES ASSUME SettlementInit
               PROVE  BurnMatchesRows /\ PayoutCalls
    OBVIOUS
  <2>1. PayoutCalls
    BY DEF SettlementInit, LedgerInit, PayoutCalls
  <2>2. bal["settlement_burn"] = 0
    BY DEF SettlementInit, LedgerInit, Wallets, SystemWallets
  <2>3. [s \in Settlements |-> Burnt(s)] = [s \in Settlements |-> 0]
    BY DEF SettlementInit, Burnt
  <2>4. SumFunction([s \in Settlements |-> 0]) = 0
    BY SettlementAssumption, SumOfZeros
  <2>5. QED
    BY <2>1, <2>2, <2>3, <2>4 DEF BurnMatchesRows
<1>2. LedgerInv /\ SettlementInv /\ PayoutCalls /\ [SettlementNext]_vars
        => PayoutCalls'
  BY PayoutCallsPreserved DEF LedgerInv, SettlementInv
<1>3. LedgerInv /\ LedgerInv' /\ SettlementInv /\ PayoutCalls /\ BurnMatchesRows
        /\ [SettlementNext]_vars => BurnMatchesRows'
  BY BurnStaysMatched
<1>4. SettlementSpec => []LedgerInv
  BY SettlementImplementsLedger, LedgerInvariant, PTL
<1>5. QED
  BY <1>1, <1>2, <1>3, <1>4, SettlementInvariant, PTL DEF SettlementSpec
=============================================================================
