---------------------------- MODULE EngineProofs ----------------------------
(***************************************************************************)
(* Facts about the arithmetic of PaperEngine and RiskEngine, for every lot *)
(* size, every fee rate, every policy and every price and quantity; and    *)
(* about sums over the rows of a table, for every finite table.            *)
(***************************************************************************)
EXTENDS RiskEngine, Functions, FiniteSetTheorems, WellFoundedInduction, TLAPS

-----------------------------------------------------------------------------
(* Integer division, from its definition. *)

\* Floor division leaves a remainder from 0 to below the divisor.
LEMMA DivisionBounds ==
  ASSUME NEW n \in Int, NEW d \in Nat \ {0}
  PROVE  /\ n \div d \in Int
         /\ d * (n \div d) <= n
         /\ n < d * (n \div d) + d
  OBVIOUS

\* A sum times a factor.
LEMMA Distributes ==
  ASSUME NEW m \in Int, NEW n \in Int, NEW d \in Int
  PROVE  /\ m * d \in Int /\ n * d \in Int
         /\ (m + n) * d = m * d + n * d /\ (m - n) * d = m * d - n * d
OBVIOUS

\* Multiples of d of two different integers are at least d apart.
LEMMA ProductMonotone ==
  ASSUME NEW a \in Int, NEW b \in Int, NEW d \in Nat \ {0}, a < b
  PROVE  d * a + d <= d * b
<1>1. b - a \in Nat \ {0}
  OBVIOUS
<1>2. \A k \in Nat \ {0} : d * k >= d
  OBVIOUS
<1>3. d * (b - a) >= d
  BY <1>1, <1>2
<1>4. d * (b - a) = d * b - d * a
  OBVIOUS
<1>5. d * a \in Int /\ d * b \in Int
  OBVIOUS
<1> QED
  BY <1>3, <1>4, <1>5

-----------------------------------------------------------------------------
(* Rounding *)

\* HalfUp returns the nearest tick: it is off by at most half of one.
LEMMA HalfUpError ==
  ASSUME NEW n \in Int, NEW d \in Nat \ {0}
  PROVE  /\ HalfUp(n, d) \in Int
         /\ 2 * (d * HalfUp(n, d) - n) <= d
         /\ 2 * (n - d * HalfUp(n, d)) <= d
<1> DEFINE q == (2 * n + d) \div (2 * d)
<1>1. 2 * n + d \in Int /\ 2 * d \in Nat \ {0}
  OBVIOUS
<1>2. q \in Int /\ (2 * d) * q <= 2 * n + d /\ 2 * n + d < (2 * d) * q + 2 * d
  BY <1>1, DivisionBounds
<1>3. d * q \in Int /\ (2 * d) * q = 2 * (d * q)
  BY <1>2
<1> QED
  BY <1>2, <1>3 DEF HalfUp

\* What lies between two whole ticks is rounded to between them.
LEMMA HalfUpBetween ==
  ASSUME NEW n \in Int, NEW d \in Nat \ {0}, NEW lo \in Int, NEW hi \in Int,
         d * lo <= n, n <= d * hi
  PROVE  lo <= HalfUp(n, d) /\ HalfUp(n, d) <= hi
<1> DEFINE h == HalfUp(n, d)
<1>1. h \in Int /\ 2 * (d * h - n) <= d /\ 2 * (n - d * h) <= d
  BY HalfUpError
<1>2. d * h \in Int /\ d * lo \in Int /\ d * hi \in Int
  BY <1>1
<1>3. ASSUME h < lo PROVE FALSE
  <2>1. d * h + d <= d * lo
    BY <1>1, <1>3, ProductMonotone
  <2> QED
    BY <1>1, <1>2, <2>1
<1>4. ASSUME hi < h PROVE FALSE
  <2>1. d * hi + d <= d * h
    BY <1>1, <1>4, ProductMonotone
  <2> QED
    BY <1>1, <1>2, <2>1
<1> QED
  BY <1>1, <1>3, <1>4

\* A natural number is rounded to a natural number.
LEMMA HalfUpNat ==
  ASSUME NEW n \in Nat, NEW d \in Nat \ {0}
  PROVE  HalfUp(n, d) \in Nat
<1>1. d * 0 <= n /\ n <= d * n
  OBVIOUS
<1>2. 0 <= HalfUp(n, d)
  BY <1>1, HalfUpBetween
<1> QED
  BY <1>2, HalfUpError

\* Rounding to a tick gives a whole tick, and keeps the sign of what is >= 0.
LEMMA RoundTicksInt ==
  ASSUME NEW n \in Int, NEW d \in Nat \ {0}
  PROVE  /\ RoundTicks(n, d) \in Int
         /\ n >= 0 => RoundTicks(n, d) \in Nat
<1>1. CASE n >= 0
  BY <1>1, HalfUpNat DEF RoundTicks
<1>2. CASE n < 0
  <2>1. -n \in Nat
    BY <1>2
  <2>2. HalfUp(-n, d) \in Nat
    BY <2>1, HalfUpNat
  <2> QED
    BY <1>2, <2>2 DEF RoundTicks
<1> QED
  BY <1>1, <1>2

\* RoundTicks, which also takes negative amounts, is off by at most half a tick.
LEMMA RoundTicksError ==
  ASSUME NEW n \in Int, NEW d \in Nat \ {0}
  PROVE  /\ 2 * (RoundTicks(n, d) * d - n) <= d
         /\ 2 * (n - RoundTicks(n, d) * d) <= d
<1>1. CASE n >= 0
  <2> DEFINE h == HalfUp(n, d)
  <2>1. h \in Int /\ 2 * (d * h - n) <= d /\ 2 * (n - d * h) <= d
    BY HalfUpError
  <2>2. RoundTicks(n, d) * d = d * h /\ d * h \in Int
    BY <1>1, <2>1 DEF RoundTicks
  <2> QED
    BY <2>1, <2>2
<1>2. CASE n < 0
  <2> DEFINE h == HalfUp(-n, d)
  <2>1. h \in Int /\ 2 * (d * h + n) <= d /\ 2 * (-n - d * h) <= d
    BY HalfUpError
  <2>2. RoundTicks(n, d) * d = -(d * h) /\ d * h \in Int
    BY <1>2, <2>1 DEF RoundTicks
  <2> QED
    BY <2>1, <2>2
<1> QED
  BY <1>1, <1>2

-----------------------------------------------------------------------------
(* Types of what pricing.py and engine.py compute *)

\* A notional, a fee and the cash a BUY requires are never negative.
LEMMA FeeNat ==
  ASSUME NEW qty \in Nat, NEW price \in Nat
  PROVE  /\ Notional(qty, price) \in Nat
         /\ Fee(qty, price) \in Nat
         /\ RequiredCash(qty, price) \in Nat
<1>1. Notional(qty, price) \in Nat
  BY DEF Notional
<1>2. Notional(qty, price) * FeeNum \in Nat
  BY <1>1, EngineAssumption
<1>3. Lot * FeeDen \in Nat \ {0}
  BY EngineAssumption
<1>4. Fee(qty, price) \in Nat
  BY <1>2, <1>3, HalfUpNat DEF Fee
<1>5. Fee(qty, price) * Lot \in Nat
  BY <1>4, EngineAssumption
<1> QED
  BY <1>1, <1>4, <1>5 DEF RequiredCash

\* A BUY that the cash check lets through never overdraws the account.
LEMMA BuyLeavesCash ==
  ASSUME NEW funds \in Nat, NEW qty \in Nat, NEW price \in Nat,
         RequiredCash(qty, price) <= funds * Lot
  PROVE  CashAfterBuy(funds, qty, price) \in Nat
<1>1. funds * Lot \in Nat /\ RequiredCash(qty, price) \in Nat
  BY FeeNat, EngineAssumption
<1>2. funds * Lot - RequiredCash(qty, price) \in Int
      /\ funds * Lot - RequiredCash(qty, price) >= 0
  BY <1>1
<1>3. Lot \in Nat \ {0}
  BY EngineAssumption
<1> QED
  BY <1>2, <1>3, RoundTicksInt DEF CashAfterBuy

\* The balance a SELL writes is a whole tick, though it may be negative.
LEMMA SellCashInt ==
  ASSUME NEW funds \in Nat, NEW qty \in Nat, NEW price \in Nat, NEW fee \in Nat
  PROVE  CashAfterSell(funds, qty, price, fee) \in Int
<1>1. funds * Lot \in Int /\ Notional(qty, price) \in Int /\ fee * Lot \in Int
  BY FeeNat, EngineAssumption
<1>2. funds * Lot + Notional(qty, price) - fee * Lot \in Int
  BY <1>1
<1>3. Lot \in Nat \ {0}
  BY EngineAssumption
<1> QED
  BY <1>2, <1>3, RoundTicksInt DEF CashAfterSell

\* The weighted average lies between the average before and the price paid.
LEMMA AverageBetween ==
  ASSUME NEW q \in Nat, NEW avg \in Nat, NEW add \in Nat \ {0}, NEW price \in Nat,
         NEW lo \in Nat, NEW hi \in Nat,
         lo <= price, price <= hi,
         q > 0 => lo <= avg /\ avg <= hi
  PROVE  /\ WeightedAverageEntry(q, avg, add, price) \in Nat
         /\ lo <= WeightedAverageEntry(q, avg, add, price)
         /\ WeightedAverageEntry(q, avg, add, price) <= hi
<1>1. CASE q = 0
  BY <1>1 DEF WeightedAverageEntry
<1>2. CASE q > 0
  <2> DEFINE n == q * avg + add * price
             d == q + add
  <2>1. d \in Nat \ {0} /\ n \in Nat
    OBVIOUS
  <2>2. q * lo <= q * avg /\ q * avg <= q * hi
    BY <1>2
  <2>3. add * lo <= add * price /\ add * price <= add * hi
    OBVIOUS
  <2>4. d * lo = q * lo + add * lo /\ d * hi = q * hi + add * hi
    OBVIOUS
  <2>5. d * lo <= n /\ n <= d * hi
    BY <2>2, <2>3, <2>4
  <2>6. lo <= HalfUp(n, d) /\ HalfUp(n, d) <= hi
    BY <2>1, <2>5, HalfUpBetween
  <2>7. HalfUp(n, d) \in Nat
    BY <2>1, HalfUpNat
  <2> QED
    BY <1>2, <2>6, <2>7 DEF WeightedAverageEntry
<1> QED
  BY <1>1, <1>2

\* An average entry price is a natural number of ticks.
LEMMA AverageNat ==
  ASSUME NEW q \in Nat, NEW avg \in Nat, NEW add \in Nat \ {0}, NEW price \in Nat
  PROVE  WeightedAverageEntry(q, avg, add, price) \in Nat
<1>1. 0 <= price /\ price <= avg + price /\ 0 <= avg /\ avg <= avg + price
      /\ avg + price \in Nat
  OBVIOUS
<1> QED
  BY <1>1, AverageBetween

\* A realized P/L is a whole number of ticks.
LEMMA RealizedInt ==
  ASSUME NEW avg \in Nat, NEW price \in Nat, NEW qty \in Nat, NEW fee \in Nat
  PROVE  RealizedPnl(avg, price, qty, fee) \in Int
<1>1. (price - avg) * qty \in Int /\ fee * Lot \in Int
  BY EngineAssumption
<1>2. (price - avg) * qty - fee * Lot \in Int
  BY <1>1
<1> QED
  BY <1>2, RoundTicksInt, EngineAssumption DEF RealizedPnl

\* A BUY moves quantity * average by its notional, up to half a tick per lot
\* then held.
LEMMA AverageDrift ==
  ASSUME NEW q \in Nat, NEW avg \in Nat, NEW add \in Nat \ {0}, NEW price \in Nat
  PROVE  LET new == (q + add) * WeightedAverageEntry(q, avg, add, price)
         IN /\ new \in Int
            /\ 2 * (q * avg + add * price - new) <= q + add
            /\ 2 * (new - q * avg - add * price) <= q + add
<1>1. CASE q = 0
  <2>1. WeightedAverageEntry(q, avg, add, price) = price
    BY <1>1 DEF WeightedAverageEntry
  <2>2. q * avg = 0 /\ (q + add) * price = add * price /\ add * price \in Int
    BY <1>1
  <2> QED
    BY <2>1, <2>2
<1>2. CASE q > 0
  <2> DEFINE n == q * avg + add * price
             d == q + add
             h == HalfUp(n, d)
  <2>1. n \in Int /\ d \in Nat \ {0} /\ q * avg \in Int /\ add * price \in Int
    OBVIOUS
  <2>2. h \in Int /\ 2 * (d * h - n) <= d /\ 2 * (n - d * h) <= d
    BY <2>1, HalfUpError
  <2>3. d * h \in Int
    BY <2>1, <2>2
  <2>4. WeightedAverageEntry(q, avg, add, price) = h
    BY <1>2 DEF WeightedAverageEntry
  <2>5. /\ 2 * (q * avg + add * price - d * h) <= d
        /\ 2 * (d * h - q * avg - add * price) <= d
    BY <2>1, <2>2, <2>3
  <2> QED
    BY <2>3, <2>4, <2>5
<1> QED
  BY <1>1, <1>2

-----------------------------------------------------------------------------
(* Cardinalities *)

LEMMA SubsetSize ==
  ASSUME NEW S, NEW T, IsFiniteSet(S), T \subseteq S
  PROVE  /\ IsFiniteSet(T)
         /\ Cardinality(T) \in Nat /\ Cardinality(S) \in Nat
         /\ Cardinality(T) <= Cardinality(S)
<1>1. T \in SUBSET S
  OBVIOUS
<1>2. IsFiniteSet(T) /\ Cardinality(T) <= Cardinality(S)
  BY <1>1, FS_Subset
<1> QED
  BY <1>2, FS_CardinalityType

\* Adding one element adds at most one.
LEMMA OneMore ==
  ASSUME NEW S, NEW T, NEW x, IsFiniteSet(S), T \subseteq S \cup {x}
  PROVE  Cardinality(T) \in Nat /\ Cardinality(T) <= Cardinality(S) + 1
<1>1. Cardinality(S) \in Nat
  BY FS_CardinalityType
<1>2. /\ IsFiniteSet(S \cup {x})
      /\ Cardinality(S \cup {x}) = IF x \in S THEN Cardinality(S) ELSE Cardinality(S) + 1
  BY FS_AddElement
<1>3. Cardinality(T) \in Nat /\ Cardinality(T) <= Cardinality(S \cup {x})
  BY <1>2, SubsetSize
<1> QED
  BY <1>1, <1>2, <1>3

\* Losing an element loses at least one.
LEMMA OneLess ==
  ASSUME NEW S, NEW T, NEW x \in S, IsFiniteSet(S), T \subseteq S \ {x}
  PROVE  Cardinality(T) \in Nat /\ Cardinality(T) + 1 <= Cardinality(S)
<1>1. Cardinality(S) \in Nat
  BY FS_CardinalityType
<1>2. IsFiniteSet(S \ {x}) /\ Cardinality(S \ {x}) = Cardinality(S) - 1
  BY FS_RemoveElement
<1>3. Cardinality(T) \in Nat /\ Cardinality(T) <= Cardinality(S \ {x})
  BY <1>2, SubsetSize
<1> QED
  BY <1>1, <1>2, <1>3

-----------------------------------------------------------------------------
(* Sums over the rows of a table.  SumFunctionOnSet folds a set in an      *)
(* order of its own choosing; what the proofs need is that the order does  *)
(* not matter, so that one row can be taken out of a sum.                  *)

\* A family that contains every subset of a finite set all of whose
\* one-smaller subsets it contains, contains them all.
LEMMA SubsetInduction ==
  ASSUME NEW U, IsFiniteSet(U), NEW Good,
         \A S \in SUBSET U : (\A x \in S : S \ {x} \in Good) => S \in Good
  PROVE  \A S \in SUBSET U : S \in Good
<1> DEFINE Bad == {n \in Nat : \E S \in SUBSET U : Cardinality(S) = n /\ S \notin Good}
<1>1. \A S \in SUBSET U : IsFiniteSet(S) /\ Cardinality(S) \in Nat
  BY FS_Subset, FS_CardinalityType
<1>2. ASSUME Bad # {} PROVE FALSE
  <2>1. PICK m \in Bad : \A k \in Bad : <<k, m>> \notin OpToRel(<, Nat)
    BY <1>2, NatLessThanWellFounded, WFMin
  <2>2. \A k \in Bad : ~(k < m)
    BY <2>1, Zenon DEF OpToRel
  <2>3. PICK S \in SUBSET U : Cardinality(S) = m /\ S \notin Good
    BY <2>1
  <2>4. PICK x \in S : S \ {x} \notin Good
    BY <2>3
  <2>5. S \ {x} \in SUBSET U /\ Cardinality(S \ {x}) = m - 1 /\ m \in Nat
    BY <1>1, <2>3, <2>4, FS_RemoveElement
  <2>6. m - 1 \in Bad
    BY <1>1, <2>4, <2>5
  <2> QED
    BY <2>2, <2>5, <2>6
<1> QED
  BY <1>1, <1>2

First(S) == CHOOSE x \in S : TRUE

Partial(sum, f, S) == IF S = {} THEN 0 ELSE f[First(S)] + sum[S \ {First(S)}]

\* One more round of the fold.
Extended(sum, f, U) == [S \in SUBSET U |-> Partial(sum, f, S)]

\* sum is right on the subsets of U with at most n members.
SumsUpto(sum, f, U, n) ==
  \A S \in SUBSET U : Cardinality(S) =< n => sum[S] = Partial(sum, f, S)

\* The fold of every subset of a finite set exists.
LEMMA FoldExists ==
  ASSUME NEW U, IsFiniteSet(U), NEW f
  PROVE  \E sum : sum = Extended(sum, f, U)
<1> DEFINE Bad == {n \in Nat : ~ \E sum : SumsUpto(sum, f, U, n)}
<1>1. \A S \in SUBSET U : /\ IsFiniteSet(S) /\ Cardinality(S) \in Nat
                          /\ Cardinality(S) =< Cardinality(U)
                          /\ S # {} => First(S) \in S
                                       /\ Cardinality(S \ {First(S)}) = Cardinality(S) - 1
  <2> TAKE S \in SUBSET U
  <2>1. IsFiniteSet(S) /\ Cardinality(S) =< Cardinality(U)
    BY FS_Subset
  <2>2. Cardinality(S) \in Nat
    BY <2>1, FS_CardinalityType
  <2>3. S # {} => First(S) \in S
    BY DEF First
  <2> QED
    BY <2>1, <2>2, <2>3, FS_RemoveElement
<1>2. ASSUME NEW n \in Nat, NEW sum, n = 0 \/ SumsUpto(sum, f, U, n - 1)
      PROVE  SumsUpto(Extended(sum, f, U), f, U, n)
  <2> DEFINE more == Extended(sum, f, U)
  <2>1. \A S \in SUBSET U : more[S] = Partial(sum, f, S)
    BY DEF Extended
  <2> HIDE DEF more
  <2>2. ASSUME NEW S \in SUBSET U, Cardinality(S) =< n PROVE more[S] = Partial(more, f, S)
    <3>1. CASE S = {}
      BY <2>1, <3>1 DEF Partial
    <3>2. CASE S # {}
      <4> DEFINE R == S \ {First(S)}
      <4>1. R \in SUBSET U /\ Cardinality(R) = Cardinality(S) - 1
            /\ Cardinality(S) \in Nat /\ Cardinality(R) \in Nat
        BY <1>1, <3>2
      <4>2. n # 0 /\ Cardinality(R) =< n - 1
        BY <2>2, <4>1
      <4>3. sum[R] = Partial(sum, f, R)
        BY <1>2, <4>1, <4>2 DEF SumsUpto
      <4>4. more[R] = sum[R]
        BY <2>1, <4>1, <4>3
      <4> QED
        BY <2>1, <3>2, <4>4 DEF Partial
    <3> QED
      BY <3>1, <3>2
  <2> QED
    BY <2>2 DEF SumsUpto, more
<1>3. Bad = {}
  <2> SUFFICES ASSUME Bad # {} PROVE FALSE
    OBVIOUS
  <2>1. PICK m \in Bad : \A k \in Bad : <<k, m>> \notin OpToRel(<, Nat)
    BY NatLessThanWellFounded, WFMin
  <2>2. \A k \in Bad : ~(k < m)
    BY <2>1, Zenon DEF OpToRel
  <2>3. m \in Nat /\ \A sum : ~SumsUpto(sum, f, U, m)
    OBVIOUS
  <2>4. m = 0 \/ (m - 1 \in Nat /\ m - 1 < m)
    BY <2>3
  <2>5. m = 0 \/ \E sum : SumsUpto(sum, f, U, m - 1)
    BY <2>2, <2>4
  <2> HIDE DEF Bad
  <2> QED
    BY <1>2, <2>3, <2>5
<1>4. PICK sum : SumsUpto(sum, f, U, Cardinality(U))
  <2>1. Cardinality(U) \in Nat
    BY FS_CardinalityType
  <2> QED
    BY <1>3, <2>1
<1> DEFINE more == Extended(sum, f, U)
<1>5. \A S \in SUBSET U : more[S] = sum[S]
  BY <1>1, <1>4 DEF Extended, SumsUpto
<1>6. \A S \in SUBSET U : S \ {First(S)} \in SUBSET U
  OBVIOUS
<1>7. \A S \in SUBSET U : Partial(more, f, S) = Partial(sum, f, S)
  BY <1>5, <1>6 DEF Partial
<1>8. more = Extended(more, f, U)
  BY <1>7 DEF Extended
<1> QED
  BY <1>8

\* One such fold of the whole computes the sum of every part.
LEMMA SumIsFold ==
  ASSUME NEW U, IsFiniteSet(U), NEW f
  PROVE  \E sum : \A S \in SUBSET U : sum[S] = Partial(sum, f, S)
                                      /\ SumFunctionOnSet(f, S) = sum[S]
<1>1. \A S : SumFunctionOnSet(f, S) = (CHOOSE sum : sum = Extended(sum, f, S))[S]
  BY DEF SumFunctionOnSet, FoldFunctionOnSet, MapThenFoldSet, Extended, Partial, First
<1>2. PICK sum : sum = Extended(sum, f, U)
  BY FoldExists
<1>3. \A S \in SUBSET U : sum[S] = Partial(sum, f, S)
  BY <1>2 DEF Extended
<1>4. ASSUME NEW T \in SUBSET U PROVE SumFunctionOnSet(f, T) = sum[T]
  <2> DEFINE part == CHOOSE part : part = Extended(part, f, T)
             Good == {S \in SUBSET T : part[S] = sum[S]}
  <2>1. IsFiniteSet(T)
    BY FS_Subset
  <2>2. part = Extended(part, f, T)
    BY <2>1, FoldExists
  <2>3. SumFunctionOnSet(f, T) = part[T]
    BY <1>1
  <2> HIDE DEF part
  <2>4. \A S \in SUBSET T : part[S] = Partial(part, f, S)
    BY <2>2 DEF Extended
  <2>5. ASSUME NEW S \in SUBSET T, \A x \in S : S \ {x} \in Good PROVE S \in Good
    <3>1. S # {} => First(S) \in S
      BY DEF First
    <3>2. Partial(part, f, S) = Partial(sum, f, S)
      BY <2>5, <3>1 DEF Partial
    <3> QED
      BY <1>3, <2>4, <3>2
  <2>6. \A S \in SUBSET T : S \in Good
    <3> HIDE DEF Good
    <3> QED
      BY <2>1, <2>5, SubsetInduction
  <2> QED
    BY <2>3, <2>6
<1> QED
  BY <1>3, <1>4

\* A sum of integers is an integer, and of naturals a natural.
LEMMA SumType ==
  ASSUME NEW U, IsFiniteSet(U), NEW f, \A x \in U : f[x] \in Int
  PROVE  /\ SumFunctionOnSet(f, U) \in Int
         /\ (\A x \in U : f[x] >= 0) => SumFunctionOnSet(f, U) >= 0
<1>1. PICK sum : \A S \in SUBSET U : sum[S] = Partial(sum, f, S)
                                      /\ SumFunctionOnSet(f, S) = sum[S]
  BY SumIsFold
<1> DEFINE Good == {S \in SUBSET U : sum[S] \in Int /\ ((\A x \in U : f[x] >= 0) => sum[S] >= 0)}
<1>2. ASSUME NEW S \in SUBSET U, \A x \in S : S \ {x} \in Good PROVE S \in Good
  <2>1. CASE S = {}
    <3>1. sum[S] = 0
      BY <1>1, <2>1 DEF Partial
    <3> QED
      BY <3>1
  <2>2. CASE S # {}
    <3>1. First(S) \in S
      BY <2>2 DEF First
    <3>2. sum[S] = f[First(S)] + sum[S \ {First(S)}]
      BY <1>1, <2>2 DEF Partial
    <3>3. f[First(S)] \in Int /\ S \ {First(S)} \in Good
      BY <1>2, <3>1
    <3> QED
      BY <3>1, <3>2, <3>3
  <2> QED
    BY <2>1, <2>2
<1>3. \A S \in SUBSET U : S \in Good
  <2> HIDE DEF Good
  <2> QED
    BY <1>2, SubsetInduction
<1> QED
  BY <1>1, <1>3

LEMMA SumEmpty == \A f : SumFunctionOnSet(f, {}) = 0
<1> TAKE f
<1>1. IsFiniteSet({})
  BY FS_EmptySet
<1>2. PICK sum : \A S \in SUBSET {} : sum[S] = Partial(sum, f, S)
                                      /\ SumFunctionOnSet(f, S) = sum[S]
  BY <1>1, SumIsFold
<1> QED
  BY <1>2 DEF Partial

\* Rows that count for nothing add up to nothing.
LEMMA SumZero ==
  ASSUME NEW U, IsFiniteSet(U), NEW f, \A x \in U : f[x] = 0
  PROVE  SumFunctionOnSet(f, U) = 0
<1>1. PICK sum : \A S \in SUBSET U : sum[S] = Partial(sum, f, S)
                                      /\ SumFunctionOnSet(f, S) = sum[S]
  BY SumIsFold
<1> DEFINE Good == {S \in SUBSET U : sum[S] = 0}
<1>2. ASSUME NEW S \in SUBSET U, \A x \in S : S \ {x} \in Good PROVE S \in Good
  <2>1. CASE S = {}
    BY <1>1, <2>1 DEF Partial
  <2>2. CASE S # {}
    <3>1. First(S) \in S /\ sum[S] = f[First(S)] + sum[S \ {First(S)}]
      BY <1>1, <2>2 DEF First, Partial
    <3>2. f[First(S)] = 0 /\ sum[S \ {First(S)}] = 0
      BY <1>2, <3>1
    <3> QED
      BY <3>1, <3>2
  <2> QED
    BY <2>1, <2>2
<1>3. \A S \in SUBSET U : S \in Good
  <2> HIDE DEF Good
  <2> QED
    BY <1>2, SubsetInduction
<1> QED
  BY <1>1, <1>3

\* Any row can be taken out of a sum.
LEMMA SumWithout ==
  ASSUME NEW U, IsFiniteSet(U), NEW f, \A x \in U : f[x] \in Int, NEW y \in U
  PROVE  SumFunctionOnSet(f, U) = f[y] + SumFunctionOnSet(f, U \ {y})
<1>1. PICK sum : \A S \in SUBSET U : sum[S] = Partial(sum, f, S)
                                      /\ SumFunctionOnSet(f, S) = sum[S]
  BY SumIsFold
<1>2. \A S \in SUBSET U : sum[S] \in Int
  <2> TAKE S \in SUBSET U
  <2>1. IsFiniteSet(S) /\ \A x \in S : f[x] \in Int
    BY FS_Subset
  <2>2. SumFunctionOnSet(f, S) \in Int
    BY <2>1, SumType
  <2> QED
    BY <1>1, <2>2
<1> DEFINE Good == {S \in SUBSET U : \A x \in S : sum[S] = f[x] + sum[S \ {x}]}
<1>3. ASSUME NEW S \in SUBSET U, \A x \in S : S \ {x} \in Good PROVE S \in Good
  <2> SUFFICES ASSUME NEW x \in S PROVE sum[S] = f[x] + sum[S \ {x}]
    OBVIOUS
  <2> DEFINE z == First(S)
  <2>1. z \in S /\ sum[S] = f[z] + sum[S \ {z}]
    BY <1>1 DEF First, Partial
  <2> HIDE DEF z
  <2>2. CASE x = z
    BY <2>1, <2>2
  <2>3. CASE x # z
    <3>1. x \in S \ {z} /\ z \in S \ {x}
      BY <2>1, <2>3
    <3>2. sum[S \ {z}] = f[x] + sum[(S \ {z}) \ {x}]
      BY <1>3, <2>1, <3>1
    <3>3. sum[S \ {x}] = f[z] + sum[(S \ {x}) \ {z}]
      BY <1>3, <3>1
    <3>4. (S \ {z}) \ {x} = (S \ {x}) \ {z}
      OBVIOUS
    <3> DEFINE rest == sum[(S \ {x}) \ {z}]
    <3>5. f[x] \in Int /\ f[z] \in Int /\ rest \in Int
      BY <1>2, <2>1
    <3>6. sum[S] = f[z] + (f[x] + rest) /\ sum[S \ {x}] = f[z] + rest
      BY <2>1, <3>2, <3>3, <3>4
    <3> HIDE DEF rest
    <3> QED
      BY <3>5, <3>6
  <2> QED
    BY <2>2, <2>3
<1>4. \A S \in SUBSET U : S \in Good
  <2> HIDE DEF Good
  <2> QED
    BY <1>3, SubsetInduction
<1>5. sum[U] = f[y] + sum[U \ {y}]
  BY <1>4
<1> QED
  BY <1>1, <1>5

\* Equal rows add up to equal sums.
LEMMA SumSame ==
  ASSUME NEW U, IsFiniteSet(U), NEW f, NEW g, \A x \in U : f[x] = g[x]
  PROVE  SumFunctionOnSet(f, U) = SumFunctionOnSet(g, U)
<1>1. PICK sum : \A S \in SUBSET U : sum[S] = Partial(sum, f, S)
                                      /\ SumFunctionOnSet(f, S) = sum[S]
  BY SumIsFold
<1>2. PICK alt : \A S \in SUBSET U : alt[S] = Partial(alt, g, S)
                                      /\ SumFunctionOnSet(g, S) = alt[S]
  BY SumIsFold
<1> DEFINE Good == {S \in SUBSET U : sum[S] = alt[S]}
<1>3. ASSUME NEW S \in SUBSET U, \A x \in S : S \ {x} \in Good PROVE S \in Good
  <2>1. S # {} => First(S) \in S
    BY DEF First
  <2>2. Partial(sum, f, S) = Partial(alt, g, S)
    BY <1>3, <2>1 DEF Partial
  <2> QED
    BY <1>1, <1>2, <2>2
<1>4. \A S \in SUBSET U : S \in Good
  <2> HIDE DEF Good
  <2> QED
    BY <1>3, SubsetInduction
<1> QED
  BY <1>1, <1>2, <1>4

\* A new row adds its value.
LEMMA SumWith ==
  ASSUME NEW U, IsFiniteSet(U), NEW f, \A x \in U : f[x] \in Int,
         NEW y, y \notin U, f[y] \in Int
  PROVE  SumFunctionOnSet(f, U \cup {y}) = f[y] + SumFunctionOnSet(f, U)
<1> DEFINE V == U \cup {y}
<1>1. IsFiniteSet(V) /\ y \in V /\ V \ {y} = U /\ \A x \in V : f[x] \in Int
  BY FS_AddElement
<1> HIDE DEF V
<1>2. SumFunctionOnSet(f, V) = f[y] + SumFunctionOnSet(f, V \ {y})
  BY <1>1, SumWithout
<1> QED
  BY <1>1, <1>2 DEF V

\* A sum follows the one row that changes.
LEMMA SumChanged ==
  ASSUME NEW U, IsFiniteSet(U), NEW f, NEW g,
         \A x \in U : f[x] \in Int /\ g[x] \in Int,
         NEW y \in U, \A x \in U \ {y} : g[x] = f[x]
  PROVE  SumFunctionOnSet(g, U) = SumFunctionOnSet(f, U) + g[y] - f[y]
<1> DEFINE R == U \ {y}
<1>1. IsFiniteSet(R) /\ R \subseteq U
  BY FS_RemoveElement
<1>2. SumFunctionOnSet(g, U) = g[y] + SumFunctionOnSet(g, R)
  BY SumWithout
<1>3. SumFunctionOnSet(f, U) = f[y] + SumFunctionOnSet(f, R)
  BY SumWithout
<1>4. SumFunctionOnSet(g, R) = SumFunctionOnSet(f, R)
  BY <1>1, SumSame
<1>5. SumFunctionOnSet(f, R) \in Int
  BY <1>1, SumType
<1> QED
  BY <1>2, <1>3, <1>4, <1>5

-----------------------------------------------------------------------------
(* The Risk Engine: what sizing.py returns, and what checks.py adds to it  *)

\* Order is kept by a factor that is not negative.
LEMMA ScaleMonotone ==
  ASSUME NEW a \in Int, NEW b \in Int, NEW d \in Nat, a <= b
  PROVE  a * d <= b * d
<1>1. b - a \in Nat
  OBVIOUS
<1>2. (b - a) * d >= 0
  BY <1>1
<1>3. (b - a) * d = b * d - a * d /\ a * d \in Int /\ b * d \in Int
  OBVIOUS
<1> QED
  BY <1>2, <1>3

\* A rounded-down quotient does not exceed what it was taken of.
LEMMA QuotientFits ==
  ASSUME NEW n \in Int, NEW d \in Nat \ {0}, NEW q \in Int, q <= n \div d
  PROVE  q * d <= n
<1>1. n \div d \in Int /\ d * (n \div d) <= n
  BY DivisionBounds
<1>2. q * d <= (n \div d) * d
  BY <1>1, ScaleMonotone
<1>3. (n \div d) * d = d * (n \div d) /\ q * d \in Int /\ d * (n \div d) \in Int
  BY <1>1
<1> QED
  BY <1>1, <1>2, <1>3

\* More leaves no smaller a quotient.
LEMMA QuotientMonotone ==
  ASSUME NEW m \in Int, NEW n \in Int, NEW d \in Nat \ {0}, m <= n
  PROVE  m \div d <= n \div d
<1> DEFINE p == m \div d
           q == n \div d
<1>1. p \in Int /\ d * p <= m /\ q \in Int /\ n < d * q + d
  BY DivisionBounds
<1>2. ASSUME q < p PROVE FALSE
  <2>1. d * q + d <= d * p
    BY <1>1, <1>2, ProductMonotone
  <2>2. d * q \in Int /\ d * p \in Int
    BY <1>1
  <2> HIDE DEF p, q
  <2> QED
    BY <1>1, <2>1, <2>2
<1> HIDE DEF p, q
<1>3. p <= q
  BY <1>1, <1>2
<1> QED
  BY <1>3 DEF p, q

LEMMA LeastIsLower ==
  ASSUME NEW m \in Int, NEW n \in Int
  PROVE  Least(m, n) \in Int /\ Least(m, n) <= m /\ Least(m, n) <= n
BY DEF Least

LEMMA LeastMonotone ==
  ASSUME NEW m \in Int, NEW n \in Int, NEW i \in Int, NEW j \in Int, i <= m, j <= n
  PROVE  Least(i, j) <= Least(m, n)
BY DEF Least

\* The numbers of a policy.
LEMMA PolicyNumbers ==
  ASSUME NEW policy \in RiskPolicies
  PROVE  /\ policy.maxPosition \in Nat \ {0} /\ policy.maxExposure \in Nat \ {0}
         /\ policy.maxDailyLoss \in Nat \ {0} /\ policy.maxDrawdown \in Nat \ {0}
         /\ policy.riskPerTrade \in Nat \ {0} /\ policy.maxPositions \in Nat \ {0}
         /\ policy.stopLoss \in Nat /\ policy.takeProfit \in Nat /\ policy.cooldown \in Nat
         /\ policy.maxDrawdown <= Whole /\ policy.stopLoss < Whole
         /\ policy.enabled \in BOOLEAN
<1>1. /\ policy.maxPosition \in 1..Whole /\ policy.maxExposure \in 1..Whole
      /\ policy.maxDailyLoss \in 1..Whole /\ policy.maxDrawdown \in 1..Whole
      /\ policy.riskPerTrade \in 1..Whole /\ policy.stopLoss \in 1..(Whole - 1)
      /\ policy.takeProfit \in 1..(10 * Whole)
  BY DEF RiskPolicies
<1>2. /\ policy.maxPosition \in Nat \ {0} /\ policy.maxExposure \in Nat \ {0}
      /\ policy.maxDailyLoss \in Nat \ {0} /\ policy.maxDrawdown \in Nat \ {0}
      /\ policy.riskPerTrade \in Nat \ {0}
      /\ policy.stopLoss \in Nat /\ policy.takeProfit \in Nat
      /\ policy.maxDrawdown <= Whole /\ policy.stopLoss < Whole
  BY <1>1, RiskAssumption
<1>3. policy.maxPositions \in Nat \ {0}
  <2>1. policy.maxPositions \in 1..1000
    BY DEF RiskPolicies
  <2> QED
    BY <2>1
<1>4. policy.cooldown \in Nat
  <2> DEFINE week == 7 * 24 * 60
  <2>1. policy.cooldown \in 0..week
    BY DEF RiskPolicies
  <2>2. week \in Nat
    OBVIOUS
  <2> HIDE DEF week
  <2> QED
    BY <2>1, <2>2
<1>5. policy.enabled \in BOOLEAN
  BY DEF RiskPolicies
<1> QED
  BY <1>2, <1>3, <1>4, <1>5

\* Stop and target are whole ticks.
LEMMA PricesInt ==
  ASSUME NEW policy \in RiskPolicies, NEW entry \in Nat
  PROVE  StopLossPrice(entry, policy) \in Int /\ TakeProfitPrice(entry, policy) \in Int
<1>1. /\ entry * (Whole - policy.stopLoss) \in Int
      /\ entry * (Whole + policy.takeProfit) \in Int
  BY PolicyNumbers, RiskAssumption
<1> QED
  BY <1>1, RiskAssumption, DivisionBounds DEF StopLossPrice, TakeProfitPrice

\* The portfolio in whole numbers.
Counted(folio) ==
  /\ folio.cash \in Int /\ folio.exposure \in Int /\ folio.equity \in Int

LEMMA QuantitiesInt ==
  ASSUME NEW policy \in RiskPolicies, NEW folio, Counted(folio),
         NEW entry \in Nat \ {0}, NEW stop \in Int, entry - stop > 0
  PROVE  /\ QuantityByRisk(entry, stop, policy, folio) \in Int
         /\ QuantityByPosition(entry, policy, folio) \in Int
         /\ QuantityByExposure(entry, policy, folio) \in Int
         /\ QuantityByCash(entry, folio) \in Int
<1>1. /\ folio.equity * policy.riskPerTrade \in Int
      /\ folio.equity * policy.maxPosition \in Int
      /\ folio.equity * policy.maxExposure \in Int
      /\ folio.exposure * Whole \in Int
      /\ folio.cash * Lot \in Int
  BY PolicyNumbers, RiskAssumption, EngineAssumption DEF Counted
<1>2. Whole * entry \in Nat \ {0} /\ Whole * (entry - stop) \in Nat \ {0}
  BY RiskAssumption
<1>3. QuantityByRisk(entry, stop, policy, folio) \in Int
  BY <1>1, <1>2, DivisionBounds DEF QuantityByRisk, OfEquity
<1>4. QuantityByPosition(entry, policy, folio) \in Int
  BY <1>1, <1>2, DivisionBounds DEF QuantityByPosition, OfEquity
<1>5. QuantityByExposure(entry, policy, folio) \in Int
  <2>1. folio.equity * policy.maxExposure - folio.exposure * Whole \in Int
    BY <1>1
  <2> QED
    BY <2>1, <1>2, DivisionBounds DEF QuantityByExposure, OfEquity
<1>6. QuantityByCash(entry, folio) \in Int
  BY <1>1, DivisionBounds DEF QuantityByCash
<1> QED
  BY <1>3, <1>4, <1>5, <1>6

LEMMA SizeInt ==
  ASSUME NEW policy \in RiskPolicies, NEW folio, Counted(folio),
         NEW entry \in Nat \ {0}, NEW stop \in Int
  PROVE  PositionSize(entry, stop, policy, folio) \in Int
<1>1. CASE Sizable(entry, stop, folio)
  <2>1. entry - stop > 0
    BY <1>1 DEF Sizable
  <2> QED
    BY <1>1, <2>1, QuantitiesInt, LeastIsLower DEF PositionSize
<1>2. CASE ~Sizable(entry, stop, folio)
  BY <1>2 DEF PositionSize
<1> QED
  BY <1>1, <1>2

\* A quantity within what the risk budget, the position, the exposure and the
\* cash allow costs no more than each of them, rounded down as they are.
LEMMA SizeWithinLimits ==
  ASSUME NEW policy \in RiskPolicies, NEW folio, Counted(folio),
         NEW entry \in Nat \ {0}, NEW stop \in Int,
         NEW qty, qty = PositionSize(entry, stop, policy, folio), qty > 0
  PROVE  /\ qty \in Nat \ {0} /\ Sizable(entry, stop, folio)
         /\ qty * (entry - stop) * Whole <= OfEquity(folio, policy.riskPerTrade)
         /\ Notional(qty, entry) * Whole <= OfEquity(folio, policy.maxPosition)
         /\ (folio.exposure + Notional(qty, entry)) * Whole <= OfEquity(folio, policy.maxExposure)
         /\ Notional(qty, entry) <= folio.cash * Lot
<1>1. Sizable(entry, stop, folio) /\ entry - stop > 0
  BY DEF PositionSize, Sizable
<1> DEFINE risk == QuantityByRisk(entry, stop, policy, folio)
           position == QuantityByPosition(entry, policy, folio)
           exposure == QuantityByExposure(entry, policy, folio)
           paid == QuantityByCash(entry, folio)
<1>2. risk \in Int /\ position \in Int /\ exposure \in Int /\ paid \in Int
  BY <1>1, QuantitiesInt
<1>3. qty = Least(Least(risk, position), Least(exposure, paid))
  BY <1>1 DEF PositionSize
<1> HIDE DEF risk, position, exposure, paid
<1>4. qty \in Nat \ {0} /\ qty <= risk /\ qty <= position /\ qty <= exposure /\ qty <= paid
  <2>1. /\ Least(risk, position) \in Int /\ Least(exposure, paid) \in Int
        /\ Least(risk, position) <= risk /\ Least(risk, position) <= position
        /\ Least(exposure, paid) <= exposure /\ Least(exposure, paid) <= paid
    BY <1>2, LeastIsLower
  <2>2. qty \in Int /\ qty <= Least(risk, position) /\ qty <= Least(exposure, paid)
    BY <2>1, <1>3, LeastIsLower
  <2> QED
    BY <2>1, <2>2, <1>2
<1>5. /\ folio.equity * policy.riskPerTrade \in Int
      /\ folio.equity * policy.maxPosition \in Int
      /\ folio.equity * policy.maxExposure \in Int
      /\ folio.exposure * Whole \in Int
      /\ folio.cash * Lot \in Int
  BY PolicyNumbers, RiskAssumption, EngineAssumption DEF Counted
<1>6. Whole * entry \in Nat \ {0} /\ Whole * (entry - stop) \in Nat \ {0}
  BY <1>1, RiskAssumption
<1>7. /\ qty * (Whole * entry) = Notional(qty, entry) * Whole
      /\ qty * (Whole * (entry - stop)) = qty * (entry - stop) * Whole
      /\ Notional(qty, entry) \in Int /\ Notional(qty, entry) * Whole \in Int
  BY <1>4, RiskAssumption DEF Notional
<1>8. qty * (entry - stop) * Whole <= OfEquity(folio, policy.riskPerTrade)
  <2>1. qty * (Whole * (entry - stop)) <= folio.equity * policy.riskPerTrade
    BY <1>4, <1>5, <1>6, QuotientFits DEF risk, QuantityByRisk, OfEquity
  <2> QED
    BY <2>1, <1>7 DEF OfEquity
<1>9. Notional(qty, entry) * Whole <= OfEquity(folio, policy.maxPosition)
  <2>1. qty * (Whole * entry) <= folio.equity * policy.maxPosition
    BY <1>4, <1>5, <1>6, QuotientFits DEF position, QuantityByPosition, OfEquity
  <2> QED
    BY <2>1, <1>7 DEF OfEquity
<1>10. (folio.exposure + Notional(qty, entry)) * Whole <= OfEquity(folio, policy.maxExposure)
  <2> DEFINE room == folio.equity * policy.maxExposure - folio.exposure * Whole
  <2>1. room \in Int
    BY <1>5
  <2>2. exposure = IF room > 0 THEN room \div (Whole * entry) ELSE 0
    BY DEF exposure, QuantityByExposure, OfEquity
  <2> HIDE DEF room
  <2>3. qty <= room \div (Whole * entry)
    BY <1>4, <2>2
  <2>4. qty * (Whole * entry) <= room
    BY <1>4, <1>6, <2>1, <2>3, QuotientFits
  <2>5. (folio.exposure + Notional(qty, entry)) * Whole
          = folio.exposure * Whole + Notional(qty, entry) * Whole
    BY <1>7, RiskAssumption DEF Counted
  <2> QED
    BY <2>1, <2>4, <2>5, <1>5, <1>7 DEF room, OfEquity
<1>11. Notional(qty, entry) <= folio.cash * Lot
  <2>1. qty <= (folio.cash * Lot) \div entry
    BY <1>4 DEF paid, QuantityByCash
  <2> QED
    BY <2>1, <1>4, <1>5, QuotientFits DEF Notional
<1> QED
  BY <1>1, <1>4, <1>8, <1>9, <1>10, <1>11

\* A signal is approved exactly when it is a BUY under an enabled policy, the
\* portfolio passes the checks that do not depend on the size, the prices are
\* in order and the size is not zero: sizing answers the two checks on size.
LEMMA ApprovedExactly ==
  ASSUME NEW kind, NEW policy \in RiskPolicies, NEW folio, Counted(folio),
         NEW entry \in Nat \ {0}
  PROVE  LET outcome == Evaluate(kind, policy, folio, entry)
             plan == Plan(kind, policy, folio, entry)
         IN /\ outcome.qty = plan.qty /\ outcome.stop = plan.stop /\ outcome.take = plan.take
            /\ outcome.decision = "APPROVED" <=>
                 /\ kind = "BUY" /\ policy.enabled
                 /\ WithinDailyLoss(policy, folio) /\ WithinDrawdown(policy, folio)
                 /\ RoomForOneMore(policy, folio) /\ CooledDown(policy, folio)
                 /\ StopIsValid(entry, plan) /\ TargetIsValid(entry, plan)
                 /\ plan.qty > 0
<1> DEFINE plan == Plan(kind, policy, folio, entry)
           value == Notional(plan.qty, entry)
           checks == Checks(kind, policy, folio, entry, plan)
           skipped == Skipped(kind, policy, DOMAIN checks)
           outcome == Evaluate(kind, policy, folio, entry)
<1>1. /\ outcome.qty = plan.qty /\ outcome.stop = plan.stop /\ outcome.take = plan.take
      /\ outcome.decision = "APPROVED" <=>
           skipped \cup {name \in DOMAIN checks \ skipped : ~checks[name]} = {}
  BY DEF Evaluate
<1>2. /\ DOMAIN checks = {"signal_validity", "signal_status", "risk_policy_enabled",
           "daily_loss_limit", "max_drawdown", "max_concurrent_positions",
           "portfolio_exposure", "position_size_limit", "stop_loss_validity",
           "take_profit_validity", "loss_cooldown"}
      /\ checks["signal_validity"] = (kind = "BUY")
      /\ checks["signal_status"] = TRUE
      /\ checks["risk_policy_enabled"] = policy.enabled
      /\ checks["daily_loss_limit"] = WithinDailyLoss(policy, folio)
      /\ checks["max_drawdown"] = WithinDrawdown(policy, folio)
      /\ checks["max_concurrent_positions"] = RoomForOneMore(policy, folio)
      /\ checks["portfolio_exposure"] = WithinExposure(policy, folio, value)
      /\ checks["position_size_limit"] = WithinPositionSize(policy, folio, plan.qty, value)
      /\ checks["stop_loss_validity"] = StopIsValid(entry, plan)
      /\ checks["take_profit_validity"] = TargetIsValid(entry, plan)
      /\ checks["loss_cooldown"] = CooledDown(policy, folio)
  BY DEF Checks
<1>3. plan.qty > 0 =>
        WithinExposure(policy, folio, value) /\ WithinPositionSize(policy, folio, plan.qty, value)
  <2> SUFFICES ASSUME plan.qty > 0
               PROVE  /\ WithinExposure(policy, folio, value)
                      /\ WithinPositionSize(policy, folio, plan.qty, value)
    OBVIOUS
  <2> DEFINE stop == StopLossPrice(entry, policy)
  <2>1. stop \in Int
    BY PricesInt
  <2>2. plan.qty = PositionSize(entry, stop, policy, folio)
    BY DEF Plan, NoPlan
  <2> HIDE DEF plan, stop
  <2> QED
    BY <2>1, <2>2, SizeWithinLimits DEF WithinExposure, WithinPositionSize
<1>4. skipped = {} <=> kind = "BUY" /\ policy.enabled
  BY <1>2 DEF Skipped
<1>5. WithinPositionSize(policy, folio, plan.qty, value) => plan.qty > 0
  BY DEF WithinPositionSize
<1> HIDE DEF plan, value, checks, skipped, outcome
<1>6. outcome.decision = "APPROVED" =>
        skipped = {} /\ \A name \in DOMAIN checks : checks[name]
  BY <1>1
<1>7. skipped = {} /\ (\A name \in DOMAIN checks : checks[name]) =>
        outcome.decision = "APPROVED"
  BY <1>1
<1>8. (\A name \in DOMAIN checks : checks[name]) <=>
        /\ kind = "BUY" /\ policy.enabled
        /\ WithinDailyLoss(policy, folio) /\ WithinDrawdown(policy, folio)
        /\ RoomForOneMore(policy, folio) /\ CooledDown(policy, folio)
        /\ StopIsValid(entry, plan) /\ TargetIsValid(entry, plan)
        /\ WithinExposure(policy, folio, value)
        /\ WithinPositionSize(policy, folio, plan.qty, value)
  BY <1>2, Zenon
<1>9. outcome.decision = "APPROVED" <=>
        /\ kind = "BUY" /\ policy.enabled
        /\ WithinDailyLoss(policy, folio) /\ WithinDrawdown(policy, folio)
        /\ RoomForOneMore(policy, folio) /\ CooledDown(policy, folio)
        /\ StopIsValid(entry, plan) /\ TargetIsValid(entry, plan)
        /\ plan.qty > 0
  BY <1>3, <1>4, <1>5, <1>6, <1>7, <1>8
<1> QED
  BY <1>1, <1>9 DEF plan, outcome

=============================================================================
