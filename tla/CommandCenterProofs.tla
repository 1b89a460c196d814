------------------------- MODULE CommandCenterProofs -------------------------
(***************************************************************************)
(* For any number of computations and requests, any assets, prices, sizes  *)
(* and feed limit: what the portfolio reports of losses, equity and P/L,   *)
(* and what a command center answer shows side by side, is explained by    *)
(* the fills, however the trades fall between the reads.                   *)
(***************************************************************************)
EXTENDS CommandCenter, EngineProofs, SequenceTheorems

FillRows ==
  {row \in [asset : Assets, side : {"BUY", "SELL"}, qty : Nat \ {0}, fee : Nat,
            pnl : Int \cup {None}] : row.side = "SELL" => row.pnl \in Int}

-----------------------------------------------------------------------------
(* paper_fills only grows: what was summed over its first rows stays true. *)

\* An appended row leaves every row before it where it was.
LEMMA AppendKeeps ==
  ASSUME NEW S, NEW rows \in Seq(S), NEW x \in S
  PROVE  /\ Append(rows, x) \in Seq(S)
         /\ Len(rows) \in Nat /\ Len(Append(rows, x)) = Len(rows) + 1
         /\ Append(rows, x)[Len(rows) + 1] = x
         /\ \A i \in 1..Len(rows) : Append(rows, x)[i] = rows[i]
         /\ \A n \in 0..Len(rows) : SubSeq(Append(rows, x), 1, n) = SubSeq(rows, 1, n)
<1> DEFINE new == Append(rows, x)
<1>1. /\ new \in Seq(S) /\ Len(new) = Len(rows) + 1 /\ new[Len(rows) + 1] = x
      /\ \A i \in 1..Len(rows) : new[i] = rows[i]
  BY AppendProperties
<1>2. Len(rows) \in Nat /\ \A i \in 1..Len(rows) : rows[i] \in S
  BY LenProperties, ElementOfSeq
<1> HIDE DEF new
<1>3. ASSUME NEW n \in 0..Len(rows) PROVE SubSeq(new, 1, n) = SubSeq(rows, 1, n)
  <2>1. \A i \in 1..n : new[i] = rows[i] /\ rows[i] \in S
    BY <1>1, <1>2
  <2>2. /\ SubSeq(new, 1, n) \in Seq(S) /\ Len(SubSeq(new, 1, n)) = n
        /\ \A i \in 1..n : SubSeq(new, 1, n)[i] = new[i]
    BY <2>1, SubSeqProperties
  <2>3. /\ SubSeq(rows, 1, n) \in Seq(S) /\ Len(SubSeq(rows, 1, n)) = n
        /\ \A i \in 1..n : SubSeq(rows, 1, n)[i] = rows[i]
    BY <2>1, SubSeqProperties
  <2> QED
    BY <2>1, <2>2, <2>3, SeqEqual
<1> QED
  BY <1>1, <1>2, <1>3 DEF new

\* The first n rows.
LEMMA PrefixRows ==
  ASSUME NEW S, NEW rows \in Seq(S), NEW n \in 0..Len(rows)
  PROVE  /\ SubSeq(rows, 1, n) \in Seq(S) /\ Len(SubSeq(rows, 1, n)) = n
         /\ \A i \in 1..n : SubSeq(rows, 1, n)[i] = rows[i]
<1>1. Len(rows) \in Nat /\ \A i \in 1..Len(rows) : rows[i] \in S
  BY LenProperties, ElementOfSeq
<1>2. \A i \in 1..n : rows[i] \in S
  BY <1>1
<1> QED
  BY <1>1, <1>2, SubSeqProperties

\* What the rows of paper_fills hold.
LEMMA RowsKnown ==
  ASSUME NEW rows \in Seq(FillRows)
  PROVE  /\ Len(rows) \in Nat /\ DOMAIN rows = 1..Len(rows)
         /\ IsFiniteSet(1..Len(rows))
         /\ \A i \in 1..Len(rows) :
              /\ rows[i].asset \in Assets /\ rows[i].side \in {"BUY", "SELL"}
              /\ rows[i].qty \in Nat \ {0} /\ rows[i].fee \in Nat
              /\ rows[i].side = "SELL" => rows[i].pnl \in Int
<1>1. Len(rows) \in Nat /\ DOMAIN rows = 1..Len(rows)
  BY LenProperties
<1>2. \A i \in 1..Len(rows) : rows[i] \in FillRows
  BY ElementOfSeq
<1>3. IsFiniteSet(1..Len(rows))
  BY <1>1, FS_Interval
<1> QED
  BY <1>1, <1>2, <1>3 DEF FillRows

\* The SELLs are finitely many, and their P/L has a sum.
LEMMA SalesKnown ==
  ASSUME NEW rows \in Seq(FillRows), NEW S \in SUBSET Sales(rows)
  PROVE  IsFiniteSet(S) /\ PnlOf(rows, S) \in Int
<1>1. S \in SUBSET (1..Len(rows)) /\ IsFiniteSet(1..Len(rows))
  BY RowsKnown DEF Sales
<1>2. IsFiniteSet(S)
  BY <1>1, FS_Subset
<1>3. \A i \in S : [k \in S |-> rows[k].pnl][i] \in Int
  BY RowsKnown DEF Sales
<1> QED
  BY <1>2, <1>3, SumType DEF PnlOf

\* Both sums over realized_pnl are integers.
LEMMA RealizedKnown ==
  ASSUME NEW rows \in Seq(FillRows)
  PROVE  RealizedTotal(rows) \in Int /\ \A first : RealizedSince(rows, first) \in Int
<1>1. /\ Sales(rows) \in SUBSET Sales(rows)
      /\ \A first : {i \in Sales(rows) : i > first} \in SUBSET Sales(rows)
  OBVIOUS
<1> QED
  BY <1>1, SalesKnown DEF RealizedTotal, RealizedSince

\* A SELL adds its P/L to the total, a BUY nothing.
LEMMA RealizedGrows ==
  ASSUME NEW rows \in Seq(FillRows), NEW x \in FillRows
  PROVE  RealizedTotal(Append(rows, x)) =
           RealizedTotal(rows) + IF x.side = "SELL" THEN x.pnl ELSE 0
<1> DEFINE new == Append(rows, x)
           last == Len(rows) + 1
           before == [i \in Sales(rows) |-> rows[i].pnl]
           after == [i \in Sales(new) |-> new[i].pnl]
<1>1. /\ new \in Seq(FillRows) /\ Len(rows) \in Nat /\ Len(new) = last /\ new[last] = x
      /\ \A i \in 1..Len(rows) : new[i] = rows[i]
  BY AppendKeeps
<1>2. DOMAIN rows = 1..Len(rows) /\ DOMAIN new = 1..last
  BY <1>1, RowsKnown
<1>3. IsFiniteSet(Sales(rows)) /\ RealizedTotal(rows) \in Int
  BY SalesKnown, RealizedKnown
<1>4. RealizedTotal(rows) = SumFunctionOnSet(before, Sales(rows))
      /\ RealizedTotal(new) = SumFunctionOnSet(after, Sales(new))
  BY DEF RealizedTotal, PnlOf
<1> HIDE DEF new, last
<1>5. CASE x.side = "SELL"
  <2>1. Sales(new) = Sales(rows) \cup {last} /\ last \notin Sales(rows)
    BY <1>1, <1>2, <1>5 DEF Sales, last
  <2>2. \A i \in Sales(rows) : after[i] = before[i] /\ after[i] \in Int
    BY <1>1, <1>2, <2>1, RowsKnown DEF Sales
  <2>3. after[last] = x.pnl /\ x.pnl \in Int
    BY <1>1, <1>5, <2>1 DEF FillRows
  <2>4. SumFunctionOnSet(after, Sales(rows)) = SumFunctionOnSet(before, Sales(rows))
    BY <1>3, <2>2, SumSame
  <2> HIDE DEF after, before
  <2>5. SumFunctionOnSet(after, Sales(rows) \cup {last})
          = after[last] + SumFunctionOnSet(after, Sales(rows))
    BY <1>3, <2>1, <2>2, <2>3, SumWith
  <2>6. SumFunctionOnSet(after, Sales(new))
          = after[last] + SumFunctionOnSet(after, Sales(rows))
    BY <2>1, <2>5
  <2>7. RealizedTotal(new) = x.pnl + RealizedTotal(rows)
    BY <1>4, <2>3, <2>4, <2>6
  <2> QED
    BY <1>3, <1>5, <2>3, <2>7 DEF new
<1>6. CASE x.side # "SELL"
  <2>1. Sales(new) = Sales(rows)
    BY <1>1, <1>2, <1>6 DEF Sales, last
  <2>2. \A i \in Sales(rows) : after[i] = before[i]
    BY <1>1, <1>2, <2>1 DEF Sales
  <2>3. after = before
    BY <2>1, <2>2
  <2> HIDE DEF after, before
  <2>4. RealizedTotal(new) = RealizedTotal(rows)
    BY <1>4, <2>1, <2>3
  <2> QED
    BY <1>3, <1>6, <2>4 DEF new
<1> QED
  BY <1>5, <1>6

\* The last of a non-empty set of rows.
LEMMA LastExists ==
  ASSUME NEW n \in Nat, NEW S \in SUBSET (1..n), S # {}
  PROVE  \E i \in S : \A j \in S : j <= i
<1> DEFINE Gaps == {k \in Nat : n - k \in S}
<1>1. Gaps # {}
  <2>1. PICK i \in S : TRUE
    OBVIOUS
  <2>2. n - i \in Nat /\ n - (n - i) = i
    OBVIOUS
  <2> QED
    BY <2>1, <2>2
<1>2. PICK m \in Gaps : \A k \in Gaps : <<k, m>> \notin OpToRel(<, Nat)
  BY <1>1, NatLessThanWellFounded, WFMin
<1>3. \A k \in Gaps : ~(k < m)
  BY <1>2, Zenon DEF OpToRel
<1>4. ASSUME NEW j \in S PROVE j <= n - m
  <2>1. n - j \in Nat /\ n - (n - j) = j
    OBVIOUS
  <2>2. n - j \in Gaps
    BY <2>1
  <2> QED
    BY <1>3, <2>2
<1> QED
  BY <1>4

\* last_losing_trade_at is the last of the losses, if there are any.
LEMMA LastLossKnown ==
  ASSUME NEW rows \in Seq(FillRows)
  PROVE  /\ LastLoss(rows) \in Nat
         /\ \A i \in Losses(rows) : i \in 1..Len(rows) /\ i <= LastLoss(rows)
         /\ LastLoss(rows) = 0 \/ LastLoss(rows) \in Losses(rows)
<1>1. Len(rows) \in Nat /\ Losses(rows) \in SUBSET (1..Len(rows))
  BY RowsKnown DEF Losses, Sales
<1>2. CASE Losses(rows) = {}
  BY <1>1, <1>2 DEF LastLoss
<1>3. CASE Losses(rows) # {}
  <2>1. \E i \in Losses(rows) : \A j \in Losses(rows) : j <= i
    BY <1>1, <1>3, LastExists
  <2>2. LastLoss(rows) \in Losses(rows) /\ \A j \in Losses(rows) : j <= LastLoss(rows)
    BY <1>3, <2>1 DEF LastLoss
  <2> QED
    BY <1>1, <2>2
<1> QED
  BY <1>2, <1>3

\* The last loss of all rows is no earlier than that of the first n.
LEMMA LastLossGrows ==
  ASSUME NEW rows \in Seq(FillRows), NEW n \in 0..Len(rows)
  PROVE  LastLoss(rows) >= LastLoss(SubSeq(rows, 1, n))
<1> DEFINE old == SubSeq(rows, 1, n)
<1>1. /\ old \in Seq(FillRows) /\ Len(old) = n /\ Len(rows) \in Nat
      /\ \A i \in 1..n : old[i] = rows[i]
  BY PrefixRows, RowsKnown
<1> HIDE DEF old
<1>2. DOMAIN old = 1..n /\ DOMAIN rows = 1..Len(rows)
  BY <1>1, RowsKnown
<1>3. Losses(old) \subseteq Losses(rows)
  BY <1>1, <1>2 DEF Losses, Sales
<1>4. LastLoss(old) \in Nat /\ (LastLoss(old) = 0 \/ LastLoss(old) \in Losses(old))
  BY <1>1, LastLossKnown
<1>5. LastLoss(rows) \in Nat /\ \A i \in Losses(rows) : i <= LastLoss(rows)
  BY LastLossKnown
<1>6. LastLoss(rows) >= LastLoss(old)
  BY <1>3, <1>4, <1>5
<1> QED
  BY <1>6 DEF old

-----------------------------------------------------------------------------
(* The columns and the ledger.  Every fill rounds the cash, a BUY also the *)
(* average of every lot held, a SELL the P/L; between the fills the columns*)
(* are off by no more than what all of them have rounded.                  *)

\* The BUYs of an asset since its last SELL, among the first n rows.
BoughtSince(rows, a, n) ==
  LET same == {j \in 1..n : rows[j].asset = a}
  IN {j \in same : \A k \in same : k >= j => rows[k].side = "BUY"}

HeldIn(rows, a, n) ==
  SumFunctionOnSet([j \in BoughtSince(rows, a, n) |-> rows[j].qty], BoughtSince(rows, a, n))

FeesIn(rows, n) ==
  LET bought == {i \in 1..n : rows[i].side = "BUY"}
  IN SumFunctionOnSet([i \in bought |-> rows[i].fee], bought)

\* Twice the rounding of the first n rows.
RoundingIn(rows, i) ==
  IF rows[i].side = "BUY" THEN Lot + HeldIn(rows, rows[i].asset, i) ELSE 2 * Lot

Slack(rows, n) == SumFunctionOnSet([i \in 1..n |-> RoundingIn(rows, i)], 1..n)

Cost(row) == row.qty * row.avg

Costs(rows) == SumFunctionOnSet([a \in Assets |-> Cost(rows[a])], Assets)

\* What the columns of the account have drifted from the ledger.
Drift ==
  cash * Lot + Costs(book) - InitialCash * Lot
    - (RealizedTotal(fills) - FeesIn(fills, Len(fills))) * Lot

LedgerReconciles ==
  2 * Drift <= Slack(fills, Len(fills)) /\ -(2 * Drift) <= Slack(fills, Len(fills))

HeldIsBought == \A a \in Assets : book[a].qty = HeldIn(fills, a, Len(fills))

AccountTypes ==
  /\ approval \in [Signals -> Sizes \cup {None}]
  /\ book \in [Assets -> [qty : Nat, avg : Nat]]
  /\ cash \in Nat /\ peak \in Nat
  /\ quote \in [Assets -> Prices]
  /\ fills \in Seq(FillRows)
  /\ midnights \in Seq(0..Len(fills))

AccountInv == AccountTypes /\ HeldIsBought /\ LedgerReconciles

\* The sums of PortfolioState, over the rows that are there now.
LEMMA SameSums ==
  /\ \A n : BuyFees(n) = FeesIn(fills, n)
  /\ \A n : RoundingOf(n) = Slack(fills, n)
<1>1. \A i : HeldAfter(i) = HeldIn(fills, fills[i].asset, i)
  BY DEF HeldAfter, HeldIn, BoughtSince
<1>2. \A i : Rounding(i) = RoundingIn(fills, i)
  BY <1>1 DEF Rounding, RoundingIn
<1> QED
  BY <1>2 DEF BuyFees, FeesIn, RoundingOf, Slack

\* The lots of an asset bought since its last SELL.
LEMMA HeldKnown ==
  ASSUME NEW rows \in Seq(FillRows), NEW a, NEW n \in 0..Len(rows)
  PROVE  IsFiniteSet(BoughtSince(rows, a, n)) /\ HeldIn(rows, a, n) \in Nat
<1> DEFINE S == BoughtSince(rows, a, n)
<1>1. /\ IsFiniteSet(1..n) /\ S \in SUBSET (1..n)
  BY FS_Interval, RowsKnown DEF BoughtSince
<1>2. IsFiniteSet(S)
  BY <1>1, FS_Subset
<1>3. \A j \in S : j \in 1..Len(rows)
  BY <1>1, RowsKnown
<1>4. \A j \in S : [k \in S |-> rows[k].qty][j] \in Int /\ [k \in S |-> rows[k].qty][j] >= 0
  BY <1>3, RowsKnown
<1> HIDE DEF S
<1>5. /\ SumFunctionOnSet([k \in S |-> rows[k].qty], S) \in Int
      /\ SumFunctionOnSet([k \in S |-> rows[k].qty], S) >= 0
  BY <1>2, <1>4, SumType
<1> QED
  BY <1>2, <1>5 DEF S, HeldIn

\* New rows leave what the earlier ones add up to.
LEMMA PastKept ==
  ASSUME NEW rows \in Seq(FillRows), NEW x \in FillRows, NEW n \in 0..Len(rows)
  PROVE  /\ \A a : HeldIn(Append(rows, x), a, n) = HeldIn(rows, a, n)
         /\ FeesIn(Append(rows, x), n) = FeesIn(rows, n)
         /\ Slack(Append(rows, x), n) = Slack(rows, n)
<1> DEFINE new == Append(rows, x)
<1>1. Len(rows) \in Nat /\ \A i \in 1..Len(rows) : new[i] = rows[i]
  BY AppendKeeps
<1> HIDE DEF new
<1>2. ASSUME NEW m \in 0..n, NEW a PROVE HeldIn(new, a, m) = HeldIn(rows, a, m)
  <2>1. \A j \in 1..m : new[j] = rows[j]
    BY <1>1
  <2>2. BoughtSince(new, a, m) = BoughtSince(rows, a, m)
    BY <2>1 DEF BoughtSince
  <2>3. BoughtSince(rows, a, m) \subseteq 1..m
    BY DEF BoughtSince
  <2>4. [j \in BoughtSince(rows, a, m) |-> new[j].qty]
          = [j \in BoughtSince(rows, a, m) |-> rows[j].qty]
    BY <2>1, <2>3
  <2> QED
    BY <2>2, <2>4 DEF HeldIn
<1>3. FeesIn(new, n) = FeesIn(rows, n)
  <2> DEFINE bought == {i \in 1..n : rows[i].side = "BUY"}
  <2>1. \A j \in 1..n : new[j] = rows[j]
    BY <1>1
  <2>2. {i \in 1..n : new[i].side = "BUY"} = bought
    BY <2>1
  <2>3. [i \in bought |-> new[i].fee] = [i \in bought |-> rows[i].fee]
    BY <2>1
  <2> QED
    BY <2>2, <2>3 DEF FeesIn
<1>4. \A i \in 1..n : RoundingIn(new, i) = RoundingIn(rows, i)
  <2> TAKE i \in 1..n
  <2>1. new[i] = rows[i] /\ i \in 0..n
    BY <1>1
  <2>2. HeldIn(new, rows[i].asset, i) = HeldIn(rows, rows[i].asset, i)
    BY <2>1, <1>2
  <2> QED
    BY <2>1, <2>2 DEF RoundingIn
<1>5. Slack(new, n) = Slack(rows, n)
  <2>1. [i \in 1..n |-> RoundingIn(new, i)] = [i \in 1..n |-> RoundingIn(rows, i)]
    BY <1>4
  <2> QED
    BY <2>1 DEF Slack
<1>6. n \in 0..n
  OBVIOUS
<1> QED
  BY <1>2, <1>3, <1>5, <1>6 DEF new

\* A BUY adds to what is held of its asset, a SELL leaves nothing.
LEMMA HeldMoves ==
  ASSUME NEW rows \in Seq(FillRows), NEW x \in FillRows, NEW a
  PROVE  HeldIn(Append(rows, x), a, Len(rows) + 1) =
           IF x.asset # a THEN HeldIn(rows, a, Len(rows))
           ELSE IF x.side = "BUY" THEN HeldIn(rows, a, Len(rows)) + x.qty ELSE 0
<1> DEFINE new == Append(rows, x)
           n == Len(rows)
           S == BoughtSince(rows, a, n)
           T == BoughtSince(new, a, n + 1)
           f == [j \in S |-> rows[j].qty]
           g == [j \in T |-> new[j].qty]
<1>1. /\ n \in Nat /\ new[n + 1] = x
      /\ \A i \in 1..n : new[i] = rows[i]
  BY AppendKeeps
<1>2. IsFiniteSet(S) /\ HeldIn(rows, a, n) \in Nat
  BY <1>1, HeldKnown
<1>3. HeldIn(rows, a, n) = SumFunctionOnSet(f, S) /\ HeldIn(new, a, n + 1) = SumFunctionOnSet(g, T)
  BY DEF HeldIn
<1>4. 1..(n + 1) = (1..n) \cup {n + 1} /\ S \subseteq 1..n /\ n + 1 \notin 1..n
  BY <1>1 DEF BoughtSince
<1>5. x.side \in {"BUY", "SELL"} /\ x.qty \in Nat
  BY DEF FillRows
<1> HIDE DEF new, n
<1>6. CASE x.asset # a
  <2>1. T = S
    BY <1>1, <1>4, <1>6 DEF BoughtSince
  <2>2. g = f
    BY <1>1, <1>4, <2>1
  <2> HIDE DEF f, g, S, T
  <2>3. HeldIn(new, a, n + 1) = HeldIn(rows, a, n)
    BY <1>3, <2>1, <2>2
  <2> QED
    BY <1>6, <2>3 DEF new, n
<1>7. CASE x.asset = a /\ x.side = "BUY"
  <2>1. T = S \cup {n + 1}
    <3>1. \A j \in 1..n : j \in T <=> j \in S
      BY <1>1, <1>4, <1>7 DEF BoughtSince
    <3>2. n + 1 \in T
      BY <1>1, <1>4, <1>7 DEF BoughtSince
    <3>3. T \subseteq 1..(n + 1)
      BY DEF BoughtSince
    <3> QED
      BY <1>4, <3>1, <3>2, <3>3
  <2>2. \A j \in S : g[j] = f[j] /\ f[j] \in Int
    BY <1>1, <1>4, <2>1, RowsKnown DEF n
  <2>3. g[n + 1] = x.qty /\ n + 1 \notin S
    BY <1>1, <1>4, <2>1
  <2> HIDE DEF f, g, S, T
  <2>4. SumFunctionOnSet(g, S \cup {n + 1}) = g[n + 1] + SumFunctionOnSet(g, S)
    BY <1>2, <1>5, <2>2, <2>3, SumWith
  <2>5. SumFunctionOnSet(g, S) = SumFunctionOnSet(f, S)
    BY <1>2, <2>2, SumSame
  <2>6. SumFunctionOnSet(g, T) = SumFunctionOnSet(g, S \cup {n + 1})
    BY <2>1
  <2>7. HeldIn(new, a, n + 1) = x.qty + HeldIn(rows, a, n)
    BY <1>3, <2>3, <2>4, <2>5, <2>6
  <2>8. HeldIn(new, a, n + 1) = HeldIn(rows, a, n) + x.qty
    BY <1>2, <1>5, <2>7
  <2> QED
    BY <1>7, <2>8 DEF new, n
<1>8. CASE x.asset = a /\ x.side = "SELL"
  <2>1. T = {}
    BY <1>1, <1>4, <1>8 DEF BoughtSince
  <2>2. SumFunctionOnSet(g, T) = 0
    <3> HIDE DEF g, T
    <3> QED
      BY <2>1, SumEmpty
  <2> HIDE DEF g, T
  <2>3. HeldIn(new, a, n + 1) = 0
    BY <1>3, <2>2
  <2> QED
    BY <1>8, <2>3 DEF new, n
<1> QED
  BY <1>5, <1>6, <1>7, <1>8

\* A BUY adds its fee to the fees, and every fill its rounding.
LEMMA FeesMove ==
  ASSUME NEW rows \in Seq(FillRows), NEW x \in FillRows
  PROVE  /\ FeesIn(rows, Len(rows)) \in Int
         /\ FeesIn(Append(rows, x), Len(rows) + 1) =
              FeesIn(rows, Len(rows)) + IF x.side = "BUY" THEN x.fee ELSE 0
<1> DEFINE new == Append(rows, x)
           n == Len(rows)
           S == {i \in 1..n : rows[i].side = "BUY"}
           T == {i \in 1..(n + 1) : new[i].side = "BUY"}
           f == [i \in S |-> rows[i].fee]
           g == [i \in T |-> new[i].fee]
<1>1. /\ n \in Nat /\ new[n + 1] = x
      /\ \A i \in 1..n : new[i] = rows[i]
  BY AppendKeeps
<1>2. IsFiniteSet(S)
  <2>1. S \in SUBSET (1..n) /\ IsFiniteSet(1..n)
    BY RowsKnown
  <2> QED
    BY <2>1, FS_Subset
<1>3. \A i \in S : f[i] \in Int
  BY RowsKnown
<1>4. SumFunctionOnSet(f, S) \in Int
  <2> HIDE DEF f, S
  <2> QED
    BY <1>2, <1>3, SumType
<1>5. FeesIn(rows, n) = SumFunctionOnSet(f, S) /\ FeesIn(new, n + 1) = SumFunctionOnSet(g, T)
  BY DEF FeesIn
<1>6. 1..(n + 1) = (1..n) \cup {n + 1} /\ n + 1 \notin 1..n
  BY <1>1
<1>7. x.fee \in Int
  BY DEF FillRows
<1> HIDE DEF new, n
<1>8. CASE x.side = "BUY"
  <2>1. T = S \cup {n + 1} /\ n + 1 \notin S
    BY <1>1, <1>6, <1>8
  <2>2. \A i \in S : g[i] = f[i] /\ g[i] \in Int
    BY <1>1, <1>3, <2>1
  <2>3. g[n + 1] = x.fee
    BY <1>1, <2>1
  <2> HIDE DEF f, g, S, T
  <2>4. SumFunctionOnSet(g, S \cup {n + 1}) = g[n + 1] + SumFunctionOnSet(g, S)
    BY <1>2, <1>7, <2>1, <2>2, <2>3, SumWith
  <2>5. SumFunctionOnSet(g, S) = SumFunctionOnSet(f, S)
    BY <1>2, <2>2, SumSame
  <2>6. SumFunctionOnSet(g, T) = SumFunctionOnSet(g, S \cup {n + 1})
    BY <2>1
  <2>7. FeesIn(new, n + 1) = x.fee + FeesIn(rows, n)
    BY <1>5, <2>3, <2>4, <2>5, <2>6
  <2>8. FeesIn(new, n + 1) = FeesIn(rows, n) + x.fee /\ FeesIn(rows, n) \in Int
    BY <1>4, <1>5, <1>7, <2>7
  <2> QED
    BY <1>8, <2>8 DEF new, n
<1>9. CASE x.side # "BUY"
  <2>1. T = S
    BY <1>1, <1>6, <1>9
  <2>2. g = f
    BY <1>1, <2>1
  <2> HIDE DEF f, g, S, T
  <2>3. FeesIn(new, n + 1) = FeesIn(rows, n) /\ FeesIn(rows, n) \in Int
    BY <1>4, <1>5, <2>1, <2>2
  <2>4. FeesIn(new, n + 1) = FeesIn(rows, n) + 0
    BY <2>3
  <2> QED
    BY <1>9, <2>3, <2>4 DEF new, n
<1> QED
  BY <1>8, <1>9

\* Every fill adds its rounding.
LEMMA SlackMoves ==
  ASSUME NEW rows \in Seq(FillRows), NEW x \in FillRows
  PROVE  /\ Slack(rows, Len(rows)) \in Int
         /\ RoundingIn(Append(rows, x), Len(rows) + 1) \in Int
         /\ Slack(Append(rows, x), Len(rows) + 1) =
              Slack(rows, Len(rows)) + RoundingIn(Append(rows, x), Len(rows) + 1)
<1> DEFINE new == Append(rows, x)
           n == Len(rows)
           g == [i \in 1..(n + 1) |-> RoundingIn(new, i)]
<1>1. n \in Nat /\ new \in Seq(FillRows) /\ Len(new) = n + 1
  BY AppendKeeps
<1> HIDE DEF new, n
<1>2. ASSUME NEW i \in 1..(n + 1) PROVE RoundingIn(new, i) \in Int
  <2>1. HeldIn(new, new[i].asset, i) \in Nat
    BY <1>1, HeldKnown
  <2> QED
    BY <2>1, EngineAssumption DEF RoundingIn
<1>3. 1..(n + 1) = (1..n) \cup {n + 1} /\ n + 1 \notin 1..n /\ IsFiniteSet(1..n)
      /\ 1..n \subseteq 1..(n + 1) /\ n + 1 \in 1..(n + 1) /\ n \in 0..n
  <2>1. IsFiniteSet(1..n)
    BY <1>1, FS_Interval
  <2> QED
    BY <1>1, <2>1
<1>4. /\ \A i \in 1..n : g[i] \in Int
      /\ g[n + 1] = RoundingIn(new, n + 1) /\ g[n + 1] \in Int
  BY <1>2, <1>3
<1>5. \A i \in 1..n : g[i] = [j \in 1..n |-> RoundingIn(new, j)][i]
  BY <1>3
<1>6. Slack(new, n + 1) = SumFunctionOnSet(g, 1..(n + 1))
      /\ Slack(new, n) = SumFunctionOnSet([j \in 1..n |-> RoundingIn(new, j)], 1..n)
  BY DEF Slack
<1> HIDE DEF g
<1>7. SumFunctionOnSet(g, (1..n) \cup {n + 1}) = g[n + 1] + SumFunctionOnSet(g, 1..n)
  BY <1>3, <1>4, SumWith
<1>8. SumFunctionOnSet(g, 1..n) = Slack(new, n)
  BY <1>3, <1>5, <1>6, SumSame
<1>9. SumFunctionOnSet(g, 1..n) \in Int
  BY <1>3, <1>4, SumType
<1>10. Slack(new, n) = Slack(rows, n)
  <2>1. n \in 0..Len(rows)
    BY <1>3 DEF n
  <2> QED
    BY <2>1, PastKept DEF new
<1>11. Slack(new, n + 1) = g[n + 1] + Slack(rows, n) /\ Slack(rows, n) \in Int
  BY <1>3, <1>6, <1>7, <1>8, <1>9, <1>10
<1>12. Slack(new, n + 1) = Slack(rows, n) + RoundingIn(new, n + 1)
  BY <1>4, <1>11
<1> QED
  BY <1>4, <1>11, <1>12 DEF new, n

-----------------------------------------------------------------------------
(* A trade that commits, as the account's columns and paper_fills see it. *)

Bought(a, qty, price) ==
  /\ RequiredCash(qty, price) <= cash * Lot
  /\ book' = [book EXCEPT ![a] =
       [qty |-> book[a].qty + qty,
        avg |-> WeightedAverageEntry(book[a].qty, book[a].avg, qty, price)]]
  /\ cash' = CashAfterBuy(cash, qty, price)
  /\ fills' = Append(fills, [asset |-> a, side |-> "BUY", qty |-> qty,
                             fee |-> Fee(qty, price), pnl |-> None])

Sold(a, price) ==
  LET qty == book[a].qty
      fee == Fee(qty, price)
  IN /\ qty > 0
     /\ book' = [book EXCEPT ![a] = Flat]
     /\ cash' = CashAfterSell(cash, qty, price, fee)
     /\ cash' >= 0
     /\ fills' = Append(fills, [asset |-> a, side |-> "SELL", qty |-> qty, fee |-> fee,
                                pnl |-> RealizedPnl(book[a].avg, price, qty, fee)])

\* A trade that writes anything is a BUY or a sale.
LEMMA TradeIs ==
  ASSUME AccountTypes, Trade
  PROVE  /\ UNCHANGED <<quote, peak, midnights, session, report>>
         /\ approval' \in [Signals -> Sizes \cup {None}]
         /\ \/ UNCHANGED <<book, cash, fills>>
            \/ \E a \in Assets, qty \in Sizes, price \in Prices : Bought(a, qty, price)
            \/ \E a \in Assets, price \in Prices : Sold(a, price)
<1>1. UNCHANGED <<quote, peak, midnights, session, report>>
  BY DEF Trade
<1>2. approval \in [Signals -> Sizes \cup {None}] /\ quote \in [Assets -> Prices]
      /\ \A a \in Assets : book[a].qty \in Nat
  BY DEF AccountTypes
<1>3. \A s \in Signals : AssetOf[s] \in Assets /\ quote[AssetOf[s]] \in Prices
  BY <1>2, PortfolioAssumption
<1>4. ASSUME NEW s \in Signals, NEW qty \in Sizes, Approve(s, qty), UNCHANGED fills
      PROVE  approval' \in [Signals -> Sizes \cup {None}] /\ UNCHANGED <<book, cash, fills>>
  BY <1>2, <1>4 DEF Approve
<1>5. ASSUME NEW s \in Signals, Reject(s, quote[AssetOf[s]]), UNCHANGED fills
      PROVE  approval' \in [Signals -> Sizes \cup {None}] /\ UNCHANGED <<book, cash, fills>>
  BY <1>2, <1>5 DEF Reject
<1>6. ASSUME NEW s \in Signals, Buy(s, quote[AssetOf[s]]),
             fills' = Append(fills, BuyFill(s, quote[AssetOf[s]]))
      PROVE  /\ approval' \in [Signals -> Sizes \cup {None}]
             /\ \E a \in Assets, qty \in Sizes, price \in Prices : Bought(a, qty, price)
  <2>1. approval[s] \in Sizes /\ approval' = approval
    BY <1>2, <1>6 DEF Buy
  <2>2. Bought(AssetOf[s], approval[s], quote[AssetOf[s]])
    BY <1>6 DEF Buy, Bought, BuyFill, ApplyBuyFill, Affordable
  <2> QED
    BY <1>2, <1>3, <2>1, <2>2
<1>7. ASSUME NEW a \in Assets, Close(a, quote[a]),
             fills' = Append(fills, SellFill(a, quote[a]))
      PROVE  /\ approval' \in [Signals -> Sizes \cup {None}]
             /\ \E b \in Assets, price \in Prices : Sold(b, price)
  <2>1. Sold(a, quote[a])
    BY <1>7 DEF Close, Sold, SellFill, ApplySellFill
  <2>2. approval' = approval
    BY <1>7 DEF Close
  <2> QED
    BY <1>2, <2>1, <2>2
<1>8. \/ \E s \in Signals : \/ /\ \/ \E qty \in Sizes : Approve(s, qty)
                                  \/ Reject(s, quote[AssetOf[s]])
                               /\ UNCHANGED fills
                            \/ /\ Buy(s, quote[AssetOf[s]])
                               /\ fills' = Append(fills, BuyFill(s, quote[AssetOf[s]]))
      \/ \E a \in Assets : /\ Close(a, quote[a])
                           /\ fills' = Append(fills, SellFill(a, quote[a]))
  BY DEF Trade
<1> QED
  BY <1>1, <1>4, <1>5, <1>6, <1>7, <1>8

\* What the rows cost is an integer.
LEMMA CostsKnown ==
  ASSUME NEW rows, \A a \in Assets : rows[a].qty \in Nat /\ rows[a].avg \in Nat
  PROVE  Costs(rows) \in Int
<1>1. \A a \in Assets : [b \in Assets |-> Cost(rows[b])][a] \in Int
  BY DEF Cost
<1> QED
  BY <1>1, SumType, PortfolioAssumption DEF Costs

\* What one row moves, the sum moves.
LEMMA CostsMove ==
  ASSUME NEW rows \in [Assets -> [qty : Nat, avg : Nat]], NEW a \in Assets,
         NEW row \in [qty : Nat, avg : Nat]
  PROVE  /\ Costs(rows) \in Int /\ Cost(row) \in Int /\ Cost(rows[a]) \in Int
         /\ Costs([rows EXCEPT ![a] = row]) = Costs(rows) + Cost(row) - Cost(rows[a])
<1> DEFINE new == [rows EXCEPT ![a] = row]
           f == [b \in Assets |-> Cost(rows[b])]
           g == [b \in Assets |-> Cost(new[b])]
<1>1. \A b \in Assets : f[b] \in Int /\ g[b] \in Int
  BY DEF Cost
<1>2. /\ g[a] = Cost(row) /\ f[a] = Cost(rows[a])
      /\ \A b \in Assets \ {a} : g[b] = f[b]
  OBVIOUS
<1>3. Costs(rows) = SumFunctionOnSet(f, Assets) /\ Costs(new) = SumFunctionOnSet(g, Assets)
  BY DEF Costs
<1>4. Cost(row) \in Int /\ Cost(rows[a]) \in Int
  BY DEF Cost
<1>5. Costs(rows) \in Int
  BY CostsKnown
<1> HIDE DEF f, g
<1>6. SumFunctionOnSet(g, Assets) = SumFunctionOnSet(f, Assets) + g[a] - f[a]
  <2>1. IsFiniteSet(Assets) /\ \A b \in Assets \ {a} : g[b] = f[b]
    BY <1>2, PortfolioAssumption
  <2> QED
    BY <1>1, <2>1, SumChanged
<1> HIDE DEF new
<1>7. Costs(new) = Costs(rows) + Cost(row) - Cost(rows[a])
  <2>1. Costs(new) = Costs(rows) + g[a] - f[a]
    BY <1>3, <1>6
  <2> QED
    BY <1>2, <2>1
<1> QED
  BY <1>4, <1>5, <1>7 DEF new

\* A BUY writes values of the right types.
LEMMA BoughtTypes ==
  ASSUME AccountTypes, NEW a \in Assets, NEW qty \in Sizes, NEW price \in Prices,
         Bought(a, qty, price)
  PROVE  /\ qty \in Nat \ {0} /\ price \in Nat /\ Fee(qty, price) \in Nat
         /\ [asset |-> a, side |-> "BUY", qty |-> qty, fee |-> Fee(qty, price), pnl |-> None]
              \in FillRows
         /\ WeightedAverageEntry(book[a].qty, book[a].avg, qty, price) \in Nat
         /\ book' \in [Assets -> [qty : Nat, avg : Nat]]
         /\ cash' \in Nat
         /\ fills' \in Seq(FillRows)
<1>1. qty \in Nat \ {0} /\ price \in Nat
  BY PortfolioAssumption
<1>2. /\ cash \in Nat /\ book \in [Assets -> [qty : Nat, avg : Nat]]
      /\ fills \in Seq(FillRows) /\ book[a].qty \in Nat /\ book[a].avg \in Nat
  BY DEF AccountTypes
<1>3. Fee(qty, price) \in Nat
  BY <1>1, FeeNat
<1>4. WeightedAverageEntry(book[a].qty, book[a].avg, qty, price) \in Nat
  BY <1>1, <1>2, AverageNat
<1>5. [asset |-> a, side |-> "BUY", qty |-> qty, fee |-> Fee(qty, price), pnl |-> None]
        \in FillRows
  BY <1>1, <1>3 DEF FillRows
<1>6. cash' \in Nat
  BY <1>1, <1>2, BuyLeavesCash DEF Bought
<1>7. book' \in [Assets -> [qty : Nat, avg : Nat]]
  BY <1>1, <1>2, <1>4 DEF Bought
<1>8. fills' \in Seq(FillRows)
  BY <1>2, <1>5, AppendKeeps DEF Bought
<1> QED
  BY <1>1, <1>3, <1>4, <1>5, <1>6, <1>7, <1>8

\* A sale writes values of the right types.
LEMMA SoldTypes ==
  ASSUME AccountTypes, NEW a \in Assets, NEW price \in Prices, Sold(a, price)
  PROVE  LET qty == book[a].qty
             fee == Fee(qty, price)
             pnl == RealizedPnl(book[a].avg, price, qty, fee)
         IN /\ qty \in Nat \ {0} /\ price \in Nat /\ fee \in Nat /\ pnl \in Int
            /\ [asset |-> a, side |-> "SELL", qty |-> qty, fee |-> fee, pnl |-> pnl] \in FillRows
            /\ book' \in [Assets -> [qty : Nat, avg : Nat]]
            /\ cash' \in Nat
            /\ fills' \in Seq(FillRows)
<1> DEFINE qty == book[a].qty
           fee == Fee(qty, price)
           pnl == RealizedPnl(book[a].avg, price, qty, fee)
<1>1. /\ cash \in Nat /\ book \in [Assets -> [qty : Nat, avg : Nat]]
      /\ fills \in Seq(FillRows) /\ qty \in Nat /\ book[a].avg \in Nat
  BY DEF AccountTypes
<1>2. qty \in Nat \ {0} /\ price \in Nat
  BY <1>1, PortfolioAssumption DEF Sold
<1>3. fee \in Nat
  BY <1>2, FeeNat
<1>4. pnl \in Int
  BY <1>1, <1>2, <1>3, RealizedInt
<1>5. [asset |-> a, side |-> "SELL", qty |-> qty, fee |-> fee, pnl |-> pnl] \in FillRows
  <2> HIDE DEF qty, fee, pnl
  <2> QED
    BY <1>2, <1>3, <1>4 DEF FillRows
<1>6. cash' \in Nat
  <2>1. CashAfterSell(cash, qty, price, fee) \in Int
    BY <1>1, <1>2, <1>3, SellCashInt
  <2>2. cash' = CashAfterSell(cash, qty, price, fee) /\ cash' >= 0
    BY DEF Sold
  <2> QED
    BY <2>1, <2>2
<1>7. book' \in [Assets -> [qty : Nat, avg : Nat]]
  BY <1>1 DEF Sold, Flat
<1>8. fills' \in Seq(FillRows)
  BY <1>1, <1>5, AppendKeeps DEF Sold
<1> QED
  BY <1>2, <1>3, <1>4, <1>5, <1>6, <1>7, <1>8

\* The BUYs since the last SELL add up to the quantity: after a BUY.
LEMMA BoughtKeepsHeld ==
  ASSUME AccountInv, NEW a \in Assets, NEW qty \in Sizes, NEW price \in Prices,
         Bought(a, qty, price)
  PROVE  HeldIsBought' /\ book'[a].qty = book[a].qty + qty
<1> DEFINE row == [asset |-> a, side |-> "BUY", qty |-> qty,
                   fee |-> Fee(qty, price), pnl |-> None]
<1>1. /\ row \in FillRows /\ fills \in Seq(FillRows)
      /\ book \in [Assets -> [qty : Nat, avg : Nat]]
  BY BoughtTypes DEF AccountInv, AccountTypes
<1>2. fills' = Append(fills, row) /\ Len(fills') = Len(fills) + 1
  BY <1>1, AppendKeeps DEF Bought
<1>3. row.asset = a /\ row.side = "BUY" /\ row.qty = qty
  OBVIOUS
<1> HIDE DEF row
<1>4. \A b \in Assets : book[b].qty = HeldIn(fills, b, Len(fills))
  BY DEF AccountInv, HeldIsBought
<1>5. \A b \in Assets : HeldIn(fills', b, Len(fills')) =
        IF b # a THEN HeldIn(fills, b, Len(fills)) ELSE HeldIn(fills, b, Len(fills)) + qty
  BY <1>1, <1>2, <1>3, HeldMoves
<1>6. \A b \in Assets : book'[b].qty = IF b # a THEN book[b].qty ELSE book[b].qty + qty
  BY <1>1 DEF Bought
<1> QED
  BY <1>4, <1>5, <1>6 DEF HeldIsBought

\* A BUY moves the columns away from the ledger by its own rounding at most.
LEMMA BoughtKeepsDrift ==
  ASSUME AccountInv, NEW a \in Assets, NEW qty \in Sizes, NEW price \in Prices,
         Bought(a, qty, price)
  PROVE  LedgerReconciles'
<1> DEFINE row == [asset |-> a, side |-> "BUY", qty |-> qty,
                   fee |-> Fee(qty, price), pnl |-> None]
           fee == Fee(qty, price)
           q == book[a].qty
           avg == book[a].avg
           next == [qty |-> q + qty, avg |-> WeightedAverageEntry(q, avg, qty, price)]
           n == Len(fills)
<1>1. /\ row \in FillRows /\ fills \in Seq(FillRows) /\ cash \in Nat /\ cash' \in Nat
      /\ book \in [Assets -> [qty : Nat, avg : Nat]] /\ q \in Nat /\ avg \in Nat
      /\ qty \in Nat \ {0} /\ price \in Nat /\ fee \in Nat
      /\ next \in [qty : Nat, avg : Nat]
  BY BoughtTypes DEF AccountInv, AccountTypes
<1>2. fills' = Append(fills, row) /\ Len(fills') = n + 1 /\ fills'[n + 1] = row
      /\ fills' \in Seq(FillRows)
  BY <1>1, AppendKeeps DEF Bought
<1>3. Lot \in Nat \ {0} /\ InitialCash \in Nat
  BY EngineAssumption, PortfolioAssumption
<1>4. book' = [book EXCEPT ![a] = next] /\ cash' = CashAfterBuy(cash, qty, price)
  BY DEF Bought
\* the cash
<1>5. /\ cash' * Lot \in Int /\ cash * Lot \in Int /\ qty * price \in Int /\ fee * Lot \in Int
      /\ 2 * (cash' * Lot - (cash * Lot - qty * price - fee * Lot)) <= Lot
      /\ 2 * ((cash * Lot - qty * price - fee * Lot) - cash' * Lot) <= Lot
  <2>1. RequiredCash(qty, price) = qty * price + fee * Lot
    BY DEF RequiredCash, Notional
  <2>2. cash * Lot \in Int /\ qty * price \in Int /\ fee * Lot \in Int /\ cash' * Lot \in Int
    BY <1>1, <1>3
  <2>3. cash * Lot - RequiredCash(qty, price) \in Int
    BY <2>1, <2>2
  <2>4. /\ 2 * (cash' * Lot - (cash * Lot - RequiredCash(qty, price))) <= Lot
        /\ 2 * ((cash * Lot - RequiredCash(qty, price)) - cash' * Lot) <= Lot
    BY <1>3, <1>4, <2>3, RoundTicksError DEF CashAfterBuy
  <2> HIDE DEF fee
  <2>5. cash * Lot - RequiredCash(qty, price) = cash * Lot - qty * price - fee * Lot
    BY <2>1, <2>2
  <2> QED
    BY <2>2, <2>4, <2>5
\* the positions
<1>6. /\ Costs(book) \in Int /\ Costs(book') \in Int
      /\ 2 * (Costs(book') - Costs(book) - qty * price) <= q + qty
      /\ 2 * (Costs(book) + qty * price - Costs(book')) <= q + qty
  <2>1. /\ Costs(book) \in Int /\ Cost(next) \in Int /\ Cost(book[a]) \in Int
        /\ Costs(book') = Costs(book) + Cost(next) - Cost(book[a])
    BY <1>1, <1>4, CostsMove
  <2>2. Cost(book[a]) = q * avg
        /\ Cost(next) = (q + qty) * WeightedAverageEntry(q, avg, qty, price)
    BY DEF Cost
  <2> HIDE DEF next, q, avg
  <2>3. /\ 2 * (q * avg + qty * price - Cost(next)) <= q + qty
        /\ 2 * (Cost(next) - q * avg - qty * price) <= q + qty
    BY <1>1, <2>2, AverageDrift
  <2> DEFINE cost == q * avg
             paid == qty * price
  <2>4. cost \in Int /\ paid \in Int
    BY <1>1
  <2>5. /\ 2 * (cost + paid - Cost(next)) <= q + qty
        /\ 2 * (Cost(next) - cost - paid) <= q + qty
        /\ Cost(book[a]) = cost
    BY <2>2, <2>3
  <2>6. q + qty \in Int
    BY <1>1
  <2> HIDE DEF cost, paid
  <2>7. /\ 2 * (Costs(book') - Costs(book) - paid) <= q + qty
        /\ 2 * (Costs(book) + paid - Costs(book')) <= q + qty
        /\ Costs(book') \in Int
    BY <2>1, <2>4, <2>5, <2>6
  <2> QED
    BY <2>1, <2>7 DEF paid
\* the ledger
<1>7. /\ RealizedTotal(fills) \in Int /\ RealizedTotal(fills') = RealizedTotal(fills)
      /\ FeesIn(fills, n) \in Int /\ FeesIn(fills', n + 1) = FeesIn(fills, n) + fee
  <2>1. row.side = "BUY" /\ row.fee = fee
    OBVIOUS
  <2>2. /\ RealizedTotal(fills') = RealizedTotal(fills) + 0 /\ RealizedTotal(fills) \in Int
    BY <1>1, <1>2, <2>1, RealizedGrows, RealizedKnown
  <2> HIDE DEF row
  <2>3. FeesIn(fills', n + 1) = FeesIn(fills, n) + row.fee /\ FeesIn(fills, n) \in Int
    BY <1>1, <1>2, <2>1, FeesMove
  <2> QED
    BY <2>1, <2>2, <2>3
<1>8. /\ Slack(fills, n) \in Int /\ Slack(fills', n + 1) = Slack(fills, n) + Lot + (q + qty)
  <2>1. row.side = "BUY" /\ row.asset = a /\ row.qty = qty
    OBVIOUS
  <2> HIDE DEF row
  <2>2. HeldIn(fills', a, n + 1) = q + qty
    BY <1>1, <1>2, <2>1, HeldMoves DEF AccountInv, HeldIsBought
  <2>3. RoundingIn(fills', n + 1) = Lot + (q + qty)
    BY <1>2, <2>1, <2>2 DEF RoundingIn
  <2>4. Slack(fills, n) \in Int
        /\ Slack(fills', n + 1) = Slack(fills, n) + RoundingIn(fills', n + 1)
    BY <1>1, <1>2, SlackMoves
  <2> QED
    BY <1>1, <1>3, <2>3, <2>4
<1> HIDE DEF row, fee, q, avg, next
<1> DEFINE R == RealizedTotal(fills)
           F == FeesIn(fills, n)
<1>9. (R - (F + fee)) * Lot = (R - F) * Lot - fee * Lot /\ (R - F) * Lot \in Int
      /\ R \in Int /\ F \in Int
  <2>1. R \in Int /\ F \in Int /\ fee \in Int /\ Lot \in Int
    BY <1>1, <1>3, <1>7
  <2> HIDE DEF R, F
  <2>2. R - F \in Int /\ R - (F + fee) = (R - F) - fee
    BY <2>1
  <2> QED
    BY <2>1, <2>2, Distributes
<1>10. InitialCash * Lot \in Int
  BY <1>3
<1>11. Drift = cash * Lot + Costs(book) - InitialCash * Lot - (R - F) * Lot
  BY DEF Drift
<1>12. Drift' = cash' * Lot + Costs(book') - InitialCash * Lot - (R - (F + fee)) * Lot
  BY <1>2, <1>7 DEF Drift
<1>13. 2 * Drift <= Slack(fills, n) /\ -(2 * Drift) <= Slack(fills, n)
  BY DEF AccountInv, LedgerReconciles
<1> HIDE DEF R, F, n
<1>14. Drift' = cash' * Lot + Costs(book') - InitialCash * Lot - ((R - F) * Lot - fee * Lot)
  BY <1>9, <1>12
<1>15. /\ 2 * Drift' <= Slack(fills, n) + Lot + (q + qty)
       /\ -(2 * Drift') <= Slack(fills, n) + Lot + (q + qty)
  <2> DEFINE c == cash * Lot
             c2 == cash' * Lot
             paid == qty * price
             f == fee * Lot
             start == InitialCash * Lot
             total == (R - F) * Lot
             held == q + qty
             slack == Slack(fills, n)
  <2>1. /\ c \in Int /\ c2 \in Int /\ paid \in Int /\ f \in Int /\ start \in Int
        /\ total \in Int /\ held \in Int /\ slack \in Int /\ Lot \in Int
        /\ Costs(book) \in Int /\ Costs(book') \in Int
    BY <1>1, <1>3, <1>5, <1>6, <1>8, <1>9, <1>10
  <2>2. 2 * (c2 - (c - paid - f)) <= Lot /\ 2 * ((c - paid - f) - c2) <= Lot
    BY <1>5
  <2>3. /\ 2 * (Costs(book') - Costs(book) - paid) <= held
        /\ 2 * (Costs(book) + paid - Costs(book')) <= held
    BY <1>6
  <2>4. Drift = c + Costs(book) - start - total
    BY <1>11
  <2>5. Drift' = c2 + Costs(book') - start - (total - f)
    BY <1>14
  <2>6. 2 * Drift <= slack /\ -(2 * Drift) <= slack
    BY <1>13
  <2> HIDE DEF c, c2, paid, f, start, total, held, slack
  <2>7. 2 * Drift' <= slack + Lot + held /\ -(2 * Drift') <= slack + Lot + held
    BY <2>1, <2>2, <2>3, <2>4, <2>5, <2>6
  <2> QED
    BY <2>7 DEF slack, held
<1>16. Len(fills') = n + 1
  BY <1>2
<1> QED
  BY <1>8, <1>15, <1>16 DEF LedgerReconciles

\* The BUYs since the last SELL add up to the quantity: after a sale.
LEMMA SoldKeepsHeld ==
  ASSUME AccountInv, NEW a \in Assets, NEW price \in Prices, Sold(a, price)
  PROVE  HeldIsBought'
<1> DEFINE qty == book[a].qty
           row == [asset |-> a, side |-> "SELL", qty |-> qty, fee |-> Fee(qty, price),
                   pnl |-> RealizedPnl(book[a].avg, price, qty, Fee(qty, price))]
<1>1. /\ row \in FillRows /\ fills \in Seq(FillRows)
      /\ book \in [Assets -> [qty : Nat, avg : Nat]]
  BY SoldTypes DEF AccountInv, AccountTypes
<1>2. fills' = Append(fills, row) /\ Len(fills') = Len(fills) + 1
  BY <1>1, AppendKeeps DEF Sold
<1>3. row.asset = a /\ row.side = "SELL"
  OBVIOUS
<1> HIDE DEF row
<1>4. \A b \in Assets : book[b].qty = HeldIn(fills, b, Len(fills))
  BY DEF AccountInv, HeldIsBought
<1>5. \A b \in Assets : HeldIn(fills', b, Len(fills')) =
        IF b # a THEN HeldIn(fills, b, Len(fills)) ELSE 0
  <2> TAKE b \in Assets
  <2>1. HeldIn(fills', b, Len(fills) + 1) =
          IF row.asset # b THEN HeldIn(fills, b, Len(fills))
          ELSE IF row.side = "BUY" THEN HeldIn(fills, b, Len(fills)) + row.qty ELSE 0
    BY <1>1, <1>2, HeldMoves
  <2>2. row.side # "BUY"
    BY <1>3
  <2> QED
    BY <1>2, <1>3, <2>1, <2>2
<1>6. \A b \in Assets : book'[b].qty = IF b # a THEN book[b].qty ELSE 0
  BY <1>1 DEF Sold, Flat
<1> QED
  BY <1>4, <1>5, <1>6 DEF HeldIsBought

\* A sale moves the columns away from the ledger by its own rounding at most.
LEMMA SoldKeepsDrift ==
  ASSUME AccountInv, NEW a \in Assets, NEW price \in Prices, Sold(a, price)
  PROVE  LedgerReconciles'
<1> DEFINE q == book[a].qty
           avg == book[a].avg
           fee == Fee(q, price)
           pnl == RealizedPnl(avg, price, q, fee)
           row == [asset |-> a, side |-> "SELL", qty |-> q, fee |-> fee, pnl |-> pnl]
           n == Len(fills)
<1>1. /\ row \in FillRows /\ fills \in Seq(FillRows) /\ cash \in Nat /\ cash' \in Nat
      /\ book \in [Assets -> [qty : Nat, avg : Nat]] /\ q \in Nat /\ avg \in Nat
      /\ price \in Nat /\ fee \in Nat /\ pnl \in Int
  BY SoldTypes DEF AccountInv, AccountTypes
<1>2. fills' = Append(fills, row) /\ Len(fills') = n + 1 /\ fills'[n + 1] = row
      /\ fills' \in Seq(FillRows)
  BY <1>1, AppendKeeps DEF Sold
<1>3. Lot \in Nat \ {0} /\ InitialCash \in Nat
  BY EngineAssumption, PortfolioAssumption
<1>4. book' = [book EXCEPT ![a] = Flat] /\ cash' = CashAfterSell(cash, q, price, fee)
  BY DEF Sold
<1>5. /\ cash * Lot \in Int /\ q * price \in Int /\ fee * Lot \in Int /\ cash' * Lot \in Int
      /\ q * avg \in Int /\ pnl * Lot \in Int /\ (price - avg) * q = q * price - q * avg
  <2> HIDE DEF q, avg, fee, pnl
  <2>1. (price - avg) * q = q * price - q * avg
    BY <1>1
  <2> QED
    BY <1>1, <1>3, <2>1
\* the cash
<1>6. /\ 2 * (cash' * Lot - (cash * Lot + q * price - fee * Lot)) <= Lot
      /\ 2 * ((cash * Lot + q * price - fee * Lot) - cash' * Lot) <= Lot
  <2> HIDE DEF q, fee
  <2>1. cash * Lot + q * price - fee * Lot \in Int
    BY <1>5
  <2> QED
    BY <1>3, <1>4, <2>1, RoundTicksError DEF CashAfterSell, Notional
\* the P/L
<1>7. /\ 2 * (pnl * Lot - (q * price - q * avg - fee * Lot)) <= Lot
      /\ 2 * ((q * price - q * avg - fee * Lot) - pnl * Lot) <= Lot
  <2>1. (price - avg) * q - fee * Lot \in Int
    BY <1>5
  <2>2. /\ 2 * (pnl * Lot - ((price - avg) * q - fee * Lot)) <= Lot
        /\ 2 * (((price - avg) * q - fee * Lot) - pnl * Lot) <= Lot
    BY <1>3, <2>1, RoundTicksError DEF RealizedPnl
  <2> HIDE DEF q, avg, fee, pnl
  <2> QED
    BY <1>5, <2>2
\* the position
<1>8. /\ Costs(book) \in Int /\ Costs(book') = Costs(book) - q * avg
  <2>1. Flat \in [qty : Nat, avg : Nat] /\ Cost(Flat) = 0 /\ Cost(book[a]) = q * avg
    BY DEF Flat, Cost
  <2>2. Costs(book) \in Int /\ Costs(book') = Costs(book) + Cost(Flat) - Cost(book[a])
    BY <1>1, <1>4, <2>1, CostsMove
  <2> HIDE DEF q, avg
  <2> QED
    BY <1>5, <2>1, <2>2
\* the ledger
<1>9. /\ RealizedTotal(fills) \in Int /\ RealizedTotal(fills') = RealizedTotal(fills) + pnl
      /\ FeesIn(fills, n) \in Int /\ FeesIn(fills', n + 1) = FeesIn(fills, n)
  <2>1. row.side = "SELL" /\ row.pnl = pnl
    OBVIOUS
  <2> HIDE DEF row, pnl
  <2>2. /\ RealizedTotal(fills') = RealizedTotal(fills) + pnl /\ RealizedTotal(fills) \in Int
    BY <1>1, <1>2, <2>1, RealizedGrows, RealizedKnown
  <2>3. FeesIn(fills', n + 1) = FeesIn(fills, n) + 0 /\ FeesIn(fills, n) \in Int
    BY <1>1, <1>2, <2>1, FeesMove
  <2> QED
    BY <2>2, <2>3
<1>10. Slack(fills, n) \in Int /\ Slack(fills', n + 1) = Slack(fills, n) + 2 * Lot
  <2>1. row.side = "SELL"
    OBVIOUS
  <2> HIDE DEF row
  <2>2. RoundingIn(fills', n + 1) = 2 * Lot
    BY <1>2, <2>1 DEF RoundingIn
  <2> QED
    BY <1>1, <1>2, <2>2, SlackMoves
<1> HIDE DEF row, fee, pnl, q, avg
<1> DEFINE R == RealizedTotal(fills)
           F == FeesIn(fills, n)
<1>11. (R + pnl - F) * Lot = (R - F) * Lot + pnl * Lot /\ (R - F) * Lot \in Int
  <2>1. R \in Int /\ F \in Int /\ pnl \in Int /\ Lot \in Int
    BY <1>1, <1>3, <1>9
  <2> HIDE DEF R, F
  <2>2. R - F \in Int /\ R + pnl - F = (R - F) + pnl
    BY <2>1
  <2> QED
    BY <2>1, <2>2, Distributes
<1>12. InitialCash * Lot \in Int
  BY <1>3
<1>13. Drift = cash * Lot + Costs(book) - InitialCash * Lot - (R - F) * Lot
  BY DEF Drift
<1>14. Drift' = cash' * Lot + Costs(book') - InitialCash * Lot - (R + pnl - F) * Lot
  <2>1. Drift' = cash' * Lot + Costs(book') - InitialCash * Lot
                   - (RealizedTotal(fills') - FeesIn(fills', n + 1)) * Lot
    BY <1>2 DEF Drift
  <2>2. /\ RealizedTotal(fills') = R + pnl /\ FeesIn(fills', n + 1) = F
        /\ R \in Int /\ F \in Int /\ pnl \in Int
    BY <1>1, <1>9
  <2> HIDE DEF R, F
  <2>3. RealizedTotal(fills') - FeesIn(fills', n + 1) = R + pnl - F
    BY <2>2
  <2>4. (RealizedTotal(fills') - FeesIn(fills', n + 1)) * Lot = (R + pnl - F) * Lot
    BY <2>3
  <2> QED
    BY <2>1, <2>4
<1>15. 2 * Drift <= Slack(fills, n) /\ -(2 * Drift) <= Slack(fills, n)
  BY DEF AccountInv, LedgerReconciles
<1> HIDE DEF R, F, n
<1>16. Drift' = cash' * Lot + Costs(book') - InitialCash * Lot - ((R - F) * Lot + pnl * Lot)
  BY <1>11, <1>14
<1>17. /\ 2 * Drift' <= Slack(fills, n) + 2 * Lot
       /\ -(2 * Drift') <= Slack(fills, n) + 2 * Lot
  <2> DEFINE c == cash * Lot
             c2 == cash' * Lot
             got == q * price
             cost == q * avg
             f == fee * Lot
             gain == pnl * Lot
             start == InitialCash * Lot
             total == (R - F) * Lot
             slack == Slack(fills, n)
  <2>1. /\ c \in Int /\ c2 \in Int /\ got \in Int /\ cost \in Int /\ f \in Int
        /\ gain \in Int /\ start \in Int /\ total \in Int /\ slack \in Int /\ Lot \in Int
        /\ Costs(book) \in Int
    BY <1>3, <1>5, <1>8, <1>10, <1>11, <1>12
  <2>2. 2 * (c2 - (c + got - f)) <= Lot /\ 2 * ((c + got - f) - c2) <= Lot
    BY <1>6
  <2>3. 2 * (gain - (got - cost - f)) <= Lot /\ 2 * ((got - cost - f) - gain) <= Lot
    BY <1>7
  <2>4. Drift = c + Costs(book) - start - total
    BY <1>13
  <2>5. Drift' = c2 + Costs(book') - start - (total + gain) /\ Costs(book') = Costs(book) - cost
    BY <1>8, <1>16
  <2>6. 2 * Drift <= slack /\ -(2 * Drift) <= slack
    BY <1>15
  <2> HIDE DEF c, c2, got, cost, f, gain, start, total, slack
  <2>7. 2 * Drift' <= slack + 2 * Lot /\ -(2 * Drift') <= slack + 2 * Lot
    BY <2>1, <2>2, <2>3, <2>4, <2>5, <2>6
  <2> QED
    BY <2>7 DEF slack
<1>18. Len(fills') = n + 1
  BY <1>2
<1> QED
  BY <1>10, <1>17, <1>18 DEF LedgerReconciles

-----------------------------------------------------------------------------
(* What a computation of the portfolio holds, and what a report says, while*)
(* the fills go on growing.                                                *)

\* b, c and f stand for a book, a cash balance and paper_fills at one moment.

Rows == [qty : Nat, avg : Nat, row : Nat]

RowOf(b, f, a) ==
  [qty |-> b[a].qty, avg |-> b[a].avg,
   row |-> Cardinality({i \in Sales(f) : f[i].asset = a})]

TradedIn(f, a, from) == \E n \in (from + 1)..Len(f) : f[n].asset = a

\* Rows read after the first `from` fills: each is still the row there is,
\* or its asset has been traded since.
RowsRead(rows, from, b, f) ==
  /\ rows \in [Assets -> Rows]
  /\ \A a \in Assets : rows[a] = RowOf(b, f, a) \/ TradedIn(f, a, from)

\* The cost of the rows still to be valued.
Pending(s) ==
  SumFunctionOnSet([a \in Assets |-> IF a \in s.todo THEN Cost(s.rows[a]) ELSE 0], Assets)

Sessions ==
  [step : {"idle", "positions", "quotes", "total", "daily", "loss"},
   cash : Nat, peak : Nat, rows : [Assets -> Rows], todo : SUBSET Assets,
   value : Nat, gain : Int, realized : Int, daily : Int, from : Nat, since : Nat]

CashRead(s, c, f) ==
  /\ s.from <= Len(f)
  /\ s.step # "idle" /\ s.from = Len(f) => s.cash = c * Lot

\* What the rows are worth at the quotes, less the gain, is what they cost.
PositionsRead(s, b, f) ==
  /\ s.step = "positions" => s.value = 0 /\ s.gain = 0
  /\ s.step \in {"quotes", "total", "daily", "loss"} =>
       /\ RowsRead(s.rows, s.from, b, f)
       /\ s.value - s.gain + Pending(s) = Costs(s.rows)
  /\ s.step \in {"total", "daily", "loss"} => s.todo = {}

SumsRead(s, f) ==
  /\ s.step \in {"daily", "loss"} =>
       \E i \in s.from..Len(f) : s.realized = RealizedTotal(SubSeq(f, 1, i))
  /\ s.step = "loss" =>
       \E i, j \in s.from..Len(f) :
         /\ i <= j
         /\ s.realized = RealizedTotal(SubSeq(f, 1, i))
         /\ s.daily = RealizedSince(SubSeq(f, 1, j), s.since)

SessionOK(s, b, c, f) ==
  s \in Sessions /\ CashRead(s, c, f) /\ PositionsRead(s, b, f) /\ SumsRead(s, f)

Counts(p, f) ==
  \E i, j \in p.from..p.to :
    /\ i <= j
    /\ p.realized = RealizedTotal(SubSeq(f, 1, i))
    /\ p.daily = RealizedSince(SubSeq(f, 1, j), p.since)
    /\ p.lastLoss >= LastLoss(SubSeq(f, 1, j))

\* Twice the distance of the equity gained from the P/L less the fees.
OffBy(equity, realized, unrealized, fees) ==
  2 * Distance(equity - InitialCash * Lot, (realized * Lot + unrealized) - fees * Lot)

Reconciles(p, f) ==
  p.from = p.to =>
    OffBy(p.equity, p.realized, p.unrealized, FeesIn(f, p.to)) <= Slack(f, p.to)

ReportOK(p, b, f) ==
  /\ p.from \in Nat /\ p.to \in Nat /\ p.from <= p.to /\ p.to <= Len(f)
  /\ RowsRead(p.positions, p.from, b, f)
  /\ Counts(p, f)
  /\ Reconciles(p, f)

\* A trade commits, or nothing does.
Grown(b, c, f, b2, c2, f2) ==
  \/ b2 = b /\ c2 = c /\ f2 = f
  \/ \E row \in FillRows :
       /\ f2 = Append(f, row)
       /\ \A a \in Assets \ {row.asset} : b2[a] = b[a]

\* What a commit leaves of what was read before it.
Kept(b, c, f, b2, c2, f2) ==
  /\ f2 \in Seq(FillRows) /\ Len(f) \in Nat /\ Len(f2) \in Nat /\ Len(f) <= Len(f2)
  /\ Len(f2) = Len(f) => c2 = c
  /\ \A n \in 0..Len(f) : /\ SubSeq(f2, 1, n) = SubSeq(f, 1, n)
                          /\ FeesIn(f2, n) = FeesIn(f, n)
                          /\ Slack(f2, n) = Slack(f, n)
  /\ \A a \in Assets, from \in Nat : TradedIn(f, a, from) => TradedIn(f2, a, from)
  /\ \A a \in Assets, from \in 0..Len(f) :
       RowOf(b2, f2, a) = RowOf(b, f, a) \/ TradedIn(f2, a, from)

\* A commit adds one row, of the asset whose position it writes.
LEMMA GrownKeeps ==
  ASSUME NEW b, NEW c, NEW f \in Seq(FillRows), NEW b2, NEW c2, NEW f2,
         Grown(b, c, f, b2, c2, f2)
  PROVE  Kept(b, c, f, b2, c2, f2)
<1>1. CASE b2 = b /\ c2 = c /\ f2 = f
  BY <1>1, RowsKnown DEF Kept
<1>2. ASSUME NEW row \in FillRows, f2 = Append(f, row),
             \A a \in Assets \ {row.asset} : b2[a] = b[a]
      PROVE  /\ f2 \in Seq(FillRows) /\ Len(f) \in Nat /\ Len(f2) = Len(f) + 1
             /\ \A n \in 0..Len(f) : /\ SubSeq(f2, 1, n) = SubSeq(f, 1, n)
                                     /\ FeesIn(f2, n) = FeesIn(f, n)
                                     /\ Slack(f2, n) = Slack(f, n)
             /\ \A a \in Assets, from \in Nat : TradedIn(f, a, from) => TradedIn(f2, a, from)
             /\ \A a \in Assets, from \in 0..Len(f) :
                  RowOf(b2, f2, a) = RowOf(b, f, a) \/ TradedIn(f2, a, from)
  <2>1. /\ f2 \in Seq(FillRows) /\ Len(f) \in Nat /\ Len(f2) = Len(f) + 1
        /\ f2[Len(f) + 1] = row
        /\ \A i \in 1..Len(f) : f2[i] = f[i]
        /\ \A n \in 0..Len(f) : SubSeq(f2, 1, n) = SubSeq(f, 1, n)
    BY <1>2, AppendKeeps
  <2>2. \A n \in 0..Len(f) : FeesIn(f2, n) = FeesIn(f, n) /\ Slack(f2, n) = Slack(f, n)
    BY <1>2, PastKept
  <2>3. DOMAIN f = 1..Len(f) /\ DOMAIN f2 = 1..(Len(f) + 1)
    BY <2>1, RowsKnown
  <2>4. ASSUME NEW a \in Assets, NEW from \in Nat, TradedIn(f, a, from)
        PROVE  TradedIn(f2, a, from)
    <3>1. PICK n \in (from + 1)..Len(f) : f[n].asset = a
      BY <2>4 DEF TradedIn
    <3>2. n \in 1..Len(f) /\ n \in (from + 1)..Len(f2)
      BY <2>1, <3>1
    <3> QED
      BY <2>1, <3>1, <3>2 DEF TradedIn
  <2>5. ASSUME NEW a \in Assets, NEW from \in 0..Len(f), a = row.asset
        PROVE  TradedIn(f2, a, from)
    BY <2>1, <2>5 DEF TradedIn
  <2>6. ASSUME NEW a \in Assets, a # row.asset PROVE RowOf(b2, f2, a) = RowOf(b, f, a)
    <3>1. {i \in Sales(f2) : f2[i].asset = a} = {i \in Sales(f) : f[i].asset = a}
      BY <2>1, <2>3, <2>6 DEF Sales
    <3>2. b2[a] = b[a]
      BY <1>2, <2>6
    <3> QED
      BY <3>1, <3>2 DEF RowOf
  <2>7. \A a \in Assets, from \in 0..Len(f) :
          RowOf(b2, f2, a) = RowOf(b, f, a) \/ TradedIn(f2, a, from)
    BY <2>5, <2>6
  <2> QED
    BY <2>1, <2>2, <2>4, <2>7
<1>3. CASE \E row \in FillRows : /\ f2 = Append(f, row)
                                 /\ \A a \in Assets \ {row.asset} : b2[a] = b[a]
  <2>1. PICK row \in FillRows : /\ f2 = Append(f, row)
                                /\ \A a \in Assets \ {row.asset} : b2[a] = b[a]
    BY <1>3
  <2>2. Len(f) \in Nat /\ Len(f2) = Len(f) + 1
    BY <1>2, <2>1
  <2> QED
    BY <1>2, <2>1, <2>2 DEF Kept
<1> QED
  BY <1>1, <1>3 DEF Grown

\* Rows once read stay the rows there are, or are of an asset traded since.
LEMMA RowsKept ==
  ASSUME NEW b, NEW c, NEW f \in Seq(FillRows), NEW b2, NEW c2, NEW f2,
         Grown(b, c, f, b2, c2, f2),
         NEW rows, NEW from \in 0..Len(f), RowsRead(rows, from, b, f)
  PROVE  RowsRead(rows, from, b2, f2)
<1>0. Kept(b, c, f, b2, c2, f2)
  BY GrownKeeps
<1>1. ASSUME NEW a \in Assets
      PROVE  rows[a] = RowOf(b2, f2, a) \/ TradedIn(f2, a, from)
  <2>1. rows[a] = RowOf(b, f, a) \/ TradedIn(f, a, from)
    BY DEF RowsRead
  <2>4. from \in Nat
    BY RowsKnown
  <2>2. \A a1 \in Assets, n1 \in 0..Len(f) :
          RowOf(b2, f2, a1) = RowOf(b, f, a1) \/ TradedIn(f2, a1, n1)
    BY <1>0 DEF Kept
  <2>3. TradedIn(f, a, from) => TradedIn(f2, a, from)
    BY <1>0, <2>4 DEF Kept
  <2>5. RowOf(b2, f2, a) = RowOf(b, f, a) \/ TradedIn(f2, a, from)
    BY <2>2
  <2> QED
    BY <2>1, <2>3, <2>5
<1>2. rows \in [Assets -> Rows]
  BY DEF RowsRead
<1> QED
  BY <1>1, <1>2 DEF RowsRead

\* A commit leaves a computation under way as good as it was.
LEMMA SessionKept ==
  ASSUME NEW b, NEW c, NEW f \in Seq(FillRows), NEW b2, NEW c2, NEW f2,
         Grown(b, c, f, b2, c2, f2), NEW s, SessionOK(s, b, c, f)
  PROVE  SessionOK(s, b2, c2, f2)
<1>0. Kept(b, c, f, b2, c2, f2)
  BY GrownKeeps
<1>1. /\ Len(f) \in Nat /\ Len(f2) \in Nat /\ Len(f) <= Len(f2)
      /\ Len(f2) = Len(f) => c2 = c
      /\ \A n \in 0..Len(f) : SubSeq(f2, 1, n) = SubSeq(f, 1, n)
  BY <1>0 DEF Kept
<1>2. s \in Sessions /\ CashRead(s, c, f) /\ PositionsRead(s, b, f) /\ SumsRead(s, f)
  BY DEF SessionOK
<1>3. s.from \in 0..Len(f) /\ s.from \in Nat
  BY <1>1, <1>2 DEF Sessions, CashRead
<1>4. CashRead(s, c2, f2)
  BY <1>1, <1>2, <1>3 DEF CashRead
<1>5. PositionsRead(s, b2, f2)
  <2>1. RowsRead(s.rows, s.from, b, f) => RowsRead(s.rows, s.from, b2, f2)
    BY <1>3, RowsKept
  <2> QED
    BY <1>2, <2>1 DEF PositionsRead
<1>6. \A i \in s.from..Len(f) : i \in s.from..Len(f2) /\ i \in 0..Len(f)
  BY <1>1, <1>3
<1>7. SumsRead(s, f2)
  BY <1>1, <1>2, <1>6 DEF SumsRead
<1> QED
  BY <1>2, <1>4, <1>5, <1>7 DEF SessionOK

\* A commit leaves a report as true as it was.
LEMMA ReportKept ==
  ASSUME NEW b, NEW c, NEW f \in Seq(FillRows), NEW b2, NEW c2, NEW f2,
         Grown(b, c, f, b2, c2, f2), NEW p, ReportOK(p, b, f)
  PROVE  ReportOK(p, b2, f2)
<1>0. Kept(b, c, f, b2, c2, f2)
  BY GrownKeeps
<1>1. /\ Len(f) \in Nat /\ Len(f2) \in Nat /\ Len(f) <= Len(f2)
      /\ \A n \in 0..Len(f) : /\ SubSeq(f2, 1, n) = SubSeq(f, 1, n)
                              /\ FeesIn(f2, n) = FeesIn(f, n)
                              /\ Slack(f2, n) = Slack(f, n)
  BY <1>0 DEF Kept
<1>2. /\ p.from \in Nat /\ p.to \in Nat /\ p.from <= p.to /\ p.to <= Len(f)
      /\ RowsRead(p.positions, p.from, b, f) /\ Counts(p, f) /\ Reconciles(p, f)
  BY DEF ReportOK
<1>3. p.from \in 0..Len(f) /\ p.to \in 0..Len(f) /\ p.to <= Len(f2)
      /\ \A i \in p.from..p.to : i \in 0..Len(f)
  BY <1>1, <1>2
<1>4. RowsRead(p.positions, p.from, b2, f2)
  BY <1>2, <1>3, RowsKept
<1>5. Counts(p, f2)
  BY <1>1, <1>2, <1>3 DEF Counts
<1>6. Reconciles(p, f2)
  BY <1>1, <1>2, <1>3 DEF Reconciles
<1> QED
  BY <1>2, <1>3, <1>4, <1>5, <1>6 DEF ReportOK

-----------------------------------------------------------------------------
(* One computation, read by read. *)

\* What each row costs and what all of them cost.
LEMMA BookCosts ==
  ASSUME NEW rows, \A a \in Assets : rows[a].qty \in Nat /\ rows[a].avg \in Nat
  PROVE  /\ IsFiniteSet(Assets)
         /\ \A a \in Assets : Cost(rows[a]) \in Nat
         /\ Costs(rows) \in Int
<1>1. \A m, n \in Nat : m * n \in Nat
  OBVIOUS
<1> QED
  BY <1>1, CostsKnown, PortfolioAssumption DEF Cost

\* What is still to be valued costs an integer.
LEMMA PendingKnown ==
  ASSUME NEW s, \A a \in Assets : Cost(s.rows[a]) \in Nat
  PROVE  Pending(s) \in Int
<1> DEFINE f == [a \in Assets |-> IF a \in s.todo THEN Cost(s.rows[a]) ELSE 0]
<1>1. \A a \in Assets : f[a] \in Int
  OBVIOUS
<1>2. Pending(s) = SumFunctionOnSet(f, Assets)
  BY DEF Pending
<1> HIDE DEF f
<1> QED
  BY <1>1, <1>2, SumType, PortfolioAssumption

\* Once every row is valued nothing is left.
LEMMA NothingPending ==
  ASSUME NEW s, s.todo = {}
  PROVE  Pending(s) = 0
<1> DEFINE f == [a \in Assets |-> IF a \in s.todo THEN Cost(s.rows[a]) ELSE 0]
<1>1. \A a \in Assets : f[a] = 0
  OBVIOUS
<1>2. Pending(s) = SumFunctionOnSet(f, Assets)
  BY DEF Pending
<1> HIDE DEF f
<1> QED
  BY <1>1, <1>2, SumZero, PortfolioAssumption

\* The OPEN rows have a row's types.
LEMMA OpenRowsKnown ==
  ASSUME NEW b \in [Assets -> [qty : Nat, avg : Nat]], NEW f \in Seq(FillRows), NEW a \in Assets
  PROVE  RowOf(b, f, a) \in Rows
<1> DEFINE S == {i \in Sales(f) : f[i].asset = a}
<1>1. S \in SUBSET Sales(f)
  OBVIOUS
<1>2. IsFiniteSet(S)
  BY <1>1, SalesKnown
<1>3. Cardinality(S) \in Nat
  BY <1>2, FS_CardinalityType
<1> QED
  BY <1>3 DEF RowOf, Rows

\* The first Len(f) rows are all rows.
LEMMA WholeSeq ==
  ASSUME NEW f \in Seq(FillRows)
  PROVE  SubSeq(f, 1, Len(f)) = f
<1>1. Len(f) \in Nat /\ Len(f) \in 0..Len(f)
  BY RowsKnown
<1>2. /\ SubSeq(f, 1, Len(f)) \in Seq(FillRows) /\ Len(SubSeq(f, 1, Len(f))) = Len(f)
      /\ \A i \in 1..Len(f) : SubSeq(f, 1, Len(f))[i] = f[i]
  BY <1>1, PrefixRows
<1> QED
  BY <1>2, SeqEqual

\* A computation that has read nothing.
LEMMA NewSessionOK ==
  ASSUME NEW b, NEW c, NEW f \in Seq(FillRows)
  PROVE  NewSession \in Sessions /\ SessionOK(NewSession, b, c, f)
<1>1. Len(f) \in Nat
  BY RowsKnown
<1>2. NewSession \in Sessions
  BY DEF NewSession, NoRows, Sessions, Rows
<1>3. NewSession.step = "idle" /\ NewSession.from = 0
  BY DEF NewSession
<1> QED
  BY <1>1, <1>2, <1>3 DEF SessionOK, CashRead, PositionsRead, SumsRead

\* The account's columns are read.
LEMMA AccountRead ==
  ASSUME NEW b, NEW c \in Nat, NEW f \in Seq(FillRows), NEW high \in Nat
  PROVE  SessionOK([NewSession EXCEPT !.step = "positions", !.cash = c * Lot,
                                      !.peak = high * Lot, !.from = Len(f)], b, c, f)
<1> DEFINE t == [NewSession EXCEPT !.step = "positions", !.cash = c * Lot,
                                   !.peak = high * Lot, !.from = Len(f)]
<1>1. Len(f) \in Nat /\ NewSession \in Sessions
  BY RowsKnown, NewSessionOK
<1>2. c * Lot \in Nat /\ high * Lot \in Nat
  BY EngineAssumption
<1>3. t \in Sessions
  BY <1>1, <1>2 DEF Sessions
<1>4. /\ t.step = "positions" /\ t.cash = c * Lot /\ t.from = Len(f)
      /\ t.value = 0 /\ t.gain = 0
  BY DEF NewSession
<1> HIDE DEF t
<1>5. SessionOK(t, b, c, f)
  BY <1>1, <1>3, <1>4 DEF SessionOK, CashRead, PositionsRead, SumsRead
<1> QED
  BY <1>5 DEF t

\* The OPEN positions are read; all of them are to be valued.
LEMMA PositionsAreRead ==
  ASSUME NEW b \in [Assets -> [qty : Nat, avg : Nat]], NEW c, NEW f \in Seq(FillRows),
         NEW s, SessionOK(s, b, c, f), s.step = "positions",
         NEW t, t = [s EXCEPT !.step = "quotes", !.rows = [a \in Assets |-> RowOf(b, f, a)],
                              !.todo = {a \in Assets : b[a].qty > 0}]
  PROVE  SessionOK(t, b, c, f)
<1>1. /\ s \in Sessions /\ CashRead(s, c, f) /\ s.value = 0 /\ s.gain = 0
  BY DEF SessionOK, PositionsRead
<1>2. /\ t.step = "quotes" /\ t.rows = [a \in Assets |-> RowOf(b, f, a)]
      /\ t.todo = {a \in Assets : b[a].qty > 0}
      /\ t.cash = s.cash /\ t.from = s.from /\ t.value = s.value /\ t.gain = s.gain
  BY <1>1 DEF Sessions
<1>3. \A a \in Assets : RowOf(b, f, a) \in Rows
  BY OpenRowsKnown
<1>4. t \in Sessions
  BY <1>1, <1>3 DEF Sessions
<1>5. RowsRead(t.rows, t.from, b, f)
  BY <1>2, <1>3 DEF RowsRead
<1>6. \A a \in Assets : t.rows[a].qty = b[a].qty /\ t.rows[a].avg \in Nat /\ b[a].qty \in Nat
  BY <1>2 DEF RowOf
<1>7. Pending(t) = Costs(t.rows) /\ Costs(t.rows) \in Int
  <2> DEFINE g == [a \in Assets |-> IF a \in t.todo THEN Cost(t.rows[a]) ELSE 0]
             h == [a \in Assets |-> Cost(t.rows[a])]
  <2>1. ASSUME NEW a \in Assets, a \notin t.todo PROVE Cost(t.rows[a]) = 0
    <3>1. t.rows[a].qty = 0
      BY <1>2, <1>6, <2>1
    <3> QED
      BY <1>6, <3>1 DEF Cost
  <2>2. \A a \in Assets : g[a] = h[a]
    BY <2>1
  <2>3. Pending(t) = SumFunctionOnSet(g, Assets) /\ Costs(t.rows) = SumFunctionOnSet(h, Assets)
    BY DEF Pending, Costs
  <2>4. Costs(t.rows) \in Int
    BY <1>6, BookCosts
  <2> HIDE DEF g, h
  <2> QED
    BY <2>2, <2>3, <2>4, SumSame, PortfolioAssumption
<1>8. t.value - t.gain + Pending(t) = Costs(t.rows)
  BY <1>1, <1>2, <1>7
<1>9. PositionsRead(t, b, f)
  BY <1>2, <1>5, <1>8 DEF PositionsRead
<1>10. CashRead(t, c, f)
  BY <1>1, <1>2 DEF CashRead
<1> QED
  BY <1>2, <1>4, <1>9, <1>10 DEF SessionOK, SumsRead

\* One row is valued: value and gain move apart by what the row costs.
LEMMA QuoteFetched ==
  ASSUME NEW b, NEW c, NEW f, NEW s, SessionOK(s, b, c, f), s.step = "quotes",
         NEW a \in s.todo, NEW price \in Nat,
         NEW t, t = [s EXCEPT !.todo = @ \ {a},
                              !.value = @ + Notional(s.rows[a].qty, price),
                              !.gain = @ + UnrealizedPnl(s.rows[a], price)]
  PROVE  SessionOK(t, b, c, f)
<1>1. /\ s \in Sessions /\ CashRead(s, c, f) /\ RowsRead(s.rows, s.from, b, f)
      /\ s.value - s.gain + Pending(s) = Costs(s.rows)
  BY DEF SessionOK, PositionsRead
<1>2. /\ t.step = "quotes" /\ t.rows = s.rows /\ t.todo = s.todo \ {a}
      /\ t.cash = s.cash /\ t.from = s.from
      /\ t.value = s.value + Notional(s.rows[a].qty, price)
      /\ t.gain = s.gain + UnrealizedPnl(s.rows[a], price)
  BY <1>1 DEF Sessions
<1>3. /\ a \in Assets /\ s.todo \subseteq Assets /\ s.value \in Nat /\ s.gain \in Int
      /\ \A x \in Assets : s.rows[x].qty \in Nat /\ s.rows[x].avg \in Nat
  BY <1>1 DEF Sessions, Rows
<1> DEFINE qty == s.rows[a].qty
           avg == s.rows[a].avg
           worth == qty * price
           spent == qty * avg
<1>4. qty \in Nat /\ avg \in Nat
  BY <1>3
<1>5. worth \in Nat /\ spent \in Nat
  <2> HIDE DEF qty, avg
  <2> QED
    BY <1>4 DEF worth, spent
<1>6. Notional(qty, price) = worth /\ UnrealizedPnl(s.rows[a], price) = worth - spent
      /\ Cost(s.rows[a]) = spent
  <2>1. \A p, m, n \in Nat : (p - m) * n = n * p - n * m
    OBVIOUS
  <2>2. UnrealizedPnl(s.rows[a], price) = (price - avg) * qty
    BY DEF UnrealizedPnl
  <2>3. Notional(qty, price) = worth /\ Cost(s.rows[a]) = spent
    BY DEF Notional, Cost
  <2> HIDE DEF qty, avg
  <2>4. (price - avg) * qty = worth - spent
    BY <1>4, <2>1 DEF worth, spent
  <2> QED
    BY <2>2, <2>3, <2>4
<1>7. \A x \in Assets : Cost(s.rows[x]) \in Nat
  BY <1>3, BookCosts
<1>8. Pending(t) = Pending(s) - spent /\ Pending(s) \in Int
  <2> DEFINE g == [x \in Assets |-> IF x \in s.todo THEN Cost(s.rows[x]) ELSE 0]
             h == [x \in Assets |-> IF x \in t.todo THEN Cost(t.rows[x]) ELSE 0]
  <2>1. \A x \in Assets : g[x] \in Int /\ h[x] \in Int
    BY <1>2, <1>7
  <2>2. \A x \in Assets \ {a} : h[x] = g[x]
    BY <1>2
  <2>3. g[a] = spent /\ h[a] = 0
    BY <1>2, <1>3, <1>6
  <2>4. Pending(s) = SumFunctionOnSet(g, Assets) /\ Pending(t) = SumFunctionOnSet(h, Assets)
    BY DEF Pending
  <2> HIDE DEF g, h, spent
  <2>5. SumFunctionOnSet(h, Assets) = SumFunctionOnSet(g, Assets) + h[a] - g[a]
    BY <1>3, <2>1, <2>2, SumChanged, PortfolioAssumption
  <2>6. SumFunctionOnSet(g, Assets) \in Int
    BY <2>1, SumType, PortfolioAssumption
  <2> QED
    BY <1>5, <2>3, <2>4, <2>5, <2>6
<1>9. Costs(s.rows) \in Int
  BY <1>3, BookCosts
<1>10. t.value = s.value + worth /\ t.gain = s.gain + (worth - spent)
  BY <1>2, <1>6
<1>11. t \in Sessions
  <2>1. s.value + worth \in Nat /\ s.gain + (worth - spent) \in Int
    BY <1>3, <1>5
  <2>2. s.todo \ {a} \in SUBSET Assets
    BY <1>3
  <2>3. t = [s EXCEPT !.todo = s.todo \ {a}, !.value = s.value + worth,
                      !.gain = s.gain + (worth - spent)]
    BY <1>1, <1>6 DEF Sessions
  <2> HIDE DEF worth, spent
  <2> QED
    BY <1>1, <2>1, <2>2, <2>3 DEF Sessions
<1> HIDE DEF worth, spent, qty, avg
<1>12. t.value - t.gain + Pending(t) = Costs(t.rows)
  BY <1>1, <1>2, <1>3, <1>5, <1>8, <1>9, <1>10
<1>13. PositionsRead(t, b, f)
  BY <1>1, <1>2, <1>12 DEF PositionsRead
<1>14. CashRead(t, c, f)
  BY <1>1, <1>2 DEF CashRead
<1> QED
  BY <1>2, <1>11, <1>13, <1>14 DEF SessionOK, SumsRead

\* The high-water mark is dealt with.
LEMMA Ratcheted ==
  ASSUME NEW b, NEW c, NEW f, NEW s, SessionOK(s, b, c, f), s.step = "quotes", s.todo = {},
         NEW high \in Nat, NEW t, t = [s EXCEPT !.step = "total", !.peak = high]
  PROVE  SessionOK(t, b, c, f)
<1>1. /\ s \in Sessions /\ CashRead(s, c, f) /\ RowsRead(s.rows, s.from, b, f)
      /\ s.value - s.gain + Pending(s) = Costs(s.rows)
  BY DEF SessionOK, PositionsRead
<1>2. /\ t.step = "total" /\ t.rows = s.rows /\ t.todo = s.todo
      /\ t.cash = s.cash /\ t.from = s.from /\ t.value = s.value /\ t.gain = s.gain
  BY <1>1 DEF Sessions
<1>3. t \in Sessions
  BY <1>1 DEF Sessions
<1>4. Pending(t) = Pending(s)
  BY <1>2 DEF Pending
<1>5. PositionsRead(t, b, f)
  BY <1>1, <1>2, <1>4 DEF PositionsRead
<1>6. CashRead(t, c, f)
  BY <1>1, <1>2 DEF CashRead
<1> QED
  BY <1>2, <1>3, <1>5, <1>6 DEF SessionOK, SumsRead

\* The total is summed over the fills there are.
LEMMA RealizedSummed ==
  ASSUME NEW b, NEW c, NEW f \in Seq(FillRows), NEW s, SessionOK(s, b, c, f), s.step = "total",
         NEW t, t = [s EXCEPT !.step = "daily", !.realized = RealizedTotal(f)]
  PROVE  SessionOK(t, b, c, f)
<1>1. /\ s \in Sessions /\ CashRead(s, c, f) /\ RowsRead(s.rows, s.from, b, f)
      /\ s.value - s.gain + Pending(s) = Costs(s.rows) /\ s.todo = {}
  BY DEF SessionOK, PositionsRead
<1>2. /\ t.step = "daily" /\ t.rows = s.rows /\ t.todo = s.todo /\ t.realized = RealizedTotal(f)
      /\ t.cash = s.cash /\ t.from = s.from /\ t.value = s.value /\ t.gain = s.gain
  BY <1>1 DEF Sessions
<1>3. t \in Sessions
  BY <1>1, RealizedKnown DEF Sessions
<1>4. Pending(t) = Pending(s)
  BY <1>2 DEF Pending
<1>5. PositionsRead(t, b, f)
  BY <1>1, <1>2, <1>4 DEF PositionsRead
<1>6. CashRead(t, c, f)
  BY <1>1, <1>2 DEF CashRead
<1>7. Len(f) \in t.from..Len(f) /\ SubSeq(f, 1, Len(f)) = f
  <2>1. SubSeq(f, 1, Len(f)) = f
    BY WholeSeq
  <2>2. s.from \in Nat /\ s.from <= Len(f) /\ Len(f) \in Nat
    BY <1>1, RowsKnown DEF Sessions, CashRead
  <2> QED
    BY <1>2, <2>1, <2>2
<1>8. SumsRead(t, f)
  BY <1>2, <1>7 DEF SumsRead
<1> QED
  BY <1>3, <1>5, <1>6, <1>8 DEF SessionOK

\* The day is summed, over no fewer fills than the total.
LEMMA DaySummed ==
  ASSUME NEW b, NEW c, NEW f \in Seq(FillRows), NEW s, SessionOK(s, b, c, f), s.step = "daily",
         NEW first \in Nat,
         NEW t, t = [s EXCEPT !.step = "loss", !.daily = RealizedSince(f, first), !.since = first]
  PROVE  SessionOK(t, b, c, f)
<1>1. /\ s \in Sessions /\ CashRead(s, c, f) /\ RowsRead(s.rows, s.from, b, f)
      /\ s.value - s.gain + Pending(s) = Costs(s.rows) /\ s.todo = {}
      /\ \E i \in s.from..Len(f) : s.realized = RealizedTotal(SubSeq(f, 1, i))
  BY DEF SessionOK, PositionsRead, SumsRead
<1>2. /\ t.step = "loss" /\ t.rows = s.rows /\ t.todo = s.todo /\ t.realized = s.realized
      /\ t.daily = RealizedSince(f, first) /\ t.since = first
      /\ t.cash = s.cash /\ t.from = s.from /\ t.value = s.value /\ t.gain = s.gain
  BY <1>1 DEF Sessions
<1>3. t \in Sessions
  BY <1>1, RealizedKnown DEF Sessions
<1>4. Pending(t) = Pending(s)
  BY <1>2 DEF Pending
<1>5. PositionsRead(t, b, f)
  BY <1>1, <1>2, <1>4 DEF PositionsRead
<1>6. CashRead(t, c, f)
  BY <1>1, <1>2 DEF CashRead
<1>7. PICK i \in t.from..Len(f) : t.realized = RealizedTotal(SubSeq(f, 1, i))
  BY <1>1, <1>2
<1>8. i <= Len(f) /\ Len(f) \in t.from..Len(f) /\ SubSeq(f, 1, Len(f)) = f
  <2>1. SubSeq(f, 1, Len(f)) = f
    BY WholeSeq
  <2>2. t.from \in Nat /\ t.from <= Len(f) /\ Len(f) \in Nat
    BY <1>3, <1>6, RowsKnown DEF Sessions, CashRead
  <2> QED
    BY <1>7, <2>1, <2>2
<1>9. t.daily = RealizedSince(SubSeq(f, 1, Len(f)), t.since)
  BY <1>2, <1>8
<1>10. \E k, j \in t.from..Len(f) :
         /\ k <= j
         /\ t.realized = RealizedTotal(SubSeq(f, 1, k))
         /\ t.daily = RealizedSince(SubSeq(f, 1, j), t.since)
  BY <1>7, <1>8, <1>9
<1>11. SumsRead(t, f)
  BY <1>2, <1>7, <1>10 DEF SumsRead
<1> QED
  BY <1>3, <1>5, <1>6, <1>11 DEF SessionOK

\* What the BUYs cost in fees and what the fills rounded are integers.
LEMMA MoneyKnown ==
  ASSUME NEW f \in Seq(FillRows)
  PROVE  FeesIn(f, Len(f)) \in Int /\ Slack(f, Len(f)) \in Int
<1> DEFINE n == Len(f)
           bought == {i \in 1..n : f[i].side = "BUY"}
           fees == [i \in bought |-> f[i].fee]
           slack == [i \in 1..n |-> RoundingIn(f, i)]
<1>1. n \in Nat /\ IsFiniteSet(1..n) /\ bought \in SUBSET (1..n)
  BY RowsKnown
<1>2. IsFiniteSet(bought)
  BY <1>1, FS_Subset
<1>3. \A i \in bought : fees[i] \in Int
  BY RowsKnown
<1>4. ASSUME NEW i \in 1..n PROVE slack[i] \in Int
  <2>1. i \in 0..n
    BY <1>1
  <2>2. HeldIn(f, f[i].asset, i) \in Nat
    BY <2>1, HeldKnown
  <2> QED
    BY <2>2, EngineAssumption DEF RoundingIn
<1>5. FeesIn(f, n) = SumFunctionOnSet(fees, bought) /\ Slack(f, n) = SumFunctionOnSet(slack, 1..n)
  BY DEF FeesIn, Slack
<1> HIDE DEF bought, fees, slack, n
<1>6. FeesIn(f, n) \in Int /\ Slack(f, n) \in Int
  BY <1>1, <1>2, <1>3, <1>4, <1>5, SumType
<1> QED
  BY <1>6 DEF n

\* A report for which nothing was traded is off by the drift of the columns.
LEMMA ReportIsTrue ==
  ASSUME AccountInv, NEW s, SessionOK(s, book, cash, fills), s.step = "loss",
         s.from = Len(fills)
  PROVE  OffBy(s.cash + s.value, s.realized, s.gain, FeesIn(fills, Len(fills)))
           <= Slack(fills, Len(fills))
<1> DEFINE n == Len(fills)
<1>1. /\ s \in Sessions /\ s.cash = cash * Lot /\ RowsRead(s.rows, s.from, book, fills)
      /\ s.value - s.gain + Pending(s) = Costs(s.rows) /\ s.todo = {}
      /\ \E i \in n..n : s.realized = RealizedTotal(SubSeq(fills, 1, i))
  BY DEF SessionOK, CashRead, PositionsRead, SumsRead
<1>2. /\ book \in [Assets -> [qty : Nat, avg : Nat]] /\ cash \in Nat
      /\ fills \in Seq(FillRows)
  BY DEF AccountInv, AccountTypes
<1>3. n \in Nat /\ SubSeq(fills, 1, n) = fills
  BY <1>2, RowsKnown, WholeSeq
<1>4. s.realized = RealizedTotal(fills)
  <2>1. PICK i \in n..n : s.realized = RealizedTotal(SubSeq(fills, 1, i))
    BY <1>1
  <2>2. i = n
    BY <1>3, <2>1
  <2> QED
    BY <1>3, <2>1, <2>2
<1>5. Costs(s.rows) = Costs(book)
  <2>1. ASSUME NEW a \in Assets PROVE Cost(s.rows[a]) = Cost(book[a])
    <3>1. ~TradedIn(fills, a, s.from)
      BY <1>3 DEF TradedIn
    <3>2. s.rows[a] = RowOf(book, fills, a)
      BY <1>1, <3>1 DEF RowsRead
    <3>3. RowOf(book, fills, a).qty = book[a].qty /\ RowOf(book, fills, a).avg = book[a].avg
      BY DEF RowOf
    <3> QED
      BY <3>2, <3>3 DEF Cost
  <2>2. [a \in Assets |-> Cost(s.rows[a])] = [a \in Assets |-> Cost(book[a])]
    BY <2>1
  <2> QED
    BY <2>2 DEF Costs
<1>6. Costs(book) \in Int
  BY <1>2, BookCosts
<1>7. s.value - s.gain = Costs(book) /\ s.value \in Int /\ s.gain \in Int
  BY <1>1, <1>5, <1>6, NothingPending DEF Sessions
<1> DEFINE money == cash * Lot
           opening == InitialCash * Lot
           charged == FeesIn(fills, n) * Lot
           earned == RealizedTotal(fills) * Lot
           room == Slack(fills, n)
           spent == Costs(book)
<1>8. /\ money \in Int /\ opening \in Int /\ charged \in Int /\ earned \in Int
      /\ (RealizedTotal(fills) - FeesIn(fills, n)) * Lot = earned - charged
  <2>1. /\ RealizedTotal(fills) \in Int /\ FeesIn(fills, n) \in Int /\ Lot \in Int
        /\ InitialCash \in Int /\ cash \in Int
    BY <1>2, RealizedKnown, MoneyKnown, EngineAssumption, PortfolioAssumption
  <2>2. \A i, j, k \in Int : (i - j) * k = i * k - j * k /\ i * k \in Int
    OBVIOUS
  <2>3. (RealizedTotal(fills) - FeesIn(fills, n)) * Lot
          = RealizedTotal(fills) * Lot - FeesIn(fills, n) * Lot
    BY <2>1, <2>2
  <2> QED
    BY <2>1, <2>2, <2>3
<1>9. room \in Int
  BY <1>2, MoneyKnown
<1>10. Drift = money + spent - opening - (earned - charged)
  BY <1>8 DEF Drift
<1>11. 2 * Drift <= room /\ -(2 * Drift) <= room
  BY DEF AccountInv, LedgerReconciles
<1>12. s.cash = money /\ s.realized * Lot = earned
  BY <1>1, <1>4
<1> DEFINE left == (money + s.value) - opening
           right == (earned + s.gain) - charged
<1>13. OffBy(s.cash + s.value, s.realized, s.gain, FeesIn(fills, n)) = 2 * Distance(left, right)
  BY <1>12 DEF OffBy
<1> HIDE DEF money, opening, charged, earned, room, spent
<1>14. left \in Int /\ right \in Int
  BY <1>7, <1>8
<1>15. left - right = money + (s.value - s.gain) - opening - (earned - charged)
  BY <1>7, <1>8
<1>16. left - right = Drift
  <2> HIDE DEF left, right
  <2>1. s.value - s.gain = spent
    BY <1>7 DEF spent
  <2> QED
    BY <1>10, <1>15, <2>1
<1> HIDE DEF left, right
<1>17. Distance(left, right) = left - right \/ Distance(left, right) = right - left
  BY DEF Distance
<1>18. 2 * Distance(left, right) <= room
  BY <1>9, <1>11, <1>14, <1>16, <1>17
<1> QED
  BY <1>13, <1>18 DEF room

\* The report of a computation that was let to finish.
LEMMA ReportFinished ==
  ASSUME AccountInv, NEW r, SessionOK(session[r], book, cash, fills), session[r].step = "loss"
  PROVE  ReportOK(Result(r), book, fills)
<1> DEFINE s == session[r]
           p == Result(r)
           n == Len(fills)
<1>1. /\ p.from = s.from /\ p.to = n /\ p.positions = s.rows
      /\ p.realized = s.realized /\ p.daily = s.daily /\ p.since = s.since
      /\ p.lastLoss = LastLoss(fills) /\ p.equity = s.cash + s.value /\ p.unrealized = s.gain
  BY DEF Result, Equity
<1>2. fills \in Seq(FillRows)
  BY DEF AccountInv, AccountTypes
<1> HIDE DEF p
<1>3. /\ s \in Sessions /\ CashRead(s, cash, fills) /\ RowsRead(s.rows, s.from, book, fills)
      /\ \E i, j \in s.from..n :
           /\ i <= j
           /\ s.realized = RealizedTotal(SubSeq(fills, 1, i))
           /\ s.daily = RealizedSince(SubSeq(fills, 1, j), s.since)
  BY DEF SessionOK, PositionsRead, SumsRead
<1>4. n \in Nat /\ s.from \in Nat /\ s.from <= n
  BY <1>2, <1>3, RowsKnown DEF Sessions, CashRead
<1>5. Counts(p, fills)
  <2>1. PICK i, j \in s.from..n :
           /\ i <= j
           /\ s.realized = RealizedTotal(SubSeq(fills, 1, i))
           /\ s.daily = RealizedSince(SubSeq(fills, 1, j), s.since)
    BY <1>3
  <2>2. j \in 0..n
    BY <1>4, <2>1
  <2>3. LastLoss(fills) >= LastLoss(SubSeq(fills, 1, j))
    BY <1>2, <2>2, LastLossGrows
  <2> QED
    BY <1>1, <2>1, <2>3 DEF Counts
<1>6. Reconciles(p, fills)
  <2> SUFFICES ASSUME p.from = p.to
      PROVE  OffBy(p.equity, p.realized, p.unrealized, FeesIn(fills, p.to)) <= Slack(fills, p.to)
    BY DEF Reconciles
  <2>1. s.from = n
    BY <1>1
  <2>2. OffBy(s.cash + s.value, s.realized, s.gain, FeesIn(fills, n)) <= Slack(fills, n)
    BY <2>1, ReportIsTrue
  <2> QED
    BY <1>1, <2>2
<1>7. ReportOK(p, book, fills)
  BY <1>1, <1>3, <1>4, <1>5, <1>6 DEF ReportOK
<1> QED
  BY <1>7 DEF p

-----------------------------------------------------------------------------
(* The invariant of the account, the computations and the reports. *)

SessionsInv ==
  /\ session = [r \in Readers |-> session[r]]
  /\ \A r \in Readers : SessionOK(session[r], book, cash, fills)

ReportsInv ==
  /\ report = [r \in Readers |-> report[r]]
  /\ \A r \in Readers : report[r] = None \/ ReportOK(report[r], book, fills)

PortfolioInv == AccountInv /\ SessionsInv /\ ReportsInv

\* What the lemmas about a step need to know of the account and the sessions.
LEMMA InvKnown ==
  ASSUME PortfolioInv
  PROVE  /\ book \in [Assets -> [qty : Nat, avg : Nat]] /\ cash \in Nat /\ peak \in Nat
         /\ quote \in [Assets -> Prices] /\ fills \in Seq(FillRows)
         /\ Today \in Nat
         /\ \A r \in Readers : /\ SessionOK(session[r], book, cash, fills)
                               /\ session[r] \in Sessions
                               /\ report[r] = None \/ ReportOK(report[r], book, fills)
<1>1. AccountTypes /\ SessionsInv /\ ReportsInv
  BY DEF PortfolioInv, AccountInv
<1>2. Today \in Nat
  <2>1. midnights \in Seq(0..Len(fills)) /\ Len(fills) \in Nat
    BY <1>1, RowsKnown DEF AccountTypes
  <2>2. ASSUME midnights # <<>> PROVE midnights[Len(midnights)] \in 0..Len(fills)
    <3>1. Len(midnights) \in 1..Len(midnights)
      BY <2>1, <2>2, EmptySeq, LenProperties
    <3> QED
      BY <2>1, <3>1, ElementOfSeq
  <2> QED
    BY <2>1, <2>2 DEF Today
<1> QED
  BY <1>1, <1>2 DEF AccountTypes, SessionsInv, ReportsInv, SessionOK

\* The invariant holds at the start.
LEMMA PortfolioStarts ==
  ASSUME PortfolioInit
  PROVE  PortfolioInv
<1>1. /\ approval = [s \in Signals |-> None] /\ book = [a \in Assets |-> Flat]
      /\ cash = InitialCash /\ quote \in [Assets -> Prices] /\ peak = InitialCash
      /\ fills = <<>> /\ midnights = <<>>
      /\ session = [r \in Readers |-> NewSession] /\ report = [r \in Readers |-> None]
  BY DEF PortfolioInit, Init
<1>2. fills \in Seq(FillRows) /\ Len(fills) = 0 /\ midnights \in Seq(0..Len(fills))
  BY <1>1, EmptySeq
<1>3. AccountTypes
  BY <1>1, <1>2, PortfolioAssumption DEF AccountTypes, Flat
<1>4. HeldIsBought
  <2>1. ASSUME NEW a \in Assets PROVE book[a].qty = HeldIn(fills, a, Len(fills))
    <3> DEFINE S == BoughtSince(fills, a, Len(fills))
               g == [j \in S |-> fills[j].qty]
    <3>1. S = {}
      BY <1>2 DEF BoughtSince
    <3>2. HeldIn(fills, a, Len(fills)) = SumFunctionOnSet(g, S)
      BY DEF HeldIn
    <3> HIDE DEF S, g
    <3>3. SumFunctionOnSet(g, S) = 0
      BY <3>1, SumEmpty
    <3> QED
      BY <1>1, <3>2, <3>3 DEF Flat
  <2> QED
    BY <2>1 DEF HeldIsBought
<1>5. LedgerReconciles
  <2>1. Costs(book) = 0
    <3> DEFINE g == [a \in Assets |-> Cost(book[a])]
    <3>1. \A a \in Assets : g[a] = 0
      BY <1>1 DEF Cost, Flat
    <3>2. Costs(book) = SumFunctionOnSet(g, Assets)
      BY DEF Costs
    <3> HIDE DEF g
    <3> QED
      BY <3>1, <3>2, SumZero, PortfolioAssumption
  <2>2. RealizedTotal(fills) = 0
    <3> DEFINE S == Sales(fills)
               g == [i \in S |-> fills[i].pnl]
    <3>1. S = {}
      BY <1>1, <1>2, RowsKnown DEF Sales
    <3>2. RealizedTotal(fills) = SumFunctionOnSet(g, S)
      BY DEF RealizedTotal, PnlOf
    <3> HIDE DEF S, g
    <3> QED
      BY <3>1, <3>2, SumEmpty
  <2>3. FeesIn(fills, Len(fills)) = 0
    <3> DEFINE S == {i \in 1..Len(fills) : fills[i].side = "BUY"}
               g == [i \in S |-> fills[i].fee]
    <3>1. S = {}
      BY <1>2
    <3>2. FeesIn(fills, Len(fills)) = SumFunctionOnSet(g, S)
      BY DEF FeesIn
    <3> HIDE DEF S, g
    <3> QED
      BY <3>1, <3>2, SumEmpty
  <2>4. Slack(fills, Len(fills)) = 0
    <3> DEFINE S == 1..Len(fills)
               g == [i \in S |-> RoundingIn(fills, i)]
    <3>1. S = {}
      BY <1>2
    <3>2. Slack(fills, Len(fills)) = SumFunctionOnSet(g, S)
      BY DEF Slack
    <3> HIDE DEF S, g
    <3> QED
      BY <3>1, <3>2, SumEmpty
  <2>5. cash * Lot = InitialCash * Lot /\ InitialCash * Lot \in Int /\ Lot \in Int
    BY <1>1, EngineAssumption, PortfolioAssumption
  <2> DEFINE paid == InitialCash * Lot
  <2>6. Drift = paid + 0 - paid - (0 - 0) * Lot
    BY <2>1, <2>2, <2>3, <2>5 DEF Drift
  <2> HIDE DEF paid
  <2>7. Drift = 0
    BY <2>5, <2>6 DEF paid
  <2> QED
    BY <2>4, <2>7 DEF LedgerReconciles
<1>6. SessionsInv
  BY <1>1, <1>2, NewSessionOK DEF SessionsInv
<1>7. ReportsInv
  BY <1>1 DEF ReportsInv
<1> QED
  BY <1>3, <1>4, <1>5, <1>6, <1>7 DEF PortfolioInv, AccountInv

\* The account is as sound as before if no trade commits.
LEMMA AccountKept ==
  ASSUME AccountInv, UNCHANGED <<ledgerVars, fills>>,
         peak' \in Nat, quote' \in [Assets -> Prices], midnights' \in Seq(0..Len(fills))
  PROVE  AccountInv'
<1>1. UNCHANGED <<approval, book, cash, fills>>
  BY DEF ledgerVars
<1>2. AccountTypes'
  BY <1>1 DEF AccountInv, AccountTypes
<1>3. HeldIsBought'
  BY <1>1 DEF AccountInv, HeldIsBought
<1>4. LedgerReconciles'
  BY <1>1 DEF AccountInv, LedgerReconciles, Drift
<1> QED
  BY <1>2, <1>3, <1>4 DEF AccountInv

\* One computation moves, the others stay.
LEMMA SessionMoves ==
  ASSUME SessionsInv, NEW r \in Readers, NEW t, SessionOK(t, book, cash, fills),
         session' = [session EXCEPT ![r] = t], UNCHANGED <<book, cash, fills>>
  PROVE  SessionsInv'
<1>1. session' = [q \in Readers |-> session'[q]]
  BY DEF SessionsInv
<1>2. \A q \in Readers : session'[q] = IF q = r THEN t ELSE session[q]
  BY DEF SessionsInv
<1>3. \A q \in Readers : SessionOK(session'[q], book', cash', fills')
  BY <1>2 DEF SessionsInv
<1> QED
  BY <1>1, <1>3 DEF SessionsInv

\* One report changes, the others stay.
LEMMA ReportMoves ==
  ASSUME ReportsInv, NEW r \in Readers, NEW p, p = None \/ ReportOK(p, book, fills),
         report' = [report EXCEPT ![r] = p], UNCHANGED <<book, fills>>
  PROVE  ReportsInv'
<1>1. report' = [q \in Readers |-> report'[q]]
  BY DEF ReportsInv
<1>2. \A q \in Readers : report'[q] = IF q = r THEN p ELSE report[q]
  BY DEF ReportsInv
<1>3. \A q \in Readers : report'[q] = None \/ ReportOK(report'[q], book', fills')
  BY <1>2 DEF ReportsInv
<1> QED
  BY <1>1, <1>3 DEF ReportsInv

\* A step of one reader.
LEMMA ReaderMoves ==
  ASSUME PortfolioInv, UNCHANGED marketVars, peak' \in Nat,
         NEW r \in Readers,
         \/ UNCHANGED session
         \/ \E t : SessionOK(t, book, cash, fills) /\ session' = [session EXCEPT ![r] = t],
         \/ UNCHANGED report
         \/ \E p : /\ p = None \/ ReportOK(p, book, fills)
                   /\ report' = [report EXCEPT ![r] = p]
  PROVE  PortfolioInv'
<1>1. /\ AccountInv /\ SessionsInv /\ ReportsInv
      /\ UNCHANGED <<ledgerVars, fills, quote, midnights, book, cash>>
  BY DEF PortfolioInv, marketVars, ledgerVars
<1>2. AccountInv'
  <2>1. quote' \in [Assets -> Prices] /\ midnights' \in Seq(0..Len(fills))
    BY <1>1 DEF AccountInv, AccountTypes
  <2> QED
    BY <1>1, <2>1, AccountKept
<1>3. SessionsInv'
  <2>1. CASE UNCHANGED session
    BY <1>1, <2>1 DEF SessionsInv
  <2>2. CASE \E t : SessionOK(t, book, cash, fills) /\ session' = [session EXCEPT ![r] = t]
    BY <1>1, <2>2, SessionMoves
  <2> QED
    BY <2>1, <2>2
<1>4. ReportsInv'
  <2>1. CASE UNCHANGED report
    BY <1>1, <2>1 DEF ReportsInv
  <2>2. CASE \E p : /\ p = None \/ ReportOK(p, book, fills)
                    /\ report' = [report EXCEPT ![r] = p]
    BY <1>1, <2>2, ReportMoves
  <2> QED
    BY <2>1, <2>2
<1> QED
  BY <1>2, <1>3, <1>4 DEF PortfolioInv

\* What the lemmas about one session need to know of its reader.
LEMMA ReaderKnown ==
  ASSUME PortfolioInv, NEW r \in Readers
  PROVE  /\ SessionOK(session[r], book, cash, fills) /\ session[r] \in Sessions
         /\ session = [q \in Readers |-> session[q]]
         /\ report = [q \in Readers |-> report[q]]
BY InvKnown DEF PortfolioInv, SessionsInv, ReportsInv

\* A computation begins.
LEMMA ReadAccountKeeps ==
  ASSUME PortfolioInv, NEW r \in Readers, ReadAccount(r)
  PROVE  PortfolioInv'
<1> DEFINE t == [NewSession EXCEPT !.step = "positions", !.cash = cash * Lot,
                                   !.peak = peak * Lot, !.from = Len(fills)]
<1>1. session' = [session EXCEPT ![r] = t]
  BY DEF ReadAccount
<1>2. report' = [report EXCEPT ![r] = None]
  BY DEF ReadAccount
<1>3. UNCHANGED <<marketVars, peak>>
  BY DEF ReadAccount
<1>4. SessionOK(t, book, cash, fills)
  BY InvKnown, AccountRead
<1> HIDE DEF t
<1>5. peak' \in Nat
  BY <1>3, InvKnown
<1> QED
  BY <1>1, <1>2, <1>3, <1>4, <1>5, ReaderMoves

\* The steps of a computation, one by one: the positions to be valued.
LEMMA ReadPositionsKeeps ==
  ASSUME PortfolioInv, NEW r \in Readers, ReadPositions(r)
  PROVE  PortfolioInv'
<1> DEFINE t == [session[r] EXCEPT !.step = "quotes",
                                   !.rows = [a \in Assets |-> RowOf(book, fills, a)],
                                   !.todo = {a \in Assets : book[a].qty > 0}]
<1>1. \A a : OpenRow(a) = RowOf(book, fills, a)
  BY DEF OpenRow, RowOf
<1>2. session[r].step = "positions" /\ UNCHANGED <<marketVars, peak, report>>
  BY DEF ReadPositions
<1>3. session' = [session EXCEPT ![r] = t]
  BY <1>1, ReaderKnown DEF ReadPositions
<1>4. SessionOK(t, book, cash, fills)
  BY <1>2, InvKnown, PositionsAreRead
<1> HIDE DEF t
<1>5. peak' \in Nat
  BY <1>2, InvKnown
<1> QED
  BY <1>2, <1>3, <1>4, <1>5, ReaderMoves

\* A quote arrives and one position is valued.
LEMMA FetchQuoteKeeps ==
  ASSUME PortfolioInv, NEW r \in Readers, NEW a \in Assets, FetchQuote(r, a)
  PROVE  PortfolioInv'
<1> DEFINE s == session[r]
           t == [s EXCEPT !.todo = @ \ {a},
                          !.value = @ + Notional(s.rows[a].qty, quote[a]),
                          !.gain = @ + UnrealizedPnl(s.rows[a], quote[a])]
<1>1. s.step = "quotes" /\ a \in s.todo /\ UNCHANGED <<marketVars, peak, report>>
  BY DEF FetchQuote
<1>2. session' = [session EXCEPT ![r] = t]
  BY ReaderKnown DEF FetchQuote
<1>3. quote[a] \in Nat
  BY InvKnown, PortfolioAssumption
<1>4. SessionOK(s, book, cash, fills)
  BY ReaderKnown
<1>5. SessionOK(t, book, cash, fills)
  <2> HIDE DEF s
  <2> QED
    BY <1>1, <1>3, <1>4, QuoteFetched
<1> HIDE DEF s, t
<1>6. peak' \in Nat
  BY <1>1, InvKnown
<1> QED
  BY <1>1, <1>2, <1>5, <1>6, ReaderMoves

\* The peak is compared and written.
LEMMA RatchetKeeps ==
  ASSUME PortfolioInv, NEW r \in Readers, Ratchet(r)
  PROVE  PortfolioInv'
<1> DEFINE s == session[r]
           t == [s EXCEPT !.step = "total", !.peak = PeakReported(r)]
<1>1. /\ s.step = "quotes" /\ s.todo = {} /\ UNCHANGED <<marketVars, report>>
      /\ peak' = PeakWritten(r)
  BY DEF Ratchet
<1>2. session' = [session EXCEPT ![r] = t]
  BY ReaderKnown DEF Ratchet
<1>3. SessionOK(s, book, cash, fills) /\ s \in Sessions
  BY ReaderKnown
<1>4. s.cash \in Nat /\ s.value \in Nat /\ s.peak \in Nat
  BY <1>3 DEF Sessions
<1>5. Equity(r) \in Nat
  BY <1>4 DEF Equity
<1>6. PeakReported(r) \in Nat
  BY <1>4, <1>5 DEF PeakReported
<1>7. RoundTicks(Equity(r), Lot) \in Nat
  BY <1>5, RoundTicksInt, EngineAssumption
<1>8. peak' \in Nat
  BY <1>1, <1>7, InvKnown DEF PeakWritten
<1> HIDE DEF s
<1>9. SessionOK(t, book, cash, fills)
  BY <1>1, <1>3, <1>6, Ratcheted
<1> HIDE DEF t
<1> QED
  BY <1>1, <1>2, <1>8, <1>9, ReaderMoves

\* The realized total is summed.
LEMMA SumRealizedKeeps ==
  ASSUME PortfolioInv, NEW r \in Readers, SumRealized(r)
  PROVE  PortfolioInv'
<1> DEFINE t == [session[r] EXCEPT !.step = "daily", !.realized = RealizedTotal(fills)]
<1>1. session[r].step = "total" /\ UNCHANGED <<marketVars, peak, report>>
  BY DEF SumRealized
<1>2. session' = [session EXCEPT ![r] = t]
  BY ReaderKnown DEF SumRealized
<1>3. SessionOK(t, book, cash, fills)
  BY <1>1, InvKnown, RealizedSummed
<1> HIDE DEF t
<1>4. peak' \in Nat
  BY <1>1, InvKnown
<1> QED
  BY <1>1, <1>2, <1>3, <1>4, ReaderMoves

\* The P/L of the day is summed.
LEMMA SumDailyKeeps ==
  ASSUME PortfolioInv, NEW r \in Readers, SumDaily(r)
  PROVE  PortfolioInv'
<1> DEFINE t == [session[r] EXCEPT !.step = "loss", !.daily = RealizedSince(fills, Today),
                                   !.since = Today]
<1>1. session[r].step = "daily" /\ UNCHANGED <<marketVars, peak, report>>
  BY DEF SumDaily
<1>2. session' = [session EXCEPT ![r] = t]
  BY ReaderKnown DEF SumDaily, SumToday
<1>3. SessionOK(t, book, cash, fills)
  BY <1>1, InvKnown, DaySummed
<1> HIDE DEF t
<1>4. peak' \in Nat
  BY <1>1, InvKnown
<1> QED
  BY <1>1, <1>2, <1>3, <1>4, ReaderMoves

\* The last loss is found and the report made.
LEMMA FindLastLossKeeps ==
  ASSUME PortfolioInv, NEW r \in Readers, FindLastLoss(r)
  PROVE  PortfolioInv'
<1> DEFINE p == Result(r)
<1>1. /\ session[r].step = "loss" /\ UNCHANGED <<marketVars, peak>>
      /\ session' = [session EXCEPT ![r] = NewSession]
      /\ report' = [report EXCEPT ![r] = p]
  BY DEF FindLastLoss
<1>2. AccountInv
  BY DEF PortfolioInv
<1>3. ReportOK(p, book, fills)
  BY <1>1, <1>2, InvKnown, ReportFinished
<1> HIDE DEF p
<1>4. SessionOK(NewSession, book, cash, fills)
  BY InvKnown, NewSessionOK
<1>5. peak' \in Nat
  BY <1>1, InvKnown
<1> QED
  BY <1>1, <1>3, <1>4, <1>5, ReaderMoves

\* A computation keeps the invariant and moves nothing but the peak.
LEMMA ComputeKeeps ==
  ASSUME PortfolioInv, NEW r \in Readers, ComputeStep(r)
  PROVE  PortfolioInv' /\ UNCHANGED marketVars
<1>1. PortfolioInv'
  BY ReadAccountKeeps, ReadPositionsKeeps, FetchQuoteKeeps, RatchetKeeps, SumRealizedKeeps,
     SumDailyKeeps, FindLastLossKeeps DEF ComputeStep
<1>2. UNCHANGED marketVars
  BY DEF ComputeStep, ReadAccount, ReadPositions, FetchQuote, Ratchet, SumRealized, SumDaily,
         FindLastLoss
<1> QED
  BY <1>1, <1>2

\* A computation is dropped, or a report is.
LEMMA ResetKeeps ==
  ASSUME PortfolioInv, NEW r \in Readers, UNCHANGED <<marketVars, peak>>,
         UNCHANGED session \/ session' = [session EXCEPT ![r] = NewSession],
         UNCHANGED report \/ report' = [report EXCEPT ![r] = None]
  PROVE  PortfolioInv'
<1>1. SessionOK(NewSession, book, cash, fills) /\ peak' \in Nat
  BY InvKnown, NewSessionOK
<1> QED
  BY <1>1, ReaderMoves

\* A sequence over S is one over every larger set.
LEMMA SeqWider ==
  ASSUME NEW S, NEW T, S \subseteq T, NEW x \in Seq(S)
  PROVE  x \in Seq(T)
<1>1. x \in [1..Len(x) -> S] /\ Len(x) \in Nat
  BY LenProperties
<1>2. x \in [1..Len(x) -> T]
  BY <1>1
<1> QED
  BY <1>1, <1>2, SeqDef

\* A trade commits in the middle of everybody's computations.
LEMMA TradeKeeps ==
  ASSUME PortfolioInv, Trade
  PROVE  PortfolioInv' /\ Grown(book, cash, fills, book', cash', fills')
<1>1. AccountInv /\ AccountTypes /\ HeldIsBought /\ LedgerReconciles
  BY DEF PortfolioInv, AccountInv
<1>2. /\ UNCHANGED <<quote, peak, midnights, session, report>>
      /\ approval' \in [Signals -> Sizes \cup {None}]
      /\ \/ UNCHANGED <<book, cash, fills>>
         \/ \E a \in Assets, qty \in Sizes, price \in Prices : Bought(a, qty, price)
         \/ \E a \in Assets, price \in Prices : Sold(a, price)
  BY <1>1, TradeIs
<1> DEFINE Good == /\ book' \in [Assets -> [qty : Nat, avg : Nat]] /\ cash' \in Nat
                   /\ fills' \in Seq(FillRows) /\ HeldIsBought' /\ LedgerReconciles'
                   /\ Grown(book, cash, fills, book', cash', fills')
<1>3. ASSUME UNCHANGED <<book, cash, fills>> PROVE Good
  <2>1. HeldIsBought'
    BY <1>1, <1>3 DEF HeldIsBought
  <2>2. LedgerReconciles'
    BY <1>1, <1>3 DEF LedgerReconciles, Drift
  <2>3. book' \in [Assets -> [qty : Nat, avg : Nat]] /\ cash' \in Nat /\ fills' \in Seq(FillRows)
    BY <1>1, <1>3 DEF AccountTypes
  <2> QED
    BY <1>3, <2>1, <2>2, <2>3 DEF Grown
<1>4. ASSUME NEW a \in Assets, NEW qty \in Sizes, NEW price \in Prices, Bought(a, qty, price)
      PROVE  Good
  <2>1. /\ book' \in [Assets -> [qty : Nat, avg : Nat]] /\ cash' \in Nat
        /\ fills' \in Seq(FillRows)
    BY <1>1, <1>4, BoughtTypes
  <2>2. HeldIsBought'
    BY <1>1, <1>4, BoughtKeepsHeld
  <2>3. LedgerReconciles'
    BY <1>1, <1>4, BoughtKeepsDrift
  <2>4. Grown(book, cash, fills, book', cash', fills')
    <3> DEFINE row == [asset |-> a, side |-> "BUY", qty |-> qty,
                       fee |-> Fee(qty, price), pnl |-> None]
    <3>1. row \in FillRows /\ row.asset = a
      BY <1>1, <1>4, BoughtTypes
    <3>2. fills' = Append(fills, row)
      BY <1>4 DEF Bought
    <3>3. \A x \in Assets \ {a} : book'[x] = book[x]
      BY <1>1, <1>4 DEF Bought, AccountTypes
    <3> HIDE DEF row
    <3> QED
      BY <3>1, <3>2, <3>3 DEF Grown
  <2> QED
    BY <2>1, <2>2, <2>3, <2>4
<1>5. ASSUME NEW a \in Assets, NEW price \in Prices, Sold(a, price)
      PROVE  Good
  <2>1. /\ book' \in [Assets -> [qty : Nat, avg : Nat]] /\ cash' \in Nat
        /\ fills' \in Seq(FillRows)
    BY <1>1, <1>5, SoldTypes
  <2>2. HeldIsBought'
    BY <1>1, <1>5, SoldKeepsHeld
  <2>3. LedgerReconciles'
    BY <1>1, <1>5, SoldKeepsDrift
  <2>4. Grown(book, cash, fills, book', cash', fills')
    <3> DEFINE qty == book[a].qty
               fee == Fee(qty, price)
               row == [asset |-> a, side |-> "SELL", qty |-> qty, fee |-> fee,
                       pnl |-> RealizedPnl(book[a].avg, price, qty, fee)]
    <3>1. row \in FillRows /\ row.asset = a
      BY <1>1, <1>5, SoldTypes
    <3>2. fills' = Append(fills, row)
      BY <1>5 DEF Sold
    <3>3. \A x \in Assets \ {a} : book'[x] = book[x]
      BY <1>1, <1>5 DEF Sold, AccountTypes
    <3> HIDE DEF row
    <3> QED
      BY <3>1, <3>2, <3>3 DEF Grown
  <2> QED
    BY <2>1, <2>2, <2>3, <2>4
<1>6. Good
  BY <1>2, <1>3, <1>4, <1>5
<1> HIDE DEF Good
<1>7. AccountInv'
  <2>1. midnights' \in Seq(0..Len(fills'))
    <3>1. Len(fills) \in Nat /\ Len(fills') \in Nat /\ Len(fills) <= Len(fills')
      BY <1>1, <1>6, GrownKeeps DEF Good, AccountTypes, Kept
    <3>2. 0..Len(fills) \subseteq 0..Len(fills')
      BY <3>1
    <3>3. midnights \in Seq(0..Len(fills)) /\ midnights' = midnights
      BY <1>1, <1>2 DEF AccountTypes
    <3> QED
      BY <3>2, <3>3, SeqWider
  <2>2. AccountTypes'
    BY <1>1, <1>2, <1>6, <2>1 DEF AccountTypes, Good
  <2> QED
    BY <1>6, <2>2 DEF AccountInv, Good
<1>8. SessionsInv'
  <2>1. /\ session = [r \in Readers |-> session[r]] /\ fills \in Seq(FillRows)
        /\ \A r \in Readers : SessionOK(session[r], book, cash, fills)
    BY <1>1 DEF PortfolioInv, SessionsInv, AccountTypes
  <2>2. ASSUME NEW r \in Readers PROVE SessionOK(session[r], book', cash', fills')
    BY <1>6, <2>1, SessionKept DEF Good
  <2> QED
    BY <1>2, <2>1, <2>2 DEF SessionsInv
<1>9. ReportsInv'
  <2>1. /\ report = [r \in Readers |-> report[r]] /\ fills \in Seq(FillRows)
        /\ \A r \in Readers : report[r] = None \/ ReportOK(report[r], book, fills)
    BY <1>1 DEF PortfolioInv, ReportsInv, AccountTypes
  <2>2. ASSUME NEW r \in Readers PROVE report[r] = None \/ ReportOK(report[r], book', fills')
    BY <1>6, <2>1, ReportKept DEF Good
  <2> QED
    BY <1>2, <2>1, <2>2 DEF ReportsInv
<1> QED
  BY <1>6, <1>7, <1>8, <1>9 DEF Good, PortfolioInv

\* So does what else happens around them.
LEMMA SurroundingsKeep ==
  ASSUME PortfolioInv, Surroundings
  PROVE  /\ PortfolioInv' /\ Grown(book, cash, fills, book', cash', fills')
         /\ UNCHANGED <<session, report>>
<1>1. AccountInv /\ AccountTypes /\ SessionsInv /\ ReportsInv
  BY DEF PortfolioInv, AccountInv
<1>2. CASE Trade
  BY <1>1, <1>2, TradeKeeps DEF Trade
<1>3. ASSUME UNCHANGED <<ledgerVars, peak, fills, session, report>>, AccountInv'
      PROVE  /\ PortfolioInv' /\ Grown(book, cash, fills, book', cash', fills')
             /\ UNCHANGED <<session, report>>
  <2>1. UNCHANGED <<book, cash, fills, session, report>>
    BY <1>3 DEF ledgerVars
  <2>2. SessionsInv'
    BY <1>1, <2>1 DEF SessionsInv
  <2>3. ReportsInv'
    BY <1>1, <2>1 DEF ReportsInv
  <2> QED
    BY <1>3, <2>1, <2>2, <2>3 DEF PortfolioInv, Grown
<1>4. ASSUME NEW a \in Assets, Ingest(a) PROVE AccountInv'
  <2>1. /\ UNCHANGED <<ledgerVars, fills>> /\ peak' = peak /\ midnights' = midnights
        /\ quote' \in [Assets -> Prices]
    BY <1>1, <1>4 DEF Ingest, AccountTypes
  <2> QED
    BY <1>1, <2>1, AccountKept DEF AccountTypes
<1>5. ASSUME EndOfDay PROVE AccountInv'
  <2>1. /\ UNCHANGED <<ledgerVars, fills>> /\ peak' = peak /\ quote' = quote
        /\ midnights' = Append(midnights, Len(fills))
    BY <1>5 DEF EndOfDay
  <2>2. Len(fills) \in 0..Len(fills) /\ midnights \in Seq(0..Len(fills))
    BY <1>1, RowsKnown DEF AccountTypes
  <2>3. midnights' \in Seq(0..Len(fills))
    BY <2>1, <2>2, AppendProperties
  <2> QED
    BY <1>1, <2>1, <2>3, AccountKept DEF AccountTypes
<1>6. CASE \E a \in Assets : Ingest(a)
  BY <1>3, <1>4, <1>6 DEF Ingest
<1>7. CASE EndOfDay
  BY <1>3, <1>5, <1>7 DEF EndOfDay
<1> QED
  BY <1>2, <1>6, <1>7 DEF Surroundings

-----------------------------------------------------------------------------
(* The newest events.  After orders them strictly and totally, so a LIMIT  *)
(* keeps exactly that many, and what it drops is older than all it keeps.  *)

Newer(events, x) == {y \in events : After(y, x)}

Ordered(events) ==
  /\ IsFiniteSet(events)
  /\ \A x \in events : x.at \in Int /\ x.n \in Int
  /\ \A x, y \in events : x.at = y.at /\ x.n = y.n => x = y

\* After is a strict total order of such events.
LEMMA AfterIsOrder ==
  ASSUME NEW events, Ordered(events)
  PROVE  /\ \A x, y \in events : x = y \/ After(x, y) \/ After(y, x)
         /\ \A x, y \in events : ~(After(x, y) /\ After(y, x))
         /\ \A x, y, z \in events : After(x, y) /\ After(y, z) => After(x, z)
<1>1. ASSUME NEW x \in events, NEW y \in events
      PROVE  /\ x = y \/ After(x, y) \/ After(y, x)
             /\ ~(After(x, y) /\ After(y, x))
  <2>1. x.at \in Int /\ x.n \in Int /\ y.at \in Int /\ y.n \in Int
    BY DEF Ordered
  <2>2. x.at = y.at /\ x.n = y.n => x = y
    BY DEF Ordered
  <2>3. (x.at = y.at /\ x.n = y.n) \/ After(x, y) \/ After(y, x)
    BY <2>1 DEF After
  <2>4. ~(After(x, y) /\ After(y, x))
    BY <2>1 DEF After
  <2> QED
    BY <2>2, <2>3, <2>4
<1>2. ASSUME NEW x \in events, NEW y \in events, NEW z \in events,
             After(x, y), After(y, z)
      PROVE  After(x, z)
  <2>1. /\ x.at \in Int /\ x.n \in Int /\ y.at \in Int /\ y.n \in Int
        /\ z.at \in Int /\ z.n \in Int
    BY DEF Ordered
  <2> QED
    BY <1>2, <2>1 DEF After
<1> QED
  BY <1>1, <1>2

\* So it is of some of them.
LEMMA SubsetOrdered ==
  ASSUME NEW events, Ordered(events), NEW S \in SUBSET events
  PROVE  Ordered(S)
<1>1. IsFiniteSet(S)
  BY FS_Subset DEF Ordered
<1> QED
  BY <1>1 DEF Ordered

\* Fewer events are newer than a newer event.
LEMMA NewerShrinks ==
  ASSUME NEW events, Ordered(events), NEW x \in events, NEW y \in events, After(y, x)
  PROVE  /\ Cardinality(Newer(events, x)) \in Nat
         /\ Cardinality(Newer(events, y)) \in Nat
         /\ Cardinality(Newer(events, y)) < Cardinality(Newer(events, x))
<1>1. IsFiniteSet(Newer(events, x))
  BY FS_Subset DEF Newer, Ordered
<1>2. y \in Newer(events, x)
  BY DEF Newer
<1>3. Newer(events, y) \subseteq Newer(events, x) \ {y}
  BY AfterIsOrder DEF Newer
<1>4. /\ Cardinality(Newer(events, y)) \in Nat
      /\ Cardinality(Newer(events, y)) + 1 <= Cardinality(Newer(events, x))
  BY <1>1, <1>2, <1>3, OneLess
<1>5. Cardinality(Newer(events, x)) \in Nat
  BY <1>1, FS_CardinalityType
<1> QED
  BY <1>4, <1>5

\* What a LIMIT drops is older than what it keeps.
LEMMA NewestAreNewer ==
  ASSUME NEW events, Ordered(events), NEW n \in Nat,
         NEW x \in events, x \notin NewestOf(events, n), NEW y \in NewestOf(events, n)
  PROVE  After(y, x)
<1>1. y \in events /\ Cardinality(Newer(events, y)) < n
  BY DEF NewestOf, Newer
<1>2. ~(Cardinality(Newer(events, x)) < n)
  BY DEF NewestOf, Newer
<1>3. ASSUME After(x, y) PROVE FALSE
  <2>1. /\ Cardinality(Newer(events, x)) \in Nat
        /\ Cardinality(Newer(events, y)) \in Nat
        /\ Cardinality(Newer(events, x)) < Cardinality(Newer(events, y))
    BY <1>1, <1>3, NewerShrinks
  <2> QED
    BY <1>1, <1>2, <2>1
<1>4. x # y
  BY <1>1, <1>2
<1> QED
  BY <1>1, <1>3, <1>4, AfterIsOrder

\* A finite set of events that is not empty has an oldest one.
LEMMA OldestExists ==
  ASSUME NEW events, Ordered(events), events # {}
  PROVE  \E x \in events : \A y \in events \ {x} : After(y, x)
<1> DEFINE Older(x) == {y \in events : After(x, y)}
           Ranks == {n \in Nat : \E x \in events : n = Cardinality(Older(x))}
<1>1. \A x \in events : IsFiniteSet(Older(x)) /\ Cardinality(Older(x)) \in Nat
  <2> TAKE x \in events
  <2>1. IsFiniteSet(Older(x))
    BY FS_Subset DEF Ordered
  <2> QED
    BY <2>1, FS_CardinalityType
<1>2. Ranks # {}
  BY <1>1
<1>3. PICK m \in Ranks : \A k \in Ranks : <<k, m>> \notin OpToRel(<, Nat)
  BY <1>2, NatLessThanWellFounded, WFMin
<1>4. \A k \in Ranks : ~(k < m)
  BY <1>3, Zenon DEF OpToRel
<1>5. PICK x \in events : m = Cardinality(Older(x))
  OBVIOUS
<1>6. ASSUME NEW y \in events \ {x}, ~After(y, x) PROVE FALSE
  <2>1. After(x, y)
    BY <1>6, AfterIsOrder
  <2>2. y \in Older(x) /\ Older(y) \subseteq Older(x) \ {y}
    BY <2>1, AfterIsOrder
  <2>3. Cardinality(Older(y)) \in Nat /\ Cardinality(Older(y)) + 1 <= Cardinality(Older(x))
    BY <1>1, <2>2, OneLess
  <2>4. Cardinality(Older(y)) \in Ranks
    BY <2>3
  <2>5. ~(Cardinality(Older(y)) < m)
    BY <1>4, <2>4
  <2>6. Cardinality(Older(x)) \in Nat
    BY <1>1
  <2> HIDE DEF Older, Ranks
  <2> QED
    BY <1>5, <2>3, <2>5, <2>6
<1> QED
  BY <1>5, <1>6

\* A LIMIT keeps as many as it can.
LEMMA NewestFill ==
  ASSUME NEW events, Ordered(events), NEW n \in Nat, n <= Cardinality(events)
  PROVE  Cardinality(NewestOf(events, n)) = n
<1> DEFINE Good == {S \in SUBSET events :
                      \A k \in Nat : k <= Cardinality(S) => Cardinality(NewestOf(S, k)) = k}
<1>1. ASSUME NEW S \in SUBSET events, \A x \in S : S \ {x} \in Good
      PROVE  S \in Good
  <2>1. Ordered(S) /\ IsFiniteSet(S) /\ Cardinality(S) \in Nat
    BY SubsetOrdered, FS_CardinalityType DEF Ordered
  <2>2. CASE S = {}
    <3>1. Cardinality(S) = 0 /\ \A k \in Nat : NewestOf(S, k) = {}
      BY <2>2, FS_EmptySet DEF NewestOf
    <3>2. \A k \in Nat : k <= Cardinality(S) => k = 0
      BY <3>1
    <3> QED
      BY <2>2, <3>1, <3>2
  <2>3. CASE S # {}
    <3>1. PICK old \in S : \A y \in S \ {old} : After(y, old)
      BY <2>1, <2>3, OldestExists
    <3> DEFINE R == S \ {old}
    <3>2. IsFiniteSet(R) /\ Cardinality(R) = Cardinality(S) - 1 /\ R \in Good
      BY <1>1, <2>1, FS_RemoveElement
    <3>3. Newer(S, old) = R
      BY <2>1, <3>1, AfterIsOrder DEF Newer
    <3>4. \A x \in R : Newer(S, x) = Newer(R, x)
      BY <2>1, <3>1, AfterIsOrder DEF Newer
    <3>5. ASSUME NEW k \in Nat, k <= Cardinality(S)
          PROVE  Cardinality(NewestOf(S, k)) = k
      <4>1. CASE k = Cardinality(S)
        <5>1. ASSUME NEW x \in S PROVE Cardinality(Newer(S, x)) < k
          <6>1. Newer(S, x) \subseteq S \ {x}
            BY <2>1, AfterIsOrder DEF Newer
          <6>2. Cardinality(Newer(S, x)) \in Nat /\ Cardinality(Newer(S, x)) + 1 <= Cardinality(S)
            BY <2>1, <6>1, OneLess
          <6> QED
            BY <2>1, <4>1, <6>2
        <5>2. NewestOf(S, k) = S
          BY <5>1 DEF NewestOf, Newer
        <5> QED
          BY <4>1, <5>2
      <4>2. CASE k < Cardinality(S)
        <5>1. old \notin NewestOf(S, k)
          <6>1. Cardinality(Newer(S, old)) = Cardinality(S) - 1
            BY <3>2, <3>3
          <6>2. ~(Cardinality(Newer(S, old)) < k)
            BY <2>1, <4>2, <6>1
          <6> QED
            BY <6>2 DEF NewestOf, Newer
        <5>2. \A x \in R : x \in NewestOf(S, k) <=> x \in NewestOf(R, k)
          BY <3>4 DEF NewestOf, Newer
        <5>3. NewestOf(S, k) = NewestOf(R, k)
          BY <5>1, <5>2 DEF NewestOf
        <5>4. k <= Cardinality(R)
          BY <2>1, <3>2, <4>2
        <5> QED
          BY <3>2, <5>3, <5>4
      <4> QED
        BY <2>1, <3>5, <4>1, <4>2
    <3> QED
      BY <3>5
  <2> QED
    BY <2>2, <2>3
<1> HIDE DEF Good
<1>2. IsFiniteSet(events)
  BY DEF Ordered
<1>3. \A S \in SUBSET events : S \in Good
  BY <1>1, <1>2, SubsetInduction
<1> QED
  BY <1>3 DEF Good

\* No two events of the feed have the same place in it.
LEMMA EventsOrdered ==
  ASSUME NEW D \in Nat, NEW F \in Nat, \A i \in 1..D : decided[i] \in Nat
  PROVE  Ordered(DecisionEvents(D) \cup FillEvents(F))
<1> DEFINE decision(i) == [source |-> "decision", n |-> i, at |-> 2 * decided[i] + 1]
           fill(i) == [source |-> "fill", n |-> i, at |-> 2 * i]
           decisions == [i \in 1..D |-> decision(i)]
           filled == [i \in 1..F |-> fill(i)]
<1>1. IsFiniteSet(1..D) /\ IsFiniteSet(1..F)
  BY FS_Interval
<1>2. decisions \in Surjection(1..D, DecisionEvents(D))
  BY DEF Surjection, DecisionEvents
<1>3. filled \in Surjection(1..F, FillEvents(F))
  BY DEF Surjection, FillEvents
<1>4. IsFiniteSet(DecisionEvents(D)) /\ IsFiniteSet(FillEvents(F))
  BY <1>1, <1>2, <1>3, FS_Surjection
<1>5. IsFiniteSet(DecisionEvents(D) \cup FillEvents(F))
  BY <1>4, FS_Union
<1>6. \A x \in DecisionEvents(D) : x = decision(x.n) /\ x.n \in 1..D
  BY DEF DecisionEvents
<1>7. \A x \in FillEvents(F) : x = fill(x.n) /\ x.n \in 1..F
  BY DEF FillEvents
<1>8. \A x \in DecisionEvents(D) :
        x.n \in Int /\ decided[x.n] \in Nat /\ x.at = 2 * decided[x.n] + 1 /\ x.at \in Int
  BY <1>6
<1>9. \A x \in FillEvents(F) : x.n \in Int /\ x.at = 2 * x.n /\ x.at \in Int
  BY <1>7
<1>10. \A x \in DecisionEvents(D), y \in FillEvents(F) : x.at # y.at
  BY <1>8, <1>9
<1>11. \A x, y \in DecisionEvents(D) : x.n = y.n => x = y
  BY <1>6
<1>12. \A x, y \in FillEvents(F) : x.n = y.n => x = y
  BY <1>7
<1> QED
  BY <1>5, <1>8, <1>9, <1>10, <1>11, <1>12 DEF Ordered

\* Each list is pulled deep enough: what the merge cannot see because its own
\* list was cut is older than a whole feed of newer events of that list.
LEMMA FeedCoversFills ==
  ASSUME NEW D \in Nat, NEW F \in Nat, \A i \in 1..D : decided[i] \in Nat,
         NEW feed, feed = NewestOf(NewestOf(DecisionEvents(D), PullLimit)
                                     \cup NewestOf(FillEvents(F), PullLimit), ActivityLimit),
         NEW n \in 1..F
  PROVE  \/ \E x \in feed : x.source = "fill" /\ x.n = n
         \/ Cardinality(feed) = ActivityLimit /\ \A x \in feed : x.at > 2 * n
<1> DEFINE all == DecisionEvents(D) \cup FillEvents(F)
           pulled == NewestOf(FillEvents(F), PullLimit)
           merged == NewestOf(DecisionEvents(D), PullLimit) \cup pulled
           x == [source |-> "fill", n |-> n, at |-> 2 * n]
<1>1. ActivityLimit \in Nat /\ PullLimit \in Nat /\ ActivityLimit <= PullLimit
  BY CommandCenterAssumption DEF PullLimit
<1>2. feed = NewestOf(merged, ActivityLimit)
  OBVIOUS
<1>3. Ordered(all)
  BY EventsOrdered
<1>4. /\ pulled \subseteq FillEvents(F) /\ merged \subseteq all
      /\ feed \subseteq merged
  BY <1>2 DEF NewestOf
<1>5. Ordered(FillEvents(F)) /\ Ordered(merged) /\ Ordered(pulled)
  BY <1>3, <1>4, SubsetOrdered
<1>6. x \in FillEvents(F) /\ x.n = n /\ x.source = "fill" /\ x.at = 2 * n
  BY DEF FillEvents
<1>7. SUFFICES ASSUME x \notin feed
               PROVE  Cardinality(feed) = ActivityLimit /\ \A y \in feed : After(y, x)
  <2>1. ASSUME x \notin feed, \A y \in feed : After(y, x), NEW y \in feed
        PROVE  y.at > 2 * n
    <3>1. After(y, x) /\ x.at = 2 * n /\ x.n = n /\ y \in all
      BY <1>4, <1>6, <2>1
    <3>2. y.at > 2 * n \/ (y.at = 2 * n /\ y.n > n)
      BY <3>1 DEF After
    <3>3. y \in FillEvents(F) => y.at = 2 * y.n /\ y.n \in Int
      BY DEF FillEvents
    <3>4. y \in DecisionEvents(D) => \E i \in 1..D : y.at = 2 * decided[i] + 1 /\ decided[i] \in Nat
      BY DEF DecisionEvents
    <3> QED
      BY <3>1, <3>2, <3>3, <3>4
  <2> HIDE DEF x
  <2> QED
    BY <1>6, <2>1
<1> HIDE DEF x, all, merged, pulled
<1>8. CASE x \in merged
  <2>1. \A y \in feed : After(y, x)
    BY <1>1, <1>2, <1>5, <1>7, <1>8, NewestAreNewer
  <2>2. ~(Cardinality(Newer(merged, x)) < ActivityLimit)
    BY <1>2, <1>7, <1>8 DEF NewestOf, Newer
  <2>3. Cardinality(Newer(merged, x)) \in Nat
        /\ Cardinality(merged) \in Nat
        /\ Cardinality(Newer(merged, x)) <= Cardinality(merged)
    <3>1. Newer(merged, x) \subseteq merged /\ IsFiniteSet(merged)
      BY <1>5 DEF Newer, Ordered
    <3> QED
      BY <3>1, SubsetSize
  <2>4. ActivityLimit <= Cardinality(merged)
    BY <1>1, <2>2, <2>3
  <2> QED
    BY <1>1, <1>2, <1>5, <2>1, <2>4, NewestFill
<1>9. CASE x \notin merged
  <2>1. x \notin pulled
    BY <1>9 DEF merged
  <2>2. \A y \in pulled : After(y, x)
    BY <1>1, <1>5, <1>6, <2>1, NewestAreNewer DEF pulled
  <2>3. Cardinality(pulled) = PullLimit
    <3>1. ~(Cardinality(Newer(FillEvents(F), x)) < PullLimit)
      BY <1>6, <2>1 DEF pulled, NewestOf, Newer
    <3>2. Newer(FillEvents(F), x) \subseteq FillEvents(F) /\ IsFiniteSet(FillEvents(F))
      BY <1>5 DEF Newer, Ordered
    <3>3. /\ Cardinality(Newer(FillEvents(F), x)) \in Nat /\ Cardinality(FillEvents(F)) \in Nat
          /\ Cardinality(Newer(FillEvents(F), x)) <= Cardinality(FillEvents(F))
      BY <3>2, SubsetSize
    <3>4. PullLimit <= Cardinality(FillEvents(F))
      BY <1>1, <3>1, <3>3
    <3> QED
      BY <1>1, <1>5, <3>4, NewestFill DEF pulled
  <2>4. pulled \subseteq merged /\ IsFiniteSet(merged)
    BY <1>5 DEF merged, Ordered
  <2>5. Cardinality(merged) \in Nat /\ PullLimit <= Cardinality(merged)
    BY <2>3, <2>4, SubsetSize
  <2>6. Cardinality(feed) = ActivityLimit
    BY <1>1, <1>2, <1>5, <2>5, NewestFill
  <2>7. ASSUME NEW y \in feed, ~After(y, x) PROVE FALSE
    <3>1. y \in merged /\ Cardinality(Newer(merged, y)) < ActivityLimit
      BY <1>2 DEF NewestOf, Newer
    <3>2. x \in all /\ y \in all /\ pulled \subseteq all
      BY <1>4, <1>6, <3>1, <2>4 DEF all
    <3>3. x # y
      BY <1>9, <3>1
    <3>4. After(x, y)
      BY <1>3, <2>7, <3>2, <3>3, AfterIsOrder
    <3>5. pulled \subseteq Newer(merged, y)
      BY <1>3, <2>2, <2>4, <3>2, <3>4, AfterIsOrder DEF Newer
    <3>6. IsFiniteSet(Newer(merged, y))
      BY <2>4, FS_Subset DEF Newer
    <3>7. Cardinality(Newer(merged, y)) \in Nat /\ PullLimit <= Cardinality(Newer(merged, y))
      BY <2>3, <3>5, <3>6, SubsetSize
    <3> QED
      BY <1>1, <3>1, <3>7
  <2> QED
    BY <2>6, <2>7
<1> QED
  BY <1>8, <1>9

-----------------------------------------------------------------------------
(* A request, its sections and what is known of them. *)

Covered(feed, n) ==
  \/ \E x \in feed : x.source = "fill" /\ x.n = n
  \/ Cardinality(feed) = ActivityLimit /\ \A x \in feed : x.at > 2 * n

MoneyCovered(got) ==
  \A section \in {"risk", "portfolio"} : \A n \in 1..got[section].to : Covered(got["feed"], n)

CardsCovered(got, f) ==
  \A a \in Assets : got["cards"][a] # got["portfolio"].positions[a] =>
    \E n \in DOMAIN f : /\ n > got["portfolio"].from
                        /\ f[n].asset = a
                        /\ Covered(got["feed"], n)

Pages == {"closed", "risk", "portfolio", "positions", "decisions", "feed", "answered"}

RiskShown(at, got, f) ==
  at \in {"portfolio", "positions", "decisions", "feed", "answered"} =>
    got["risk"].to \in 0..Len(f)

PortfolioShown(at, got, b, f) ==
  /\ at \in {"positions", "decisions", "feed", "answered"} =>
       got["portfolio"].to \in 0..Len(f) /\ got["portfolio"].from \in Nat
  /\ at = "positions" =>
       /\ got["portfolio"].from <= Len(f)
       /\ RowsRead(got["portfolio"].positions, got["portfolio"].from, b, f)

CardsShown(at, got, f) ==
  at \in {"decisions", "feed", "answered"} =>
    \A a \in Assets : got["cards"][a] # got["portfolio"].positions[a] =>
                        TradedIn(f, a, got["portfolio"].from)

FeedShown(at, got, n, f) ==
  /\ at = "feed" => got["decisions"] \in 0..n
  /\ at = "answered" => MoneyCovered(got) /\ CardsCovered(got, f)

\* A request at page `at` with the sections `got`, after n evaluations.
PageOK(at, got, n, b, f) ==
  /\ at \in Pages
  /\ got = [section \in Sections |-> got[section]]
  /\ RiskShown(at, got, f)
  /\ PortfolioShown(at, got, b, f)
  /\ CardsShown(at, got, f)
  /\ FeedShown(at, got, n, f)

PagesInv ==
  /\ decided \in Seq(Nat)
  /\ page = [r \in Readers |-> page[r]]
  /\ answer = [r \in Readers |-> answer[r]]
  /\ \A r \in Readers : PageOK(page[r], answer[r], Len(decided), book, fills)

CommandCenterInv == PortfolioInv /\ PagesInv

\* A commit leaves a request as good as it was.
LEMMA PageKept ==
  ASSUME NEW b, NEW c, NEW f \in Seq(FillRows), NEW b2, NEW c2, NEW f2,
         Grown(b, c, f, b2, c2, f2), NEW n \in Nat, NEW n2 \in Nat, n <= n2,
         NEW at, NEW got, PageOK(at, got, n, b, f)
  PROVE  PageOK(at, got, n2, b2, f2)
<1>0. Kept(b, c, f, b2, c2, f2)
  BY GrownKeeps
<1>1. f2 \in Seq(FillRows)
  BY <1>0 DEF Kept
<1>2. /\ Len(f) \in Nat /\ Len(f2) \in Nat /\ Len(f) <= Len(f2)
      /\ \A a \in Assets, from \in Nat : TradedIn(f, a, from) => TradedIn(f2, a, from)
  BY <1>0 DEF Kept
<1>3. DOMAIN f = 1..Len(f) /\ DOMAIN f2 = 1..Len(f2)
  BY <1>1, RowsKnown
<1>4. \A m \in DOMAIN f : m \in DOMAIN f2 /\ f2[m] = f[m]
  <2>1. TAKE m \in DOMAIN f
  <2>2. CASE f2 = f
    BY <2>2
  <2>3. CASE \E row \in FillRows : f2 = Append(f, row)
    BY <1>2, <1>3, <2>1, <2>3, AppendKeeps
  <2> QED
    BY <2>2, <2>3 DEF Grown
<1>5. /\ at \in Pages /\ got = [section \in Sections |-> got[section]]
      /\ RiskShown(at, got, f) /\ PortfolioShown(at, got, b, f) /\ CardsShown(at, got, f)
      /\ FeedShown(at, got, n, f)
  BY DEF PageOK
<1>6. RiskShown(at, got, f2)
  BY <1>2, <1>5 DEF RiskShown
<1>7. PortfolioShown(at, got, b2, f2)
  <2>1. at = "positions" => RowsRead(got["portfolio"].positions, got["portfolio"].from, b2, f2)
    <3>1. SUFFICES ASSUME at = "positions"
          PROVE  RowsRead(got["portfolio"].positions, got["portfolio"].from, b2, f2)
      OBVIOUS
    <3>2. /\ got["portfolio"].from \in 0..Len(f)
          /\ RowsRead(got["portfolio"].positions, got["portfolio"].from, b, f)
      BY <1>2, <1>5, <3>1 DEF PortfolioShown
    <3> QED
      BY <3>2, RowsKept
  <2> QED
    BY <1>2, <1>5, <2>1 DEF PortfolioShown
<1>8. CardsShown(at, got, f2)
  <2>1. at \in {"decisions", "feed", "answered"} => got["portfolio"].from \in Nat
    BY <1>5 DEF PortfolioShown
  <2> QED
    BY <1>2, <1>5, <2>1 DEF CardsShown
<1>9. FeedShown(at, got, n2, f2)
  <2>1. CardsCovered(got, f) => CardsCovered(got, f2)
    BY <1>4 DEF CardsCovered
  <2> QED
    BY <1>5, <2>1 DEF FeedShown
<1> QED
  BY <1>5, <1>6, <1>7, <1>8, <1>9 DEF PageOK

\* One request moves, the others stay.
LEMMA PageMoves ==
  ASSUME PagesInv, NEW r \in Readers, NEW at, NEW got,
         PageOK(at, got, Len(decided), book, fills),
         page' = [page EXCEPT ![r] = at], answer' = [answer EXCEPT ![r] = got],
         UNCHANGED <<decided, book, fills>>
  PROVE  PagesInv'
<1>1. page' = [q \in Readers |-> page'[q]] /\ answer' = [q \in Readers |-> answer'[q]]
  BY DEF PagesInv
<1>2. \A q \in Readers : /\ page'[q] = IF q = r THEN at ELSE page[q]
                         /\ answer'[q] = IF q = r THEN got ELSE answer[q]
  BY DEF PagesInv
<1>3. \A q \in Readers : PageOK(page'[q], answer'[q], Len(decided'), book', fills')
  BY <1>2 DEF PagesInv
<1> QED
  BY <1>1, <1>3 DEF PagesInv

\* No request moves.
LEMMA PagesUnmoved ==
  ASSUME PagesInv, UNCHANGED <<decided, page, answer, book, fills>>
  PROVE  PagesInv'
BY DEF PagesInv

\* What the lemmas about a request need to know of it.
LEMMA PageKnown ==
  ASSUME PagesInv, NEW r \in Readers
  PROVE  /\ PageOK(page[r], answer[r], Len(decided), book, fills)
         /\ page = [q \in Readers |-> page[q]] /\ answer = [q \in Readers |-> answer[q]]
         /\ answer[r] = [section \in Sections |-> answer[r][section]]
         /\ Len(decided) \in Nat
BY LenProperties DEF PagesInv, PageOK

\* A section is put into the answer, the others stay.
LEMMA SectionPut ==
  ASSUME PagesInv, NEW r \in Readers, NEW section \in Sections, NEW content, NEW next,
         Put(r, section, content, next)
  PROVE  \E got : /\ page' = [page EXCEPT ![r] = next]
                  /\ answer' = [answer EXCEPT ![r] = got]
                  /\ got = [x \in Sections |-> got[x]]
                  /\ got[section] = content
                  /\ \A x \in Sections \ {section} : got[x] = answer[r][x]
<1> DEFINE old == answer[r]
           got == [old EXCEPT ![section] = content]
<1>1. page' = [page EXCEPT ![r] = next] /\ answer' = [answer EXCEPT ![r] = got]
  BY PageKnown DEF Put
<1>2. old = [x \in Sections |-> old[x]]
  BY PageKnown
<1> HIDE DEF old
<1>3. /\ got = [x \in Sections |-> got[x]] /\ got[section] = content
      /\ \A x \in Sections \ {section} : got[x] = old[x]
  BY <1>2
<1> HIDE DEF got
<1>4. \A x \in Sections \ {section} : got[x] = answer[r][x]
  BY <1>3 DEF old
<1> QED
  BY <1>1, <1>3, <1>4

\* The steps of a request, one by one.
LEMMA OpenKeeps ==
  ASSUME CommandCenterInv, NEW r \in Readers, Open(r)
  PROVE  CommandCenterInv'
<1>1. PortfolioInv /\ PagesInv
  BY DEF CommandCenterInv
<1>2. UNCHANGED <<approval, settled, book, cash, quote, peak, fills, midnights, session, report,
                  decided>>
  BY DEF Open, vars, ledgerVars
<1>3. PortfolioInv'
  <2>1. UNCHANGED <<marketVars, peak>>
    BY <1>2 DEF marketVars, ledgerVars
  <2> QED
    BY <1>1, <1>2, <2>1, ResetKeeps
<1>4. PageOK("risk", Blank, Len(decided), book, fills)
  <2>1. Blank = [section \in Sections |-> Blank[section]]
    BY DEF Blank
  <2> QED
    BY <2>1 DEF PageOK, Pages, RiskShown, PortfolioShown, CardsShown, FeedShown
<1>5. page' = [page EXCEPT ![r] = "risk"] /\ answer' = [answer EXCEPT ![r] = Blank]
  BY DEF Open
<1>6. PagesInv'
  BY <1>1, <1>2, <1>4, <1>5, PageMoves
<1> QED
  BY <1>3, <1>6 DEF CommandCenterInv

\* A request fails.
LEMMA GiveUpKeeps ==
  ASSUME CommandCenterInv, NEW r \in Readers, GiveUp(r)
  PROVE  CommandCenterInv'
<1>1. PortfolioInv /\ PagesInv
  BY DEF CommandCenterInv
<1>2. /\ UNCHANGED <<marketVars, peak, decided>>
      /\ session' = [session EXCEPT ![r] = NewSession] /\ report' = [report EXCEPT ![r] = None]
      /\ page' = [page EXCEPT ![r] = "closed"] /\ answer' = [answer EXCEPT ![r] = Blank]
  BY DEF GiveUp
<1>3. PortfolioInv'
  BY <1>1, <1>2, ResetKeeps
<1>4. PageOK("closed", Blank, Len(decided), book, fills)
  <2>1. Blank = [section \in Sections |-> Blank[section]]
    BY DEF Blank
  <2> QED
    BY <2>1 DEF PageOK, Pages, RiskShown, PortfolioShown, CardsShown, FeedShown
<1>5. PagesInv'
  <2>1. UNCHANGED <<book, fills>>
    BY <1>2 DEF marketVars, ledgerVars
  <2> QED
    BY <1>1, <1>2, <1>4, <2>1, PageMoves
<1> QED
  BY <1>3, <1>5 DEF CommandCenterInv

\* The computation for the risk section.
LEMMA ComputeRiskKeeps ==
  ASSUME CommandCenterInv, NEW r \in Readers, Compute(r, "risk", "portfolio")
  PROVE  CommandCenterInv'
<1>1. PortfolioInv /\ PagesInv /\ ComputeStep(r) /\ UNCHANGED decided
  BY DEF CommandCenterInv, Compute
<1>2. PortfolioInv' /\ UNCHANGED <<book, fills>>
  BY <1>1, ComputeKeeps DEF marketVars, ledgerVars
<1>3. CASE report'[r] = None
  <2>1. UNCHANGED <<page, answer>>
    BY <1>3 DEF Compute, pageVars
  <2> QED
    BY <1>1, <1>2, <2>1, PagesUnmoved DEF CommandCenterInv
<1>4. CASE report'[r] # None
  <2> DEFINE shown == Shown(report'[r])
  <2>1. Put(r, "risk", shown, "portfolio")
    BY <1>4 DEF Compute
  <2>2. PICK got : /\ page' = [page EXCEPT ![r] = "portfolio"]
                   /\ answer' = [answer EXCEPT ![r] = got]
                   /\ got = [x \in Sections |-> got[x]]
                   /\ got["risk"] = shown
    BY <1>1, <2>1, SectionPut DEF Sections
  <2>3. shown.to \in 0..Len(fills)
    <3>1. ReportOK(report'[r], book', fills')
      BY <1>2, <1>4 DEF PortfolioInv, ReportsInv
    <3>2. report'[r].to \in Nat /\ report'[r].to <= Len(fills) /\ Len(fills) \in Nat
      BY <1>1, <1>2, <3>1, InvKnown, RowsKnown DEF ReportOK
    <3> QED
      BY <3>2 DEF Shown
  <2> HIDE DEF shown
  <2>5. PageOK("portfolio", got, Len(decided), book, fills)
    BY <2>2, <2>3 DEF PageOK, Pages, RiskShown, PortfolioShown, CardsShown, FeedShown
  <2>6. PagesInv'
    BY <1>1, <1>2, <2>2, <2>5, PageMoves
  <2> QED
    BY <1>2, <2>6 DEF CommandCenterInv
<1> QED
  BY <1>3, <1>4

\* The computation for the portfolio section.
LEMMA ComputePortfolioKeeps ==
  ASSUME CommandCenterInv, NEW r \in Readers, Compute(r, "portfolio", "positions")
  PROVE  CommandCenterInv'
<1>1. /\ PortfolioInv /\ PagesInv /\ ComputeStep(r) /\ UNCHANGED decided
      /\ page[r] = "portfolio"
  BY DEF CommandCenterInv, Compute
<1>2. PortfolioInv' /\ UNCHANGED <<book, fills>>
  BY <1>1, ComputeKeeps DEF marketVars, ledgerVars
<1>3. CASE report'[r] = None
  <2>1. UNCHANGED <<page, answer>>
    BY <1>3 DEF Compute, pageVars
  <2> QED
    BY <1>1, <1>2, <2>1, PagesUnmoved DEF CommandCenterInv
<1>4. CASE report'[r] # None
  <2> DEFINE shown == Shown(report'[r])
  <2>1. Put(r, "portfolio", shown, "positions")
    BY <1>4 DEF Compute
  <2>2. PICK got : /\ page' = [page EXCEPT ![r] = "positions"]
                   /\ answer' = [answer EXCEPT ![r] = got]
                   /\ got = [x \in Sections |-> got[x]]
                   /\ got["portfolio"] = shown
                   /\ got["risk"] = answer[r]["risk"]
    BY <1>1, <2>1, SectionPut DEF Sections
  <2>3. /\ shown.to \in 0..Len(fills) /\ shown.from \in Nat /\ shown.from <= Len(fills)
        /\ RowsRead(shown.positions, shown.from, book, fills)
    <3>1. ReportOK(report'[r], book', fills')
      BY <1>2, <1>4 DEF PortfolioInv, ReportsInv
    <3>2. Len(fills) \in Nat
      BY <1>1, InvKnown, RowsKnown
    <3>3. ReportOK(report'[r], book, fills)
      BY <1>2, <3>1
    <3> DEFINE p == report'[r]
    <3>4. shown.to = p.to /\ shown.from = p.from /\ shown.positions = p.positions
      BY DEF Shown
    <3> HIDE DEF p, shown
    <3>5. ReportOK(p, book, fills)
      BY <3>3 DEF p
    <3> QED
      BY <3>2, <3>4, <3>5 DEF ReportOK
  <2> HIDE DEF shown
  <2>5. answer[r]["risk"].to \in 0..Len(fills)
    BY <1>1, PageKnown DEF PageOK, RiskShown
  <2>6. RiskShown("positions", got, fills) /\ PortfolioShown("positions", got, book, fills)
    BY <2>2, <2>3, <2>5 DEF RiskShown, PortfolioShown
  <2>7. PageOK("positions", got, Len(decided), book, fills)
    BY <2>2, <2>6 DEF PageOK, Pages, CardsShown, FeedShown
  <2>8. PagesInv'
    BY <1>1, <1>2, <2>2, <2>7, PageMoves
  <2> QED
    BY <1>2, <2>8 DEF CommandCenterInv
<1> QED
  BY <1>3, <1>4

\* The position cards.
LEMMA ListPositionsKeeps ==
  ASSUME CommandCenterInv, NEW r \in Readers, ListPositions(r)
  PROVE  CommandCenterInv'
<1> DEFINE cards == [a \in Assets |-> Card(r, a)]
<1>1. /\ PortfolioInv /\ PagesInv /\ page[r] = "positions"
      /\ report' = [report EXCEPT ![r] = None] /\ UNCHANGED <<marketVars, peak, session, decided>>
      /\ Put(r, "cards", cards, "decisions")
  BY DEF CommandCenterInv, ListPositions
<1>2. PortfolioInv' /\ UNCHANGED <<book, fills>>
  BY <1>1, ResetKeeps DEF marketVars, ledgerVars
<1>3. PICK got : /\ page' = [page EXCEPT ![r] = "decisions"]
                 /\ answer' = [answer EXCEPT ![r] = got]
                 /\ got = [x \in Sections |-> got[x]]
                 /\ got["cards"] = cards
                 /\ got["risk"] = answer[r]["risk"]
                 /\ got["portfolio"] = answer[r]["portfolio"]
  BY <1>1, SectionPut DEF Sections
<1>4. /\ RiskShown("positions", answer[r], fills)
      /\ PortfolioShown("positions", answer[r], book, fills)
  BY <1>1, PageKnown DEF PageOK
<1>5. ASSUME NEW a \in Assets, cards[a] # answer[r]["portfolio"].positions[a]
      PROVE  TradedIn(fills, a, answer[r]["portfolio"].from)
  <2> DEFINE held == answer[r]["portfolio"].positions[a]
  <2>1. Card(r, a) = held \/ Card(r, a) = OpenRow(a)
    BY DEF Card
  <2>2. OpenRow(a) = RowOf(book, fills, a)
    BY DEF OpenRow, RowOf
  <2>3. held = RowOf(book, fills, a) \/ TradedIn(fills, a, answer[r]["portfolio"].from)
    BY <1>4 DEF PortfolioShown, RowsRead
  <2>4. cards[a] = Card(r, a)
    OBVIOUS
  <2> HIDE DEF cards, held
  <2>5. cards[a] # held
    BY <1>5 DEF held
  <2> QED
    BY <2>1, <2>2, <2>3, <2>4, <2>5
<1> HIDE DEF cards
<1>7. RiskShown("decisions", got, fills) /\ PortfolioShown("decisions", got, book, fills)
  BY <1>4, <1>3 DEF RiskShown, PortfolioShown
<1>8. CardsShown("decisions", got, fills)
  BY <1>5, <1>3 DEF CardsShown
<1>9. PageOK("decisions", got, Len(decided), book, fills)
  BY <1>3, <1>7, <1>8 DEF PageOK, Pages, FeedShown
<1>10. PagesInv'
  BY <1>1, <1>2, <1>3, <1>9, PageMoves
<1> QED
  BY <1>2, <1>10 DEF CommandCenterInv

\* The evaluations of the feed.
LEMMA ListEvaluationsKeeps ==
  ASSUME CommandCenterInv, NEW r \in Readers, ListEvaluations(r)
  PROVE  CommandCenterInv'
<1>1. /\ PortfolioInv /\ PagesInv /\ page[r] = "decisions" /\ UNCHANGED <<vars, decided>>
      /\ Put(r, "decisions", Len(decided), "feed")
  BY DEF CommandCenterInv, ListEvaluations
<1>2. UNCHANGED <<marketVars, peak, session, report, book, fills>>
  BY <1>1 DEF vars, marketVars, ledgerVars
<1>3. PortfolioInv'
  BY <1>1, <1>2, ResetKeeps
<1>4. PICK got : /\ page' = [page EXCEPT ![r] = "feed"]
                 /\ answer' = [answer EXCEPT ![r] = got]
                 /\ got = [x \in Sections |-> got[x]]
                 /\ got["decisions"] = Len(decided)
                 /\ got["risk"] = answer[r]["risk"]
                 /\ got["portfolio"] = answer[r]["portfolio"]
                 /\ got["cards"] = answer[r]["cards"]
  BY <1>1, SectionPut DEF Sections
<1>5. /\ RiskShown("decisions", answer[r], fills) /\ CardsShown("decisions", answer[r], fills)
      /\ PortfolioShown("decisions", answer[r], book, fills) /\ Len(decided) \in Nat
  BY <1>1, PageKnown DEF PageOK
<1>7. RiskShown("feed", got, fills) /\ PortfolioShown("feed", got, book, fills)
  BY <1>5, <1>4 DEF RiskShown, PortfolioShown
<1>8. CardsShown("feed", got, fills)
  BY <1>5, <1>4 DEF CardsShown
<1>9. FeedShown("feed", got, Len(decided), fills)
  BY <1>5, <1>4 DEF FeedShown
<1>10. PageOK("feed", got, Len(decided), book, fills)
  BY <1>4, <1>7, <1>8, <1>9 DEF PageOK, Pages
<1>11. PagesInv'
  BY <1>1, <1>2, <1>4, <1>10, PageMoves
<1> QED
  BY <1>3, <1>11 DEF CommandCenterInv

\* The fills of the feed, and the answer.
LEMMA ListFillsKeeps ==
  ASSUME CommandCenterInv, NEW r \in Readers, ListFills(r)
  PROVE  CommandCenterInv'
<1> DEFINE feed == Feed(r)
<1>1. /\ PortfolioInv /\ PagesInv /\ page[r] = "feed" /\ UNCHANGED <<vars, decided>>
      /\ Put(r, "feed", feed, "answered")
  BY DEF CommandCenterInv, ListFills
<1>2. UNCHANGED <<marketVars, peak, session, report, book, fills>>
  BY <1>1 DEF vars, marketVars, ledgerVars
<1>3. PortfolioInv'
  BY <1>1, <1>2, ResetKeeps
<1>4. PICK got : /\ page' = [page EXCEPT ![r] = "answered"]
                 /\ answer' = [answer EXCEPT ![r] = got]
                 /\ got = [x \in Sections |-> got[x]]
                 /\ got["feed"] = feed
                 /\ got["risk"] = answer[r]["risk"]
                 /\ got["portfolio"] = answer[r]["portfolio"]
                 /\ got["cards"] = answer[r]["cards"]
  BY <1>1, SectionPut DEF Sections
<1>5. /\ RiskShown("feed", answer[r], fills) /\ CardsShown("feed", answer[r], fills)
      /\ PortfolioShown("feed", answer[r], book, fills)
      /\ FeedShown("feed", answer[r], Len(decided), fills)
  BY <1>1, PageKnown DEF PageOK
<1>6. fills \in Seq(FillRows) /\ Len(fills) \in Nat /\ DOMAIN fills = 1..Len(fills)
  BY <1>1, InvKnown, RowsKnown
<1>7. ASSUME NEW n \in 1..Len(fills) PROVE Covered(feed, n)
  <2> DEFINE D == answer[r]["decisions"]
  <2>1. D \in 0..Len(decided) /\ Len(decided) \in Nat
    BY <1>1, <1>5, PageKnown DEF FeedShown
  <2>2. \A i \in 1..D : decided[i] \in Nat
    <3>1. \A i \in 1..Len(decided) : decided[i] \in Nat
      BY <1>1, ElementOfSeq DEF PagesInv
    <3> HIDE DEF D
    <3> QED
      BY <2>1, <3>1
  <2>3. feed = NewestOf(NewestOf(DecisionEvents(D), PullLimit)
                          \cup NewestOf(FillEvents(Len(fills)), PullLimit), ActivityLimit)
    BY DEF Feed, FillsNow
  <2>4. D \in Nat
    BY <2>1
  <2> HIDE DEF D, feed
  <2> QED
    BY <1>6, <2>2, <2>3, <2>4, FeedCoversFills DEF Covered
<1> HIDE DEF feed
<1>9. RiskShown("answered", got, fills) /\ PortfolioShown("answered", got, book, fills)
  BY <1>5, <1>4 DEF RiskShown, PortfolioShown
<1>10. CardsShown("answered", got, fills)
  BY <1>5, <1>4 DEF CardsShown
<1>11. MoneyCovered(got)
  <2>1. ASSUME NEW section \in {"risk", "portfolio"}, NEW n \in 1..got[section].to
        PROVE  Covered(feed, n)
    <3>1. got[section].to \in 0..Len(fills)
      BY <1>9 DEF RiskShown, PortfolioShown
    <3>2. n \in 1..Len(fills)
      BY <1>6, <2>1, <3>1
    <3> QED
      BY <1>7, <3>2
  <2> QED
    BY <1>4, <2>1 DEF MoneyCovered
<1>12. CardsCovered(got, fills)
  <2>1. ASSUME NEW a \in Assets, got["cards"][a] # got["portfolio"].positions[a]
        PROVE  \E n \in DOMAIN fills : /\ n > got["portfolio"].from
                                       /\ fills[n].asset = a
                                       /\ Covered(got["feed"], n)
    <3>1. TradedIn(fills, a, got["portfolio"].from) /\ got["portfolio"].from \in Nat
      BY <1>9, <1>10, <2>1 DEF CardsShown, PortfolioShown
    <3>2. PICK n \in (got["portfolio"].from + 1)..Len(fills) : fills[n].asset = a
      BY <3>1 DEF TradedIn
    <3>3. n \in DOMAIN fills /\ n \in 1..Len(fills) /\ n > got["portfolio"].from
      BY <1>6, <3>1, <3>2
    <3> QED
      BY <1>7, <1>4, <3>2, <3>3
  <2> QED
    BY <2>1 DEF CardsCovered
<1>13. PageOK("answered", got, Len(decided), book, fills)
  BY <1>4, <1>9, <1>10, <1>11, <1>12 DEF PageOK, Pages, FeedShown
<1>14. PagesInv'
  BY <1>1, <1>2, <1>4, <1>13, PageMoves
<1> QED
  BY <1>3, <1>14 DEF CommandCenterInv

\* Requests under way while a trade commits, a bar comes or a day ends.
LEMMA MeanwhileKeeps ==
  ASSUME CommandCenterInv, Meanwhile
  PROVE  CommandCenterInv'
<1>1. /\ PortfolioInv /\ PagesInv /\ Surroundings /\ UNCHANGED <<page, answer>>
      /\ decided' = IF approval' # approval THEN Append(decided, Len(fills)) ELSE decided
  BY DEF CommandCenterInv, Meanwhile, pageVars
<1>2. PortfolioInv' /\ Grown(book, cash, fills, book', cash', fills')
  BY <1>1, SurroundingsKeep
<1>3. fills \in Seq(FillRows) /\ Len(fills) \in Nat
  BY <1>1, InvKnown, RowsKnown
<1>4. decided \in Seq(Nat) /\ Len(decided) \in Nat
  BY <1>1, LenProperties DEF PagesInv
<1>5. decided' \in Seq(Nat) /\ Len(decided') \in Nat /\ Len(decided) <= Len(decided')
  <2>1. CASE decided' = Append(decided, Len(fills))
    <3>1. decided' \in Seq(Nat) /\ Len(decided') = Len(decided) + 1
      BY <1>3, <1>4, <2>1, AppendKeeps
    <3> QED
      BY <1>4, <3>1
  <2>2. CASE decided' = decided
    BY <1>4, <2>2
  <2> QED
    BY <1>1, <2>1, <2>2
<1>6. ASSUME NEW r \in Readers PROVE PageOK(page[r], answer[r], Len(decided'), book', fills')
  <2>1. PageOK(page[r], answer[r], Len(decided), book, fills)
    BY <1>1, PageKnown
  <2> QED
    BY <1>2, <1>3, <1>4, <1>5, <2>1, PageKept
<1>7. PagesInv'
  BY <1>1, <1>5, <1>6 DEF PagesInv
<1> QED
  BY <1>2, <1>7 DEF CommandCenterInv

-----------------------------------------------------------------------------
(* Theorems *)

\* The properties are consequences of the invariant.
LEMMA TypesFollow ==
  ASSUME PortfolioInv PROVE PortfolioTypeOK
<1>1. /\ cash \in Nat /\ quote \in [Assets -> Prices] /\ peak \in Nat
      /\ midnights \in Seq(0..Len(fills)) /\ Len(fills) \in Nat
  BY InvKnown, RowsKnown DEF PortfolioInv, AccountInv, AccountTypes
<1>2. ASSUME NEW r \in Readers
      PROVE  /\ session[r].step \in {"idle", "positions", "quotes", "total", "daily", "loss"}
             /\ session[r].todo \in SUBSET Assets
             /\ {session[r].cash, session[r].peak, session[r].value} \subseteq Nat
             /\ session[r].from \in 0..Len(fills)
  <2>1. session[r] \in Sessions /\ CashRead(session[r], cash, fills)
    BY ReaderKnown DEF SessionOK
  <2> QED
    BY <1>1, <2>1 DEF Sessions, CashRead
<1> QED
  BY <1>1, <1>2 DEF PortfolioTypeOK

\* Losses no older than the cash.
LEMMA LossesFollow ==
  ASSUME PortfolioInv PROVE LossesAreCounted
<1>1. ASSUME NEW r \in Readers, report[r] # None
      PROVE  \E i, j \in report[r].from..report[r].to :
               /\ i <= j
               /\ report[r].realized = RealizedTotal(Prefix(i))
               /\ report[r].daily = RealizedSince(Prefix(j), report[r].since)
               /\ report[r].lastLoss >= LastLoss(Prefix(j))
  BY <1>1, InvKnown DEF ReportOK, Counts, Prefix
<1> QED
  BY <1>1 DEF LossesAreCounted

\* Reports that reconcile.
LEMMA ReconcilesFollow ==
  ASSUME PortfolioInv PROVE ReportReconciles
<1>1. ASSUME NEW r \in Readers, report[r] # None, report[r].from = report[r].to
      PROVE  OffBy(report[r].equity, report[r].realized, report[r].unrealized,
                   BuyFees(report[r].to)) <= RoundingOf(report[r].to)
  <2> DEFINE p == report[r]
  <2>1. ReportOK(p, book, fills)
    BY <1>1, InvKnown
  <2>2. Reconciles(p, fills)
    BY <2>1 DEF ReportOK
  <2>3. OffBy(p.equity, p.realized, p.unrealized, FeesIn(fills, p.to)) <= Slack(fills, p.to)
    BY <1>1, <2>2 DEF Reconciles
  <2> QED
    BY <2>3, SameSums
<1> QED
  BY <1>1 DEF ReportReconciles, OffBy

\* The feed explains the money and the cards.
LEMMA FeedFollows ==
  ASSUME CommandCenterInv PROVE FeedExplainsTheMoney /\ FeedExplainsTheCards
<1>1. ASSUME NEW r \in Answered
      PROVE  r \in Readers /\ MoneyCovered(answer[r]) /\ CardsCovered(answer[r], fills)
  BY <1>1, PageKnown DEF CommandCenterInv, Answered, PageOK, FeedShown
<1>2. \A r, n : Explained(r, n) <=> Covered(answer[r]["feed"], n)
  BY DEF Explained, Covered
<1>3. FeedExplainsTheMoney
  <2>1. ASSUME NEW r \in Answered, NEW section \in {"risk", "portfolio"},
               NEW n \in 1..answer[r][section].to
        PROVE  Explained(r, n)
    <3>1. Covered(answer[r]["feed"], n)
      BY <1>1 DEF MoneyCovered
    <3> QED
      BY <1>2, <3>1
  <2> QED
    BY <2>1 DEF FeedExplainsTheMoney
<1>4. FeedExplainsTheCards
  <2>1. ASSUME NEW r \in Answered, NEW a \in Assets,
               answer[r]["cards"][a] # answer[r]["portfolio"].positions[a]
        PROVE  \E n \in DOMAIN fills : /\ n > answer[r]["portfolio"].from
                                       /\ fills[n].asset = a
                                       /\ Explained(r, n)
    BY <1>1, <1>2, <2>1 DEF CardsCovered
  <2> QED
    BY <2>1 DEF FeedExplainsTheCards
<1> QED
  BY <1>3, <1>4

\* Stuttering.
LEMMA NothingMoved ==
  ASSUME PortfolioInv, UNCHANGED vars PROVE PortfolioInv'
<1>1. /\ UNCHANGED <<ledgerVars, book, cash, quote, peak, fills, midnights, session, report>>
      /\ AccountInv /\ SessionsInv /\ ReportsInv
  BY DEF vars, ledgerVars, PortfolioInv
<1>2. AccountInv'
  BY <1>1, AccountKept DEF AccountInv, AccountTypes
<1>3. SessionsInv' /\ ReportsInv'
  BY <1>1 DEF SessionsInv, ReportsInv
<1> QED
  BY <1>2, <1>3 DEF PortfolioInv

\* Every step of the portfolio alone keeps its invariant.
LEMMA PortfolioStep ==
  ASSUME PortfolioInv, PortfolioNext PROVE PortfolioInv'
<1>1. ASSUME NEW r \in Readers, ComputeStep(r) PROVE PortfolioInv'
  BY <1>1, ComputeKeeps
<1>2. ASSUME NEW r \in Readers, Abandon(r) PROVE PortfolioInv'
  BY <1>2, ResetKeeps DEF Abandon
<1>3. CASE Surroundings
  BY <1>3, SurroundingsKeep
<1> QED
  BY <1>1, <1>2, <1>3 DEF PortfolioNext

\* The invariant of the requests holds at the start.
LEMMA CommandCenterStarts ==
  ASSUME CommandCenterInit PROVE CommandCenterInv
<1>1. PortfolioInv
  BY PortfolioStarts DEF CommandCenterInit
<1>2. PageOK("closed", Blank, 0, book, fills)
  <2>1. Blank = [section \in Sections |-> Blank[section]]
    BY DEF Blank
  <2> QED
    BY <2>1 DEF PageOK, Pages, RiskShown, PortfolioShown, CardsShown, FeedShown
<1>3. /\ decided = <<>> /\ page = [r \in Readers |-> "closed"]
      /\ answer = [r \in Readers |-> Blank]
  BY DEF CommandCenterInit
<1>4. decided \in Seq(Nat) /\ Len(decided) = 0
  BY <1>3, EmptySeq
<1>5. PagesInv
  BY <1>2, <1>3, <1>4 DEF PagesInv
<1> QED
  BY <1>1, <1>5 DEF CommandCenterInv

\* Every step of the command center keeps it.
LEMMA CommandCenterStep ==
  ASSUME CommandCenterInv, CommandCenterNext PROVE CommandCenterInv'
<1>1. ASSUME NEW r \in Readers, Open(r) PROVE CommandCenterInv'
  BY <1>1, OpenKeeps
<1>2. ASSUME NEW r \in Readers, Compute(r, "risk", "portfolio") PROVE CommandCenterInv'
  BY <1>2, ComputeRiskKeeps
<1>3. ASSUME NEW r \in Readers, Compute(r, "portfolio", "positions") PROVE CommandCenterInv'
  BY <1>3, ComputePortfolioKeeps
<1>4. ASSUME NEW r \in Readers, ListPositions(r) PROVE CommandCenterInv'
  BY <1>4, ListPositionsKeeps
<1>5. ASSUME NEW r \in Readers, ListEvaluations(r) PROVE CommandCenterInv'
  BY <1>5, ListEvaluationsKeeps
<1>6. ASSUME NEW r \in Readers, ListFills(r) PROVE CommandCenterInv'
  BY <1>6, ListFillsKeeps
<1>7. ASSUME NEW r \in Readers, GiveUp(r) PROVE CommandCenterInv'
  BY <1>7, GiveUpKeeps
<1>8. CASE Meanwhile
  BY <1>8, MeanwhileKeeps
<1> QED
  BY <1>1, <1>2, <1>3, <1>4, <1>5, <1>6, <1>7, <1>8 DEF CommandCenterNext

\* The account's columns stay within the rounding of its fills of the ledger,
\* every computation under way and every report is true to the fills it has
\* seen, whatever trades, bars and midnights come between its reads.
THEOREM PortfolioInvHolds == PortfolioSpec => []PortfolioInv
<1>1. PortfolioInit => PortfolioInv
  BY PortfolioStarts
<1>2. PortfolioInv /\ [PortfolioNext]_vars => PortfolioInv'
  <2> SUFFICES ASSUME PortfolioInv, [PortfolioNext]_vars PROVE PortfolioInv'
    OBVIOUS
  <2>1. CASE PortfolioNext
    BY <2>1, PortfolioStep
  <2>2. CASE UNCHANGED vars
    BY <2>2, NothingMoved
  <2> QED
    BY <2>1, <2>2
<1> QED
  BY <1>1, <1>2, PTL DEF PortfolioSpec

\* The same while the computations are two of the reads of one request, and
\* every section of an answer is true to the fills it was made from.
THEOREM CommandCenterInvHolds == CommandCenterSpec => []CommandCenterInv
<1>1. CommandCenterInit => CommandCenterInv
  BY CommandCenterStarts
<1>2. CommandCenterInv /\ [CommandCenterNext]_allVars => CommandCenterInv'
  <2> SUFFICES ASSUME CommandCenterInv, [CommandCenterNext]_allVars PROVE CommandCenterInv'
    OBVIOUS
  <2>1. CASE CommandCenterNext
    BY <2>1, CommandCenterStep
  <2>2. CASE UNCHANGED allVars
    <3>1. UNCHANGED <<vars, decided, page, answer, book, fills>>
      BY <2>2 DEF allVars, vars, ledgerVars
    <3>2. PortfolioInv'
      BY <3>1, NothingMoved DEF CommandCenterInv
    <3>3. PagesInv'
      BY <3>1, PagesUnmoved DEF CommandCenterInv
    <3> QED
      BY <3>2, <3>3 DEF CommandCenterInv
  <2> QED
    BY <2>1, <2>2
<1> QED
  BY <1>1, <1>2, PTL DEF CommandCenterSpec

\* What the risk checks are told of losses (compute_portfolio_state's realized
\* total, day and last loss) is never older than the cash they are told.  The
\* total may miss a loss that the day's sum, read after it, knows.
THEOREM LossesCounted == CommandCenterSpec => []LossesAreCounted
<1>1. CommandCenterInv => LossesAreCounted
  BY LossesFollow DEF CommandCenterInv
<1> QED
  BY <1>1, CommandCenterInvHolds, PTL

\* A report of compute_portfolio_state between whose reads nothing was traded
\* shows an equity that is the P/L less the fees of the BUYs, to the rounding
\* of the NUMERIC(20,8) columns.
THEOREM ReportsReconcile == CommandCenterSpec => []ReportReconciles
<1>1. CommandCenterInv => ReportReconciles
  BY ReconcilesFollow DEF CommandCenterInv
<1> QED
  BY <1>1, CommandCenterInvHolds, PTL

\* GET /command-center: no trade is in the money of the risk or the portfolio
\* section and missing in the feed, unless newer events fill the feed.
THEOREM MoneyExplained == CommandCenterSpec => []FeedExplainsTheMoney
<1>1. CommandCenterInv => FeedExplainsTheMoney
  BY FeedFollows
<1> QED
  BY <1>1, CommandCenterInvHolds, PTL

\* GET /command-center: where a position card and the portfolio section differ,
\* a trade of that asset since is in the feed, or newer events fill it.
THEOREM CardsExplained == CommandCenterSpec => []FeedExplainsTheCards
<1>1. CommandCenterInv => FeedExplainsTheCards
  BY FeedFollows
<1> QED
  BY <1>1, CommandCenterInvHolds, PTL

\* The same of the computations by themselves, as GET /paper/portfolio and
\* the risk evaluations run them, with the types of their state.
THEOREM PortfolioAlone ==
  PortfolioSpec => [](PortfolioTypeOK /\ LossesAreCounted /\ ReportReconciles)
<1>1. PortfolioInv => PortfolioTypeOK /\ LossesAreCounted /\ ReportReconciles
  BY TypesFollow, LossesFollow, ReconcilesFollow
<1> QED
  BY <1>1, PortfolioInvHolds, PTL

==============================================================================
