---------------------- MODULE PositionLifecycleProofs ----------------------
(***************************************************************************)
(* The three invariants of PositionLifecycle, for every lot size, fee      *)
(* rate, price, quantity and number of fills.                              *)
(***************************************************************************)
EXTENDS PositionLifecycle, EngineProofs

\* What the prices paid bound, and that a position is either flat or was paid
\* for: inductive together with the types.
LifecycleInv == TypeOK /\ AvgWithinPricesPaid /\ PnlReconcilesWithFlow

-----------------------------------------------------------------------------
(* The steps *)

\* A BUY keeps the invariant.
LEMMA BuyKeepsInv ==
  ASSUME LifecycleInv, NEW qty \in Quantities, NEW price \in Prices, Buy(qty, price)
  PROVE  LifecycleInv'
<1> DEFINE q == snap.qty
           avg == snap.avg
           new == WeightedAverageEntry(q, avg, qty, price)
<1>1. /\ q \in Nat /\ avg \in Nat /\ qty \in Nat \ {0} /\ price \in Nat
      /\ realized \in Int /\ flow \in Int /\ slack \in Nat
      /\ low \in Nat /\ high \in Nat /\ fills \in 0..MaxFills /\ MaxFills \in Nat
  BY LifecycleAssumption DEF LifecycleInv, TypeOK
<1>2. /\ snap' = [qty |-> q + qty, avg |-> new]
      /\ realized' = realized + 0
      /\ flow' = flow - qty * price
      /\ slack' = slack + (q + qty)
      /\ low' = IF q = 0 \/ price < low THEN price ELSE low
      /\ high' = IF q = 0 \/ price > high THEN price ELSE high
      /\ fills < MaxFills /\ fills' = fills + 1
  BY DEF Buy, ApplyBuyFill, Notional
<1>3. low' \in Nat /\ high' \in Nat /\ low' <= price /\ price <= high'
  BY <1>1, <1>2
<1>4. q > 0 => low' <= avg /\ avg <= high'
  BY <1>1, <1>2 DEF LifecycleInv, AvgWithinPricesPaid
<1>5. new \in Nat /\ low' <= new /\ new <= high'
  <2> HIDE DEF q, avg, new
  <2> QED
    BY <1>1, <1>3, <1>4, AverageBetween DEF new
<1>6. TypeOK'
  BY <1>1, <1>2, <1>3, <1>5 DEF TypeOK
<1>7. AvgWithinPricesPaid'
  BY <1>2, <1>5 DEF AvgWithinPricesPaid
<1>8. PnlReconcilesWithFlow'
  <2> DEFINE after == (q + qty) * new
  <2>1. /\ after \in Int
        /\ 2 * (q * avg + qty * price - after) <= q + qty
        /\ 2 * (after - q * avg - qty * price) <= q + qty
    <3> HIDE DEF q, avg
    <3> QED
      BY <1>1, AverageDrift
  <2>2. q * avg \in Int /\ qty * price \in Int /\ realized * Lot \in Int
    BY <1>1, EngineAssumption
  <2>3. /\ 2 * (realized * Lot - q * avg - flow) <= slack
        /\ -(2 * (realized * Lot - q * avg - flow)) <= slack
    BY DEF LifecycleInv, PnlReconcilesWithFlow
  <2>4. snap'.qty * snap'.avg = after
    BY <1>2
  <2>5. realized' * Lot = realized * Lot
    BY <1>1, <1>2
  <2> HIDE DEF q, avg, after
  <2>6. /\ 2 * (realized * Lot - after - flow') <= slack'
        /\ -(2 * (realized * Lot - after - flow')) <= slack'
    BY <1>1, <1>2, <2>1, <2>2, <2>3
  <2> QED
    BY <2>4, <2>5, <2>6 DEF PnlReconcilesWithFlow
<1> QED
  BY <1>6, <1>7, <1>8 DEF LifecycleInv

\* A SELL keeps the invariant.
LEMMA SellKeepsInv ==
  ASSUME LifecycleInv, NEW qty \in Quantities, NEW price \in Prices, Sell(qty, price)
  PROVE  LifecycleInv'
<1> DEFINE q == snap.qty
           avg == snap.avg
           fee == Fee(qty, price)
           gain == RealizedPnl(avg, price, qty, fee)
<1>1. /\ q \in Nat /\ avg \in Nat /\ qty \in Nat \ {0} /\ price \in Nat
      /\ realized \in Int /\ flow \in Int /\ slack \in Nat
      /\ low \in Nat /\ high \in Nat /\ fills \in 0..MaxFills /\ MaxFills \in Nat
  BY LifecycleAssumption DEF LifecycleInv, TypeOK
<1>2. /\ qty <= q
      /\ snap' = [qty |-> q - qty, avg |-> avg]
      /\ realized' = realized + gain
      /\ flow' = flow + qty * price - fee * Lot
      /\ slack' = slack + Lot
      /\ low' = low /\ high' = high
      /\ fills < MaxFills /\ fills' = fills + 1
  BY DEF Sell, CanSell, ApplySellFill, Notional
<1>3. fee \in Nat /\ Lot \in Nat \ {0}
  BY <1>1, FeeNat, EngineAssumption
<1>4. gain \in Int
  <2> HIDE DEF avg, fee
  <2> QED
    BY <1>1, <1>3, RealizedInt
<1>5. TypeOK'
  <2> HIDE DEF fee, gain
  <2>1. fee * Lot \in Int /\ qty * price \in Int
    BY <1>1, <1>3
  <2> QED
    BY <1>1, <1>2, <1>3, <1>4, <2>1 DEF TypeOK
<1>6. AvgWithinPricesPaid'
  BY <1>1, <1>2 DEF LifecycleInv, AvgWithinPricesPaid
<1>7. PnlReconcilesWithFlow'
  <2> DEFINE value == (price - avg) * qty - fee * Lot
  <2>1. value \in Int /\ (price - avg) * qty = qty * price - qty * avg
        /\ qty * price \in Int /\ qty * avg \in Int /\ fee * Lot \in Int
        /\ q * avg \in Int /\ (q - qty) * avg = q * avg - qty * avg
        /\ realized * Lot \in Int /\ gain * Lot \in Int
        /\ (realized + gain) * Lot = realized * Lot + gain * Lot
    <3> HIDE DEF q, avg, fee, gain
    <3> QED
      BY <1>1, <1>3, <1>4
  <2>2. 2 * (gain * Lot - value) <= Lot /\ 2 * (value - gain * Lot) <= Lot
    <3>1. gain = RoundTicks(value, Lot)
      BY DEF RealizedPnl
    <3> HIDE DEF gain, value
    <3> QED
      BY <1>3, <2>1, <3>1, RoundTicksError
  <2>3. /\ 2 * (realized * Lot - q * avg - flow) <= slack
        /\ -(2 * (realized * Lot - q * avg - flow)) <= slack
    BY DEF LifecycleInv, PnlReconcilesWithFlow
  <2>4. snap'.qty * snap'.avg = q * avg - qty * avg
    BY <1>2, <2>1
  <2>5. realized' * Lot = realized * Lot + gain * Lot
    BY <1>2, <2>1
  <2>6. value = qty * price - qty * avg - fee * Lot
    BY <2>1
  <2> HIDE DEF q, avg, fee, gain, value
  <2>7. /\ 2 * (realized' * Lot - (q * avg - qty * avg) - flow') <= slack'
        /\ -(2 * (realized' * Lot - (q * avg - qty * avg) - flow')) <= slack'
    BY <1>1, <1>2, <1>3, <2>1, <2>2, <2>3, <2>5, <2>6
  <2> QED
    BY <2>4, <2>7 DEF PnlReconcilesWithFlow
<1> QED
  BY <1>5, <1>6, <1>7 DEF LifecycleInv

-----------------------------------------------------------------------------

\* The invariant holds in every reachable state.
THEOREM LifecycleInvariant == Spec => []LifecycleInv
<1>1. Init => LifecycleInv
  <2>1. 0 * Lot = 0
    BY EngineAssumption
  <2> QED
    BY <2>1, LifecycleAssumption
       DEF Init, Flat, LifecycleInv, TypeOK, AvgWithinPricesPaid, PnlReconcilesWithFlow
<1>2. LifecycleInv /\ [Next]_vars => LifecycleInv'
  <2> SUFFICES ASSUME LifecycleInv, [Next]_vars PROVE LifecycleInv'
    OBVIOUS
  <2>1. CASE Next
    BY <2>1, BuyKeepsInv, SellKeepsInv DEF Next
  <2>2. CASE UNCHANGED vars
    BY <2>2 DEF vars, LifecycleInv, TypeOK, AvgWithinPricesPaid, PnlReconcilesWithFlow
  <2> QED
    BY <2>1, <2>2
<1> QED
  BY <1>1, <1>2, PTL DEF Spec

\* An average entry price never leaves the range of the prices paid, however
\* often a position is added to, partly sold and rounded.
THEOREM AverageStaysBetween == Spec => []AvgWithinPricesPaid
BY LifecycleInvariant, PTL DEF LifecycleInv

\* Realized P/L and the position at cost account for all the value the fills
\* moved, but for half a tick per rounding.
THEOREM PnlReconciles == Spec => []PnlReconcilesWithFlow
BY LifecycleInvariant, PTL DEF LifecycleInv

\* The columns stay in their types; above all a quantity never turns negative.
THEOREM LifecycleTypeCorrect == Spec => []TypeOK
BY LifecycleInvariant, PTL DEF LifecycleInv

=============================================================================
