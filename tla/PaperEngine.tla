---------------------------- MODULE PaperEngine ----------------------------
(***************************************************************************)
(* The pure arithmetic of paper trading: pricing.py and engine.py.         *)
(*                                                                         *)
(* Decimal columns are integers.  A price, a fee, a cash balance or a P/L  *)
(* is a number of ticks (1e-8 in the code, NUMERIC(20,8)); a quantity is a *)
(* number of lots (1e-10 in the code, NUMERIC(28,10)), Lot of which make   *)
(* one unit.  quantity * price is therefore exact in ticks / Lot, which    *)
(* is how the code keeps a notional: unrounded until a column stores it.   *)
(* The fee rate is FeeNum / FeeDen.                                        *)
(***************************************************************************)
EXTENDS Integers

CONSTANTS Lot, FeeNum, FeeDen

ASSUME EngineAssumption ==
  /\ Lot \in Nat \ {0}
  /\ FeeDen \in Nat \ {0}
  /\ FeeNum \in Nat

-----------------------------------------------------------------------------
(* Rounding.  Decimal's ROUND_HALF_UP and PostgreSQL's numeric rounding    *)
(* both send a tie away from zero.                                         *)

HalfUp(n, d) == (2 * n + d) \div (2 * d)

RoundTicks(n, d) == IF n >= 0 THEN HalfUp(n, d) ELSE -HalfUp(-n, d)

-----------------------------------------------------------------------------
(* pricing.py *)

\* In ticks / Lot.
Notional(qty, price) == qty * price

\* In ticks.
Fee(qty, price) == HalfUp(Notional(qty, price) * FeeNum, Lot * FeeDen)

\* Mutant: ROUND_DOWN, as position sizing rounds.
TruncatedAverage(oldQty, oldAvg, addQty, price) ==
  IF oldQty <= 0
  THEN price
  ELSE (oldQty * oldAvg + addQty * price) \div (oldQty + addQty)

\* Mutant: the sum divided by the quantity held before.
AverageOverOldQuantity(oldQty, oldAvg, addQty, price) ==
  IF oldQty <= 0
  THEN price
  ELSE HalfUp(oldQty * oldAvg + addQty * price, oldQty)

WeightedAverageEntry(oldQty, oldAvg, addQty, price) ==
  IF oldQty <= 0
  THEN price
  ELSE HalfUp(oldQty * oldAvg + addQty * price, oldQty + addQty)

\* Mutant: the fee of the SELL is left out.
GrossPnl(avg, price, qty, fee) == RoundTicks((price - avg) * qty, Lot)

RealizedPnl(avg, price, qty, fee) ==
  RoundTicks((price - avg) * qty - fee * Lot, Lot)

-----------------------------------------------------------------------------
(* Cash.  The session computes cash -+ notional -+ fee exactly; the        *)
(* NUMERIC(20,8) column rounds what is written to a whole tick.            *)

\* In ticks / Lot.
RequiredCash(qty, price) == Notional(qty, price) + Fee(qty, price) * Lot

CashAfterBuy(cash, qty, price) ==
  RoundTicks(cash * Lot - RequiredCash(qty, price), Lot)

CashAfterSell(cash, qty, price, fee) ==
  RoundTicks(cash * Lot + Notional(qty, price) - fee * Lot, Lot)

-----------------------------------------------------------------------------
(* engine.py: what a fill makes of a position.  A snapshot is a record     *)
(* [qty, avg]; no position at all is the snapshot with quantity zero.      *)

Flat == [qty |-> 0, avg |-> 0]

ApplyBuyFill(snap, qty, price) ==
  [qty |-> snap.qty + qty,
   avg |-> WeightedAverageEntry(snap.qty, snap.avg, qty, price),
   pnl |-> 0, status |-> "OPEN"]

\* Mutant: the quantity held is not compared with the quantity sold.
AnyHeldQuantity(snap, qty) == snap.qty > 0

\* apply_sell_fill raises InsufficientPositionError outside this guard.
CanSell(snap, qty) == snap.qty > 0 /\ qty <= snap.qty

ApplySellFill(snap, qty, price, fee) ==
  [qty |-> snap.qty - qty,
   avg |-> snap.avg,
   pnl |-> RealizedPnl(snap.avg, price, qty, fee),
   status |-> IF snap.qty = qty THEN "CLOSED" ELSE "OPEN"]

=============================================================================
