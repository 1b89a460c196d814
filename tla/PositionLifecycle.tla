------------------------- MODULE PositionLifecycle -------------------------
(***************************************************************************)
(* One long position under any legal sequence of BUY fills and of partial  *)
(* or full SELL fills: the contract of PaperTradingEngine, which supports  *)
(* partial quantities although the API only ever closes in full.           *)
(*                                                                         *)
(* snap and realized are the two numbers the position row keeps.  The      *)
(* other variables are history: the exact, unrounded movement of value the *)
(* fills caused, and the extremes of the prices paid.                      *)
(***************************************************************************)
EXTENDS PaperEngine

CONSTANTS Prices,    \* fill prices, in ticks
          Quantities,\* fill quantities, in lots
          MaxFills   \* bound: fills in one behaviour

ASSUME LifecycleAssumption ==
  /\ Prices \subseteq Nat
  /\ Quantities \subseteq Nat \ {0}
  /\ MaxFills \in Nat

VARIABLES
  snap,      \* [qty, avg]: paper_positions.quantity, avg_entry_price
  realized,  \* paper_positions.realized_pnl, in ticks
  flow,      \* exact value moved by the fills, in ticks / Lot, BUY fees aside
  slack,     \* twice the rounding error the fills so far may have caused
  low, high, \* cheapest and dearest BUY since the position was last flat
  fills      \* number of fills so far

vars == <<snap, realized, flow, slack, low, high, fills>>

Init ==
  /\ snap = Flat
  /\ realized = 0
  /\ flow = 0
  /\ slack = 0
  /\ low = 0
  /\ high = 0
  /\ fills = 0

Buy(qty, price) ==
  LET update == ApplyBuyFill(snap, qty, price)
      opening == snap.qty = 0
  IN /\ fills < MaxFills
     /\ snap' = [qty |-> update.qty, avg |-> update.avg]
     /\ realized' = realized + update.pnl
     /\ flow' = flow - Notional(qty, price)
     /\ slack' = slack + update.qty
     /\ low' = IF opening \/ price < low THEN price ELSE low
     /\ high' = IF opening \/ price > high THEN price ELSE high
     /\ fills' = fills + 1

Sell(qty, price) ==
  LET fee == Fee(qty, price)
      update == ApplySellFill(snap, qty, price, fee)
  IN /\ fills < MaxFills
     /\ CanSell(snap, qty)
     /\ snap' = [qty |-> update.qty, avg |-> update.avg]
     /\ realized' = realized + update.pnl
     /\ flow' = flow + Notional(qty, price) - fee * Lot
     /\ slack' = slack + Lot
     /\ fills' = fills + 1
     /\ UNCHANGED <<low, high>>

Next == \E qty \in Quantities, price \in Prices : Buy(qty, price) \/ Sell(qty, price)

Spec == Init /\ [][Next]_vars

-----------------------------------------------------------------------------

TypeOK ==
  /\ snap \in [qty : Nat, avg : Nat]
  /\ realized \in Int
  /\ flow \in Int
  /\ slack \in Nat
  /\ low \in Nat
  /\ high \in Nat
  /\ fills \in 0..MaxFills

\* The average entry price of an open position never leaves the range of the
\* prices actually paid for it, however often it is added to, partly sold and
\* rounded (compute_weighted_average_entry).
AvgWithinPricesPaid == snap.qty > 0 => low <= snap.avg /\ snap.avg <= high

\* Realized P/L plus the position at cost is the value the fills moved, up to
\* half a tick per lot held at each BUY and half a tick per SELL: rounding
\* the average and the realized P/L separately loses or invents nothing more,
\* over any sequence of partial closes (apply_buy_fill, apply_sell_fill).
PnlReconcilesWithFlow ==
  LET drift == realized * Lot - snap.qty * snap.avg - flow
  IN 2 * drift <= slack /\ -(2 * drift) <= slack

=============================================================================
