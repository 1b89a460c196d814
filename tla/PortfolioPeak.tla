---------------------------- MODULE PortfolioPeak ----------------------------
(***************************************************************************)
(* PortfolioState beside the equity the account really had: one cash, one  *)
(* book and one set of prices, at every moment.                            *)
(***************************************************************************)
EXTENDS PortfolioState

VARIABLE reached   \* history: the highest equity so far, in ticks / Lot

TrueEquity ==
  cash * Lot + SumFunction([a \in Assets |-> Notional(book[a].qty, quote[a])])

PeakInit == PortfolioInit /\ reached = TrueEquity

PeakNext ==
  /\ PortfolioNext
  /\ reached' = IF TrueEquity' > reached THEN TrueEquity' ELSE reached

PeakSpec == PeakInit /\ [][PeakNext]_<<vars, reached>>

\* The high-water mark is an equity the account once had: cash and positions
\* of one moment, as "equity is always reconciled from the actual cash column
\* plus the actual current market value of actual open positions" says.
PeakWasReached == 2 * (peak * Lot - reached) <= Lot

=============================================================================
