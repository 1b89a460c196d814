---------------------------- MODULE MCRiskReview ----------------------------
(***************************************************************************)
(* RiskReview for TLC.  100% is ten steps; a loose and a tight value for   *)
(* each limit that sizes a trade, and for all the other limits together;   *)
(* portfolios on both sides of every limit.                                *)
(***************************************************************************)
EXTENDS RiskReview

Policy(enabled, size, open, risk, stop, tight) ==
  [enabled |-> enabled, maxPosition |-> size, maxExposure |-> open,
   riskPerTrade |-> risk, stopLoss |-> stop, takeProfit |-> 4,
   maxDailyLoss |-> IF tight THEN 1 ELSE 3, maxDrawdown |-> IF tight THEN 2 ELSE 5,
   maxPositions |-> IF tight THEN 1 ELSE 2, cooldown |-> IF tight THEN 60 ELSE 30]

MCPolicies ==
  {Policy(TRUE, size, open, risk, stop, tight) :
     size \in {3, 10}, open \in {5, 10}, risk \in {1, 5}, stop \in {2, 5},
     tight \in BOOLEAN}
  \cup {Policy(FALSE, 3, 5, 1, 2, TRUE), Policy(FALSE, 10, 10, 5, 5, FALSE)}

\* What a portfolio can be: its equity is its cash and its positions.
Portfolio(cash, exposure, count, peak, realized, ages) ==
  LET equity == cash * Lot + exposure
  IN [cash |-> cash, exposure |-> exposure, count |-> count, equity |-> equity,
      highWater |-> IF peak > equity THEN peak ELSE equity,
      realizedToday |-> realized, lossAges |-> ages]

MCPortfolios ==
  {Portfolio(cash, 0, 0, peak, day[1], day[2]) :
     cash \in {0, 20, 33}, peak \in {60, 90},
     day \in {<<0, {}>>, <<12, {}>>, <<0, {45}>>, <<-7, {45}>>, <<-7, {5, 45}>>}}
  \cup
  {Portfolio(cash, exposure, count, 90, 0, {}) :
     cash \in {3, 20}, exposure \in {21, 60}, count \in {1, 2}}

MCEntries == {1, 3, 10}

=============================================================================
