----------------------------- MODULE RiskEngine -----------------------------
(***************************************************************************)
(* The Risk Engine: sizing.py, the eleven checks of checks.py and the      *)
(* decision of engine.py, as operators on a policy, a portfolio and a      *)
(* price.  Units are PaperEngine's: prices and cash in ticks, quantities   *)
(* in lots, values in ticks / Lot.  A percentage is a number of steps of   *)
(* which Whole make 100% (the columns are NUMERIC(5,2): 10000 steps).      *)
(*                                                                         *)
(* policy: [enabled, maxPosition, maxExposure, maxDailyLoss, maxDrawdown,  *)
(*   stopLoss, takeProfit, riskPerTrade, maxPositions, cooldown]           *)
(* folio: [equity, cash, highWater, count, exposure, realizedToday,        *)
(*   lossAges], the last the minutes since each losing trade.              *)
(***************************************************************************)
EXTENDS PaperEngine

CONSTANT Whole

ASSUME RiskAssumption == Whole \in Nat \ {0}

\* What PUT /risk/rules and the CHECK constraints of risk_policies accept.
RiskPolicies ==
  [enabled : BOOLEAN, maxPosition : 1..Whole, maxExposure : 1..Whole,
   maxDailyLoss : 1..Whole, maxDrawdown : 1..Whole, stopLoss : 1..(Whole - 1),
   takeProfit : 1..(10 * Whole), riskPerTrade : 1..Whole,
   maxPositions : 1..1000, cooldown : 0..(7 * 24 * 60)]

-----------------------------------------------------------------------------
(* sizing.py.  Every quotient is rounded down; the floor of the smallest   *)
(* quotient is the smallest of the floors.                                 *)

StopLossPrice(entry, policy) == (entry * (Whole - policy.stopLoss)) \div Whole

TakeProfitPrice(entry, policy) == (entry * (Whole + policy.takeProfit)) \div Whole

\* percent of the equity, in ticks / (Lot * Whole)
OfEquity(folio, percent) == folio.equity * percent

\* Mutant: ROUND_UP.
QuantityByRiskUp(entry, stop, policy, folio) ==
  -((-OfEquity(folio, policy.riskPerTrade)) \div (Whole * (entry - stop)))

QuantityByRisk(entry, stop, policy, folio) ==
  OfEquity(folio, policy.riskPerTrade) \div (Whole * (entry - stop))

QuantityByPosition(entry, policy, folio) ==
  OfEquity(folio, policy.maxPosition) \div (Whole * entry)

QuantityByExposure(entry, policy, folio) ==
  LET room == OfEquity(folio, policy.maxExposure) - folio.exposure * Whole
  IN IF room > 0 THEN room \div (Whole * entry) ELSE 0

QuantityByCash(entry, folio) ==
  IF folio.cash > 0 THEN (folio.cash * Lot) \div entry ELSE 0

Least(m, n) == IF m <= n THEN m ELSE n

Sizable(entry, stop, folio) ==
  entry > 0 /\ stop > 0 /\ entry - stop > 0 /\ folio.equity > 0

PositionSize(entry, stop, policy, folio) ==
  IF Sizable(entry, stop, folio)
  THEN Least(Least(QuantityByRisk(entry, stop, policy, folio),
                   QuantityByPosition(entry, policy, folio)),
             Least(QuantityByExposure(entry, policy, folio),
                   QuantityByCash(entry, folio)))
  ELSE 0

-----------------------------------------------------------------------------
(* engine.py: stop, target and size are computed before the checks, for a  *)
(* BUY at a positive price; otherwise they are absent, here zero.          *)

NoPlan == [qty |-> 0, stop |-> 0, take |-> 0]

Plan(kind, policy, folio, entry) ==
  IF kind = "BUY" /\ entry > 0
  THEN LET stop == StopLossPrice(entry, policy)
       IN [qty |-> PositionSize(entry, stop, policy, folio),
           stop |-> stop, take |-> TakeProfitPrice(entry, policy)]
  ELSE NoPlan

-----------------------------------------------------------------------------
(* checks.py *)

\* Mutant: the amount is compared without its sign.
WithinDailyGain(policy, folio) ==
  folio.realizedToday * Lot * Whole < OfEquity(folio, policy.maxDailyLoss)

WithinDailyLoss(policy, folio) ==
  folio.realizedToday * Lot * Whole > -OfEquity(folio, policy.maxDailyLoss)

WithinDrawdown(policy, folio) ==
  /\ folio.highWater > 0
  /\ (folio.highWater - folio.equity) * Whole < policy.maxDrawdown * folio.highWater

\* Mutant: the new position is not counted.
RoomForTheOpen(policy, folio) == folio.count <= policy.maxPositions

RoomForOneMore(policy, folio) == folio.count + 1 <= policy.maxPositions

WithinExposure(policy, folio, value) ==
  (folio.exposure + value) * Whole <= OfEquity(folio, policy.maxExposure)

WithinPositionSize(policy, folio, qty, value) ==
  qty > 0 /\ value * Whole <= OfEquity(folio, policy.maxPosition)

StopIsValid(entry, plan) == entry > 0 /\ 0 < plan.stop /\ plan.stop < entry

TargetIsValid(entry, plan) == entry > 0 /\ plan.take > entry

\* Mutant: the comparison the wrong way round.
StillCooling(policy, folio) == \A age \in folio.lossAges : age <= policy.cooldown

\* The latest loss is past the cooldown exactly when all of them are.
CooledDown(policy, folio) == \A age \in folio.lossAges : age >= policy.cooldown

Checks(kind, policy, folio, entry, plan) ==
  LET value == Notional(plan.qty, entry)
  IN [signal_validity |-> kind = "BUY",
      signal_status |-> TRUE,
      risk_policy_enabled |-> policy.enabled,
      daily_loss_limit |-> WithinDailyLoss(policy, folio),
      max_drawdown |-> WithinDrawdown(policy, folio),
      max_concurrent_positions |-> RoomForOneMore(policy, folio),
      portfolio_exposure |-> WithinExposure(policy, folio, value),
      position_size_limit |-> WithinPositionSize(policy, folio, plan.qty, value),
      stop_loss_validity |-> StopIsValid(entry, plan),
      take_profit_validity |-> TargetIsValid(entry, plan),
      loss_cooldown |-> CooledDown(policy, folio)]

\* The two hard gates leave what follows them unevaluated.
Skipped(kind, policy, names) ==
  IF kind # "BUY" THEN names \ {"signal_validity"}
  ELSE IF ~policy.enabled
  THEN names \ {"signal_validity", "signal_status", "risk_policy_enabled"}
  ELSE {}

\* RiskEngine.evaluate
Evaluate(kind, policy, folio, entry) ==
  LET plan == Plan(kind, policy, folio, entry)
      checks == Checks(kind, policy, folio, entry, plan)
      skipped == Skipped(kind, policy, DOMAIN checks)
      reasons == {name \in DOMAIN checks \ skipped : ~checks[name]}
  IN [decision |-> IF skipped \cup reasons = {} THEN "APPROVED" ELSE "REJECTED",
      reasons |-> reasons, skipped |-> skipped,
      qty |-> plan.qty, stop |-> plan.stop, take |-> plan.take]

=============================================================================
