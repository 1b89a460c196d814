----------------------------- MODULE RiskProofs -----------------------------
(***************************************************************************)
(* The Risk Engine, alone and against the trades it lets through.          *)
(*                                                                         *)
(* RiskReview: the verdict for every policy that can be stored, every      *)
(* portfolio, price, lot size and percentage scale.  An approved trade is  *)
(* within every limit, and a stricter policy or a worse portfolio allows   *)
(* no more.  Each check alone is monotone, but the checks on exposure and  *)
(* on size look at the quantity, which under the looser policy is the      *)
(* larger one.  ApprovedExactly takes them out: a quantity that sizing     *)
(* returned passes both.  What is left is that every quotient of sizing.py *)
(* is monotone.                                                            *)
(*                                                                         *)
(* Pipeline: for any number of signals and assets, the cap on open         *)
(* positions is exceeded at most by the signals in flight at once, less    *)
(* one.  OverrunBounded alone is not inductive: a trade adds a position.   *)
(* What is inductive counts, with the open positions, the signals whose    *)
(* snapshot had room and which may therefore still become positions.  A    *)
(* snapshot taken with room starts from at most maxPositions - 1 open      *)
(* positions and at most MaxInFlight signals, itself included.             *)
(*                                                                         *)
(* And a trade whose review still describes the portfolio keeps every      *)
(* limit: the sizing's quotient, scaled back, fits what it divided, and a  *)
(* trade adds exactly its notional to the sum that is the exposure.        *)
(***************************************************************************)
EXTENDS RiskReview, Pipeline, EngineProofs

-----------------------------------------------------------------------------
(* RiskReview: what a verdict looks at *)

ReviewTypes ==
  /\ kind \in Kinds /\ policy \in Policies /\ folio \in Portfolios /\ entry \in Entries

\* A portfolio as compute_portfolio_state reports it.
Reported(f) ==
  /\ f.cash \in Nat /\ f.exposure \in Nat /\ f.count \in Nat
  /\ f.realizedToday \in Int /\ f.lossAges \subseteq Nat
  /\ f.equity \in Nat
  /\ f.highWater \in Nat /\ f.equity <= f.highWater

LEMMA InputsKnown ==
  /\ \A p \in Policies : p \in RiskPolicies
  /\ \A f \in Portfolios : Reported(f) /\ Counted(f)
  /\ \A e \in Entries : e \in Nat \ {0}
<1>1. \A f \in Portfolios : f.equity \in Nat
  <2> TAKE f \in Portfolios
  <2>1. f.cash \in Nat /\ f.exposure \in Nat /\ f.equity = f.cash * Lot + f.exposure
    BY ReviewAssumption
  <2>2. f.cash * Lot \in Nat
    BY <2>1, EngineAssumption
  <2> QED
    BY <2>1, <2>2
<1> QED
  BY <1>1, ReviewAssumption DEF Reported, Counted

LEMMA TypesKept == ReviewSpec => []ReviewTypes
<1>1. ReviewInit => ReviewTypes
  BY DEF ReviewInit, ReviewTypes
<1>2. ReviewTypes /\ [ReviewNext]_reviewVars => ReviewTypes'
  BY DEF ReviewTypes, ReviewNext, UpdatePolicy, PortfolioChanges, EntryMoves, reviewVars
<1> QED
  BY <1>1, <1>2, PTL DEF ReviewSpec

-----------------------------------------------------------------------------
(* Within every limit *)

LEMMA LimitsHold == ReviewTypes => ApprovedWithinEveryLimit
<1> SUFFICES ASSUME ReviewTypes, Verdict.decision = "APPROVED"
             PROVE  LET trade == Verdict
                        value == Notional(trade.qty, entry)
                    IN /\ trade.qty > 0
                       /\ 0 < trade.stop /\ trade.stop < entry /\ entry < trade.take
                       /\ trade.qty * (entry - trade.stop) * Whole
                            <= OfEquity(folio, policy.riskPerTrade)
                       /\ value * Whole <= OfEquity(folio, policy.maxPosition)
                       /\ (folio.exposure + value) * Whole
                            <= OfEquity(folio, policy.maxExposure)
                       /\ value <= folio.cash * Lot
  BY DEF ApprovedWithinEveryLimit
<1>1. policy \in RiskPolicies /\ Counted(folio) /\ entry \in Nat \ {0}
  BY InputsKnown DEF ReviewTypes
<1> DEFINE plan == Plan(kind, policy, folio, entry)
           stop == StopLossPrice(entry, policy)
<1>2. /\ Verdict.qty = plan.qty /\ Verdict.stop = plan.stop /\ Verdict.take = plan.take
      /\ kind = "BUY" /\ plan.qty > 0
      /\ StopIsValid(entry, plan) /\ TargetIsValid(entry, plan)
  BY <1>1, ApprovedExactly DEF Verdict
<1>3. plan.qty = PositionSize(entry, stop, policy, folio) /\ plan.stop = stop
  BY <1>1, <1>2 DEF Plan
<1>4. stop \in Int /\ plan.take \in Int
  BY <1>1, <1>2, PricesInt DEF Plan
<1> HIDE DEF plan, stop
<1>5. /\ plan.qty * (entry - stop) * Whole <= OfEquity(folio, policy.riskPerTrade)
      /\ Notional(plan.qty, entry) * Whole <= OfEquity(folio, policy.maxPosition)
      /\ (folio.exposure + Notional(plan.qty, entry)) * Whole
           <= OfEquity(folio, policy.maxExposure)
      /\ Notional(plan.qty, entry) <= folio.cash * Lot
  BY <1>1, <1>2, <1>3, <1>4, SizeWithinLimits
<1>6. 0 < plan.stop /\ plan.stop < entry /\ entry < plan.take
  BY <1>1, <1>2, <1>4 DEF StopIsValid, TargetIsValid
<1> QED
  BY <1>2, <1>3, <1>5, <1>6

-----------------------------------------------------------------------------
(* Stricter and worse *)

LEMMA RoundedDownMonotone ==
  ASSUME NEW p \in RiskPolicies, NEW q \in RiskPolicies, Stricter(q, p),
         NEW f, NEW g, Reported(f), Reported(g), Worse(g, f),
         NEW e \in Nat \ {0}, NEW stop \in Int, e - stop > 0
  PROVE  /\ QuantityByRisk(e, stop, q, g) <= QuantityByRisk(e, stop, p, f)
         /\ QuantityByPosition(e, q, g) <= QuantityByPosition(e, p, f)
         /\ QuantityByExposure(e, q, g) <= QuantityByExposure(e, p, f)
         /\ QuantityByCash(e, g) <= QuantityByCash(e, f)
<1>1. ASSUME NEW small \in Nat, NEW large \in Nat, small <= large
      PROVE  g.equity * small <= f.equity * large
  <2>1. g.equity \in Nat /\ f.equity \in Nat /\ g.equity <= f.equity
    BY DEF Reported, Worse
  <2>2. g.equity * small <= f.equity * small
    BY <2>1, ScaleMonotone
  <2>3. small * f.equity <= large * f.equity
    BY <1>1, <2>1, ScaleMonotone
  <2>4. /\ small * f.equity = f.equity * small /\ large * f.equity = f.equity * large
        /\ g.equity * small \in Int /\ f.equity * small \in Int /\ f.equity * large \in Int
    BY <2>1
  <2> QED
    BY <2>2, <2>3, <2>4
<1>2. /\ g.equity * q.riskPerTrade <= f.equity * p.riskPerTrade
      /\ g.equity * q.maxPosition <= f.equity * p.maxPosition
      /\ g.equity * q.maxExposure <= f.equity * p.maxExposure
  BY <1>1, PolicyNumbers DEF Stricter
<1>3. /\ g.equity * q.riskPerTrade \in Int /\ f.equity * p.riskPerTrade \in Int
      /\ g.equity * q.maxPosition \in Int /\ f.equity * p.maxPosition \in Int
      /\ g.equity * q.maxExposure \in Int /\ f.equity * p.maxExposure \in Int
      /\ g.exposure * Whole \in Int /\ f.exposure * Whole \in Int
      /\ g.cash * Lot \in Int /\ f.cash * Lot \in Int
  BY PolicyNumbers, RiskAssumption, EngineAssumption DEF Reported
<1>4. Whole * e \in Nat \ {0} /\ Whole * (e - stop) \in Nat \ {0}
  BY RiskAssumption
<1>5. QuantityByRisk(e, stop, q, g) <= QuantityByRisk(e, stop, p, f)
  BY <1>2, <1>3, <1>4, QuotientMonotone DEF QuantityByRisk, OfEquity
<1>6. QuantityByPosition(e, q, g) <= QuantityByPosition(e, p, f)
  BY <1>2, <1>3, <1>4, QuotientMonotone DEF QuantityByPosition, OfEquity
<1>7. QuantityByExposure(e, q, g) <= QuantityByExposure(e, p, f)
  <2> DEFINE roomG == g.equity * q.maxExposure - g.exposure * Whole
             roomF == f.equity * p.maxExposure - f.exposure * Whole
  <2>1. f.exposure * Whole <= g.exposure * Whole
    BY ScaleMonotone, RiskAssumption DEF Reported, Worse
  <2>2. roomG \in Int /\ roomF \in Int /\ roomG <= roomF
    BY <2>1, <1>2, <1>3
  <2>3. /\ QuantityByExposure(e, q, g) = IF roomG > 0 THEN roomG \div (Whole * e) ELSE 0
        /\ QuantityByExposure(e, p, f) = IF roomF > 0 THEN roomF \div (Whole * e) ELSE 0
    BY DEF QuantityByExposure, OfEquity
  <2> HIDE DEF roomG, roomF
  <2>4. roomG \div (Whole * e) <= roomF \div (Whole * e)
    BY <2>2, <1>4, QuotientMonotone
  <2>5. roomF > 0 => 0 <= roomF \div (Whole * e)
    <3>1. 0 \div (Whole * e) = 0
      BY <1>4
    <3> QED
      BY <3>1, <2>2, <1>4, QuotientMonotone
  <2> QED
    BY <2>2, <2>3, <2>4, <2>5
<1>8. QuantityByCash(e, g) <= QuantityByCash(e, f)
  <2>1. g.cash * Lot <= f.cash * Lot
    BY ScaleMonotone, EngineAssumption DEF Reported, Worse
  <2>2. (g.cash * Lot) \div e <= (f.cash * Lot) \div e
    BY <2>1, <1>3, QuotientMonotone
  <2>3. 0 <= (f.cash * Lot) \div e
    <3>1. 0 <= f.cash * Lot
      BY EngineAssumption DEF Reported
    <3>2. 0 \div e = 0
      OBVIOUS
    <3> QED
      BY <3>1, <3>2, <1>3, QuotientMonotone
  <2> QED
    BY <2>2, <2>3 DEF QuantityByCash, Reported, Worse
<1> QED
  BY <1>5, <1>6, <1>7, <1>8

\* A portfolio that owes nothing is never sized below zero.
LEMMA SizeNotNegative ==
  ASSUME NEW p \in RiskPolicies, NEW f, Reported(f),
         NEW e \in Nat \ {0}, NEW stop \in Int
  PROVE  PositionSize(e, stop, p, f) >= 0
<1>1. ASSUME NEW n \in Nat, NEW d \in Nat \ {0} PROVE n \div d >= 0
  <2>1. 0 \div d = 0
    OBVIOUS
  <2> QED
    BY <2>1, QuotientMonotone
<1>2. CASE Sizable(e, stop, f)
  <2>1. e - stop > 0
    BY <1>2 DEF Sizable
  <2>2. Whole * e \in Nat \ {0} /\ Whole * (e - stop) \in Nat \ {0}
    BY <2>1, RiskAssumption
  <2>3. /\ f.equity * p.riskPerTrade \in Nat /\ f.equity * p.maxPosition \in Nat
        /\ f.equity * p.maxExposure \in Nat /\ f.exposure * Whole \in Nat
        /\ f.cash * Lot \in Nat
    BY PolicyNumbers, RiskAssumption, EngineAssumption DEF Reported
  <2> DEFINE risk == QuantityByRisk(e, stop, p, f)
             position == QuantityByPosition(e, p, f)
             exposure == QuantityByExposure(e, p, f)
             paid == QuantityByCash(e, f)
  <2>4. risk \in Int /\ position \in Int /\ exposure \in Int /\ paid \in Int
    BY <2>1, QuantitiesInt DEF Counted, Reported
  <2>5. risk >= 0 /\ position >= 0
    BY <1>1, <2>2, <2>3 DEF QuantityByRisk, QuantityByPosition, OfEquity
  <2>6. exposure >= 0
    <3> DEFINE room == f.equity * p.maxExposure - f.exposure * Whole
    <3>1. room \in Int
      BY <2>3
    <3>2. exposure = IF room > 0 THEN room \div (Whole * e) ELSE 0
      BY DEF QuantityByExposure, OfEquity
    <3> HIDE DEF room, exposure
    <3> QED
      BY <1>1, <2>2, <3>1, <3>2
  <2>7. paid >= 0
    BY <1>1, <2>3 DEF QuantityByCash
  <2>8. PositionSize(e, stop, p, f) = Least(Least(risk, position), Least(exposure, paid))
    BY <1>2 DEF PositionSize
  <2> HIDE DEF risk, position, exposure, paid
  <2> QED
    BY <2>4, <2>5, <2>6, <2>7, <2>8 DEF Least
<1>3. CASE ~Sizable(e, stop, f)
  BY <1>3 DEF PositionSize
<1> QED
  BY <1>2, <1>3

LEMMA SizeMonotone ==
  ASSUME NEW p \in RiskPolicies, NEW q \in RiskPolicies, Stricter(q, p),
         NEW f, NEW g, Reported(f), Reported(g), Worse(g, f),
         NEW e \in Nat \ {0}, NEW stop \in Int
  PROVE  PositionSize(e, stop, q, g) <= PositionSize(e, stop, p, f)
<1>1. Counted(f) /\ Counted(g)
  BY DEF Counted, Reported
<1>2. CASE Sizable(e, stop, g)
  <2>1. Sizable(e, stop, f) /\ e - stop > 0
    BY <1>2 DEF Sizable, Reported, Worse
  <2> DEFINE riskG == QuantityByRisk(e, stop, q, g)
             riskF == QuantityByRisk(e, stop, p, f)
             positionG == QuantityByPosition(e, q, g)
             positionF == QuantityByPosition(e, p, f)
             exposureG == QuantityByExposure(e, q, g)
             exposureF == QuantityByExposure(e, p, f)
             paidG == QuantityByCash(e, g)
             paidF == QuantityByCash(e, f)
  <2>2. /\ riskG \in Int /\ positionG \in Int /\ exposureG \in Int /\ paidG \in Int
        /\ riskF \in Int /\ positionF \in Int /\ exposureF \in Int /\ paidF \in Int
    BY <1>1, <2>1, QuantitiesInt
  <2>3. /\ riskG <= riskF /\ positionG <= positionF
        /\ exposureG <= exposureF /\ paidG <= paidF
    BY <2>1, RoundedDownMonotone
  <2>4. /\ PositionSize(e, stop, q, g) = Least(Least(riskG, positionG), Least(exposureG, paidG))
        /\ PositionSize(e, stop, p, f) = Least(Least(riskF, positionF), Least(exposureF, paidF))
    BY <1>2, <2>1 DEF PositionSize
  <2> HIDE DEF riskG, riskF, positionG, positionF, exposureG, exposureF, paidG, paidF
  <2>5. /\ Least(riskG, positionG) <= Least(riskF, positionF)
        /\ Least(exposureG, paidG) <= Least(exposureF, paidF)
    BY <2>2, <2>3, LeastMonotone
  <2>6. /\ Least(riskG, positionG) \in Int /\ Least(riskF, positionF) \in Int
        /\ Least(exposureG, paidG) \in Int /\ Least(exposureF, paidF) \in Int
    BY <2>2, LeastIsLower
  <2> QED
    BY <2>4, <2>5, <2>6, LeastMonotone
<1>3. CASE ~Sizable(e, stop, g)
  <2>1. PositionSize(e, stop, q, g) = 0
    BY <1>3 DEF PositionSize
  <2>2. PositionSize(e, stop, p, f) >= 0
    BY SizeNotNegative
  <2> QED
    BY <2>1, <2>2
<1> QED
  BY <1>2, <1>3
LEMMA DrawdownMonotone ==
  ASSUME NEW p \in RiskPolicies, NEW q \in RiskPolicies, Stricter(q, p),
         NEW f, NEW g, Reported(f), Reported(g), Worse(g, f), f.equity > 0,
         WithinDrawdown(q, g)
  PROVE  WithinDrawdown(p, f)
<1> DEFINE d == q.maxDrawdown
<1>1. /\ d \in Nat /\ p.maxDrawdown \in Nat /\ d <= p.maxDrawdown
      /\ Whole \in Nat /\ Whole - d \in Nat
      /\ f.equity \in Nat /\ g.equity \in Nat /\ g.equity <= f.equity
      /\ f.highWater \in Nat /\ g.highWater \in Nat /\ f.highWater <= g.highWater
      /\ f.highWater > 0
  BY PolicyNumbers, RiskAssumption DEF Stricter, Worse, Reported
<1>2. (g.highWater - g.equity) * Whole < d * g.highWater
  BY DEF WithinDrawdown
<1> HIDE DEF d
<1>3. f.highWater * (Whole - d) <= g.highWater * (Whole - d)
  BY <1>1, ScaleMonotone
<1>4. g.equity * Whole <= f.equity * Whole
  BY <1>1, ScaleMonotone
<1>5. d * f.highWater <= p.maxDrawdown * f.highWater
  BY <1>1, ScaleMonotone
<1>6. /\ f.highWater * (Whole - d) = f.highWater * Whole - d * f.highWater
      /\ g.highWater * (Whole - d) = g.highWater * Whole - d * g.highWater
      /\ (g.highWater - g.equity) * Whole = g.highWater * Whole - g.equity * Whole
      /\ (f.highWater - f.equity) * Whole = f.highWater * Whole - f.equity * Whole
  BY <1>1
<1>7. /\ f.highWater * Whole \in Int /\ g.highWater * Whole \in Int
      /\ f.equity * Whole \in Int /\ g.equity * Whole \in Int
      /\ d * f.highWater \in Int /\ d * g.highWater \in Int
      /\ p.maxDrawdown * f.highWater \in Int
  BY <1>1
<1>8. (f.highWater - f.equity) * Whole < p.maxDrawdown * f.highWater
  BY <1>2, <1>3, <1>4, <1>5, <1>6, <1>7
<1> QED
  BY <1>1, <1>8 DEF WithinDrawdown

LEMMA DailyLossMonotone ==
  ASSUME NEW p \in RiskPolicies, NEW q \in RiskPolicies, Stricter(q, p),
         NEW f, NEW g, Reported(f), Reported(g), Worse(g, f),
         WithinDailyLoss(q, g)
  PROVE  WithinDailyLoss(p, f)
<1>1. /\ g.realizedToday \in Int /\ f.realizedToday \in Int
      /\ g.realizedToday <= f.realizedToday
      /\ g.equity \in Nat /\ f.equity \in Nat /\ g.equity <= f.equity
      /\ q.maxDailyLoss \in Nat /\ p.maxDailyLoss \in Nat
      /\ q.maxDailyLoss <= p.maxDailyLoss /\ Lot \in Nat /\ Whole \in Nat
  BY PolicyNumbers, EngineAssumption, RiskAssumption DEF Stricter, Worse, Reported
<1>2. g.realizedToday * Lot <= f.realizedToday * Lot
  BY <1>1, ScaleMonotone
<1>3. g.realizedToday * Lot \in Int /\ f.realizedToday * Lot \in Int
  BY <1>1
<1>4. g.realizedToday * Lot * Whole <= f.realizedToday * Lot * Whole
  BY <1>1, <1>2, <1>3, ScaleMonotone
<1>5. g.equity * q.maxDailyLoss <= f.equity * q.maxDailyLoss
  BY <1>1, ScaleMonotone
<1>6. q.maxDailyLoss * f.equity <= p.maxDailyLoss * f.equity
  BY <1>1, ScaleMonotone
<1>7. /\ q.maxDailyLoss * f.equity = f.equity * q.maxDailyLoss
      /\ p.maxDailyLoss * f.equity = f.equity * p.maxDailyLoss
      /\ g.equity * q.maxDailyLoss \in Int /\ f.equity * q.maxDailyLoss \in Int
      /\ f.equity * p.maxDailyLoss \in Int
      /\ g.realizedToday * Lot * Whole \in Int /\ f.realizedToday * Lot * Whole \in Int
  BY <1>1
<1> QED
  BY <1>4, <1>5, <1>6, <1>7 DEF WithinDailyLoss, OfEquity

\* Under a stricter policy and in a worse portfolio the verdict is no kinder.
LEMMA HarsherAllowsNoMore ==
  ASSUME NEW k, NEW p \in RiskPolicies, NEW q \in RiskPolicies, Stricter(q, p),
         NEW f, NEW g, Reported(f), Reported(g), Worse(g, f), NEW e \in Nat \ {0}
  PROVE  NoMoreThan(Evaluate(k, q, g, e), Evaluate(k, p, f, e))
<1> DEFINE harsh == Plan(k, q, g, e)
           mild == Plan(k, p, f, e)
           stop == StopLossPrice(e, p)
<1>1. Counted(f) /\ Counted(g)
  BY DEF Counted, Reported
<1>2. /\ Evaluate(k, q, g, e).qty = harsh.qty
      /\ Evaluate(k, q, g, e).decision = "APPROVED" <=>
           /\ k = "BUY" /\ q.enabled
           /\ WithinDailyLoss(q, g) /\ WithinDrawdown(q, g)
           /\ RoomForOneMore(q, g) /\ CooledDown(q, g)
           /\ StopIsValid(e, harsh) /\ TargetIsValid(e, harsh)
           /\ harsh.qty > 0
  BY <1>1, ApprovedExactly
<1>3. /\ Evaluate(k, p, f, e).qty = mild.qty
      /\ Evaluate(k, p, f, e).decision = "APPROVED" <=>
           /\ k = "BUY" /\ p.enabled
           /\ WithinDailyLoss(p, f) /\ WithinDrawdown(p, f)
           /\ RoomForOneMore(p, f) /\ CooledDown(p, f)
           /\ StopIsValid(e, mild) /\ TargetIsValid(e, mild)
           /\ mild.qty > 0
  BY <1>1, ApprovedExactly
<1>4. /\ StopLossPrice(e, q) = stop
      /\ TakeProfitPrice(e, q) = TakeProfitPrice(e, p)
      /\ stop \in Int
  BY PricesInt DEF Stricter, StopLossPrice, TakeProfitPrice
<1>5. CASE k # "BUY"
  <2>1. harsh.qty = 0 /\ mild.qty = 0
    BY <1>5 DEF Plan, NoPlan
  <2> HIDE DEF harsh, mild
  <2> QED
    BY <1>2, <1>3, <1>5, <2>1 DEF NoMoreThan
<1>6. CASE k = "BUY"
  <2>1. /\ harsh.qty = PositionSize(e, stop, q, g) /\ mild.qty = PositionSize(e, stop, p, f)
        /\ harsh.stop = mild.stop /\ harsh.take = mild.take
    BY <1>4, <1>6 DEF Plan
  <2>2. harsh.qty <= mild.qty /\ harsh.qty \in Int /\ mild.qty \in Int
    BY <1>1, <1>4, <2>1, SizeMonotone, SizeInt
  <2>3. harsh.qty > 0 => g.equity > 0 /\ f.equity > 0
    BY <2>1 DEF PositionSize, Sizable, Worse, Reported
  <2> HIDE DEF harsh, mild
  <2>4. ASSUME Evaluate(k, q, g, e).decision = "APPROVED"
        PROVE  Evaluate(k, p, f, e).decision = "APPROVED"
    <3>1. p.enabled
      BY <1>2, <2>4 DEF Stricter
    <3>2. WithinDailyLoss(p, f) /\ WithinDrawdown(p, f)
      BY <1>2, <2>3, <2>4, DailyLossMonotone, DrawdownMonotone
    <3>3. RoomForOneMore(p, f)
      <4>1. /\ g.count + 1 <= q.maxPositions /\ q.maxPositions <= p.maxPositions
            /\ f.count <= g.count
        BY <1>2, <2>4 DEF RoomForOneMore, Stricter, Worse
      <4>2. g.count \in Nat /\ f.count \in Nat
        BY DEF Reported
      <4>3. q.maxPositions \in Nat /\ p.maxPositions \in Nat
        BY PolicyNumbers
      <4> QED
        BY <4>1, <4>2, <4>3 DEF RoomForOneMore
    <3>4. CooledDown(p, f)
      <4>1. /\ \A age \in g.lossAges : age >= q.cooldown
            /\ q.cooldown >= p.cooldown /\ f.lossAges \subseteq g.lossAges
        BY <1>2, <2>4 DEF CooledDown, Stricter, Worse
      <4>2. f.lossAges \subseteq Nat /\ q.cooldown \in Nat /\ p.cooldown \in Nat
        BY PolicyNumbers DEF Reported
      <4> QED
        BY <4>1, <4>2 DEF CooledDown
    <3>5. StopIsValid(e, mild) /\ TargetIsValid(e, mild) /\ mild.qty > 0
      BY <1>2, <2>1, <2>2, <2>4 DEF StopIsValid, TargetIsValid
    <3> QED
      BY <1>3, <1>6, <3>1, <3>2, <3>3, <3>4, <3>5
  <2> QED
    BY <1>2, <1>3, <2>2, <2>4 DEF NoMoreThan
<1> QED
  BY <1>5, <1>6

-----------------------------------------------------------------------------
(* Theorems *)

\* An approved trade respects every limit at once, those no check looks at
\* included: its loss at the stop is within the risk budget and its notional
\* within the cash, whatever is rounded on the way (compute_position_size).
THEOREM ApprovedTradesKeepLimits == ReviewSpec => []ApprovedWithinEveryLimit
  BY TypesKept, LimitsHold, PTL

\* Tightening limits never lets a trade through that was refused, nor makes
\* one larger, for every pair of policies (RiskEngine.evaluate).
THEOREM StricterPoliciesAllowNoMore == ReviewSpec => StricterPolicyNeverApproves
<1>1. ReviewTypes /\ [ReviewNext]_reviewVars =>
        [UNCHANGED <<kind, folio, entry>> /\ Stricter(policy', policy) =>
           NoMoreThan(Verdict', Verdict)]_reviewVars
  <2> SUFFICES ASSUME ReviewTypes, ReviewNext, UNCHANGED <<kind, folio, entry>>,
                      Stricter(policy', policy)
               PROVE  NoMoreThan(Verdict', Verdict)
    BY DEF reviewVars
  <2>1. policy' \in Policies
    BY DEF ReviewTypes, ReviewNext, UpdatePolicy, PortfolioChanges, EntryMoves
  <2>2. /\ policy \in RiskPolicies /\ policy' \in RiskPolicies
        /\ Reported(folio) /\ entry \in Nat \ {0}
    BY <2>1, InputsKnown DEF ReviewTypes
  <2>3. Worse(folio, folio)
    BY <2>2 DEF Worse, Reported
  <2>4. NoMoreThan(Evaluate(kind, policy', folio, entry), Evaluate(kind, policy, folio, entry))
    BY <2>2, <2>3, HarsherAllowsNoMore
  <2>5. Verdict' = Evaluate(kind, policy', folio, entry)
    BY DEF Verdict
  <2> QED
    BY <2>4, <2>5 DEF Verdict
<1> QED
  BY <1>1, TypesKept, PTL DEF ReviewSpec, StricterPolicyNeverApproves

\* Losing money, adding positions or exposure, or spending cash never turns a
\* refusal into an approval, nor makes the trade larger, for every pair of
\* portfolios (RiskEngine.evaluate).
THEOREM WorsePortfoliosAllowNoMore == ReviewSpec => WorsePortfolioNeverApproves
<1>1. ReviewTypes /\ [ReviewNext]_reviewVars =>
        [UNCHANGED <<kind, policy, entry>> /\ Worse(folio', folio) =>
           NoMoreThan(Verdict', Verdict)]_reviewVars
  <2> SUFFICES ASSUME ReviewTypes, ReviewNext, UNCHANGED <<kind, policy, entry>>,
                      Worse(folio', folio)
               PROVE  NoMoreThan(Verdict', Verdict)
    BY DEF reviewVars
  <2>1. folio' \in Portfolios
    BY DEF ReviewTypes, ReviewNext, UpdatePolicy, PortfolioChanges, EntryMoves
  <2>2. /\ policy \in RiskPolicies /\ entry \in Nat \ {0}
        /\ Reported(folio) /\ Reported(folio')
    BY <2>1, InputsKnown DEF ReviewTypes
  <2>3. Stricter(policy, policy)
    BY <2>2, PolicyNumbers DEF Stricter
  <2>4. NoMoreThan(Evaluate(kind, policy, folio', entry), Evaluate(kind, policy, folio, entry))
    BY <2>2, <2>3, HarsherAllowsNoMore
  <2>5. Verdict' = Evaluate(kind, policy, folio', entry)
    BY DEF Verdict
  <2> QED
    BY <2>4, <2>5 DEF Verdict
<1> QED
  BY <1>1, TypesKept, PTL DEF ReviewSpec, WorsePortfolioNeverApproves

-----------------------------------------------------------------------------
(* Pipeline: the invariants *)

\* In flight, on a snapshot that had room for one more position.
Hopeful == {s \in InFlight : RoomForOneMore(Policy, snap[s])}

PlaceForEach ==
  Cardinality(Open) + Cardinality(Hopeful) <= Policy.maxPositions + MaxInFlight - 1

\* What PlaceForEach needs to be kept.
ReviewState ==
  /\ snap = [s \in Signals |-> snap[s]]
  /\ verdict = [s \in Signals |-> verdict[s]]
  /\ settled = [s \in Signals |-> settled[s]]
  /\ book = [a \in Assets |-> book[a]]
  /\ \A s \in Signals : verdict[s] # None => "count" \in DOMAIN snap[s]
  /\ \A s \in Signals : verdict[s] = "APPROVED" => RoomForOneMore(Policy, snap[s])

PipelineInv == ReviewState /\ PlaceForEach

Positions == [qty : Nat, avg : Nat]

\* What compute_portfolio_state can report.
Folios ==
  [equity : Int, cash : Nat, highWater : Int, count : Nat, exposure : Nat,
   realizedToday : Int, lossAges : SUBSET Nat]

Verdicts == {None, "PENDING", "APPROVED", "REJECTED"}

\* The money and what the reviews have read, in whole numbers; an approval is
\* for a quantity.
AccountInv ==
  /\ cash \in Nat /\ peak \in Nat /\ realized \in Int
  /\ sinceLoss \in 0..Policy.cooldown \cup {None}
  /\ quote \in [Assets -> Prices]
  /\ book \in [Assets -> Positions]
  /\ verdict \in [Signals -> Verdicts]
  /\ approval \in [Signals -> (Nat \ {0}) \cup {None}]
  /\ \A s \in Signals : verdict[s] = "APPROVED" <=> approval[s] # None
  /\ snap = [s \in Signals |-> snap[s]]
  /\ \A s \in Signals : verdict[s] # None => snap[s] \in Folios

-----------------------------------------------------------------------------
(* Counting *)

LEMMA Counts ==
  /\ IsFiniteSet(Open) /\ Cardinality(Open) \in Nat
  /\ IsFiniteSet(InFlight) /\ Cardinality(InFlight) \in Nat
  /\ IsFiniteSet(Hopeful) /\ Cardinality(Hopeful) \in Nat
<1>1. Open \subseteq Assets /\ InFlight \subseteq Signals /\ Hopeful \subseteq Signals
  BY DEF Open, InFlight, Hopeful
<1>2. IsFiniteSet(Assets) /\ IsFiniteSet(Signals)
  BY PipelineAssumption
<1> QED
  BY <1>1, <1>2, SubsetSize

LEMMA Limits == Policy.maxPositions \in Nat \ {0} /\ MaxInFlight \in Nat \ {0}
<1>1. Policy \in RiskPolicies /\ MaxInFlight \in Nat \ {0}
  BY PipelineAssumption
<1> QED
  BY <1>1, PolicyNumbers

-----------------------------------------------------------------------------
(* The Risk Engine *)

\* All eleven checks must pass, the one on the position count included.
LEMMA ApprovedHadRoom ==
  ASSUME NEW side, NEW rules, NEW seen, NEW price,
         Evaluate(side, rules, seen, price).decision = "APPROVED"
  PROVE  RoomForOneMore(rules, seen)
<1> DEFINE plan == Plan(side, rules, seen, price)
           checks == Checks(side, rules, seen, price, plan)
           skipped == Skipped(side, rules, DOMAIN checks)
<1>1. skipped \cup {name \in DOMAIN checks \ skipped : ~checks[name]} = {}
  BY DEF Evaluate
<1>2. "max_concurrent_positions" \in DOMAIN checks
  BY DEF Checks
<1>3. checks["max_concurrent_positions"]
  BY <1>1, <1>2
<1> QED
  BY <1>3 DEF Checks

-----------------------------------------------------------------------------
(* Initial states *)

LEMMA InitEstablishes == PipelineInit => PipelineInv
<1> SUFFICES ASSUME PipelineInit
             PROVE  PipelineInv
  OBVIOUS
<1> USE DEF PipelineInit, Init
<1>1. ReviewState
  <2>1. \A s \in Signals : verdict[s] = None
    OBVIOUS
  <2>2. None # "APPROVED"
    BY PipelineAssumption
  <2>3. /\ snap = [s \in Signals |-> snap[s]]
        /\ verdict = [s \in Signals |-> verdict[s]]
        /\ settled = [s \in Signals |-> settled[s]]
        /\ book = [a \in Assets |-> book[a]]
    OBVIOUS
  <2> QED
    BY <2>1, <2>2, <2>3 DEF ReviewState
<1>2. Open = {}
  BY DEF Open, Flat
<1>3. Hopeful = {}
  BY PipelineAssumption DEF Hopeful, InFlight
<1>4. PlaceForEach
  BY <1>2, <1>3, FS_EmptySet, Limits DEF PlaceForEach
<1> QED
  BY <1>1, <1>4 DEF PipelineInv

-----------------------------------------------------------------------------
(* Every step *)

LEMMA TakeSnapshotKeeps ==
  ASSUME PipelineInv, NEW s \in Signals, TakeSnapshot(s)
  PROVE  PipelineInv'
<1> USE DEF TakeSnapshot, ledgerVars
<1>1. /\ snap' = [snap EXCEPT ![s] = Folio] /\ verdict[s] = None
      /\ verdict' = [verdict EXCEPT ![s] = "PENDING"]
      /\ UNCHANGED <<settled, book>>
      /\ Cardinality(InFlight) < MaxInFlight
  OBVIOUS
<1>2. ReviewState
  BY DEF PipelineInv
<1>3. \A t \in Signals : verdict'[t] = IF t = s THEN "PENDING" ELSE verdict[t]
  BY <1>1, <1>2 DEF ReviewState
<1>4. \A t \in Signals : snap'[t] = IF t = s THEN Folio ELSE snap[t]
  BY <1>1, <1>2 DEF ReviewState
<1>5. "count" \in DOMAIN Folio /\ Folio.count = Cardinality(Open)
  BY DEF Folio
<1>6. ReviewState'
  <2>1. /\ snap' = [t \in Signals |-> snap'[t]]
        /\ verdict' = [t \in Signals |-> verdict'[t]]
        /\ (settled = [t \in Signals |-> settled[t]])'
        /\ (book = [a \in Assets |-> book[a]])'
    BY <1>1, <1>2 DEF ReviewState
  <2>2. \A t \in Signals : verdict'[t] # None => "count" \in DOMAIN snap'[t]
    BY <1>2, <1>3, <1>4, <1>5 DEF ReviewState
  <2>3. \A t \in Signals : verdict'[t] = "APPROVED" => RoomForOneMore(Policy, snap'[t])
    BY <1>2, <1>3, <1>4 DEF ReviewState
  <2> QED
    BY <2>1, <2>2, <2>3 DEF ReviewState
<1>7. Open' = Open
  BY <1>1 DEF Open
<1>8. CASE RoomForOneMore(Policy, Folio)
  <2>1. Cardinality(Open) + 1 <= Policy.maxPositions
    BY <1>5, <1>8 DEF RoomForOneMore
  <2>2. Hopeful' \subseteq InFlight \cup {s}
    BY <1>1, <1>3, <1>4 DEF Hopeful, InFlight
  <2>3. /\ Cardinality(Hopeful') \in Nat
        /\ Cardinality(Hopeful') <= Cardinality(InFlight) + 1
    BY <2>2, Counts, OneMore
  <2> QED
    BY <1>1, <1>6, <1>7, <2>1, <2>3, Counts, Limits DEF PipelineInv, PlaceForEach
<1>9. CASE ~RoomForOneMore(Policy, Folio)
  <2>1. Hopeful' \subseteq Hopeful
    BY <1>1, <1>3, <1>4, <1>9 DEF Hopeful, InFlight
  <2>2. Cardinality(Hopeful') <= Cardinality(Hopeful) /\ Cardinality(Hopeful') \in Nat
    BY <2>1, Counts, SubsetSize
  <2> QED
    BY <1>6, <1>7, <2>2, Counts, Limits DEF PipelineInv, PlaceForEach
<1> QED
  BY <1>8, <1>9

\* A step that opens nothing and leaves no signal hopeful that was not.
LEMMA NothingAdded ==
  ASSUME PipelineInv, ReviewState', Open' \subseteq Open, Hopeful' \subseteq Hopeful
  PROVE  PipelineInv'
<1>1. Cardinality(Open') <= Cardinality(Open) /\ Cardinality(Open') \in Nat
  BY Counts, SubsetSize
<1>2. Cardinality(Hopeful') <= Cardinality(Hopeful) /\ Cardinality(Hopeful') \in Nat
  BY Counts, SubsetSize
<1> QED
  BY <1>1, <1>2, Counts, Limits DEF PipelineInv, PlaceForEach

LEMMA DecideKeeps ==
  ASSUME PipelineInv, NEW s \in Signals, Decide(s)
  PROVE  PipelineInv'
<1>1. /\ verdict[s] = "PENDING"
      /\ verdict' = [verdict EXCEPT ![s] = Outcome(s).decision]
      /\ UNCHANGED <<settled, book, snap>>
  BY DEF Decide, Approve, ledgerVars
<1>2. ReviewState
  BY DEF PipelineInv
<1>3. \A t \in Signals :
        verdict'[t] = IF t = s THEN Outcome(s).decision ELSE verdict[t]
  BY <1>1, <1>2 DEF ReviewState
<1>4. ReviewState'
  <2>1. Outcome(s).decision = "APPROVED" => RoomForOneMore(Policy, snap[s])
    BY ApprovedHadRoom DEF Outcome
  <2>2. /\ (snap = [t \in Signals |-> snap[t]])'
        /\ verdict' = [t \in Signals |-> verdict'[t]]
        /\ (settled = [t \in Signals |-> settled[t]])'
        /\ (book = [a \in Assets |-> book[a]])'
    BY <1>1, <1>2 DEF ReviewState
  <2>3. None # "PENDING"
    BY PipelineAssumption
  <2>4. \A t \in Signals : verdict'[t] # None => "count" \in DOMAIN snap'[t]
    BY <1>1, <1>2, <1>3, <2>3 DEF ReviewState
  <2>5. \A t \in Signals : verdict'[t] = "APPROVED" => RoomForOneMore(Policy, snap'[t])
    BY <1>1, <1>2, <1>3, <2>1 DEF ReviewState
  <2> QED
    BY <2>2, <2>4, <2>5 DEF ReviewState
<1>5. Open' \subseteq Open
  BY <1>1 DEF Open
<1>6. Hopeful' \subseteq Hopeful
  BY <1>1, <1>3 DEF Hopeful, InFlight
<1> QED
  BY <1>4, <1>5, <1>6, NothingAdded

\* Nobody's review changes: what matters of it is untouched.
LEMMA ReviewsUntouched ==
  ASSUME ReviewState, UNCHANGED <<snap, verdict>>,
         (settled = [t \in Signals |-> settled[t]])',
         (book = [a \in Assets |-> book[a]])'
  PROVE  ReviewState'
BY DEF ReviewState

LEMMA ExecuteSignalKeeps ==
  ASSUME PipelineInv, NEW s \in Signals, ExecuteSignal(s)
  PROVE  PipelineInv'
<1>1. ReviewState
  BY DEF PipelineInv
<1>2. verdict[s] = "APPROVED" /\ UNCHANGED <<snap, verdict>>
  BY DEF ExecuteSignal
<1>3. CASE Buy(s, quote[AssetOf[s]])
  <2> DEFINE a == AssetOf[s]
             update == ApplyBuyFill(book[a], approval[s], quote[a])
  <2>1. /\ settled[s] = None
        /\ settled' = [settled EXCEPT ![s] = "FILLED"]
        /\ book' = [book EXCEPT ![a] = [qty |-> update.qty, avg |-> update.avg]]
    BY <1>3 DEF Buy
  <2>2. ReviewState'
    BY <1>1, <1>2, <2>1, ReviewsUntouched DEF ReviewState
  <2>3. Open' \subseteq Open \cup {a}
    BY <1>1, <2>1 DEF Open, ReviewState
  <2>4. s \in Hopeful
    BY <1>1, <1>2, <2>1 DEF Hopeful, InFlight, ReviewState
  <2>5. None # "FILLED"
    BY PipelineAssumption
  <2>6. Hopeful' \subseteq Hopeful \ {s}
    BY <1>1, <1>2, <2>1, <2>5 DEF Hopeful, InFlight, ReviewState
  <2>7. Cardinality(Open') \in Nat /\ Cardinality(Open') <= Cardinality(Open) + 1
    BY <2>3, Counts, OneMore
  <2>8. Cardinality(Hopeful') \in Nat /\ Cardinality(Hopeful') + 1 <= Cardinality(Hopeful)
    BY <2>4, <2>6, Counts, OneLess
  <2> QED
    BY <2>2, <2>7, <2>8, Counts, Limits DEF PipelineInv, PlaceForEach
<1>4. CASE Reject(s, quote[AssetOf[s]])
  <2>1. /\ settled[s] = None
        /\ settled' = [settled EXCEPT ![s] = "REJECTED"]
        /\ UNCHANGED book
    BY <1>4 DEF Reject
  <2>2. ReviewState'
    BY <1>1, <1>2, <2>1, ReviewsUntouched DEF ReviewState
  <2>3. None # "REJECTED"
    BY PipelineAssumption
  <2>4. Open' \subseteq Open /\ Hopeful' \subseteq Hopeful
    BY <1>1, <1>2, <2>1, <2>3 DEF Open, Hopeful, InFlight, ReviewState
  <2> QED
    BY <2>2, <2>4, NothingAdded
<1> QED
  BY <1>3, <1>4 DEF ExecuteSignal

LEMMA ClosePositionKeeps ==
  ASSUME PipelineInv, NEW a \in Assets, ClosePosition(a)
  PROVE  PipelineInv'
<1>1. ReviewState
  BY DEF PipelineInv
<1>2. /\ book' = [book EXCEPT ![a] = Flat]
      /\ UNCHANGED <<settled, snap, verdict>>
  BY DEF ClosePosition, Close
<1>3. ReviewState'
  BY <1>1, <1>2, ReviewsUntouched DEF ReviewState
<1>4. Open' \subseteq Open
  BY <1>1, <1>2 DEF Open, ReviewState, Flat
<1>5. Hopeful' \subseteq Hopeful
  BY <1>2 DEF Hopeful, InFlight
<1> QED
  BY <1>3, <1>4, <1>5, NothingAdded

LEMMA TickKeeps ==
  ASSUME PipelineInv, Tick
  PROVE  PipelineInv'
<1>1. ReviewState
  BY DEF PipelineInv
<1> DEFINE Aged(seen) == [seen EXCEPT !.lossAges = {Older(age) : age \in @}]
<1>2. /\ UNCHANGED <<settled, book, verdict>>
      /\ snap' = [s \in Signals |-> IF verdict[s] = None THEN None ELSE Aged(snap[s])]
  BY DEF Tick, ledgerVars
<1>3. \A s \in Signals : verdict[s] # None =>
        /\ "count" \in DOMAIN Aged(snap[s])
        /\ Aged(snap[s]).count = snap[s].count
  BY <1>1 DEF ReviewState
<1> HIDE DEF Aged
<1>4. \A s \in Signals : verdict[s] # None =>
        /\ "count" \in DOMAIN snap'[s]
        /\ RoomForOneMore(Policy, snap'[s]) <=> RoomForOneMore(Policy, snap[s])
  BY <1>2, <1>3 DEF RoomForOneMore
<1>5. None \notin {"PENDING", "APPROVED"}
  BY PipelineAssumption
<1>6. ReviewState'
  <2>1. /\ snap' = [s \in Signals |-> snap'[s]]
        /\ (verdict = [s \in Signals |-> verdict[s]])'
        /\ (settled = [s \in Signals |-> settled[s]])'
        /\ (book = [a \in Assets |-> book[a]])'
    BY <1>1, <1>2 DEF ReviewState
  <2> QED
    BY <1>1, <1>2, <1>4, <1>5, <2>1 DEF ReviewState
<1>7. Open' \subseteq Open
  BY <1>2 DEF Open
<1>8. Hopeful' \subseteq Hopeful
  BY <1>2, <1>4, <1>5 DEF Hopeful, InFlight
<1> QED
  BY <1>6, <1>7, <1>8, NothingAdded

LEMMA OtherStepsKeep ==
  ASSUME PipelineInv,
         \/ \E a \in Assets : PriceMoves(a)
         \/ NewDay
         \/ UNCHANGED vars
  PROVE  PipelineInv'
<1>1. UNCHANGED <<settled, book, snap, verdict>>
  BY DEF PriceMoves, NewDay, vars, marketVars, ledgerVars
<1>2. ReviewState'
  BY <1>1 DEF PipelineInv, ReviewState
<1>3. Open' \subseteq Open /\ Hopeful' \subseteq Hopeful
  BY <1>1 DEF Open, Hopeful, InFlight
<1> QED
  BY <1>2, <1>3, NothingAdded

-----------------------------------------------------------------------------
(* The account: types *)

LEMMA AccountTypes == AccountInv => PipelineTypeOK
BY DEF AccountInv, PipelineTypeOK, Positions, Verdicts

-----------------------------------------------------------------------------
(* What a review reads *)

\* The value of each asset's position.
Values == [a \in Assets |-> Notional(book[a].qty, quote[a])]

LEMMA ExposureIsSum == Exposure = SumFunctionOnSet(Values, Assets)
BY DEF Exposure, Values, SumFunction

LEMMA ValuesNat ==
  ASSUME AccountInv, NEW a \in Assets
  PROVE  /\ quote[a] \in Nat \ {0} /\ book[a].qty \in Nat /\ book[a].avg \in Nat
         /\ Values[a] \in Nat
<1>1. quote[a] \in Nat \ {0} /\ book[a].qty \in Nat /\ book[a].avg \in Nat
  BY PipelineAssumption DEF AccountInv, Positions
<1> QED
  BY <1>1, FeeNat DEF Values

LEMMA ExposureNat ==
  ASSUME AccountInv
  PROVE  Exposure \in Nat
<1>1. \A a \in Assets : Values[a] \in Int /\ Values[a] >= 0
  BY ValuesNat
<1> QED
  BY <1>1, PipelineAssumption, SumType, ExposureIsSum

LEMMA FolioCounts ==
  ASSUME AccountInv
  PROVE  Folio \in Folios /\ Counted(Folio) /\ HighWater \in Nat /\ Equity \in Nat
<1>1. Exposure \in Nat /\ Cardinality(Open) \in Nat
  BY ExposureNat, Counts
<1>2. cash \in Nat /\ cash * Lot \in Nat /\ peak * Lot \in Nat /\ realized \in Int
  BY EngineAssumption DEF AccountInv
<1>3. Equity \in Nat
  BY <1>1, <1>2 DEF Equity
<1>4. HighWater \in Nat
  BY <1>2, <1>3 DEF HighWater
<1>5. sinceLoss # None => sinceLoss \in Nat
  BY Limits DEF AccountInv
<1>6. Folio \in Folios
  <2> DEFINE ages == IF sinceLoss = None THEN {} ELSE {sinceLoss}
  <2>1. ages \in SUBSET Nat
    BY <1>5
  <2> HIDE DEF ages
  <2>2. Folio = [equity |-> Equity, cash |-> cash, highWater |-> HighWater,
          count |-> Cardinality(Open), exposure |-> Exposure, realizedToday |-> realized,
          lossAges |-> ages]
    BY DEF Folio, ages
  <2> QED
    BY <1>1, <1>2, <1>3, <1>4, <2>1, <2>2 DEF Folios
<1> QED
  BY <1>3, <1>4, <1>6 DEF Folios, Counted

LEMMA FoliosCounted ==
  ASSUME NEW seen \in Folios
  PROVE  Counted(seen)
BY DEF Folios, Counted

\* A quantity is approved only if it is one.
LEMMA ApprovedQuantity ==
  ASSUME AccountInv, NEW s \in Signals, verdict[s] # None,
         Outcome(s).decision = "APPROVED"
  PROVE  Outcome(s).qty \in Nat \ {0}
<1> DEFINE price == quote[AssetOf[s]]
           stop == StopLossPrice(price, Policy)
           plan == Plan("BUY", Policy, snap[s], price)
<1>1. price \in Nat \ {0} /\ Policy \in RiskPolicies /\ Counted(snap[s])
  BY ValuesNat, FoliosCounted, PipelineAssumption DEF AccountInv
<1>2. Outcome(s).qty = plan.qty /\ plan.qty > 0
  BY <1>1, ApprovedExactly DEF Outcome
<1>3. plan.qty = PositionSize(price, stop, Policy, snap[s])
  BY <1>1 DEF Plan
<1>4. stop \in Int
  BY <1>1, PricesInt
<1> HIDE DEF price, stop, plan
<1> QED
  BY <1>1, <1>2, <1>3, <1>4, SizeInt

-----------------------------------------------------------------------------
(* Every step *)

LEMMA InitAccount == PipelineInit => AccountInv
<1> SUFFICES ASSUME PipelineInit
             PROVE  AccountInv
  OBVIOUS
<1>1. 0 \in 0..Policy.cooldown \cup {None}
  BY PipelineAssumption, PolicyNumbers
<1>2. /\ cash \in Nat /\ peak \in Nat /\ realized \in Int
      /\ sinceLoss \in 0..Policy.cooldown \cup {None}
      /\ quote \in [Assets -> Prices]
  BY PipelineAssumption DEF PipelineInit, Init
<1>3. book \in [Assets -> Positions]
  BY DEF PipelineInit, Init, Positions, Flat
<1>4. /\ verdict = [s \in Signals |-> None] /\ approval = [s \in Signals |-> None]
      /\ None # "APPROVED" /\ snap = [s \in Signals |-> None]
  BY PipelineAssumption DEF PipelineInit, Init
<1> QED
  BY <1>2, <1>3, <1>4 DEF AccountInv, Verdicts

LEMMA TakeSnapshotAccount ==
  ASSUME AccountInv, NEW s \in Signals, TakeSnapshot(s)
  PROVE  AccountInv'
<1>1. /\ verdict[s] = None /\ verdict' = [verdict EXCEPT ![s] = "PENDING"]
      /\ snap' = [snap EXCEPT ![s] = Folio]
      /\ peak' = RoundTicks(HighWater, Lot)
      /\ UNCHANGED <<approval, book, cash, quote, realized, sinceLoss>>
  BY DEF TakeSnapshot, ledgerVars
<1>2. peak' \in Nat
  BY <1>1, FolioCounts, RoundTicksInt, EngineAssumption
<1>3. Folio \in Folios
  BY FolioCounts
<1>4. /\ verdict' \in [Signals -> Verdicts]
      /\ \A t \in Signals : verdict'[t] = "APPROVED" <=> approval'[t] # None
  BY <1>1, PipelineAssumption DEF AccountInv, Verdicts
<1>5. \A t \in Signals : verdict'[t] # None => snap'[t] \in Folios
  BY <1>1, <1>3 DEF AccountInv
<1> QED
  BY <1>1, <1>2, <1>4, <1>5 DEF AccountInv

LEMMA DecideAccount ==
  ASSUME AccountInv, NEW s \in Signals, Decide(s)
  PROVE  AccountInv'
<1>1. /\ verdict[s] = "PENDING" /\ verdict[s] # None
      /\ verdict' = [verdict EXCEPT ![s] = Outcome(s).decision]
      /\ UNCHANGED <<book, cash, quote, peak, realized, sinceLoss, snap>>
  BY PipelineAssumption DEF Decide, Approve, ledgerVars, marketVars
<1>2. Outcome(s).decision \in {"APPROVED", "REJECTED"}
  BY DEF Outcome, Evaluate
<1>3. CASE Outcome(s).decision = "APPROVED"
  <2>1. approval' = [approval EXCEPT ![s] = Outcome(s).qty]
    BY <1>3 DEF Decide, Approve
  <2>2. Outcome(s).qty \in Nat \ {0} /\ Outcome(s).qty # None
    BY <1>1, <1>3, ApprovedQuantity, PipelineAssumption
  <2>3. /\ approval' \in [Signals -> (Nat \ {0}) \cup {None}]
        /\ verdict' \in [Signals -> Verdicts]
    BY <1>1, <1>2, <2>1, <2>2 DEF AccountInv, Verdicts
  <2>4. \A t \in Signals : verdict'[t] = "APPROVED" <=> approval'[t] # None
    BY <1>1, <1>3, <2>1, <2>2 DEF AccountInv
  <2> QED
    BY <1>1, <2>3, <2>4 DEF AccountInv
<1>4. CASE Outcome(s).decision # "APPROVED"
  <2>1. approval' = approval
    BY <1>4 DEF Decide, ledgerVars
  <2>2. verdict' \in [Signals -> Verdicts]
    BY <1>1, <1>2 DEF AccountInv, Verdicts
  <2>3. \A t \in Signals : verdict'[t] = "APPROVED" <=> approval'[t] # None
    BY <1>1, <1>4, <2>1 DEF AccountInv
  <2> QED
    BY <1>1, <2>1, <2>2, <2>3 DEF AccountInv
<1> QED
  BY <1>3, <1>4

LEMMA ExecuteSignalAccount ==
  ASSUME AccountInv, NEW s \in Signals, ExecuteSignal(s)
  PROVE  AccountInv'
<1> DEFINE a == AssetOf[s]
<1>1. a \in Assets /\ UNCHANGED <<quote, peak, realized, sinceLoss, snap, verdict>>
  BY PipelineAssumption DEF ExecuteSignal, marketVars
<1>2. CASE Buy(s, quote[a])
  <2> DEFINE update == ApplyBuyFill(book[a], approval[s], quote[a])
  <2>1. /\ approval' = approval /\ approval[s] # None
        /\ book' = [book EXCEPT ![a] = [qty |-> update.qty, avg |-> update.avg]]
        /\ cash' = CashAfterBuy(cash, approval[s], quote[a])
        /\ RequiredCash(approval[s], quote[a]) <= cash * Lot
    BY <1>2 DEF Buy, Affordable
  <2>2. approval[s] \in Nat \ {0} /\ quote[a] \in Nat /\ cash \in Nat
        /\ book[a].qty \in Nat /\ book[a].avg \in Nat
    BY <1>1, <2>1, ValuesNat DEF AccountInv
  <2>3. cash' \in Nat
    BY <2>1, <2>2, BuyLeavesCash
  <2>4. update.qty \in Nat /\ update.avg \in Nat
    <3>1. WeightedAverageEntry(book[a].qty, book[a].avg, approval[s], quote[a]) \in Nat
      BY <2>2, AverageNat
    <3> QED
      BY <2>2, <3>1 DEF ApplyBuyFill
  <2> HIDE DEF update
  <2>5. book' \in [Assets -> Positions]
    BY <2>1, <2>4 DEF AccountInv, Positions
  <2> QED
    BY <1>1, <2>1, <2>3, <2>5 DEF AccountInv
<1>3. CASE Reject(s, quote[a])
  <2>1. UNCHANGED <<approval, book, cash>>
    BY <1>3 DEF Reject
  <2> QED
    BY <1>1, <2>1 DEF AccountInv
<1> QED
  BY <1>2, <1>3 DEF ExecuteSignal

LEMMA ClosePositionAccount ==
  ASSUME AccountInv, NEW a \in Assets, ClosePosition(a)
  PROVE  AccountInv'
<1> DEFINE fee == Fee(book[a].qty, quote[a])
           pnl == RealizedPnl(book[a].avg, quote[a], book[a].qty, fee)
<1>1. /\ book' = [book EXCEPT ![a] = Flat]
      /\ cash' = CashAfterSell(cash, book[a].qty, quote[a], fee) /\ cash' >= 0
      /\ realized' = realized + pnl
      /\ sinceLoss' = IF pnl < 0 THEN 0 ELSE sinceLoss
      /\ UNCHANGED <<approval, quote, peak, snap, verdict>>
  BY DEF ClosePosition, Close
<1>2. quote[a] \in Nat /\ book[a].qty \in Nat /\ book[a].avg \in Nat /\ cash \in Nat
  BY ValuesNat DEF AccountInv
<1>3. fee \in Nat
  BY <1>2, FeeNat
<1>4. pnl \in Int
  BY <1>2, <1>3, RealizedInt
<1>5. cash' \in Nat
  <2>1. CashAfterSell(cash, book[a].qty, quote[a], fee) \in Int
    BY <1>2, <1>3, SellCashInt
  <2> QED
    BY <1>1, <2>1
<1> HIDE DEF fee, pnl
<1>6. realized' \in Int
  BY <1>1, <1>4 DEF AccountInv
<1>7. sinceLoss' \in 0..Policy.cooldown \cup {None}
  BY <1>1, <1>4, PipelineAssumption, PolicyNumbers DEF AccountInv
<1>8. book' \in [Assets -> Positions]
  BY <1>1 DEF AccountInv, Positions, Flat
<1> QED
  BY <1>1, <1>5, <1>6, <1>7, <1>8 DEF AccountInv

LEMMA TickAccount ==
  ASSUME AccountInv, Tick
  PROVE  AccountInv'
<1> DEFINE Aged(seen) == [seen EXCEPT !.lossAges = {Older(age) : age \in @}]
<1>1. /\ sinceLoss' = IF sinceLoss = None THEN None ELSE Older(sinceLoss)
      /\ snap' = [s \in Signals |-> IF verdict[s] = None THEN None ELSE Aged(snap[s])]
      /\ UNCHANGED <<approval, book, cash, quote, peak, realized, verdict>>
  BY DEF Tick, ledgerVars
<1>2. Policy.cooldown \in Nat
  BY PipelineAssumption, PolicyNumbers
<1>3. \A age \in Nat : Older(age) \in Nat
  BY <1>2 DEF Older
<1>4. \A age \in 0..Policy.cooldown : Older(age) \in 0..Policy.cooldown
  BY <1>2 DEF Older
<1>5. \A seen \in Folios : Aged(seen) \in Folios
  BY <1>3 DEF Folios
<1> HIDE DEF Aged
<1>6. \A s \in Signals : verdict'[s] # None => snap'[s] \in Folios
  BY <1>1, <1>5 DEF AccountInv
<1>7. sinceLoss' \in 0..Policy.cooldown \cup {None}
  BY <1>1, <1>4 DEF AccountInv
<1> QED
  BY <1>1, <1>6, <1>7 DEF AccountInv

LEMMA OtherStepsAccount ==
  ASSUME AccountInv,
         \/ \E a \in Assets : PriceMoves(a)
         \/ NewDay
         \/ UNCHANGED vars
  PROVE  AccountInv'
<1>1. CASE \E a \in Assets : PriceMoves(a)
  <2>1. PICK a \in Assets : PriceMoves(a)
    BY <1>1
  <2>2. PICK price \in Prices : quote' = [quote EXCEPT ![a] = price]
    BY <2>1 DEF PriceMoves
  <2>3. UNCHANGED <<approval, book, cash, peak, realized, sinceLoss, snap, verdict>>
    BY <2>1 DEF PriceMoves, ledgerVars
  <2>4. quote' \in [Assets -> Prices]
    BY <2>2 DEF AccountInv
  <2> QED
    BY <2>3, <2>4 DEF AccountInv
<1>2. CASE NewDay
  BY <1>2 DEF NewDay, ledgerVars, AccountInv
<1>3. CASE UNCHANGED vars
  BY <1>3 DEF vars, ledgerVars, marketVars, AccountInv
<1> QED
  BY <1>1, <1>2, <1>3

-----------------------------------------------------------------------------
(* The trade that was reviewed *)


\* A fill is a Buy of a signal whose snapshot had room.
LEMMA FillIsBuy ==
  ASSUME PipelineInv, [PipelineNext]_vars, NEW s \in Signals, FilledBy(s)
  PROVE  /\ verdict[s] = "APPROVED" /\ UNCHANGED quote
         /\ Buy(s, quote[AssetOf[s]])
<1>1. ReviewState
  BY DEF PipelineInv
<1>2. settled[s] = None /\ settled'[s] = "FILLED" /\ None # "FILLED"
  BY PipelineAssumption DEF FilledBy
<1>3. ASSUME NEW t \in Signals, ExecuteSignal(t)
      PROVE  t = s /\ Buy(s, quote[AssetOf[s]]) /\ verdict[s] = "APPROVED" /\ UNCHANGED quote
  <2>1. verdict[t] = "APPROVED" /\ UNCHANGED quote
    BY <1>3 DEF ExecuteSignal, marketVars
  <2>2. CASE Buy(t, quote[AssetOf[t]])
    <3>1. settled' = [settled EXCEPT ![t] = "FILLED"]
      BY <2>2 DEF Buy
    <3>2. t = s
      BY <1>1, <1>2, <3>1 DEF ReviewState
    <3> QED
      BY <2>1, <2>2, <3>2
  <2>3. CASE Reject(t, quote[AssetOf[t]])
    <3>1. settled' = [settled EXCEPT ![t] = "REJECTED"]
      BY <2>3 DEF Reject
    <3>2. FALSE
      BY <1>1, <1>2, <3>1 DEF ReviewState
    <3> QED
      BY <3>2
  <2> QED
    BY <1>3, <2>2, <2>3 DEF ExecuteSignal
<1>4. \E t \in Signals : ExecuteSignal(t)
  <2>1. settled' # settled
    BY <1>2
  <2>2. \A t \in Signals : ~TakeSnapshot(t) /\ ~Decide(t)
    BY <2>1 DEF TakeSnapshot, Decide, Approve, ledgerVars
  <2>3. \A a \in Assets : ~ClosePosition(a) /\ ~PriceMoves(a)
    BY <2>1 DEF ClosePosition, Close, PriceMoves, ledgerVars
  <2>4. ~Tick /\ ~NewDay /\ ~UNCHANGED vars
    BY <2>1 DEF Tick, NewDay, vars, ledgerVars
  <2> QED
    BY <2>2, <2>3, <2>4 DEF PipelineNext
<1> QED
  BY <1>3, <1>4

\* A trade adds its notional to the exposure.
LEMMA BuyAddsExposure ==
  ASSUME AccountInv, AccountInv', NEW s \in Signals, UNCHANGED quote,
         Buy(s, quote[AssetOf[s]])
  PROVE  /\ Exposure' = Exposure + Notional(approval[s], quote[AssetOf[s]])
         /\ Open' \subseteq Open \cup {AssetOf[s]}
<1> DEFINE a == AssetOf[s]
           update == ApplyBuyFill(book[a], approval[s], quote[a])
<1>1. a \in Assets /\ book' = [book EXCEPT ![a] = [qty |-> update.qty, avg |-> update.avg]]
      /\ approval[s] # None
  BY PipelineAssumption DEF Buy
<1>2. approval[s] \in Nat
  BY <1>1 DEF AccountInv
<1>3. \A b \in Assets : Values[b] \in Int /\ Values'[b] \in Int
  <2>1. \A b \in Assets : Values[b] \in Nat
    BY ValuesNat
  <2>2. \A b \in Assets : Values'[b] \in Nat
    <3>1. \A b \in Assets : book'[b].qty \in Nat /\ quote'[b] \in Nat
      BY PipelineAssumption DEF AccountInv, Positions
    <3> QED
      BY <3>1, FeeNat DEF Values
  <2> QED
    BY <2>1, <2>2
<1>4. /\ \A b \in Assets \ {a} : book'[b] = book[b]
      /\ book'[a].qty = book[a].qty + approval[s]
  BY <1>1 DEF AccountInv, ApplyBuyFill
<1>5. /\ \A b \in Assets : Values[b] = book[b].qty * quote[b]
      /\ \A b \in Assets : Values'[b] = book'[b].qty * quote[b]
  BY DEF Values, Notional
<1>6. \A b \in Assets \ {a} : Values'[b] = Values[b]
  BY <1>4, <1>5
<1>7. Values'[a] = Values[a] + Notional(approval[s], quote[a])
  <2>1. book[a].qty \in Nat /\ quote[a] \in Nat
    BY <1>1, ValuesNat
  <2>2. (book[a].qty + approval[s]) * quote[a] = book[a].qty * quote[a] + approval[s] * quote[a]
    BY <1>2, <2>1
  <2> QED
    BY <1>1, <1>4, <1>5, <2>2 DEF Notional
<1>8. Exposure' = SumFunctionOnSet(Values', Assets)
  BY DEF Exposure, Values, SumFunction
<1>9. Exposure' = Exposure + Values'[a] - Values[a]
  BY <1>1, <1>3, <1>6, <1>8, ExposureIsSum, PipelineAssumption, SumChanged
<1>10. Exposure \in Nat /\ Values[a] \in Int /\ Notional(approval[s], quote[a]) \in Int
  <2>1. quote[a] \in Nat
    BY <1>1, ValuesNat
  <2>2. Notional(approval[s], quote[a]) \in Nat
    BY <1>2, <2>1, FeeNat
  <2>3. Exposure \in Nat
    BY ExposureNat
  <2>4. Values[a] \in Int
    BY <1>1, <1>3
  <2> HIDE DEF a
  <2> QED
    BY <2>2, <2>3, <2>4
<1>11. Exposure' = Exposure + Notional(approval[s], quote[a])
  BY <1>7, <1>9, <1>10
<1>12. Open' \subseteq Open \cup {a}
  BY <1>4 DEF Open
<1> QED
  BY <1>11, <1>12

-----------------------------------------------------------------------------
(* Theorems *)

THEOREM PipelineInvariant == PipelineSpec => []PipelineInv
<1>1. PipelineInit => PipelineInv
  BY InitEstablishes
<1>2. PipelineInv /\ [PipelineNext]_vars => PipelineInv'
  BY TakeSnapshotKeeps, DecideKeeps, ExecuteSignalKeeps, ClosePositionKeeps,
     TickKeeps, OtherStepsKeep
  DEF PipelineNext
<1> QED
  BY <1>1, <1>2, PTL DEF PipelineSpec

\* However many signals there are and however stale the snapshots they were
\* approved on, open positions exceed the policy's cap by less than the number
\* of signals that may be in flight; with one at a time the cap is hard.
THEOREM CapBrokenOnlyByOverlap == PipelineSpec => []OverrunBounded
<1>1. PipelineInv => OverrunBounded
  BY Counts, Limits DEF PipelineInv, PlaceForEach, OverrunBounded
<1> QED
  BY <1>1, PipelineInvariant, PTL

THEOREM AccountInvariant == PipelineSpec => []AccountInv
<1>1. PipelineInit => AccountInv
  BY InitAccount
<1>2. AccountInv /\ [PipelineNext]_vars => AccountInv'
  BY TakeSnapshotAccount, DecideAccount, ExecuteSignalAccount, ClosePositionAccount,
     TickAccount, OtherStepsAccount
  DEF PipelineNext
<1> QED
  BY <1>1, <1>2, PTL DEF PipelineSpec

\* The account, the positions and the prices keep their types, and a signal is
\* APPROVED exactly when its approval carries a quantity.
THEOREM PipelineTypes == PipelineSpec => []PipelineTypeOK
BY AccountInvariant, AccountTypes, PTL

\* A signal that is filled at the price it was sized at, on the portfolio it
\* was reviewed on, leaves a portfolio inside the cap on positions, inside the
\* maximum exposure and out of debt, whatever the policy, the prices and the
\* rounding: execute_signal's fills and the Risk Engine's sizing agree on what
\* a quantity costs.
THEOREM ReviewedTradesKeepLimits == PipelineSpec => ReviewedTradeKeepsLimits
<1>1. ASSUME PipelineInv, AccountInv, AccountInv', [PipelineNext]_vars
      PROVE  \A s \in Signals : FilledBy(s) /\ StillAsReviewed(s) =>
               /\ Cardinality(Open') <= Policy.maxPositions
               /\ Exposure' * Whole <= Equity * Policy.maxExposure
               /\ cash' >= 0
  <2> SUFFICES ASSUME NEW s \in Signals, FilledBy(s), StillAsReviewed(s)
               PROVE  /\ Cardinality(Open') <= Policy.maxPositions
                      /\ Exposure' * Whole <= Equity * Policy.maxExposure
                      /\ cash' >= 0
    OBVIOUS
  <2> DEFINE a == AssetOf[s]
             qty == approval[s]
             price == quote[a]
             stop == StopLossPrice(price, Policy)
  <2>1. verdict[s] = "APPROVED" /\ UNCHANGED quote /\ Buy(s, price)
    BY <1>1, FillIsBuy
  <2>2. /\ Exposure' = Exposure + Notional(qty, price)
        /\ Open' \subseteq Open \cup {a}
    BY <1>1, <2>1, BuyAddsExposure
  <2>3. snap[s] = Folio /\ qty = Outcome(s).qty
    BY DEF StillAsReviewed
  <2>4. Cardinality(Open') <= Policy.maxPositions
    <3>1. RoomForOneMore(Policy, Folio)
      BY <1>1, <2>1, <2>3 DEF PipelineInv, ReviewState
    <3>2. Cardinality(Open) + 1 <= Policy.maxPositions
      BY <3>1 DEF RoomForOneMore, Folio
    <3>3. Cardinality(Open') \in Nat /\ Cardinality(Open') <= Cardinality(Open) + 1
      BY <2>2, Counts, OneMore
    <3> QED
      BY <3>2, <3>3, Counts, Limits
  <2>5. Exposure' * Whole <= Equity * Policy.maxExposure
    <3>1. a \in Assets /\ price \in Nat \ {0} /\ Policy \in RiskPolicies
      BY <1>1, PipelineAssumption, ValuesNat
    <3>2. Counted(Folio)
      BY <1>1, FolioCounts
    <3>3. stop \in Int
      BY <3>1, PricesInt
    <3>4. qty = PositionSize(price, stop, Policy, Folio)
      BY <2>3, <3>1 DEF Outcome, Evaluate, Plan
    <3>5. qty > 0
      <4>1. qty # None
        BY <2>1 DEF Buy
      <4> QED
        BY <1>1, <4>1 DEF AccountInv
    <3> HIDE DEF qty, stop, price, a
    <3>6. (Folio.exposure + Notional(qty, price)) * Whole <= OfEquity(Folio, Policy.maxExposure)
      BY <3>1, <3>2, <3>3, <3>4, <3>5, SizeWithinLimits
    <3>7. Folio.exposure = Exposure /\ Folio.equity = Equity
      BY DEF Folio
    <3> QED
      BY <2>2, <3>6, <3>7 DEF OfEquity
  <2>6. cash' >= 0
    BY <1>1 DEF AccountInv
  <2> QED
    BY <2>4, <2>5, <2>6
<1>2. PipelineSpec => [](PipelineInv /\ AccountInv)
  BY PipelineInvariant, AccountInvariant, PTL
<1>3. PipelineInv /\ AccountInv /\ AccountInv' /\ [PipelineNext]_vars =>
        [\A s \in Signals : FilledBy(s) /\ StillAsReviewed(s) =>
           /\ Cardinality(Open') <= Policy.maxPositions
           /\ Exposure' * Whole <= Equity * Policy.maxExposure
           /\ cash' >= 0]_vars
  BY <1>1
<1> QED
  BY <1>2, <1>3, PTL DEF PipelineSpec, ReviewedTradeKeepsLimits

=============================================================================
