------------------------------ MODULE Pipeline ------------------------------
(***************************************************************************)
(* From review to order: the Risk Engine's limits against the trades that  *)
(* are actually made.  A review takes a snapshot of the portfolio          *)
(* (compute_portfolio_state), decides later at the quote of then, and      *)
(* nothing looks at the limits again when execute_signal fills the         *)
(* approval, whatever was traded, lost or moved in the meantime.           *)
(*                                                                         *)
(* Snapshot, decision and trade are each one step here; what can happen    *)
(* inside them is in PortfolioState, SignalLifecycle and PaperTrading.     *)
(***************************************************************************)
EXTENDS PaperLedger, RiskEngine, FiniteSets, Functions

CONSTANTS
  Policy,      \* the active policy
  MaxInFlight  \* bound: signals between snapshot and order at one time

ASSUME PipelineAssumption ==
  /\ IsFiniteSet(Signals) /\ IsFiniteSet(Assets)
  /\ AssetOf \in [Signals -> Assets]
  /\ Prices \subseteq Nat \ {0}
  /\ InitialCash \in Nat
  /\ Policy \in RiskPolicies
  /\ MaxInFlight \in Nat \ {0}
  /\ None \notin Nat
  /\ None \notin {"FILLED", "PENDING", "REJECTED", "APPROVED"}

VARIABLES
  quote,     \* latest close of each asset, in ticks
  peak,      \* paper_accounts.peak_equity, in ticks
  realized,  \* realized P/L of today's fills, in ticks
  sinceLoss, \* minutes since the last losing fill, up to the cooldown, or None
  snap,      \* the portfolio each signal's review has read, or None
  verdict    \* each signal's review: None, then PENDING, REJECTED or APPROVED

marketVars == <<quote, peak, realized, sinceLoss>>
vars == <<ledgerVars, marketVars, snap, verdict>>

Open == {a \in Assets : book[a].qty > 0}

Exposure ==
  LET value(a) == Notional(book[a].qty, quote[a])
  IN SumFunction([a \in Assets |-> value(a)])

Equity == cash * Lot + Exposure

HighWater == IF Equity > peak * Lot THEN Equity ELSE peak * Lot

\* Mutant: positions are not counted.
EmptyFolio ==
  [equity |-> Equity, cash |-> cash, highWater |-> HighWater, count |-> 0,
   exposure |-> Exposure, realizedToday |-> realized,
   lossAges |-> IF sinceLoss = None THEN {} ELSE {sinceLoss}]

\* What compute_portfolio_state reports now.
Folio ==
  [equity |-> Equity, cash |-> cash, highWater |-> HighWater,
   count |-> Cardinality(Open), exposure |-> Exposure, realizedToday |-> realized,
   lossAges |-> IF sinceLoss = None THEN {} ELSE {sinceLoss}]

\* Signals that have been looked at and are neither refused nor traded.
InFlight ==
  {s \in Signals : verdict[s] \in {"PENDING", "APPROVED"} /\ settled[s] = None}

PipelineInit ==
  /\ Init
  /\ quote \in [Assets -> Prices]
  /\ peak = InitialCash
  /\ realized = 0
  /\ sinceLoss = None
  /\ snap = [s \in Signals |-> None]
  /\ verdict = [s \in Signals |-> None]

-----------------------------------------------------------------------------
(* RiskService.evaluate_signal *)

TakeSnapshot(s) ==
  /\ verdict[s] = None
  /\ Cardinality(InFlight) < MaxInFlight
  /\ verdict' = [verdict EXCEPT ![s] = "PENDING"]
  /\ snap' = [snap EXCEPT ![s] = Folio]
  /\ peak' = RoundTicks(HighWater, Lot)
  /\ UNCHANGED <<ledgerVars, quote, realized, sinceLoss>>

Outcome(s) == Evaluate("BUY", Policy, snap[s], quote[AssetOf[s]])

Decide(s) ==
  LET outcome == Outcome(s)
  IN /\ verdict[s] = "PENDING"
     /\ verdict' = [verdict EXCEPT ![s] = outcome.decision]
     /\ IF outcome.decision = "APPROVED"
        THEN Approve(s, outcome.qty)
        ELSE UNCHANGED ledgerVars
     /\ UNCHANGED <<marketVars, snap>>

-----------------------------------------------------------------------------
(* PaperTradingService *)

ExecuteSignal(s) ==
  /\ verdict[s] = "APPROVED"
  /\ Buy(s, quote[AssetOf[s]]) \/ Reject(s, quote[AssetOf[s]])
  /\ UNCHANGED <<marketVars, snap, verdict>>

ClosePosition(a) ==
  LET fee == Fee(book[a].qty, quote[a])
      pnl == RealizedPnl(book[a].avg, quote[a], book[a].qty, fee)
  IN /\ Close(a, quote[a])
     /\ realized' = realized + pnl
     /\ sinceLoss' = IF pnl < 0 THEN 0 ELSE sinceLoss
     /\ UNCHANGED <<quote, peak, snap, verdict>>

-----------------------------------------------------------------------------
(* Time and the market. *)

PriceMoves(a) ==
  /\ \E price \in Prices \ {quote[a]} : quote' = [quote EXCEPT ![a] = price]
  /\ UNCHANGED <<ledgerVars, peak, realized, sinceLoss, snap, verdict>>

Older(age) == IF age < Policy.cooldown THEN age + 1 ELSE age

\* A minute passes for the last loss and for the losses reviews have read.
Tick ==
  /\ sinceLoss' = IF sinceLoss = None THEN None ELSE Older(sinceLoss)
  /\ snap' = [s \in Signals |->
       IF verdict[s] = None THEN None
       ELSE [snap[s] EXCEPT !.lossAges = {Older(age) : age \in @}]]
  /\ UNCHANGED <<ledgerVars, quote, peak, realized, verdict>>

\* Midnight UTC: the day's fills are yesterday's.
NewDay ==
  /\ realized' = 0
  /\ UNCHANGED <<ledgerVars, quote, peak, sinceLoss, snap, verdict>>

PipelineNext ==
  \/ \E s \in Signals : TakeSnapshot(s) \/ Decide(s) \/ ExecuteSignal(s)
  \/ \E a \in Assets : ClosePosition(a) \/ PriceMoves(a)
  \/ Tick \/ NewDay

PipelineSpec == PipelineInit /\ [][PipelineNext]_vars

-----------------------------------------------------------------------------
(* Properties *)

PipelineTypeOK ==
  /\ cash \in Nat
  /\ peak \in Nat
  /\ quote \in [Assets -> Prices]
  /\ realized \in Int
  /\ sinceLoss \in 0..Policy.cooldown \cup {None}
  /\ verdict \in [Signals -> {None, "PENDING", "APPROVED", "REJECTED"}]
  /\ \A a \in Assets : book[a].qty \in Nat /\ book[a].avg \in Nat
  /\ \A s \in Signals : verdict[s] = "APPROVED" <=> approval[s] # None

\* Approvals of old snapshots can break the cap on open positions, but never
\* by more than the signals that were in flight together, less one: an
\* approval needs a snapshot that had room (checks.py check 6).
OverrunBounded ==
  Cardinality(Open) <= Policy.maxPositions + MaxInFlight - 1

FilledBy(s) == settled[s] = None /\ settled'[s] = "FILLED"

\* The portfolio of the snapshot is still the portfolio, and the signal was
\* sized at the price it is filled at.
StillAsReviewed(s) ==
  /\ snap[s] = Folio
  /\ approval[s] = Outcome(s).qty

\* If nothing has changed since the review, the trade leaves a portfolio
\* inside the limits: fills and sizing agree on what a quantity costs
\* (sizing.py, checks.py, service.py execute_signal).
ReviewedTradeKeepsLimits ==
  [][\A s \in Signals : FilledBy(s) /\ StillAsReviewed(s) =>
       /\ Cardinality(Open') <= Policy.maxPositions
       /\ Exposure' * Whole <= Equity * Policy.maxExposure
       /\ cash' >= 0]_vars

\* "Hard cap on simultaneously open positions" (docs/risk-engine.md, section 2).
PositionCountCapped == Cardinality(Open) <= Policy.maxPositions

\* "A single position's cost basis can't exceed 5% of equity"
\* (docs/risk-engine.md, section 2), taken at the trade that made it so.
PositionSizeCapped ==
  [][\A s \in Signals : FilledBy(s) =>
       LET held == book'[AssetOf[s]]
       IN Notional(held.qty, held.avg) * Whole <= Equity * Policy.maxPosition]_vars

\* "One hour of no new entries after a losing trade closes"
\* (docs/risk-engine.md, section 2).
NoEntryWhileCooling ==
  [][\A s \in Signals : FilledBy(s) =>
       sinceLoss = None \/ sinceLoss = Policy.cooldown]_vars

=============================================================================
