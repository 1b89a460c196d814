----------------------------- MODULE RiskReview -----------------------------
(***************************************************************************)
(* The Risk Engine's verdict on one signal, while the policy is replaced,  *)
(* the portfolio changes and the price moves: every step is one change of  *)
(* what the verdict depends on, so that steps compare verdicts.            *)
(***************************************************************************)
EXTENDS RiskEngine

CONSTANTS
  Kinds,      \* signals.signal
  Policies,   \* policies PUT /risk/rules accepts
  Portfolios, \* portfolios compute_portfolio_state can report
  Entries     \* latest closes, in ticks

ASSUME ReviewAssumption ==
  /\ Policies \subseteq RiskPolicies
  /\ \A f \in Portfolios :
       /\ f.cash \in Nat /\ f.exposure \in Nat /\ f.count \in Nat
       /\ f.realizedToday \in Int /\ f.lossAges \subseteq Nat
       /\ f.equity = f.cash * Lot + f.exposure
       /\ f.highWater \in Nat /\ f.equity <= f.highWater
  /\ Entries \subseteq Nat \ {0}

VARIABLES kind, policy, folio, entry

reviewVars == <<kind, policy, folio, entry>>

Verdict == Evaluate(kind, policy, folio, entry)

ReviewInit ==
  /\ kind \in Kinds
  /\ policy \in Policies
  /\ folio \in Portfolios
  /\ entry \in Entries

UpdatePolicy ==
  /\ policy' \in Policies \ {policy}
  /\ UNCHANGED <<kind, folio, entry>>

PortfolioChanges ==
  /\ folio' \in Portfolios \ {folio}
  /\ UNCHANGED <<kind, policy, entry>>

EntryMoves ==
  /\ entry' \in Entries \ {entry}
  /\ UNCHANGED <<kind, policy, folio>>

ReviewNext == UpdatePolicy \/ PortfolioChanges \/ EntryMoves

ReviewSpec == ReviewInit /\ [][ReviewNext]_reviewVars

-----------------------------------------------------------------------------
(* Properties *)

\* An approved trade respects every limit at once, those no check looks at
\* included: what it can lose at its stop is within the risk budget, and its
\* notional within the cash, although stop, target and four quotients are
\* each rounded on their own (sizing.py compute_position_size).
ApprovedWithinEveryLimit ==
  LET trade == Verdict
      value == Notional(trade.qty, entry)
  IN trade.decision = "APPROVED" =>
       /\ trade.qty > 0
       /\ 0 < trade.stop /\ trade.stop < entry /\ entry < trade.take
       /\ trade.qty * (entry - trade.stop) * Whole <= OfEquity(folio, policy.riskPerTrade)
       /\ value * Whole <= OfEquity(folio, policy.maxPosition)
       /\ (folio.exposure + value) * Whole <= OfEquity(folio, policy.maxExposure)
       /\ value <= folio.cash * Lot

\* The later outcome allows no more than the earlier one.
NoMoreThan(later, earlier) ==
  /\ later.qty <= earlier.qty
  /\ later.decision = "APPROVED" => earlier.decision = "APPROVED"

\* q allows nothing that p does not.
Stricter(q, p) ==
  /\ q.enabled => p.enabled
  /\ q.maxPosition <= p.maxPosition
  /\ q.maxExposure <= p.maxExposure
  /\ q.maxDailyLoss <= p.maxDailyLoss
  /\ q.maxDrawdown <= p.maxDrawdown
  /\ q.riskPerTrade <= p.riskPerTrade
  /\ q.maxPositions <= p.maxPositions
  /\ q.cooldown >= p.cooldown
  /\ q.stopLoss = p.stopLoss /\ q.takeProfit = p.takeProfit

\* Tightening limits never lets a trade through that was refused, nor makes
\* one larger: sizing and checks pull the same way for every limit of a policy
\* (RiskEngine.evaluate).
StricterPolicyNeverApproves ==
  [][UNCHANGED <<kind, folio, entry>> /\ Stricter(policy', policy) =>
       NoMoreThan(Verdict', Verdict)]_reviewVars

\* g is at least as bad a state to trade in as f.
Worse(g, f) ==
  /\ g.equity <= f.equity
  /\ g.cash <= f.cash
  /\ g.highWater >= f.highWater
  /\ g.count >= f.count
  /\ g.exposure >= f.exposure
  /\ g.realizedToday <= f.realizedToday
  /\ f.lossAges \subseteq g.lossAges

\* Losing money, adding positions or exposure, or spending cash never turns a
\* refusal into an approval, nor makes the trade larger (RiskEngine.evaluate).
WorsePortfolioNeverApproves ==
  [][UNCHANGED <<kind, policy, entry>> /\ Worse(folio', folio) =>
       NoMoreThan(Verdict', Verdict)]_reviewVars

\* What is approved can be paid for: "the Risk Engine's own position sizing
\* already constrains the approved quantity to what cash allows"
\* (docs/paper-trading.md section 7), at the very price it was sized at.
ApprovedCanBePaid ==
  Verdict.decision = "APPROVED" => RequiredCash(Verdict.qty, entry) <= folio.cash * Lot

=============================================================================
