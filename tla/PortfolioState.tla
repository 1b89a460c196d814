--------------------------- MODULE PortfolioState ---------------------------
(***************************************************************************)
(* compute_portfolio_state: sessions that add up the account's equity,     *)
(* ratchet its high-water mark and sum its fills, while trades commit, the *)
(* market moves and days end.  GET /paper/portfolio, every risk evaluation *)
(* and, twice, the command center run it.                                  *)
(*                                                                         *)
(* Trades are the atomic ones of PaperLedger, which PaperTrading           *)
(* implements; paper_fills is kept beside them.  A computation takes no    *)
(* lock, and get_quote commits between its reads; expire_on_commit is off, *)
(* so the account object keeps the cash and the peak of its first read.    *)
(***************************************************************************)
EXTENDS PaperLedger, Sequences, FiniteSets, Functions

CONSTANTS Readers, MaxDays  \* the sessions; bound: midnights in one behaviour

ASSUME PortfolioAssumption ==
  /\ IsFiniteSet(Assets)
  /\ AssetOf \in [Signals -> Assets]
  /\ Prices \subseteq Nat \ {0}
  /\ Sizes \subseteq Nat \ {0}
  /\ InitialCash \in Nat
  /\ MaxDays \in Nat
  /\ None \notin Nat

VARIABLES
  quote,     \* latest close of each asset, in ticks
  peak,      \* paper_accounts.peak_equity, in ticks
  fills,     \* paper_fills by timestamp: [asset, side, qty, fee, pnl]
  midnights, \* at each midnight so far, how many fills there were
  session,   \* what each computation holds
  report     \* the result it returned, until the next one begins, or None

vars == <<ledgerVars, quote, peak, fills, midnights, session, report>>
marketVars == <<ledgerVars, quote, fills, midnights>>

-----------------------------------------------------------------------------
(* paper_fills.  The timestamp is taken and committed under the account's  *)
(* lock, so the order of the rows is also the order of their commits.      *)

Sales(rows) == {i \in DOMAIN rows : rows[i].side = "SELL"}

Losses(rows) == {i \in Sales(rows) : rows[i].pnl < 0}

PnlOf(rows, S) == SumFunctionOnSet([i \in S |-> rows[i].pnl], S)

\* sum(realized_pnl), and the same since the last midnight.
RealizedTotal(rows) == PnlOf(rows, Sales(rows))

Today == IF midnights = <<>> THEN 0 ELSE midnights[Len(midnights)]

RealizedSince(rows, first) == PnlOf(rows, {i \in Sales(rows) : i > first})

\* The row of last_losing_trade_at, 0 if nothing was ever lost.
LastLoss(rows) ==
  IF Losses(rows) = {} THEN 0
  ELSE CHOOSE i \in Losses(rows) : \A j \in Losses(rows) : j <= i

Prefix(n) == SubSeq(fills, 1, n)

-----------------------------------------------------------------------------
(* A session.  Money in ticks / Lot, but realized and daily in ticks.      *)

\* The OPEN row of each asset: its quantity, its average, and which of the
\* asset's rows it is, a new one after every close.  quantity 0: there is none.
OpenRow(a) ==
  [qty |-> book[a].qty, avg |-> book[a].avg,
   row |-> Cardinality({i \in Sales(fills) : fills[i].asset = a})]

NoRows == [a \in Assets |-> [qty |-> 0, avg |-> 0, row |-> 0]]

NewSession ==
  [step |-> "idle", cash |-> 0, peak |-> 0, rows |-> NoRows, todo |-> {},
   value |-> 0, gain |-> 0, realized |-> 0, daily |-> 0,
   \* history: the fills there were when the account was read, and the
   \* midnight that counted when the day was summed
   from |-> 0, since |-> 0]

PortfolioInit ==
  /\ Init
  /\ quote \in [Assets -> Prices]
  /\ peak = InitialCash
  /\ fills = <<>>
  /\ midnights = <<>>
  /\ session = [r \in Readers |-> NewSession]
  /\ report = [r \in Readers |-> None]

ReadAccount(r) ==
  /\ session[r].step = "idle"
  /\ session' = [session EXCEPT ![r] =
       [NewSession EXCEPT !.step = "positions", !.cash = cash * Lot,
                          !.peak = peak * Lot, !.from = Len(fills)]]
  /\ report' = [report EXCEPT ![r] = None]
  /\ UNCHANGED <<marketVars, peak>>

ReadPositions(r) ==
  /\ session[r].step = "positions"
  /\ session' = [session EXCEPT ![r].step = "quotes", ![r].rows = [a \in Assets |-> OpenRow(a)],
                                ![r].todo = {a \in Assets : book[a].qty > 0}]
  /\ UNCHANGED <<marketVars, peak, report>>

\* pricing.compute_unrealized_pnl, in ticks / Lot.
UnrealizedPnl(row, price) == (price - row.avg) * row.qty

FetchQuote(r, a) ==
  LET row == session[r].rows[a]
  IN /\ session[r].step = "quotes"
     /\ a \in session[r].todo
     /\ session' = [session EXCEPT
          ![r].todo = @ \ {a},
          ![r].value = @ + Notional(row.qty, quote[a]),
          ![r].gain = @ + UnrealizedPnl(row, quote[a])]
     /\ UNCHANGED <<marketVars, peak, report>>

Equity(r) == session[r].cash + session[r].value

NewHigh(r) == Equity(r) > session[r].peak

\* The UPDATE writes what this session computed over whatever is there.
PeakWritten(r) == IF NewHigh(r) THEN RoundTicks(Equity(r), Lot) ELSE peak

PeakReported(r) == IF NewHigh(r) THEN Equity(r) ELSE session[r].peak

\* Compares with the peak first read and decides from the session's values
\* alone, so waiting for the account's row lock cannot change the outcome.
Ratchet(r) ==
  /\ session[r].step = "quotes"
  /\ session[r].todo = {}
  /\ peak' = PeakWritten(r)
  /\ session' = [session EXCEPT ![r].step = "total", ![r].peak = PeakReported(r)]
  /\ UNCHANGED <<marketVars, report>>

SumRealized(r) ==
  /\ session[r].step = "total"
  /\ session' = [session EXCEPT ![r].step = "daily", ![r].realized = RealizedTotal(fills)]
  /\ UNCHANGED <<marketVars, peak, report>>

\* Mutant: today's fills are read together with the account.
SumAsOfAccount(r) == RealizedSince(Prefix(session[r].from), Today)

SumToday(r) == RealizedSince(fills, Today)

SumDaily(r) ==
  /\ session[r].step = "daily"
  /\ session' = [session EXCEPT ![r].step = "loss", ![r].daily = SumToday(r),
                                ![r].since = Today]
  /\ UNCHANGED <<marketVars, peak, report>>

\* The result.  since, from and to are history, the last two of them the
\* fills there were at the first and at the last read.
Result(r) ==
  [cash |-> session[r].cash, equity |-> Equity(r), peak |-> session[r].peak,
   realized |-> session[r].realized, unrealized |-> session[r].gain,
   daily |-> session[r].daily, lastLoss |-> LastLoss(fills),
   positions |-> session[r].rows,
   since |-> session[r].since, from |-> session[r].from, to |-> Len(fills)]

FindLastLoss(r) ==
  /\ session[r].step = "loss"
  /\ report' = [report EXCEPT ![r] = Result(r)]
  /\ session' = [session EXCEPT ![r] = NewSession]
  /\ UNCHANGED <<marketVars, peak>>

\* An exception or a lost client: the ratchet, once committed, stays.
Abandon(r) ==
  /\ session[r].step # "idle"
  /\ session' = [session EXCEPT ![r] = NewSession]
  /\ UNCHANGED <<marketVars, peak, report>>

ComputeStep(r) ==
  \/ ReadAccount(r) \/ ReadPositions(r)
  \/ \E a \in Assets : FetchQuote(r, a)
  \/ Ratchet(r) \/ SumRealized(r) \/ SumDaily(r) \/ FindLastLoss(r)

-----------------------------------------------------------------------------
(* Around it: a trade commits, a new bar is ingested, a day ends. *)

BuyFill(s, price) ==
  [asset |-> AssetOf[s], side |-> "BUY", qty |-> approval[s],
   fee |-> Fee(approval[s], price), pnl |-> None]

SellFill(a, price) ==
  LET qty == book[a].qty
  IN [asset |-> a, side |-> "SELL", qty |-> qty, fee |-> Fee(qty, price),
      pnl |-> ApplySellFill(book[a], qty, price, Fee(qty, price)).pnl]

Trade ==
  /\ \/ \E s \in Signals : \/ /\ \/ \E qty \in Sizes : Approve(s, qty)
                                 \/ Reject(s, quote[AssetOf[s]])
                              /\ UNCHANGED fills
                           \/ /\ Buy(s, quote[AssetOf[s]])
                              /\ fills' = Append(fills, BuyFill(s, quote[AssetOf[s]]))
     \/ \E a \in Assets : /\ Close(a, quote[a])
                          /\ fills' = Append(fills, SellFill(a, quote[a]))
  /\ UNCHANGED <<quote, peak, midnights, session, report>>

Ingest(a) ==
  /\ \E p \in Prices \ {quote[a]} : quote' = [quote EXCEPT ![a] = p]
  /\ UNCHANGED <<ledgerVars, peak, fills, midnights, session, report>>

EndOfDay ==
  /\ Len(midnights) < MaxDays
  /\ midnights' = Append(midnights, Len(fills))
  /\ UNCHANGED <<ledgerVars, quote, peak, fills, session, report>>

Surroundings == Trade \/ (\E a \in Assets : Ingest(a)) \/ EndOfDay

PortfolioNext == (\E r \in Readers : ComputeStep(r) \/ Abandon(r)) \/ Surroundings

PortfolioSpec == PortfolioInit /\ [][PortfolioNext]_vars

-----------------------------------------------------------------------------
(* Properties *)

PortfolioTypeOK ==
  /\ cash \in Nat
  /\ quote \in [Assets -> Prices]
  /\ peak \in Nat
  /\ midnights \in Seq(0..Len(fills))
  /\ \A r \in Readers :
       /\ session[r].step \in {"idle", "positions", "quotes", "total", "daily", "loss"}
       /\ session[r].todo \in SUBSET Assets
       /\ {session[r].cash, session[r].peak, session[r].value} \subseteq Nat
       /\ session[r].from \in 0..Len(fills)

\* What the risk checks are told of losses is never older than the cash they
\* are told: a close that has paid into the reported cash counts in the
\* realized total, in the day's P/L if it is of today, and in the time of
\* the last loss.  The sums are read by later statements and may know more, the
\* day's sum more than the total, which is read before it.
LossesAreCounted ==
  \A r \in Readers : report[r] # None =>
    LET p == report[r]
    IN \E i, j \in p.from..p.to :
         /\ i <= j
         /\ p.realized = RealizedTotal(Prefix(i))
         /\ p.daily = RealizedSince(Prefix(j), p.since)
         /\ p.lastLoss >= LastLoss(Prefix(j))

BuyFees(n) ==
  LET bought == {i \in 1..n : fills[i].side = "BUY"}
  IN SumFunctionOnSet([i \in bought |-> fills[i].fee], bought)

\* What is held of an asset after its i-th fill: the BUYs since its last SELL.
HeldAfter(i) ==
  LET same == {j \in 1..i : fills[j].asset = fills[i].asset}
      since == {j \in same : \A k \in same : k >= j => fills[k].side = "BUY"}
  IN SumFunctionOnSet([j \in since |-> fills[j].qty], since)

\* Twice the rounding of a fill, in ticks / Lot: a BUY rounds the cash and the
\* average of every lot held, a SELL the cash and the P/L.
Rounding(i) == IF fills[i].side = "BUY" THEN Lot + HeldAfter(i) ELSE 2 * Lot

RoundingOf(n) == SumFunctionOnSet([i \in 1..n |-> Rounding(i)], 1..n)

Distance(m, n) == IF m >= n THEN m - n ELSE n - m

\* If nothing was traded between its first and its last read, a report is
\* true to the ledger: the equity gained is the total P/L less the fees of
\* the BUYs, which realized_pnl never contains, to the rounding of the fills.
ReportReconciles ==
  \A r \in Readers : report[r] # None /\ report[r].from = report[r].to =>
    LET p == report[r]
        gained == p.equity - InitialCash * Lot
        total == p.realized * Lot + p.unrealized
    IN 2 * Distance(gained, total - BuyFees(p.to) * Lot) <= RoundingOf(p.to)

\* The high-water mark is only ever ratcheted upward (docs/paper-trading.md
\* section 11, models/paper_trading.py PaperAccount).
PeakNeverFalls == [][peak' >= peak]_vars

=============================================================================
