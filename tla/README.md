# Market Pilot: a verification project in TLA+

Market Pilot turns market data into indicator features, features into trading
signals, signals into risk decisions, and approved signals into simulated
(paper) trades. It never places a real order. This directory models the part of
the back end (`apps/api/app`) in which several requests, each with its own
database session, read and write the same rows, together with the arithmetic
they do on them, checks the models with TLC and proves what matters most with
TLAPS.

Paths below are relative to the repository.

## 1. Inventory

| Part | State it keeps | Operations | Model |
|---|---|---|---|
| Paper trading engine (`services/paper_trading/engine.py`, `pricing.py`) | none; pure functions on a position snapshot | `apply_buy_fill`, `apply_sell_fill`, `compute_fill`, weighted average, realized and unrealized P/L | `PaperEngine`, `PositionLifecycle`; `PortfolioState` |
| Paper trading service (`paper_trading/service.py`, `execution.py`) | `paper_orders`, `paper_fills`, `paper_positions`, `paper_accounts` | `execute_signal`, `close_position` | `PaperTrading`, `PaperLedger`, `PaperTradingRefinement`, `PaperTradingAudit` |
| Portfolio state (`paper_trading/portfolio.py`) | `paper_accounts.peak_equity` | `compute_portfolio_state` | `PortfolioState`, `PortfolioPeak` |
| Signal service (`signal_engine/service.py`) | `signals` | `evaluate`, `_persist` | `SignalLifecycle` |
| Risk service (`risk_engine/service.py`) | `risk_evaluations`, `risk_policies`, `signals.status` | `evaluate_signal`, `update_policy` | `SignalLifecycle`, `Pipeline` |
| Risk engine (`risk_engine/checks.py`, `engine.py`, `sizing.py`) | none; eleven pure checks and a sizing formula | `RiskEngine.evaluate` | `RiskEngine`, `RiskReview`, `Pipeline` |
| Signal engine (`signal_engine/rules.py`, `scoring.py`, `engine.py`) | none | decision table and score over feature states | `SignalRules` |
| Technical analysis (`services/technical_analysis`) | none | indicator series; features and regime | `TechnicalAnalysis`; `SignalRules` |
| Market data (`services/market_data`) | `market_data` | `ingest`, `get_quote`, `get_history` | `MarketData` |
| AI analyst (`services/ai_analyst`) | `ai_analyses`, and the connection pool it shares | `analyze_signal` with cooldown, provider call and parser | `AIAnalyst` |
| Command center (`api/v1/command_center.py`) | none; one session, whose loaded rows live as long as the request | `get_command_center`: a dozen reads of five services in one answer | `CommandCenter` |
| API shell | none | sessions, error mapping | the session rules only |
| Web front end, Terraform, CI | | | not modelled |

How they meet. Every HTTP request gets one SQLAlchemy session
(`db/session.py`), `expire_on_commit=False`, over PostgreSQL at its default
READ COMMITTED. Services do not call each other with messages; they share rows:

- `SignalService.evaluate` inserts CANDIDATE signals and supersedes older ones.
- `RiskService.evaluate_signal` reads the active policy, the portfolio snapshot
  (which itself ratchets `peak_equity` and commits) and a quote (which ingests
  bars and commits), then locks the signal row and writes its decision.
- `PaperTradingService.execute_signal` needs that decision; it obtains a fill
  from the quote, then locks the open position and the account and writes.
- `close_position` does the same for a full sale of an asset's open position.
- `get_command_center` computes the portfolio twice, for its risk section and for
  its own, and reads positions, evaluations and fills in between and after. It
  shares its session, and so its loaded rows, among all of them.

What is hard in it: nearly every line is an `await` at which another request
can run; `get_quote` commits, which drops all row locks; objects once loaded
keep their values through later commits unless `populate_existing` is used;
some rows are protected by row locks, others by unique indexes only, others by
nothing; and a request can die at any await. What makes each part correct:

- engine: averages stay between the prices paid, P/L accounts for what moved;
- service: a signal trades at most once, an asset has one open position, cash
  and shares are conserved and never computed from stale values, history is
  final, every request is answered;
- portfolio: a report knows of every loss its cash contains, and reconciles with
  the fills if nothing was traded meanwhile; the peak is a true high-water mark;
- command center: its sections are read at different moments, and where they
  disagree the activity feed that comes with them explains it;
- signals and risk: whatever overlaps, commits are whole steps in some order: one
  decision per signal, one active policy, every status backed by an evaluation,
  every decision under a policy in force during its review, one candidate but
  for overlapping evaluations;
- risk engine: an approval is inside every limit at once, after all roundings,
  and a stricter policy or a worse portfolio never approves more;
- review to order: how far a trade may exceed the limits it was approved under;
- signal rules: the two directions are treated alike and an entry is confirmed;
- indicators: no value uses the future, none is early or late;
- market data: stored bars are final and concurrent answers agree;
- AI analyst: one analysis per cooldown but for overlap, nothing banned stored,
  every request answered.

`PROJECT.json` lists the hazards of the back end, each at the line where it bites
with the properties that would catch it.

## 2. The modules

**`PaperEngine`** is the arithmetic of `pricing.py` and `engine.py` in integers.
A price, a fee, cash and P/L count ticks (1e-8, `NUMERIC(20,8)`), a quantity
counts lots (1e-10, `NUMERIC(28,10)`), and `Lot` lots make one unit. A notional
is kept unrounded, as the code keeps it, until a column or an explicit
`quantize` rounds it half up. Python's `Decimal` context of 28 digits is taken
to be wide enough; a product of more digits than that is not modelled.

**`PositionLifecycle`** drives the engine with any sequence of BUYs and partial
or full SELLs, as its contract allows and its unit tests do, although the API
only closes in full. History variables (`flow`, `slack`, `low`, `high`) record
what the fills really moved.

**`PaperTrading`** is the service under concurrency. Its state is the four
tables, the signal status and approval it reads, the two kinds of row lock, and
per request what the session holds in Python objects. One action per stretch
of code between two awaits that matter:

| Action | Code |
|---|---|
| `ExecuteSignal`, `RefuseExecution` | `execute_signal` up to the fill: the signal, existing order, status, evaluation and size tests |
| `ClosePosition`, `NothingToClose` | `close_position` up to the fill |
| `GetFill` | `ExecutionAdapter.fill`; `get_quote` inside it commits, hence the release of locks |
| `FindPosition`, `FindNoPosition`, `PositionGone` | the snapshot of `SELECT ... FOR UPDATE` on the open position |
| `LockPosition`, `PositionChanged`, `LockClosedPosition`, `PositionClosedMeanwhile` | the end of that statement's wait, with the WHERE clause checked again on the current row |
| `LockAccount` | `get_account_for_update` |
| `DuplicateOrder`, `RejectOrder`, `CommitBuy`, `CommitSell`, `IntegrityError` | the writes, flush and commit, and what the constraints do to them |
| `Respond` | the reload and the answer |
| `Fail` | an exception, a lost client or a killed process at any await |
| `RiskDecides`, `Supersede` | what the other services do to the rows it reads |

A locking read is two steps on purpose: PostgreSQL picks the row in the
statement's snapshot, then waits, then re-evaluates the WHERE clause; so a BUY
that waited for a position someone else closed goes on without a row, and still
holds the lock of the closed one. A request writes at most one order, one fill
and one new position row, so the request's name serves as their primary key.

**`PaperLedger`** is the promise: one trade at a time, no requests, no locks.
**`PaperTradingRefinement`** maps `PaperTrading` onto it: a signal's order is
what became of it, an asset's one OPEN row is its position.
**`PaperTradingAudit`** adds up whole tables, with `SumFunction` of `Functions`.

**`PortfolioState`** composes `PaperLedger`'s atomic trades with any number of
overlapping `compute_portfolio_state` calls, one action per statement:

| Action | Code |
|---|---|
| `ReadAccount` | `get_account`; the object keeps its cash and peak to the end |
| `ReadPositions` | the SELECT of the OPEN positions |
| `FetchQuote` | one turn of the loop: `get_quote`, which commits, market value, unrealized P/L |
| `Ratchet` | equity, the comparison with the peak *it loaded*, the UPDATE and its commit, the drawdown |
| `SumRealized`, `SumDaily`, `FindLastLoss` | the three queries on `paper_fills` and the result |
| `Abandon` | an exception or a lost client |
| `Trade`, `Ingest`, `EndOfDay` | what commits around it: a trade and its fill, a bar, a midnight |

`fills` is `paper_fills` in the order of commits, which is that of the timestamps
because both are taken under the account's lock; a midnight is a position in it.
A report carries three history fields: the number of fills at its first and at
its last read, and the midnight its day began at. `LossesAreCounted` is the reason the sums
may come last: a review may hear of a loss before it hears of its cash, never the
other way round. The total, read before the day's sum, may miss a loss the day's
sum knows; neither misses one that the cash contains. `ReportReconciles` says what a report means when nothing was
traded under it: equity gained is realized plus unrealized P/L less the fees of
the BUYs, which no `realized_pnl` contains, to half a tick per rounding.

**`PortfolioPeak`** puts `reached` beside it, the highest equity the account
really had at any one moment.

**`CommandCenter`** is one request over `PortfolioState`: `Open` (the interval,
the market snapshot, the watchlist, signals, analyses and policy), the two
computations (`Compute`, which runs `PortfolioState`'s steps), `ListPositions`,
`ListEvaluations`, `ListFills` with the merge into the feed, and `GiveUp`.
`answer` holds the sections. `Card` is what SQLAlchemy's identity map makes of
`list_positions`: the WHERE clause sees the row of now, the object returned is
the one loaded by the portfolio section, with the quantity of then. A fill or an
evaluation is an event with a timestamp; the two sources are cut to
`PullLimit`, merged, sorted and cut to `ActivityLimit`.

**`SignalLifecycle`** is `SignalService.evaluate`, `RiskService.evaluate_signal`
and `update_policy` over one (asset, interval, strategy, version) key. What the
strategy says and what the nine soft checks say are free choices, so every
verdict is covered; the signal kind and the policy's `enabled` are real gates.
`Age` is the passing of the cooldown. `seen` is history: how many signal rows, or
policies, there were when a call began, so that what a call may still rest on can
be told from what it should have seen. A row's `created_at` is the database's
`now()`, the start of its transaction; `began` says how many rows there were
then, `born` which place it took when it was committed. `Latest` goes by `began`,
as the SELECT of `_persist` goes by `created_at`.

**`RiskPromise`** is what anyone may rely on who reads the tables of those two
services: `Emit` (a new candidate, and at most one signal superseded with it),
`Approve` and `Reject` (of a signal that is a candidate and has no verdict; an
approval only of a BUY, under a policy not paused), `Replace` (the next policy;
none is ever edited). No calls, sessions, locks or cooldown.
**`SignalLifecycleRefinement`** maps `SignalLifecycle` onto it: a signal's row
without its age, the one evaluation that refers to it, each policy's `enabled`.
`ImplementsPromise` says more than the invariants about the tables: no signal is
decided after it was superseded, decided twice, or decided and then offered
again, and no evaluation or policy is rewritten. `Emit` may supersede a signal
that has just been decided, because the code may (see
`OnlyCandidatesAreSuperseded` below).

**`RiskEngine`** is `checks.py`, `sizing.py` and `engine.py` as operators in the
units of `PaperEngine`; a percentage counts steps of 1/`Whole`. **`RiskReview`**
evaluates it while the policy is replaced, the portfolio changes and the price
moves; a step changes one of them, so an action property compares two verdicts.

**`Pipeline`** composes `PaperLedger` and `RiskEngine`: a review takes its
snapshot, decides later at the quote of then, and the order is filled later
still, at whatever price, with nothing looking at the limits again. Snapshot,
decision and trade are one step each; what happens inside them is in
`PortfolioState`, `SignalLifecycle` and `PaperTrading`. A day ends, a loss ages,
a price moves and a position is closed in between.

**`SignalRules`** goes from the readings of the last bar (the order of each pair
of averages, RSI, histogram, relative volume, range, number of bars) to
features, regime, BUY, SELL or HOLD, reasons and score. Its one variable is the
market; a step changes one reading, to compare two verdicts, and is not meant as
market dynamics. The trend checks are strict comparisons, as in the code, so a
tie counts as falling: a flat market is bearish, in the code as in the model.

**`TechnicalAnalysis`** is `indicators.py` and `TechnicalAnalysisEngine` on
sequences of bars, each series composed as the code composes it: running sums,
seeded averages, tails put back with an offset. `NewBar` appends a stored bar,
`MoveWindow` is the default window following the clock or a client's later
`start`. Arithmetic is exact: `Unit` is a multiple of every divisor met within
the bounds, ratios are whole percents. Bollinger's bands are their variance.

**`MarketData`** is `ingest`, `get_quote` and `get_history` for one asset. A bar
is known by its index, but the clock and a client's start and end are moments,
which may lie inside a bar (half a bar is enough to tell). The provider floors
both to bars (`BarIndex`), so it returns the bar that `start` falls into and the
batch stores it; the SELECT of a history compares timestamps with `start` itself
(`InRange`), so that bar is not in the answer. The default `start`, the clock
less a window, is such a start. The provider may tell every call something else. The INSERT of a batch goes row by
row, in the provider's order, and holds each row it inserts: another batch with
the same row waits (`RowHeld`), and then finds a conflict or a free place.
Prices are in half ticks, so that normalisation rounds half to even. A CHECK
constraint that fails, a lost connection or a failing provider ends a request.

**`AIAnalyst`** is `analyze_signal`: cooldown check, snapshot, risk evaluation,
provider call, parser, insert and refresh, one action per stretch between
awaits, with the connection each stretch needs (`held`, `PoolSize`).
`created_at` is the database's `now()`, the start of the transaction, which is
before the provider is called; `opened` carries it. A reply is a function from
field names to what they contain, a text being its set of phrases. `seen` is
history: how many rows there were when the request looked.

`MC*` modules give the constants their values for TLC; `*Proofs` modules hold
the theorems: `RiskProofs` those of `RiskReview` and `Pipeline`, `SignalProofs`
those of `SignalLifecycle` and `SignalRules`, `MarketProofs` those of `MarketData`
and `TechnicalAnalysis`, `CommandCenterProofs` those of `PortfolioState` too.

## 3. The runs

| Run | Question | Bounds | Distinct states |
|---|---|---|---|
| `position_lifecycle` | do averages and P/L survive rounding? | 5 fills, prices 1, 4, 7, quantities 1 to 3, Lot 2, fee 1/8 | 97,168 |
| `paper_trading` | double execution, lost update, stale fee, rewritten history, books that do not add up? | 3 requests, 2 signals on one asset and 1 on another, prices 2 and 5, size 3, cash 10 | 463,076 |
| `paper_trading_fair` | are trades serializable, is every request answered? | 3 requests, 2 signals on 1 asset, one price, one size, cash 2, no symmetry | 104,215 |
| `command_center` | does a report hide a loss, does it reconcile, does the feed explain what the sections disagree about? | 1 request, 2 signals on 1 asset, prices 2 and 5, size 3, cash 14, fee 1/2, 1 midnight, feed of 2 events | 2,912,392 |
| `signal_lifecycle` | are commits whole steps of the promise; one decision, one policy, under which policy, how many candidates? | 2 evaluations, 2 reviews, 2 updates, or 3 evaluations and 1 review; kinds BUY and HOLD | 476,205 |
| `risk_review` | is an approval inside every limit, and monotone? | 34 policies, 38 portfolios, 3 prices, 2 kinds | 7,752 |
| `pipeline` | how far can orders exceed what was reviewed? | 3 signals on 3 assets, 2 in flight, prices 2 and 5, cash 20 | 1,999,288 |
| `signal_rules` | are rules symmetric and entries confirmed? | every reading on each side of each threshold | 69,984 |
| `technical_analysis` | look-ahead, drift, warm-up? | 4 kinds of bars, histories up to 7, every window; periods 1, 2 and 3 | 145,636 |
| `market_data` | do concurrent answers agree, has an answer its own batch, is a quote monotone, does every batch end? | 2 requests, 2 bars in 3 moments, histories of 2 bars, 4 kinds of bar | 496,881 |
| `ai_analyst` | repeated analyses, banned text; does every request end? | 2 requests for 1 signal, 1 connection, cooldown 2 of 5 ticks | 152,268 |

Why the bounds are enough. Everything a request does to another goes through a
row both touch. Two requests give every pairwise race; the third is the
observer or the cause that makes a race reachable at all: a position must have
been opened before two others can race to close it, or to close and to add to
it. Two signals on one asset let requests meet on the same signal and on the same
position; the signal on another asset lets them meet on the cash alone. Size 3
at prices 2 and 5 with Lot 2 and a fee of 1/4 makes fees and notionals round
both ways, and the cash is on both sides of the cash check as purchases and
sales go by; in `paper_trading_fair` cash 2 pays for one lot, and for the next
only after a sale. Two reviews, two updates and two evaluations are
every pair of racing calls of a kind; the bound `Scenarios` of `MCSignalLifecycle`
lets a third evaluation come, which finds the candidates of two that overlapped
and supersedes one of them, where at most one review and no update is made. In
`MarketData` a start or an end at a bar's timestamp, inside a bar and past the
clock are all among the three moments; more than `MaxHistoryBars` bars do not fit
in them, and that refusal is the same step as the one of an empty range. No
counter is cut off in the middle of a behaviour: each request is handled once, so
behaviours end by themselves (`MaxFills` and `Scenarios` are the artificial
bounds). That is also why the configurations of
`PaperTrading`, `SignalLifecycle` and `PositionLifecycle` turn the deadlock
check off: a state in which all requests are answered has no successor, and
`EveryRequestAnswered` checks the waits instead. In `TechnicalAnalysis` the bars
run out at `MaxBars`. Every other run checks for
deadlock. The later modules bound time and amount by constants: `MaxInFlight`
(a scenario: how many signals are between review and order at once; the theorem
holds for any number), `Horizon` (the clock), `MaxBars`, `MaxHistoryBars`.
Percentages count tenths of equity, so a limit of one step is 10 %. In
`CommandCenter` one asset is enough, because what is torn is a position against
the cash, the cards and the feed; two signals let a BUY add to a position that a
section has already shown, a sale and the second BUY bring a new row of the same
asset, and with cash 14 and a fee of 1/2 a second BUY is possible after a gain and
refused after a loss. Both prices lie on both sides of every average. `MaxDays` is one midnight, which
falls before, between and after the sums; a feed of two events
(`ActivityLimit`) is shorter than the four to six events there can be, so
something is pushed out. In
`TechnicalAnalysis` periods 1 to 3 and seven bars let every series, the
histogram and %D included, run for at least three bars past its warm-up, and a
window move past it. In `AIAnalyst`
`Patience` keeps a request shorter than the cooldown: an attempt at the provider
times out after 30 seconds, and with the few attempts the SDK makes the call is
still far from the 15 minutes of the cooldown; two requests for one connection make one wait, and still overlap,
because the connection goes back between two statements. Symmetry is used over
requests, calls or signals that the specification never tells apart, and in no
run with a liveness property.

What is not inside the bounds: more than two assets, the true magnitudes of the
columns and their overflow, more than one account (the code seeds exactly one).

**Fairness.** `FairSpec` gives each *accepted* request weak fairness on its own
handler steps: the event loop resumes a started coroutine whenever what it
awaits is ready, and PostgreSQL wakes a waiter once the lock is free. A lock can
be taken again and again by others, but each request is handled once, so weak
fairness is enough. Nothing obliges a client to send a request, a handler to
fail, the Risk Engine to decide or a signal to be superseded. The run shows that
the two locks, always taken position first, account second, never deadlock.

In `MarketData` a request is *strongly* fair in its INSERT: the row it waits for
may be taken by one batch after another, but PostgreSQL queues waiters and wakes
them when the holder's transaction ends. The property would fail if batches took
their rows in different orders. In `AIAnalyst` weak fairness covers the timeouts
too: the SDK's ends a call, the pool's a wait, so one of them is always possible.

### What the code does not keep

One run looks for a behaviour that contradicts what the repository says, and
finds it: `portfolio_torn_read` (`PeakWasReached`). `docs/paper-trading.md` says
that equity is "always reconciled from the actual `cash` column plus the actual
current market value of actual open positions"; a BUY that commits between the
read of the cash and the read of the positions counts twice, and the invented
equity becomes the peak against which every later drawdown is measured.

The modules define other statements of the repository that their models refute.
No run is kept for them; adding the definition to the module's configuration as
an invariant (an action formula as a property) shows the behaviour, with the
change of bounds given here:

| Definition | The repository says | The code does |
|---|---|---|
| `PeakNeverFalls` (`PortfolioState`, two readers) | the peak is "ratcheted upward" (`docs/paper-trading.md`, `models/paper_trading.py`) | two overlapping computations each compare with the peak they loaded; the later commit lowers what the other raised |
| `OnlyCandidatesAreSuperseded` (`SignalLifecycle`) | an existing CANDIDATE is superseded | an approval committed between `_persist`'s SELECT and its UPDATE by key is overwritten |
| `NoDuplicateCandidate` (`SignalLifecycle`) | "No new row, no duplicate" within the cooldown | two evaluations that both found none insert two |
| `NoApprovalWhilePaused` (`SignalLifecycle`) | "no new approvals while risk evaluation is paused" | a review that read the policy before the pause approves after it |
| `ApprovedCanBePaid` (`RiskReview`) | the size is limited by the available cash | sizing spends all of the cash on the notional; the fee on top makes execution reject the order |
| `PositionCountCapped` (`Pipeline`) | open positions are capped | two signals reviewed on one snapshot are both filled |
| `PositionSizeCapped` (`Pipeline`, every signal on one asset, two positions allowed) | a position is capped | the cap looks at the new BUY alone; a second one adds to the position |
| `NoEntryWhileCooling` (`Pipeline`) | no new entry in the cooldown after a loss | an approval from before the loss is filled inside it |
| `ReasonsHold` (`SignalRules`) | volume is "at/above its recent average" | normal volume starts at 75 % of the average, and may be unknown |
| `Ema200IsInformational` (`SignalRules`) | "ema200/sma200 are informational" | with 200 bars it decides the regime |
| `HistoricalValuesAreReproducible` (`TechnicalAnalysis`) | a historical value is reproduced by running the function again | EMA, RSI and ATR depend on where the window starts |
| `MacdWarmUpAsDocumented` (`TechnicalAnalysis`) | MACD has 26 and 34 bars of warm-up | 25 and 33 |
| `QuoteIsNotFromTheFuture` (`MarketData`) | a quote is the latest bar "as of now" | a history request past the clock stores bars every later quote returns |
| `AnswerHasItsWholeBatch` (`MarketData`) | "first ensures the needed range is persisted, then reads it back" (`docs/market-data.md`) | the bar that an unaligned start falls into is persisted and not read back |
| `InsertsMeetTheChecks` (`MarketData`) | invalid rows are rejected before an insert | a price that rounds to zero is valid before rounding and fails the batch |
| `OneAnalysisPerCooldown` (`AIAnalyst`) | a burst of requests costs one call | overlapping requests each call and store |

`PeakNeverFalls` *does* hold with one computation at a time: the fault is the
overlap alone. `NoDuplicateCandidate` has a lasting effect: a later evaluation
supersedes only the newest candidate, so the other one can still be approved and
executed. `CandidatesOnlyByOverlap`, which `signal_lifecycle` checks, is what
remains true: there is one candidate more at most for each evaluation that overlapped
another. In the same way `DecidedByAPolicyInForce` is what remains of
`NoApprovalWhilePaused`, and `ReviewedTradeKeepsLimits` of the caps.

## 4. What is proved

Every invariant and every action property that a passing run checks is a theorem
as well, and so are the two refinements. The theorems hold for every number of
requests, signals and assets, every set of positive prices and sizes, every lot
size and every fee rate. They rest only on the named assumptions of the models:
`EngineAssumption` (Lot and FeeDen positive), `TradingAssumption` (types of the
constants, None distinct from everything), `NullAssumption` (NULL is no row and
no answer), `PromiseAssumption` (no more is None a row of `RiskPromise`),
`LifecycleAssumption`, `RiskAssumption`, `PipelineAssumption`,
`ReviewAssumption`, `MarketDataAssumption`, `AIAnalystAssumption`,
`PortfolioAssumption`, `CommandCenterAssumption`, `RulesAssumption` and
`TechnicalAnalysisAssumption`, which say of what type the constants are, that
there are finitely many signal evaluations and finitely many assets, that the
portfolios a review may read add up (equity is cash plus exposure, and no more
than the peak), that no bar has its low above its high (the validator and a
CHECK constraint), that MACD's fast period is not the longer one, and, for the
AI analyst, that no request outlasts the cooldown; and `AuditAssumption`, that
there are finitely many requests, without which a table has no sum.

**Both engines (`EngineProofs`).** Half-up rounding is within half a unit of the
quotient, monotone and exact on multiples; from that, what a fee, an average, a
realized P/L and a new cash balance can be. A quantity that is a quotient
rounded down, multiplied back, fits what was divided (`QuotientFits`), so the
smallest of the four quotients of sizing fits all four limits
(`SizeWithinLimits`); and a signal is approved exactly when it passes the checks
that do not depend on the size and the size is not zero (`ApprovedExactly`).
Sums over a table or over the fills of a sequence: `SubsetInduction`, induction
over the subsets of a finite set through a counterexample of least size, shows
that the fold behind `SumFunction` is defined and obeys its recursion, and then
what a change of one row does to the sum (`SumChanged`).

**`PositionLifecycleProofs`.** The inductive `LifecycleInv` adds to the two
properties the type facts they are computed with. A weighted
average of values between two integers rounds to a value between them
(`AverageStaysBetween`); each BUY drifts by at most half a tick per lot held and
each SELL by half a tick (`PnlReconciles`).

**`PaperTradingProofs`.** None of the safety properties is inductive alone: that
`CommitBuy` keeps `NoStaleWrite` needs that nobody else writes the row it has
locked; that it opens no second position needs the index; that fills match their
orders needs that a session has not written before. `TradingInv` is the
conjunction that is inductive:

- `JobsKnown`: a session past its first step trades a known quantity of a known
  asset, and from the fill on at a known price;
- `FoundAndHeld`: which row it has found, that the row is of its asset, and that
  a SELL holds exactly the quantity that sized its fill;
- `LocksOwned`: only a session between its first locking read and its commit owns
  a lock, and the account's only the one about to write;
- `RowsCommitted`: before its commit a request has no row of its own, after it an
  order;
- `SessionInv`, their conjunction with `NoStaleWrite`, and `BookInv`: one order
  per signal, one open row per asset, fills that match their orders;
- `TypeOK`, which here carries a real fact: cash, rounded at every write, stays
  at least zero.

Each action has its lemma. `TypeOK` and `StoredBarsAreFinal` are proved and not
run: the theorems say more than a small instance can. `TradingInvariant` combines them, and `TypeCorrect`,
`ExecutedAtMostOnce`, `NeverTwoOpenPositions`, `NeverStale`, `FillsAlwaysMatch`
and `HistoryNeverRewritten` follow.

*The refinement*, `TradesAreSerializable`: `CommitBuy` maps to the ledger's `Buy`,
`RejectOrder` to `Reject`, `CommitSell` to `Close`, `RiskDecides` to `Approve` and
every other step to a stutter. `LedgerInv` adds to `TradingInv` that an approval
is never changed and that the quantity a BUY took from it is still its quantity.
`NoStaleWrite` makes the trade happen at the ledger's cash and position although
both were loaded earlier; one order per signal and one open row per asset make
the mapping's choices independent of CHOOSE. `WrittenRowMoves` is the heart of
it: writing one row changes one asset of the mapped book.

*The audit*, `SharesAlwaysConserved` and `CashAlwaysReconciles`: `AuditInv` is
`TradingInv` with the two properties. A commit writes one fill and one position
row, so one term of each sum changes, by the same amount; a rounded balance
differs from the exact one by at most half a tick, which the fill it belongs to
pays for.

**`SignalProofs`, the life of a signal**, proves `OneEvaluationPerSignal`,
`StatusHasItsEvaluation`, `OneActivePolicy` and `DecidedByAPolicyInForce` for
any number of evaluations, reviews and updates. That `Decide` keeps the first
needs that its signal has not been decided, which is what the locked re-check
saw, and that nobody has changed the row since: `ReviewsKnown` says that a
review about to decide owns the signal's lock and that the signal is a
candidate, and `Persist`, which overwrites a status by key, waits for that lock.
`RunsKnown` keeps a new row from being one that an evaluation refers to. That
`Activate` leaves one active policy needs `UpdatesKnown`: the version an update
has read exists, so if the next one is free it is the last. `TableInv` is the
conjunction over the tables, `SessionInv` over the calls.
`StatusHasItsEvaluation` is proved and not run: `ImplementsPromise`, which is
run, implies it.

The same invariant proves the refinement, `LifecycleImplementsPromise`: `Persist`
maps to `Emit` (`PersistIsEmit`), a decision to `Approve` or `Reject`
(`DecideIsDecide`, where the lock and the candidate status of `ReviewsKnown` show
that the signal has no verdict yet), `Activate` to `Replace`, and every other step
to a stutter. `VerdictsMapped` makes the mapping's choice of an evaluation
independent of CHOOSE, from `OneEvaluationPerSignal`.

`OneCandidateButForOverlaps` bounds a count, and `OverlapInv` keeps that count. A
run's row is either the next after those it has seen or it is an overlap itself,
which the bound counts. In the first case nobody has added a candidate since the
run looked, and if there was one it has found one: its own row takes that one's
place. `SeenBefore` says that what a run has seen was there, `OthersCounted` that
without the one it will supersede the candidates are no more than the overlaps.
Which of several candidates the SELECT finds makes no difference.

**`RiskProofs`, from review to order**, proves `OverrunBounded` for every
policy, price and number of signals: open positions exceed the cap by less than
`MaxInFlight`. The invariant counts: a signal that passed the count check did so
on a snapshot, and only signals that were in flight with it can have opened
positions since. With one signal in flight the cap is hard.

`ReviewedTradesKeepLimits` proves the other property of the run. `AccountInv`
adds what an approval and a snapshot are: an APPROVED signal has a positive
quantity, which `Decide` keeps because of `ApprovedExactly`, and a snapshot is a
report in whole numbers, which `TakeSnapshot` keeps because exposure is a sum of
products that are not negative. A fill adds its notional, and nothing else, to
that sum (`BuyAddsExposure`); at the price it was sized at the notional is what
`SizeWithinLimits` bounds, the count had room by `ReviewState`, and the cash is
what `Affordable` left. That cash stays at least zero over a sale as well needs
the guard of `Close`, the CHECK constraint on the balance: with a fee rate above
100 % a sale may cost more than it brings.

**`RiskProofs`, one review**, proves the three properties of the Risk Engine for
every policy, portfolio and price. `ApprovedTradesKeepLimits` is
`SizeWithinLimits` for the plan that was approved. `StricterPoliciesAllowNoMore`
and `WorsePortfoliosAllowNoMore` are two uses of `HarsherAllowsNoMore`: every
check and every quotient of sizing is monotone in the policy and in the
portfolio. A worse portfolio has less equity under a higher peak, and the
drawdown, a ratio, is compared crosswise; that its limit is at most 100 % and
the peak no less than the equity is needed there.

**`MarketProofs`, the stored bars**, proves `AnswersAgree` and
`StoredBarsAreFinal` (a bar once stored is never changed) for any number of
requests, any range and any provider. `AnswersStored` (an answer holds what the
table holds) is the strengthening of the first; `HeldAlone` (a row an open
transaction inserted is in no other transaction and not in the table) is what
makes a commit overwrite nothing. The invariant says what the table and the
answers are, not that a row arrives: `BatchInv` follows each batch. A row put in
is held or stored already, at the commit all are stored, and the SELECT that
comes last shows those of them whose timestamps lie in the range asked for; from it follow `MarketDataTypes`,
`NothingAcceptedIsLost` and `QuotesNeverGoBack`, the last because the table only
grows.

**`AIAnalystProofs`** proves `RepeatsOnlyByOverlap` and `NothingBannedIsStored`.
`SawOnlyOldOnes` is the point of it: what a request saw when it looked was as old
as the cooldown, and its transaction, whose start becomes `created_at`, opened no
earlier than that; `Vetted` carries the parser's verdict to the insert.

**`CommandCenterProofs`, the account**, proves `LossesAreCounted` and
`ReportReconciles` for any number of computations. `PortfolioInv` has three parts.

- `AccountInv`, the columns against the ledger: the shares held are those bought
  since the last sale (`HeldIsBought`), and cash plus the cost of the positions
  differs from what the fills add up to by no more than they have rounded
  (`LedgerReconciles`): half a tick for the cash, half a tick for the P/L of a
  SELL, and for a BUY half a tick of the average on every lot then held, because
  the average of all of them is rounded again (`BoughtKeepsDrift`,
  `SoldKeepsDrift`).
- `SessionsInv`, what a computation holds: the cash it read is the account's
  unless there was a fill since, a row it read still stands or its asset was
  traded since, and each sum it has made is the sum over a prefix of the fills no
  older than the cash. The fills only grow, so none of that is undone by a later
  trade (`Grown`, `Kept`).
- `ReportsInv`, the two properties themselves for reports already made.

If nothing was traded between the first read and the last, all reads were of one
ledger, and the drift of that ledger is the error of the report.

**`CommandCenterProofs`, the answer**, proves `FeedExplainsTheMoney` and
`FeedExplainsTheCards` for any limit of the feed. `PagesInv` says of each section
that its reads are behind it in the ledger, and that a card which differs from the
portfolio section is of an asset traded since that section's first read; in a
finished answer, that the fills concerned are in the feed or older than all of it.
The rest is the feed: `After` is a strict total order, so a LIMIT keeps
exactly its number of events and what it drops is older than all it keeps, also
after the merge of two lists that were cut before (`FeedCoversFills`). A fill the feed has lost is
therefore older than every event it shows. `PortfolioAlone` says the same of
a computation outside a request, for the routes that report the portfolio alone.

**`SignalProofs`, the rules**, proves the four properties of `SignalRules` for
every reading a market can give: any integers for RSI, volume and range, any
number of bars. Each decision is brought to a comparison of counts (`TrendIs`,
`RegimeIs`, `SignalIs`, `ScoresIs`). The mirror swaps the checks that rise with
those that fall, hence the two counts (`MirrorIs`). Under 200 bars three checks
are available, which never split evenly (`QuietIsLong`). For `NoDirectReversal` a
step changes the order of averages, or the momentum, or neither, and an entry
needs both.

**`MarketProofs`, the indicators**, proves the three properties of
`TechnicalAnalysis` for any bars, any history and any periods. An answer being a
function of its window (`AnalysisInv`), they are facts about that function:

- *Defined where.* `Known(n, w, V)` are the series of n bars undefined for the
  first w. Each operator takes a `Known` series to a `Known` one, and warm-ups add
  up when an average is put back behind the series it averages
  (`PutBackKnown`, `MacdKnown`); `WarmUpHolds` follows. A ratio is defined because
  its divisor is not zero: a gain or a loss, a range of bars whose low is not above
  their high.
- *Prefixes.* `Agree(f, g, n)`: on the first n bars the two are the same. Every
  operator keeps it, the recursive averages because they begin alike and go on
  alike (`SameWalk`), so `LooksOnlyBack`.
- *Suffixes.* `Follows(f, g, d, w, n)`: past its first w values, f is g from the
  d-th on. A running sum without its first bar lacks that bar's value until the
  bar has left the window, and nothing after (`SmaForgets`); the windowed
  indicators keep `Follows`, and `ForgetsTheWindow` is the case d = 1. For EMA, RSI
  and ATR it is false (`HistoricalValuesAreReproducible`, above).

A series is the value of a recursive function over the bars. That there is one,
and that it obeys its recursion, is not taken for granted: `WalkExists` builds a
function on an interval from any base and any step. Its induction
(`IntervalInduction`) goes through a least counterexample, and takes the good
indices as a set and the steps as a function where a library theorem would take
operators.

Only model-checked: liveness under fairness (`EveryRequestAnswered`,
`EveryBatchEnds` and `EveryRequestEnds`), which the prover does not reach. What
the runs add for the rest is that the interesting cases happen, and the mutants
that the properties notice.

## 5. What is not modelled

The rounding of floating-point indicators; prompts, HTTP clients and provider payloads;
logging, configuration and health checks; list and get endpoints, which only
read, but for those the command center calls; its market snapshot, watchlist and
lists of signals and analyses; infrastructure. PostgreSQL's own deadlock detector, lock
timeouts and statement timeouts are not separate actions: their effect on a
request, an exception and a rollback, is `Fail`.

The front end is a set of React components that show what the API answers. Two
of them keep state across answers, and are exposed to hazards of their own: a
risk review, an execution or an analysis that answers after the user
chose another symbol is shown on the new symbol's card (`SignalCenter.tsx`,
whose handlers, unlike its loading effect, check no flag), and overlapping polls
of the command center may arrive out of order (`CommandCenter.tsx`). A model of
the cards would compose with `SignalLifecycle` as its server; it is planned.

The command center skips a watchlist symbol that raises, but if the exception came from the
database the transaction is aborted all the same and the next statement fails
the request. `GiveUp` has that outcome; which symbols cause it is not modelled.

## 6. Plan

Done: every module of section 2, and the proofs of section 4, which leave no
invariant and no action property of a passing run unproved.

Left: a model of the Signal Center of the front end as a client of
`SignalLifecycle`.
