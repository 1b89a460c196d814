---------------------------- MODULE PaperTrading ----------------------------
(***************************************************************************)
(* PaperTradingService: concurrent POST /paper/execute/{signal_id} and     *)
(* POST /paper/positions/{symbol}/close requests over one PostgreSQL       *)
(* database (READ COMMITTED, one session and one transaction per request). *)
(*                                                                         *)
(* Every await at which another request can run is a step boundary.  A     *)
(* transaction's writes become visible in the one step that commits them;  *)
(* the row locks it takes are held from the locking SELECT to that commit  *)
(* or to the rollback.  What a session has read into Python objects is     *)
(* kept in the session's own variables, so a stale object stays stale.     *)
(*                                                                         *)
(* A request writes at most one order, one fill and one new position row,  *)
(* so the request's name is those rows' primary key.                       *)
(***************************************************************************)
EXTENDS PaperEngine

CONSTANTS
  Requests,     \* the HTTP requests of a behaviour, each handled once
  Signals, Assets,
  AssetOf,      \* signals.asset_id
  Prices,       \* closes get_quote can return, in ticks
  Sizes,        \* calculated_position_size of an approval, in lots
  InitialCash,  \* paper_accounts.cash as seeded, in ticks
  None          \* SQL NULL, an absent row, an unowned lock

ASSUME TradingAssumption ==
  /\ AssetOf \in [Signals -> Assets]
  /\ Prices \subseteq Nat \ {0}
  /\ Sizes \subseteq Nat \ {0}
  /\ InitialCash \in Nat
  /\ None \notin Requests \cup Signals \cup Assets \cup Nat

VARIABLES
  \* tables
  signalStatus, \* signals.status
  approval,     \* risk_evaluations: size of the signal's latest approval
  orders, fills, positions,
  cash,         \* paper_accounts.cash
  \* row locks
  positionLock, accountLock,
  \* sessions
  pc,
  job,          \* what the request trades: [side, signal, asset, qty]
  price,        \* FillCalculation.price; its notional and fee follow from it
  found,        \* the position row the locking SELECT found
  held,         \* that row's values as loaded under the lock
  seen,         \* account.cash as loaded under the lock
  answer        \* the HTTP answer

signalVars == <<signalStatus, approval>>
bookVars == <<orders, fills, positions, cash>>
lockVars == <<positionLock, accountLock>>
sessionVars == <<pc, job, price, found, held, seen, answer>>
vars == <<signalVars, bookVars, lockVars, sessionVars>>

-----------------------------------------------------------------------------
(* Rows and sessions *)

Jobs == [side : {"BUY", "SELL"}, signal : Signals \cup {None},
         asset : Assets, qty : Nat]
OrderRows == [side : {"BUY", "SELL"}, signal : Signals \cup {None},
              asset : Assets, qty : Nat, status : {"FILLED", "REJECTED"}]
FillRows == [side : {"BUY", "SELL"}, asset : Assets, qty : Nat,
             price : Prices, fee : Nat, pnl : Int]
PositionRows == [asset : Assets, qty : Nat, avg : Nat, pnl : Int,
                 status : {"OPEN", "CLOSED"}]
Snapshots == [qty : Nat, avg : Nat, pnl : Int]

SignalStatuses == {"CANDIDATE", "RISK_APPROVED", "RISK_REJECTED", "SUPERSEDED"}
Steps == {"idle", "fill", "find", "lockPosition", "lockAccount", "write",
          "respond", "done"}
Answers == {"FILLED", "REJECTED", "404", "409", "422", "500"}

\* NULL is no row and no answer.
ASSUME NullAssumption ==
  None \notin Jobs \cup OrderRows \cup FillRows \cup PositionRows \cup Answers

NoSnapshot == [qty |-> 0, avg |-> 0, pnl |-> 0]

TypeOK ==
  /\ signalStatus \in [Signals -> SignalStatuses]
  /\ approval \in [Signals -> Sizes \cup {None}]
  /\ orders \in [Requests -> OrderRows \cup {None}]
  /\ fills \in [Requests -> FillRows \cup {None}]
  /\ positions \in [Requests -> PositionRows \cup {None}]
  /\ cash \in Nat
  /\ positionLock \in [Requests -> Requests \cup {None}]
  /\ accountLock \in Requests \cup {None}
  /\ pc \in [Requests -> Steps]
  /\ job \in [Requests -> Jobs \cup {None}]
  /\ price \in [Requests -> Prices \cup {None}]
  /\ found \in [Requests -> Requests \cup {None}]
  /\ held \in [Requests -> Snapshots]
  /\ seen \in [Requests -> Nat]
  /\ answer \in [Requests -> Answers \cup {None}]

Init ==
  /\ signalStatus = [s \in Signals |-> "CANDIDATE"]
  /\ approval = [s \in Signals |-> None]
  /\ orders = [r \in Requests |-> None]
  /\ fills = [r \in Requests |-> None]
  /\ positions = [r \in Requests |-> None]
  /\ cash = InitialCash
  /\ positionLock = [r \in Requests |-> None]
  /\ accountLock = None
  /\ pc = [r \in Requests |-> "idle"]
  /\ job = [r \in Requests |-> None]
  /\ price = [r \in Requests |-> None]
  /\ found = [r \in Requests |-> None]
  /\ held = [r \in Requests |-> NoSnapshot]
  /\ seen = [r \in Requests |-> 0]
  /\ answer = [r \in Requests |-> None]

-----------------------------------------------------------------------------
(* What a statement sees: committed rows only. *)

\* Mutant: the SELECT forgets WHERE status = 'OPEN'.
IsHeldOrClosed(p) == positions[p] # None

IsOpen(p) == positions[p] # None /\ positions[p].status = "OPEN"

OpenRows(a) == {p \in Requests : IsOpen(p) /\ positions[p].asset = a}

HasOrder(s) == \E r \in Requests : orders[r] # None /\ orders[r].signal = s

-----------------------------------------------------------------------------
(* The end of a request.  Commit and rollback both release every row lock  *)
(* the transaction holds.                                                  *)

\* Mutant: a position's lock outlives its transaction.
ReleaseAccountOnly(r) ==
  /\ accountLock' = IF accountLock = r THEN None ELSE accountLock
  /\ UNCHANGED positionLock

ReleaseLocks(r) ==
  /\ accountLock' = IF accountLock = r THEN None ELSE accountLock
  /\ positionLock' = [p \in Requests |->
                        IF positionLock[p] = r THEN None ELSE positionLock[p]]

Answer(r, a) ==
  /\ pc' = [pc EXCEPT ![r] = "done"]
  /\ answer' = [answer EXCEPT ![r] = a]
  /\ job' = [job EXCEPT ![r] = None]
  /\ price' = [price EXCEPT ![r] = None]
  /\ found' = [found EXCEPT ![r] = None]
  /\ held' = [held EXCEPT ![r] = NoSnapshot]
  /\ seen' = [seen EXCEPT ![r] = 0]

\* An exception leaves the handler: nothing staged survives.
Refuse(r, a) ==
  /\ Answer(r, a)
  /\ ReleaseLocks(r)
  /\ UNCHANGED <<signalVars, bookVars>>

-----------------------------------------------------------------------------
(* execute_signal and close_position up to the fill: unlocked reads.       *)

\* Why execute_signal refuses s, or None.  The four SELECTs are one step:
\* orders and approvals are never deleted, so the status, read first, is
\* the only one of them that another request can take back, and a status
\* taken back later changes nothing execute_signal reads again.
ExecutionRefusal(s) ==
  IF HasOrder(s) \/ signalStatus[s] # "RISK_APPROVED" THEN "409"
  ELSE IF approval[s] = None THEN "500"
  ELSE IF approval[s] <= 0 THEN "422"
  ELSE None

ExecuteSignal(r, s) ==
  /\ pc[r] = "idle"
  /\ ExecutionRefusal(s) = None
  /\ job' = [job EXCEPT ![r] = [side |-> "BUY", signal |-> s,
                                asset |-> AssetOf[s], qty |-> approval[s]]]
  /\ pc' = [pc EXCEPT ![r] = "fill"]
  /\ UNCHANGED <<signalVars, bookVars, lockVars, price, found, held, seen, answer>>

RefuseExecution(r, s) ==
  /\ pc[r] = "idle"
  /\ ExecutionRefusal(s) # None
  /\ Refuse(r, ExecutionRefusal(s))

\* The provisional read only sizes the fill; no lock is taken.
ClosePosition(r, a) ==
  /\ pc[r] = "idle"
  /\ \E p \in OpenRows(a) :
       job' = [job EXCEPT ![r] = [side |-> "SELL", signal |-> None,
                                  asset |-> a, qty |-> positions[p].qty]]
  /\ pc' = [pc EXCEPT ![r] = "fill"]
  /\ UNCHANGED <<signalVars, bookVars, lockVars, price, found, held, seen, answer>>

NothingToClose(r, a) ==
  /\ pc[r] = "idle"
  /\ OpenRows(a) = {}
  /\ Refuse(r, "404")

\* ExecutionAdapter.fill, and the commit inside get_quote that ends the
\* transaction: a lock held across this step would be lost.
GetFill(r) ==
  /\ pc[r] = "fill"
  /\ \E q \in Prices : price' = [price EXCEPT ![r] = q]
  /\ pc' = [pc EXCEPT ![r] = "find"]
  /\ ReleaseLocks(r)
  /\ UNCHANGED <<signalVars, bookVars, job, found, held, seen, answer>>

-----------------------------------------------------------------------------
(* The locking reads.  SELECT ... FOR UPDATE picks its row in the snapshot *)
(* taken when the statement starts, waits for the row's lock, then checks  *)
(* the WHERE clause again on the row as it is by then.                     *)

FindPosition(r) ==
  /\ pc[r] = "find"
  /\ \E p \in OpenRows(job[r].asset) : found' = [found EXCEPT ![r] = p]
  /\ pc' = [pc EXCEPT ![r] = "lockPosition"]
  /\ UNCHANGED <<signalVars, bookVars, lockVars, job, price, held, seen, answer>>

\* No row to lock: a BUY will open one.
FindNoPosition(r) ==
  /\ pc[r] = "find"
  /\ OpenRows(job[r].asset) = {}
  /\ job[r].side = "BUY"
  /\ pc' = [pc EXCEPT ![r] = "lockAccount"]
  /\ UNCHANGED <<signalVars, bookVars, lockVars, job, price, found, held, seen, answer>>

PositionGone(r) ==
  /\ pc[r] = "find"
  /\ OpenRows(job[r].asset) = {}
  /\ job[r].side = "SELL"
  /\ Refuse(r, "404")

\* Mutant: the position is read without FOR UPDATE.
ReadsPositionUnlocked(r) == pc[r] = "lockPosition"

CanLockPosition(r) == pc[r] = "lockPosition" /\ positionLock[found[r]] = None

\* Mutant: the row's quantity is compared with itself, as it would be without
\* populate_existing.
NeverChanged(r) == FALSE

\* close_position: the provisional quantity that sized the fee is stale.
QuantityChanged(r) == job[r].side = "SELL" /\ positions[found[r]].qty # job[r].qty

LockPosition(r) ==
  /\ CanLockPosition(r)
  /\ IsOpen(found[r])
  /\ ~QuantityChanged(r)
  /\ positionLock' = [positionLock EXCEPT ![found[r]] = r]
  /\ held' = [held EXCEPT ![r] = [qty |-> positions[found[r]].qty,
                                  avg |-> positions[found[r]].avg,
                                  pnl |-> positions[found[r]].pnl]]
  /\ pc' = [pc EXCEPT ![r] = "lockAccount"]
  /\ UNCHANGED <<signalVars, bookVars, accountLock, job, price, found, seen, answer>>

PositionChanged(r) ==
  /\ CanLockPosition(r)
  /\ IsOpen(found[r])
  /\ QuantityChanged(r)
  /\ Refuse(r, "409")

\* The row was closed during the wait.  The SELECT returns nothing, though
\* the row it waited for stays locked until the transaction ends.
LockClosedPosition(r) ==
  /\ CanLockPosition(r)
  /\ ~IsOpen(found[r])
  /\ job[r].side = "BUY"
  /\ positionLock' = [positionLock EXCEPT ![found[r]] = r]
  /\ found' = [found EXCEPT ![r] = None]
  /\ pc' = [pc EXCEPT ![r] = "lockAccount"]
  /\ UNCHANGED <<signalVars, bookVars, accountLock, job, price, held, seen, answer>>

PositionClosedMeanwhile(r) ==
  /\ CanLockPosition(r)
  /\ ~IsOpen(found[r])
  /\ job[r].side = "SELL"
  /\ Refuse(r, "404")

\* Mutant: get_account where get_account_for_update belongs.
ReadsAccountUnlocked(r) == pc[r] = "lockAccount"

CanLockAccount(r) == pc[r] = "lockAccount" /\ accountLock = None

LockAccount(r) ==
  /\ CanLockAccount(r)
  /\ accountLock' = r
  /\ seen' = [seen EXCEPT ![r] = cash]
  /\ pc' = [pc EXCEPT ![r] = "write"]
  /\ UNCHANGED <<signalVars, bookVars, positionLock, job, price, found, held, answer>>

-----------------------------------------------------------------------------
(* The writes: staged in the session, flushed and committed at once.       *)

OrderRow(r, qty, st) ==
  [side |-> job[r].side, signal |-> job[r].signal, asset |-> job[r].asset,
   qty |-> qty, status |-> st]

\* Mutant: the fee is forgotten in the cash check.
NotionalExceedsCash(r) == Notional(job[r].qty, price[r]) > seen[r] * Lot

\* required_cash > account.cash
Insufficient(r) == RequiredCash(job[r].qty, price[r]) > seen[r] * Lot

\* Mutant: no partial unique index.
NoOpenRowIndex(r) == FALSE

\* The partial unique index on (asset_id) WHERE status = 'OPEN'.
SecondOpenRow(r) == found[r] = None /\ OpenRows(job[r].asset) # {}

\* Mutant: no UNIQUE constraint; the earlier SELECT is the only check.
NoSignalIndex(r) == FALSE

\* The UNIQUE constraint on paper_orders.signal_id.
SignalTaken(r) == HasOrder(job[r].signal)

\* The flush of the order fails and is translated into the 409.
DuplicateOrder(r) ==
  /\ pc[r] = "write"
  /\ job[r].side = "BUY"
  /\ SignalTaken(r)
  /\ Refuse(r, "409")

Committed(r) ==
  /\ pc' = [pc EXCEPT ![r] = "respond"]
  /\ ReleaseLocks(r)
  /\ UNCHANGED <<signalVars, job, price, found, held, seen, answer>>

RejectOrder(r) ==
  /\ pc[r] = "write"
  /\ job[r].side = "BUY"
  /\ ~SignalTaken(r)
  /\ Insufficient(r)
  /\ orders' = [orders EXCEPT ![r] = OrderRow(r, job[r].qty, "REJECTED")]
  /\ UNCHANGED <<fills, positions, cash>>
  /\ Committed(r)

CommitBuy(r) ==
  LET qty == job[r].qty
      row == IF found[r] = None THEN r ELSE found[r]
      update == ApplyBuyFill(held[r], qty, price[r])
  IN /\ pc[r] = "write"
     /\ job[r].side = "BUY"
     /\ ~SignalTaken(r)
     /\ ~Insufficient(r)
     /\ ~SecondOpenRow(r)
     /\ orders' = [orders EXCEPT ![r] = OrderRow(r, qty, "FILLED")]
     /\ fills' = [fills EXCEPT ![r] =
          [side |-> "BUY", asset |-> job[r].asset, qty |-> qty,
           price |-> price[r], fee |-> Fee(qty, price[r]), pnl |-> update.pnl]]
     /\ positions' = [positions EXCEPT ![row] =
          [asset |-> job[r].asset, qty |-> update.qty, avg |-> update.avg,
           pnl |-> held[r].pnl, status |-> update.status]]
     /\ cash' = CashAfterBuy(seen[r], qty, price[r])
     /\ Committed(r)

\* The fill's fee and notional were sized by the provisional quantity.
SellFee(r) == Fee(job[r].qty, price[r])

CashFromSell(r) == CashAfterSell(seen[r], job[r].qty, price[r], SellFee(r))

CommitSell(r) ==
  LET qty == held[r].qty
      update == ApplySellFill(held[r], qty, price[r], SellFee(r))
  IN /\ pc[r] = "write"
     /\ job[r].side = "SELL"
     /\ CanSell(held[r], qty)
     /\ CashFromSell(r) >= 0
     /\ orders' = [orders EXCEPT ![r] = OrderRow(r, qty, "FILLED")]
     /\ fills' = [fills EXCEPT ![r] =
          [side |-> "SELL", asset |-> job[r].asset, qty |-> qty,
           price |-> price[r], fee |-> SellFee(r), pnl |-> update.pnl]]
     /\ positions' = [positions EXCEPT ![found[r]] =
          [asset |-> job[r].asset, qty |-> update.qty, avg |-> update.avg,
           pnl |-> held[r].pnl + update.pnl, status |-> update.status]]
     /\ cash' = CashFromSell(r)
     /\ Committed(r)

\* A constraint fails in the COMMIT's flush and nothing catches it: the
\* second OPEN row of an asset, or CHECK (cash >= 0) under a fee rate so
\* high that a sale costs more than it brings.
IntegrityError(r) ==
  /\ pc[r] = "write"
  /\ \/ /\ job[r].side = "BUY"
        /\ ~SignalTaken(r)
        /\ ~Insufficient(r)
        /\ SecondOpenRow(r)
     \/ job[r].side = "SELL" /\ CashFromSell(r) < 0
  /\ Refuse(r, "500")

Respond(r) ==
  /\ pc[r] = "respond"
  /\ Answer(r, orders[r].status)
  /\ UNCHANGED <<signalVars, bookVars, lockVars>>

\* The handler dies: an exception from a provider or the database, a lost
\* client, a killed process.  PostgreSQL rolls the transaction back.  After
\* the commit only the answer is lost.
Fail(r) ==
  /\ pc[r] \notin {"idle", "done"}
  /\ Refuse(r, "500")

-----------------------------------------------------------------------------
(* The rest of the pipeline, as this service sees it. *)

\* RiskService.evaluate_signal commits its decision and, for an approval,
\* the evaluation row with it.
RiskDecides(s) ==
  /\ signalStatus[s] = "CANDIDATE"
  /\ \/ \E n \in Sizes : /\ approval' = [approval EXCEPT ![s] = n]
                         /\ signalStatus' = [signalStatus EXCEPT ![s] = "RISK_APPROVED"]
     \/ /\ signalStatus' = [signalStatus EXCEPT ![s] = "RISK_REJECTED"]
        /\ UNCHANGED approval
  /\ UNCHANGED <<bookVars, lockVars, sessionVars>>

\* SignalService._persist overwrites whatever the status has become since it
\* read CANDIDATE.
Supersede(s) ==
  /\ signalStatus[s] # "SUPERSEDED"
  /\ signalStatus' = [signalStatus EXCEPT ![s] = "SUPERSEDED"]
  /\ UNCHANGED <<approval, bookVars, lockVars, sessionVars>>

-----------------------------------------------------------------------------

ExecuteStep(r) ==
  \/ \E s \in Signals : ExecuteSignal(r, s) \/ RefuseExecution(r, s)
  \/ FindNoPosition(r) \/ LockClosedPosition(r)
  \/ DuplicateOrder(r) \/ RejectOrder(r) \/ CommitBuy(r)

CloseStep(r) ==
  \/ \E a \in Assets : ClosePosition(r, a) \/ NothingToClose(r, a)
  \/ PositionGone(r) \/ PositionChanged(r) \/ PositionClosedMeanwhile(r)
  \/ CommitSell(r)

SharedStep(r) ==
  \/ GetFill(r) \/ FindPosition(r) \/ LockPosition(r) \/ LockAccount(r)
  \/ IntegrityError(r) \/ Respond(r)

Serve(r) == ExecuteStep(r) \/ CloseStep(r) \/ SharedStep(r)

Next ==
  \/ \E r \in Requests : Serve(r) \/ Fail(r)
  \/ \E s \in Signals : RiskDecides(s) \/ Supersede(s)

Spec == Init /\ [][Next]_vars

\* A request that has been accepted is run by the event loop until it
\* answers; nothing obliges a client to send one or a handler to fail.
Fairness == \A r \in Requests : WF_vars(pc[r] # "idle" /\ Serve(r))

FairSpec == Spec /\ Fairness

-----------------------------------------------------------------------------
(* Properties *)

\* A signal never has two orders, whatever requests for it overlap, fail and
\* are retried (execute_signal: the SELECT, then UNIQUE on signal_id).
OneOrderPerSignal ==
  \A q, r \in Requests :
    /\ orders[q] # None /\ orders[r] # None
    /\ orders[q].signal # None /\ orders[q].signal = orders[r].signal
    => q = r

\* An asset never has two OPEN positions, although two first BUYs can both
\* find none to lock (execute_signal's position insert).
OneOpenPositionPerAsset ==
  \A p, q \in Requests :
    IsOpen(p) /\ IsOpen(q) /\ positions[p].asset = positions[q].asset => p = q

\* What a session decides on under its locks is what the tables hold until it
\* commits: its cash and its position are never another's overwritten copy
\* (_get_open_position and get_account_for_update).
NoStaleWrite ==
  \A r \in Requests :
    /\ pc[r] = "write" => accountLock = r /\ seen[r] = cash
    /\ pc[r] \in {"lockAccount", "write"} /\ found[r] # None =>
         /\ positionLock[found[r]] = r
         /\ IsOpen(found[r])
         /\ held[r] = [qty |-> positions[found[r]].qty,
                       avg |-> positions[found[r]].avg,
                       pnl |-> positions[found[r]].pnl]

\* Every fill belongs to a FILLED order of the same side, asset and quantity,
\* every FILLED order has one, and the fee charged is the fee of the quantity
\* really traded (close_position sizes it before it holds the lock).
FillsMatchOrders ==
  \A r \in Requests :
    /\ fills[r] # None <=> orders[r] # None /\ orders[r].status = "FILLED"
    /\ fills[r] # None =>
         /\ fills[r].side = orders[r].side
         /\ fills[r].asset = orders[r].asset
         /\ fills[r].qty = orders[r].qty
         /\ fills[r].fee = Fee(fills[r].qty, fills[r].price)

\* History is never rewritten: a committed order or fill never changes, and a
\* CLOSED position is never touched or reopened (models/paper_trading.py: no
\* code path moves a FILLED or REJECTED order; a later BUY opens a new row).
HistoryIsFinal ==
  [][\A r \in Requests :
       /\ orders[r] # None => orders'[r] = orders[r]
       /\ fills[r] # None => fills'[r] = fills[r]
       /\ positions[r] # None /\ positions[r].status = "CLOSED"
            => positions'[r] = positions[r]]_vars

\* Every request that starts is answered: executes and closes that wait for
\* one another's locks never wait for ever.
EveryRequestAnswered ==
  \A r \in Requests : pc[r] # "idle" ~> pc[r] = "done"

=============================================================================
