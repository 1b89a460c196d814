-------------------------- MODULE PaperTradingProofs --------------------------
(***************************************************************************)
(* The safety properties of PaperTrading as theorems, for any number of    *)
(* requests, signals and assets, any prices, sizes, lot size and fee rate. *)
(*                                                                         *)
(* A property alone is not inductive: that a BUY's order is new follows    *)
(* from where its session stands, that its position row is current from    *)
(* the lock the session holds.  TradingInv adds those facts, LedgerInv     *)
(* what makes every commit a trade of PaperLedger, and AuditInv carries    *)
(* the sums over whole tables from trade to trade.                         *)
(***************************************************************************)
EXTENDS PaperTradingAudit, PaperTradingRefinement, EngineProofs

-----------------------------------------------------------------------------
(* The inductive invariant *)

Locking == {"lockAccount", "write"}

\* A session past its refusals knows what it trades.
JobsKnown ==
  \A r \in Requests :
    /\ pc[r] \notin {"idle", "done"} =>
         /\ job[r] \in Jobs
         /\ job[r].side = "BUY" => job[r].qty > 0
         /\ job[r].side = "SELL" => job[r].signal = None
    /\ pc[r] \notin {"idle", "fill", "done"} => price[r] \in Prices

\* What a session has found and loaded by each step.
FoundAndHeld ==
  \A r \in Requests :
    /\ pc[r] \in {"idle", "fill", "find"} => found[r] = None
    /\ pc[r] \in {"idle", "fill", "find", "lockPosition"} => held[r] = NoSnapshot
    /\ pc[r] = "lockPosition" => found[r] # None
    /\ pc[r] \in {"lockPosition"} \cup Locking /\ found[r] # None =>
         positions[found[r]] # None /\ positions[found[r]].asset = job[r].asset
    /\ pc[r] \in Locking /\ found[r] = None =>
         job[r].side = "BUY" /\ held[r] = NoSnapshot
    /\ pc[r] \in Locking /\ found[r] # None /\ job[r].side = "SELL" =>
         held[r].qty = job[r].qty

\* Only a session about to write holds a lock.
LocksOwned ==
  /\ \A p \in Requests : positionLock[p] # None => pc[positionLock[p]] \in Locking
  /\ accountLock # None => pc[accountLock] = "write"

\* A request has no row before its commit, and an order after it.
RowsCommitted ==
  \A r \in Requests :
    /\ pc[r] \notin {"respond", "done"} =>
         orders[r] = None /\ fills[r] = None /\ positions[r] = None
    /\ pc[r] = "respond" => orders[r] # None

SessionInv == JobsKnown /\ FoundAndHeld /\ LocksOwned /\ RowsCommitted /\ NoStaleWrite

BookInv == OneOrderPerSignal /\ OneOpenPositionPerAsset /\ FillsMatchOrders

TradingInv == TypeOK /\ SessionInv /\ BookInv

-----------------------------------------------------------------------------
(* The constants *)

\* An approval is never for nothing.
LEMMA SizesPositive == \A n \in Sizes : n \in Nat /\ n > 0
BY TradingAssumption

\* A fill price is never zero.
LEMMA PricesPositive == \A q \in Prices : q \in Nat /\ q > 0
BY TradingAssumption

-----------------------------------------------------------------------------
(* Steps that leave the tables alone *)

\* A refused or failed request leaves no trace but its answer.
LEMMA RefuseKeepsInv ==
  ASSUME TradingInv, NEW r \in Requests, NEW a \in Answers, Refuse(r, a)
  PROVE  TradingInv'
<1> USE DEF TradingInv, SessionInv, BookInv, Refuse, Answer, ReleaseLocks,
            signalVars, bookVars
<1>1. TypeOK'
  BY DEF TypeOK, Steps, Snapshots, NoSnapshot
<1>2. JobsKnown'
  BY DEF TypeOK, JobsKnown
<1>3. FoundAndHeld'
  BY DEF TypeOK, FoundAndHeld, Locking
<1>4. LocksOwned'
  BY TradingAssumption DEF TypeOK, LocksOwned, Locking
<1>5. RowsCommitted'
  BY DEF TypeOK, RowsCommitted
<1>6. NoStaleWrite'
  BY DEF TypeOK, NoStaleWrite, IsOpen
<1>7. BookInv'
  BY DEF OneOrderPerSignal, OneOpenPositionPerAsset, FillsMatchOrders, IsOpen
<1> QED
  BY <1>1, <1>2, <1>3, <1>4, <1>5, <1>6, <1>7


\* The answer after a commit.
LEMMA RespondKeepsInv ==
  ASSUME TradingInv, NEW r \in Requests, Respond(r)
  PROVE  TradingInv'
<1> USE DEF TradingInv, SessionInv, BookInv, Respond, Answer, signalVars,
            bookVars, lockVars
<1>1. TypeOK'
  BY TradingAssumption DEF TypeOK, Steps, Answers, OrderRows, Snapshots,
     NoSnapshot, RowsCommitted
<1>2. JobsKnown'
  BY TradingAssumption DEF TypeOK, JobsKnown
<1>3. FoundAndHeld'
  BY TradingAssumption DEF TypeOK, FoundAndHeld, Locking
<1>4. LocksOwned'
  BY TradingAssumption DEF TypeOK, LocksOwned, Locking
<1>5. RowsCommitted'
  BY DEF TypeOK, RowsCommitted
<1>6. NoStaleWrite'
  BY TradingAssumption DEF TypeOK, NoStaleWrite, IsOpen, FoundAndHeld,
     LocksOwned, Locking
<1>7. BookInv'
  BY DEF OneOrderPerSignal, OneOpenPositionPerAsset, FillsMatchOrders, IsOpen
<1> QED
  BY <1>1, <1>2, <1>3, <1>4, <1>5, <1>6, <1>7

\* An accepted execution trades the approved quantity, which is positive.
LEMMA ExecuteSignalKeepsInv ==
  ASSUME TradingInv, NEW r \in Requests, NEW s \in Signals, ExecuteSignal(r, s)
  PROVE  TradingInv'
<1> USE DEF TradingInv, SessionInv, BookInv, ExecuteSignal, signalVars,
            bookVars, lockVars
<1>0. /\ job' = [job EXCEPT ![r] = job'[r]]
      /\ job'[r] \in Jobs /\ job'[r].side = "BUY" /\ job'[r].qty > 0
  <2>1. approval[s] \in Sizes /\ AssetOf[s] \in Assets
    <3>1. None # "409" /\ None # "500"
      BY NullAssumption DEF Answers
    <3>2. approval[s] # None
      BY <3>1 DEF ExecutionRefusal
    <3> QED
      BY <3>2, TradingAssumption DEF TypeOK
  <2>2. approval[s] \in Nat /\ approval[s] > 0
    BY <2>1, SizesPositive
  <2>3. /\ job' = [job EXCEPT ![r] = job'[r]]
        /\ job'[r] = [side |-> "BUY", signal |-> s, asset |-> AssetOf[s],
                      qty |-> approval[s]]
    BY DEF TypeOK
  <2> QED
    BY <2>1, <2>2, <2>3 DEF Jobs
<1>1. TypeOK'
  BY <1>0 DEF TypeOK, Steps
<1>2. JobsKnown'
  BY <1>0 DEF TypeOK, JobsKnown
<1>3. FoundAndHeld'
  BY TradingAssumption DEF TypeOK, FoundAndHeld, Locking
<1>4. LocksOwned'
  BY TradingAssumption DEF TypeOK, LocksOwned, Locking
<1>5. RowsCommitted'
  BY DEF TypeOK, RowsCommitted
<1>6. NoStaleWrite'
  BY TradingAssumption DEF TypeOK, NoStaleWrite, IsOpen, FoundAndHeld,
     LocksOwned, Locking
<1>7. BookInv'
  BY DEF OneOrderPerSignal, OneOpenPositionPerAsset, FillsMatchOrders, IsOpen
<1> QED
  BY <1>1, <1>2, <1>3, <1>4, <1>5, <1>6, <1>7

\* An accepted close trades what an open row held.
LEMMA ClosePositionKeepsInv ==
  ASSUME TradingInv, NEW r \in Requests, NEW a \in Assets, ClosePosition(r, a)
  PROVE  TradingInv'
<1> USE DEF TradingInv, SessionInv, BookInv, ClosePosition, OpenRows, IsOpen,
            signalVars, bookVars, lockVars
<1>1. TypeOK'
  BY TradingAssumption DEF TypeOK, Steps, Jobs, PositionRows
<1>2. JobsKnown'
  BY TradingAssumption DEF TypeOK, JobsKnown, Jobs, PositionRows
<1>3. FoundAndHeld'
  BY TradingAssumption DEF TypeOK, FoundAndHeld, Locking
<1>4. LocksOwned'
  BY TradingAssumption DEF TypeOK, LocksOwned, Locking
<1>5. RowsCommitted'
  BY DEF TypeOK, RowsCommitted
<1>6. NoStaleWrite'
  BY TradingAssumption DEF TypeOK, NoStaleWrite, IsOpen, FoundAndHeld,
     LocksOwned, Locking
<1>7. BookInv'
  BY DEF OneOrderPerSignal, OneOpenPositionPerAsset, FillsMatchOrders, IsOpen
<1> QED
  BY <1>1, <1>2, <1>3, <1>4, <1>5, <1>6, <1>7

\* The commit inside get_quote finds no lock to lose.
LEMMA GetFillKeepsInv ==
  ASSUME TradingInv, NEW r \in Requests, GetFill(r)
  PROVE  TradingInv'
<1> USE DEF TradingInv, SessionInv, BookInv, GetFill, ReleaseLocks, signalVars,
            bookVars
<1>1. TypeOK'
  BY TradingAssumption DEF TypeOK, Steps
<1>2. JobsKnown'
  BY TradingAssumption DEF TypeOK, JobsKnown
<1>3. FoundAndHeld'
  BY TradingAssumption DEF TypeOK, FoundAndHeld, Locking
<1>4. LocksOwned'
  BY TradingAssumption DEF TypeOK, LocksOwned, Locking
<1>5. RowsCommitted'
  BY DEF TypeOK, RowsCommitted
<1>6. NoStaleWrite'
  BY TradingAssumption DEF TypeOK, NoStaleWrite, IsOpen, FoundAndHeld,
     LocksOwned, Locking
<1>7. BookInv'
  BY DEF OneOrderPerSignal, OneOpenPositionPerAsset, FillsMatchOrders, IsOpen
<1> QED
  BY <1>1, <1>2, <1>3, <1>4, <1>5, <1>6, <1>7

\* The row found is one of the asset the session trades.
LEMMA FindPositionKeepsInv ==
  ASSUME TradingInv, NEW r \in Requests, FindPosition(r)
  PROVE  TradingInv'
<1> USE DEF TradingInv, SessionInv, BookInv, FindPosition, OpenRows, IsOpen,
            signalVars, bookVars, lockVars
<1>1. TypeOK'
  BY TradingAssumption DEF TypeOK, Steps
<1>2. JobsKnown'
  BY TradingAssumption DEF TypeOK, JobsKnown
<1>3. FoundAndHeld'
  BY TradingAssumption DEF TypeOK, FoundAndHeld, Locking
<1>4. LocksOwned'
  BY TradingAssumption DEF TypeOK, LocksOwned, Locking
<1>5. RowsCommitted'
  BY DEF TypeOK, RowsCommitted
<1>6. NoStaleWrite'
  BY TradingAssumption DEF TypeOK, NoStaleWrite, IsOpen, FoundAndHeld,
     LocksOwned, Locking
<1>7. BookInv'
  BY DEF OneOrderPerSignal, OneOpenPositionPerAsset, FillsMatchOrders, IsOpen
<1> QED
  BY <1>1, <1>2, <1>3, <1>4, <1>5, <1>6, <1>7

\* Only a BUY goes on without a position.
LEMMA FindNoPositionKeepsInv ==
  ASSUME TradingInv, NEW r \in Requests, FindNoPosition(r)
  PROVE  TradingInv'
<1> USE DEF TradingInv, SessionInv, BookInv, FindNoPosition, signalVars,
            bookVars, lockVars
<1>1. TypeOK'
  BY TradingAssumption DEF TypeOK, Steps
<1>2. JobsKnown'
  BY TradingAssumption DEF TypeOK, JobsKnown
<1>3. FoundAndHeld'
  BY TradingAssumption DEF TypeOK, FoundAndHeld, Locking
<1>4. LocksOwned'
  BY TradingAssumption DEF TypeOK, LocksOwned, Locking
<1>5. RowsCommitted'
  BY DEF TypeOK, RowsCommitted
<1>6. NoStaleWrite'
  BY TradingAssumption DEF TypeOK, NoStaleWrite, IsOpen, FoundAndHeld,
     LocksOwned, Locking
<1>7. BookInv'
  BY DEF OneOrderPerSignal, OneOpenPositionPerAsset, FillsMatchOrders, IsOpen
<1> QED
  BY <1>1, <1>2, <1>3, <1>4, <1>5, <1>6, <1>7

\* What is loaded under the lock is the row, and no other session holds it.
LEMMA LockPositionKeepsInv ==
  ASSUME TradingInv, NEW r \in Requests, LockPosition(r)
  PROVE  TradingInv'
<1> USE DEF TradingInv, SessionInv, BookInv, LockPosition, CanLockPosition,
            IsOpen, QuantityChanged, signalVars, bookVars
<1>1. TypeOK'
  BY TradingAssumption DEF TypeOK, Steps, Snapshots, PositionRows, FoundAndHeld
<1>2. JobsKnown'
  BY TradingAssumption DEF TypeOK, JobsKnown
<1>3. FoundAndHeld'
  BY TradingAssumption DEF TypeOK, FoundAndHeld, Locking
<1>4. LocksOwned'
  BY TradingAssumption DEF TypeOK, LocksOwned, Locking
<1>5. RowsCommitted'
  BY DEF TypeOK, RowsCommitted
<1>6. NoStaleWrite'
  BY TradingAssumption DEF TypeOK, NoStaleWrite, IsOpen, FoundAndHeld,
     LocksOwned, Locking
<1>7. BookInv'
  BY DEF OneOrderPerSignal, OneOpenPositionPerAsset, FillsMatchOrders, IsOpen
<1> QED
  BY <1>1, <1>2, <1>3, <1>4, <1>5, <1>6, <1>7

\* A BUY that waited for a row closed meanwhile goes on as if it had found none.
LEMMA LockClosedPositionKeepsInv ==
  ASSUME TradingInv, NEW r \in Requests, LockClosedPosition(r)
  PROVE  TradingInv'
<1> USE DEF TradingInv, SessionInv, BookInv, LockClosedPosition,
            CanLockPosition, signalVars, bookVars
<1>1. TypeOK'
  BY TradingAssumption DEF TypeOK, Steps
<1>2. JobsKnown'
  BY TradingAssumption DEF TypeOK, JobsKnown
<1>3. FoundAndHeld'
  BY TradingAssumption DEF TypeOK, FoundAndHeld, Locking
<1>4. LocksOwned'
  BY TradingAssumption DEF TypeOK, LocksOwned, Locking
<1>5. RowsCommitted'
  BY DEF TypeOK, RowsCommitted
<1>6. NoStaleWrite'
  BY TradingAssumption DEF TypeOK, NoStaleWrite, IsOpen, FoundAndHeld,
     LocksOwned, Locking
<1>7. BookInv'
  BY DEF OneOrderPerSignal, OneOpenPositionPerAsset, FillsMatchOrders, IsOpen
<1> QED
  BY <1>1, <1>2, <1>3, <1>4, <1>5, <1>6, <1>7

\* The cash loaded under the account's lock is the cash.
LEMMA LockAccountKeepsInv ==
  ASSUME TradingInv, NEW r \in Requests, LockAccount(r)
  PROVE  TradingInv'
<1> USE DEF TradingInv, SessionInv, BookInv, LockAccount, CanLockAccount,
            signalVars, bookVars
<1>1. TypeOK'
  BY TradingAssumption DEF TypeOK, Steps
<1>2. JobsKnown'
  BY TradingAssumption DEF TypeOK, JobsKnown
<1>3. FoundAndHeld'
  BY TradingAssumption DEF TypeOK, FoundAndHeld, Locking
<1>4. LocksOwned'
  BY TradingAssumption DEF TypeOK, LocksOwned, Locking
<1>5. RowsCommitted'
  BY DEF TypeOK, RowsCommitted
<1>6. NoStaleWrite'
  BY TradingAssumption DEF TypeOK, NoStaleWrite, IsOpen, FoundAndHeld,
     LocksOwned, Locking
<1>7. BookInv'
  BY DEF OneOrderPerSignal, OneOpenPositionPerAsset, FillsMatchOrders, IsOpen
<1> QED
  BY <1>1, <1>2, <1>3, <1>4, <1>5, <1>6, <1>7

\* Decisions taken elsewhere touch no row of this service.
LEMMA PipelineKeepsInv ==
  ASSUME TradingInv, NEW s \in Signals, RiskDecides(s) \/ Supersede(s)
  PROVE  TradingInv'
<1> USE DEF TradingInv, SessionInv, BookInv, RiskDecides, Supersede,
            bookVars, lockVars, sessionVars
<1>1. TypeOK'
  BY DEF TypeOK, SignalStatuses
<1>2. SessionInv'
  BY DEF JobsKnown, FoundAndHeld, LocksOwned, RowsCommitted, NoStaleWrite, IsOpen
<1>3. BookInv'
  BY DEF OneOrderPerSignal, OneOpenPositionPerAsset, FillsMatchOrders, IsOpen
<1> QED
  BY <1>1, <1>2, <1>3

-----------------------------------------------------------------------------
(* Steps that write *)

\* What a session that is about to write knows.
LEMMA AboutToWrite ==
  ASSUME TradingInv, NEW r \in Requests, pc[r] = "write"
  PROVE  /\ job[r] \in Jobs /\ price[r] \in Prices /\ held[r] \in Snapshots
         /\ accountLock = r /\ seen[r] = cash /\ cash \in Nat
         /\ \A q \in Requests : pc[q] = "write" => q = r
         /\ orders[r] = None /\ fills[r] = None /\ positions[r] = None
BY DEF TradingInv, SessionInv, TypeOK, JobsKnown, NoStaleWrite, RowsCommitted

\* The one row a session may write is its own or the one it holds locked;
\* whatever it writes there, no other session becomes stale.
Row(r) == IF found[r] = None THEN r ELSE found[r]

\* The row it holds is open, in its own asset and as it loaded it.
LEMMA HeldRow ==
  ASSUME TradingInv, NEW r \in Requests, pc[r] = "write", found[r] # None
  PROVE  /\ found[r] \in Requests
         /\ IsOpen(found[r])
         /\ positions[found[r]].asset = job[r].asset
         /\ held[r].qty = positions[found[r]].qty
         /\ job[r].side = "SELL" => held[r].qty = job[r].qty
BY DEF TradingInv, SessionInv, TypeOK, NoStaleWrite, FoundAndHeld, Locking

\* A commit that writes only there, in the session's own asset, keeps every
\* session consistent.
LEMMA CommitKeepsSessions ==
  ASSUME TradingInv, NEW r \in Requests, pc[r] = "write", Committed(r),
         orders'[r] # None,
         \A q \in Requests \ {r} : orders'[q] = orders[q] /\ fills'[q] = fills[q],
         \A p \in Requests :
           \/ positions'[p] = positions[p]
           \/ p = Row(r) /\ positions'[p] # None /\ positions'[p].asset = job[r].asset
  PROVE  SessionInv'
<1> USE DEF TradingInv, SessionInv, Committed, ReleaseLocks, signalVars, Row
<1>1. JobsKnown'
  BY DEF TypeOK, JobsKnown
<1>2. FoundAndHeld'
  BY DEF TypeOK, FoundAndHeld, Locking, RowsCommitted
<1>3. LocksOwned'
  BY TradingAssumption DEF TypeOK, LocksOwned, Locking
<1>4. RowsCommitted'
  BY DEF TypeOK, RowsCommitted, NoStaleWrite, IsOpen, Locking
<1>5. NoStaleWrite'
  BY AboutToWrite DEF TypeOK, NoStaleWrite, IsOpen, Locking, RowsCommitted
<1> QED
  BY <1>1, <1>2, <1>3, <1>4, <1>5

\* An order the cash does not cover is recorded and moves nothing.
LEMMA RejectOrderKeepsInv ==
  ASSUME TradingInv, NEW r \in Requests, RejectOrder(r)
  PROVE  TradingInv'
<1> DEFINE order == OrderRow(r, job[r].qty, "REJECTED")
<1>1. /\ pc[r] = "write" /\ Committed(r)
      /\ orders' = [orders EXCEPT ![r] = order]
      /\ UNCHANGED <<fills, positions, cash>>
      /\ ~HasOrder(job[r].signal)
  BY DEF RejectOrder, SignalTaken
<1>2. job[r] \in Jobs /\ orders[r] = None /\ fills[r] = None
  BY <1>1, AboutToWrite
<1>3. order \in OrderRows /\ order.status = "REJECTED" /\ order.signal = job[r].signal
  BY <1>2 DEF OrderRow, OrderRows, Jobs
<1>4. order # None
  BY <1>3, NullAssumption
<1> HIDE DEF order
<1>5. orders \in [Requests -> OrderRows \cup {None}] /\ orders'[r] = order
  BY <1>1 DEF TradingInv, TypeOK
<1>6. TypeOK'
  BY <1>1, <1>3 DEF TradingInv, TypeOK, Committed, ReleaseLocks, Steps, signalVars
<1>7. SessionInv'
  BY <1>1, <1>4, <1>5, CommitKeepsSessions
<1>8. OneOrderPerSignal'
  BY <1>1, <1>3, <1>5 DEF TradingInv, BookInv, OneOrderPerSignal, HasOrder
<1>9. OneOpenPositionPerAsset'
  BY <1>1 DEF TradingInv, BookInv, OneOpenPositionPerAsset, IsOpen
<1>10. FillsMatchOrders'
  BY <1>1, <1>2, <1>3, <1>5 DEF TradingInv, BookInv, FillsMatchOrders
<1> QED
  BY <1>6, <1>7, <1>8, <1>9, <1>10 DEF TradingInv, BookInv

\* A BUY writes a new order, its fill and the row it holds or a new one.
LEMMA CommitBuyKeepsInv ==
  ASSUME TradingInv, NEW r \in Requests, CommitBuy(r)
  PROVE  TradingInv'
<1> DEFINE qty == job[r].qty
           update == ApplyBuyFill(held[r], qty, price[r])
           order == OrderRow(r, qty, "FILLED")
           fill == [side |-> "BUY", asset |-> job[r].asset, qty |-> qty,
                    price |-> price[r], fee |-> Fee(qty, price[r]),
                    pnl |-> update.pnl]
           position == [asset |-> job[r].asset, qty |-> update.qty,
                        avg |-> update.avg, pnl |-> held[r].pnl,
                        status |-> update.status]
<1>1. /\ pc[r] = "write" /\ job[r].side = "BUY" /\ Committed(r)
      /\ orders' = [orders EXCEPT ![r] = order]
      /\ fills' = [fills EXCEPT ![r] = fill]
      /\ positions' = [positions EXCEPT ![Row(r)] = position]
      /\ cash' = CashAfterBuy(seen[r], qty, price[r])
      /\ ~HasOrder(job[r].signal)
      /\ ~(RequiredCash(qty, price[r]) > seen[r] * Lot)
      /\ found[r] = None => OpenRows(job[r].asset) = {}
  BY DEF CommitBuy, SignalTaken, Insufficient, SecondOpenRow, Row
<1>2. /\ job[r] \in Jobs /\ qty \in Nat \ {0} /\ job[r].asset \in Assets
      /\ price[r] \in Prices /\ price[r] \in Nat
      /\ held[r] \in Snapshots /\ held[r].qty \in Nat /\ held[r].avg \in Nat
      /\ held[r].pnl \in Int /\ seen[r] \in Nat
      /\ orders[r] = None /\ fills[r] = None /\ positions[r] = None
  <2>1. job[r] \in Jobs /\ price[r] \in Prices /\ held[r] \in Snapshots
        /\ orders[r] = None /\ fills[r] = None /\ positions[r] = None
        /\ seen[r] = cash /\ cash \in Nat
    BY <1>1, AboutToWrite
  <2>2. qty > 0
    BY <1>1 DEF TradingInv, SessionInv, JobsKnown
  <2> QED
    BY <2>1, <2>2, PricesPositive DEF Jobs, Snapshots
<1>3. update.qty \in Nat /\ update.qty > 0 /\ update.avg \in Nat
      /\ update.pnl = 0 /\ update.status = "OPEN"
  <2>1. WeightedAverageEntry(held[r].qty, held[r].avg, qty, price[r]) \in Nat
    BY <1>2, AverageNat
  <2> QED
    BY <1>2, <2>1 DEF ApplyBuyFill
<1>4. order \in OrderRows /\ order.status = "FILLED" /\ order.signal = job[r].signal
      /\ order.side = "BUY" /\ order.asset = job[r].asset /\ order.qty = qty
  BY <1>1, <1>2 DEF OrderRow, OrderRows, Jobs
<1>5. fill \in FillRows
  <2>1. Fee(qty, price[r]) \in Nat
    BY <1>2, FeeNat
  <2> QED
    BY <1>2, <1>3, <2>1 DEF FillRows
<1>6. position \in PositionRows /\ position.asset = job[r].asset
  BY <1>2, <1>3 DEF PositionRows
<1>7. cash' \in Nat
  <2>1. RequiredCash(qty, price[r]) \in Nat /\ seen[r] * Lot \in Nat
    BY <1>2, FeeNat, EngineAssumption
  <2>2. RequiredCash(qty, price[r]) <= seen[r] * Lot
    BY <1>1, <2>1
  <2> QED
    BY <1>1, <1>2, <2>2, BuyLeavesCash
<1>8. order # None /\ fill # None /\ position # None
  BY <1>4, <1>5, <1>6, NullAssumption
<1>9. fill.side = "BUY" /\ fill.asset = job[r].asset /\ fill.qty = qty
      /\ fill.fee = Fee(qty, fill.price)
  OBVIOUS
<1> HIDE DEF qty, update, order, fill, position
<1>10. /\ Row(r) \in Requests
       /\ \A p \in Requests : positions'[p] = IF p = Row(r) THEN position ELSE positions[p]
       /\ \A q \in Requests : orders'[q] = IF q = r THEN order ELSE orders[q]
       /\ \A q \in Requests : fills'[q] = IF q = r THEN fill ELSE fills[q]
  BY <1>1 DEF TradingInv, TypeOK, Row
<1>11. TypeOK'
  BY <1>1, <1>4, <1>5, <1>6, <1>7, <1>10
     DEF TradingInv, TypeOK, Committed, ReleaseLocks, Steps, signalVars
<1>12. SessionInv'
  BY <1>1, <1>6, <1>8, <1>10, CommitKeepsSessions
<1>13. OneOrderPerSignal'
  BY <1>1, <1>4, <1>10 DEF TradingInv, BookInv, OneOrderPerSignal, HasOrder
<1>14. OneOpenPositionPerAsset'
  <2>1. \A p \in Requests : IsOpen(p) /\ positions[p].asset = job[r].asset => p = Row(r)
    <3>1. CASE found[r] = None
      BY <1>1, <3>1 DEF OpenRows
    <3>2. CASE found[r] # None
      BY <1>1, <3>2, HeldRow DEF TradingInv, BookInv, OneOpenPositionPerAsset, Row
    <3> QED
      BY <3>1, <3>2
  <2> QED
    BY <1>6, <1>10, <2>1 DEF TradingInv, BookInv, OneOpenPositionPerAsset, IsOpen
<1>15. FillsMatchOrders'
  BY <1>4, <1>8, <1>9, <1>10 DEF TradingInv, BookInv, FillsMatchOrders
<1> QED
  BY <1>11, <1>12, <1>13, <1>14, <1>15 DEF TradingInv, BookInv

\* A close writes its order, its fill and the row it holds, now CLOSED.
LEMMA CommitSellKeepsInv ==
  ASSUME TradingInv, NEW r \in Requests, CommitSell(r)
  PROVE  TradingInv'
<1> DEFINE qty == held[r].qty
           update == ApplySellFill(held[r], qty, price[r], SellFee(r))
           order == OrderRow(r, qty, "FILLED")
           fill == [side |-> "SELL", asset |-> job[r].asset, qty |-> qty,
                    price |-> price[r], fee |-> SellFee(r), pnl |-> update.pnl]
           position == [asset |-> job[r].asset, qty |-> update.qty,
                        avg |-> update.avg, pnl |-> held[r].pnl + update.pnl,
                        status |-> update.status]
<1>1. /\ pc[r] = "write" /\ job[r].side = "SELL" /\ Committed(r)
      /\ orders' = [orders EXCEPT ![r] = order]
      /\ fills' = [fills EXCEPT ![r] = fill]
      /\ positions' = [positions EXCEPT ![found[r]] = position]
      /\ cash' = CashFromSell(r) /\ CashFromSell(r) >= 0
  BY DEF CommitSell
<1>2. /\ job[r] \in Jobs /\ job[r].qty \in Nat /\ job[r].asset \in Assets
      /\ price[r] \in Prices /\ price[r] \in Nat
      /\ held[r] \in Snapshots /\ qty \in Nat /\ held[r].avg \in Nat
      /\ held[r].pnl \in Int /\ seen[r] \in Nat
      /\ orders[r] = None /\ fills[r] = None /\ positions[r] = None
  <2>1. job[r] \in Jobs /\ price[r] \in Prices /\ held[r] \in Snapshots
        /\ orders[r] = None /\ fills[r] = None /\ positions[r] = None
        /\ seen[r] = cash /\ cash \in Nat
    BY <1>1, AboutToWrite
  <2> QED
    BY <2>1, PricesPositive DEF Jobs, Snapshots
<1>3. /\ found[r] # None /\ found[r] \in Requests /\ Row(r) = found[r]
      /\ IsOpen(found[r]) /\ positions[found[r]].asset = job[r].asset
      /\ qty = job[r].qty /\ job[r].signal = None
  <2>1. found[r] # None
    BY <1>1 DEF TradingInv, SessionInv, FoundAndHeld, Locking
  <2>2. job[r].signal = None
    BY <1>1 DEF TradingInv, SessionInv, JobsKnown
  <2> QED
    BY <1>1, <2>1, <2>2, HeldRow DEF Row
<1>4. SellFee(r) \in Nat
  BY <1>2, FeeNat DEF SellFee
<1>5. update.qty = 0 /\ update.avg = held[r].avg /\ update.pnl \in Int
      /\ update.status = "CLOSED"
  <2>1. RealizedPnl(held[r].avg, price[r], qty, SellFee(r)) \in Int
    BY <1>2, <1>4, RealizedInt
  <2> QED
    BY <1>2, <2>1 DEF ApplySellFill
<1>6. order \in OrderRows /\ order.status = "FILLED" /\ order.signal = None
      /\ order.side = "SELL" /\ order.asset = job[r].asset /\ order.qty = qty
  BY <1>1, <1>2, <1>3 DEF OrderRow, OrderRows, Jobs
<1>7. fill \in FillRows
  BY <1>2, <1>4, <1>5 DEF FillRows
<1>8. position \in PositionRows /\ position.asset = job[r].asset
      /\ position.status = "CLOSED"
  BY <1>2, <1>5 DEF PositionRows
<1>9. cash' \in Nat
  <2>1. CashFromSell(r) \in Int
    BY <1>2, <1>4, SellCashInt DEF CashFromSell
  <2> QED
    BY <1>1, <2>1
<1>10. order # None /\ fill # None /\ position # None
  BY <1>6, <1>7, <1>8, NullAssumption
<1>11. fill.side = "SELL" /\ fill.asset = job[r].asset /\ fill.qty = qty
       /\ fill.fee = Fee(qty, fill.price)
  BY <1>3 DEF SellFee
<1> HIDE DEF qty, update, order, fill, position
<1>12. /\ \A p \in Requests : positions'[p] = IF p = found[r] THEN position ELSE positions[p]
       /\ \A q \in Requests : orders'[q] = IF q = r THEN order ELSE orders[q]
       /\ \A q \in Requests : fills'[q] = IF q = r THEN fill ELSE fills[q]
  BY <1>1, <1>3 DEF TradingInv, TypeOK
<1>13. TypeOK'
  BY <1>1, <1>3, <1>6, <1>7, <1>8, <1>9, <1>12
     DEF TradingInv, TypeOK, Committed, ReleaseLocks, Steps, signalVars
<1>14. SessionInv'
  BY <1>1, <1>3, <1>8, <1>10, <1>12, CommitKeepsSessions
<1>15. OneOrderPerSignal'
  BY <1>6, <1>12 DEF TradingInv, BookInv, OneOrderPerSignal
<1>16. OneOpenPositionPerAsset'
  BY <1>8, <1>12 DEF TradingInv, BookInv, OneOpenPositionPerAsset, IsOpen
<1>17. FillsMatchOrders'
  BY <1>6, <1>10, <1>11, <1>12 DEF TradingInv, BookInv, FillsMatchOrders
<1> QED
  BY <1>13, <1>14, <1>15, <1>16, <1>17 DEF TradingInv, BookInv

-----------------------------------------------------------------------------
(* The theorems *)

\* The seeded account and an empty book satisfy the invariant.
LEMMA InitEstablishesInv == Init => TradingInv
<1> SUFFICES ASSUME Init PROVE TradingInv
  OBVIOUS
<1> USE DEF Init
<1>1. TypeOK
  BY TradingAssumption DEF TypeOK, SignalStatuses, Steps, Snapshots, NoSnapshot
<1>2. SessionInv
  BY DEF SessionInv, JobsKnown, FoundAndHeld, LocksOwned, RowsCommitted,
     NoStaleWrite, Locking
<1>3. BookInv
  BY DEF BookInv, OneOrderPerSignal, OneOpenPositionPerAsset, FillsMatchOrders,
     IsOpen
<1> QED
  BY <1>1, <1>2, <1>3 DEF TradingInv

\* Every way a request is refused is a Refuse.
LEMMA RefusalsKeepInv ==
  ASSUME TradingInv, NEW r \in Requests,
         \/ \E s \in Signals : RefuseExecution(r, s)
         \/ \E a \in Assets : NothingToClose(r, a)
         \/ PositionGone(r) \/ PositionChanged(r) \/ PositionClosedMeanwhile(r)
         \/ DuplicateOrder(r) \/ IntegrityError(r) \/ Fail(r)
  PROVE  TradingInv'
<1>1. PICK a \in Answers : Refuse(r, a)
  <2>1. ASSUME NEW s \in Signals, RefuseExecution(r, s)
        PROVE  \E a \in Answers : Refuse(r, a)
    <3>1. ExecutionRefusal(s) \in Answers
      BY <2>1 DEF RefuseExecution, ExecutionRefusal, Answers
    <3> QED
      BY <2>1, <3>1 DEF RefuseExecution
  <2>2. "404" \in Answers /\ "409" \in Answers /\ "500" \in Answers
    BY DEF Answers
  <2> QED
    BY <2>1, <2>2 DEF NothingToClose, PositionGone, PositionChanged,
       PositionClosedMeanwhile, DuplicateOrder, IntegrityError, Fail
<1> QED
  BY <1>1, RefuseKeepsInv

\* Every step keeps the invariant.
LEMMA NextKeepsInv == TradingInv /\ [Next]_vars => TradingInv'
<1> SUFFICES ASSUME TradingInv, [Next]_vars PROVE TradingInv'
  OBVIOUS
<1>1. ASSUME NEW r \in Requests, ExecuteStep(r) PROVE TradingInv'
  BY <1>1, ExecuteSignalKeepsInv, RefusalsKeepInv, FindNoPositionKeepsInv,
     LockClosedPositionKeepsInv, RejectOrderKeepsInv, CommitBuyKeepsInv
     DEF ExecuteStep
<1>2. ASSUME NEW r \in Requests, CloseStep(r) PROVE TradingInv'
  BY <1>2, ClosePositionKeepsInv, RefusalsKeepInv, CommitSellKeepsInv DEF CloseStep
<1>3. ASSUME NEW r \in Requests, SharedStep(r) PROVE TradingInv'
  BY <1>3, GetFillKeepsInv, FindPositionKeepsInv, LockPositionKeepsInv,
     LockAccountKeepsInv, RefusalsKeepInv, RespondKeepsInv DEF SharedStep
<1>4. ASSUME NEW r \in Requests, Fail(r) PROVE TradingInv'
  BY <1>4, RefusalsKeepInv
<1>5. ASSUME NEW s \in Signals, RiskDecides(s) \/ Supersede(s) PROVE TradingInv'
  BY <1>5, PipelineKeepsInv
<1>6. CASE UNCHANGED vars
  <2>1. TypeOK' /\ SessionInv'
    BY <1>6 DEF vars, signalVars, bookVars, lockVars, sessionVars, TradingInv, TypeOK,
       SessionInv, JobsKnown, FoundAndHeld, LocksOwned, RowsCommitted, NoStaleWrite, IsOpen
  <2>2. BookInv'
    BY <1>6 DEF vars, bookVars, TradingInv, BookInv, OneOrderPerSignal,
       OneOpenPositionPerAsset, FillsMatchOrders, IsOpen
  <2> QED
    BY <2>1, <2>2 DEF TradingInv
<1> QED
  BY <1>1, <1>2, <1>3, <1>4, <1>5, <1>6 DEF Next, Serve

\* The invariant holds in every reachable state.
THEOREM TradingInvariant == Spec => []TradingInv
BY InitEstablishesInv, NextKeepsInv, PTL DEF Spec

\* Every column keeps its type: above all, cash is never negative.
THEOREM TypeCorrect == Spec => []TypeOK
<1>1. TradingInv => TypeOK
  BY DEF TradingInv
<1> QED
  BY <1>1, TradingInvariant, PTL

\* No signal is ever executed twice, however its requests overlap or fail.
THEOREM ExecutedAtMostOnce == Spec => []OneOrderPerSignal
<1>1. TradingInv => OneOrderPerSignal
  BY DEF TradingInv, BookInv
<1> QED
  BY <1>1, TradingInvariant, PTL

\* No asset ever has two open positions.
THEOREM NeverTwoOpenPositions == Spec => []OneOpenPositionPerAsset
<1>1. TradingInv => OneOpenPositionPerAsset
  BY DEF TradingInv, BookInv
<1> QED
  BY <1>1, TradingInvariant, PTL

\* No session ever decides or writes on cash or on a position that another
\* session has changed since it was loaded.
THEOREM NeverStale == Spec => []NoStaleWrite
<1>1. TradingInv => NoStaleWrite
  BY DEF TradingInv, SessionInv
<1> QED
  BY <1>1, TradingInvariant, PTL

\* Orders and fills always agree, in quantity and in fee.
THEOREM FillsAlwaysMatch == Spec => []FillsMatchOrders
<1>1. TradingInv => FillsMatchOrders
  BY DEF TradingInv, BookInv
<1> QED
  BY <1>1, TradingInvariant, PTL

\* No step rewrites a committed order or fill or touches a closed position.
THEOREM HistoryNeverRewritten == Spec => HistoryIsFinal
<1> DEFINE Kept(r) ==
      /\ orders[r] # None => orders'[r] = orders[r]
      /\ fills[r] # None => fills'[r] = fills[r]
      /\ positions[r] # None /\ positions[r].status = "CLOSED"
           => positions'[r] = positions[r]
<1>1. TradingInv /\ [Next]_vars => [\A r \in Requests : Kept(r)]_vars
  <2> SUFFICES ASSUME TradingInv, Next, NEW q \in Requests PROVE Kept(q)
    OBVIOUS
  <2>1. CASE UNCHANGED bookVars
    BY <2>1 DEF bookVars
  <2>2. ASSUME NEW r \in Requests, RejectOrder(r) PROVE Kept(q)
    <3>1. orders[r] = None
      BY <2>2, AboutToWrite DEF RejectOrder
    <3> QED
      BY <2>2, <3>1 DEF RejectOrder, TradingInv, TypeOK
  <2>3. ASSUME NEW r \in Requests, CommitBuy(r) \/ CommitSell(r) PROVE Kept(q)
    <3>1. pc[r] = "write" /\ orders[r] = None /\ fills[r] = None /\ positions[r] = None
      BY <2>3, AboutToWrite DEF CommitBuy, CommitSell
    <3>2. found[r] # None => IsOpen(found[r]) /\ positions[found[r]].status # "CLOSED"
      BY <3>1, HeldRow DEF IsOpen
    <3>3. CommitSell(r) => found[r] # None
      BY <3>1 DEF CommitSell, TradingInv, SessionInv, FoundAndHeld, Locking
    <3> QED
      BY <2>3, <3>1, <3>2, <3>3 DEF CommitBuy, CommitSell, TradingInv, TypeOK
  <2>4. \/ UNCHANGED bookVars
        \/ \E r \in Requests : RejectOrder(r) \/ CommitBuy(r) \/ CommitSell(r)
    BY DEF Next, Serve, ExecuteStep, CloseStep, SharedStep, ExecuteSignal,
       RefuseExecution, ClosePosition, NothingToClose, GetFill, FindPosition,
       FindNoPosition, PositionGone, LockPosition, PositionChanged,
       LockClosedPosition, PositionClosedMeanwhile, LockAccount, DuplicateOrder,
       IntegrityError, Respond, Fail, RiskDecides, Supersede, Refuse
  <2> QED
    BY <2>1, <2>2, <2>3, <2>4
<1> QED
  BY <1>1, TradingInvariant, PTL DEF Spec, HistoryIsFinal

-----------------------------------------------------------------------------
(* PaperTrading implements PaperLedger.  The mapping chooses the order of  *)
(* a signal and the open row of an asset, so it means something because    *)
(* TradingInv leaves one of each to choose.  A commit is then the ledger's *)
(* trade because the session holds, under its locks, what the ledger       *)
(* holds; and because an approval, once given, is never replaced, what the *)
(* session took from it is still the approval.                             *)

\* RiskService decides a signal once.
ApprovalsFinal ==
  \A s \in Signals : approval[s] # None => signalStatus[s] # "CANDIDATE"

\* A BUY trades the approval of its signal, in the signal's asset.
JobsApproved ==
  \A r \in Requests :
    pc[r] \notin {"idle", "done"} /\ job[r].side = "BUY" =>
      /\ job[r].signal \in Signals
      /\ job[r].asset = AssetOf[job[r].signal]
      /\ job[r].qty = approval[job[r].signal]

LedgerInv == TradingInv /\ ApprovalsFinal /\ JobsApproved

LEMMA InitEstablishesLedgerInv == Init => LedgerInv
BY InitEstablishesInv DEF Init, LedgerInv, ApprovalsFinal, JobsApproved

\* A step of a request leaves every approval and every other job alone.
LEMMA JobsFrame ==
  ASSUME TradingInv, NEW r \in Requests, Serve(r) \/ Fail(r)
  PROVE  /\ UNCHANGED signalVars
         /\ \A q \in Requests \ {r} : job'[q] = job[q] /\ pc'[q] = pc[q]
         /\ \/ \E s \in Signals : ExecuteSignal(r, s)
            \/ \E a \in Assets : ClosePosition(r, a)
            \/ pc'[r] = "done"
            \/ pc[r] \notin {"idle", "done"} /\ job'[r] = job[r]
<1> USE DEF Serve, ExecuteStep, CloseStep, SharedStep, Refuse, Answer, Committed,
            TradingInv, TypeOK
<1>1. ASSUME NEW a, Answer(r, a)
      PROVE  /\ \A q \in Requests \ {r} : job'[q] = job[q] /\ pc'[q] = pc[q]
             /\ pc'[r] = "done"
  BY <1>1
<1>2. CASE \/ \E s \in Signals : RefuseExecution(r, s)
           \/ \E a \in Assets : NothingToClose(r, a)
           \/ PositionGone(r) \/ PositionChanged(r) \/ PositionClosedMeanwhile(r)
           \/ DuplicateOrder(r) \/ IntegrityError(r) \/ Fail(r) \/ Respond(r)
  BY <1>2 DEF RefuseExecution, NothingToClose, PositionGone, PositionChanged,
     PositionClosedMeanwhile, DuplicateOrder, IntegrityError, Fail, Respond
<1>3. CASE \/ \E s \in Signals : ExecuteSignal(r, s)
           \/ \E a \in Assets : ClosePosition(r, a)
  BY <1>3 DEF ExecuteSignal, ClosePosition
<1>4. CASE \/ GetFill(r) \/ FindPosition(r) \/ FindNoPosition(r) \/ LockPosition(r)
           \/ LockClosedPosition(r) \/ LockAccount(r)
  BY <1>4 DEF GetFill, FindPosition, FindNoPosition, LockPosition, LockClosedPosition,
     LockAccount, CanLockPosition, CanLockAccount
<1>5. CASE RejectOrder(r) \/ CommitBuy(r) \/ CommitSell(r)
  BY <1>5 DEF RejectOrder, CommitBuy, CommitSell
<1> QED
  BY <1>2, <1>3, <1>4, <1>5

\* Every step keeps it: what a job took from an approval stays true of it.
LEMMA NextKeepsLedgerInv == LedgerInv /\ [Next]_vars => LedgerInv'
<1> SUFFICES ASSUME LedgerInv, [Next]_vars PROVE LedgerInv'
  OBVIOUS
<1>1. TradingInv'
  BY NextKeepsInv DEF LedgerInv
<1>2. ASSUME NEW r \in Requests, Serve(r) \/ Fail(r)
      PROVE  ApprovalsFinal' /\ JobsApproved'
  <2>1. /\ UNCHANGED signalVars
        /\ \A q \in Requests \ {r} : job'[q] = job[q] /\ pc'[q] = pc[q]
        /\ \/ \E s \in Signals : ExecuteSignal(r, s)
           \/ \E a \in Assets : ClosePosition(r, a)
           \/ pc'[r] = "done"
           \/ pc[r] \notin {"idle", "done"} /\ job'[r] = job[r]
    BY <1>2, JobsFrame DEF LedgerInv
  <2>2. ApprovalsFinal'
    BY <2>1 DEF LedgerInv, ApprovalsFinal, signalVars
  <2>3. \A s \in Signals : ExecuteSignal(r, s) =>
          job'[r] = [side |-> "BUY", signal |-> s, asset |-> AssetOf[s], qty |-> approval[s]]
    BY DEF ExecuteSignal, LedgerInv, TradingInv, TypeOK
  <2>4. \A a \in Assets : ClosePosition(r, a) => job'[r].side = "SELL"
    BY DEF ClosePosition, LedgerInv, TradingInv, TypeOK
  <2>5. \/ pc'[r] = "done"
        \/ job'[r].side = "SELL"
        \/ \E s \in Signals :
             job'[r] = [side |-> "BUY", signal |-> s, asset |-> AssetOf[s], qty |-> approval[s]]
        \/ pc[r] \notin {"idle", "done"} /\ job'[r] = job[r]
    BY <2>1, <2>3, <2>4
  <2>6. JobsApproved'
    <3> SUFFICES ASSUME NEW q \in Requests, pc'[q] \notin {"idle", "done"},
                        job'[q].side = "BUY"
                 PROVE  /\ job'[q].signal \in Signals
                        /\ job'[q].asset = AssetOf[job'[q].signal]
                        /\ job'[q].qty = approval'[job'[q].signal]
      BY DEF JobsApproved
    <3>1. approval' = approval
      BY <2>1 DEF signalVars
    <3>2. CASE pc[q] \notin {"idle", "done"} /\ job'[q] = job[q]
      BY <3>1, <3>2 DEF LedgerInv, JobsApproved
    <3>3. CASE q = r
      <4>1. ASSUME NEW s \in Signals,
                   job'[q] = [side |-> "BUY", signal |-> s, asset |-> AssetOf[s],
                              qty |-> approval[s]]
            PROVE  /\ job'[q].signal \in Signals
                   /\ job'[q].asset = AssetOf[job'[q].signal]
                   /\ job'[q].qty = approval'[job'[q].signal]
        BY <3>1, <4>1
      <4>2. \/ \E s \in Signals :
                 job'[q] = [side |-> "BUY", signal |-> s, asset |-> AssetOf[s],
                            qty |-> approval[s]]
            \/ pc[q] \notin {"idle", "done"} /\ job'[q] = job[q]
        BY <2>5, <3>3
      <4> QED
        BY <3>2, <4>1, <4>2
    <3>4. q # r => job'[q] = job[q] /\ pc'[q] = pc[q]
      BY <2>1
    <3> QED
      BY <3>2, <3>3, <3>4
  <2> QED
    BY <2>2, <2>6
<1>3. ASSUME NEW s \in Signals, RiskDecides(s) \/ Supersede(s)
      PROVE  ApprovalsFinal' /\ JobsApproved'
  <2>1. /\ pc' = pc /\ job' = job
        /\ \A t \in Signals : approval[t] # None => approval'[t] = approval[t]
    BY <1>3, TradingAssumption DEF RiskDecides, Supersede, sessionVars, LedgerInv,
       ApprovalsFinal, TradingInv, TypeOK
  <2>2. ApprovalsFinal'
    BY <1>3 DEF RiskDecides, Supersede, LedgerInv, ApprovalsFinal, TradingInv, TypeOK
  <2>3. JobsApproved'
    <3> SUFFICES ASSUME NEW r \in Requests, pc[r] \notin {"idle", "done"},
                        job[r].side = "BUY"
                 PROVE  job[r].qty = approval'[job[r].signal]
      BY <2>1 DEF LedgerInv, JobsApproved
    <3>1. job[r].qty \in Nat /\ job[r].signal \in Signals
          /\ job[r].qty = approval[job[r].signal]
      BY DEF LedgerInv, JobsApproved, TradingInv, SessionInv, JobsKnown, Jobs
    <3>2. approval[job[r].signal] # None
      BY <3>1, TradingAssumption
    <3> QED
      BY <2>1, <3>1, <3>2
  <2> QED
    BY <2>2, <2>3
<1>4. CASE UNCHANGED vars
  <2>1. UNCHANGED <<signalStatus, approval, pc, job>>
    BY <1>4 DEF vars, signalVars, sessionVars
  <2> QED
    BY <1>1, <2>1 DEF LedgerInv, ApprovalsFinal, JobsApproved
<1> QED
  BY <1>1, <1>2, <1>3, <1>4 DEF Next, LedgerInv

\* What a BUY took from its signal's approval stays the signal's approval.
THEOREM LedgerInvariant == Spec => []LedgerInv
BY InitEstablishesLedgerInv, NextKeepsLedgerInv, PTL DEF Spec

\* The one order of a signal settles it.
SettledMapped ==
  \A s \in Signals :
    /\ ~HasOrder(s) => SettledMap[s] = None
    /\ \A r \in Requests : orders[r] # None /\ orders[r].signal = s
                             => SettledMap[s] = orders[r].status

\* The one open row of an asset is its position.
BookMapped ==
  \A a \in Assets :
    /\ OpenRows(a) = {} => BookMap[a] = Flat
    /\ \A p \in OpenRows(a) : BookMap[a] = [qty |-> positions[p].qty, avg |-> positions[p].avg]

LEMMA TablesAreMapped == LedgerInv => SettledMapped /\ BookMapped
<1> SUFFICES ASSUME LedgerInv PROVE SettledMapped /\ BookMapped
  OBVIOUS
<1>1. ASSUME NEW s \in Signals, ~HasOrder(s) PROVE SettledMap[s] = None
  BY <1>1 DEF SettledMap
<1>2. ASSUME NEW s \in Signals, NEW r \in Requests, orders[r] # None, orders[r].signal = s
      PROVE  SettledMap[s] = orders[r].status
  <2>1. HasOrder(s)
    BY <1>2 DEF HasOrder
  <2>2. \A q \in Requests : orders[q] # None /\ orders[q].signal = s => q = r
    <3>1. s # None
      BY TradingAssumption
    <3> QED
      BY <1>2, <3>1 DEF LedgerInv, TradingInv, BookInv, OneOrderPerSignal
  <2> DEFINE q == CHOOSE q \in Requests : orders[q] # None /\ orders[q].signal = s
  <2>3. q \in Requests /\ orders[q] # None /\ orders[q].signal = s
    BY <1>2
  <2>4. SettledMap[s] = orders[q].status
    BY <2>1 DEF SettledMap
  <2> HIDE DEF q
  <2> QED
    BY <2>2, <2>3, <2>4
<1>3. ASSUME NEW a \in Assets, OpenRows(a) = {} PROVE BookMap[a] = Flat
  BY <1>3 DEF BookMap
<1>4. ASSUME NEW a \in Assets, NEW p \in OpenRows(a)
      PROVE  BookMap[a] = [qty |-> positions[p].qty, avg |-> positions[p].avg]
  <2>1. \A q \in OpenRows(a) : q = p
    BY DEF LedgerInv, TradingInv, BookInv, OneOpenPositionPerAsset, OpenRows
  <2> DEFINE q == CHOOSE q \in OpenRows(a) : TRUE
  <2>2. q \in OpenRows(a)
    OBVIOUS
  <2>3. BookMap[a] = [qty |-> positions[q].qty, avg |-> positions[q].avg]
    BY DEF BookMap
  <2> HIDE DEF q
  <2> QED
    BY <2>1, <2>2, <2>3
<1> QED
  BY <1>1, <1>2, <1>3, <1>4 DEF SettledMapped, BookMapped

LEMMA LedgerInit == Init => Ledger!Init
<1> SUFFICES ASSUME Init PROVE Ledger!Init
  OBVIOUS
<1>1. \A s \in Signals : ~HasOrder(s)
  BY DEF Init, HasOrder
<1>2. \A a \in Assets : OpenRows(a) = {}
  BY DEF Init, OpenRows, IsOpen
<1>3. SettledMap = [s \in Signals |-> None]
  BY <1>1 DEF SettledMap
<1>4. BookMap = [a \in Assets |-> Flat]
  BY <1>2 DEF BookMap
<1> QED
  BY <1>3, <1>4 DEF Init, Ledger!Init, Flat, Ledger!Flat

\* What commits no order and no position moves nothing in the ledger.
LEMMA TablesAlone ==
  ASSUME UNCHANGED <<orders, positions>>
  PROVE  SettledMap' = SettledMap /\ BookMap' = BookMap
BY DEF SettledMap, BookMap, HasOrder, OpenRows, IsOpen

\* A new order settles its signal and no other.
LEMMA NewOrderSettles ==
  ASSUME LedgerInv, LedgerInv', NEW r \in Requests,
         orders[r] = None, orders'[r] # None,
         \A q \in Requests \ {r} : orders'[q] = orders[q]
  PROVE  \A t \in Signals :
           SettledMap'[t] = IF t = orders'[r].signal THEN orders'[r].status ELSE SettledMap[t]
<1>1. SettledMapped /\ SettledMapped'
  BY TablesAreMapped, PTL
<1>2. ASSUME NEW t \in Signals, t = orders'[r].signal PROVE SettledMap'[t] = orders'[r].status
  BY <1>1, <1>2 DEF SettledMapped
<1>3. ASSUME NEW t \in Signals, t # orders'[r].signal PROVE SettledMap'[t] = SettledMap[t]
  <2>1. ASSUME NEW q \in Requests, orders[q] # None, orders[q].signal = t
        PROVE  SettledMap'[t] = SettledMap[t]
    BY <1>1, <2>1 DEF SettledMapped
  <2>2. ASSUME \A q \in Requests : ~(orders[q] # None /\ orders[q].signal = t)
        PROVE  SettledMap'[t] = SettledMap[t]
    <3>1. \A q \in Requests : ~(orders'[q] # None /\ orders'[q].signal = t)
      BY <1>3, <2>2
    <3>2. ~HasOrder(t) /\ ~HasOrder(t)'
      BY <2>2, <3>1 DEF HasOrder
    <3> QED
      BY <1>1, <3>2 DEF SettledMapped
  <2> QED
    BY <2>1, <2>2
<1> QED
  BY <1>2, <1>3

\* A row written in one asset's name moves no other asset's position.
LEMMA WrittenRowMoves ==
  ASSUME LedgerInv, LedgerInv', NEW p \in Requests, NEW a \in Assets,
         positions'[p] # None, positions'[p].asset = a,
         \A q \in Requests \ {p} : positions'[q] = positions[q],
         \A q \in OpenRows(a) : q = p,
         IsOpen(p) => positions[p].asset = a
  PROVE  /\ \A b \in Assets \ {a} : BookMap'[b] = BookMap[b]
         /\ BookMap'[a] = IF positions'[p].status = "OPEN"
                          THEN [qty |-> positions'[p].qty, avg |-> positions'[p].avg]
                          ELSE Flat
<1>1. BookMapped /\ BookMapped'
  BY TablesAreMapped, PTL
<1>2. ASSUME NEW b \in Assets, b # a PROVE BookMap'[b] = BookMap[b]
  <2>1. \A q \in Requests : q \in OpenRows(b)' <=> q \in OpenRows(b)
    BY <1>2 DEF OpenRows, IsOpen
  <2>2. \A q \in OpenRows(b) : q \in Requests /\ positions'[q] = positions[q]
    BY <1>2 DEF OpenRows, IsOpen
  <2>3. CASE OpenRows(b) = {}
    <3>1. OpenRows(b)' = {}
      BY <2>1, <2>3 DEF OpenRows
    <3> QED
      BY <1>1, <2>3, <3>1 DEF BookMapped
  <2>4. ASSUME NEW q \in OpenRows(b) PROVE BookMap'[b] = BookMap[b]
    <3>1. q \in OpenRows(b)' /\ positions'[q] = positions[q]
      BY <2>1, <2>2
    <3>2. BookMap[b] = [qty |-> positions[q].qty, avg |-> positions[q].avg]
      BY <1>1 DEF BookMapped
    <3>3. BookMap'[b] = [qty |-> positions'[q].qty, avg |-> positions'[q].avg]
      BY <1>1, <3>1 DEF BookMapped
    <3> QED
      BY <3>1, <3>2, <3>3
  <2> QED
    BY <2>3, <2>4
<1>3. ASSUME positions'[p].status = "OPEN"
      PROVE  BookMap'[a] = [qty |-> positions'[p].qty, avg |-> positions'[p].avg]
  <2>1. p \in OpenRows(a)'
    BY <1>3 DEF OpenRows, IsOpen
  <2> QED
    BY <1>1, <2>1 DEF BookMapped
<1>4. ASSUME positions'[p].status # "OPEN" PROVE BookMap'[a] = Flat
  <2>1. OpenRows(a)' = {}
    BY <1>4 DEF OpenRows, IsOpen
  <2> QED
    BY <1>1, <2>1 DEF BookMapped
<1> QED
  BY <1>2, <1>3, <1>4

\* An approval of the risk service is the ledger's.
LEMMA ApproveIsApprove ==
  ASSUME LedgerInv, NEW s \in Signals, RiskDecides(s)
  PROVE  \/ \E qty \in Sizes : Ledger!Approve(s, qty)
         \/ UNCHANGED <<approval, SettledMap, BookMap, cash>>
<1>1. SettledMap' = SettledMap /\ BookMap' = BookMap /\ cash' = cash
  BY TablesAlone DEF RiskDecides, bookVars
<1>2. approval[s] = None
  BY DEF RiskDecides, LedgerInv, ApprovalsFinal
<1> QED
  BY <1>1, <1>2 DEF RiskDecides, Ledger!Approve

\* The ledger computes with the same pricing.
LEMMA SamePricing ==
  /\ \A qty, p : Ledger!RequiredCash(qty, p) = RequiredCash(qty, p)
  /\ \A c, qty, p : Ledger!CashAfterBuy(c, qty, p) = CashAfterBuy(c, qty, p)
  /\ \A c, qty, p, fee : Ledger!CashAfterSell(c, qty, p, fee) = CashAfterSell(c, qty, p, fee)
  /\ \A qty, p : Ledger!Fee(qty, p) = Fee(qty, p)
  /\ \A snap, qty, p : Ledger!ApplyBuyFill(snap, qty, p) = ApplyBuyFill(snap, qty, p)
  /\ Ledger!Flat = Flat
<1> USE DEF Notional, Ledger!Notional, HalfUp, Ledger!HalfUp, RoundTicks, Ledger!RoundTicks
<1>1. \A qty, p : Ledger!Fee(qty, p) = Fee(qty, p)
  BY DEF Fee, Ledger!Fee
<1>2. \A qty, p : Ledger!RequiredCash(qty, p) = RequiredCash(qty, p)
  BY <1>1 DEF RequiredCash, Ledger!RequiredCash
<1>3. \A c, qty, p : Ledger!CashAfterBuy(c, qty, p) = CashAfterBuy(c, qty, p)
  BY <1>2 DEF CashAfterBuy, Ledger!CashAfterBuy
<1>4. \A c, qty, p, fee : Ledger!CashAfterSell(c, qty, p, fee) = CashAfterSell(c, qty, p, fee)
  BY DEF CashAfterSell, Ledger!CashAfterSell
<1>5. \A snap, qty, p : Ledger!ApplyBuyFill(snap, qty, p) = ApplyBuyFill(snap, qty, p)
  BY DEF ApplyBuyFill, Ledger!ApplyBuyFill, WeightedAverageEntry, Ledger!WeightedAverageEntry
<1> QED
  BY <1>1, <1>2, <1>3, <1>4, <1>5 DEF Flat, Ledger!Flat

\* What a BUY that reaches its commit and the ledger agree on.
LEMMA AboutToBuy ==
  ASSUME LedgerInv, NEW r \in Requests, pc[r] = "write", job[r].side = "BUY",
         ~HasOrder(job[r].signal)
  PROVE  /\ job[r].signal \in Signals
         /\ job[r].asset = AssetOf[job[r].signal] /\ job[r].asset \in Assets
         /\ job[r].qty = approval[job[r].signal] /\ job[r].qty # None
         /\ SettledMap[job[r].signal] = None
         /\ orders[r] = None
         /\ price[r] \in Prices
         /\ seen[r] = cash
<1>1. job[r] \in Jobs /\ price[r] \in Prices /\ seen[r] = cash /\ orders[r] = None
  BY AboutToWrite DEF LedgerInv
<1>2. job[r].asset \in Assets /\ job[r].qty # None
  BY <1>1, TradingAssumption DEF Jobs
<1>3. /\ job[r].signal \in Signals
      /\ job[r].asset = AssetOf[job[r].signal]
      /\ job[r].qty = approval[job[r].signal]
  BY DEF LedgerInv, JobsApproved
<1>4. SettledMap[job[r].signal] = None
  BY <1>3, TablesAreMapped DEF SettledMapped
<1> QED
  BY <1>1, <1>2, <1>3, <1>4

\* The session's cash check is the ledger's.
LEMMA AffordableIsSufficient ==
  ASSUME LedgerInv, NEW r \in Requests, pc[r] = "write", job[r].side = "BUY",
         ~HasOrder(job[r].signal)
  PROVE  Ledger!Affordable(approval[job[r].signal], price[r]) <=> ~Insufficient(r)
<1> DEFINE required == RequiredCash(job[r].qty, price[r])
<1>1. job[r].qty \in Nat /\ price[r] \in Nat /\ cash \in Nat
  BY AboutToWrite, PricesPositive DEF LedgerInv, Jobs
<1>2. required \in Int /\ cash * Lot \in Int
  <2>1. required \in Nat
    BY <1>1, FeeNat
  <2> HIDE DEF required
  <2> QED
    BY <1>1, <2>1, EngineAssumption
<1>3. /\ Ledger!Affordable(approval[job[r].signal], price[r]) <=> required <= cash * Lot
      /\ Insufficient(r) <=> required > cash * Lot
  BY AboutToBuy, SamePricing DEF Ledger!Affordable, Insufficient
<1> HIDE DEF required
<1> QED
  BY <1>2, <1>3

\* A BUY's order settles its signal in the ledger.
LEMMA NewOrderIs ==
  ASSUME LedgerInv, LedgerInv', NEW r \in Requests, pc[r] = "write", job[r].side = "BUY",
         ~HasOrder(job[r].signal), NEW qty, NEW st,
         OrderRow(r, qty, st) \in OrderRows,
         orders' = [orders EXCEPT ![r] = OrderRow(r, qty, st)]
  PROVE  SettledMap' = [SettledMap EXCEPT ![job[r].signal] = st]
<1> DEFINE s == job[r].signal
<1>1. s \in Signals /\ orders[r] = None
  BY AboutToBuy
<1>2. /\ orders'[r] = OrderRow(r, qty, st)
      /\ \A q \in Requests \ {r} : orders'[q] = orders[q]
  BY DEF LedgerInv, TradingInv, TypeOK
<1>3. orders'[r].signal = s /\ orders'[r].status = st
  BY <1>2 DEF OrderRow
<1>4. orders'[r] # None
  BY <1>2, NullAssumption
<1>5. \A t \in Signals :
        SettledMap'[t] = IF t = s THEN st ELSE SettledMap[t]
  BY <1>1, <1>2, <1>3, <1>4, NewOrderSettles
<1>6. /\ SettledMap = [t \in Signals |-> SettledMap[t]]
      /\ SettledMap' = [t \in Signals |-> SettledMap'[t]]
  BY DEF SettledMap
<1> QED
  BY <1>1, <1>5, <1>6

\* An order the cash does not cover is rejected by the ledger too.
LEMMA RejectOrderIsReject ==
  ASSUME LedgerInv, LedgerInv', NEW r \in Requests, RejectOrder(r)
  PROVE  Ledger!Reject(job[r].signal, price[r])
<1> DEFINE s == job[r].signal
<1>1. /\ pc[r] = "write" /\ job[r].side = "BUY" /\ ~HasOrder(s)
      /\ Insufficient(r) /\ UNCHANGED <<approval, positions, cash>>
      /\ orders' = [orders EXCEPT ![r] = OrderRow(r, job[r].qty, "REJECTED")]
  BY DEF RejectOrder, SignalTaken, Committed, signalVars
<1>2. /\ s \in Signals /\ job[r].qty = approval[s] /\ job[r].qty # None
      /\ SettledMap[s] = None /\ orders[r] = None /\ seen[r] = cash
  BY <1>1, AboutToBuy
<1>3. approval[s] # None
  BY <1>2
<1>4. ~Ledger!Affordable(approval[s], price[r])
  BY <1>1, <1>2, AboutToBuy, AffordableIsSufficient
<1>5. BookMap' = BookMap
  BY <1>1 DEF BookMap, OpenRows, IsOpen
<1>6. SettledMap' = [SettledMap EXCEPT ![s] = "REJECTED"]
  <2>1. OrderRow(r, job[r].qty, "REJECTED") \in OrderRows
    BY <1>1, AboutToWrite DEF LedgerInv, OrderRow, OrderRows, Jobs
  <2> QED
    BY <1>1, <2>1, NewOrderIs
<1> QED
  BY <1>1, <1>2, <1>3, <1>4, <1>5, <1>6 DEF Ledger!Reject

\* A committed BUY is the ledger's, at the ledger's cash and position.
LEMMA CommitBuyIsBuy ==
  ASSUME LedgerInv, LedgerInv', NEW r \in Requests, CommitBuy(r)
  PROVE  Ledger!Buy(job[r].signal, price[r])
<1> DEFINE s == job[r].signal
           a == job[r].asset
           update == ApplyBuyFill(held[r], job[r].qty, price[r])
           row == [asset |-> a, qty |-> update.qty, avg |-> update.avg,
                   pnl |-> held[r].pnl, status |-> update.status]
<1>1. /\ pc[r] = "write" /\ job[r].side = "BUY" /\ ~HasOrder(s)
      /\ ~Insufficient(r) /\ approval' = approval
      /\ orders' = [orders EXCEPT ![r] = OrderRow(r, job[r].qty, "FILLED")]
      /\ positions' = [positions EXCEPT ![Row(r)] = row]
      /\ cash' = CashAfterBuy(seen[r], job[r].qty, price[r])
      /\ found[r] = None => OpenRows(a) = {}
  BY DEF CommitBuy, SignalTaken, SecondOpenRow, Committed, signalVars, Row
<1>2. /\ s \in Signals /\ a = AssetOf[s] /\ a \in Assets
      /\ job[r].qty = approval[s] /\ job[r].qty # None
      /\ SettledMap[s] = None /\ seen[r] = cash
  BY <1>1, AboutToBuy
<1>3. Ledger!Affordable(approval[s], price[r])
  BY <1>1, AffordableIsSufficient
<1>4. SettledMap' = [SettledMap EXCEPT ![s] = "FILLED"]
  <2>1. OrderRow(r, job[r].qty, "FILLED") \in OrderRows
    BY <1>1, AboutToWrite DEF LedgerInv, OrderRow, OrderRows, Jobs
  <2> QED
    BY <1>1, <2>1, NewOrderIs
<1>5. Row(r) \in Requests /\ \A q \in OpenRows(a) : q = Row(r)
  <2>1. CASE found[r] = None
    BY <1>1, <2>1 DEF Row
  <2>2. CASE found[r] # None
    BY <1>1, <2>2, HeldRow DEF Row, LedgerInv, TradingInv, BookInv,
       OneOpenPositionPerAsset, OpenRows
  <2> QED
    BY <2>1, <2>2
<1>6. BookMap[a].qty = held[r].qty /\ BookMap[a].avg = held[r].avg
  <2>1. CASE found[r] = None
    <3>1. BookMap[a] = Flat
      BY <1>1, <1>2, <2>1, TablesAreMapped DEF BookMapped
    <3>2. held[r] = NoSnapshot
      BY <1>1, <2>1 DEF LedgerInv, TradingInv, SessionInv, FoundAndHeld, Locking
    <3> QED
      BY <3>1, <3>2 DEF Flat, NoSnapshot
  <2>2. CASE found[r] # None
    <3>1. found[r] \in OpenRows(a)
      BY <1>1, <2>2, HeldRow DEF LedgerInv, OpenRows
    <3>2. BookMap[a] = [qty |-> positions[found[r]].qty, avg |-> positions[found[r]].avg]
      BY <1>2, <3>1, TablesAreMapped DEF BookMapped
    <3>3. held[r] = [qty |-> positions[found[r]].qty, avg |-> positions[found[r]].avg,
                     pnl |-> positions[found[r]].pnl]
      BY <1>1, <2>2 DEF LedgerInv, TradingInv, SessionInv, NoStaleWrite
    <3> QED
      BY <3>2, <3>3
  <2> QED
    BY <2>1, <2>2
<1>7. ApplyBuyFill(BookMap[a], approval[s], price[r]) = update
  BY <1>2, <1>6 DEF ApplyBuyFill
<1>8. BookMap' = [BookMap EXCEPT ![a] = [qty |-> update.qty, avg |-> update.avg]]
  <2>1. positions'[Row(r)] = row /\ \A q \in Requests \ {Row(r)} : positions'[q] = positions[q]
    BY <1>1, <1>5 DEF LedgerInv, TradingInv, TypeOK
  <2>2. row.asset = a /\ row.status = "OPEN" /\ row.qty = update.qty /\ row.avg = update.avg
    BY DEF ApplyBuyFill
  <2>3. row # None
    <3>1. /\ held[r].qty \in Nat /\ held[r].avg \in Nat /\ held[r].pnl \in Int
          /\ job[r].qty \in Nat /\ price[r] \in Nat
      BY <1>1, AboutToWrite, PricesPositive DEF LedgerInv, Snapshots, Jobs
    <3>2. job[r].qty \in Nat \ {0}
      BY <1>1, <3>1 DEF LedgerInv, TradingInv, SessionInv, JobsKnown
    <3>3. WeightedAverageEntry(held[r].qty, held[r].avg, job[r].qty, price[r]) \in Nat
      BY <3>1, <3>2, AverageNat
    <3>4. row \in PositionRows
      BY <1>2, <3>1, <3>3 DEF ApplyBuyFill, PositionRows
    <3> QED
      BY <3>4, NullAssumption
  <2>4. IsOpen(Row(r)) => positions[Row(r)].asset = a
    BY <1>1, AboutToWrite, HeldRow DEF LedgerInv, IsOpen, Row
  <2> HIDE DEF row, update
  <2>5. /\ \A b \in Assets \ {a} : BookMap'[b] = BookMap[b]
        /\ BookMap'[a] = [qty |-> update.qty, avg |-> update.avg]
    BY <1>2, <1>5, <2>1, <2>2, <2>3, <2>4, WrittenRowMoves
  <2>6. /\ BookMap = [b \in Assets |-> BookMap[b]]
        /\ BookMap' = [b \in Assets |-> BookMap'[b]]
    BY DEF BookMap
  <2> QED
    BY <1>2, <2>5, <2>6
<1>9. cash' = CashAfterBuy(cash, approval[s], price[r])
  BY <1>1, <1>2
<1> HIDE DEF update
<1> QED
  BY <1>1, <1>2, <1>3, <1>4, <1>7, <1>8, <1>9, SamePricing DEF Ledger!Buy

\* A committed close is the ledger's: the whole position, at its fee.
LEMMA CommitSellIsClose ==
  ASSUME LedgerInv, LedgerInv', NEW r \in Requests, CommitSell(r)
  PROVE  job[r].asset \in Assets /\ price[r] \in Prices /\ Ledger!Close(job[r].asset, price[r])
<1> DEFINE a == job[r].asset
           p == found[r]
           update == ApplySellFill(held[r], held[r].qty, price[r], SellFee(r))
           row == [asset |-> a, qty |-> update.qty, avg |-> update.avg,
                   pnl |-> held[r].pnl + update.pnl, status |-> update.status]
<1>1. /\ pc[r] = "write" /\ job[r].side = "SELL" /\ approval' = approval
      /\ CanSell(held[r], held[r].qty)
      /\ orders' = [orders EXCEPT ![r] = OrderRow(r, held[r].qty, "FILLED")]
      /\ positions' = [positions EXCEPT ![p] = row]
      /\ cash' = CashAfterSell(seen[r], job[r].qty, price[r], SellFee(r))
  BY DEF CommitSell, Committed, signalVars, CashFromSell
<1>2. /\ job[r] \in Jobs /\ a \in Assets /\ price[r] \in Prices /\ price[r] \in Nat
      /\ held[r] \in Snapshots /\ held[r].qty \in Nat /\ held[r].avg \in Nat
      /\ held[r].pnl \in Int /\ seen[r] = cash /\ job[r].signal = None
      /\ orders[r] = None
  <2>1. job[r].signal = None
    BY <1>1 DEF LedgerInv, TradingInv, SessionInv, JobsKnown
  <2> QED
    BY <1>1, <2>1, AboutToWrite, PricesPositive DEF LedgerInv, Jobs, Snapshots
<1>3. /\ p # None /\ p \in Requests /\ IsOpen(p) /\ positions[p].asset = a
      /\ held[r].qty = positions[p].qty /\ held[r].qty = job[r].qty
  <2>1. p # None
    BY <1>1 DEF LedgerInv, TradingInv, SessionInv, FoundAndHeld, Locking
  <2> QED
    BY <1>1, <2>1, HeldRow DEF LedgerInv
<1>4. p \in OpenRows(a) /\ \A q \in OpenRows(a) : q = p
  BY <1>3 DEF LedgerInv, TradingInv, BookInv, OneOpenPositionPerAsset, OpenRows
<1>5. BookMap[a].qty = held[r].qty
  <2>1. BookMap[a] = [qty |-> positions[p].qty, avg |-> positions[p].avg]
    BY <1>2, <1>4, TablesAreMapped DEF BookMapped
  <2>2. BookMap[a].qty = positions[p].qty
    BY <2>1
  <2> HIDE DEF a, p
  <2> QED
    BY <1>3, <2>2
<1>6. SettledMap' = SettledMap
  <2>1. OrderRow(r, held[r].qty, "FILLED") \in OrderRows
    BY <1>1, <1>2 DEF OrderRow, OrderRows, Jobs
  <2>2. /\ orders'[r] = OrderRow(r, held[r].qty, "FILLED")
        /\ \A q \in Requests \ {r} : orders'[q] = orders[q]
    BY <1>1 DEF LedgerInv, TradingInv, TypeOK
  <2>3. orders'[r] # None /\ orders'[r].signal = None
    BY <1>2, <2>1, <2>2, NullAssumption DEF OrderRow
  <2>4. \A t \in Signals : SettledMap'[t] = SettledMap[t]
    BY <1>2, <2>2, <2>3, NewOrderSettles, TradingAssumption
  <2>5. /\ SettledMap = [t \in Signals |-> SettledMap[t]]
        /\ SettledMap' = [t \in Signals |-> SettledMap'[t]]
    BY DEF SettledMap
  <2> QED
    BY <2>4, <2>5
<1>7. SellFee(r) \in Nat /\ SellFee(r) = Fee(held[r].qty, price[r])
  BY <1>2, <1>3, FeeNat DEF SellFee
<1>8. BookMap' = [BookMap EXCEPT ![a] = Flat]
  <2>1. positions'[p] = row /\ \A q \in Requests \ {p} : positions'[q] = positions[q]
    BY <1>1, <1>3 DEF LedgerInv, TradingInv, TypeOK
  <2>2. update.qty = 0 /\ update.avg = held[r].avg /\ update.pnl \in Int
        /\ update.status = "CLOSED"
    <3>1. RealizedPnl(held[r].avg, price[r], held[r].qty, SellFee(r)) \in Int
      BY <1>2, <1>7, RealizedInt
    <3> QED
      BY <1>2, <3>1 DEF ApplySellFill
  <2>3. row \in PositionRows /\ row.asset = a /\ row.status = "CLOSED"
    BY <1>2, <2>2 DEF PositionRows
  <2>4. row # None
    BY <2>3, NullAssumption
  <2> HIDE DEF row, update
  <2>5. /\ \A b \in Assets \ {a} : BookMap'[b] = BookMap[b]
        /\ BookMap'[a] = Flat
    BY <1>2, <1>3, <1>4, <2>1, <2>3, <2>4, WrittenRowMoves
  <2>6. /\ BookMap = [b \in Assets |-> BookMap[b]]
        /\ BookMap' = [b \in Assets |-> BookMap'[b]]
    BY DEF BookMap
  <2> QED
    BY <1>2, <2>5, <2>6
<1>9. cash' = CashAfterSell(cash, BookMap[a].qty, price[r], Fee(BookMap[a].qty, price[r]))
  BY <1>1, <1>2, <1>3, <1>5, <1>7
<1>10. BookMap[a].qty > 0
  BY <1>1, <1>5 DEF CanSell
<1>11. CashAfterSell(cash, BookMap[a].qty, price[r], Fee(BookMap[a].qty, price[r])) >= 0
  <2>1. cash' >= 0
    BY <1>1 DEF CommitSell, CashFromSell
  <2> QED
    BY <1>9, <2>1
<1> QED
  BY <1>1, <1>2, <1>6, <1>8, <1>9, <1>10, <1>11, SamePricing DEF Ledger!Close

-----------------------------------------------------------------------------

LEMMA StepIsLedgers ==
  ASSUME LedgerInv, LedgerInv', [Next]_vars
  PROVE  Ledger!Next \/ UNCHANGED <<approval, SettledMap, BookMap, cash>>
<1>1. ASSUME NEW r \in Requests, CommitBuy(r) PROVE Ledger!Next
  <2>1. job[r].signal \in Signals /\ price[r] \in Prices
    BY <1>1, AboutToBuy DEF CommitBuy, SignalTaken
  <2>2. Ledger!Buy(job[r].signal, price[r])
    BY <1>1, CommitBuyIsBuy
  <2> QED
    BY <2>1, <2>2, Zenon DEF Ledger!Next
<1>2. ASSUME NEW r \in Requests, RejectOrder(r) PROVE Ledger!Next
  <2>1. job[r].signal \in Signals /\ price[r] \in Prices
    BY <1>2, AboutToBuy DEF RejectOrder, SignalTaken
  <2>2. Ledger!Reject(job[r].signal, price[r])
    BY <1>2, RejectOrderIsReject
  <2> QED
    BY <2>1, <2>2, Zenon DEF Ledger!Next
<1>3. ASSUME NEW r \in Requests, CommitSell(r) PROVE Ledger!Next
  <2>1. /\ job[r].asset \in Assets /\ price[r] \in Prices
        /\ Ledger!Close(job[r].asset, price[r])
    BY <1>3, CommitSellIsClose
  <2> QED
    BY <2>1, Zenon DEF Ledger!Next
<1>4. ASSUME NEW s \in Signals, RiskDecides(s)
      PROVE  Ledger!Next \/ UNCHANGED <<approval, SettledMap, BookMap, cash>>
  <2>1. CASE \E qty \in Sizes : Ledger!Approve(s, qty)
    BY <2>1, Zenon DEF Ledger!Next
  <2>2. CASE ~ \E qty \in Sizes : Ledger!Approve(s, qty)
    BY <1>4, <2>2, ApproveIsApprove
  <2> QED
    BY <2>1, <2>2
<1>5. CASE UNCHANGED <<approval, orders, positions, cash>>
  BY <1>5, TablesAlone
<1>6. \/ \E r \in Requests : CommitBuy(r) \/ RejectOrder(r) \/ CommitSell(r)
      \/ \E s \in Signals : RiskDecides(s)
      \/ UNCHANGED <<approval, orders, positions, cash>>
  BY DEF Next, Serve, ExecuteStep, CloseStep, SharedStep, ExecuteSignal,
     RefuseExecution, ClosePosition, NothingToClose, GetFill, FindPosition,
     FindNoPosition, PositionGone, LockPosition, PositionChanged,
     LockClosedPosition, PositionClosedMeanwhile, LockAccount, DuplicateOrder,
     IntegrityError, Respond, Fail, Supersede, Refuse, vars, signalVars, bookVars
<1> QED
  BY <1>1, <1>2, <1>3, <1>4, <1>5, <1>6

\* Whatever requests overlap, wait, fail or are refused, what they commit is a
\* sequence of the ledger's whole trades, each at the cash and the position of
\* that moment (execute_signal and close_position).
THEOREM TradesAreSerializable == Spec => ImplementsLedger
<1>1. LedgerInv /\ LedgerInv' /\ [Next]_vars
        => [Ledger!Next]_<<approval, SettledMap, BookMap, cash>>
  BY StepIsLedgers
<1> QED
  BY <1>1, LedgerInit, LedgerInvariant, PTL
     DEF Spec, ImplementsLedger, Ledger!Spec, Ledger!ledgerVars

-----------------------------------------------------------------------------
(* The books add up.  Both sums are taken over every request; a step       *)
(* changes one row of each table at most, so each sum follows that row.    *)

\* What the sums add up is integers.
SummandsInt ==
  \A r \in Requests :
    /\ CashFlow(r) \in Int
    /\ \A a \in Assets : HeldIn(r, a) \in Int /\ Moved(r, a) \in Int

LEMMA SummandsAreInt == TypeOK => SummandsInt
<1> SUFFICES ASSUME TypeOK, NEW r \in Requests
             PROVE  /\ CashFlow(r) \in Int
                    /\ \A a \in Assets : HeldIn(r, a) \in Int /\ Moved(r, a) \in Int
  BY DEF SummandsInt
<1>1. ASSUME fills[r] # None
      PROVE  fills[r].qty \in Nat /\ fills[r].price \in Nat /\ fills[r].fee \in Nat
  BY <1>1, PricesPositive DEF TypeOK, FillRows
<1>2. ASSUME positions[r] # None PROVE positions[r].qty \in Nat
  BY <1>2 DEF TypeOK, PositionRows
<1>3. ASSUME fills[r] # None
      PROVE  Notional(fills[r].qty, fills[r].price) \in Int /\ fills[r].fee * Lot \in Int
  BY <1>1, <1>3, FeeNat, EngineAssumption
<1>4. CashFlow(r) \in Int
  BY <1>3 DEF CashFlow
<1>5. \A a \in Assets : HeldIn(r, a) \in Int
  BY <1>2 DEF HeldIn
<1>6. \A a \in Assets : Moved(r, a) \in Int
  BY <1>1 DEF Moved
<1> QED
  BY <1>4, <1>5, <1>6

\* A committed trade, as the sums see it: one new fill, one row that follows
\* it, and the balance moved by the fill's flow, rounded.
OneTrade(r) ==
  /\ fills[r] = None /\ fills'[r] # None
  /\ \A q \in Requests \ {r} : fills'[q] = fills[q]
  /\ \E p \in Requests :
       /\ \A q \in Requests \ {p} : positions'[q] = positions[q]
       /\ \A a \in Assets : HeldIn(p, a)' - HeldIn(p, a) = Moved(r, a)'
  /\ cash' = RoundTicks(cash * Lot + CashFlow(r)', Lot)

LEMMA BuyIsOneTrade ==
  ASSUME TradingInv, TradingInv', NEW r \in Requests, CommitBuy(r)
  PROVE  OneTrade(r)
<1>0. PICK p \in Requests : p = Row(r)
  BY DEF TradingInv, TypeOK, Row
<1> DEFINE qty == job[r].qty
           update == ApplyBuyFill(held[r], qty, price[r])
           fill == [side |-> "BUY", asset |-> job[r].asset, qty |-> qty,
                    price |-> price[r], fee |-> Fee(qty, price[r]), pnl |-> update.pnl]
           row == [asset |-> job[r].asset, qty |-> update.qty, avg |-> update.avg,
                   pnl |-> held[r].pnl, status |-> update.status]
<1>1. /\ pc[r] = "write" /\ job[r].side = "BUY"
      /\ fills' = [fills EXCEPT ![r] = fill]
      /\ positions' = [positions EXCEPT ![p] = row]
      /\ cash' = CashAfterBuy(seen[r], qty, price[r])
  BY <1>0 DEF CommitBuy, Row
<1>2. /\ fills'[r] = fill /\ \A q \in Requests \ {r} : fills'[q] = fills[q]
      /\ positions'[p] = row /\ \A q \in Requests \ {p} : positions'[q] = positions[q]
  BY <1>1 DEF TradingInv, TypeOK
<1>3. /\ fills[r] = None /\ positions[r] = None /\ seen[r] = cash
      /\ held[r].qty \in Nat /\ qty \in Nat /\ job[r].asset \in Assets
  BY <1>1, AboutToWrite DEF Jobs, Snapshots
<1>4. /\ fill.side = "BUY" /\ fill.asset = job[r].asset /\ fill.qty = qty
      /\ fill.price = price[r] /\ fill.fee = Fee(qty, price[r])
  OBVIOUS
<1>5. row.asset = job[r].asset /\ row.qty = held[r].qty + qty
  BY DEF ApplyBuyFill
<1>6. fill # None /\ row # None
  <2>1. /\ orders'[r] = OrderRow(r, qty, "FILLED")
        /\ OrderRow(r, qty, "FILLED") \in OrderRows
    BY <1>1, AboutToWrite DEF CommitBuy, TradingInv, TypeOK, OrderRow, OrderRows, Jobs
  <2>2. orders'[r] # None /\ orders'[r].status = "FILLED"
    BY <2>1, NullAssumption DEF OrderRow
  <2>3. fills'[r] # None
    BY <2>2 DEF TradingInv, BookInv, FillsMatchOrders
  <2>4. /\ held[r].avg \in Nat /\ held[r].pnl \in Int /\ price[r] \in Nat
        /\ qty \in Nat \ {0}
    BY <1>1, <1>3, AboutToWrite, PricesPositive
       DEF TradingInv, SessionInv, JobsKnown, Snapshots
  <2>5. WeightedAverageEntry(held[r].qty, held[r].avg, qty, price[r]) \in Nat
    BY <1>3, <2>4, AverageNat
  <2>6. row \in PositionRows
    BY <1>3, <2>4, <2>5 DEF ApplyBuyFill, PositionRows
  <2> QED
    BY <1>2, <2>3, <2>6, NullAssumption
<1> HIDE DEF fill, row
<1>7. CashFlow(r)' = -RequiredCash(qty, price[r])
  BY <1>2, <1>4, <1>6 DEF CashFlow, RequiredCash
<1>8. cash' = RoundTicks(cash * Lot + CashFlow(r)', Lot)
  <2>1. RequiredCash(qty, price[r]) \in Int /\ cash * Lot \in Int
    <3>1. price[r] \in Nat /\ cash \in Nat
      BY <1>1, AboutToWrite, PricesPositive
    <3>2. RequiredCash(qty, price[r]) \in Nat
      BY <1>3, <3>1, FeeNat
    <3>3. cash * Lot \in Int
      BY <3>1, EngineAssumption
    <3> QED
      BY <3>2, <3>3
  <2>2. cash * Lot + CashFlow(r)' = cash * Lot - RequiredCash(qty, price[r])
    BY <1>7, <2>1
  <2> QED
    BY <1>1, <1>3, <2>2 DEF CashAfterBuy
<1>9. ASSUME NEW a \in Assets PROVE HeldIn(p, a)' - HeldIn(p, a) = Moved(r, a)'
  <2>1. Moved(r, a)' = IF job[r].asset = a THEN qty ELSE 0
    BY <1>2, <1>4, <1>6 DEF Moved
  <2>2. HeldIn(p, a)' = IF job[r].asset = a THEN held[r].qty + qty ELSE 0
    BY <1>2, <1>5, <1>6 DEF HeldIn
  <2>3. HeldIn(p, a) = IF job[r].asset = a THEN held[r].qty ELSE 0
    <3>1. CASE found[r] = None
      <4>1. held[r] = NoSnapshot
        BY <1>1, <3>1 DEF TradingInv, SessionInv, FoundAndHeld, Locking
      <4> QED
        BY <1>0, <1>3, <3>1, <4>1 DEF HeldIn, Row, NoSnapshot
    <3>2. CASE found[r] # None
      BY <1>0, <1>1, <3>2, HeldRow DEF HeldIn, Row, IsOpen
    <3> QED
      BY <3>1, <3>2
  <2> QED
    BY <1>3, <2>1, <2>2, <2>3
<1> QED
  BY <1>2, <1>3, <1>6, <1>8, <1>9 DEF OneTrade

LEMMA SellIsOneTrade ==
  ASSUME TradingInv, TradingInv', NEW r \in Requests, CommitSell(r)
  PROVE  OneTrade(r)
<1>0. PICK p \in Requests : p = Row(r)
  BY DEF TradingInv, TypeOK, Row
<1> DEFINE qty == job[r].qty
           fee == Fee(qty, price[r])
           update == ApplySellFill(held[r], held[r].qty, price[r], SellFee(r))
           fill == [side |-> "SELL", asset |-> job[r].asset, qty |-> held[r].qty,
                    price |-> price[r], fee |-> SellFee(r), pnl |-> update.pnl]
           row == [asset |-> job[r].asset, qty |-> update.qty, avg |-> update.avg,
                   pnl |-> held[r].pnl + update.pnl, status |-> update.status]
<1>1. /\ pc[r] = "write" /\ job[r].side = "SELL"
      /\ fills' = [fills EXCEPT ![r] = fill]
      /\ positions' = [positions EXCEPT ![p] = row]
      /\ cash' = CashAfterSell(seen[r], qty, price[r], fee)
  <2>1. found[r] = p
    <3>1. pc[r] = "write" /\ job[r].side = "SELL"
      BY DEF CommitSell
    <3> QED
      BY <1>0, <3>1 DEF TradingInv, SessionInv, FoundAndHeld, Locking, Row
  <2> QED
    BY <2>1 DEF CommitSell, CashFromSell, SellFee
<1>2. /\ fills[r] = None /\ seen[r] = cash
      /\ held[r].qty \in Nat /\ qty \in Nat /\ job[r].asset \in Assets
      /\ held[r].avg \in Nat /\ held[r].pnl \in Int /\ price[r] \in Nat
  BY <1>1, AboutToWrite, PricesPositive DEF Jobs, Snapshots
<1>3. /\ IsOpen(p) /\ positions[p].asset = job[r].asset
      /\ held[r].qty = qty /\ positions[p].qty = qty
  <2>1. found[r] # None
    BY <1>1 DEF TradingInv, SessionInv, FoundAndHeld, Locking
  <2> QED
    BY <1>0, <1>1, <2>1, HeldRow DEF Row
<1>4. /\ fills'[r] = fill /\ \A q \in Requests \ {r} : fills'[q] = fills[q]
      /\ positions'[p] = row /\ \A q \in Requests \ {p} : positions'[q] = positions[q]
  BY <1>1, <1>3 DEF TradingInv, TypeOK
<1>5. /\ fill.side = "SELL" /\ fill.asset = job[r].asset /\ fill.qty = qty
      /\ fill.price = price[r] /\ fill.fee = fee
  BY <1>3 DEF SellFee
<1>6. row.asset = job[r].asset /\ row.qty = 0
  BY <1>2 DEF ApplySellFill
<1>7. fill # None /\ row # None
  <2>1. fee \in Nat /\ SellFee(r) = fee
    BY <1>2, FeeNat DEF SellFee
  <2>2. RealizedPnl(held[r].avg, price[r], held[r].qty, SellFee(r)) \in Int
    BY <1>2, <2>1, RealizedInt
  <2>3. update.pnl \in Int /\ update.qty = 0 /\ update.avg = held[r].avg
        /\ update.status = "CLOSED"
    BY <1>2, <2>2 DEF ApplySellFill
  <2>4. price[r] \in Prices
    BY <1>1, AboutToWrite
  <2>5. fill \in FillRows /\ row \in PositionRows
    BY <1>2, <2>1, <2>3, <2>4 DEF FillRows, PositionRows
  <2> QED
    BY <2>5, NullAssumption
<1> HIDE DEF fill, row, fee
<1>8. CashFlow(r)' = Notional(qty, price[r]) - fee * Lot
  BY <1>4, <1>5, <1>7 DEF CashFlow
<1>9. cash' = RoundTicks(cash * Lot + CashFlow(r)', Lot)
  <2>1. cash \in Nat /\ fee \in Nat
    BY <1>1, <1>2, AboutToWrite, FeeNat DEF fee
  <2>2. Notional(qty, price[r]) \in Int /\ fee * Lot \in Int /\ cash * Lot \in Int
    <3>1. Notional(qty, price[r]) \in Nat
      BY <1>2, FeeNat
    <3>2. fee * Lot \in Int /\ cash * Lot \in Int
      BY <2>1, EngineAssumption
    <3> QED
      BY <3>1, <3>2
  <2>3. cash * Lot + CashFlow(r)' = cash * Lot + Notional(qty, price[r]) - fee * Lot
    BY <1>8, <2>2
  <2> QED
    BY <1>1, <1>2, <2>3 DEF CashAfterSell
<1>10. ASSUME NEW a \in Assets PROVE HeldIn(p, a)' - HeldIn(p, a) = Moved(r, a)'
  <2>1. Moved(r, a)' = IF job[r].asset = a THEN -qty ELSE 0
    BY <1>4, <1>5, <1>7 DEF Moved
  <2>2. HeldIn(p, a)' = 0
    BY <1>4, <1>6, <1>7 DEF HeldIn
  <2>3. HeldIn(p, a) = IF job[r].asset = a THEN qty ELSE 0
    BY <1>3 DEF HeldIn, IsOpen
  <2> QED
    BY <1>2, <2>1, <2>2, <2>3
<1> QED
  BY <1>2, <1>4, <1>7, <1>9, <1>10 DEF OneTrade

\* Each holding follows what the new fill moved.
LEMMA TradeKeepsShares ==
  ASSUME TradingInv, TradingInv', SharesConserved, NEW r \in Requests, OneTrade(r)
  PROVE  SharesConserved'
<1> SUFFICES ASSUME NEW a \in Assets
             PROVE  SumFunction([p \in Requests |-> HeldIn(p, a)'])
                      = SumFunction([q \in Requests |-> Moved(q, a)'])
  BY DEF SharesConserved
<1>1. PICK p \in Requests :
        /\ \A q \in Requests \ {p} : positions'[q] = positions[q]
        /\ HeldIn(p, a)' - HeldIn(p, a) = Moved(r, a)'
  BY DEF OneTrade
<1> DEFINE held0 == [q \in Requests |-> HeldIn(q, a)]
           held1 == [q \in Requests |-> HeldIn(q, a)']
           moved0 == [q \in Requests |-> Moved(q, a)]
           moved1 == [q \in Requests |-> Moved(q, a)']
<1>2. \A q \in Requests : /\ held0[q] \in Int /\ held1[q] \in Int
                          /\ moved0[q] \in Int /\ moved1[q] \in Int
  <2>1. SummandsInt /\ SummandsInt'
    BY SummandsAreInt, PTL DEF TradingInv
  <2> QED
    BY <2>1 DEF SummandsInt
<1>3. \A q \in Requests \ {p} : held1[q] = held0[q]
  BY <1>1 DEF HeldIn
<1>4. \A q \in Requests \ {r} : moved1[q] = moved0[q]
  BY DEF OneTrade, Moved
<1>5. held1[p] - held0[p] = moved1[r] /\ moved0[r] = 0
  BY <1>1 DEF OneTrade, Moved
<1>6. SumFunctionOnSet(held0, Requests) = SumFunctionOnSet(moved0, Requests)
  BY DEF SharesConserved, SumFunction
<1> HIDE DEF held0, held1, moved0, moved1
<1>7. SumFunctionOnSet(held1, Requests)
        = SumFunctionOnSet(held0, Requests) + held1[p] - held0[p]
  BY <1>2, <1>3, AuditAssumption, SumChanged
<1>8. SumFunctionOnSet(moved1, Requests)
        = SumFunctionOnSet(moved0, Requests) + moved1[r] - moved0[r]
  BY <1>2, <1>4, AuditAssumption, SumChanged
<1>9. SumFunctionOnSet(moved0, Requests) \in Int
  BY <1>2, AuditAssumption, SumType
<1>10. SumFunctionOnSet(held1, Requests) = SumFunctionOnSet(moved1, Requests)
  BY <1>2, <1>5, <1>6, <1>7, <1>8, <1>9
<1> QED
  BY <1>10 DEF held1, moved1, SumFunction

\* A new fill moves the drift by what its write rounded away.
LEMMA TradeKeepsCash ==
  ASSUME TradingInv, TradingInv', CashReconciles, NEW r \in Requests, OneTrade(r)
  PROVE  CashReconciles'
<1> DEFINE flow0 == [q \in Requests |-> CashFlow(q)]
           flow1 == [q \in Requests |-> CashFlow(q)']
           n == cash * Lot + CashFlow(r)'
<1>1. \A q \in Requests : flow0[q] \in Int /\ flow1[q] \in Int
  <2>1. SummandsInt /\ SummandsInt'
    BY SummandsAreInt, PTL DEF TradingInv
  <2> QED
    BY <2>1 DEF SummandsInt
<1>2. (\A q \in Requests \ {r} : flow1[q] = flow0[q]) /\ flow0[r] = 0
      /\ flow1[r] = CashFlow(r)'
  BY DEF OneTrade, CashFlow
<1>3. Lot \in Nat \ {0} /\ cash \in Nat /\ cash' \in Nat /\ InitialCash \in Nat
  BY EngineAssumption, TradingAssumption DEF TradingInv, TypeOK
<1>4. n \in Int
  <2>1. cash * Lot \in Int /\ CashFlow(r)' \in Int
    BY <1>1, <1>2, <1>3
  <2> QED
    BY <2>1
<1>5. 2 * (cash' * Lot - n) <= Lot /\ 2 * (n - cash' * Lot) <= Lot
  BY <1>3, <1>4, RoundTicksError DEF OneTrade
<1>6. Drift = (cash - InitialCash) * Lot - SumFunctionOnSet(flow0, Requests)
      /\ Drift' = (cash' - InitialCash) * Lot - SumFunctionOnSet(flow1, Requests)
  BY DEF Drift, SumFunction
<1> HIDE DEF flow0, flow1
<1>7. SumFunctionOnSet(flow1, Requests) = SumFunctionOnSet(flow0, Requests) + CashFlow(r)'
      /\ SumFunctionOnSet(flow0, Requests) \in Int
  <2>1. SumFunctionOnSet(flow1, Requests)
          = SumFunctionOnSet(flow0, Requests) + flow1[r] - flow0[r]
    BY <1>1, <1>2, AuditAssumption, SumChanged
  <2>2. SumFunctionOnSet(flow0, Requests) \in Int
    BY <1>1, AuditAssumption, SumType
  <2> QED
    BY <1>1, <1>2, <2>1, <2>2
<1> DEFINE step == cash' * Lot - n
<1>8. Drift \in Int /\ step \in Int /\ Drift' = Drift + step
  <2>1. /\ cash * Lot \in Int /\ cash' * Lot \in Int /\ InitialCash * Lot \in Int
        /\ (cash - InitialCash) * Lot = cash * Lot - InitialCash * Lot
        /\ (cash' - InitialCash) * Lot = cash' * Lot - InitialCash * Lot
    BY <1>3
  <2>2. CashFlow(r)' \in Int
    BY <1>1, <1>2
  <2> QED
    BY <1>6, <1>7, <2>1, <2>2
<1>9. /\ Cardinality(Filled') = Cardinality(Filled) + 1 /\ Cardinality(Filled) \in Nat
  <2>1. Filled' = Filled \cup {r} /\ r \notin Filled
    BY DEF OneTrade, Filled
  <2>2. IsFiniteSet(Filled)
    BY AuditAssumption, FS_Subset DEF Filled
  <2> QED
    BY <2>1, <2>2, FS_AddElement, FS_CardinalityType
<1>10. Lot * Cardinality(Filled') = Lot * Cardinality(Filled) + Lot
       /\ Lot * Cardinality(Filled) \in Int
  BY <1>3, <1>9
<1>11. 2 * Drift <= Lot * Cardinality(Filled) /\ -(2 * Drift) <= Lot * Cardinality(Filled)
  BY DEF CashReconciles
<1>12. 2 * step <= Lot /\ -(2 * step) <= Lot
  <2>1. cash' * Lot \in Int
    BY <1>3
  <2> DEFINE written == cash' * Lot
  <2> HIDE DEF n, written
  <2>2. -(2 * (written - n)) = 2 * (n - written)
    BY <1>4, <2>1 DEF written
  <2> QED
    BY <1>5, <2>2 DEF written
<1> HIDE DEF step
<1>13. /\ 2 * Drift' <= Lot * Cardinality(Filled')
       /\ -(2 * Drift') <= Lot * Cardinality(Filled')
  BY <1>3, <1>8, <1>10, <1>11, <1>12
<1> QED
  BY <1>3, <1>13 DEF CashReconciles

AuditInv == TradingInv /\ SharesConserved /\ CashReconciles

LEMMA InitEstablishesAuditInv == Init => AuditInv
<1> SUFFICES ASSUME Init PROVE AuditInv
  OBVIOUS
<1>1. TradingInv
  BY InitEstablishesInv
<1>2. SharesConserved
  <2> SUFFICES ASSUME NEW a \in Assets
               PROVE  SumFunction([p \in Requests |-> HeldIn(p, a)])
                        = SumFunction([r \in Requests |-> Moved(r, a)])
    BY DEF SharesConserved
  <2>1. \A r \in Requests : HeldIn(r, a) = 0 /\ Moved(r, a) = 0
    BY DEF Init, HeldIn, Moved
  <2>2. [p \in Requests |-> HeldIn(p, a)] = [r \in Requests |-> Moved(r, a)]
    BY <2>1
  <2> QED
    BY <2>2
<1>3. CashReconciles
  <2> DEFINE flow == [r \in Requests |-> CashFlow(r)]
  <2>1. \A r \in Requests : flow[r] = 0
    BY DEF Init, CashFlow
  <2>2. Drift = (cash - InitialCash) * Lot - SumFunctionOnSet(flow, Requests)
    BY DEF Drift, SumFunction
  <2> HIDE DEF flow
  <2>3. SumFunctionOnSet(flow, Requests) = 0
    BY <2>1, AuditAssumption, SumZero
  <2>4. cash = InitialCash /\ InitialCash \in Nat /\ Lot \in Nat
    BY EngineAssumption, TradingAssumption DEF Init
  <2>5. Drift = 0
    BY <2>2, <2>3, <2>4
  <2>6. Cardinality(Filled) = 0
    <3>1. Filled = {}
      BY DEF Init, Filled
    <3> QED
      BY <3>1, FS_EmptySet
  <2> QED
    BY <2>4, <2>5, <2>6 DEF CashReconciles
<1> QED
  BY <1>1, <1>2, <1>3 DEF AuditInv

LEMMA NextKeepsAuditInv == AuditInv /\ [Next]_vars => AuditInv'
<1> SUFFICES ASSUME AuditInv, [Next]_vars PROVE AuditInv'
  OBVIOUS
<1>1. TradingInv /\ TradingInv'
  BY NextKeepsInv DEF AuditInv
<1>2. CASE UNCHANGED <<fills, positions, cash>>
  <2>1. SharesConserved'
    BY <1>2 DEF AuditInv, SharesConserved, HeldIn, Moved
  <2>2. CashReconciles'
    BY <1>2 DEF AuditInv, CashReconciles, Drift, CashFlow, Filled
  <2> QED
    BY <1>1, <2>1, <2>2 DEF AuditInv
<1>3. ASSUME NEW r \in Requests, CommitBuy(r) \/ CommitSell(r) PROVE AuditInv'
  <2>1. OneTrade(r)
    BY <1>1, <1>3, BuyIsOneTrade, SellIsOneTrade
  <2> QED
    BY <1>1, <2>1, TradeKeepsShares, TradeKeepsCash DEF AuditInv
<1>4. \/ UNCHANGED <<fills, positions, cash>>
      \/ \E r \in Requests : CommitBuy(r) \/ CommitSell(r)
  BY DEF Next, Serve, ExecuteStep, CloseStep, SharedStep, ExecuteSignal,
     RefuseExecution, ClosePosition, NothingToClose, GetFill, FindPosition,
     FindNoPosition, PositionGone, LockPosition, PositionChanged, RejectOrder,
     LockClosedPosition, PositionClosedMeanwhile, LockAccount, DuplicateOrder,
     IntegrityError, Respond, Fail, RiskDecides, Supersede, Refuse, vars, bookVars
<1> QED
  BY <1>2, <1>3, <1>4

LEMMA AuditInvariant == Spec => []AuditInv
BY InitEstablishesAuditInv, NextKeepsAuditInv, PTL DEF Spec

\* Whatever requests overlap and fail, what the positions of an asset hold is
\* what its fills bought less what they sold: no close sells twice and no BUY
\* is lost (execute_signal and close_position).
THEOREM SharesAlwaysConserved == Spec => []SharesConserved
<1>1. AuditInv => SharesConserved
  BY DEF AuditInv
<1> QED
  BY <1>1, AuditInvariant, PTL

\* The balance is the seed plus the flow of every fill, to within half a tick
\* for each fill, and never negative, however many fills there are.
THEOREM CashAlwaysReconciles == Spec => []CashReconciles
<1>1. AuditInv => CashReconciles
  BY DEF AuditInv
<1> QED
  BY <1>1, AuditInvariant, PTL

=============================================================================
