---------------------------- MODULE PaperLedger ----------------------------
(***************************************************************************)
(* What paper trading promises: one trade at a time against one cash       *)
(* balance and one book of positions.  No requests, no sessions, no locks. *)
(* PaperTrading implements it.                                             *)
(***************************************************************************)
EXTENDS PaperEngine

CONSTANTS Signals, Assets, AssetOf, Prices, Sizes, InitialCash, None

VARIABLES
  approval, \* the quantity each signal is approved for, or None
  settled,  \* what became of each signal's one order: None, FILLED, REJECTED
  book,     \* each asset's open position [qty, avg], or Flat
  cash

ledgerVars == <<approval, settled, book, cash>>

Init ==
  /\ approval = [s \in Signals |-> None]
  /\ settled = [s \in Signals |-> None]
  /\ book = [a \in Assets |-> Flat]
  /\ cash = InitialCash

Approve(s, qty) ==
  /\ approval[s] = None
  /\ approval' = [approval EXCEPT ![s] = qty]
  /\ UNCHANGED <<settled, book, cash>>

Affordable(qty, price) == RequiredCash(qty, price) <= cash * Lot

Buy(s, price) ==
  LET a == AssetOf[s]
      update == ApplyBuyFill(book[a], approval[s], price)
  IN /\ approval[s] # None
     /\ settled[s] = None
     /\ Affordable(approval[s], price)
     /\ settled' = [settled EXCEPT ![s] = "FILLED"]
     /\ book' = [book EXCEPT ![a] = [qty |-> update.qty, avg |-> update.avg]]
     /\ cash' = CashAfterBuy(cash, approval[s], price)
     /\ UNCHANGED approval

Reject(s, price) ==
  /\ approval[s] # None
  /\ settled[s] = None
  /\ ~Affordable(approval[s], price)
  /\ settled' = [settled EXCEPT ![s] = "REJECTED"]
  /\ UNCHANGED <<approval, book, cash>>

\* CHECK (cash >= 0) refuses a sale whose fee the account cannot pay.
Close(a, price) ==
  LET qty == book[a].qty
      left == CashAfterSell(cash, qty, price, Fee(qty, price))
  IN /\ qty > 0
     /\ left >= 0
     /\ book' = [book EXCEPT ![a] = Flat]
     /\ cash' = left
     /\ UNCHANGED <<approval, settled>>

Next ==
  \/ \E s \in Signals, qty \in Sizes : Approve(s, qty)
  \/ \E s \in Signals, price \in Prices : Buy(s, price) \/ Reject(s, price)
  \/ \E a \in Assets, price \in Prices : Close(a, price)

Spec == Init /\ [][Next]_ledgerVars

=============================================================================
