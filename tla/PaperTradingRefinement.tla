----------------------- MODULE PaperTradingRefinement -----------------------
(***************************************************************************)
(* PaperTrading implements PaperLedger: seen through this mapping, every   *)
(* committed transaction is one atomic trade against current values and    *)
(* every other step of every request changes nothing.                      *)
(***************************************************************************)
EXTENDS PaperTrading

\* The order of a signal decides what became of it.
SettledMap ==
  [s \in Signals |->
     IF HasOrder(s)
     THEN orders[CHOOSE r \in Requests : orders[r] # None /\ orders[r].signal = s].status
     ELSE None]

\* The one OPEN row of an asset is its position.
BookMap ==
  [a \in Assets |->
     IF OpenRows(a) = {} THEN Flat
     ELSE LET p == CHOOSE p \in OpenRows(a) : TRUE
          IN [qty |-> positions[p].qty, avg |-> positions[p].avg]]

Ledger == INSTANCE PaperLedger WITH settled <- SettledMap, book <- BookMap

\* Trades are serializable: whatever requests overlap, what they commit is a
\* sequence of whole BUYs, rejections and full closes, each at the cash and
\* the position of that moment (execute_signal and close_position).
ImplementsLedger == Ledger!Spec

=============================================================================
