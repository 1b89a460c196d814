-------------------------- MODULE PaperTradingAudit --------------------------
(***************************************************************************)
(* PaperTrading's books added up: sums over all the rows of a table.       *)
(***************************************************************************)
EXTENDS PaperTrading, FiniteSets, Functions

\* A table can be added up.
ASSUME AuditAssumption == IsFiniteSet(Requests)

\* What position row p holds of asset a.
HeldIn(p, a) ==
  IF positions[p] # None /\ positions[p].asset = a THEN positions[p].qty ELSE 0

\* What the fill of r added to, or took from, the holding of asset a.
Moved(r, a) ==
  IF fills[r] = None \/ fills[r].asset # a THEN 0
  ELSE IF fills[r].side = "BUY" THEN fills[r].qty
  ELSE -fills[r].qty

Filled == {r \in Requests : fills[r] # None}

\* What a fill moved, unrounded, in ticks / Lot.
CashFlow(r) ==
  IF fills[r] = None THEN 0
  ELSE IF fills[r].side = "BUY"
  THEN -(Notional(fills[r].qty, fills[r].price) + fills[r].fee * Lot)
  ELSE Notional(fills[r].qty, fills[r].price) - fills[r].fee * Lot

\* What the balance owes to rounding, in ticks / Lot.
Drift == (cash - InitialCash) * Lot - SumFunction([r \in Requests |-> CashFlow(r)])

-----------------------------------------------------------------------------

\* Shares are conserved: what the position rows of an asset hold is what its
\* fills bought less what they sold (no double close, no lost BUY).
SharesConserved ==
  \A a \in Assets :
    SumFunction([p \in Requests |-> HeldIn(p, a)]) = SumFunction([r \in Requests |-> Moved(r, a)])

\* Every tick of cash traces back to the seed and the fills: the balance is
\* the seed plus the exact flow of all fills, but for the half tick each
\* write to the NUMERIC(20,8) column may round away (no lost update, no money
\* out of thin air).  And it is never overdrawn, though what is compared with
\* it before a BUY is not rounded and what is written is.
CashReconciles ==
  /\ 2 * Drift <= Lot * Cardinality(Filled)
  /\ -(2 * Drift) <= Lot * Cardinality(Filled)
  /\ cash >= 0

=============================================================================
