------------------------ MODULE MCPositionLifecycle ------------------------
(***************************************************************************)
(* PositionLifecycle for TLC: two lots to the unit, prices that do not     *)
(* divide evenly, a fee rate of one eighth so that fees round both ways.   *)
(***************************************************************************)
EXTENDS PositionLifecycle

MCPrices == {1, 4, 7}
MCQuantities == {1, 2, 3}

=============================================================================
