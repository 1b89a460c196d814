--------------------------- MODULE MCPaperTrading ---------------------------
(***************************************************************************)
(* PaperTrading for TLC: two signals on one asset, so that requests meet   *)
(* on the same signal, the same position and the same cash.                *)
(***************************************************************************)
EXTENDS PaperTradingAudit, PaperTradingRefinement, TLC

CONSTANTS r1, r2, r3, s1, s2, s3, btc, eth

MCSignals == {s1, s2, s3}
MCAssetOf == [s \in MCSignals |-> IF s = s3 THEN eth ELSE btc]

OnBtc == [s \in {s1, s2} |-> btc]

MCPrices == {2, 5}

Symmetry == Permutations(Requests) \cup Permutations({s1, s2})

=============================================================================
