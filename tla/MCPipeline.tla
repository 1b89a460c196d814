----------------------------- MODULE MCPipeline -----------------------------
(***************************************************************************)
(* Pipeline for TLC.  100% is ten steps; the limits are tight enough that  *)
(* one or two trades reach them.                                           *)
(***************************************************************************)
EXTENDS Pipeline, TLC

CONSTANTS s1, s2, s3, btc, eth, sol

MCSignals == {s1, s2, s3}
MCAssets == {btc, eth, sol}
MCAssetOf == s1 :> btc @@ s2 :> eth @@ s3 :> sol

MCPolicy ==
  [enabled |-> TRUE, maxPosition |-> 4, maxExposure |-> 8, riskPerTrade |-> 3,
   stopLoss |-> 5, takeProfit |-> 5, maxDailyLoss |-> 5, maxDrawdown |-> 6,
   maxPositions |-> 1, cooldown |-> 2]

=============================================================================
