-------------------------- MODULE MCPortfolioPeak --------------------------
(***************************************************************************)
(* PortfolioPeak for TLC: two assets, one signal each.                     *)
(***************************************************************************)
EXTENDS PortfolioPeak

CONSTANTS s1, s2, btc, eth, p1

MCSignals == {s1, s2}
MCAssets == {btc, eth}
MCAssetOf == [s \in MCSignals |-> IF s = s1 THEN btc ELSE eth]

=============================================================================
