-------------------------- MODULE MCCommandCenter --------------------------
(***************************************************************************)
(* CommandCenter for TLC: two signals on one asset, so that a BUY can add  *)
(* to a position that a section of the answer has already counted.         *)
(***************************************************************************)
EXTENDS CommandCenter

CONSTANTS s1, s2, btc, p1

MCSignals == {s1, s2}
MCAssetOf == [s \in MCSignals |-> btc]

=============================================================================
