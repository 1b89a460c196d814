--------------------------- MODULE MCSignalRules ---------------------------
(* Values on both sides of, and at, every threshold and warm-up length. *)
EXTENDS SignalRules

MCBarCounts == {20, 49, 50, 200}
MCRsiValues == {15, 20, 30, 70, 80, 85}
MCVolumes == {Undefined, 70, 125, 130}
MCRanges == {90, 300, 310}

=============================================================================
