------------------------- MODULE MCSignalLifecycle -------------------------
(***************************************************************************)
(* SignalLifecycle for TLC.                                                *)
(***************************************************************************)
EXTENDS SignalLifecycleRefinement, TLC

CONSTANTS g1, g2, g3, v1, v2, v3, u1, u2

Symmetry == Permutations({g1, g2}) \cup Permutations(Reviews) \cup Permutations(Updates)

\* Bound: two evaluations meet two reviews and two updates, or three meet one
\* review.  The last to begin is g3.
Scenarios ==
  \/ pc[g3] = "idle"
  \/ /\ pc[g1] # "idle" /\ pc[g2] # "idle"
     /\ Cardinality({c \in Reviews : pc[c] # "idle"}) <= 1
     /\ \A c \in Updates : pc[c] = "idle"

=============================================================================
