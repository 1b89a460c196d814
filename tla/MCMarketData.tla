---------------------------- MODULE MCMarketData ----------------------------
EXTENDS MarketData

Bar(open, high, low, close) ==
  [open |-> open, high |-> high, low |-> low, close |-> close, aware |-> TRUE]

\* Two good bars, both rounded.
Rising == Bar(3, 6, 2, 5)
Falling == Bar(7, 7, 2, 2)

\* Valid, but half of the smallest price that can be stored; not valid.
Dust == Bar(1, 2, 1, 2)
Naive == [Bar(3, 6, 2, 5) EXCEPT !.aware = FALSE]

MCOffers == {Rising, Falling, Dust, Naive}

=============================================================================
