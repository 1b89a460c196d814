------------------------ MODULE MCTechnicalAnalysis ------------------------
EXTENDS TechnicalAnalysis

Candle(high, low, close, volume) == [high |-> high, low |-> low, close |-> close, volume |-> volume]

\* Flat without volume, up, down and a wide bar.
MCCandles == {Candle(1, 1, 1, 0), Candle(3, 1, 3, 2), Candle(2, 0, 0, 1), Candle(3, 0, 2, 3)}

=============================================================================
