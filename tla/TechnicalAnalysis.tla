-------------------------- MODULE TechnicalAnalysis --------------------------
(***************************************************************************)
(* indicators.py and TechnicalAnalysisEngine.calculate over a window of    *)
(* stored bars that grows at its end and moves at its start.               *)
(*                                                                         *)
(* Arithmetic is exact: prices and volumes are multiples of Unit, chosen   *)
(* so that every average divides evenly; ratios are whole percents, rounded*)
(* down.  Rounding of floats is not modelled.                              *)
(***************************************************************************)
EXTENDS Integers, Sequences, Functions, FiniteSetsExt

CONSTANTS
  Candles,    \* bars the market may print: [high, low, close, volume]
  MaxBars,    \* bars stored at most
  Unit,
  Fast, Slow, SignalPeriod,  \* MACD_FAST, MACD_SLOW, MACD_SIGNAL
  SmoothD, Period,           \* STOCHASTIC_SMOOTH_D; every other period
  Undefined

ASSUME TechnicalAnalysisAssumption ==
  /\ Fast \in Nat \ {0} /\ Slow \in Nat /\ Fast <= Slow
  /\ \A p \in {SignalPeriod, SmoothD, Period, Unit} : p \in Nat \ {0}
  /\ Candles \subseteq [high : Nat, low : Nat, close : Nat, volume : Nat]
  /\ \A c \in Candles : c.low <= c.high
  /\ Undefined \notin Int

VARIABLES
  history,   \* market_data, oldest first
  start,     \* the first bar of the window asked for
  series     \* the answer: the indicators of that window

analysisVars == <<history, start, series>>

-----------------------------------------------------------------------------
(* A series has Undefined, the code's None, where the indicator is not yet *)
(* defined.                                                                *)

Defined(values) == {i \in DOMAIN values : values[i] # Undefined}

\* Mutant: the value that leaves is the wrong one.
RunningSumsLate(values, p) ==
  LET sum[i \in 0..Len(values)] ==
        IF i = 0 THEN 0
        ELSE sum[i - 1] + values[i] - (IF i > p + 1 THEN values[i - p - 1] ELSE 0)
  IN sum

RunningSums(values, p) ==
  LET sum[i \in 0..Len(values)] ==
        IF i = 0 THEN 0
        ELSE sum[i - 1] + values[i] - (IF i > p THEN values[i - p] ELSE 0)
  IN sum

Sma(values, p) ==
  LET sums == RunningSums(values, p)
  IN [i \in DOMAIN values |-> IF i >= p THEN sums[i] \div p ELSE Undefined]

\* Mutant: seeded with the latest values.
SeedFromLatest(values, p) == SumFunction(SubSeq(values, Len(values) - p + 1, Len(values))) \div p

Seed(values, p) == SumFunction(SubSeq(values, 1, p)) \div p

Ema(values, p) ==
  LET average[i \in p..Len(values)] ==
        IF i = p THEN Seed(values, p)
        ELSE LET before == average[i - 1]
             IN ((values[i] - before) * 2) \div (p + 1) + before
  IN [i \in DOMAIN values |-> IF i >= p THEN average[i] ELSE Undefined]

Smoothed(average, value, p) == (average * (p - 1) + value) \div p

\* Wilder's average of what happens between bars: it starts at the second.
Wilder(values, p) ==
  LET average[i \in (p + 1)..Len(values)] ==
        IF i = p + 1 THEN SumFunction(SubSeq(values, 2, p + 1)) \div p
        ELSE Smoothed(average[i - 1], values[i], p)
  IN [i \in DOMAIN values |-> IF i > p THEN average[i] ELSE Undefined]

-----------------------------------------------------------------------------
Changes(closes) == [i \in DOMAIN closes |-> IF i = 1 THEN 0 ELSE closes[i] - closes[i - 1]]

RsiFromAverages(gain, loss) ==
  IF loss = 0 THEN (IF gain > 0 THEN 100 ELSE 50) ELSE (100 * gain) \div (gain + loss)

Rsi(closes, p) ==
  LET change == Changes(closes)
      gains == Wilder([i \in DOMAIN closes |-> Max({change[i], 0})], p)
      losses == Wilder([i \in DOMAIN closes |-> Max({-change[i], 0})], p)
  IN [i \in DOMAIN closes |-> IF i > p THEN RsiFromAverages(gains[i], losses[i]) ELSE Undefined]

\* The defined values of a series, and an average put back where they begin.
DefinedTail(values) ==
  LET kept[i \in 0..Len(values)] ==
        IF i = 0 THEN <<>>
        ELSE IF values[i] = Undefined THEN kept[i - 1] ELSE Append(kept[i - 1], values[i])
  IN kept[Len(values)]

PutBack(tail, values) ==
  LET before == Len(values) - Len(DefinedTail(values))
  IN [i \in DOMAIN values |-> IF i <= before THEN Undefined ELSE tail[i - before]]

Difference(left, right) ==
  [i \in DOMAIN left |->
     IF Undefined \in {left[i], right[i]} THEN Undefined ELSE left[i] - right[i]]

Macd(closes) == Difference(Ema(closes, Fast), Ema(closes, Slow))

\* Mutant: the signal line is not put back where the MACD line begins.
SignalFromTheFirstBar(macd) ==
  LET tail == Ema(DefinedTail(macd), SignalPeriod)
  IN [i \in DOMAIN macd |-> IF i \in DOMAIN tail THEN tail[i] ELSE Undefined]

SignalLine(macd) == PutBack(Ema(DefinedTail(macd), SignalPeriod), macd)

Window(values, i, p) == {values[j] : j \in (i - p + 1)..i}

PercentK(bars, p) ==
  [i \in DOMAIN bars |->
     IF i < p THEN Undefined
     ELSE LET high == Max({bar.high : bar \in Window(bars, i, p)})
              low == Min({bar.low : bar \in Window(bars, i, p)})
          IN IF high = low THEN 50 ELSE (100 * (bars[i].close - low)) \div (high - low)]

PercentD(percentK) == PutBack(Sma(DefinedTail(percentK), SmoothD), percentK)

Distance(a, b) == Max({a - b, b - a})

TrueRanges(bars) ==
  [i \in DOMAIN bars |->
     IF i = 1 THEN 0
     ELSE LET close == bars[i - 1].close
          IN Max({bars[i].high - bars[i].low, Distance(bars[i].high, close),
                  Distance(bars[i].low, close)})]

Atr(bars, p) == Wilder(TrueRanges(bars), p)

\* The square of the bands' standard deviation.
Variance(closes, p) ==
  LET middle == Sma(closes, p)
      Square(n) == n * n
  IN [i \in DOMAIN closes |->
        IF i < p THEN Undefined
        ELSE SumFunction([k \in 1..p |-> Square(closes[i - p + k] - middle[i])]) \div p]

RelativeVolume(volumes, average) ==
  [i \in DOMAIN volumes |->
     IF average[i] \in {Undefined, 0} THEN Undefined ELSE (100 * volumes[i]) \div average[i]]

-----------------------------------------------------------------------------
Calculate(bars) ==
  LET closes == [i \in DOMAIN bars |-> Unit * bars[i].close]
      volumes == [i \in DOMAIN bars |-> Unit * bars[i].volume]
      scaled == [i \in DOMAIN bars |->
                   [high |-> Unit * bars[i].high, low |-> Unit * bars[i].low, close |-> closes[i]]]
      macd == Macd(closes)
      percentK == PercentK(scaled, Period)
      volumeSma == Sma(volumes, Period)
  IN [sma |-> Sma(closes, Period), ema |-> Ema(closes, Slow), rsi |-> Rsi(closes, Period),
      macd |-> macd, signal |-> SignalLine(macd),
      histogram |-> Difference(macd, SignalLine(macd)),
      percentK |-> percentK, percentD |-> PercentD(percentK),
      atr |-> Atr(scaled, Period), variance |-> Variance(closes, Period),
      volumeSma |-> volumeSma, relativeVolume |-> RelativeVolume(volumes, volumeSma)]

Asked == SubSeq(history, start, Len(history))

\* The value of a stored bar in an answer; the newest bar's is the snapshot's.
Shown(k, t) == series[k][t - start + 1]

AnalysisInit ==
  /\ history \in {<<c>> : c \in Candles} /\ start = 1
  /\ series = Calculate(Asked)

NewBar ==
  /\ Len(history) < MaxBars
  /\ \E c \in Candles : history' = Append(history, c)
  /\ UNCHANGED start
  /\ series' = Calculate(Asked')

\* The default window follows the clock; a client may also ask for a later one.
MoveWindow ==
  /\ start < Len(history)
  /\ start' = start + 1
  /\ UNCHANGED history
  /\ series' = Calculate(Asked')

AnalysisNext == NewBar \/ MoveWindow

AnalysisSpec == AnalysisInit /\ [][AnalysisNext]_analysisVars

-----------------------------------------------------------------------------
(* Properties *)

Indicators == {"sma", "ema", "rsi", "macd", "signal", "histogram", "percentK", "percentD",
               "atr", "variance", "volumeSma", "relativeVolume"}

\* Indicators that look at a fixed number of bars.
Windowed == {"sma", "percentK", "percentD", "variance", "volumeSma", "relativeVolume"}

\* A new bar leaves every value of the bars before it as it was: an answer about
\* the past never used what came later.
NoLookAhead ==
  [][start' = start =>
       \A k \in Indicators : \A i \in DOMAIN Asked : series[k][i] = series'[k][i]]_analysisVars

\* An indicator over the last bars has the same value for a bar whichever window
\* it is asked in: what left the running sum is gone.
WindowedForgets ==
  [][history' = history =>
       \A k \in Windowed : \A t \in start'..Len(history) :
         Shown(k, t)' # Undefined => Shown(k, t)' = Shown(k, t)]_analysisVars

\* Bars before the first value, by the lengths the code works with.
WarmUp ==
  [sma |-> Period - 1, ema |-> Slow - 1, rsi |-> Period, macd |-> Slow - 1,
   signal |-> Slow + SignalPeriod - 2, histogram |-> Slow + SignalPeriod - 2,
   percentK |-> Period - 1, percentD |-> Period + SmoothD - 2, atr |-> Period,
   variance |-> Period - 1, volumeSma |-> Period - 1]

\* Each indicator is undefined for exactly its warm-up: none is fabricated early
\* and none is late or shifted, however the series are composed.
WarmUpIsExact ==
  \A k \in DOMAIN WarmUp : Defined(series[k]) = {i \in DOMAIN Asked : i > WarmUp[k]}

\* docs/technical-analysis.md: "reproducing a historical value means re-running
\* the same well-documented function" over the durable bars.
HistoricalValuesAreReproducible ==
  [][history' = history =>
       \A t \in start'..Len(history) :
         Shown("ema", t)' # Undefined => Shown("ema", t)' = Shown("ema", t)]_analysisVars

\* docs/technical-analysis.md, bars before the first value: "line: 26 [...]
\* histogram: 26 + 9 - 1".
MacdWarmUpAsDocumented ==
  /\ Defined(series.macd) = {i \in DOMAIN Asked : i > Slow}
  /\ Defined(series.histogram) = {i \in DOMAIN Asked : i > Slow + SignalPeriod - 1}

=============================================================================
