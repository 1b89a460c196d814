---------------------------- MODULE SignalRules ----------------------------
(***************************************************************************)
(* From indicators to a trade candidate: extract_features,                 *)
(* classify_regime, evaluate_rules, component_scores and                   *)
(* SignalEngine.evaluate.                                                  *)
(*                                                                         *)
(* An indicator is reduced to what the thresholds tell apart: the order of *)
(* the two averages of a trend check, the sign of the MACD histogram, an   *)
(* integer RSI, the relative volume in hundredths of the average and the   *)
(* ATR in hundredths of a percent of the price.  Undefined is the code's   *)
(* None: "not computable".                                                 *)
(* A step changes one of them: it compares the candidates of two markets   *)
(* that differ in one reading, it does not claim that markets move so.     *)
(***************************************************************************)
EXTENDS Integers, FiniteSets

CONSTANTS
  Undefined,
  BarCounts,  \* candles in the analysed window
  RsiValues, Volumes, Ranges  \* values of RSI, relative volume and ATR

\* An RSI and an ATR are computable once there are enough bars, a relative
\* volume only if something was traded as well.
ASSUME RulesAssumption ==
  /\ BarCounts \subseteq Nat
  /\ RsiValues \subseteq Int /\ Ranges \subseteq Int
  /\ Volumes \subseteq Int \cup {Undefined}
  /\ Undefined \notin Int
  /\ Undefined \notin {"bullish", "bearish", "low", "elevated"}

VARIABLE market

rulesVars == <<market>>

TrendChecks ==
  {"price_above_ema21", "ema9_above_ema21", "ema21_above_ema50", "ema50_above_ema200"}

\* order: of the two sides of each trend check, 1 above, 0 equal, -1 below.
Markets ==
  [bars : BarCounts,  \* len(candles)
   order : [TrendChecks -> -1..1],
   rsi : RsiValues, histogram : -1..1, volume : Volumes, range : Ranges]

-----------------------------------------------------------------------------
(* Warm-up: an indicator of the window's last bar is defined from so many  *)
(* bars on; a trend check from those of the slower of its two averages.    *)

WarmUp ==
  [price_above_ema21 |-> 21, ema9_above_ema21 |-> 21, ema21_above_ema50 |-> 50,
   ema50_above_ema200 |-> 200, rsi |-> 15, range |-> 15, histogram |-> 34, volume |-> 20]

MinCandlesForFeatures == 50

Reading(m, name) == IF m.bars >= WarmUp[name] THEN m[name] ELSE Undefined

-----------------------------------------------------------------------------
(* features.py *)

Available(m) == {c \in TrendChecks : m.bars >= WarmUp[c]}

\* A comparison is strict: equal sides count against the rise.
Rising(m) == {c \in Available(m) : m.order[c] > 0}

Falling(m) == Available(m) \ Rising(m)

\* Mutant: a majority is as weak as a split.
UnanimityOrNothing(m) ==
  LET up == Cardinality(Rising(m))
      down == Cardinality(Falling(m))
  IN IF up + down = 0 THEN Undefined
     ELSE IF up > 0 /\ down > 0 THEN 0
     ELSE IF up + down >= 3 THEN 2 ELSE 1

\* _trend_alignment: 2 when three or more checks agree, 0 on an even split.
TrendAlignment(m) ==
  LET up == Cardinality(Rising(m))
      down == Cardinality(Falling(m))
  IN IF up + down = 0 THEN Undefined
     ELSE IF (up = 0 \/ down = 0) /\ up + down >= 3 THEN 2
     ELSE IF up # down THEN 1 ELSE 0

TrendDirection(m) ==
  LET up == Cardinality(Rising(m))
      down == Cardinality(Falling(m))
  IN IF up + down = 0 THEN Undefined
     ELSE IF up > down THEN "bullish" ELSE IF down > up THEN "bearish" ELSE "mixed"

\* Below the low threshold, above the high one, or in between.
Band(value, low, high, below, between, above) ==
  IF value = Undefined THEN Undefined
  ELSE IF value < low THEN below ELSE IF value > high THEN above ELSE between

RsiState(m) == Band(Reading(m, "rsi"), 30, 70, "oversold", "neutral", "overbought")

MacdState(m) == Band(Reading(m, "histogram"), 0, 0, "bearish", "neutral", "bullish")

VolumeState(m) == Band(Reading(m, "volume"), 75, 125, "low", "normal", "elevated")

VolatilityState(m) == Band(Reading(m, "range"), 100, 300, "low", "normal", "elevated")

-----------------------------------------------------------------------------
(* regime.py, first match *)

Trending(m, direction) == TrendDirection(m) = direction /\ TrendAlignment(m) >= 1

\* Mutant: the elevated volatility is looked at after the trend.
TrendFirst(m) ==
  IF m.bars < MinCandlesForFeatures \/ TrendAlignment(m) = Undefined THEN "INSUFFICIENT_DATA"
  ELSE IF Trending(m, "bullish") THEN "BULLISH"
  ELSE IF Trending(m, "bearish") THEN "BEARISH"
  ELSE IF VolatilityState(m) = "elevated" THEN "HIGH_VOLATILITY"
  ELSE IF VolatilityState(m) = "low" /\ TrendAlignment(m) = 0 THEN "LOW_VOLATILITY"
  ELSE "SIDEWAYS"

\* Mutant: a bearish trend needs unanimous checks.
StrongBearOnly(m) ==
  IF m.bars < MinCandlesForFeatures \/ TrendAlignment(m) = Undefined THEN "INSUFFICIENT_DATA"
  ELSE IF VolatilityState(m) = "elevated" THEN "HIGH_VOLATILITY"
  ELSE IF VolatilityState(m) = "low" /\ TrendAlignment(m) = 0 THEN "LOW_VOLATILITY"
  ELSE IF Trending(m, "bullish") THEN "BULLISH"
  ELSE IF TrendDirection(m) = "bearish" /\ TrendAlignment(m) = 2 THEN "BEARISH"
  ELSE "SIDEWAYS"

ClassifyRegime(m) ==
  IF m.bars < MinCandlesForFeatures \/ TrendAlignment(m) = Undefined THEN "INSUFFICIENT_DATA"
  ELSE IF VolatilityState(m) = "elevated" THEN "HIGH_VOLATILITY"
  ELSE IF VolatilityState(m) = "low" /\ TrendAlignment(m) = 0 THEN "LOW_VOLATILITY"
  ELSE IF Trending(m, "bullish") THEN "BULLISH"
  ELSE IF Trending(m, "bearish") THEN "BEARISH"
  ELSE "SIDEWAYS"

-----------------------------------------------------------------------------
(* rules.py *)

\* Mutant: the momentum is not asked to confirm.
UnconfirmedEntry(m, regime, macd, extreme) ==
  /\ ClassifyRegime(m) = regime
  /\ Reading(m, "rsi") # Undefined
  /\ ~extreme
  /\ VolumeState(m) # "low"

Entry(m, regime, macd, extreme) ==
  /\ ClassifyRegime(m) = regime
  /\ MacdState(m) = macd
  /\ Reading(m, "rsi") # Undefined
  /\ ~extreme
  /\ VolumeState(m) # "low"

Signal(m) ==
  IF Entry(m, "BULLISH", "bullish", m.rsi > 80) THEN "BUY"
  ELSE IF Entry(m, "BEARISH", "bearish", m.rsi < 20) THEN "SELL"
  ELSE "HOLD"

\* The last reason of a BUY or a SELL, as the claim its wording makes.
VolumeReason(m) == IF VolumeState(m) = "elevated" THEN "elevated" ELSE "at/above average"

-----------------------------------------------------------------------------
(* scoring.py *)

Scores(m) ==
  [trend |-> IF TrendAlignment(m) = Undefined THEN 0 ELSE TrendAlignment(m),
   momentum |-> IF RsiState(m) = "neutral" THEN 2 ELSE 1,
   volume |-> IF VolumeState(m) = "elevated" THEN 2 ELSE 1,
   volatility |-> IF VolatilityState(m) = "normal" THEN 2 ELSE 1]

Total(m) == LET s == Scores(m) IN s.trend + s.momentum + s.volume + s.volatility

Strength(m) == IF Total(m) <= 4 THEN "WEAK" ELSE IF Total(m) <= 6 THEN "MODERATE" ELSE "STRONG"

\* SignalEngine.evaluate
Candidate(m) ==
  [signal |-> Signal(m), strength |-> IF Signal(m) = "HOLD" THEN Undefined ELSE Strength(m)]

-----------------------------------------------------------------------------
RulesInit == market \in Markets

AveragesCross ==
  \E c \in TrendChecks, sign \in -1..1 : market' = [market EXCEPT !.order[c] = sign]

MomentumTurns ==
  \/ \E v \in RsiValues : market' = [market EXCEPT !.rsi = v]
  \/ \E v \in -1..1 : market' = [market EXCEPT !.histogram = v]

ActivityChanges ==
  \/ \E v \in Volumes : market' = [market EXCEPT !.volume = v]
  \/ \E v \in Ranges : market' = [market EXCEPT !.range = v]

LongerHistory ==
  \E n \in BarCounts : n > market.bars /\ market' = [market EXCEPT !.bars = n]

RulesNext == AveragesCross \/ MomentumTurns \/ ActivityChanges \/ LongerHistory

RulesSpec == RulesInit /\ [][RulesNext]_rulesVars

-----------------------------------------------------------------------------
(* Properties *)

Mirror(m) ==
  [m EXCEPT !.order = [c \in TrendChecks |-> -m.order[c]],
            !.rsi = 100 - @, !.histogram = -@]

Opposite == [BUY |-> "SELL", SELL |-> "BUY", HOLD |-> "HOLD"]

\* Where no two averages coincide, the rules treat the two directions alike:
\* the market upside down gets the opposite signal with the same strength.
MirrorImage ==
  (\A c \in Available(market) : market.order[c] # 0) =>
    Candidate(Mirror(market)) =
      [signal |-> Opposite[Signal(market)], strength |-> Candidate(market).strength]

\* Every reason of a BUY or SELL but the one on volume holds of the readings
\* themselves, though reasons are worded apart from the conditions tested, and
\* what rules.py and scoring.py take for "structurally excluded" is: the
\* history, a majority of the trend checks, momentum on its side, an RSI that is
\* not extreme, no elevated volatility, and a total of 4 to 8 from components
\* of at least 1.
EntryIsConfirmed ==
  LET m == market IN
  Signal(m) # "HOLD" =>
    /\ m.bars >= WarmUp["ema21_above_ema50"]
    /\ LET with == IF Signal(m) = "BUY" THEN Rising(m) ELSE Falling(m)
       IN 2 * Cardinality(with) > Cardinality(Available(m))
    /\ IF Signal(m) = "BUY"
       THEN m.histogram > 0 /\ Reading(m, "rsi") <= 80
       ELSE m.histogram < 0 /\ Reading(m, "rsi") >= 20
    /\ m.range <= 300
    /\ \A part \in DOMAIN Scores(m) : Scores(m)[part] >= 1
    /\ Total(m) \in 4..8

\* Only a window long enough for the 200-bar average can be called quiet or
\* directionless: three checks never split evenly.
QuietNeedsLongHistory ==
  ClassifyRegime(market) \in {"SIDEWAYS", "LOW_VOLATILITY"} => market.bars >= 200

\* No single reading turns a BUY into a SELL: trend and momentum must both turn.
NoDirectReversal == [][{Signal(market), Signal(market)'} # {"BUY", "SELL"}]_rulesVars

\* docs/signal-engine.md: the reasons of a BUY or SELL are conditions that held.
ReasonsHold ==
  Signal(market) # "HOLD" =>
    CASE VolumeReason(market) = "elevated" -> Reading(market, "volume") > 125
      [] VolumeReason(market) = "at/above average" ->
           Reading(market, "volume") # Undefined /\ Reading(market, "volume") >= 100

\* engine.py: "ema200/sma200 are informational only", so the regime is the same
\* whichever side of the 200-bar average the 50-bar average is on.
Ema200IsInformational ==
  \A sign \in -1..1 :
    ClassifyRegime([market EXCEPT !.order["ema50_above_ema200"] = sign]) =
      ClassifyRegime(market)

=============================================================================
