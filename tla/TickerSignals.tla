---------------------------- MODULE TickerSignals ----------------------------
(***************************************************************************)
(* Ticker analytics (rustic-finance): the indicators a day of a history    *)
(* has once their windows are full, the signals SignalsCalculator reads    *)
(* off a day and the day before it, and the rollup into one direction.     *)
(*                                                                         *)
(* The values of the indicators are inputs: `bar` gives each of them a     *)
(* number, and a signal compares numbers of one scale.  `day` counts the   *)
(* loop of calculate_all_in_one_pass, up to LastDay; a day is kept as the  *)
(* map of the values it has and the set of its signals.                    *)
(***************************************************************************)
EXTENDS Integers, SequencesExt

CONSTANTS Period,    \* the window of every indicator, by the key it is kept under
          Bars,      \* what a day may be like: key |-> value
          LastDay

Keys == DOMAIN Period

\* The lower Bollinger band lies twice the deviation below the mean, the upper
\* above it; %K is kept as "stochastic_k_14" only.
ASSUME SignalsAssumption == /\ Period \in [Keys -> Nat \ {0}]
                            /\ LastDay \in Nat \ {0}
                            /\ "stochastic_k" \notin Keys
                            /\ \A bar \in Bars :
                                 /\ bar \in [Keys -> Int]
                                 /\ {"bb_lower", "bb_upper"} \subseteq Keys =>
                                      bar["bb_lower"] <= bar["bb_upper"]

VARIABLES day, values, signals, overall

signalVars == <<day, values, signals, overall>>

-----------------------------------------------------------------------------
(* The pass over the history. *)

\* Relative strength, MACD and true range need one bar more than their window,
\* the volume ratio two.
FirstIndex(key) ==
  CASE key \in {"rsi_10", "rsi_14", "rsi_26", "atr", "macd", "macd_signal", "macd_histogram"}
         -> Period[key]
    [] key = "volume_ratio" -> Period[key] + 1
    [] OTHER -> Period[key] - 1

\* %D is a mean of %K: its window starts when the one of %K is full.
FirstStochasticD == FirstIndex("stochastic_k_14") + Period["stochastic_d"] - 1

KeysAt(idx) == {k \in Keys : IF k = "stochastic_d" THEN idx >= FirstStochasticD
                             ELSE idx >= FirstIndex(k)}

-----------------------------------------------------------------------------
(* The signals of a day c, and of a day p and the day c that follows it. *)

When(condition, name, direction) ==
  IF condition THEN {[name |-> name, direction |-> direction]} ELSE {}

Has(m, keys) == keys \subseteq DOMAIN m

SmaStack(c) ==
  IF ~ Has(c, {"sma_20", "sma_50", "sma_100", "sma_200"}) THEN {}
  ELSE When(c["sma_20"] > c["sma_50"] /\ c["sma_50"] > c["sma_100"]
            /\ c["sma_100"] > c["sma_200"], "SMA Stack Bullish", "bullish")
       \cup When(c["sma_20"] < c["sma_50"] /\ c["sma_50"] < c["sma_100"]
                 /\ c["sma_100"] < c["sma_200"], "SMA Stack Bearish", "bearish")

Sma50(c) ==
  IF ~ Has(c, {"price", "sma_50", "sma_200", "rsi_14"}) THEN {}
  ELSE LET price == c["price"]  rsi == c["rsi_14"]
           s50 == c["sma_50"]   s200 == c["sma_200"]
       IN  When(price > s50, "Above SMA50", "bullish")
           \cup When(price < s50, "Below SMA50", "bearish")
           \cup When(s50 > s200 /\ price > s50 /\ rsi \in 40..55, "Bullish Pullback", "bullish")
           \cup When(s50 < s200 /\ price < s50 /\ rsi \in 46..60, "Bearish Rally", "bearish")

SmaTrendState(c) ==
  IF ~ Has(c, {"sma_50", "sma_200"}) THEN {}
  ELSE When(c["sma_50"] > c["sma_200"], "Golden Cross Active", "bullish")
       \cup When(c["sma_50"] < c["sma_200"], "Death Cross Active", "bearish")

\* One line of a pair comes to lie above the other, or below it.
CrossOver(p, c, a, b, above, below) ==
  IF ~ (Has(c, {a, b}) /\ Has(p, {a, b})) THEN {}
  ELSE When(c[a] > c[b] /\ p[a] <= p[b], above, "bullish")
       \cup When(c[a] < c[b] /\ p[a] >= p[b], below, "bearish")

\* Mutant of SmaCrossover: averages that were equal have crossed already.
SmaCrossoverStrict(p, c) ==
  IF ~ (Has(c, {"sma_50", "sma_200"}) /\ Has(p, {"sma_50", "sma_200"})) THEN {}
  ELSE When(c["sma_50"] > c["sma_200"] /\ p["sma_50"] < p["sma_200"], "Golden Cross", "bullish")
       \cup When(c["sma_50"] < c["sma_200"] /\ p["sma_50"] > p["sma_200"], "Death Cross", "bearish")

SmaCrossover(p, c) == CrossOver(p, c, "sma_50", "sma_200", "Golden Cross", "Death Cross")

MacdCrossover(p, c) == CrossOver(p, c, "macd", "macd_signal",
                                 "MACD Bullish Crossover", "MACD Bearish Crossover")

\* The calculator asks for "stochastic_k"; the pass keeps "stochastic_k_14".
Stochastic(p, c) == CrossOver(p, c, "stochastic_k", "stochastic_d",
                              "Stochastic Bullish", "Stochastic Bearish")

MacdHistogramTrend(p, c) ==
  IF ~ (Has(c, {"macd_histogram"}) /\ Has(p, {"macd_histogram"})) THEN {}
  ELSE LET h == c["macd_histogram"]  ph == p["macd_histogram"]
           sameSide == (h > 0 /\ ph > 0) \/ (h < 0 /\ ph < 0)
           growing  == h * h > ph * ph
       IN  When(sameSide /\ growing, "MACD Histogram Expanding",
                IF h > 0 THEN "bullish" ELSE "bearish")
           \cup When(sameSide /\ ~ growing, "MACD Histogram Weakening",
                     IF h > 0 THEN "bearish" ELSE "bullish")

BollingerBands(c) ==
  IF ~ Has(c, {"price", "bb_upper", "bb_middle", "bb_lower"}) THEN {}
  ELSE When(c["price"] > c["bb_upper"], "BB Breakout Upper", "bullish")
       \cup When(c["price"] < c["bb_lower"], "BB Breakout Lower", "bearish")
       \cup When(c["bb_middle"] > 0
                 /\ (c["bb_upper"] - c["bb_lower"]) * 100 < 4 * c["bb_middle"],
                 "BB Squeeze", "neutral")

Rsi(c) ==
  IF ~ Has(c, {"rsi_14"}) THEN {}
  ELSE LET all == {"rsi_10", "rsi_14", "rsi_26"} IN
       When(c["rsi_14"] < 30, "RSI Oversold", "bearish")
       \cup When(c["rsi_14"] > 70, "RSI Overbought", "bearish")
       \cup When(Has(c, all) /\ \A k \in all : c[k] < 35, "RSI Multi-period Oversold", "bullish")
       \cup When(Has(c, all) /\ \A k \in all : c[k] > 65, "RSI Multi-period Overbought", "bearish")

Confluence(c) ==
  IF ~ Has(c, {"price", "rsi_14", "bb_lower", "bb_upper", "stochastic_k", "stochastic_d"}) THEN {}
  ELSE LET k == c["stochastic_k"]  d == c["stochastic_d"]
           low  == c["rsi_14"] < 35 /\ c["price"] < c["bb_lower"] /\ d < 20
           high == c["rsi_14"] > 65 /\ c["price"] > c["bb_upper"] /\ d > 80
       IN  When(low, "Oversold Confluence", "bullish")
           \cup When(low /\ k > d, "Oversold Reversal Setup", "bullish")
           \cup When(high, "Overbought Confluence", "bearish")
           \cup When(high /\ k < d, "Overbought Reversal Setup", "bearish")

Momentum(p, c) ==
  IF ~ (Has(c, {"price", "sma_20", "sma_50", "sma_100", "sma_200", "macd_histogram",
                "stochastic_k", "stochastic_d"}) /\ Has(p, {"macd_histogram"})) THEN {}
  ELSE When(/\ \A s \in {"sma_20", "sma_50", "sma_100", "sma_200"} : c["price"] > c[s]
            /\ c["macd_histogram"] > 0 /\ c["macd_histogram"] > p["macd_histogram"]
            /\ c["stochastic_k"] > 50 /\ c["stochastic_k"] > c["stochastic_d"],
            "Momentum Breakout", "bullish")

TrendExhaustion(p, c) ==
  IF ~ (Has(c, {"price", "bb_upper", "bb_lower", "rsi_14", "macd_histogram",
                "stochastic_k", "stochastic_d"}) /\ Has(p, {"macd_histogram"})) THEN {}
  ELSE LET h == c["macd_histogram"]  ph == p["macd_histogram"]
           k == c["stochastic_k"]    d == c["stochastic_d"]
       IN  When(c["price"] >= c["bb_upper"] /\ c["rsi_14"] > 65 /\ h > 0 /\ h < ph
                /\ k > 50 /\ k < d, "Bullish Trend Exhaustion", "bearish")
           \cup When(c["price"] < c["bb_lower"] /\ c["rsi_14"] < 35 /\ h < 0 /\ h > ph
                     /\ k < 20 /\ k > d, "Bearish Trend Exhaustion", "bullish")

MeanReversion(p, c) ==
  IF ~ (Has(c, {"rsi_14", "sma_20", "price", "stochastic_k", "atr"}) /\ Has(p, {"atr"})) THEN {}
  ELSE When(c["rsi_14"] < 40 /\ c["price"] < c["sma_20"] /\ c["stochastic_k"] < 30
            /\ c["atr"] <= p["atr"], "Mean Reversion Candidate", "bullish")

Volatility(p, c) ==
  IF ~ (Has(c, {"atr"}) /\ Has(p, {"atr"})) THEN {}
  ELSE When(c["atr"] > p["atr"], "Volatility Expanding", "neutral")
       \cup When(c["atr"] < p["atr"], "Volatility Contracting", "neutral")

-----------------------------------------------------------------------------
(* Composites of the signals collected so far, and the rollup. *)

SignalNames(sigs) == {s.name : s \in sigs}

OversoldCombo   == {"RSI Oversold", "BB Breakout Lower", "Stochastic Bearish", "Below SMA50"}
OverboughtCombo == {"RSI Overbought", "BB Breakout Upper", "Stochastic Bullish", "Above SMA50"}

\* Mutant of Severity: two of the combination are moderate even when there are more.
SeverityOfBoth(sigs, combo, deeply, moderately, direction) ==
  LET count == Cardinality(SignalNames(sigs) \cap combo)
  IN  When(count >= 3, deeply, direction) \cup When(count >= 2, moderately, direction)

Severity(sigs, combo, deeply, moderately, direction) ==
  LET count == Cardinality(SignalNames(sigs) \cap combo)
  IN  When(count >= 3, deeply, direction) \cup When(count = 2, moderately, direction)

Severities(sigs) ==
  Severity(sigs, OversoldCombo, "Deeply Oversold", "Moderately Oversold", "bullish")
  \cup Severity(sigs, OverboughtCombo, "Deeply Overbought", "Moderately Overbought", "bearish")

\* What every named signal counts; "Death Cross Active" is negative already.
Magnitude(name) ==
  CASE name \in {"SMA Stack Bullish", "SMA Stack Bearish", "Golden Cross", "Death Cross",
                 "Momentum Breakout", "Bullish Trend Exhaustion", "Bearish Trend Exhaustion",
                 "Oversold Confluence", "Overbought Confluence", "Deeply Oversold",
                 "Deeply Overbought", "RSI Multi-period Oversold",
                 "RSI Multi-period Overbought"} -> 2
    [] name = "Death Cross Active" -> -1
    [] name \in {"Golden Cross Active", "Oversold Reversal Setup", "Overbought Reversal Setup",
                 "Moderately Oversold", "Moderately Overbought", "Mean Reversion Candidate",
                 "Above SMA50", "Below SMA50", "Bullish Pullback", "Bearish Rally",
                 "MACD Bullish Crossover", "MACD Bearish Crossover",
                 "MACD Histogram Expanding", "MACD Histogram Weakening",
                 "BB Breakout Upper", "BB Breakout Lower", "Stochastic Bullish",
                 "Stochastic Bearish", "RSI Oversold", "RSI Overbought"} -> 1
    [] OTHER -> 0

SignedWeight(s) == CASE s.direction = "bullish" -> Magnitude(s.name)
                     [] s.direction = "bearish" -> - Magnitude(s.name)
                     [] OTHER                   -> 0

Score(sigs) == MapThenSumSet(SignedWeight, sigs)

Rollup(sigs) ==
  LET score       == Score(sigs)
      conflicting == /\ \E s \in sigs : SignedWeight(s) > 0
                     /\ \E s \in sigs : SignedWeight(s) < 0
      direction == IF score > 1 /\ ~ conflicting THEN "bullish"
                   ELSE IF score < -1 /\ ~ conflicting THEN "bearish"
                   ELSE IF conflicting /\ score >= 2 THEN "bullish"
                   ELSE IF conflicting /\ score <= -2 THEN "bearish"
                   ELSE IF conflicting THEN "mixed"
                   ELSE "neutral"
  IN  IF sigs = {} THEN <<>>
      ELSE <<[direction |-> direction, score |-> score, conflicting |-> conflicting]>>

\* The first day has no day before it.
DaySignals(c, p, first) ==
  LET alone == SmaStack(c) \cup Sma50(c) \cup SmaTrendState(c) \cup BollingerBands(c) \cup Rsi(c)
      pairs == IF first THEN {}
               ELSE SmaCrossover(p, c) \cup MacdCrossover(p, c) \cup MacdHistogramTrend(p, c)
                    \cup Stochastic(p, c) \cup Momentum(p, c) \cup TrendExhaustion(p, c)
                    \cup MeanReversion(p, c) \cup Volatility(p, c)
      sigs == alone \cup pairs \cup Confluence(c)
  IN  sigs \cup Severities(sigs)

InitSignals == day = 0 /\ values = <<>> /\ signals = {} /\ overall = <<>>

\* The next bar of the history; beyond LastDay every window stays full.
NextBar(bar) ==
  LET c    == Restrict(bar, KeysAt(day))
      sigs == DaySignals(c, values, day = 0)
  IN  /\ values' = c
      /\ signals' = sigs
      /\ overall' = Rollup(sigs)
      /\ day' = IF day < LastDay THEN day + 1 ELSE day

-----------------------------------------------------------------------------
(* Properties. *)

Averages == {"sma_50", "sma_200"}

Opposites ==
  {{"Golden Cross", "Death Cross"}, {"Golden Cross Active", "Death Cross Active"},
   {"SMA Stack Bullish", "SMA Stack Bearish"}, {"Above SMA50", "Below SMA50"},
   {"Bullish Pullback", "Bearish Rally"}, {"RSI Oversold", "RSI Overbought"},
   {"RSI Multi-period Oversold", "RSI Multi-period Overbought"},
   {"SMA Stack Bullish", "Death Cross"}, {"RSI Multi-period Oversold", "RSI Overbought"},
   {"MACD Bullish Crossover", "MACD Bearish Crossover"},
   {"MACD Histogram Expanding", "MACD Histogram Weakening"},
   {"BB Breakout Upper", "BB Breakout Lower"},
   {"Deeply Oversold", "Moderately Oversold"}, {"Deeply Overbought", "Moderately Overbought"},
   {"Deeply Oversold", "Deeply Overbought"}, {"Deeply Oversold", "Moderately Overbought"},
   {"Moderately Oversold", "Deeply Overbought"},
   {"Moderately Oversold", "Moderately Overbought"}}

(***************************************************************************)
(* No day carries two signals of which one denies the other, the composite *)
(* severities included: they count what other parts of the calculator      *)
(* found on the same day.                                                  *)
(***************************************************************************)
NoContradiction == \A pair \in Opposites : ~ pair \subseteq SignalNames(signals)

(***************************************************************************)
(* sma_crossover and sma_trend_state agree over days: a trend that is      *)
(* active begins with its cross, unless the averages are new, a cross is   *)
(* reported on no other day, and no day goes from one trend to the other   *)
(* without it.                                                             *)
(***************************************************************************)
CrossesMatchStates ==
  [][\A t \in {<<"Golden Cross", "Golden Cross Active">>,
               <<"Death Cross", "Death Cross Active">>} :
       LET active    == t[2] \in SignalNames(signals')
           wasActive == t[2] \in SignalNames(signals)
       IN  Has(values, Averages) =>
             ((t[1] \in SignalNames(signals')) <=> (active /\ ~ wasActive))
    ]_signalVars
=============================================================================
