-------------------------- MODULE MCTickerScreening --------------------------
(***************************************************************************)
(* A small instance of TickerScreening: windows of one to three days, bars *)
(* on which every signal that can be is given, three tickers.              *)
(***************************************************************************)
EXTENDS TickerScreening

MCPeriod == [price |-> 1, sma_20 |-> 1, sma_50 |-> 2, sma_100 |-> 2, sma_200 |-> 3,
             ema_12 |-> 1, rsi_10 |-> 1, rsi_14 |-> 1, rsi_26 |-> 2,
             stochastic_k_14 |-> 1, stochastic_d |-> 2,
             macd |-> 2, macd_signal |-> 2, macd_histogram |-> 2,
             bb_upper |-> 2, bb_middle |-> 2, bb_lower |-> 2, atr |-> 1, volume_ratio |-> 1]

\* Prices and the lines they are compared with: price, averages, bands.
Line(price, s20, s50, s100, s200, upper, middle, lower) ==
  [price |-> price, sma_20 |-> s20, sma_50 |-> s50, sma_100 |-> s100, sma_200 |-> s200,
   ema_12 |-> price, bb_upper |-> upper, bb_middle |-> middle, bb_lower |-> lower]
Lines == {Line(120, 110, 100, 90, 80, 115, 100, 85),     \* up, beyond the upper band
          Line(105, 110, 100, 90, 80, 115, 100, 85),     \* up, falling back
          Line(40, 50, 60, 70, 80, 75, 60, 45),          \* down, below the lower band
          Line(55, 50, 60, 70, 80, 75, 60, 45),          \* down
          Line(80, 80, 80, 80, 80, 81, 80, 79),          \* flat: a squeeze
          Line(70, 80, 90, 85, 80, 100, 85, 72)}         \* down through rising averages

Strength(r10, r14, r26) == [rsi_10 |-> r10, rsi_14 |-> r14, rsi_26 |-> r26]
Strengths == {Strength(25, 25, 30), Strength(33, 34, 34), Strength(50, 50, 50),
              Strength(80, 75, 70), Strength(20, 29, 40)}

Macd(m, s, h) == [macd |-> m, macd_signal |-> s, macd_histogram |-> h]
Macds == {Macd(1, 0, 1), Macd(3, 1, 2), Macd(0, 0, 0), Macd(0, 1, -1), Macd(-1, 1, -2)}

Range2(atr) == [atr |-> atr, volume_ratio |-> 1, stochastic_k_14 |-> 50, stochastic_d |-> 40]

Bar(line, strength, macd, atr) == line @@ strength @@ macd @@ Range2(atr)

Flat     == Line(80, 80, 80, 80, 80, 81, 80, 79)
Falling  == Line(40, 50, 60, 70, 80, 75, 60, 45)
Breakout == Line(120, 110, 100, 90, 80, 115, 100, 85)
MCBars == {Bar(l, s, Macd(0, 0, 0), 1) : l \in Lines, s \in Strengths}
          \cup {Bar(l, Strength(50, 50, 50), m, a) : l \in {Flat, Falling, Breakout}, m \in Macds, a \in {1, 2}}

\* Every symbol is also the id; total assets in billions, beta in tenths,
\* yield in hundredths of a percent.
MCWatched == [symbol |-> "A", id |-> 1, industry |-> "software", asset_type |-> "STOCK",
              total_assets |-> 150, beta |-> 12, eps |-> 3, analyst_consensus |-> "Buy"]
MCTickers == {[symbol |-> "B", id |-> 2, industry |-> "software", asset_type |-> "STOCK",
               total_assets |-> 5, eps |-> 5, signals |-> {"Above SMA50", "Low Beta"}],
              [symbol |-> "C", id |-> 3, industry |-> "banks", asset_type |-> "STOCK",
               total_assets |-> 300, eps |-> 1,
               signals |-> {"RSI Oversold", "Below SMA50"}],
              [symbol |-> "D", id |-> 4, industry |-> "funds", asset_type |-> "ETF",
               total_assets |-> 20, yield |-> 420, signals |-> {}]}

MCNear == [cloud |-> [A |-> 40, B |-> 60, D |-> 10]]

MCCapRange == [mega  |-> <<200, 1000000>>, large |-> <<10, 200>>, mid |-> <<2, 10>>,
               micro |-> <<0, 0>>]

Request == [asset_type |-> None, query |-> None, signals |-> None, industries |-> None,
        cap |-> None, metrics |-> <<>>, sort_by |-> None, sort_dir |-> None, limit |-> None]
Metric(field, op, value) == [field |-> field, op |-> op, value |-> value]

MCFilters ==
  {Request,
   [Request EXCEPT !.limit = 1],
   [Request EXCEPT !.limit = 0],
   [Request EXCEPT !.asset_type = "ETF"],
   [Request EXCEPT !.cap = "large", !.industries = {"software", "banks"}],
   [Request EXCEPT !.signals = {"Below SMA50"}, !.sort_by = "beta", !.sort_dir = "asc", !.limit = 1],
   [Request EXCEPT !.signals = {"Analyst Buy", "High Beta", "RSI Oversold"}],
   [Request EXCEPT !.metrics = <<Metric("eps", "gt", 2), Metric("eps", "lte", 4)>>],
   [Request EXCEPT !.metrics = <<Metric("eps", "gte", 2), Metric("eps", "gt", 0)>>],
   [Request EXCEPT !.asset_type = "ETF", !.metrics = <<Metric("yield", "gte", 4)>>],
   [Request EXCEPT !.metrics = <<Metric("pr_last", "gte", 2)>>],
   [Request EXCEPT !.sort_by = "performance_3m"],
   [Request EXCEPT !.query = "cloud"],
   [Request EXCEPT !.query = "cloud", !.limit = 1],
   [Request EXCEPT !.query = "cloud", !.signals = {"Above SMA50"}, !.limit = 2]}
=============================================================================
