--------------------------- MODULE TickerScreening ---------------------------
(***************************************************************************)
(* The ticker_screening tool (rustic-finance): a request becomes a         *)
(* SearchCriteria, its conditions one filter document of MongoDB           *)
(* (rustic-storage), and a question in words ranks what that returns       *)
(* (rustic-ml).  One of the tickers is the one whose signals TickerSignals *)
(* computes from day to day; the others keep theirs.                       *)
(*                                                                         *)
(* A ticker is a map from fields to values: text, a number, or a set of    *)
(* signals.  A clause of the filter maps operators to what they compare    *)
(* with; "$eq" stands for a value without an operator.  How near a ticker  *)
(* is to a question is an input, Near.  A list of tickers is the set of    *)
(* them: its order decides which are left when it is cut off.              *)
(***************************************************************************)
EXTENDS TickerSignals

CONSTANTS Tickers,     \* the other tickers
          Watched,     \* the ticker that is followed, without its signals
          Filters,     \* the requests: TickerFilter
          Scores,      \* the least similarity a search may ask for
          Near,        \* Near[query][symbol]: the similarity of its overview, in percent
          CapRange,    \* <<lowest, highest>> of every label of assets_cap_range
          SearchTop,   \* how many answers a search ranks (20 in the code)
          DefaultLimit,    \* of a request to the tool without one (10 in the code)
          None

MetricFilter == [field : STRING, op : STRING, value : Int]

TickerFilter == [asset_type : {None} \cup STRING, query : {None} \cup DOMAIN Near,
                 signals : {None} \cup SUBSET STRING, industries : {None} \cup SUBSET STRING,
                 cap : {None} \cup DOMAIN CapRange, metrics : Seq(MetricFilter),
                 sort_by : {None} \cup STRING, sort_dir : {None, "asc", "desc"},
                 limit : {None} \cup Nat]

ASSUME FilterAssumption == Filters \subseteq TickerFilter

SortFields == {"pe_ratio", "eps", "beta", "total_assets", "yield", "change_perc",
               "performance_1w", "performance_1m", "performance_6m", "performance_ytd"}

\* A symbol is one ticker's; what can be sorted by is a number.
ASSUME TickersAssumption ==
  /\ IsFiniteSet(Tickers) /\ Watched \notin Tickers
  /\ SearchTop \in Nat /\ DefaultLimit \in Nat /\ Scores \subseteq Int
  /\ \A t \in Tickers \cup {Watched} :
       /\ {"symbol", "id", "industry", "asset_type"} \subseteq DOMAIN t /\ t.id \in Nat
       /\ \A field \in SortFields \cap DOMAIN t : t[field] \in Int
  /\ \A t \in Tickers : "signals" \in DOMAIN t
  /\ \A t, u \in Tickers \cup {Watched} : t.symbol = u.symbol \/ t.id = u.id => t = u
  /\ \A label \in DOMAIN CapRange : CapRange[label] \in Int \X Int
  /\ \A query \in DOMAIN Near : \A symbol \in DOMAIN Near[query] : Near[query][symbol] \in Int

VARIABLE answer

screeningVars == <<signalVars, answer>>

-----------------------------------------------------------------------------
(* SearchCriteria: conditions in the order they are pushed, a sort, a limit. *)

Condition(field, op, value) == [field |-> field, op |-> op, value |-> value]

Comparisons == {"$gte", "$lte", "$gt", "$lt", "$ne"}

\* A document with a key more, or another value for it.
With(doc, key, value) == [k \in DOMAIN doc \cup {key} |-> IF k = key THEN value ELSE doc[k]]

\* Mutant of BuildClause: a comparison replaces the one its field has.
BuildClauseLastWins(filter, c) == With(filter, c.field, With(<<>>, c.op, c.value))

\* A comparison joins the operators of its field, unless that has a plain
\* value; every other operator takes the place of what the field had.
BuildClause(filter, c) ==
  LET old    == IF c.field \in DOMAIN filter THEN filter[c.field] ELSE <<>>
      clause == IF c.op \notin Comparisons THEN With(<<>>, c.op, c.value)
                ELSE IF "$eq" \in DOMAIN old THEN old
                ELSE With(old, c.op, c.value)
  IN  With(filter, c.field, clause)

BuildFilter(conditions) == FoldLeft(BuildClause, <<>>, conditions)

\* External: what the operators of MongoDB mean for the value of a field.
Holds(op, x, value) ==
  CASE op = "$eq"  -> x = value
    [] op = "$in"  -> x \in value
    [] op = "$all" -> value \subseteq x
    [] op = "$gte" -> x >= value
    [] op = "$lte" -> x <= value

Matches(t, filter) ==
  \A f \in DOMAIN filter :
    f \in DOMAIN t /\ \A op \in DOMAIN filter[f] : Holds(op, t[f], filter[f][op])

-----------------------------------------------------------------------------
(* From the request to the criteria. *)

MetricFields == {"pe_ratio", "forward_pe", "peg_ratio", "pb_ratio", "ps_ratio", "eps", "beta",
                 "ev_to_ebitda", "profit_margin", "return_on_equity_ttm", "yield"}
MetricOps    == {"gt", "gte", "lt", "lte"}

\* A metric, an operator or a field to sort by that is not listed is an error.
Unsupported(f) ==
  \/ \E m \in Range(f.metrics) : m.field \notin MetricFields \/ m.op \notin MetricOps
  \/ f.sort_by \notin SortFields \cup {None}

\* A yield is asked for in percent and kept as a fraction, here in hundredths of a percent.
MetricValue(m) == IF m.field = "yield" THEN 100 * m.value ELSE m.value

MetricOp(op)  == IF op \in {"gt", "gte"} THEN "$gte" ELSE "$lte"
AssetType(f)  == IF f.asset_type = None THEN "STOCK" ELSE f.asset_type
SortField(f)  == IF f.sort_by = None THEN "total_assets" ELSE f.sort_by
Ascending(f)  == f.sort_by # None /\ f.sort_dir = "asc"

Given(value, conditions) == IF value = None THEN <<>> ELSE conditions

Conditions(f) ==
  Given(f.industries, <<Condition("industry", "$in", f.industries)>>)
  \o <<Condition("asset_type", "$eq", AssetType(f))>>
  \o Given(f.cap, <<Condition("total_assets", "$gte", CapRange[f.cap][1]),
                    Condition("total_assets", "$lte", CapRange[f.cap][2])>>)
  \o Given(f.signals, <<Condition("signals", "$all", f.signals)>>)
  \o [i \in DOMAIN f.metrics |->
        Condition(f.metrics[i].field, MetricOp(f.metrics[i].op), MetricValue(f.metrics[i]))]

\* A missing value is below every other.
Missing == -1000000
SortKey(t, f) == IF SortField(f) \in DOMAIN t THEN t[SortField(f)] ELSE Missing
Before(f, t, u) == IF Ascending(f) THEN SortKey(t, f) < SortKey(u, f)
                   ELSE SortKey(t, f) > SortKey(u, f)

\* Tickers with the same key are in the order of their ids.
Goes(f, t, u) == Before(f, t, u) \/ (~ Before(f, u, t) /\ t.id < u.id)

FirstOf(ts, f, n) == {t \in ts : Cardinality({u \in ts : Goes(f, u, t)}) < n}

\* A limit of 0 is no limit for the database.
SearchTickers(ts, f) ==
  LET found == {t \in ts : Matches(t, BuildFilter(Conditions(f)))}
  IN  IF f.limit \in {None, 0} THEN found ELSE FirstOf(found, f, f.limit)

-----------------------------------------------------------------------------
(* The day's signals become those of the ticker, with its beta and rating. *)

\* Beta in tenths.
BetaBucket(beta) == IF beta = None THEN {}
                    ELSE IF beta < 8 THEN {"Low Beta"}
                    ELSE IF beta < 12 THEN {"Market Beta"}
                    ELSE IF beta < 20 THEN {"High Beta"}
                    ELSE {"Very High Beta"}

AnalystBucket(consensus) ==
  CASE consensus = "Strong Buy"  -> {"Analyst Strong Buy"}
    [] consensus = "Buy"         -> {"Analyst Buy"}
    [] consensus = "Hold"        -> {"Analyst Hold"}
    [] consensus = "Sell"        -> {"Analyst Sell"}
    [] consensus = "Strong Sell" -> {"Analyst Strong Sell"}
    [] OTHER                     -> {}

WatchedNow ==
  With(Watched, "signals", SignalNames(signals) \cup BetaBucket(Watched.beta)
                             \cup AnalystBucket(Watched.analyst_consensus))

AllTickers == Tickers \cup {WatchedNow}

-----------------------------------------------------------------------------
(* The tool and the search route. *)

\* Nearest first; equally near ones stay in the order they were found in.
GoesNearer(f, t, u) ==
  LET near(v) == Near[f.query][v.symbol]
  IN  near(t) > near(u) \/ (near(t) = near(u) /\ Goes(f, t, u))

\* Only a ticker with an overview is ranked.
Ranked(ts, f, top) ==
  LET known == {t \in ts : t.symbol \in DOMAIN Near[f.query]}
  IN  {t \in known : Cardinality({u \in known : GoesNearer(f, u, t)}) < top}

Answer(f, ts, most, floor) ==
  [filter |-> f, of |-> AllTickers, symbols |-> {t.symbol : t \in ts}, most |-> most, floor |-> floor,
   failed |-> FALSE]
Failed(f) == [Answer(f, {}, 0, -100) EXCEPT !.failed = TRUE]

\* The tool: a question ranks what the limit has left of the tickers found.  The
\* search and the embedding of the question may fail.
Execute(f) ==
  LET found == SearchTickers(AllTickers, f)
      limit == IF f.limit = None THEN DefaultLimit ELSE f.limit
      best  == IF f.query = None THEN FirstOf(found, f, limit) ELSE Ranked(found, f, limit)
  IN  /\ \/ ~ Unsupported(f) /\ answer' = Answer(f, best, limit, -100)
         \/ answer' = Failed(f)
      /\ UNCHANGED signalVars

\* The route has no metrics, asks for a least similarity and ranks SearchTop.  It
\* may fail like the tool, and by the unwrap in its log line, which is evaluated at
\* the level debug only, when nothing that was found has an overview.
Search(f, score) ==
  LET found == SearchTickers(AllTickers, f)
      best  == {t \in Ranked(found, f, SearchTop) : Near[f.query][t.symbol] > score}
  IN  /\ f.metrics = <<>>
      /\ \/ /\ ~ Unsupported(f) /\ f.query = None
            /\ answer' = Answer(f, found, Cardinality(AllTickers), -100)
         \/ /\ ~ Unsupported(f) /\ f.query # None
            /\ answer' = Answer(f, best, SearchTop, score)
         \/ answer' = Failed(f)
      /\ UNCHANGED signalVars

InitScreening == InitSignals /\ answer = None

NextScreening ==
  \/ \E bar \in Bars : NextBar(bar) /\ answer' = None
  \/ answer = None /\ \E f \in Filters : Execute(f)
  \/ answer = None /\ \E f \in Filters, score \in Scores : Search(f, score)

SpecScreening == InitScreening /\ [][NextScreening]_screeningVars

-----------------------------------------------------------------------------
(* Properties. *)

\* What a request asks of a ticker; gt and lt let the bound itself pass.
Wanted(t, f) ==
  /\ f.industries # None => t.industry \in f.industries
  /\ t.asset_type = AssetType(f)
  /\ f.cap # None => /\ "total_assets" \in DOMAIN t
                     /\ t.total_assets \in CapRange[f.cap][1]..CapRange[f.cap][2]
  /\ f.signals # None => f.signals \subseteq t.signals
  /\ \A m \in Range(f.metrics) :
       m.field \in DOMAIN t /\ Holds(MetricOp(m.op), t[m.field], MetricValue(m))

\* Two bounds on one side of a metric: the later one is all that is kept.
Repeats(f) == \E i, j \in DOMAIN f.metrics :
                /\ i < j /\ f.metrics[i].field = f.metrics[j].field
                /\ MetricOp(f.metrics[i].op) = MetricOp(f.metrics[j].op)

\* The limit is used up by tickers that go before t in the order asked for.
CutOff(want, t, f) ==
  f.limit # None /\ Cardinality({u \in want \ {t} : ~ Before(f, t, u)}) >= f.limit

(***************************************************************************)
(* However the conditions of a request share fields, the tool and the      *)
(* route return only tickers that meet all of them.  One that meets them   *)
(* is left out only if tickers before it in the order asked for use up the *)
(* limit, given or not, or, for a question, if it has no overview, is too  *)
(* unlike, or as many nearer ones are returned as may be.                  *)
(***************************************************************************)
AnswersFitFilter ==
  answer # None /\ ~ answer.failed /\ ~ Repeats(answer.filter) =>
    LET f     == answer.filter
        given == {t \in answer.of : t.symbol \in answer.symbols}
        want  == {t \in answer.of : Wanted(t, f)}
        full  == Cardinality(given) = answer.most
    IN  /\ given \subseteq want
        /\ \A t \in want \ given :
             \/ CutOff(want, t, f)
             \/ f.query = None /\ full /\ \A u \in given : ~ Before(f, t, u)
             \/ f.query # None /\ t.symbol \notin DOMAIN Near[f.query]
             \/ f.query # None /\ LET near(u) == Near[f.query][u.symbol] IN
                  near(t) <= answer.floor \/ (full /\ \A u \in given : near(u) >= near(t))
=============================================================================
