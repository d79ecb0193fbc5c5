--------------------------- MODULE EconomicPipeline ---------------------------
(***************************************************************************)
(* The economic pipelines (rustic-economic): runs of EconomicDataPipeline  *)
(* that clear and load the FRED series, the NIPA and regional tables of    *)
(* the BEA and the census, the providers they ask (rustic-providers), the  *)
(* collections they write (rustic-storage) and the tools that read those.  *)
(*                                                                         *)
(* A run is a program: the jobs its configuration stands for, in order.  A *)
(* job asks for its rows in one request or more and stores what it got.    *)
(* `db` says of every document which run stored it last; values, names and *)
(* the variables of one census request, which travel together, are left    *)
(* out.  A run is a process of its own: two of them meet in the database,  *)
(* where a command over many documents is no transaction.  `faults` and    *)
(* `mixed` are history variables: every call that went wrong, and the      *)
(* census years whose last command was cut off, went without a level or    *)
(* met the command of another run.                                         *)
(***************************************************************************)
EXTENDS Integers, SequencesExt

CONSTANTS Series,       \* fred_series of the configuration
          Tables,       \* table_name of every bea_nipa entry, in order
          Regionals,    \* <<code, line_code>> of every bea_regional entry
          Counties,     \* counties, as codes <<state, county>>
          CurrentYear, Span,    \* LASTn is the last n years, at most Span of them
          Released,     \* the last year the BEA has data of, for every regional entry
          Runs, Configs,        \* Configs[r]: the pipeline_config of run r
          MaxFaults, Absent, Old

ASSUME EconomicAssumption == /\ CurrentYear \in Nat /\ Span \in 1..5
                             /\ MaxFaults \in Nat
                             /\ {Absent, Old} \cap Runs = {} /\ Absent # Old

\* The lists of the configuration.
ASSUME ListsAssumption == /\ Series \in Seq(STRING)
                          /\ Tables \in Seq(STRING)
                          /\ Regionals \in Seq(STRING \X STRING)

\* The BEA's data of a year comes when the year is over, or later.
ASSUME ReleasedAssumption ==
  \A e \in Range(Regionals) : Released[e] \in Nat /\ Released[e] <= CurrentYear

\* Every state has a code.
ASSUME PlacesAssumption == \A c \in Counties : c \in STRING \X STRING /\ c[1] # ""

VARIABLES db, run, faults, mixed

economicVars == <<db, run, faults, mixed>>

-----------------------------------------------------------------------------
(* The documents, and what a request returns. *)

YearsTo(last, n) == [i \in 1..(IF n < Span THEN n ELSE Span) |-> last - (i - 1)]

LastYears(n) == YearsTo(CurrentYear, n)

\* An explicit list of years is returned as it is.
ResolveYears(year) == CASE year = "LAST5" -> LastYears(5)
                        [] year = "LAST3" -> LastYears(3)
                        [] year = "LAST2" -> LastYears(2)
                        [] year \in {"LATEST", "LAST1"} -> LastYears(1)
                        [] OTHER -> year

Nation  == <<"00", "000">>
States  == {<<c[1], "000">> : c \in Counties}

\* The last header names the level; it makes the code of the place.
ParseResponse(geo) == [type |-> geo,
                       fips |-> CASE geo = "COUNTY" -> Counties
                                  [] geo = "STATE"  -> States
                                  [] OTHER          -> {Nation}]

\* A table of states, or of counties, carries the nation's row too.
GetRegional(level) == {Nation} \cup (IF level = "STATE" THEN States ELSE Counties)

\* "LAST5" goes into the request as it is: the last years of the BEA's own data.
RegionalYears(entry) == YearsTo(Released[entry], 5)

FredDoc(s) == [col |-> "fred", key |-> s, period |-> <<>>, fips |-> <<>>,
               type |-> ""]

\* Every row of the table for the year: annual and quarterly.
NipaDocs(table, year) ==
  {[col |-> "nipa", key |-> table, period |-> <<year, f>>, fips |-> <<>>,
    type |-> ""] : f \in {"A", "Q"}}

\* Mutant of RegionalDocs: the nation's row is a row of the level asked for.
RowsOfLevel(entry, level) ==
  {[col |-> "regional", key |-> entry, period |-> <<year, "A">>, fips |-> f,
    type |-> level] : f \in GetRegional(level), year \in Range(RegionalYears(entry))}

RegionalDocs(entry, level) ==
  {[col |-> "regional", key |-> entry, period |-> <<year, "A">>, fips |-> f,
    type |-> IF f = Nation THEN "US" ELSE level] :
      f \in GetRegional(level), year \in Range(RegionalYears(entry))}

CensusDocs(geo, year) ==
  {[col |-> "census", key |-> "acs5", period |-> <<year, "A">>, fips |-> f,
    type |-> ParseResponse(geo).type] : f \in ParseResponse(geo).fips}

-----------------------------------------------------------------------------
(* The program of a run. *)

Job(sec, op, key, level, year) ==
  [sec |-> sec, op |-> op, key |-> key, level |-> level, year |-> year]

Clean(sec, col) == <<Job(sec, "clean", col, "", 0)>>

UpdateFred == [i \in 1..Len(Series) |-> Job("fred", "series", Series[i], "", 0)]

RunFred(clean) == (IF clean THEN Clean("fred", "fred") ELSE <<>>) \o UpdateFred

CleanBea == Clean("bea", "nipa") \o Clean("bea", "regional")

\* A table that several series share is loaded once: its first place.
FirstOf(seq) ==
  LET first == {i \in 1..Len(seq) : \A j \in 1..(i - 1) : seq[j] # seq[i]}
  IN  [n \in 1..Cardinality(first) |->
         seq[CHOOSE i \in first : Cardinality({j \in first : j <= i}) = n]]

\* Two nested loops: the k-th round is round b of the inner in round a of the outer.
Nested(outer, inner, Round(_, _)) ==
  [k \in 1..(outer * inner) |-> Round(1 + ((k - 1) \div inner), 1 + ((k - 1) % inner))]

UpdateNipa ==
  LET tables == FirstOf(Tables)
      years  == ResolveYears("LAST5")
  IN  Nested(Len(tables), Len(years),
             LAMBDA t, y : Job("bea", "nipa", tables[t], "", years[y]))

UpdateRegional ==
  Nested(Len(Regionals), 2,
         LAMBDA i, l : Job("bea", "regional", Regionals[i], <<"STATE", "COUNTY">>[l], 0))

RunBea(clean) == (IF clean THEN CleanBea ELSE <<>>) \o UpdateNipa \o UpdateRegional

UpdateCensus == LET years == ResolveYears("LAST5")
                IN  [k \in 1..Len(years) |-> Job("census", "acs", "acs5", "", years[k])]

RunCensus(clean) == (IF clean THEN Clean("census", "census") ELSE <<>>)
                    \o UpdateCensus

\* run(): the three sections that are asked for, in this order.
Program(c) ==
  (IF "fred" \in c.update THEN RunFred("fred" \in c.clean) ELSE <<>>)
  \o (IF "bea" \in c.update THEN RunBea("bea" \in c.clean) ELSE <<>>)
  \o (IF "census" \in c.update THEN RunCensus("census" \in c.clean) ELSE <<>>)

Sections == {"fred", "bea", "census"}

PipelineConfigs == [update : SUBSET Sections, clean : SUBSET Sections]

One(section, clean) == [update |-> {section}, clean |-> IF clean THEN {section} ELSE {}]

NewConfig        == [update |-> Sections, clean |-> Sections]
NewFred(clean)   == One("fred", clean)
NewBea(clean)    == One("bea", clean)
NewCensus(clean) == One("census", clean)

\* The configurations the program can be run with.
ASSUME ConfigAssumption ==
  \A r \in Runs :
    /\ Configs[r] \in PipelineConfigs
    /\ Configs[r] \in {NewConfig} \cup UNION {{NewFred(clean), NewBea(clean), NewCensus(clean)} :
                                              clean \in BOOLEAN}

Programs == [r \in Runs |-> Program(Configs[r])]

AcsLevels == <<"US", "STATE", "COUNTY">>

Requests(j) == CASE j.op = "acs"   -> 3
                 [] j.op = "clean" -> 0
                 [] OTHER          -> 1

\* What the k-th request of a job returns when it is answered.
Rows(j, k) == CASE j.op = "series"   -> {FredDoc(j.key)}
                [] j.op = "nipa"     -> NipaDocs(j.key, j.year)
                [] j.op = "regional" -> RegionalDocs(j.key, j.level)
                [] j.op = "acs"      -> CensusDocs(AcsLevels[k], j.year)
                [] OTHER             -> {}

JobDocs(j) == UNION {Rows(j, k) : k \in 1..Requests(j)}

Docs == UNION {JobDocs(j) : j \in Range(Program(NewConfig))}

-----------------------------------------------------------------------------
(* The steps of a run. *)

InitEconomic ==
  /\ db \in {[d \in Docs |-> Old], [d \in Docs |-> Absent]}
  /\ run = [r \in Runs |-> [pc |-> 1, stage |-> 1, got |-> {}, out |-> "going"]]
  /\ faults = {} /\ mixed = {}

Now(r)   == Programs[r][run[r].pc]
Going(r) == run[r].out = "going" /\ run[r].pc <= Len(Programs[r])

\* The next job of the run; after the last one it has succeeded.
Goto(r, i) ==
  run' = [run EXCEPT ![r] = [pc |-> i, stage |-> 1, got |-> {},
                             out |-> IF i > Len(Programs[r]) THEN "ok" ELSE "going"]]

Continue(r) == Goto(r, run[r].pc + 1)

\* An error that leaves update_bea or update_census is logged by the section.
Abandon(r) ==
  LET later == {i \in (run[r].pc + 1)..(Len(Programs[r]) + 1) :
                  i > Len(Programs[r]) \/ Programs[r][i].sec # Now(r).sec}
  IN  Goto(r, CHOOSE i \in later : \A k \in later : i <= k)

Fault(r, kind) ==
  /\ Cardinality(faults) < MaxFaults
  /\ faults' = faults \cup {[run |-> r, pc |-> run[r].pc, kind |-> kind]}

\* A job's command follows its requests; under way, `got` is what it still has to do.
Commanding(r) == Going(r) /\ run[r].stage > Requests(Now(r))
UnderWay(r)   == Going(r) /\ run[r].stage = Requests(Now(r)) + 2

\* The census years a job's command is about.
YearsOf(j) == CASE j.op = "acs"                          -> {j.year}
                [] j.op = "clean" /\ j.key = "census"    -> Range(ResolveYears("LAST5"))
                [] OTHER                                 -> {}

Missed(r) == \E f \in faults : f.run = r /\ f.pc = run[r].pc /\ f.kind = "missing"

\* The database begins with a command: alone it makes its years whole again.
Begin(r, docs) ==
  LET years == YearsOf(Now(r))
  IN  /\ ~UnderWay(r)
      /\ run' = [run EXCEPT ![r].got = docs, ![r].stage = @ + 1]
      /\ mixed' = (mixed \ years) \cup
                  {y \in years : \/ Missed(r)
                                 \/ \E s \in Runs \ {r} : UnderWay(s) /\ y \in YearsOf(Now(s))}
      /\ UNCHANGED <<db, faults>>

\* The next document of a command.  bound: in one order (bulk_write is ordered)
Handle(r, becomes) ==
  LET d == CHOOSE d \in run[r].got : TRUE
  IN  /\ UnderWay(r) /\ run[r].got # {}
      /\ db' = [db EXCEPT ![d] = becomes]
      /\ run' = [run EXCEPT ![r].got = @ \ {d}]
      /\ UNCHANGED <<faults, mixed>>

Complete(r) == /\ UnderWay(r) /\ run[r].got = {}
               /\ Continue(r)
               /\ UNCHANGED <<db, faults, mixed>>

\* The call goes wrong, wherever the command is.
CutOff(r, kind) ==
  /\ Fault(r, kind)
  /\ mixed' = mixed \cup (IF UnderWay(r) THEN YearsOf(Now(r)) ELSE {})
  /\ UNCHANGED db

InCollection(col) == {d \in Docs : d.col = col}

\* delete_many removes what matches, one document after the other.
DeleteAll(r) ==
  /\ Going(r) /\ Now(r).op = "clean"
  /\ \/ Begin(r, InCollection(Now(r).key))
     \/ Handle(r, Absent)
     \/ Complete(r)
     \/ CutOff(r, "clean") /\ run' = [run EXCEPT ![r].out = "error"]

Asking(r, op) == Going(r) /\ Now(r).op = op /\ run[r].stage <= Requests(Now(r))

Answered(r) ==
  /\ run' = [run EXCEPT ![r].got = @ \cup Rows(Now(r), run[r].stage),
                        ![r].stage = @ + 1]
  /\ UNCHANGED <<db, faults, mixed>>

\* get_series: two requests at once, and the error of either; the next series.
FetchSeries(r) == /\ Asking(r, "series")
                  /\ \/ Answered(r)
                     \/ Fault(r, "fetch") /\ Continue(r) /\ UNCHANGED <<db, mixed>>

\* Mutant of FetchNipa: the error of one year is passed on.
NipaFirstErrorEnds(r) == /\ Asking(r, "nipa")
                         /\ \/ Answered(r)
                            \/ Fault(r, "fetch") /\ Abandon(r) /\ UNCHANGED <<db, mixed>>

\* get_nipa: an error in the answer is an error too; the next year.
FetchNipa(r) == /\ Asking(r, "nipa")
                /\ \/ Answered(r)
                   \/ Fault(r, "fetch") /\ Continue(r) /\ UNCHANGED <<db, mixed>>

\* get_regional: the first error ends the section.
FetchRegional(r) == /\ Asking(r, "regional")
                    /\ \/ Answered(r)
                       \/ Fault(r, "fetch") /\ Abandon(r) /\ UNCHANGED <<db, mixed>>

\* An error whose text holds 404 counts as no rows.
AcsMissing(r) ==
  /\ Asking(r, "acs")
  /\ Fault(r, "missing")
  /\ run' = [run EXCEPT ![r].stage = @ + 1]
  /\ UNCHANGED <<db, mixed>>

\* Mutant of FetchAcs: without its counties a year is stored all the same.
StoreWithoutCounties(r) ==
  /\ Asking(r, "acs")
  /\ \/ Answered(r)
     \/ /\ Fault(r, "fetch")
        /\ IF AcsLevels[run[r].stage] = "COUNTY"
           THEN run' = [run EXCEPT ![r].stage = @ + 1]
           ELSE Abandon(r)
        /\ UNCHANGED <<db, mixed>>

\* The nation's and the states' errors end the section, the counties' the year.
FetchAcs(r) ==
  /\ Asking(r, "acs")
  /\ \/ Answered(r)
     \/ /\ Fault(r, "fetch")
        /\ IF AcsLevels[run[r].stage] = "COUNTY" THEN Continue(r) ELSE Abandon(r)
        /\ UNCHANGED <<db, mixed>>

Writing(r, op) == Commanding(r) /\ Now(r).op = op

\* bulk_update, and the callers that log its error and go on.
BulkUpdate(r, op) ==
  /\ Writing(r, op)
  /\ \/ Begin(r, run[r].got)
     \/ Handle(r, r)
     \/ Complete(r)
     \/ CutOff(r, "write") /\ Continue(r)

UpsertNipa(r)     == BulkUpdate(r, "nipa")
UpsertRegional(r) == BulkUpdate(r, "regional")
UpsertCensus(r)   == BulkUpdate(r, "acs")

\* One replace_one: all or nothing.
UpsertSeries(r) ==
  /\ Writing(r, "series")
  /\ \/ /\ db' = [d \in Docs |-> IF d \in run[r].got THEN r ELSE db[d]]
        /\ UNCHANGED <<faults, mixed>>
     \/ CutOff(r, "write")
  /\ Continue(r)

\* The process is killed, and what it has under way ends there.
Kill(r) ==
  /\ Going(r)
  /\ CutOff(r, "killed")
  /\ run' = [run EXCEPT ![r].out = "killed"]

Step(r) == \/ DeleteAll(r)
           \/ FetchSeries(r) \/ FetchNipa(r) \/ FetchRegional(r)
           \/ FetchAcs(r) \/ AcsMissing(r)
           \/ UpsertSeries(r) \/ UpsertNipa(r) \/ UpsertRegional(r) \/ UpsertCensus(r)

NextEconomic == \E r \in Runs : Step(r) \/ Kill(r)

SpecEconomic == InitEconomic /\ [][NextEconomic]_economicVars

-----------------------------------------------------------------------------
(* What the tools answer: the documents returned, of those in the database. *)

Present == {d \in Docs : db[d] # Absent}

InYears(d, years) == d.period[1] \in Range(years)

\* time_period is compared with the years: "2024Q1" is none of them.
GetNipaByTableSeries(table, years) ==
  {d \in Present : d.col = "nipa" /\ d.key = table /\ InYears(d, years)
                   /\ d.period[2] = "A"}

BeaNipaTool(q) == GetNipaByTableSeries(q.key, ResolveYears(q.year))

GeoMatches(d, q) == /\ q.type # "" => d.type = q.type
                    /\ q.fips # {} => d.fips \in q.fips
                    /\ q.prefix # "" => d.fips[1] = q.prefix

GetRegionalByTableSeries(codes, years, q) ==
  {d \in Present : /\ d.col = "regional" /\ d.key \in codes
                   /\ InYears(d, years) /\ GeoMatches(d, q)}

\* The table's code and each line code make the codes to look for.
GetBeaRegional(q) ==
  GetRegionalByTableSeries({<<q.key, line>> : line \in q.lines},
                           ResolveYears(q.year), q)

BeaRegionalTool(q) == GetBeaRegional(q)

GetCensusByVariable(years, q) ==
  {d \in Present : d.col = "census" /\ InYears(d, years) /\ GeoMatches(d, q)}

\* Without a place the tool asks for the nation.
CensusTool(q) ==
  LET nowhere == q.fips = {} /\ q.type = "" /\ q.prefix = ""
  IN  GetCensusByVariable(ResolveYears(q.year),
                          IF nowhere THEN [q EXCEPT !.fips = {Nation}] ELSE q)

GetSeries(id) == Present \cap {FredDoc(id)}

\* One series that is not stored fails the whole call.
FredTool(series) == IF \E id \in series : GetSeries(id) = {}
                    THEN {} ELSE UNION {GetSeries(id) : id \in series}

-----------------------------------------------------------------------------
(* Properties. *)

FaultAt(r, i) == \E f \in faults : f.run = r /\ f.pc = i

\* The requests whose error update_bea and update_census pass on.
Fatal(r, i) == LET j == Programs[r][i] IN
  /\ j.op \in {"regional", "acs"}
  /\ \E f \in faults : f.run = r /\ f.pc = i /\ f.kind = "fetch"

TouchedBy(r, d) == \E i \in 1..(run[r].pc) :
  /\ i <= Len(Programs[r])
  /\ \/ Programs[r][i].op = "clean" /\ Programs[r][i].key = d.col
     \/ d \in JobDocs(Programs[r][i])

(***************************************************************************)
(* A run that has gone past a job, whatever becomes of it later, has       *)
(* renewed every document of that job, but those of a job that failed      *)
(* itself, those that follow a failed regional or census request in the    *)
(* same section, and those another run has touched: a failed series, table *)
(* or year costs no other one, and a kill or a failed clearing none that   *)
(* was loaded before (pipeline.rs, `continue` against `?`).                *)
(***************************************************************************)
FailureContained ==
  \A r \in Runs : \A i \in 1..Len(Programs[r]) : i < run[r].pc =>
    \A d \in JobDocs(Programs[r][i]) :
      \/ db[d] = r
      \/ \E k \in 1..Len(Programs[r]) :
           /\ FaultAt(r, k)
           /\ \/ d \in JobDocs(Programs[r][k])
              \/ k < i /\ Fatal(r, k) /\ Programs[r][k].sec = Programs[r][i].sec
      \/ \E s \in Runs \ {r} : TouchedBy(s, d)

(***************************************************************************)
(* The levels of one census year belong together: the nation, the states   *)
(* and the counties of a year were stored by the same run, but while a     *)
(* command over the year is under way, and after one that was cut off,     *)
(* went without a level that was reported missing, or met the command of   *)
(* another run.  The next command that goes over the year alone and to its *)
(* end makes it whole again (core/census.rs: nothing is written before the *)
(* counties have come).                                                    *)
(***************************************************************************)
CensusDocsOf(year) == {d \in Docs : d.col = "census" /\ d.period[1] = year}

YearWhole ==
  \A year \in Range(ResolveYears("LAST5")) :
    \/ \A d, e \in CensusDocsOf(year) : db[d] = db[e]
    \/ \E r \in Runs : UnderWay(r) /\ year \in YearsOf(Now(r))
    \/ year \in mixed

(***************************************************************************)
(* What a tool returns lies where it was asked for: a question about       *)
(* states is not answered with the nation or with counties, counties of a  *)
(* state are counties of that state, and a census question without a place *)
(* gets the nation alone; a NIPA question gets one row for a year, and a   *)
(* question about all series is answered with all of them when the only    *)
(* run that loads them has succeeded without a fault there                 *)
(* (update_bea_regional, parse_response, and the filters of the tools).    *)
(***************************************************************************)
Question(type, fips, prefix) ==
  [key |-> "", lines |-> {}, year |-> "LAST5", type |-> type, fips |-> fips,
   prefix |-> prefix]

Places(type) == CASE type = "US"     -> {Nation}
                  [] type = "STATE"  -> States
                  [] type = "COUNTY" -> Counties

AnswersFit ==
  LET Returned(q) == CensusTool(q) \cup
                     UNION {BeaRegionalTool([q EXCEPT !.key = e[1], !.lines = {e[2]}]) :
                              e \in Range(Regionals)}
      FipsOf(q)   == {d.fips : d \in Returned(q)}
  IN  /\ \A type \in {"US", "STATE", "COUNTY"} :
           FipsOf(Question(type, {}, "")) \subseteq Places(type)
      /\ \A c \in Counties :
           FipsOf(Question("COUNTY", {}, c[1])) \subseteq {b \in Counties : b[1] = c[1]}
      /\ \A d \in CensusTool(Question("", {}, "")) : d.fips = Nation
      /\ \A i \in 1..Len(Tables) :
           LET rows == BeaNipaTool([Question("", {}, "") EXCEPT !.key = Tables[i]])
           IN  \A d, e \in rows : d.period[1] = e.period[1] => d = e
      /\ \A r \in Runs :
           \/ "fred" \notin Configs[r].update \/ run[r].out # "ok"
           \/ \E f \in faults : f.run = r /\ Programs[r][f.pc].sec = "fred"
           \/ \E s \in Runs \ {r} : "fred" \in Configs[s].update
           \/ FredTool(Range(Series)) = {FredDoc(id) : id \in Range(Series)}
=============================================================================
