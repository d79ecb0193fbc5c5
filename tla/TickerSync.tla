------------------------------ MODULE TickerSync ------------------------------
(***************************************************************************)
(* The passes that keep the tickers up to date (rustic-finance): the load  *)
(* of the seeds, the end-of-day update, the sentiments and the realtime    *)
(* quotes.  They are separate processes started by a scheduler or by hand; *)
(* they overlap, crash, and meet only in the database, where a document    *)
(* is replaced whole by the copy a pass has worked on.                     *)
(*                                                                         *)
(* Time is counted in days.  Every day has one bar and one article per     *)
(* symbol: the article is there with the day, the bars may end any days    *)
(* before it.  A ticker is the day of its price and the day of the         *)
(* indicator its signals come from; a control is the day of its sentiment  *)
(* stamp, the only one that a later pass reads; day 0 is None.  Embeddings *)
(* are left out, no pass depends on them.  `stale`, `lost` and the fields  *)
(* `fresh` and `missed` are history variables.                             *)
(***************************************************************************)
EXTENDS Integers, FiniteSets, Functions

CONSTANTS Symbols, Passes,
          Permits,     \* permits of a pass's semaphore (2 in the code)
          Reach,       \* the days a request for news reaches back (a month)
          MaxDay,      \* bound: the last day
          Scenarios    \* the jobs the passes may be started with

Days == 1..MaxDay

Job == [kind : {"load", "eod", "sentiments", "quotes"},
        symbols : SUBSET Symbols, update : BOOLEAN]

ASSUME TickerSyncAssumption == /\ IsFiniteSet(Symbols) /\ IsFiniteSet(Passes)
                               /\ Permits \in Nat \ {0}
                               /\ MaxDay \in Nat \ {0} /\ Reach \in Nat \ {0}
                               /\ Scenarios \subseteq [Passes -> Job]

VARIABLES today,
          tickers, controls,      \* by symbol, for the symbols that have one
          history,                \* history[s][d]: the bars stored for the day
          indicators, sentiments, \* the days that have one
          job, pc,
          mine,                   \* the copies of tickers and controls a pass works on
          task,                   \* the tokio task of a symbol
          stale,                  \* the tickers replaced since the pass read them
          lost                    \* the articles no pass will ask for again

db   == <<tickers, controls, history, indicators, sentiments, lost>>
vars == <<today, tickers, controls, history, indicators, sentiments, job, pc,
          mine, task, stale, lost>>

Seed   == [date |-> 0, signals |-> 0]
NoTask == [at |-> "none", known |-> {}, batch |-> {}, upto |-> 0, fresh |-> TRUE,
           missed |-> {}]

Waiting == {"none", "queued", "ok", "err"}
Stages  == Waiting \cup {"fetch", "stamp", "insert", "compute", "mark", "upsert",
                         "finish", "stampFeed", "store"}
Ended   == {"done", "failed", "killed"}

Task == [at : Stages, known : SUBSET Days, batch : SUBSET Days, upto : 0..MaxDay,
         fresh : BOOLEAN, missed : SUBSET Days]

Latest(days) == CHOOSE d \in days \cup {0} : \A e \in days : e <= d

\* The documents of a collection once those of `saved` have replaced theirs.
Replace(collection, saved) ==
  [s \in DOMAIN collection \cup DOMAIN saved |->
     IF s \in DOMAIN saved THEN saved[s] ELSE collection[s]]

Init == /\ today = 1
        /\ job \in Scenarios
        /\ \E loaded \in SUBSET Symbols : /\ tickers = [s \in loaded |-> Seed]
                                          /\ controls = [s \in loaded |-> 0]
        /\ history = [s \in Symbols |-> [d \in Days |-> 0]]
        /\ indicators = [s \in Symbols |-> {}]
        /\ sentiments = [s \in Symbols |-> {}]
        /\ pc = [p \in Passes |-> "idle"]
        /\ mine = [p \in Passes |-> [tickers |-> <<>>, controls |-> <<>>]]
        /\ task = [p \in Passes |-> [s \in Symbols |-> NoTask]]
        /\ stale = [p \in Passes |-> {}]
        /\ lost = [s \in Symbols |-> {}]

Publish == /\ today < MaxDay
           /\ today' = today + 1
           /\ UNCHANGED <<db, job, pc, mine, task, stale>>

-----------------------------------------------------------------------------
(* What a pass reads before it starts its tasks.                           *)

Goto(p, l) == pc' = [pc EXCEPT ![p] = l]

Prices(p) == job[p].kind \in {"load", "eod"}

\* One task per ticker that has a control; without one the ticker is skipped.
Spawn(p, ts, cs) ==
  /\ mine' = [mine EXCEPT ![p] = [tickers |-> ts, controls |-> cs]]
  /\ task' = [task EXCEPT ![p] =
                [s \in Symbols |-> IF s \in DOMAIN ts \cap DOMAIN cs
                                   THEN [NoTask EXCEPT !.at = "queued"] ELSE NoTask]]
  /\ Goto(p, "working")

StoredControls(p) == Restrict(controls, DOMAIN controls \cap job[p].symbols)

\* The stored control of a seed, or a new one.
SeedControls(p) == Replace([s \in job[p].symbols |-> 0], StoredControls(p))

ReadSeeds(p) == /\ pc[p] = "idle"
                /\ job[p].kind = "load"
                /\ Spawn(p, [s \in job[p].symbols |-> Seed], SeedControls(p))
                /\ UNCHANGED <<today, db, job, stale>>

ReadTickers(p) ==
  /\ pc[p] = "idle"
  /\ job[p].kind # "load"
  /\ mine' = [mine EXCEPT ![p].tickers =
                Restrict(tickers, DOMAIN tickers \cap job[p].symbols)]
  /\ Goto(p, IF job[p].kind = "quotes" THEN "quoting" ELSE "controls")
  /\ UNCHANGED <<today, db, job, task, stale>>

ReadControls(p) == /\ pc[p] = "controls"
                   /\ Spawn(p, mine[p].tickers, StoredControls(p))
                   /\ UNCHANGED <<today, db, job, stale>>

\* The read of the tickers or of the controls fails.
ReadFails(p) == /\ pc[p] \in {"idle", "controls"}
                /\ Goto(p, "failed")
                /\ UNCHANGED <<today, db, job, mine, task, stale>>

-----------------------------------------------------------------------------
(* The task of a symbol in a load or an end-of-day pass: update_ticker.    *)

At(p, s, stage) == pc[p] = "working" /\ task[p][s].at = stage

Put(p, s, t) == task' = [task EXCEPT ![p][s] = t]
Move(p, s, stage) == Put(p, s, [task[p][s] EXCEPT !.at = stage])

\* Mutant of Running: a task that failed keeps its permit.
RunningOrFailed(p) == {s \in Symbols : task[p][s].at \notin Waiting \ {"err"}}

Running(p) == {s \in Symbols : task[p][s].at \notin Waiting}

Admitted(p, s) == At(p, s, "queued") /\ Cardinality(Running(p)) < Permits

\* A read of the history that fails is an empty history.
ReadHistory(p, s) ==
  /\ Prices(p)
  /\ Admitted(p, s)
  /\ \E ok \in BOOLEAN :
        Put(p, s, [task[p][s] EXCEPT !.at = "fetch", !.fresh = ok,
                     !.known = IF ok THEN {d \in Days : history[s][d] > 0} ELSE {}])
  /\ UNCHANGED <<today, db, job, pc, mine, stale>>

\* Mutant of NewBars: what is stored already is not looked at.
EveryBar(known, last) == 1..last

\* Mutant of NewBars: a bookmark instead of the set of the days stored.
BarsAfterLast(known, last) == {d \in 1..last : d > Latest(known)}

NewBars(known, last) == (1..last) \ known

\* The bars up to the last the provider has, which may lag behind today; or none,
\* when it has none or fails.
FetchHistory(p, s) ==
  /\ At(p, s, "fetch")
  /\ \/ \E last \in 1..today :
          LET new == NewBars(task[p][s].known, last)
          IN  Put(p, s, [task[p][s] EXCEPT
                           !.at = IF job[p].update /\ new # {} THEN "stamp" ELSE "compute",
                           !.known = {}, !.batch = new, !.upto = last])
     \/ Put(p, s, [task[p][s] EXCEPT !.at = "finish", !.known = {}])
  /\ UNCHANGED <<today, db, job, pc, mine, stale>>

\* A write of the task's control: done, refused, or done and not acknowledged.
SaveControl(p, s, c, next, otherwise) ==
  LET saved == Replace(controls, [r \in {s} |-> c])
  IN  \/ controls' = saved /\ Move(p, s, next)
      \/ controls' \in {controls, saved} /\ Move(p, s, otherwise)

StampHistory(p, s) ==
  /\ At(p, s, "stamp")
  /\ SaveControl(p, s, mine[p].controls[s], "insert", "err")
  /\ UNCHANGED <<today, tickers, history, indicators, sentiments, lost, job, pc,
                 mine, stale>>

\* Mutant of InsertFailed: the error is logged and the update goes on.
InsertLogged == "compute"

InsertFailed == "err"

\* insert_many adds documents, whatever is stored; an error may leave some of them.
InsertHistory(p, s) ==
  /\ At(p, s, "insert")
  /\ \E stored \in SUBSET task[p][s].batch :
       /\ history' = [history EXCEPT ![s] =
                        [d \in Days |-> @[d] + (IF d \in stored THEN 1 ELSE 0)]]
       /\ \E next \in {InsertFailed}
                        \cup (IF stored = task[p][s].batch THEN {"compute"} ELSE {}) :
            task' = [q \in Passes |->
              IF q = p THEN [task[p] EXCEPT ![s].at = next, ![s].batch = {},
                                            ![s].fresh = TRUE]
              ELSE IF stored # {} /\ task[q][s].at \in {"fetch", "stamp", "insert"}
                   THEN [task[q] EXCEPT ![s].fresh = FALSE] ELSE task[q]]
  /\ UNCHANGED <<today, tickers, controls, indicators, sentiments, lost, job, pc,
                 mine, stale>>

\* The indicators of the days without one, or of the last day; a read that fails
\* finds no indicator.  A calculation that fails is logged and passed over.
ComputeIndicators(p, s) ==
  /\ At(p, s, "compute")
  /\ \/ \E old \in {indicators[s], {}} :
          LET all == 1..task[p][s].upto
              new == IF all \subseteq old THEN {task[p][s].upto} ELSE all \ old
          IN  Put(p, s, [task[p][s] EXCEPT
                           !.at = IF job[p].update THEN "mark" ELSE "finish", !.batch = new])
     \/ Put(p, s, [task[p][s] EXCEPT !.at = "finish", !.batch = {}])
  /\ UNCHANGED <<today, db, job, pc, mine, stale>>

MarkIndicators(p, s) ==
  /\ At(p, s, "mark")
  /\ SaveControl(p, s, mine[p].controls[s], "upsert", "err")
  /\ UNCHANGED <<today, tickers, history, indicators, sentiments, lost, job, pc,
                 mine, stale>>

UpsertFailed == "err"

UpsertIndicators(p, s) ==
  /\ At(p, s, "upsert")
  /\ \E stored \in SUBSET task[p][s].batch :
       /\ indicators' = [indicators EXCEPT ![s] = @ \cup stored]
       /\ \E next \in {UpsertFailed}
                        \cup (IF stored = task[p][s].batch THEN {"finish"} ELSE {}) :
            Put(p, s, [task[p][s] EXCEPT !.at = next, !.batch = {}])
  /\ UNCHANGED <<today, tickers, controls, history, sentiments, lost, job, pc,
                 mine, stale>>

\* Mutant of PriceDay: the bars are left in the provider's order.
FirstBar(t) == IF t.upto > 0 THEN 1 ELSE 0

\* The day of histories[0], the newest first.
PriceDay(t) == t.upto

\* The price of the last bar, if there are bars, and the signals of the latest
\* indicator stored; a failed read of it fails the task.
UpdateTicker(p, s) ==
  /\ At(p, s, "finish")
  /\ \/ /\ mine' = [mine EXCEPT ![p].tickers[s] =
             [date |-> IF task[p][s].upto > 0 THEN PriceDay(task[p][s]) ELSE @.date,
              signals |-> Latest(indicators[s])]]
        /\ Move(p, s, "ok")
     \/ UNCHANGED mine /\ Move(p, s, "err")
  /\ UNCHANGED <<today, db, job, pc, stale>>

-----------------------------------------------------------------------------
(* The task of a symbol in a sentiments pass.                              *)

Stamp(p, s) == mine[p].controls[s]

\* should_sync_sentiments: 24 hours may have passed since yesterday's stamp, or not.
\* A run without update always asks.
Due(p, s) == ~job[p].update \/ Stamp(p, s) = 0 \/ Stamp(p, s) < today

Recent(p, s) == job[p].update /\ Stamp(p, s) > 0 /\ Stamp(p, s) >= today - 1

\* Where an answer may begin: not before the window of the request, and later when
\* there are more articles than its limit, which keeps the latest.
Begins == {d \in 1..today : d > today - Reach}

Fetched(p, s, first) == {d \in first..today : d > Stamp(p, s)}
Missed(p, s, first) == {d \in 1..(first - 1) : d > Stamp(p, s)}

\* Mutant of FeedFailed: the pass goes on to its stamp with an empty feed.
FeedFailedStamped == "stampFeed"

FeedFailed == "ok"

\* `upto` is the day the provider was asked.
FetchFeed(p, s) ==
  /\ job[p].kind = "sentiments"
  /\ Admitted(p, s)
  /\ \/ /\ Due(p, s)
        /\ \E first \in Begins :
             LET new == Fetched(p, s, first)
             IN  Put(p, s, [task[p][s] EXCEPT
                              !.at = IF job[p].update /\ new # {} THEN "stampFeed" ELSE "ok",
                              !.batch = new, !.missed = Missed(p, s, first), !.upto = today])
     \/ Due(p, s) /\ Put(p, s, [task[p][s] EXCEPT !.at = FeedFailed, !.upto = today])
     \/ Recent(p, s) /\ Move(p, s, "ok")
  /\ UNCHANGED <<today, db, job, pc, mine, stale>>

Lose(s, days) == lost' = [lost EXCEPT ![s] = @ \cup days]

\* What a stamp of today passes over unseen: before the answer began, or after it.
Overlooked(t) == t.missed \cup ((t.upto + 1)..today)

\* The stamp is the time after the fetch, and is saved before the articles are:
\* acknowledged, saved without the task being told, or refused.  The stamped copy is
\* the task's own and ends with it.
StampFeed(p, s) ==
  /\ At(p, s, "stampFeed")
  /\ \/ /\ controls' = Replace(controls, [r \in {s} |-> today])
        /\ \/ /\ Move(p, s, "store")
              /\ Lose(s, Overlooked(task[p][s]))
           \/ /\ Move(p, s, "ok")
              /\ Lose(s, Overlooked(task[p][s]) \cup task[p][s].batch)
     \/ /\ Move(p, s, "ok")
        /\ UNCHANGED <<controls, lost>>
  /\ UNCHANGED <<today, tickers, history, indicators, sentiments, job, pc, mine, stale>>

StoreFeed(p, s) ==
  /\ At(p, s, "store")
  /\ \E stored \in SUBSET task[p][s].batch :
       /\ sentiments' = [sentiments EXCEPT ![s] = @ \cup stored]
       /\ Lose(s, task[p][s].batch \ stored)
  /\ Put(p, s, [task[p][s] EXCEPT !.at = "ok", !.batch = {}])
  /\ UNCHANGED <<today, tickers, controls, history, indicators, job, pc, mine, stale>>

-----------------------------------------------------------------------------
(* What a pass saves when its tasks have ended.                            *)

Succeeded(p) == {s \in Symbols : task[p][s].at = "ok"}

\* The overviews of a load are saved after, and whether or not, the tickers are.
AfterSave(p) == IF job[p].kind = "load" THEN "seeds" ELSE "done"

Join(p) == /\ pc[p] = "working"
           /\ \A s \in Symbols : task[p][s].at \in Waiting \ {"queued"}
           /\ Goto(p, IF Prices(p) /\ job[p].update /\ Succeeded(p) # {}
                      THEN "tickers" ELSE AfterSave(p))
           /\ UNCHANGED <<today, db, job, mine, task, stale>>

\* bulk_update replaces documents; an error may leave some of them replaced.
SaveTickers(p, docs, next) ==
  \E saved \in SUBSET DOMAIN docs :
    /\ tickers' = Replace(tickers, Restrict(docs, saved))
    /\ stale' = [q \in Passes |-> IF q = p \/ pc[q] \in {"idle"} \cup Ended THEN stale[q]
                                  ELSE stale[q] \cup saved]
    /\ \/ Goto(p, "failed")
       \/ saved = DOMAIN docs /\ Goto(p, next)
    /\ UNCHANGED <<today, controls, history, indicators, sentiments, lost, job,
                   mine, task>>

SaveUpdated(p) == /\ pc[p] = "tickers"
                  /\ SaveTickers(p, Restrict(mine[p].tickers, Succeeded(p)), "saveControls")

SaveControls(p) ==
  /\ pc[p] = "saveControls"
  /\ \E saved \in SUBSET Succeeded(p) :
       /\ controls' = Replace(controls, Restrict(mine[p].controls, saved))
       /\ \/ Goto(p, "failed")
          \/ saved = Succeeded(p) /\ Goto(p, AfterSave(p))
  /\ UNCHANGED <<today, tickers, history, indicators, sentiments, lost, job, mine,
                 task, stale>>

\* The tickers load_tickers built from the seeds, not those its update returned.
SaveSeeds(p) == /\ pc[p] = "seeds"
                /\ SaveTickers(p, [s \in job[p].symbols |-> Seed], "done")

\* A quote dates a ticker that has no date; the price itself is not modelled.
Quoted(t, d) == IF t.date = 0 THEN [t EXCEPT !.date = d] ELSE t

\* The quotes of the symbols the provider answers for.  A price that cannot be
\* computed with, or no answer to the one call for all the cryptos, ends the pass.
Quote(p) ==
  /\ pc[p] = "quoting"
  /\ \/ \E got \in SUBSET DOMAIN mine[p].tickers :
          /\ mine' = [mine EXCEPT ![p].tickers = [s \in got |-> Quoted(@[s], today)]]
          /\ Goto(p, IF job[p].update /\ got # {} THEN "quotes" ELSE "done")
     \/ UNCHANGED mine /\ Goto(p, "failed")
  /\ UNCHANGED <<today, db, job, task, stale>>

SaveQuotes(p) == pc[p] = "quotes" /\ SaveTickers(p, mine[p].tickers, "done")

\* The process ends between two steps.
Kill(p) ==
  /\ pc[p] \notin {"idle"} \cup Ended
  /\ Goto(p, "killed")
  /\ lost' = [s \in Symbols |-> lost[s] \cup (IF task[p][s].at = "store"
                                               THEN task[p][s].batch ELSE {})]
  /\ UNCHANGED <<today, tickers, controls, history, indicators, sentiments, job,
                 mine, task, stale>>

Start(p) == ReadSeeds(p) \/ ReadTickers(p)

TaskStep(p, s) == \/ ReadHistory(p, s) \/ FetchHistory(p, s) \/ StampHistory(p, s)
                  \/ InsertHistory(p, s) \/ ComputeIndicators(p, s)
                  \/ MarkIndicators(p, s) \/ UpsertIndicators(p, s)
                  \/ UpdateTicker(p, s)
                  \/ FetchFeed(p, s) \/ StampFeed(p, s) \/ StoreFeed(p, s)

PassStep(p) == \/ ReadControls(p) \/ ReadFails(p)
               \/ \E s \in Symbols : TaskStep(p, s)
               \/ Join(p) \/ SaveUpdated(p) \/ SaveControls(p) \/ SaveSeeds(p)
               \/ Quote(p) \/ SaveQuotes(p)

Next == Publish \/ \E p \in Passes : Start(p) \/ PassStep(p) \/ Kill(p)

Spec == Init /\ [][Next]_vars

\* A pass that has started goes on: tokio polls its tasks, and the calls to the
\* database and the providers are taken to return.
FairSpec == Spec /\ \A p \in Passes : WF_vars(pc[p] # "idle" /\ PassStep(p))

-----------------------------------------------------------------------------
(* Properties.                                                             *)

Updated(p, s) == Prices(p) /\ job[p].update /\ task[p][s].at = "ok"

\* A symbol whose update succeeded has every bar up to the last one fetched: the gaps
\* an earlier insert left, half done or killed, are found and filled.
HistoryHealed == \A p \in Passes, s \in Symbols :
                   Updated(p, s) => \A d \in 1..task[p][s].upto : history[s][d] > 0

\* No indicator is stored for a day without a bar: an insert that fails stops the
\* symbol's update before the indicators computed from its bars are saved.
IndicatorsBacked == \A s \in Symbols : \A d \in indicators[s] : history[s][d] > 0

\* Every article up to a symbol's stored stamp is stored, or about to be by the pass
\* that stamped it, or lost in one of the known ways: after the stamp was saved its
\* store failed, was killed or was never tried, as the task was told of an error; it
\* appeared between the fetch and the stamp; or it was older than the feed reached.
SentimentsKept ==
  \A s \in DOMAIN controls : \A d \in 1..controls[s] :
    \/ d \in sentiments[s] \cup lost[s]
    \/ \E p \in Passes : At(p, s, "store") /\ d \in task[p][s].batch

\* A bar is stored twice only by a task that could not read the history, or whose
\* reading another pass's insert has overtaken.
DuplicatesOnlyBlind ==
  [][\A s \in Symbols, d \in Days :
       history'[s][d] > history[s][d] /\ history'[s][d] > 1 =>
         \E p \in Passes : /\ At(p, s, "insert") /\ task'[p][s].at # "insert"
                           /\ ~task[p][s].fresh]_vars

\* The day of a ticker's price goes back only when a pass saves a copy that another
\* pass's save has overtaken, when a load, which starts from the seeds, saves, or when
\* the bars an end-of-day pass was given end before it: a quote was dated later, or
\* an earlier answer reached further.
DateNeverBack ==
  [][\A s \in DOMAIN tickers :
       tickers'[s].date < tickers[s].date =>
         \E p \in Passes : /\ pc[p] \in {"tickers", "seeds", "quotes"} /\ pc'[p] # pc[p]
                           /\ \/ s \in stale[p] \/ job[p].kind = "load"
                              \/ /\ pc[p] = "tickers"
                                 /\ task[p][s].upto \in 1..(tickers[s].date - 1)]_vars

\* A pass that was started ends: no failed task keeps the permit the others wait for.
PassEnds == \A p \in Passes : pc[p] # "idle" ~> pc[p] \in Ended
=============================================================================
