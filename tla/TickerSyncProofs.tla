--------------------------- MODULE TickerSyncProofs ---------------------------
(***************************************************************************)
(* What holds for any number of symbols, passes, days and permits, and for *)
(* any windows and bars of a history. The histories heal, indicators rest  *)
(* on bars, and only a task that does not know what is stored stores a bar *)
(* again (IInv); every article a stored stamp promises is kept or lost in  *)
(* a known way (Feeds); the day of a price goes back only by bars that end *)
(* before it or a copy another save has overtaken (Dates). The signals of a day agree, and its *)
(* crosses with its trends (ScreeningInv). The answer to a request has     *)
(* what it asks for, and leaves out only what something nearer or earlier  *)
(* in the order outdoes.                                                   *)
(***************************************************************************)
EXTENDS TickerSync, TickerScreening, FiniteSetTheorems, SequenceTheorems, WellFoundedInduction,
        TLAPS

Stored(s, d) == history[s][d] > 0

Typing == /\ today \in Days
          /\ history \in [Symbols -> [Days -> Nat]]
          /\ indicators \in [Symbols -> SUBSET Days]
          /\ task \in [Passes -> [Symbols -> Task]]

\* What the state t of the task of s says of the history: which days are stored
\* already, and which are by the time the task has inserted its batch.
Backed(t, p, s) ==
  /\ t.at \in {"none", "queued", "fetch"} => t.upto = 0
  /\ t.at \in {"stamp", "insert", "compute"} => t.upto > 0
  /\ t.at \in {"stamp", "insert"} =>
       job[p].update /\ \A d \in 1..t.upto : d \in t.batch \/ Stored(s, d)
  /\ t.at \in {"compute", "mark", "upsert", "finish"} /\ job[p].update =>
       \A d \in 1..t.upto : Stored(s, d)
  /\ t.at \in {"mark", "upsert"} => job[p].update /\ t.batch \subseteq 1..t.upto
  /\ t.at \in {"stampFeed", "store"} => ~Prices(p)
  /\ t.at = "ok" /\ Prices(p) /\ job[p].update => \A d \in 1..t.upto : Stored(s, d)

\* A fresh task knows the days stored, and has none of them in its batch.
Sighted(t, s) ==
  t.fresh => /\ t.at = "fetch" => t.known = {d \in Days : Stored(s, d)}
             /\ t.at \in {"stamp", "insert"} => \A d \in t.batch : ~Stored(s, d)

\* The days a task believes stored are stored, whether or not it is fresh.
Knows(t, s) == t.at = "fetch" => \A d \in t.known : Stored(s, d)

TaskInv(t, p, s) == Backed(t, p, s) /\ Sighted(t, s) /\ Knows(t, s)

IInv == /\ Typing
        /\ \A p \in Passes, s \in Symbols : TaskInv(task[p][s], p, s)
        /\ IndicatorsBacked

-----------------------------------------------------------------------------

\* The first state has no task, no bar and no indicator.
LEMMA InitInv == ASSUME Init PROVE IInv
<1>1. Typing
  BY TickerSyncAssumption DEF Init, Typing, Days, Task, NoTask, Stages, Waiting
<1>2. \A p \in Passes, s \in Symbols : task[p][s] = NoTask
  BY DEF Init
<1>3. ASSUME NEW p \in Passes, NEW s \in Symbols PROVE TaskInv(NoTask, p, s)
  BY TickerSyncAssumption DEF TaskInv, Backed, Sighted, Knows, NoTask
<1>4. IndicatorsBacked
  BY DEF Init, IndicatorsBacked
<1> QED BY <1>1, <1>2, <1>3, <1>4 DEF IInv

\* A step that leaves alone what the invariant is about preserves it.
LEMMA Frame ==
  ASSUME IInv, UNCHANGED <<job, task, history, indicators>>, today' \in Days
  PROVE  IInv'
BY DEF IInv, Typing, TaskInv, Backed, Sighted, Knows, Stored, Prices, IndicatorsBacked

\* A step that moves one task, and no bar, preserves the invariant if it puts the
\* task where the invariant holds of it.
LEMMA OneTask ==
  ASSUME IInv, NEW p \in Passes, NEW s \in Symbols, NEW t \in Task,
         Put(p, s, t), TaskInv(t, p, s),
         UNCHANGED <<today, job, history>>,
         indicators' \in [Symbols -> SUBSET Days], IndicatorsBacked'
  PROVE  IInv'
<1>1. Typing'
  BY DEF IInv, Typing, Put
<1>2. ASSUME NEW q \in Passes, NEW r \in Symbols
      PROVE  task'[q][r] = IF q = p /\ r = s THEN t ELSE task[q][r]
  BY DEF IInv, Typing, Put
<1>3. ASSUME NEW q \in Passes, NEW r \in Symbols
      PROVE  TaskInv(task[q][r], q, r)' 
  <2>1. TaskInv(task[q][r], q, r)
    BY DEF IInv
  <2> QED BY <1>2, <2>1 DEF TaskInv, Backed, Sighted, Knows, Stored, Prices
<1> QED BY <1>1, <1>3 DEF IInv

-----------------------------------------------------------------------------
(* One lemma per action that moves a task.                                 *)

\* The read of the history: fresh if it was read, and nothing believed if not.
LEMMA ReadHistoryInv ==
  ASSUME IInv, NEW p \in Passes, NEW s \in Symbols, ReadHistory(p, s)
  PROVE  IInv'
<1> DEFINE T(ok) == [task[p][s] EXCEPT !.at = "fetch", !.fresh = ok,
                       !.known = IF ok THEN {d \in Days : history[s][d] > 0} ELSE {}]
<1>1. PICK ok \in BOOLEAN : Put(p, s, T(ok))
  BY DEF ReadHistory
<1>2. task[p][s] \in Task /\ TaskInv(task[p][s], p, s) /\ task[p][s].at = "queued"
  BY DEF IInv, Typing, ReadHistory, Admitted, At
<1>3. T(ok) \in Task
  BY <1>2 DEF Task, Stages
<1>4. TaskInv(T(ok), p, s)
  BY <1>2 DEF Task, TaskInv, Backed, Sighted, Knows, Stored
<1> QED
  BY <1>1, <1>3, <1>4, OneTask DEF ReadHistory, db, IInv, Typing, IndicatorsBacked

\* The batch is what is not believed to be stored; all of it up to the last bar is
\* then stored or in the batch.
LEMMA FetchHistoryInv ==
  ASSUME IInv, NEW p \in Passes, NEW s \in Symbols, FetchHistory(p, s)
  PROVE  IInv'
<1> DEFINE New(last)  == NewBars(task[p][s].known, last)
           Some(last) == [task[p][s] EXCEPT
                      !.at = IF job[p].update /\ New(last) # {} THEN "stamp" ELSE "compute",
                      !.known = {}, !.batch = New(last), !.upto = last]
           Fail == [task[p][s] EXCEPT !.at = "finish", !.known = {}]
<1>1. /\ task[p][s] \in Task /\ TaskInv(task[p][s], p, s) /\ task[p][s].at = "fetch"
      /\ today \in Days
  BY DEF IInv, Typing, FetchHistory, At
<1>2. ASSUME NEW last \in 1..today
      PROVE  Some(last) \in Task /\ TaskInv(Some(last), p, s)
  <2> DEFINE new == New(last)
  <2>1. new \subseteq Days /\ last \in 0..MaxDay /\ last > 0 /\ last \in Nat
    BY <1>1, TickerSyncAssumption DEF NewBars, Days
  <2>2. \A d \in 1..last : d \in new \/ Stored(s, d)
    BY <1>1 DEF NewBars, TaskInv, Knows
  <2>3. task[p][s].fresh => \A d \in new : ~Stored(s, d)
    BY <1>1, <2>1 DEF NewBars, TaskInv, Sighted, Task
  <2>4. new = {} => \A d \in 1..last : Stored(s, d)
    BY <2>2
  <2> HIDE DEF new
  <2>5. Some(last) \in Task
    BY <1>1, <2>1 DEF Task, Stages, new
  <2>6. TaskInv(Some(last), p, s)
    BY <1>1, <2>1, <2>2, <2>3, <2>4 DEF Task, TaskInv, Backed, Sighted, Knows, new
  <2> QED BY <2>5, <2>6
<1>3. Fail \in Task
  BY <1>1 DEF Task, Stages
<1>5. TaskInv(Fail, p, s)
  BY <1>1 DEF Task, TaskInv, Backed, Sighted, Knows
<1>6. (\E last \in 1..today : Put(p, s, Some(last))) \/ Put(p, s, Fail)
  BY DEF FetchHistory
<1>7. indicators' \in [Symbols -> SUBSET Days] /\ IndicatorsBacked'
  BY DEF FetchHistory, db, IInv, Typing, IndicatorsBacked
<1>8. UNCHANGED <<today, job, history>>
  BY DEF FetchHistory, db
<1> HIDE DEF Some, Fail
<1> QED BY <1>2, <1>3, <1>5, <1>6, <1>7, <1>8, OneTask

\* A task that is only moved: what a save of its control does, and more.
LEMMA MoveInv ==
  ASSUME IInv, NEW p \in Passes, NEW s \in Symbols, NEW stage \in Stages,
         Move(p, s, stage),
         TaskInv([task[p][s] EXCEPT !.at = stage], p, s),
         UNCHANGED <<today, job, history, indicators>>
  PROVE  IInv'
<1>0. task[p][s] \in Task
  BY DEF IInv, Typing
<1>1. [task[p][s] EXCEPT !.at = stage] \in Task
  BY <1>0 DEF Task
<1>2. indicators' \in [Symbols -> SUBSET Days] /\ IndicatorsBacked'
  BY DEF IInv, Typing, IndicatorsBacked
<1> QED BY <1>1, <1>2, OneTask DEF Move

\* Control stamped, on to the insert; or failed, and then nothing is claimed.
LEMMA StampHistoryInv ==
  ASSUME IInv, NEW p \in Passes, NEW s \in Symbols, StampHistory(p, s)
  PROVE  IInv'
<1>1. task[p][s] \in Task /\ TaskInv(task[p][s], p, s) /\ task[p][s].at = "stamp"
  BY DEF IInv, Typing, StampHistory, At
<1>2. Move(p, s, "insert") \/ Move(p, s, "err")
  BY DEF StampHistory, SaveControl
<1>3. TaskInv([task[p][s] EXCEPT !.at = "insert"], p, s)
  BY <1>1 DEF Task, TaskInv, Backed, Sighted, Knows
<1>4. TaskInv([task[p][s] EXCEPT !.at = "err"], p, s)
  BY <1>1 DEF Task, TaskInv, Backed, Sighted, Knows
<1> QED BY <1>2, <1>3, <1>4, MoveInv DEF StampHistory, Stages, Waiting

\* Stored are the days the task claimed, or it fails; the bars of the others stay,
\* and the tasks that knew the history before are not fresh any more.
LEMMA InsertHistoryInv ==
  ASSUME IInv, NEW p \in Passes, NEW s \in Symbols, InsertHistory(p, s)
  PROVE  IInv'
<1>1. PICK stored \in SUBSET task[p][s].batch :
        /\ history' = [history EXCEPT ![s] =
                         [d \in Days |-> @[d] + (IF d \in stored THEN 1 ELSE 0)]]
        /\ \E next \in {InsertFailed}
                         \cup (IF stored = task[p][s].batch THEN {"compute"} ELSE {}) :
             task' = [q \in Passes |->
               IF q = p THEN [task[p] EXCEPT ![s].at = next, ![s].batch = {},
                                             ![s].fresh = TRUE]
               ELSE IF stored # {} /\ task[q][s].at \in {"fetch", "stamp", "insert"}
                    THEN [task[q] EXCEPT ![s].fresh = FALSE] ELSE task[q]]
  BY DEF InsertHistory
<1>2. PICK next \in {"err", "compute"} :
        /\ next = "compute" => stored = task[p][s].batch
        /\ task' = [q \in Passes |->
             IF q = p THEN [task[p] EXCEPT ![s].at = next, ![s].batch = {},
                                           ![s].fresh = TRUE]
             ELSE IF stored # {} /\ task[q][s].at \in {"fetch", "stamp", "insert"}
                  THEN [task[q] EXCEPT ![s].fresh = FALSE] ELSE task[q]]
  BY <1>1 DEF InsertFailed
<1>3. /\ Typing /\ UNCHANGED <<today, job, indicators>>
      /\ task[p][s].at = "insert" /\ task[p][s] \in Task
      /\ TaskInv(task[p][s], p, s)
  BY DEF IInv, Typing, InsertHistory, At
<1>4. /\ history' \in [Symbols -> [Days -> Nat]]
      /\ \A r \in Symbols, d \in Days :
           history'[r][d] = history[r][d] + (IF r = s /\ d \in stored THEN 1 ELSE 0)
  BY <1>1, <1>3 DEF Typing
<1>5. \A r \in Symbols, d \in Days :
        /\ Stored(r, d) => Stored(r, d)'
        /\ r = s /\ d \in stored => Stored(r, d)'
        /\ ~(r = s /\ d \in stored) => (Stored(r, d) <=> Stored(r, d)')
  BY <1>3, <1>4 DEF Typing, Stored
<1>6. task' \in [Passes -> [Symbols -> Task]]
  <2>1. ASSUME NEW q \in Passes PROVE task'[q] \in [Symbols -> Task]
    <3>1. task[q] \in [Symbols -> Task] /\ task[q][s] \in Task
      BY <1>3 DEF Typing
    <3>2. /\ [task[q][s] EXCEPT !.at = next, !.batch = {}, !.fresh = TRUE] \in Task
          /\ [task[q][s] EXCEPT !.fresh = FALSE] \in Task
      BY <3>1 DEF Task, Stages, Waiting
    <3>3. CASE q = p
      <4>1. task'[q] = [task[q] EXCEPT ![s] =
                         [task[q][s] EXCEPT !.at = next, !.batch = {}, !.fresh = TRUE]]
        BY <1>2, <3>1, <3>3 DEF Task
      <4> QED BY <3>1, <3>2, <4>1
    <3>4. CASE q # p
      <4>1. \/ task'[q] = task[q]
            \/ task'[q] = [task[q] EXCEPT ![s] = [task[q][s] EXCEPT !.fresh = FALSE]]
        BY <1>2, <3>4
      <4> QED BY <3>1, <3>2, <4>1
    <3> QED BY <3>3, <3>4
  <2> QED BY <1>2, <2>1
<1>7. ASSUME NEW q \in Passes, NEW r \in Symbols
      PROVE  TaskInv(task[q][r], q, r)'
  <2>1. TaskInv(task[q][r], q, r) /\ task[q][r] \in Task
    BY <1>3 DEF IInv, Typing
  <2>2. CASE q = p /\ r = s
    <3>1. /\ task'[q][r].at = next /\ task'[q][r].batch = {}
          /\ task'[q][r].upto = task[p][s].upto
      BY <1>2, <1>3, <2>2 DEF Typing, Task
    <3>2. next = "compute" => \A d \in 1..task[p][s].upto : Stored(s, d)'
      <4>1. \A d \in 1..task[p][s].upto : d \in Days
        BY <1>3, TickerSyncAssumption DEF Task, Days
      <4> QED BY <1>2, <1>3, <1>5, <4>1 DEF TaskInv, Backed
    <3> QED
      BY <1>2, <1>3, <2>2, <3>1, <3>2 DEF TaskInv, Backed, Sighted, Knows, Prices
  <2>3. CASE ~(q = p /\ r = s)
    <3>1. /\ task'[q][r].at = task[q][r].at /\ task'[q][r].upto = task[q][r].upto
          /\ task'[q][r].known = task[q][r].known
          /\ task'[q][r].batch = task[q][r].batch
          /\ task'[q][r].fresh =>
               /\ task[q][r].fresh
               /\ ~(r = s /\ stored # {} /\ task[q][r].at \in {"fetch", "stamp", "insert"})
      BY <1>2, <1>3, <2>3, <2>1 DEF Typing, Task
    <3>2. \A d \in 1..task[q][r].upto : d \in Days
      BY <2>1, TickerSyncAssumption DEF Task, Days
    <3>3. task[q][r].known \subseteq Days /\ task[q][r].batch \subseteq Days
      BY <2>1 DEF Task
    <3>4. Backed(task[q][r], q, r)'
      BY <1>3, <1>5, <2>1, <3>1, <3>2 DEF TaskInv, Backed, Prices
    <3>5. Sighted(task[q][r], r)'
      BY <1>5, <2>1, <3>1, <3>3 DEF TaskInv, Sighted
    <3>6. Knows(task[q][r], r)'
      BY <1>5, <2>1, <3>1, <3>3 DEF TaskInv, Knows
    <3> QED BY <3>4, <3>5, <3>6 DEF TaskInv
  <2> QED BY <2>2, <2>3
<1>8. IndicatorsBacked'
  BY <1>3, <1>5 DEF IInv, Typing, IndicatorsBacked, Stored
<1> QED BY <1>3, <1>4, <1>6, <1>7, <1>8 DEF IInv, Typing

\* What is computed is for days that have a bar, if any of it is to be stored.
LEMMA ComputeIndicatorsInv ==
  ASSUME IInv, NEW p \in Passes, NEW s \in Symbols, ComputeIndicators(p, s)
  PROVE  IInv'
<1> DEFINE T(new) == [task[p][s] EXCEPT
                        !.at = IF job[p].update THEN "mark" ELSE "finish", !.batch = new]
           all == 1..task[p][s].upto
           Chosen(old) == IF all \subseteq old THEN {task[p][s].upto} ELSE all \ old
           Fail == [task[p][s] EXCEPT !.at = "finish", !.batch = {}]
<1>1. task[p][s] \in Task /\ TaskInv(task[p][s], p, s) /\ task[p][s].at = "compute"
  BY DEF IInv, Typing, ComputeIndicators, At
<1>2. (\E old \in {indicators[s], {}} : Put(p, s, T(Chosen(old)))) \/ Put(p, s, Fail)
  BY DEF ComputeIndicators
<1>3. \A old : Chosen(old) \subseteq all /\ all \subseteq Days
  BY <1>1, TickerSyncAssumption DEF TaskInv, Backed, Task, Days
<1> HIDE DEF Chosen
<1>4. \A old : T(Chosen(old)) \in Task
  BY <1>1, <1>3 DEF Task, Stages
<1>5. \A old : TaskInv(T(Chosen(old)), p, s)
  BY <1>1, <1>3 DEF Task, TaskInv, Backed, Sighted, Knows
<1>6. indicators' \in [Symbols -> SUBSET Days] /\ IndicatorsBacked'
  BY DEF ComputeIndicators, db, IInv, Typing, IndicatorsBacked
<1>7. Fail \in Task
  BY <1>1 DEF Task, Stages
<1>8. TaskInv(Fail, p, s)
  BY <1>1 DEF Task, TaskInv, Backed, Sighted, Knows
<1>9. UNCHANGED <<today, job, history>>
  BY DEF ComputeIndicators, db
<1> HIDE DEF T, Fail
<1> QED BY <1>2, <1>4, <1>5, <1>6, <1>7, <1>8, <1>9, OneTask

\* Control stamped, on to the indicators' write; or failed.
LEMMA MarkIndicatorsInv ==
  ASSUME IInv, NEW p \in Passes, NEW s \in Symbols, MarkIndicators(p, s)
  PROVE  IInv'
<1>1. task[p][s] \in Task /\ TaskInv(task[p][s], p, s) /\ task[p][s].at = "mark"
  BY DEF IInv, Typing, MarkIndicators, At
<1>2. Move(p, s, "upsert") \/ Move(p, s, "err")
  BY DEF MarkIndicators, SaveControl
<1>3. TaskInv([task[p][s] EXCEPT !.at = "upsert"], p, s)
  BY <1>1 DEF Task, TaskInv, Backed, Sighted, Knows
<1>4. TaskInv([task[p][s] EXCEPT !.at = "err"], p, s)
  BY <1>1 DEF Task, TaskInv, Backed, Sighted, Knows
<1> QED BY <1>2, <1>3, <1>4, MoveInv DEF MarkIndicators, Stages, Waiting

\* The indicators stored are of the days of the batch, which all have a bar.
LEMMA UpsertIndicatorsInv ==
  ASSUME IInv, NEW p \in Passes, NEW s \in Symbols, UpsertIndicators(p, s)
  PROVE  IInv'
<1> DEFINE T(next) == [task[p][s] EXCEPT !.at = next, !.batch = {}]
<1>1. task[p][s] \in Task /\ TaskInv(task[p][s], p, s) /\ task[p][s].at = "upsert"
  BY DEF IInv, Typing, UpsertIndicators, At
<1>2. PICK stored \in SUBSET task[p][s].batch :
        /\ indicators' = [indicators EXCEPT ![s] = @ \cup stored]
        /\ \E next \in {"err", "finish"} : Put(p, s, T(next))
  BY DEF UpsertIndicators, UpsertFailed
<1>3. PICK next \in {"err", "finish"} : Put(p, s, T(next))
  BY <1>2
<1>4. T(next) \in Task
  BY <1>1, <1>3 DEF Task, Stages, Waiting
<1>5. TaskInv(T(next), p, s)
  BY <1>1, <1>3 DEF Task, TaskInv, Backed, Sighted, Knows
<1>6. stored \subseteq Days /\ \A d \in stored : Stored(s, d)
  BY <1>1, <1>2 DEF TaskInv, Backed, Task
<1>7. indicators' \in [Symbols -> SUBSET Days]
  BY <1>2, <1>6 DEF IInv, Typing
<1>8. history' = history
  BY DEF UpsertIndicators
<1>9. IndicatorsBacked'
  <2>1. ASSUME NEW r \in Symbols, NEW d \in indicators'[r] PROVE history[r][d] > 0
    <3>1. d \in indicators[r] \/ (r = s /\ d \in stored)
      BY <1>2 DEF IInv, Typing
    <3> QED BY <3>1, <1>6 DEF IInv, IndicatorsBacked, Stored
  <2> QED BY <2>1, <1>8 DEF IndicatorsBacked
<1> HIDE DEF T
<1> QED BY <1>3, <1>4, <1>5, <1>7, <1>8, <1>9, OneTask DEF UpsertIndicators

\* The ticker is built from what the task has fetched, or the task fails.
LEMMA UpdateTickerInv ==
  ASSUME IInv, NEW p \in Passes, NEW s \in Symbols, UpdateTicker(p, s)
  PROVE  IInv'
<1>1. task[p][s] \in Task /\ TaskInv(task[p][s], p, s) /\ task[p][s].at = "finish"
  BY DEF IInv, Typing, UpdateTicker, At
<1>2. Move(p, s, "ok") \/ Move(p, s, "err")
  BY DEF UpdateTicker
<1>3. TaskInv([task[p][s] EXCEPT !.at = "ok"], p, s)
  BY <1>1 DEF Task, TaskInv, Backed, Sighted, Knows
<1>4. TaskInv([task[p][s] EXCEPT !.at = "err"], p, s)
  BY <1>1 DEF Task, TaskInv, Backed, Sighted, Knows
<1> QED BY <1>2, <1>3, <1>4, MoveInv DEF UpdateTicker, db, Stages, Waiting

\* A task of a sentiments pass claims nothing of the history, wherever it is.
LEMMA FeedInv ==
  ASSUME IInv, NEW p \in Passes, NEW s \in Symbols, ~Prices(p),
         NEW t \in Task, Put(p, s, t), t.at \in {"stampFeed", "store", "ok"},
         UNCHANGED <<today, job, history, indicators>>
  PROVE  IInv'
<1>1. TaskInv(t, p, s)
  BY DEF TaskInv, Backed, Sighted, Knows
<1>2. indicators' \in [Symbols -> SUBSET Days] /\ IndicatorsBacked'
  BY DEF IInv, Typing, IndicatorsBacked
<1> QED BY <1>1, <1>2, OneTask

\* The feed is fetched, or fails, or is recent.
LEMMA FetchFeedInv ==
  ASSUME IInv, NEW p \in Passes, NEW s \in Symbols, FetchFeed(p, s)
  PROVE  IInv'
<1> DEFINE Some(f) == [task[p][s] EXCEPT
                      !.at = IF job[p].update /\ Fetched(p, s, f) # {} THEN "stampFeed" ELSE "ok",
                      !.batch = Fetched(p, s, f), !.missed = Missed(p, s, f), !.upto = today]
           Fail == [task[p][s] EXCEPT !.at = FeedFailed, !.upto = today]
           Skip == [task[p][s] EXCEPT !.at = "ok"]
<1>1. task[p][s] \in Task /\ today \in Days
  BY DEF IInv, Typing
<1>2. today \in 0..MaxDay
  BY <1>1, TickerSyncAssumption DEF Days
<1>3. ASSUME NEW f \in Begins PROVE Some(f) \in Task /\ Some(f).at \in {"stampFeed", "store", "ok"}
  <2> DEFINE new == Fetched(p, s, f)
             old == Missed(p, s, f)
  <2>1. new \subseteq Days /\ old \subseteq Days
    BY <1>1, TickerSyncAssumption DEF Fetched, Missed, Begins, Days
  <2> HIDE DEF new, old
  <2>2. [task[p][s] EXCEPT !.at = IF job[p].update /\ new # {} THEN "stampFeed" ELSE "ok",
                           !.batch = new, !.missed = old, !.upto = today] \in Task
    BY <1>1, <1>2, <2>1 DEF Task, Stages, Waiting
  <2>3. Some(f).at \in {"stampFeed", "store", "ok"}
    BY <1>1 DEF Task
  <2> QED BY <2>2, <2>3 DEF new, old
<1>4. Fail \in Task /\ Fail.at = "ok" /\ Skip \in Task /\ Skip.at = "ok"
  BY <1>1, <1>2 DEF Task, Stages, Waiting, FeedFailed
<1>5. (\E f \in Begins : Put(p, s, Some(f))) \/ Put(p, s, Fail) \/ Put(p, s, Skip)
  BY DEF FetchFeed, Move
<1>6. ~Prices(p) /\ UNCHANGED <<today, job, history, indicators>>
  BY DEF FetchFeed, Prices, db
<1> HIDE DEF Some, Fail, Skip
<1> QED BY <1>3, <1>4, <1>5, <1>6, FeedInv

\* The stamp and the store of a feed: the task is not of a pass that prices.
LEMMA StampFeedInv ==
  ASSUME IInv, NEW p \in Passes, NEW s \in Symbols, StampFeed(p, s)
  PROVE  IInv'
<1> DEFINE T(stage) == [task[p][s] EXCEPT !.at = stage]
<1>1. task[p][s] \in Task /\ TaskInv(task[p][s], p, s) /\ task[p][s].at = "stampFeed"
  BY DEF IInv, Typing, StampFeed, At
<1>2. PICK stage \in {"store", "ok"} : Put(p, s, T(stage))
  BY DEF StampFeed, Move
<1>3. T(stage) \in Task /\ T(stage).at = stage
  BY <1>1, <1>2 DEF Task, Stages, Waiting
<1>4. ~Prices(p)
  BY <1>1 DEF TaskInv, Backed
<1> HIDE DEF T
<1> QED BY <1>2, <1>3, <1>4, FeedInv DEF StampFeed

LEMMA StoreFeedInv ==
  ASSUME IInv, NEW p \in Passes, NEW s \in Symbols, StoreFeed(p, s)
  PROVE  IInv'
<1> DEFINE t == [task[p][s] EXCEPT !.at = "ok", !.batch = {}]
<1>1. task[p][s] \in Task /\ TaskInv(task[p][s], p, s) /\ task[p][s].at = "store"
  BY DEF IInv, Typing, StoreFeed, At
<1>2. t \in Task /\ t.at = "ok"
  BY <1>1 DEF Task, Stages, Waiting
<1>3. ~Prices(p)
  BY <1>1 DEF TaskInv, Backed
<1>4. Put(p, s, t)
  BY DEF StoreFeed
<1> HIDE DEF t
<1> QED BY <1>2, <1>3, <1>4, FeedInv DEF StoreFeed

\* A pass that starts its tasks: none of them has done anything.
LEMMA SpawnInv ==
  ASSUME IInv, NEW p \in Passes, NEW ts, NEW cs, Spawn(p, ts, cs),
         UNCHANGED <<today, db, job>>
  PROVE  IInv'
<1> DEFINE Queued == [NoTask EXCEPT !.at = "queued"]
<1>1. Queued \in Task /\ NoTask \in Task
  <2>1. NoTask \in Task
    BY TickerSyncAssumption DEF Task, NoTask, Stages, Waiting
  <2> QED BY <2>1 DEF Task, Stages, Waiting
<1>2. ASSUME NEW q \in Passes, NEW r \in Symbols
      PROVE  IF q = p THEN task'[q][r] \in {Queued, NoTask} ELSE task'[q] = task[q]
  BY DEF Spawn, IInv, Typing
<1>3. task' \in [Passes -> [Symbols -> Task]]
  <2> HIDE DEF Queued
  <2>1. ASSUME NEW q \in Passes PROVE task'[q] \in [Symbols -> Task]
    <3>1. CASE q = p
      <4> DEFINE each == [s \in Symbols |-> IF s \in DOMAIN ts \cap DOMAIN cs
                                            THEN Queued ELSE NoTask]
      <4>1. each \in [Symbols -> Task]
        BY <1>1
      <4>2. task'[q] = each
        BY <3>1 DEF Spawn, IInv, Typing, Queued
      <4> QED BY <4>1, <4>2
    <3>2. CASE q # p
      <4>1. task'[q] = task[q]
        BY <3>2 DEF Spawn, IInv, Typing
      <4> QED BY <4>1 DEF IInv, Typing
    <3> QED BY <3>1, <3>2
  <2>2. task' = [q \in Passes |-> task'[q]]
    BY DEF Spawn, IInv, Typing
  <2> QED BY <2>1, <2>2
<1>4. ASSUME NEW q \in Passes, NEW r \in Symbols PROVE TaskInv(task[q][r], q, r)'
  <2>1. CASE q = p
    <3>1. task'[q][r] \in {Queued, NoTask}
      BY <1>2, <2>1
    <3> QED BY <3>1, TickerSyncAssumption DEF NoTask, TaskInv, Backed, Sighted, Knows
  <2>2. CASE q # p
    <3>1. task'[q][r] = task[q][r] /\ TaskInv(task[q][r], q, r)
      BY <1>2, <2>2 DEF IInv
    <3> QED BY <3>1 DEF TaskInv, Backed, Sighted, Knows, Stored, Prices, db
  <2> QED BY <2>1, <2>2
<1>5. Typing' /\ IndicatorsBacked'
  BY <1>3 DEF IInv, Typing, IndicatorsBacked, db
<1> QED BY <1>4, <1>5 DEF IInv

-----------------------------------------------------------------------------

\* Every step of the passes, or of time, preserves the invariant.
LEMMA StepInv == ASSUME IInv, [Next]_vars PROVE IInv'
<1>1. today \in Days
  BY DEF IInv, Typing
<1>2. CASE Publish
  BY <1>1, <1>2, Frame, TickerSyncAssumption DEF Publish, db, Days
<1>3. CASE UNCHANGED vars
  BY <1>1, <1>3, Frame DEF vars
<1>4. ASSUME NEW p \in Passes, Start(p) PROVE IInv'
  <2>1. CASE ReadSeeds(p)
    BY <2>1, SpawnInv DEF ReadSeeds
  <2>2. CASE ReadTickers(p)
    BY <1>1, <2>2, Frame DEF ReadTickers, db
  <2> QED BY <1>4, <2>1, <2>2 DEF Start
<1>5. ASSUME NEW p \in Passes, NEW s \in Symbols, TaskStep(p, s) PROVE IInv'
  BY <1>5, ReadHistoryInv, FetchHistoryInv, StampHistoryInv, InsertHistoryInv,
     ComputeIndicatorsInv, MarkIndicatorsInv, UpsertIndicatorsInv, UpdateTickerInv,
     FetchFeedInv, StampFeedInv, StoreFeedInv DEF TaskStep
<1>6. ASSUME NEW p \in Passes, PassStep(p) PROVE IInv'
  <2>1. CASE ReadControls(p)
    BY <2>1, SpawnInv DEF ReadControls
  <2>2. CASE ReadFails(p) \/ Join(p) \/ Quote(p)
    BY <1>1, <2>2, Frame DEF ReadFails, Join, Quote, db
  <2>3. CASE SaveUpdated(p) \/ SaveSeeds(p) \/ SaveQuotes(p)
    BY <1>1, <2>3, Frame DEF SaveUpdated, SaveSeeds, SaveQuotes, SaveTickers
  <2>4. CASE SaveControls(p)
    BY <1>1, <2>4, Frame DEF SaveControls
  <2> QED BY <1>5, <1>6, <2>1, <2>2, <2>3, <2>4 DEF PassStep
<1>7. ASSUME NEW p \in Passes, Kill(p) PROVE IInv'
  BY <1>1, <1>7, Frame DEF Kill
<1> QED BY <1>2, <1>3, <1>4, <1>6, <1>7 DEF Next

\* The invariant holds in every reachable state.
LEMMA Invariant == Spec => []IInv
BY InitInv, StepInv, PTL DEF Spec

\* A symbol whose update has succeeded has every bar up to the last one fetched,
\* whatever other passes inserted, failed to insert or were killed inserting
\* (update_ticker: the days stored, the bars fetched, the rest inserted or an error).
THEOREM Healed == Spec => []HistoryHealed
<1>1. IInv => HistoryHealed
  BY DEF IInv, TaskInv, Backed, Stored, HistoryHealed, Updated
<1> QED BY <1>1, Invariant, PTL

\* No indicator is stored for a day without a bar: update_ticker inserts the bars
\* first, and an insert that fails ends the symbol's update.
THEOREM Backing == Spec => []IndicatorsBacked
<1>1. IInv => IndicatorsBacked
  BY DEF IInv
<1> QED BY <1>1, Invariant, PTL

\* A bar is stored a second time only by a task that could not read the history, or
\* whose reading another pass's insert has overtaken (the reads and the insert of
\* update_ticker are not one transaction).
THEOREM Blind == Spec => DuplicatesOnlyBlind
<1> DEFINE Dup == \A s \in Symbols, d \in Days :
                    history'[s][d] > history[s][d] /\ history'[s][d] > 1 =>
                      \E p \in Passes : /\ At(p, s, "insert") /\ task'[p][s].at # "insert"
                                        /\ ~task[p][s].fresh
<1>1. ASSUME IInv, Next PROVE Dup \/ UNCHANGED history
  <2>1. ASSUME NEW p \in Passes, NEW s \in Symbols, InsertHistory(p, s) PROVE Dup
    <3>1. PICK stored \in SUBSET task[p][s].batch :
            history' = [history EXCEPT ![s] =
                         [d \in Days |-> @[d] + (IF d \in stored THEN 1 ELSE 0)]]
      BY <2>1 DEF InsertHistory
    <3>2. At(p, s, "insert") /\ task'[p][s].at # "insert"
      BY <1>1, <2>1 DEF InsertHistory, InsertFailed, At, IInv, Typing, Task
    <3>3. TaskInv(task[p][s], p, s) /\ task[p][s] \in Task
      BY <1>1 DEF IInv, Typing
    <3>4. ASSUME NEW r \in Symbols, NEW d \in Days,
                 history'[r][d] > history[r][d], history'[r][d] > 1
          PROVE  r = s /\ ~task[p][s].fresh
      <4>1. history[r][d] \in Nat
        BY <1>1 DEF IInv, Typing
      <4>2. history'[r][d] = history[r][d] + (IF r = s /\ d \in stored THEN 1 ELSE 0)
        BY <1>1, <3>1 DEF IInv, Typing
      <4>3. r = s /\ d \in stored /\ history[s][d] > 0
        BY <3>4, <4>1, <4>2
      <4> QED BY <3>1, <3>2, <3>3, <4>3 DEF TaskInv, Sighted, Stored, At
    <3> QED BY <3>2, <3>4
  <2>2. ASSUME NEW p \in Passes, NEW s \in Symbols, TaskStep(p, s)
        PROVE  Dup \/ UNCHANGED history
    BY <2>1, <2>2 DEF TaskStep, ReadHistory, FetchHistory, StampHistory, ComputeIndicators,
       MarkIndicators, UpsertIndicators, UpdateTicker, FetchFeed, StampFeed, StoreFeed, db
  <2>3. ASSUME NEW p \in Passes, Start(p) \/ PassStep(p) \/ Kill(p)
        PROVE  Dup \/ UNCHANGED history
    BY <2>2, <2>3 DEF Start, ReadSeeds, ReadTickers, PassStep, ReadControls, ReadFails,
       Join, SaveUpdated, SaveControls, SaveSeeds, Quote, SaveQuotes, SaveTickers, Kill, db
  <2>4. CASE Publish
    BY <2>4 DEF Publish, db
  <2> QED BY <1>1, <2>3, <2>4 DEF Next
<1>2. ASSUME IInv, UNCHANGED history PROVE Dup
  <2>1. ASSUME NEW s \in Symbols, NEW d \in Days PROVE history[s][d] \in Nat
    BY <1>2 DEF IInv, Typing
  <2> QED BY <1>2, <2>1
<1>3. IInv /\ [Next]_vars => [Dup]_vars
  BY <1>1, <1>2
<1> QED BY <1>3, Invariant, PTL DEF Spec, DuplicatesOnlyBlind

-----------------------------------------------------------------------------
(* The documents the passes copy, work on and save back.                   *)

Documents(S) == UNION {[T -> S] : T \in SUBSET Symbols}

Dated == [date : 0..MaxDay, signals : {0} \cup {Latest(D) : D \in SUBSET Days}]

Labels == {"idle", "controls", "working", "quoting", "tickers", "saveControls",
           "seeds", "quotes"} \cup Ended

CopyTyping ==
  /\ job \in [Passes -> Job]
  /\ pc \in [Passes -> Labels]
  /\ tickers \in Documents(Dated)
  /\ controls \in Documents(0..MaxDay)
  /\ mine \in [Passes -> [tickers : Documents(Dated), controls : Documents(0..MaxDay)]]
  /\ sentiments \in [Symbols -> SUBSET Days]
  /\ lost \in [Symbols -> SUBSET Days]
  /\ stale \in [Passes -> SUBSET Symbols]

\* What a collection is made of, and what makes one.
LEMMA DocumentsOf ==
  ASSUME NEW S, NEW f \in Documents(S)
  PROVE  DOMAIN f \subseteq Symbols /\ f \in [DOMAIN f -> S]
<1>1. PICK T \in SUBSET Symbols : f \in [T -> S]
  BY DEF Documents
<1> QED BY <1>1

LEMMA MakeDocuments ==
  ASSUME NEW S, NEW T \in SUBSET Symbols, NEW f \in [T -> S]
  PROVE  f \in Documents(S)
BY DEF Documents

\* Documents replaced in a collection, and a collection restricted.
LEMMA ReplaceDocuments ==
  ASSUME NEW S, NEW f \in Documents(S), NEW g \in Documents(S)
  PROVE  /\ Replace(f, g) \in Documents(S)
         /\ DOMAIN Replace(f, g) = DOMAIN f \cup DOMAIN g
         /\ \A s \in DOMAIN f \cup DOMAIN g :
              Replace(f, g)[s] = IF s \in DOMAIN g THEN g[s] ELSE f[s]
<1>1. /\ DOMAIN f \cup DOMAIN g \in SUBSET Symbols
      /\ f \in [DOMAIN f -> S] /\ g \in [DOMAIN g -> S]
  BY DocumentsOf
<1>2. Replace(f, g) \in [DOMAIN f \cup DOMAIN g -> S]
  BY <1>1 DEF Replace
<1> QED BY <1>1, <1>2, MakeDocuments DEF Replace

LEMMA RestrictDocuments ==
  ASSUME NEW S, NEW f \in Documents(S), NEW T \in SUBSET DOMAIN f
  PROVE  /\ Restrict(f, T) \in Documents(S)
         /\ DOMAIN Restrict(f, T) = T
         /\ \A s \in T : Restrict(f, T)[s] = f[s]
<1>1. T \in SUBSET Symbols /\ f \in [DOMAIN f -> S]
  BY DocumentsOf
<1>2. Restrict(f, T) \in [T -> S]
  BY <1>1 DEF Restrict
<1> QED BY <1>1, <1>2, MakeDocuments DEF Restrict

\* What a pass reads when it starts: seeds, stored tickers and stored controls.
LEMMA ReadDocuments ==
  ASSUME CopyTyping, NEW p \in Passes
  PROVE  /\ [s \in job[p].symbols |-> Seed] \in Documents(Dated)
         /\ Restrict(tickers, DOMAIN tickers \cap job[p].symbols) \in Documents(Dated)
         /\ StoredControls(p) \in Documents(0..MaxDay)
         /\ SeedControls(p) \in Documents(0..MaxDay)
<1>1. job[p].symbols \in SUBSET Symbols
  BY DEF CopyTyping, Job
<1>2. Seed \in Dated /\ 0 \in 0..MaxDay
  BY TickerSyncAssumption DEF Seed, Dated
<1>3. [s \in job[p].symbols |-> Seed] \in Documents(Dated)
  BY <1>1, <1>2, MakeDocuments
<1>4. [s \in job[p].symbols |-> 0] \in Documents(0..MaxDay)
  BY <1>1, <1>2, MakeDocuments
<1>5. tickers \in Documents(Dated) /\ controls \in Documents(0..MaxDay)
  BY DEF CopyTyping
<1>6. Restrict(tickers, DOMAIN tickers \cap job[p].symbols) \in Documents(Dated)
  BY <1>5, RestrictDocuments
<1>7. StoredControls(p) \in Documents(0..MaxDay)
  BY <1>5, RestrictDocuments DEF StoredControls
<1>8. SeedControls(p) \in Documents(0..MaxDay)
  BY <1>4, <1>7, ReplaceDocuments DEF SeedControls
<1> QED BY <1>3, <1>6, <1>7, <1>8

\* A pass at work has the ticker and the control of every symbol it has a task for;
\* none has a task before it has read both.
Scoped ==
  \A p \in Passes, s \in Symbols : task[p][s].at # "none" =>
    /\ s \in DOMAIN mine[p].tickers /\ s \in DOMAIN mine[p].controls
    /\ pc[p] \notin {"idle", "controls", "quoting"}

\* A task moves at a pass that works, and the others keep what they have, but for
\* what they believe of the history.
LEMMA OneTaskMoves ==
  ASSUME IInv, NEW p \in Passes, NEW s \in Symbols, TaskStep(p, s)
  PROVE  /\ pc[p] = "working" /\ task[p][s].at # "none"
         /\ \A q \in Passes, r \in Symbols : q # p \/ r # s =>
              /\ task'[q][r].at = task[q][r].at /\ task'[q][r].batch = task[q][r].batch
              /\ task'[q][r].upto = task[q][r].upto /\ task'[q][r].missed = task[q][r].missed
         /\ UNCHANGED <<today, tickers, job, pc, stale>>
<1>1. task \in [Passes -> [Symbols -> Task]]
  BY DEF IInv, Typing
<1>2. CASE InsertHistory(p, s)
  <2>1. PICK stored \in SUBSET task[p][s].batch :
         \E next \in {InsertFailed}
                       \cup (IF stored = task[p][s].batch THEN {"compute"} ELSE {}) :
            task' = [q \in Passes |->
              IF q = p THEN [task[p] EXCEPT ![s].at = next, ![s].batch = {},
                                            ![s].fresh = TRUE]
              ELSE IF stored # {} /\ task[q][s].at \in {"fetch", "stamp", "insert"}
                   THEN [task[q] EXCEPT ![s].fresh = FALSE] ELSE task[q]]
    BY <1>2 DEF InsertHistory
  <2>2. ASSUME NEW q \in Passes, NEW r \in Symbols, q # p \/ r # s
        PROVE  /\ task'[q][r].at = task[q][r].at /\ task'[q][r].batch = task[q][r].batch
               /\ task'[q][r].upto = task[q][r].upto /\ task'[q][r].missed = task[q][r].missed
    BY <1>1, <2>1, <2>2 DEF Task
  <2> QED BY <1>2, <2>2 DEF InsertHistory, At
<1>3. CASE ~InsertHistory(p, s)
  <2>1. /\ \E stage \in {"queued", "fetch", "stamp", "compute", "mark", "upsert", "finish",
                         "stampFeed", "store"} : At(p, s, stage)
        /\ \E t : Put(p, s, t)
        /\ UNCHANGED <<today, tickers, job, pc, stale>>
    BY <1>3 DEF TaskStep, ReadHistory, FetchHistory, StampHistory, ComputeIndicators,
       MarkIndicators, UpsertIndicators, UpdateTicker, FetchFeed, StampFeed, StoreFeed,
       SaveControl, Move, Admitted, db
  <2>2. ASSUME NEW q \in Passes, NEW r \in Symbols, q # p \/ r # s
        PROVE  task'[q][r] = task[q][r]
    BY <1>1, <2>1, <2>2 DEF Put
  <2> QED BY <2>1, <2>2 DEF At
<1> QED BY <1>2, <1>3

\* A save of one control replaces that control or nothing.
LEMMA ControlReplaced ==
  ASSUME CopyTyping, NEW s \in Symbols, NEW c \in 0..MaxDay,
         controls' \in {controls, Replace(controls, [r \in {s} |-> c])}
  PROVE  /\ controls' \in Documents(0..MaxDay)
         /\ \A r \in DOMAIN controls' : \/ r \in DOMAIN controls /\ controls'[r] = controls[r]
                                        \/ r = s /\ controls'[r] = c
<1> DEFINE one   == [r \in {s} |-> c]
           saved == Replace(controls, one)
<1>1. controls' = controls \/ controls' = saved
  OBVIOUS
<1>2. controls \in Documents(0..MaxDay) /\ one \in Documents(0..MaxDay)
  BY MakeDocuments DEF CopyTyping
<1>3. DOMAIN one = {s} /\ one[s] = c
  OBVIOUS
<1> HIDE DEF one
<1>4. /\ saved \in Documents(0..MaxDay) /\ DOMAIN saved = DOMAIN controls \cup {s}
      /\ \A r \in DOMAIN saved : saved[r] = IF r = s THEN c ELSE controls[r]
  <2>1. /\ saved \in Documents(0..MaxDay) /\ DOMAIN saved = DOMAIN controls \cup DOMAIN one
        /\ \A r \in DOMAIN controls \cup DOMAIN one :
             saved[r] = IF r \in DOMAIN one THEN one[r] ELSE controls[r]
    BY <1>2, ReplaceDocuments
  <2> HIDE DEF saved
  <2> QED BY <1>3, <2>1
<1> HIDE DEF saved
<1> QED BY <1>1, <1>2, <1>4

LEMMA ControlSaved ==
  ASSUME CopyTyping, NEW p, NEW s \in Symbols, NEW c \in 0..MaxDay, NEW next,
         NEW otherwise, SaveControl(p, s, c, next, otherwise)
  PROVE  /\ controls' \in Documents(0..MaxDay)
         /\ \A r \in DOMAIN controls' : \/ r \in DOMAIN controls /\ controls'[r] = controls[r]
                                        \/ r = s /\ controls'[r] = c
<1>1. controls' \in {controls, Replace(controls, [r \in {s} |-> c])}
  BY DEF SaveControl
<1> QED BY <1>1, ControlReplaced

\* What a task does to the copies of its pass: they keep their documents, and only
\* its last step changes one of them.
LEMMA CopiesMove ==
  ASSUME IInv, CopyTyping, Scoped, NEW p \in Passes, NEW s \in Symbols, TaskStep(p, s)
  PROVE  /\ mine' \in [Passes -> [tickers : Documents(Dated),
                                  controls : Documents(0..MaxDay)]]
         /\ \A q \in Passes : /\ DOMAIN mine'[q].tickers = DOMAIN mine[q].tickers
                              /\ mine'[q].controls = mine[q].controls
         /\ \A q \in Passes, r \in Symbols : q # p \/ r # s =>
              mine'[q].tickers[r] = mine[q].tickers[r]
         /\ ~UpdateTicker(p, s) => mine'[p].tickers[s] = mine[p].tickers[s]
<1> DEFINE Copy == [tickers : Documents(Dated), controls : Documents(0..MaxDay)]
           ts == mine[p].tickers
           cs == mine[p].controls
<1>1. mine \in [Passes -> Copy] /\ mine[p] \in Copy
  BY DEF CopyTyping
<1>2. /\ ts \in Documents(Dated) /\ cs \in Documents(0..MaxDay)
      /\ s \in DOMAIN ts /\ s \in DOMAIN cs
  BY <1>1, OneTaskMoves DEF Scoped
<1>3. /\ ts \in [DOMAIN ts -> Dated] /\ cs \in [DOMAIN cs -> 0..MaxDay]
      /\ DOMAIN ts \in SUBSET Symbols /\ DOMAIN cs \in SUBSET Symbols
  BY <1>2, DocumentsOf
<1>4. CASE UpdateTicker(p, s) /\ mine' # mine
  <2> DEFINE dated == IF task[p][s].upto > 0 THEN PriceDay(task[p][s]) ELSE ts[s].date
             doc == [date |-> dated, signals |-> Latest(indicators[s])]
             new == [ts EXCEPT ![s] = doc]
  <2>1. mine' = [mine EXCEPT ![p].tickers = new]
    BY <1>1, <1>3, <1>4 DEF UpdateTicker
  <2>2. doc \in Dated
    <3>1. task[p][s] \in Task /\ indicators[s] \in SUBSET Days
      BY DEF IInv, Typing
    <3>2. ts[s] \in Dated
      BY <1>2, <1>3
    <3>3. dated \in 0..MaxDay
      BY <3>1, <3>2 DEF Task, Dated, PriceDay
    <3> QED BY <3>1, <3>3 DEF Dated
  <2> HIDE DEF doc
  <2>3. new \in [DOMAIN ts -> Dated]
    BY <1>3, <2>2
  <2>4. new \in Documents(Dated)
    BY <1>3, <2>3, MakeDocuments
  <2>5. DOMAIN new = DOMAIN ts /\ \A r \in Symbols : r # s => new[r] = ts[r]
    BY <1>3
  <2>6. /\ mine' \in [Passes -> Copy] /\ mine'[p].tickers = new
        /\ mine'[p].controls = cs /\ \A q \in Passes : q # p => mine'[q] = mine[q]
    <3> HIDE DEF new
    <3> QED BY <1>1, <2>1, <2>4
  <2> HIDE DEF new
  <2> QED BY <1>4, <2>5, <2>6
<1>5. CASE UNCHANGED mine
  BY <1>1, <1>5
<1>6. UNCHANGED mine \/ UpdateTicker(p, s)
  BY DEF TaskStep, ReadHistory, FetchHistory, StampHistory, InsertHistory,
     ComputeIndicators, MarkIndicators, UpsertIndicators, FetchFeed, StampFeed, StoreFeed
<1> QED BY <1>4, <1>5, <1>6

\* A step of a task keeps the types.
LEMMA TaskTypes ==
  ASSUME IInv, CopyTyping, Scoped, NEW p \in Passes, NEW s \in Symbols, TaskStep(p, s)
  PROVE  CopyTyping'
<1>1. UNCHANGED <<job, pc, tickers, stale>>
  BY OneTaskMoves
<1>2. mine' \in [Passes -> [tickers : Documents(Dated), controls : Documents(0..MaxDay)]]
  BY CopiesMove
<1>3. controls' \in Documents(0..MaxDay)
  <2>1. mine[p].controls \in Documents(0..MaxDay) /\ s \in DOMAIN mine[p].controls
    BY OneTaskMoves DEF CopyTyping, Scoped
  <2>2. mine[p].controls[s] \in 0..MaxDay /\ today \in 0..MaxDay
    BY <2>1, DocumentsOf, TickerSyncAssumption DEF IInv, Typing, Days
  <2>3. CASE StampHistory(p, s)
    BY <2>2, <2>3, ControlSaved DEF StampHistory
  <2>4. CASE MarkIndicators(p, s)
    BY <2>2, <2>4, ControlSaved DEF MarkIndicators
  <2>5. CASE StampFeed(p, s)
    <3>1. controls' \in {controls, Replace(controls, [r \in {s} |-> today])}
      BY <2>5 DEF StampFeed
    <3> QED BY <2>2, <3>1, ControlReplaced
  <2>6. CASE UNCHANGED controls
    BY <2>6 DEF CopyTyping
  <2> QED
    BY <2>3, <2>4, <2>5, <2>6 DEF TaskStep, ReadHistory, FetchHistory, InsertHistory,
       ComputeIndicators, UpsertIndicators, UpdateTicker, FetchFeed, StoreFeed, db
<1>4. sentiments' \in [Symbols -> SUBSET Days] /\ lost' \in [Symbols -> SUBSET Days]
  <2>0. /\ sentiments \in [Symbols -> SUBSET Days] /\ lost \in [Symbols -> SUBSET Days]
        /\ task[p][s] \in Task /\ today \in Days
    BY DEF CopyTyping, IInv, Typing
  <2>1. CASE StampFeed(p, s)
    <3> DEFINE over == Overlooked(task[p][s])
    <3>1. over \subseteq Days /\ over \cup task[p][s].batch \subseteq Days
      BY <2>0, TickerSyncAssumption DEF Overlooked, Task, Days
    <3>2. /\ sentiments' = sentiments
          /\ \/ lost' = lost
             \/ \E more \in {over, over \cup task[p][s].batch} :
                  lost' = [lost EXCEPT ![s] = @ \cup more]
      BY <2>1 DEF StampFeed, Lose
    <3> HIDE DEF over
    <3> QED BY <2>0, <3>1, <3>2
  <2>2. CASE StoreFeed(p, s)
    <3>1. PICK stored \in SUBSET task[p][s].batch :
            /\ sentiments' = [sentiments EXCEPT ![s] = @ \cup stored]
            /\ lost' = [lost EXCEPT ![s] = @ \cup (task[p][s].batch \ stored)]
      BY <2>2 DEF StoreFeed, Lose
    <3>2. stored \subseteq Days /\ task[p][s].batch \subseteq Days
      BY <2>0 DEF Task
    <3> QED BY <2>0, <3>1, <3>2
  <2>3. CASE UNCHANGED <<sentiments, lost>>
    BY <2>0, <2>3
  <2> QED
    BY <2>1, <2>2, <2>3 DEF TaskStep, ReadHistory, FetchHistory, StampHistory,
       InsertHistory, ComputeIndicators, MarkIndicators, UpsertIndicators, UpdateTicker,
       FetchFeed, db
<1> QED BY <1>1, <1>2, <1>3, <1>4 DEF CopyTyping

\* A pass that starts its tasks takes its copies with it, and each task is new.
LEMMA Spawned ==
  ASSUME IInv, CopyTyping, NEW p \in Passes, NEW ts \in Documents(Dated),
         NEW cs \in Documents(0..MaxDay), Spawn(p, ts, cs)
  PROVE  /\ mine' \in [Passes -> [tickers : Documents(Dated),
                                  controls : Documents(0..MaxDay)]]
         /\ mine'[p].tickers = ts /\ mine'[p].controls = cs
         /\ pc' \in [Passes -> Labels] /\ pc'[p] = "working"
         /\ \A q \in Passes : q # p =>
              mine'[q] = mine[q] /\ task'[q] = task[q] /\ pc'[q] = pc[q]
         /\ \A s \in Symbols :
              /\ task'[p][s].at \in {"none", "queued"} /\ task'[p][s].upto = 0
              /\ task'[p][s].at # "none" => s \in DOMAIN ts /\ s \in DOMAIN cs
<1>1. mine \in [Passes -> [tickers : Documents(Dated), controls : Documents(0..MaxDay)]]
  BY DEF CopyTyping
<1>2. /\ mine' = [mine EXCEPT ![p] = [tickers |-> ts, controls |-> cs]]
      /\ pc' = [pc EXCEPT ![p] = "working"] /\ pc \in [Passes -> Labels]
  BY DEF Spawn, Goto, CopyTyping
<1>3. /\ mine' \in [Passes -> [tickers : Documents(Dated),
                               controls : Documents(0..MaxDay)]]
      /\ mine'[p].tickers = ts /\ mine'[p].controls = cs
      /\ \A q \in Passes : q # p => mine'[q] = mine[q]
  BY <1>1, <1>2
<1>4. /\ pc' \in [Passes -> Labels] /\ pc'[p] = "working"
      /\ \A q \in Passes : q # p => pc'[q] = pc[q]
  BY <1>2 DEF Labels
<1>5. task \in [Passes -> [Symbols -> Task]]
  BY DEF IInv, Typing
<1>6. \A s \in Symbols : task'[p][s] = IF s \in DOMAIN ts \cap DOMAIN cs
                                       THEN [NoTask EXCEPT !.at = "queued"] ELSE NoTask
  BY <1>5 DEF Spawn
<1>7. \A q \in Passes : q # p => task'[q] = task[q]
  BY <1>5 DEF Spawn
<1> QED BY <1>3, <1>4, <1>6, <1>7 DEF NoTask

\* What a save of tickers leaves stored, and whose copies it makes stale.
LEMMA TickersSaved ==
  ASSUME CopyTyping, NEW p \in Passes, NEW docs \in Documents(Dated), NEW next \in Labels,
         SaveTickers(p, docs, next)
  PROVE  /\ tickers' \in Documents(Dated) /\ DOMAIN tickers \subseteq DOMAIN tickers'
         /\ pc' \in [Passes -> Labels] /\ pc'[p] \in {"failed", next}
         /\ \A q \in Passes : q # p => pc'[q] = pc[q]
         /\ stale' \in [Passes -> SUBSET Symbols] /\ stale'[p] = stale[p]
         /\ \A q \in Passes : stale[q] \subseteq stale'[q]
         /\ \A s \in DOMAIN tickers' :
              \/ s \in DOMAIN tickers /\ tickers'[s] = tickers[s]
              \/ /\ s \in DOMAIN docs /\ tickers'[s] = docs[s]
                 /\ \A q \in Passes \ {p} :
                      pc[q] \notin {"idle"} \cup Ended => s \in stale'[q]
<1>1. PICK saved \in SUBSET DOMAIN docs :
        /\ tickers' = Replace(tickers, Restrict(docs, saved))
        /\ stale' = [q \in Passes |-> IF q = p \/ pc[q] \in {"idle"} \cup Ended
                                      THEN stale[q] ELSE stale[q] \cup saved]
        /\ Goto(p, "failed") \/ Goto(p, next)
  BY DEF SaveTickers
<1> DEFINE part == Restrict(docs, saved)
<1>2. /\ part \in Documents(Dated) /\ DOMAIN part = saved
      /\ \A s \in saved : part[s] = docs[s]
  BY RestrictDocuments
<1>3. tickers \in Documents(Dated)
  BY DEF CopyTyping
<1> HIDE DEF part
<1>4. /\ tickers' \in Documents(Dated)
      /\ DOMAIN tickers' = DOMAIN tickers \cup saved
      /\ \A s \in DOMAIN tickers' : tickers'[s] = IF s \in saved THEN docs[s] ELSE tickers[s]
  <2>1. tickers' = Replace(tickers, part) /\ part \in Documents(Dated)
    BY <1>1, <1>2 DEF part
  <2>2. /\ Replace(tickers, part) \in Documents(Dated)
        /\ DOMAIN Replace(tickers, part) = DOMAIN tickers \cup DOMAIN part
        /\ \A s \in DOMAIN tickers \cup DOMAIN part :
             Replace(tickers, part)[s] = IF s \in DOMAIN part THEN part[s] ELSE tickers[s]
    BY <1>3, <2>1, ReplaceDocuments
  <2> QED BY <1>2, <2>1, <2>2
<1>5. saved \in SUBSET Symbols
  BY DocumentsOf
<1>6. /\ stale' \in [Passes -> SUBSET Symbols] /\ stale'[p] = stale[p]
      /\ \A q \in Passes : stale[q] \subseteq stale'[q]
      /\ \A q \in Passes \ {p} : pc[q] \notin {"idle"} \cup Ended => saved \subseteq stale'[q]
  BY <1>1, <1>5 DEF CopyTyping
<1>7. /\ pc' \in [Passes -> Labels] /\ pc'[p] \in {"failed", next}
      /\ \A q \in Passes : q # p => pc'[q] = pc[q]
  BY <1>1 DEF CopyTyping, Goto, Labels, Ended
<1> QED BY <1>4, <1>6, <1>7

\* The three saves of tickers: each saves the pass's copies, but that of the seeds.
LEMMA Saves ==
  ASSUME CopyTyping, Scoped, NEW p \in Passes,
         SaveUpdated(p) \/ SaveSeeds(p) \/ SaveQuotes(p)
  PROVE  \E docs \in Documents(Dated), next \in {"saveControls", "done"} :
           /\ SaveTickers(p, docs, next) /\ pc[p] \in {"tickers", "seeds", "quotes"}
           /\ \A s \in DOMAIN docs :
                IF pc[p] = "seeds" THEN docs[s] = Seed
                ELSE s \in DOMAIN mine[p].tickers /\ docs[s] = mine[p].tickers[s]
<1>1. mine[p].tickers \in Documents(Dated)
  BY DEF CopyTyping
<1>2. CASE SaveUpdated(p)
  <2> DEFINE docs == Restrict(mine[p].tickers, Succeeded(p))
  <2>1. Succeeded(p) \in SUBSET DOMAIN mine[p].tickers
    BY DEF Succeeded, Scoped
  <2>2. docs \in Documents(Dated) /\ DOMAIN docs = Succeeded(p)
        /\ \A s \in Succeeded(p) : docs[s] = mine[p].tickers[s]
    BY <1>1, <2>1, RestrictDocuments
  <2>3. SaveTickers(p, docs, "saveControls") /\ pc[p] = "tickers"
    BY <1>2 DEF SaveUpdated
  <2> HIDE DEF docs
  <2> QED BY <2>1, <2>2, <2>3
<1>3. CASE SaveSeeds(p)
  BY <1>3, ReadDocuments DEF SaveSeeds
<1>4. CASE SaveQuotes(p)
  BY <1>1, <1>4 DEF SaveQuotes
<1> QED BY <1>2, <1>3, <1>4

\* What a round of quotes makes of the copies.
LEMMA QuotesTaken ==
  ASSUME IInv, CopyTyping, NEW p \in Passes, Quote(p), mine' # mine
  PROVE  /\ mine' \in [Passes -> [tickers : Documents(Dated),
                                  controls : Documents(0..MaxDay)]]
         /\ mine'[p].controls = mine[p].controls
         /\ \A q \in Passes : q # p => mine'[q] = mine[q]
         /\ \A s \in DOMAIN mine'[p].tickers :
              /\ s \in DOMAIN mine[p].tickers
              /\ mine'[p].tickers[s].date \in {mine[p].tickers[s].date, today}
              /\ mine'[p].tickers[s].date >= mine[p].tickers[s].date
<1> DEFINE Copy == [tickers : Documents(Dated), controls : Documents(0..MaxDay)]
           ts == mine[p].tickers
<1>1. mine \in [Passes -> Copy] /\ mine[p] \in Copy /\ ts \in Documents(Dated)
  BY DEF CopyTyping
<1>2. PICK got \in SUBSET DOMAIN ts :
        mine' = [mine EXCEPT ![p].tickers = [s \in got |-> Quoted(ts[s], today)]]
  BY <1>1 DEF Quote
<1> DEFINE new == [s \in got |-> Quoted(ts[s], today)]
<1>3. got \in SUBSET Symbols /\ ts \in [DOMAIN ts -> Dated] /\ today \in 0..MaxDay
  BY <1>1, DocumentsOf, TickerSyncAssumption DEF IInv, Typing, Days
<1>4. ASSUME NEW t \in Dated
      PROVE  /\ Quoted(t, today) \in Dated /\ Quoted(t, today).date \in {t.date, today}
             /\ Quoted(t, today).date >= t.date
  BY <1>3, TickerSyncAssumption DEF Dated, Quoted
<1>5. /\ new \in [got -> Dated]
      /\ \A s \in got : /\ new[s].date \in {ts[s].date, today}
                        /\ new[s].date >= ts[s].date
  BY <1>3, <1>4
<1>6. new \in Documents(Dated) /\ DOMAIN new = got
  BY <1>3, <1>5, MakeDocuments
<1> HIDE DEF new
<1>7. mine' = [mine EXCEPT ![p].tickers = new]
  BY <1>2 DEF new
<1>8. /\ mine' \in [Passes -> Copy] /\ mine'[p].tickers = new
      /\ mine'[p].controls = mine[p].controls
      /\ \A q \in Passes : q # p => mine'[q] = mine[q]
  BY <1>1, <1>6, <1>7
<1> QED BY <1>2, <1>5, <1>6, <1>8

\* The controls of a load, or of an end-of-day pass, as they are saved back.
LEMMA ControlsSaved ==
  ASSUME CopyTyping, Scoped, NEW p \in Passes, SaveControls(p)
  PROVE  /\ controls' \in Documents(0..MaxDay)
         /\ \A r \in DOMAIN controls' :
              \/ r \in DOMAIN controls /\ controls'[r] = controls[r]
              \/ r \in DOMAIN mine[p].controls /\ controls'[r] = mine[p].controls[r]
<1>1. PICK saved \in SUBSET Succeeded(p) :
        controls' = Replace(controls, Restrict(mine[p].controls, saved))
  BY DEF SaveControls
<1> DEFINE part == Restrict(mine[p].controls, saved)
<1>2. saved \in SUBSET DOMAIN mine[p].controls
  BY DEF Succeeded, Scoped
<1>3. /\ mine[p].controls \in Documents(0..MaxDay) /\ controls \in Documents(0..MaxDay)
  BY DEF CopyTyping
<1>4. /\ part \in Documents(0..MaxDay) /\ DOMAIN part = saved
      /\ \A s \in saved : part[s] = mine[p].controls[s]
  BY <1>2, <1>3, RestrictDocuments
<1>5. controls' = Replace(controls, part)
  BY <1>1
<1> HIDE DEF part
<1>6. /\ controls' \in Documents(0..MaxDay)
      /\ DOMAIN controls' = DOMAIN controls \cup DOMAIN part
      /\ \A s \in DOMAIN controls \cup DOMAIN part :
           controls'[s] = IF s \in DOMAIN part THEN part[s] ELSE controls[s]
  BY <1>3, <1>4, <1>5, ReplaceDocuments
<1> QED BY <1>2, <1>4, <1>6

\* The steps of a pass that have no task: what they change of the copies, of the
\* database and of where the passes are.
LEMMA PassTypes ==
  ASSUME IInv, CopyTyping, Scoped, NEW p \in Passes, Start(p) \/ PassStep(p) \/ Kill(p),
         \A s \in Symbols : ~TaskStep(p, s)
  PROVE  CopyTyping' /\ Scoped'
<1>0. /\ mine \in [Passes -> [tickers : Documents(Dated), controls : Documents(0..MaxDay)]]
      /\ pc \in [Passes -> Labels]
  BY DEF CopyTyping
<1>1. ASSUME NEW ts \in Documents(Dated), NEW cs \in Documents(0..MaxDay),
             Spawn(p, ts, cs), UNCHANGED <<db, job, stale>>
      PROVE  CopyTyping' /\ Scoped'
  <2>1. CopyTyping'
    BY <1>1, Spawned DEF CopyTyping, db
  <2>2. Scoped'
    <3>1. ASSUME NEW q \in Passes, NEW s \in Symbols, task'[q][s].at # "none"
          PROVE  /\ s \in DOMAIN mine'[q].tickers /\ s \in DOMAIN mine'[q].controls
                 /\ pc'[q] \notin {"idle", "controls", "quoting"}
      <4>1. CASE q = p
        BY <1>1, <3>1, <4>1, Spawned
      <4>2. CASE q # p
        <5>1. mine'[q] = mine[q] /\ task'[q] = task[q] /\ pc'[q] = pc[q]
          BY <1>1, <4>2, Spawned
        <5> QED BY <3>1, <5>1 DEF Scoped
      <4> QED BY <4>1, <4>2
    <3> QED BY <3>1 DEF Scoped
  <2> QED BY <2>1, <2>2
<1>2. ASSUME ReadTickers(p) PROVE CopyTyping' /\ Scoped'
  <2> DEFINE ts == Restrict(tickers, DOMAIN tickers \cap job[p].symbols)
  <2>1. ts \in Documents(Dated)
    BY ReadDocuments
  <2>2. /\ mine' = [mine EXCEPT ![p].tickers = ts]
        /\ pc' = [pc EXCEPT ![p] = IF job[p].kind = "quotes" THEN "quoting" ELSE "controls"]
        /\ UNCHANGED <<db, job, task, stale>>
    BY <1>2 DEF ReadTickers, Goto
  <2> HIDE DEF ts
  <2>3. CopyTyping'
    BY <1>0, <2>1, <2>2 DEF CopyTyping, Labels, db
  <2>4. Scoped'
    BY <1>0, <1>2, <2>2 DEF Scoped, ReadTickers
  <2> QED BY <2>3, <2>4
<1>3. ASSUME NEW l \in Labels \ {"idle", "controls", "quoting"}, Goto(p, l),
             UNCHANGED <<job, task, mine>>,
             tickers' \in Documents(Dated), controls' \in Documents(0..MaxDay),
             sentiments' \in [Symbols -> SUBSET Days],
             lost' \in [Symbols -> SUBSET Days], stale' \in [Passes -> SUBSET Symbols]
      PROVE  CopyTyping' /\ Scoped'
  BY <1>0, <1>3 DEF CopyTyping, Scoped, Goto
<1>4. ASSUME Quote(p) PROVE CopyTyping' /\ Scoped'
  <2>1. CASE mine' = mine
    <3>1. PICK l \in {"quotes", "done", "failed"} : Goto(p, l)
      BY <1>4 DEF Quote
    <3>2. UNCHANGED <<tickers, controls, sentiments, lost, job, task, stale>>
      BY <1>4 DEF Quote, db
    <3> QED BY <1>3, <2>1, <3>1, <3>2 DEF CopyTyping, Labels, Ended
  <2>2. CASE mine' # mine
    <3>1. /\ mine' \in [Passes -> [tickers : Documents(Dated),
                                   controls : Documents(0..MaxDay)]]
          /\ \A q \in Passes : q # p => mine'[q] = mine[q]
      BY <1>4, <2>2, QuotesTaken
    <3>2. PICK l \in {"quotes", "done", "failed"} : Goto(p, l)
      BY <1>4 DEF Quote
    <3>3. UNCHANGED <<tickers, controls, sentiments, lost, job, task, stale>>
          /\ pc[p] = "quoting"
      BY <1>4 DEF Quote, db
    <3>4. CopyTyping'
      BY <1>0, <3>1, <3>2, <3>3 DEF CopyTyping, Labels, Ended, Goto
    <3>5. \A s \in Symbols : task[p][s].at = "none"
      BY <3>3 DEF Scoped
    <3>6. Scoped'
      BY <1>0, <3>1, <3>2, <3>3, <3>5 DEF Scoped, Goto
    <3> QED BY <3>4, <3>6
  <2> QED BY <2>1, <2>2
<1>5. ASSUME SaveUpdated(p) \/ SaveSeeds(p) \/ SaveQuotes(p) PROVE CopyTyping' /\ Scoped'
  <2>1. PICK docs \in Documents(Dated), next \in {"saveControls", "done"} :
          SaveTickers(p, docs, next)
    BY <1>5, Saves
  <2>2. next \in Labels
    BY DEF Labels, Ended
  <2>3. tickers' \in Documents(Dated) /\ stale' \in [Passes -> SUBSET Symbols]
    BY <2>1, <2>2, TickersSaved
  <2>4. PICK l \in {"failed", next} : Goto(p, l)
    BY <2>1 DEF SaveTickers
  <2>5. UNCHANGED <<controls, sentiments, lost, job, mine, task>>
    BY <2>1 DEF SaveTickers
  <2>6. l \in Labels \ {"idle", "controls", "quoting"}
    BY <2>4 DEF Labels, Ended
  <2> QED BY <1>3, <2>3, <2>4, <2>5, <2>6 DEF CopyTyping
<1>6. ASSUME SaveControls(p) PROVE CopyTyping' /\ Scoped'
  <2>1. PICK l \in {"failed", "seeds", "done"} : Goto(p, l)
    BY <1>6 DEF SaveControls, AfterSave
  <2>2. UNCHANGED <<tickers, sentiments, lost, job, mine, task, stale>>
    BY <1>6 DEF SaveControls
  <2> QED BY <1>3, <1>6, <2>1, <2>2, ControlsSaved DEF CopyTyping, Labels, Ended
<1>7. ASSUME ReadFails(p) \/ Join(p) PROVE CopyTyping' /\ Scoped'
  <2>1. PICK l \in {"failed", "tickers", "seeds", "done"} : Goto(p, l)
    BY <1>7 DEF ReadFails, Join, AfterSave
  <2>2. UNCHANGED <<db, job, mine, task, stale>>
    BY <1>7 DEF ReadFails, Join
  <2> QED BY <1>3, <2>1, <2>2 DEF CopyTyping, Labels, Ended, db
<1>8. ASSUME Kill(p) PROVE CopyTyping' /\ Scoped'
  <2>1. lost' \in [Symbols -> SUBSET Days]
    <3>1. \A s \in Symbols : task[p][s].batch \in SUBSET Days
      BY DEF IInv, Typing, Task
    <3> QED BY <1>8, <3>1 DEF Kill, CopyTyping
  <2>2. Goto(p, "killed") /\ UNCHANGED <<tickers, controls, sentiments, job, mine, task, stale>>
    BY <1>8 DEF Kill
  <2> QED BY <1>3, <2>1, <2>2 DEF CopyTyping, Labels, Ended
<1>9. CASE ReadSeeds(p)
  BY <1>1, <1>9, ReadDocuments DEF ReadSeeds
<1>10. CASE ReadControls(p)
  <2>1. mine[p].tickers \in Documents(Dated)
    BY <1>0
  <2> QED BY <1>1, <1>10, <2>1, ReadDocuments DEF ReadControls
<1> QED BY <1>2, <1>4, <1>5, <1>6, <1>7, <1>8, <1>9, <1>10 DEF Start, PassStep

\* Every step keeps the types and the scope.
LEMMA StepTypes ==
  ASSUME IInv, CopyTyping, Scoped, [Next]_vars
  PROVE  CopyTyping' /\ Scoped'
<1>1. CASE Publish \/ UNCHANGED vars
  BY <1>1 DEF Publish, vars, db, CopyTyping, Scoped
<1>2. ASSUME NEW p \in Passes, NEW s \in Symbols, TaskStep(p, s)
      PROVE  CopyTyping' /\ Scoped'
  <2>1. CopyTyping'
    BY <1>2, TaskTypes
  <2>2. /\ pc[p] = "working" /\ task[p][s].at # "none" /\ pc' = pc
        /\ \A q \in Passes, r \in Symbols :
             q # p \/ r # s => task'[q][r].at = task[q][r].at
    BY <1>2, OneTaskMoves
  <2>3. \A q \in Passes : /\ DOMAIN mine'[q].tickers = DOMAIN mine[q].tickers
                          /\ DOMAIN mine'[q].controls = DOMAIN mine[q].controls
    BY <1>2, CopiesMove
  <2>4. Scoped'
    BY <2>2, <2>3 DEF Scoped
  <2> QED BY <2>1, <2>4
<1>3. ASSUME NEW p \in Passes, Start(p) \/ PassStep(p) \/ Kill(p)
      PROVE  CopyTyping' /\ Scoped'
  BY <1>2, <1>3, PassTypes
<1> QED BY <1>1, <1>3 DEF Next

LEMMA InitTypes == ASSUME Init PROVE CopyTyping /\ Scoped
<1>1. Seed \in Dated /\ 0 \in 0..MaxDay /\ {} \in SUBSET Symbols
  BY TickerSyncAssumption DEF Seed, Dated
<1>2. tickers \in Documents(Dated) /\ controls \in Documents(0..MaxDay)
  <2>1. PICK loaded \in SUBSET Symbols : /\ tickers = [s \in loaded |-> Seed]
                                         /\ controls = [s \in loaded |-> 0]
    BY DEF Init
  <2> QED BY <1>1, <2>1, MakeDocuments
<1>3. <<>> \in Documents(Dated) /\ <<>> \in Documents(0..MaxDay)
  <2>1. <<>> \in [{} -> Dated] /\ <<>> \in [{} -> 0..MaxDay]
    OBVIOUS
  <2> QED BY <1>1, <2>1, MakeDocuments
<1>4. mine \in [Passes -> [tickers : Documents(Dated), controls : Documents(0..MaxDay)]]
  BY <1>3 DEF Init
<1>5. /\ job \in [Passes -> Job] /\ pc \in [Passes -> Labels]
      /\ sentiments \in [Symbols -> SUBSET Days] /\ lost \in [Symbols -> SUBSET Days]
      /\ stale \in [Passes -> SUBSET Symbols]
  BY TickerSyncAssumption DEF Init, Labels
<1>6. Scoped
  BY DEF Init, Scoped, NoTask
<1> QED BY <1>2, <1>4, <1>5, <1>6 DEF CopyTyping

-----------------------------------------------------------------------------
(* The articles: what the stamps promise, stored or copied, is kept.       *)

Kept(s, d) == \/ d \in sentiments[s] \cup lost[s]
              \/ \E p \in Passes : At(p, s, "store") /\ d \in task[p][s].batch

StampsKept ==
  /\ \A s \in DOMAIN controls : \A d \in 1..controls[s] : Kept(s, d)
  /\ \A p \in Passes : \A s \in DOMAIN mine[p].controls :
       \A d \in 1..mine[p].controls[s] : Kept(s, d)

\* A task about to stamp holds every article since the stamp of its copy that its
\* answer reached, and knows the ones it did not reach.
Asked ==
  \A p \in Passes, s \in Symbols :
    /\ task[p][s].upto <= today
    /\ task[p][s].at = "stampFeed" =>
         \A d \in 1..task[p][s].upto :
           d > Stamp(p, s) => d \in task[p][s].batch \cup task[p][s].missed

Feeds == IInv /\ CopyTyping /\ Scoped /\ StampsKept /\ Asked

\* What is kept stays kept while the stored and the lost only grow, and a task that
\* is about to store goes on holding its batch or hands it over.
LEMMA KeptStays ==
  ASSUME \A s \in Symbols : sentiments[s] \subseteq sentiments'[s] /\ lost[s] \subseteq lost'[s],
         \A p \in Passes, s \in Symbols : At(p, s, "store") =>
           \/ At(p, s, "store")' /\ task'[p][s].batch = task[p][s].batch
           \/ task[p][s].batch \subseteq sentiments'[s] \cup lost'[s],
         NEW s \in Symbols, NEW d, Kept(s, d)
  PROVE  Kept(s, d)'
<1>1. CASE d \in sentiments[s] \cup lost[s]
  BY <1>1 DEF Kept
<1>2. ASSUME NEW p \in Passes, At(p, s, "store"), d \in task[p][s].batch
      PROVE  Kept(s, d)'
  BY <1>2 DEF Kept
<1> QED BY <1>1, <1>2 DEF Kept

\* Stamps are only handed on, from the database to a copy and back; but for a new one,
\* which has to be justified.
LEMMA StampsPassed ==
  ASSUME StampsKept,
         \A s \in Symbols, d \in Int : Kept(s, d) => Kept(s, d)',
         \A s \in DOMAIN controls' :
           /\ s \in Symbols
           /\ \/ s \in DOMAIN controls /\ controls'[s] = controls[s]
              \/ \E p \in Passes : /\ s \in DOMAIN mine[p].controls
                                   /\ controls'[s] = mine[p].controls[s]
              \/ \A d \in 1..controls'[s] : Kept(s, d)',
         \A q \in Passes : \A s \in DOMAIN mine'[q].controls :
           /\ s \in Symbols
           /\ \/ s \in DOMAIN mine[q].controls /\ mine'[q].controls[s] = mine[q].controls[s]
              \/ s \in DOMAIN controls /\ mine'[q].controls[s] = controls[s]
              \/ \A d \in 1..mine'[q].controls[s] : Kept(s, d)'
  PROVE  StampsKept'
<1>1. \A s \in DOMAIN controls' : \A d \in 1..controls'[s] : Kept(s, d)'
  BY DEF StampsKept
<1>2. \A q \in Passes : \A s \in DOMAIN mine'[q].controls :
        \A d \in 1..mine'[q].controls[s] : Kept(s, d)'
  BY DEF StampsKept
<1> QED BY <1>1, <1>2 DEF StampsKept

\* A stamp is saved with the articles before it in hand: up to the last stamp they are
\* kept, after it they are in the batch, about to be stored, or they are lost.
LEMMA StampKeeps ==
  ASSUME Feeds, NEW p \in Passes, NEW s \in Symbols, StampFeed(p, s),
         controls' # controls,
         \A d \in Int : Kept(s, d) => Kept(s, d)'
  PROVE  \A d \in 1..today : Kept(s, d)'
<1> DEFINE batch == task[p][s].batch
           upto  == task[p][s].upto
           over  == Overlooked(task[p][s])
<1>1. /\ At(p, s, "stampFeed") /\ task[p][s] \in Task /\ upto \in 0..MaxDay
      /\ today \in Days /\ lost \in [Symbols -> SUBSET Days]
  BY DEF StampFeed, Feeds, IInv, Typing, CopyTyping, Task
<1>2. /\ \A d \in 1..upto : d > Stamp(p, s) => d \in batch \cup task[p][s].missed
      /\ upto <= today /\ s \in DOMAIN mine[p].controls
  BY <1>1 DEF Feeds, Asked, Scoped, At
<1>3. Stamp(p, s) \in 0..MaxDay
  <2>1. mine[p].controls \in Documents(0..MaxDay)
    BY DEF Feeds, CopyTyping
  <2> QED BY <1>2, <2>1, DocumentsOf DEF Stamp
<1>4. PICK stage \in {"store", "ok"} :
        /\ Move(p, s, stage)
        /\ \/ stage = "store" /\ Lose(s, over)
           \/ stage = "ok" /\ Lose(s, over \cup batch)
  BY DEF StampFeed
<1>5. stage = "store" => At(p, s, "store")' /\ task'[p][s].batch = batch
  <2>1. task \in [Passes -> [Symbols -> Task]]
    BY DEF Feeds, IInv, Typing
  <2>2. task'[p][s] = [task[p][s] EXCEPT !.at = stage]
    BY <1>4, <2>1 DEF Move, Put
  <2>3. task'[p][s].batch = batch /\ task'[p][s].at = stage
    BY <1>1, <2>2 DEF Task
  <2>4. pc'[p] = "working"
    BY <1>1 DEF StampFeed, At
  <2> QED BY <2>3, <2>4 DEF At
<1>6. over \subseteq lost'[s] /\ (stage = "ok" => batch \subseteq lost'[s])
  <2> HIDE DEF over, batch
  <2> QED BY <1>1, <1>4 DEF Lose
<1>7. \A d : d \in task[p][s].missed \/ d \in (upto + 1)..today => d \in lost'[s]
  BY <1>6 DEF Overlooked
<1>8. \A d : d \in batch => Kept(s, d)'
  <2> HIDE DEF batch
  <2> QED BY <1>4, <1>5, <1>6 DEF Kept
<1>9. \A d : d \in lost'[s] => Kept(s, d)'
  BY DEF Kept
<1>10. ASSUME NEW d \in 1..today PROVE Kept(s, d)'
  <2>1. d \in Int /\ d >= 1 /\ d <= today
    BY <1>1 DEF Days
  <2>2. CASE d <= Stamp(p, s)
    <3>1. d \in 1..mine[p].controls[s]
      BY <1>3, <2>1, <2>2 DEF Stamp
    <3>2. Kept(s, d)
      BY <1>2, <3>1 DEF Feeds, StampsKept
    <3> QED BY <2>1, <3>2
  <2>3. CASE d > Stamp(p, s) /\ d <= upto
    <3>1. d \in 1..upto
      BY <1>1, <2>1, <2>3
    <3>2. d \in batch \/ d \in task[p][s].missed
      BY <1>2, <2>3, <3>1
    <3> QED BY <1>7, <1>8, <1>9, <3>2
  <2>4. CASE d > upto
    <3>1. d \in (upto + 1)..today
      BY <1>1, <2>1, <2>4 DEF Days
    <3> QED BY <1>7, <1>9, <3>1
  <2> QED BY <1>1, <1>3, <2>1, <2>2, <2>3, <2>4 DEF Days
<1> QED BY <1>10

\* A step of a task keeps what is kept: only the store gives up a batch.
LEMMA TaskKeeps ==
  ASSUME Feeds, NEW p \in Passes, NEW s \in Symbols, TaskStep(p, s)
  PROVE  \A r \in Symbols, d \in Int : Kept(r, d) => Kept(r, d)'
<1>0. /\ sentiments \in [Symbols -> SUBSET Days] /\ lost \in [Symbols -> SUBSET Days]
  BY DEF Feeds, CopyTyping
<1>1. /\ pc' = pc
      /\ \A q \in Passes, r \in Symbols : q # p \/ r # s =>
           task'[q][r].at = task[q][r].at /\ task'[q][r].batch = task[q][r].batch
  BY OneTaskMoves DEF Feeds
<1>2. CASE StoreFeed(p, s)
  <2>1. PICK stored \in SUBSET task[p][s].batch :
          /\ sentiments' = [sentiments EXCEPT ![s] = @ \cup stored]
          /\ lost' = [lost EXCEPT ![s] = @ \cup (task[p][s].batch \ stored)]
    BY <1>2 DEF StoreFeed, Lose
  <2>2. /\ \A r \in Symbols : sentiments[r] \subseteq sentiments'[r] /\ lost[r] \subseteq lost'[r]
        /\ task[p][s].batch \subseteq sentiments'[s] \cup lost'[s]
    BY <1>0, <2>1
  <2>3. \A q \in Passes, r \in Symbols : At(q, r, "store") =>
          \/ At(q, r, "store")' /\ task'[q][r].batch = task[q][r].batch
          \/ task[q][r].batch \subseteq sentiments'[r] \cup lost'[r]
    BY <1>1, <2>2 DEF At
  <2> QED BY <2>2, <2>3, KeptStays
<1>3. CASE ~StoreFeed(p, s)
  <2>1. task[p][s].at # "store"
    BY <1>3 DEF TaskStep, ReadHistory, FetchHistory, StampHistory, InsertHistory,
       ComputeIndicators, MarkIndicators, UpsertIndicators, UpdateTicker, FetchFeed,
       StampFeed, Admitted, At
  <2>2. UNCHANGED sentiments /\ (UNCHANGED lost \/ StampFeed(p, s))
    BY <1>3 DEF TaskStep, ReadHistory, FetchHistory, StampHistory, InsertHistory,
       ComputeIndicators, MarkIndicators, UpsertIndicators, UpdateTicker, FetchFeed,
       StampFeed, db
  <2>3. \A r \in Symbols : sentiments[r] \subseteq sentiments'[r] /\ lost[r] \subseteq lost'[r]
    BY <1>0, <2>2 DEF StampFeed, Lose
  <2>4. \A q \in Passes, r \in Symbols : At(q, r, "store") =>
          At(q, r, "store")' /\ task'[q][r].batch = task[q][r].batch
    BY <1>1, <2>1 DEF At
  <2> QED BY <2>3, <2>4, KeptStays
<1> QED BY <1>2, <1>3

\* A step of a task leaves every stamp justified.
LEMMA TaskStamps ==
  ASSUME Feeds, NEW p \in Passes, NEW s \in Symbols, TaskStep(p, s)
  PROVE  StampsKept'
<1>1. \A r \in Symbols, d \in Int : Kept(r, d) => Kept(r, d)'
  BY TaskKeeps
<1>2. CopyTyping' /\ s \in DOMAIN mine[p].controls
  BY TaskTypes, OneTaskMoves DEF Feeds, Scoped
<1>3. /\ \A r \in DOMAIN controls' : r \in Symbols
      /\ \A q \in Passes : \A r \in DOMAIN mine'[q].controls : r \in Symbols
  <2>1. /\ controls' \in Documents(0..MaxDay)
        /\ \A q \in Passes : mine'[q].controls \in Documents(0..MaxDay)
    BY <1>2 DEF CopyTyping
  <2> QED BY <2>1, DocumentsOf
<1>4. Stamp(p, s) \in 0..MaxDay /\ today \in 0..MaxDay
  <2>1. mine[p].controls \in Documents(0..MaxDay)
    BY DEF Feeds, CopyTyping
  <2> QED BY <1>2, <2>1, DocumentsOf, TickerSyncAssumption
      DEF Stamp, Feeds, IInv, Typing, Days
<1>5. StampFeed(p, s) /\ controls' # controls => \A d \in 1..today : Kept(s, d)'
  BY <1>1, StampKeeps
<1>6. ASSUME NEW r \in DOMAIN controls'
      PROVE  \/ r \in DOMAIN controls /\ controls'[r] = controls[r]
             \/ \E q \in Passes : /\ r \in DOMAIN mine[q].controls
                                  /\ controls'[r] = mine[q].controls[r]
             \/ \A d \in 1..controls'[r] : Kept(r, d)'
  <2>1. CASE StampFeed(p, s) /\ controls' # controls
    <3>1. controls' \in {controls, Replace(controls, [x \in {s} |-> today])}
      BY <2>1 DEF StampFeed
    <3>2. \/ r \in DOMAIN controls /\ controls'[r] = controls[r]
          \/ r = s /\ controls'[r] = today
      BY <1>4, <3>1, ControlReplaced DEF Feeds
    <3> QED BY <1>5, <2>1, <3>2
  <2>2. CASE StampHistory(p, s) \/ MarkIndicators(p, s)
    <3>1. PICK next, otherwise : SaveControl(p, s, mine[p].controls[s], next, otherwise)
      BY <2>2 DEF StampHistory, MarkIndicators
    <3>2. \/ r \in DOMAIN controls /\ controls'[r] = controls[r]
          \/ r = s /\ controls'[r] = mine[p].controls[s]
      BY <1>4, <3>1, ControlSaved DEF Stamp, Feeds
    <3> QED BY <1>2, <3>2
  <2>3. CASE UNCHANGED controls
    BY <2>3
  <2> QED
    BY <1>6, <2>1, <2>2, <2>3 DEF TaskStep, ReadHistory, FetchHistory, InsertHistory,
       ComputeIndicators, UpsertIndicators, UpdateTicker, FetchFeed, StoreFeed, db
<1>7. \A q \in Passes : mine'[q].controls = mine[q].controls
  BY CopiesMove DEF Feeds
<1> QED BY <1>1, <1>3, <1>6, <1>7, StampsPassed DEF Feeds

\* The day a task was given for its bars or its articles is given once.
Proceeds(p, s) ==
  \E next \in Stages \ {"stampFeed"}, up \in 0..today :
    /\ task'[p][s].at = next /\ task'[p][s].upto = up
    /\ up = task[p][s].upto \/ task[p][s].upto = 0

LEMMA UptoMoves ==
  ASSUME IInv, NEW p \in Passes, NEW s \in Symbols, TaskStep(p, s), ~FetchFeed(p, s),
         task[p][s].upto <= today
  PROVE  Proceeds(p, s)
<1>0. /\ task \in [Passes -> [Symbols -> Task]] /\ task[p][s] \in Task /\ today \in Days
      /\ task[p][s].upto \in 0..today
  BY TickerSyncAssumption DEF IInv, Typing, Task, Days
<1>1. CASE InsertHistory(p, s)
  <2>1. PICK stored \in SUBSET task[p][s].batch :
         \E next \in {InsertFailed}
                       \cup (IF stored = task[p][s].batch THEN {"compute"} ELSE {}) :
            task' = [q \in Passes |->
              IF q = p THEN [task[p] EXCEPT ![s].at = next, ![s].batch = {},
                                            ![s].fresh = TRUE]
              ELSE IF stored # {} /\ task[q][s].at \in {"fetch", "stamp", "insert"}
                   THEN [task[q] EXCEPT ![s].fresh = FALSE] ELSE task[q]]
    BY <1>1 DEF InsertHistory
  <2>2. PICK next \in {"err", "compute"} :
          task'[p] = [task[p] EXCEPT ![s].at = next, ![s].batch = {},
                                     ![s].fresh = TRUE]
    BY <2>1 DEF InsertFailed
  <2>3. task'[p][s] = [task[p][s] EXCEPT !.at = next, !.batch = {}, !.fresh = TRUE]
    BY <1>0, <2>2
  <2>4. task'[p][s].at = next /\ task'[p][s].upto = task[p][s].upto
    BY <1>0, <2>3 DEF Task
  <2>5. next \in Stages \ {"stampFeed"}
    BY DEF Stages, Waiting
  <2> QED BY <1>0, <2>4, <2>5 DEF Proceeds
<1>2. ASSUME NEW t, Put(p, s, t), t.at \in Stages \ {"stampFeed"}, t.upto \in 0..today,
             t.upto = task[p][s].upto \/ task[p][s].upto = 0
      PROVE  Proceeds(p, s)
  <2>1. task'[p][s] = t
    BY <1>0, <1>2 DEF Put
  <2> QED BY <1>2, <2>1 DEF Proceeds
<1>3. ASSUME NEW stage \in Stages \ {"stampFeed"}, Move(p, s, stage)
      PROVE  Proceeds(p, s)
  <2> DEFINE t == [task[p][s] EXCEPT !.at = stage]
  <2>1. t.at = stage /\ t.upto = task[p][s].upto /\ Put(p, s, t)
    BY <1>0, <1>3 DEF Move, Task
  <2> HIDE DEF t
  <2> QED BY <1>0, <1>2, <2>1
<1>4. CASE ReadHistory(p, s)
  <2> DEFINE T(ok) == [task[p][s] EXCEPT !.at = "fetch", !.fresh = ok,
                         !.known = IF ok THEN {d \in Days : history[s][d] > 0} ELSE {}]
  <2>1. PICK ok \in BOOLEAN : Put(p, s, T(ok))
    BY <1>4 DEF ReadHistory
  <2>2. T(ok).at = "fetch" /\ T(ok).upto = task[p][s].upto
    BY <1>0 DEF Task
  <2> HIDE DEF T
  <2> QED BY <1>0, <1>2, <2>1, <2>2 DEF Stages
<1>5. CASE FetchHistory(p, s)
  <2> DEFINE New(last)  == NewBars(task[p][s].known, last)
             Some(last) == [task[p][s] EXCEPT
                        !.at = IF job[p].update /\ New(last) # {} THEN "stamp" ELSE "compute",
                        !.known = {}, !.batch = New(last), !.upto = last]
             Fail == [task[p][s] EXCEPT !.at = "finish", !.known = {}]
  <2>1. \A last \in 1..today : Some(last).at \in {"stamp", "compute"} /\ Some(last).upto = last
    <3> HIDE DEF New
    <3> QED BY <1>0 DEF Task
  <2>2. Fail.at = "finish" /\ Fail.upto = task[p][s].upto
    BY <1>0 DEF Task
  <2>3. (\E last \in 1..today : Put(p, s, Some(last))) \/ Put(p, s, Fail)
    BY <1>5 DEF FetchHistory
  <2>4. task[p][s].upto = 0
    BY <1>5 DEF FetchHistory, At, IInv, TaskInv, Backed
  <2>5. \A last \in 1..today : last \in 0..today
    BY <1>0 DEF Days
  <2>6. {"stamp", "compute", "finish"} \subseteq Stages \ {"stampFeed"}
    BY DEF Stages
  <2> HIDE DEF Some, Fail
  <2>7. ASSUME NEW last \in 1..today, Put(p, s, Some(last)) PROVE Proceeds(p, s)
    BY <1>2, <2>1, <2>4, <2>5, <2>6, <2>7
  <2>8. ASSUME Put(p, s, Fail) PROVE Proceeds(p, s)
    BY <1>0, <1>2, <2>2, <2>6, <2>8
  <2> QED BY <2>3, <2>7, <2>8
<1>6. CASE ComputeIndicators(p, s)
  <2> DEFINE T(new) == [task[p][s] EXCEPT
                          !.at = IF job[p].update THEN "mark" ELSE "finish",
                          !.batch = new]
             Fail == [task[p][s] EXCEPT !.at = "finish", !.batch = {}]
  <2>1. (\E new : Put(p, s, T(new))) \/ Put(p, s, Fail)
    BY <1>6 DEF ComputeIndicators
  <2>2. /\ \A new : T(new).at \in {"mark", "finish"} /\ T(new).upto = task[p][s].upto
        /\ Fail.at = "finish" /\ Fail.upto = task[p][s].upto
    BY <1>0 DEF Task
  <2> HIDE DEF T, Fail
  <2> QED BY <1>0, <1>2, <2>1, <2>2 DEF Stages
<1>7. CASE UpsertIndicators(p, s) \/ StoreFeed(p, s)
  <2> DEFINE T(next) == [task[p][s] EXCEPT !.at = next, !.batch = {}]
  <2>1. PICK next \in {"err", "finish", "ok"} : Put(p, s, T(next))
    BY <1>7 DEF UpsertIndicators, UpsertFailed, StoreFeed
  <2>2. T(next).at = next /\ T(next).upto = task[p][s].upto
    BY <1>0 DEF Task
  <2> HIDE DEF T
  <2> QED BY <1>0, <1>2, <2>1, <2>2 DEF Stages, Waiting
<1>8. CASE StampHistory(p, s) \/ MarkIndicators(p, s) \/ StampFeed(p, s)
           \/ UpdateTicker(p, s)
  BY <1>3, <1>8 DEF StampHistory, MarkIndicators, StampFeed, UpdateTicker, SaveControl,
     Stages, Waiting
<1> QED BY <1>1, <1>4, <1>5, <1>6, <1>7, <1>8 DEF TaskStep

\* What is asked of the feed, if it is: the articles up to today, of which it has the
\* ones from some day on.
LEMMA FeedAsked ==
  ASSUME IInv, NEW p \in Passes, NEW s \in Symbols, FetchFeed(p, s)
  PROVE  \E t : /\ Put(p, s, t)
               /\ \/ /\ t.upto = today
                     /\ \A d \in 1..today : d > Stamp(p, s) => d \in t.batch \cup t.missed
                  \/ t.at = "ok" /\ t.upto \in {task[p][s].upto, today}
<1>0. task[p][s] \in Task /\ today \in Days
  BY DEF IInv, Typing
<1> DEFINE Some(f) == [task[p][s] EXCEPT
                      !.at = IF job[p].update /\ Fetched(p, s, f) # {} THEN "stampFeed" ELSE "ok",
                      !.batch = Fetched(p, s, f), !.missed = Missed(p, s, f), !.upto = today]
           Fail == [task[p][s] EXCEPT !.at = FeedFailed, !.upto = today]
           Skip == [task[p][s] EXCEPT !.at = "ok"]
<1>1. ASSUME NEW f \in Begins
      PROVE  /\ Some(f).upto = today
             /\ \A d \in 1..today :
                  d > Stamp(p, s) => d \in Some(f).batch \cup Some(f).missed
  <2>1. \A d \in 1..today : d > Stamp(p, s) => d \in Fetched(p, s, f) \cup Missed(p, s, f)
    BY <1>0, TickerSyncAssumption DEF Fetched, Missed, Begins, Days
  <2>2. /\ Some(f).upto = today /\ Some(f).batch = Fetched(p, s, f)
        /\ Some(f).missed = Missed(p, s, f)
    BY <1>0 DEF Task
  <2> HIDE DEF Some
  <2> QED BY <2>1, <2>2
<1>2. /\ Fail.at = "ok" /\ Fail.upto = today
      /\ Skip.at = "ok" /\ Skip.upto = task[p][s].upto
  BY <1>0 DEF Task, FeedFailed
<1>3. (\E f \in Begins : Put(p, s, Some(f))) \/ Put(p, s, Fail) \/ Put(p, s, Skip)
  BY DEF FetchFeed, Move
<1> HIDE DEF Some, Fail, Skip
<1>4. ASSUME NEW f \in Begins, Put(p, s, Some(f))
      PROVE  \E t : /\ Put(p, s, t) /\ t.upto = today
                   /\ \A d \in 1..today : d > Stamp(p, s) => d \in t.batch \cup t.missed
  BY <1>1, <1>4
<1> QED BY <1>2, <1>3, <1>4

\* A task asks for what its copy's stamp does not promise, up to the day it asks.
LEMMA TaskAsks ==
  ASSUME Feeds, NEW p \in Passes, NEW s \in Symbols, TaskStep(p, s)
  PROVE  Asked'
<1>1. /\ today' = today /\ today \in Days
      /\ \A q \in Passes, r \in Symbols : q # p \/ r # s =>
           /\ task'[q][r].at = task[q][r].at /\ task'[q][r].batch = task[q][r].batch
           /\ task'[q][r].upto = task[q][r].upto /\ task'[q][r].missed = task[q][r].missed
  BY OneTaskMoves DEF Feeds, IInv, Typing
<1>2. \A q \in Passes, r \in Symbols : Stamp(q, r)' = Stamp(q, r)
  BY CopiesMove DEF Feeds, Stamp
<1>3. ASSUME NEW q \in Passes, NEW r \in Symbols, q # p \/ r # s
      PROVE  /\ task'[q][r].upto <= today'
             /\ task'[q][r].at = "stampFeed" =>
                  \A d \in 1..task'[q][r].upto :
                    d > Stamp(q, r)' => d \in task'[q][r].batch \cup task'[q][r].missed
  BY <1>1, <1>2, <1>3 DEF Feeds, Asked
<1>4. /\ task \in [Passes -> [Symbols -> Task]] /\ task[p][s] \in Task
      /\ task[p][s].upto <= today
  BY DEF Feeds, IInv, Typing, Asked
<1>5. CASE FetchFeed(p, s)
  <2>1. PICK t : /\ Put(p, s, t)
                 /\ \/ /\ t.upto = today
                       /\ \A d \in 1..today : d > Stamp(p, s) => d \in t.batch \cup t.missed
                    \/ t.at = "ok" /\ t.upto \in {task[p][s].upto, today}
    BY <1>5, FeedAsked DEF Feeds
  <2>2. task'[p][s] = t
    BY <1>4, <2>1 DEF Put
  <2>3. task'[p][s].upto <= today'
    BY <1>1, <1>4, <2>1, <2>2 DEF Days
  <2>4. task'[p][s].at = "stampFeed" =>
          \A d \in 1..task'[p][s].upto :
            d > Stamp(p, s)' => d \in task'[p][s].batch \cup task'[p][s].missed
    BY <1>2, <2>1, <2>2
  <2> QED BY <1>3, <2>3, <2>4 DEF Asked
<1>6. CASE ~FetchFeed(p, s)
  <2>1. Proceeds(p, s)
    BY <1>4, <1>6, UptoMoves DEF Feeds
  <2>2. task'[p][s].upto <= today' /\ task'[p][s].at # "stampFeed"
    BY <1>1, <2>1 DEF Proceeds, Days
  <2> QED BY <1>3, <2>2 DEF Asked
<1> QED BY <1>5, <1>6

\* The steps of a pass without tasks: the copies are of what is stored, and a pass
\* leaves its work only when none of its tasks is about to store, or is killed.
LEMMA PassFeeds ==
  ASSUME Feeds, NEW p \in Passes, Start(p) \/ PassStep(p) \/ Kill(p),
         \A s \in Symbols : ~TaskStep(p, s)
  PROVE  StampsKept' /\ Asked'
<1>0. /\ CopyTyping' /\ CopyTyping /\ today' = today /\ today \in Days
      /\ mine \in [Passes -> [tickers : Documents(Dated), controls : Documents(0..MaxDay)]]
      /\ pc \in [Passes -> Labels]
  BY PassTypes DEF Feeds, CopyTyping, IInv, Typing, Start, PassStep, ReadSeeds, ReadTickers,
     ReadControls, ReadFails, Join, SaveUpdated, SaveControls, SaveSeeds, Quote, SaveQuotes,
     SaveTickers, Kill
<1>1. /\ \A r \in DOMAIN controls' : r \in Symbols
      /\ \A q \in Passes : \A r \in DOMAIN mine'[q].controls : r \in Symbols
  <2>1. /\ controls' \in Documents(0..MaxDay)
        /\ \A q \in Passes : mine'[q].controls \in Documents(0..MaxDay)
    BY <1>0 DEF CopyTyping
  <2> QED BY <2>1, DocumentsOf
<1>2. ASSUME NEW ts \in Documents(Dated), NEW cs \in Documents(0..MaxDay),
             Spawn(p, ts, cs), UNCHANGED db, pc[p] # "working",
             \A s \in DOMAIN cs : \/ s \in DOMAIN controls /\ cs[s] = controls[s]
                                  \/ cs[s] = 0
      PROVE  StampsKept' /\ Asked'
  <2>1. /\ mine'[p].controls = cs
        /\ \A q \in Passes : q # p =>
             mine'[q] = mine[q] /\ task'[q] = task[q] /\ pc'[q] = pc[q]
        /\ \A s \in Symbols : task'[p][s].at \in {"none", "queued"} /\ task'[p][s].upto = 0
    BY <1>2, Spawned DEF Feeds
  <2>2. \A s \in Symbols, d \in Int : Kept(s, d) => Kept(s, d)'
    BY <1>2, <2>1 DEF Kept, At, db
  <2>3. StampsKept'
    <3>1. controls' = controls
      BY <1>2 DEF db
    <3>2. \A s \in DOMAIN cs :
            \/ s \in DOMAIN controls /\ cs[s] = controls[s]
            \/ \A d \in 1..cs[s] : Kept(s, d)'
      BY <1>2
    <3>3. ASSUME NEW q \in Passes, NEW s \in DOMAIN mine'[q].controls
          PROVE  /\ s \in Symbols
                 /\ \/ s \in DOMAIN mine[q].controls /\ mine'[q].controls[s] = mine[q].controls[s]
                    \/ s \in DOMAIN controls /\ mine'[q].controls[s] = controls[s]
                    \/ \A d \in 1..mine'[q].controls[s] : Kept(s, d)'
      BY <1>1, <2>1, <3>2
    <3> QED BY <1>1, <2>2, <3>1, <3>3, StampsPassed DEF Feeds
  <2>4. Asked'
    BY <1>0, <2>1 DEF Feeds, Asked, Stamp, Days
  <2> QED BY <2>3, <2>4
<1>3. ASSUME UNCHANGED <<task, sentiments>>,
             \A q \in Passes : q # p => mine'[q] = mine[q] /\ pc'[q] = pc[q],
             mine'[p].controls = mine[p].controls,
             \A s \in Symbols : lost[s] \subseteq lost'[s],
             \A s \in Symbols : At(p, s, "store") => task[p][s].batch \subseteq lost'[s],
             \A s \in DOMAIN controls' :
               \/ s \in DOMAIN controls /\ controls'[s] = controls[s]
               \/ s \in DOMAIN mine[p].controls /\ controls'[s] = mine[p].controls[s]
      PROVE  StampsKept' /\ Asked'
  <2>1. \A s \in Symbols, d \in Int : Kept(s, d) => Kept(s, d)'
    <3>1. \A q \in Passes, s \in Symbols : At(q, s, "store") =>
            \/ At(q, s, "store")' /\ task'[q][s].batch = task[q][s].batch
            \/ task[q][s].batch \subseteq sentiments'[s] \cup lost'[s]
      BY <1>3 DEF At
    <3> QED BY <1>3, <3>1, KeptStays
  <2>2. \A q \in Passes : mine'[q].controls = mine[q].controls
    BY <1>3
  <2>3. StampsKept'
    BY <1>1, <1>3, <2>1, <2>2, StampsPassed DEF Feeds
  <2>4. Asked'
    BY <1>0, <1>3, <2>2 DEF Feeds, Asked, Stamp
  <2> QED BY <2>3, <2>4
<1>4. ASSUME UNCHANGED <<controls, sentiments, lost, job, mine, task>>, NEW l, Goto(p, l),
             \A s \in Symbols : ~At(p, s, "store")
      PROVE  StampsKept' /\ Asked'
  BY <1>0, <1>3, <1>4 DEF Goto
<1>5. CASE ReadSeeds(p)
  <2>1. \A s \in DOMAIN SeedControls(p) :
          \/ s \in DOMAIN controls /\ SeedControls(p)[s] = controls[s]
          \/ SeedControls(p)[s] = 0
    BY DEF SeedControls, StoredControls, Replace, Restrict
  <2> QED BY <1>0, <1>2, <1>5, <2>1, ReadDocuments DEF ReadSeeds
<1>6. CASE ReadControls(p)
  <2>1. \A s \in DOMAIN StoredControls(p) :
          s \in DOMAIN controls /\ StoredControls(p)[s] = controls[s]
    BY DEF StoredControls, Restrict
  <2>2. mine[p].tickers \in Documents(Dated)
    BY <1>0
  <2> QED BY <1>0, <1>2, <1>6, <2>1, <2>2, ReadDocuments DEF ReadControls
<1>7. CASE ReadTickers(p)
  <2>1. /\ UNCHANGED <<db, task>> /\ pc[p] # "working"
        /\ mine'[p].controls = mine[p].controls
        /\ \A q \in Passes : q # p => mine'[q] = mine[q] /\ pc'[q] = pc[q]
    BY <1>0, <1>7 DEF ReadTickers, Goto
  <2> QED BY <1>3, <2>1 DEF db, At
<1>8. CASE Quote(p)
  <2>1. /\ UNCHANGED <<db, task>> /\ pc[p] # "working"
        /\ \A q \in Passes : q # p => pc'[q] = pc[q]
    BY <1>0, <1>8 DEF Quote, Goto
  <2>2. /\ mine'[p].controls = mine[p].controls
        /\ \A q \in Passes : q # p => mine'[q] = mine[q]
    BY <1>8, QuotesTaken DEF Feeds
  <2> QED BY <1>3, <2>1, <2>2 DEF db, At
<1>9. CASE SaveUpdated(p) \/ SaveSeeds(p) \/ SaveQuotes(p)
  <2>1. PICK docs, next : SaveTickers(p, docs, next) /\ pc[p] # "working"
    BY <1>9, Saves DEF Feeds
  <2>2. PICK l : Goto(p, l)
    BY <2>1 DEF SaveTickers
  <2> QED BY <1>4, <2>1, <2>2 DEF SaveTickers, At
<1>10. CASE SaveControls(p)
  <2>1. PICK l : Goto(p, l)
    BY <1>10 DEF SaveControls
  <2>2. UNCHANGED <<sentiments, lost, mine, task>> /\ pc[p] # "working"
    BY <1>10 DEF SaveControls
  <2>3. \A s \in DOMAIN controls' :
          \/ s \in DOMAIN controls /\ controls'[s] = controls[s]
          \/ s \in DOMAIN mine[p].controls /\ controls'[s] = mine[p].controls[s]
    BY <1>10, ControlsSaved DEF Feeds
  <2> QED BY <1>0, <1>3, <2>1, <2>2, <2>3 DEF At, Goto
<1>11. CASE ReadFails(p)
  BY <1>4, <1>11 DEF ReadFails, At, db
<1>12. CASE Join(p)
  <2>1. PICK l : Goto(p, l)
    BY <1>12 DEF Join
  <2>2. \A s \in Symbols : ~At(p, s, "store")
    BY <1>12 DEF Join, At, Waiting
  <2> QED BY <1>4, <1>12, <2>1, <2>2 DEF Join, db
<1>13. CASE Kill(p)
  <2>1. \A s \in Symbols : lost[s] \subseteq lost'[s] /\
          (At(p, s, "store") => task[p][s].batch \subseteq lost'[s])
    BY <1>13 DEF Kill, At
  <2>2. UNCHANGED <<sentiments, controls, mine, task>> /\ Goto(p, "killed")
    BY <1>13 DEF Kill
  <2> QED BY <1>0, <1>3, <2>1, <2>2 DEF Goto
<1> QED BY <1>5, <1>6, <1>7, <1>8, <1>9, <1>10, <1>11, <1>12, <1>13 DEF Start, PassStep

\* The invariant of the articles holds at first and is kept by every step.
LEMMA InitFeeds == ASSUME Init PROVE Feeds
<1>1. IInv /\ CopyTyping /\ Scoped
  BY InitInv, InitTypes
<1>2. \A s \in DOMAIN controls : controls[s] = 0
  BY DEF Init
<1>3. \A p \in Passes : DOMAIN mine[p].controls = {}
  BY DEF Init
<1>4. StampsKept
  BY <1>2, <1>3 DEF StampsKept
<1>5. Asked
  BY DEF Init, Asked, NoTask
<1> QED BY <1>1, <1>4, <1>5 DEF Feeds

LEMMA StepFeeds == ASSUME Feeds, [Next]_vars PROVE Feeds'
<1>1. IInv' /\ CopyTyping' /\ Scoped'
  BY StepInv, StepTypes DEF Feeds
<1>2. CASE UNCHANGED vars
  BY <1>1, <1>2 DEF vars, Feeds, StampsKept, Kept, At, Asked, Stamp
<1>3. CASE Publish
  <2>1. today \in Days /\ today' = today + 1
        /\ task \in [Passes -> [Symbols -> Task]]
    BY <1>3 DEF Publish, Feeds, IInv, Typing
  <2>2. \A p \in Passes, s \in Symbols : task[p][s].upto <= today'
    <3>1. ASSUME NEW p \in Passes, NEW s \in Symbols PROVE task[p][s].upto <= today'
      <4>1. task[p][s] \in Task /\ task[p][s].upto <= today
        BY <2>1 DEF Feeds, Asked
      <4> QED BY <2>1, <4>1 DEF Task, Days
    <3> QED BY <3>1
  <2>3. StampsKept' /\ Asked'
    BY <1>3, <2>2 DEF Publish, db, Feeds, StampsKept, Kept, At, Asked, Stamp
  <2> QED BY <1>1, <2>3 DEF Feeds
<1>4. ASSUME NEW p \in Passes, Start(p) \/ PassStep(p) \/ Kill(p)
      PROVE  StampsKept' /\ Asked'
  BY <1>4, TaskStamps, TaskAsks, PassFeeds
<1> QED BY <1>1, <1>2, <1>3, <1>4 DEF Next, Feeds

\* Every article up to a symbol's stored stamp is stored, or about to be by the pass
\* that stamped it, or lost in one of the ways the code has: its store failed or was
\* killed after the stamp was saved, or it appeared between the fetch and the stamp
\* (update_ticker_sentiments_embeddings saves the stamp before the articles).
THEOREM ArticlesKept == Spec => []SentimentsKept
<1>1. Feeds => SentimentsKept
  BY DEF Feeds, StampsKept, Kept, SentimentsKept
<1> QED BY <1>1, InitFeeds, StepFeeds, PTL DEF Spec

-----------------------------------------------------------------------------
(* The day of a price: the copies of a pass are behind what is stored only *)
(* for the tickers another pass has saved since, or when its bars are.     *)

\* Where a pass may be, by its job; its tasks have no day before they have started.
Routed(p) ==
  /\ pc[p] = "seeds" => job[p].kind = "load"
  /\ pc[p] \in {"idle", "controls", "quoting", "quotes"} =>
       \A s \in Symbols : task[p][s].upto = 0

\* The day of the ticker s in the copies of p.
Own(p, s) == mine[p].tickers[s].date

Copied(p, s) ==
  /\ Own(p, s) <= today
  /\ job[p].kind # "load" /\ pc[p] \notin {"idle"} \cup Ended /\ s \notin stale[p] =>
       /\ s \in DOMAIN tickers
       /\ \/ Own(p, s) >= tickers[s].date
          \/ task[p][s].upto > 0 /\ Own(p, s) = task[p][s].upto

Dates == /\ Feeds
         /\ \A s \in DOMAIN tickers : tickers[s].date <= today
         /\ \A p \in Passes : Routed(p)
         /\ \A p \in Passes : \A s \in DOMAIN mine[p].tickers : Copied(p, s)

\* The days are days, wherever a ticker is.
LEMMA DaysTyped ==
  ASSUME Dates
  PROVE  /\ today \in Days /\ \A s \in DOMAIN tickers : tickers[s].date \in 0..MaxDay
         /\ \A p \in Passes : \A s \in DOMAIN mine[p].tickers :
              s \in Symbols /\ Own(p, s) \in 0..MaxDay
         /\ \A p \in Passes, s \in Symbols : task[p][s].upto \in 0..MaxDay
<1>1. today \in Days /\ \A p \in Passes, s \in Symbols : task[p][s] \in Task
  BY DEF Dates, Feeds, IInv, Typing
<1>2. /\ tickers \in Documents(Dated)
      /\ \A p \in Passes : mine[p].tickers \in Documents(Dated)
  BY DEF Dates, Feeds, CopyTyping
<1>3. /\ \A s \in DOMAIN tickers : tickers[s] \in Dated
      /\ \A p \in Passes : \A s \in DOMAIN mine[p].tickers :
           s \in Symbols /\ mine[p].tickers[s] \in Dated
  BY <1>2, DocumentsOf
<1> QED BY <1>1, <1>3 DEF Dated, Own, Task

\* A task that finishes dates its copy with the day of its last bar.
LEMMA TaskDates ==
  ASSUME Dates, NEW p \in Passes, NEW s \in Symbols, TaskStep(p, s)
  PROVE  /\ \A r \in DOMAIN tickers' : tickers'[r].date <= today'
         /\ \A q \in Passes : Routed(q)'
         /\ \A q \in Passes : \A r \in DOMAIN mine'[q].tickers : Copied(q, r)'
<1>1. /\ UNCHANGED <<today, tickers, job, pc, stale>>
      /\ pc[p] = "working" /\ task[p][s].at # "none"
      /\ \A q \in Passes, r \in Symbols : q # p \/ r # s =>
           task'[q][r].upto = task[q][r].upto
  BY OneTaskMoves DEF Dates, Feeds
<1>2. /\ \A q \in Passes : DOMAIN mine'[q].tickers = DOMAIN mine[q].tickers
      /\ \A q \in Passes, r \in Symbols : q # p \/ r # s =>
           mine'[q].tickers[r] = mine[q].tickers[r]
      /\ ~UpdateTicker(p, s) => mine'[p].tickers[s] = mine[p].tickers[s]
      /\ s \in DOMAIN mine[p].tickers
  BY <1>1, CopiesMove DEF Dates, Feeds, Scoped
<1>3. /\ task'[p][s].upto = task[p][s].upto \/ task[p][s].upto = 0
      /\ task[p][s].upto <= today
  <2>1. task[p][s].upto <= today
    BY DEF Dates, Feeds, Asked
  <2>2. CASE FetchFeed(p, s)
    BY <2>1, <2>2 DEF FetchFeed, Admitted, At, Dates, Feeds, IInv, TaskInv, Backed
  <2>3. CASE ~FetchFeed(p, s)
    <3>1. Proceeds(p, s)
      BY <2>1, <2>3, UptoMoves DEF Dates, Feeds
    <3> QED BY <2>1, <3>1 DEF Proceeds
  <2> QED BY <2>2, <2>3
<1>4. ASSUME NEW q \in Passes PROVE Routed(q)'
  BY <1>1 DEF Dates, Routed
<1>5. ASSUME NEW q \in Passes, NEW r \in DOMAIN mine'[q].tickers, q # p \/ r # s
      PROVE  Copied(q, r)'
  <2>1. r \in DOMAIN mine[q].tickers /\ r \in Symbols
    BY <1>2, <1>5, DaysTyped
  <2>2. Copied(q, r)
    BY <2>1 DEF Dates
  <2> QED BY <1>1, <1>2, <1>5, <2>1, <2>2 DEF Copied, Own
<1>6. Copied(p, s)'
  <2> DEFINE upto == task[p][s].upto
  <2>1. /\ Copied(p, s) /\ Own(p, s) \in 0..MaxDay /\ upto \in 0..MaxDay
        /\ today \in Days /\ (task'[p][s].upto = upto \/ upto = 0)
        /\ s \in DOMAIN tickers => tickers[s].date \in 0..MaxDay
    BY <1>2, <1>3, DaysTyped DEF Dates
  <2>2. Own(p, s)' = Own(p, s) \/ (upto > 0 /\ Own(p, s)' = upto)
    <3>1. CASE UpdateTicker(p, s) /\ mine' # mine
      <4> DEFINE dated == IF upto > 0 THEN PriceDay(task[p][s]) ELSE Own(p, s)
                 doc == [date |-> dated, signals |-> Latest(indicators[s])]
      <4>1. mine[p].tickers \in [DOMAIN mine[p].tickers -> Dated]
        <5>1. mine[p].tickers \in Documents(Dated)
          BY DEF Dates, Feeds, CopyTyping
        <5> QED BY <5>1, DocumentsOf
      <4>2. mine \in [Passes -> [tickers : Documents(Dated), controls : Documents(0..MaxDay)]]
        BY DEF Dates, Feeds, CopyTyping
      <4>3. mine' = [mine EXCEPT ![p].tickers[s] = doc]
        BY <3>1, <4>1, <4>2 DEF UpdateTicker, Own
      <4>4. doc.date = dated
        OBVIOUS
      <4> HIDE DEF doc
      <4>5. mine'[p].tickers[s] = doc
        BY <1>2, <4>1, <4>2, <4>3
      <4> QED BY <4>4, <4>5 DEF Own, PriceDay
    <3>2. CASE ~UpdateTicker(p, s) \/ mine' = mine
      BY <1>2, <3>2 DEF Own
    <3> QED BY <3>1, <3>2
  <2>3. Own(p, s)' <= today
    BY <1>3, <2>1, <2>2 DEF Copied
  <2>4. ASSUME job[p].kind # "load", pc[p] \notin {"idle"} \cup Ended, s \notin stale[p]
        PROVE  /\ s \in DOMAIN tickers
               /\ \/ Own(p, s)' >= tickers[s].date
                  \/ task'[p][s].upto > 0 /\ Own(p, s)' = task'[p][s].upto
    <3>1. /\ s \in DOMAIN tickers
          /\ Own(p, s) >= tickers[s].date \/ (upto > 0 /\ Own(p, s) = upto)
      BY <2>1, <2>4 DEF Copied
    <3> HIDE DEF upto
    <3> QED BY <2>1, <2>2, <3>1
  <2> HIDE DEF upto
  <2> QED BY <1>1, <2>3, <2>4 DEF Copied
<1>7. \A r \in DOMAIN tickers' : tickers'[r].date <= today'
  BY <1>1 DEF Dates
<1> QED BY <1>4, <1>5, <1>6, <1>7

\* The saves replace tickers by copies that are no older, but for those another pass
\* has saved since, and for the seeds.
LEMMA SaveDates ==
  ASSUME Dates, NEW p \in Passes, SaveUpdated(p) \/ SaveSeeds(p) \/ SaveQuotes(p)
  PROVE  /\ pc[p] \in {"tickers", "seeds", "quotes"} /\ pc'[p] \in {"failed", "saveControls", "done"}
         /\ \A q \in Passes : q # p => pc'[q] = pc[q]
         /\ UNCHANGED <<today, job, mine, task>>
         /\ DOMAIN tickers \subseteq DOMAIN tickers'
         /\ \A q \in Passes : stale[q] \subseteq stale'[q]
         /\ stale'[p] = stale[p]
         /\ \A s \in DOMAIN tickers' :
              \/ s \in DOMAIN tickers /\ tickers'[s] = tickers[s]
              \/ /\ tickers'[s].date <= today
                 /\ \A q \in Passes \ {p} : pc[q] \notin {"idle"} \cup Ended => s \in stale'[q]
                 /\ pc[p] # "seeds" =>
                      s \in DOMAIN mine[p].tickers /\ tickers'[s].date = Own(p, s)
<1>1. PICK docs \in Documents(Dated), next \in {"saveControls", "done"} :
        /\ SaveTickers(p, docs, next) /\ pc[p] \in {"tickers", "seeds", "quotes"}
        /\ \A s \in DOMAIN docs :
             IF pc[p] = "seeds" THEN docs[s] = Seed
             ELSE s \in DOMAIN mine[p].tickers /\ docs[s] = mine[p].tickers[s]
  BY Saves DEF Dates, Feeds
<1>2. /\ DOMAIN tickers \subseteq DOMAIN tickers' /\ pc'[p] \in {"failed", next}
      /\ \A q \in Passes : q # p => pc'[q] = pc[q]
      /\ \A q \in Passes : stale[q] \subseteq stale'[q]
      /\ stale'[p] = stale[p]
      /\ \A s \in DOMAIN tickers' :
           \/ s \in DOMAIN tickers /\ tickers'[s] = tickers[s]
           \/ /\ s \in DOMAIN docs /\ tickers'[s] = docs[s]
              /\ \A q \in Passes \ {p} : pc[q] \notin {"idle"} \cup Ended => s \in stale'[q]
  <2>1. next \in Labels
    BY DEF Labels, Ended
  <2> QED BY <1>1, <2>1, TickersSaved DEF Dates, Feeds
<1>3. \A s \in DOMAIN docs : docs[s].date <= today
  <2>1. today \in Days /\ \A s \in DOMAIN mine[p].tickers : mine[p].tickers[s].date <= today
    BY DaysTyped DEF Dates, Copied, Own
  <2> QED BY <1>1, <2>1 DEF Seed, Days
<1>4. UNCHANGED <<today, job, mine, task>>
  BY <1>1 DEF SaveTickers
<1> QED BY <1>1, <1>2, <1>3, <1>4 DEF Own

\* The steps of a pass without tasks: it reads what is stored, and is as old as that
\* until another pass saves.
LEMMA PassDates ==
  ASSUME Dates, NEW p \in Passes, Start(p) \/ PassStep(p) \/ Kill(p),
         \A s \in Symbols : ~TaskStep(p, s)
  PROVE  /\ \A s \in DOMAIN tickers' : tickers'[s].date <= today'
         /\ \A q \in Passes : Routed(q)'
         /\ \A q \in Passes : \A s \in DOMAIN mine'[q].tickers : Copied(q, s)'
<1>0. /\ IInv /\ CopyTyping /\ Scoped /\ today \in Days
      /\ mine \in [Passes -> [tickers : Documents(Dated), controls : Documents(0..MaxDay)]]
      /\ pc \in [Passes -> Labels] /\ job \in [Passes -> Job]
      /\ tickers \in Documents(Dated)
      /\ \A s \in DOMAIN tickers : tickers[s].date <= today
      /\ \A s \in DOMAIN tickers : tickers[s].date \in 0..MaxDay
      /\ \A q \in Passes : Routed(q)
      /\ \A q \in Passes : \A s \in DOMAIN mine[q].tickers :
           Copied(q, s) /\ s \in Symbols /\ Own(q, s) \in 0..MaxDay
  BY DaysTyped DEF Dates, Feeds, CopyTyping
\* What a step of p does not touch keeps its days.
<1>1. ASSUME UNCHANGED <<today, tickers, job, stale>>, NEW q \in Passes,
             mine'[q] = mine[q], task'[q] = task[q], pc'[q] = pc[q]
      PROVE  Routed(q)' /\ \A s \in DOMAIN mine'[q].tickers : Copied(q, s)'
  BY <1>0, <1>1 DEF Routed, Copied, Own
<1>2. ASSUME NEW ts \in Documents(Dated), NEW cs \in Documents(0..MaxDay),
             Spawn(p, ts, cs), UNCHANGED <<today, db, job, stale>>,
             \A s \in DOMAIN ts :
               /\ ts[s].date <= today
               /\ job[p].kind # "load" /\ s \notin stale[p] =>
                    s \in DOMAIN tickers /\ ts[s].date >= tickers[s].date
      PROVE  /\ \A q \in Passes : Routed(q)'
             /\ \A q \in Passes : \A s \in DOMAIN mine'[q].tickers : Copied(q, s)'
  <2>1. /\ mine'[p].tickers = ts /\ pc'[p] = "working"
        /\ \A q \in Passes : q # p =>
             mine'[q] = mine[q] /\ task'[q] = task[q] /\ pc'[q] = pc[q]
        /\ \A s \in Symbols : task'[p][s].upto = 0
    BY <1>0, <1>2, Spawned
  <2>2. DOMAIN ts \subseteq Symbols /\ UNCHANGED tickers
    BY <1>2, DocumentsOf DEF db
  <2>3. Routed(p)' /\ \A s \in DOMAIN mine'[p].tickers : Copied(p, s)'
    BY <1>2, <2>1, <2>2 DEF Routed, Copied, Own
  <2>4. ASSUME NEW q \in Passes, q # p
        PROVE  Routed(q)' /\ \A s \in DOMAIN mine'[q].tickers : Copied(q, s)'
    BY <1>1, <1>2, <2>1, <2>2, <2>4
  <2> QED BY <2>3, <2>4
\* A pass that only goes on, to a place its job may be at.
<1>3. ASSUME UNCHANGED <<today, tickers, job, mine, task, stale>>,
             pc[p] # "idle" \/ pc'[p] \in Ended,
             pc[p] \notin Ended,
             pc'[p] \notin {"idle", "controls", "quoting"},
             pc'[p] = "seeds" => job[p].kind = "load",
             pc'[p] = "quotes" => pc[p] = "quoting",
             \A q \in Passes : q # p => pc'[q] = pc[q]
      PROVE  /\ \A s \in DOMAIN tickers' : tickers'[s].date <= today'
             /\ \A q \in Passes : Routed(q)'
             /\ \A q \in Passes : \A s \in DOMAIN mine'[q].tickers : Copied(q, s)'
  <2>1. Routed(p)' /\ \A s \in DOMAIN mine'[p].tickers : Copied(p, s)'
    BY <1>0, <1>3 DEF Routed, Copied, Own
  <2> QED BY <1>0, <1>1, <1>3, <2>1
<1>4. CASE ReadSeeds(p)
  <2> DEFINE ts == [s \in job[p].symbols |-> Seed]
  <2>1. ts \in Documents(Dated) /\ SeedControls(p) \in Documents(0..MaxDay)
    BY <1>0, ReadDocuments
  <2>2. \A s \in DOMAIN ts : ts[s].date <= today
    BY <1>0 DEF Seed, Days
  <2>3. Spawn(p, ts, SeedControls(p)) /\ UNCHANGED <<today, db, job, stale>>
        /\ job[p].kind = "load"
    BY <1>4 DEF ReadSeeds
  <2>4. UNCHANGED tickers
    BY <2>3 DEF db
  <2> HIDE DEF ts
  <2> QED BY <1>0, <1>2, <2>1, <2>2, <2>3, <2>4
<1>5. CASE ReadControls(p)
  <2> DEFINE ts == mine[p].tickers
  <2>1. ts \in Documents(Dated) /\ StoredControls(p) \in Documents(0..MaxDay)
    BY <1>0, ReadDocuments
  <2>2. Spawn(p, ts, StoredControls(p)) /\ UNCHANGED <<today, db, job, stale>>
        /\ pc[p] = "controls"
    BY <1>5 DEF ReadControls
  <2>3. \A s \in DOMAIN ts :
          /\ ts[s].date <= today
          /\ job[p].kind # "load" /\ s \notin stale[p] =>
               s \in DOMAIN tickers /\ ts[s].date >= tickers[s].date
    <3>1. \A s \in Symbols : task[p][s].upto = 0
      BY <1>0, <2>2 DEF Routed
    <3> QED BY <1>0, <2>2, <3>1 DEF Copied, Own, Ended
  <2>4. UNCHANGED tickers
    BY <2>2 DEF db
  <2> HIDE DEF ts
  <2> QED BY <1>0, <1>2, <2>1, <2>2, <2>3, <2>4
<1>6. CASE ReadTickers(p)
  <2> DEFINE T  == DOMAIN tickers \cap job[p].symbols
             ts == Restrict(tickers, T)
  <2>1. ts \in Documents(Dated) /\ DOMAIN ts = T /\ \A s \in T : ts[s] = tickers[s]
    BY <1>0, RestrictDocuments
  <2>2. /\ mine' = [mine EXCEPT ![p].tickers = ts]
        /\ pc' = [pc EXCEPT ![p] = IF job[p].kind = "quotes" THEN "quoting" ELSE "controls"]
        /\ UNCHANGED <<today, db, job, task, stale>> /\ pc[p] = "idle"
    BY <1>6 DEF ReadTickers, Goto
  <2> HIDE DEF ts
  <2>3. /\ mine'[p].tickers = ts /\ pc'[p] \in {"quoting", "controls"}
        /\ \A q \in Passes : q # p => mine'[q] = mine[q] /\ pc'[q] = pc[q]
    BY <1>0, <2>1, <2>2
  <2>4. UNCHANGED <<tickers, task, today, job, stale>>
        /\ \A s \in Symbols : task[p][s].upto = 0
    BY <1>0, <2>2 DEF db, Routed
  <2>5. Routed(p)'
    BY <2>3, <2>4 DEF Routed
  <2>6. \A s \in DOMAIN mine'[p].tickers : Copied(p, s)'
    <3>1. ASSUME NEW s \in DOMAIN mine'[p].tickers PROVE Copied(p, s)'
      <4>1. s \in DOMAIN tickers /\ Own(p, s)' = tickers[s].date /\ s \in Symbols
        BY <1>0, <2>1, <2>3, DocumentsOf DEF Own
      <4> QED BY <1>0, <2>4, <4>1 DEF Copied
    <3> QED BY <3>1
  <2> QED BY <1>0, <1>1, <2>3, <2>4, <2>5, <2>6
<1>7. CASE Quote(p)
  <2>1. /\ UNCHANGED <<today, tickers, job, task, stale>> /\ pc[p] = "quoting"
        /\ pc'[p] \in {"quotes", "done", "failed"}
        /\ \A q \in Passes : q # p => pc'[q] = pc[q]
    BY <1>0, <1>7 DEF Quote, Goto, db
  <2>2. CASE mine' = mine
    BY <1>0, <1>3, <2>1, <2>2 DEF Ended
  <2>3. CASE mine' # mine
    <3>1. /\ \A q \in Passes : q # p => mine'[q] = mine[q]
          /\ \A s \in DOMAIN mine'[p].tickers :
               /\ s \in DOMAIN mine[p].tickers
               /\ Own(p, s)' \in {Own(p, s), today} /\ Own(p, s)' >= Own(p, s)
      BY <1>0, <1>7, <2>3, QuotesTaken DEF Own
    <3>2. \A s \in Symbols : task'[p][s].upto = 0
      BY <1>0, <2>1 DEF Routed
    <3>3. Routed(p)'
      BY <2>1, <3>2 DEF Routed
    <3>4. ASSUME NEW s \in DOMAIN mine'[p].tickers PROVE Copied(p, s)'
      <4>1. Copied(p, s) /\ s \in Symbols /\ Own(p, s) \in 0..MaxDay
            /\ Own(p, s)' \in 0..MaxDay /\ Own(p, s)' >= Own(p, s) /\ Own(p, s)' <= today
        BY <1>0, <3>1, TickerSyncAssumption DEF Copied, Days
      <4>2. CASE s \in DOMAIN tickers
        <5>1. tickers[s].date \in 0..MaxDay
          BY <1>0, <4>2
        <5> QED BY <1>0, <2>1, <3>2, <4>1, <4>2, <5>1 DEF Copied, Ended
      <4>3. CASE s \notin DOMAIN tickers
        BY <2>1, <3>2, <4>1, <4>3 DEF Copied, Ended
      <4> QED BY <4>2, <4>3
    <3> QED BY <1>0, <1>1, <2>1, <3>1, <3>3, <3>4
  <2> QED BY <2>2, <2>3
<1>8. CASE SaveUpdated(p) \/ SaveSeeds(p) \/ SaveQuotes(p)
  <2>1. /\ pc[p] \in {"tickers", "seeds", "quotes"}
        /\ pc'[p] \in {"failed", "saveControls", "done"}
        /\ \A q \in Passes : q # p => pc'[q] = pc[q]
        /\ UNCHANGED <<today, job, mine, task>>
        /\ DOMAIN tickers \subseteq DOMAIN tickers'
        /\ \A q \in Passes : stale[q] \subseteq stale'[q]
        /\ stale'[p] = stale[p]
        /\ \A s \in DOMAIN tickers' :
             \/ s \in DOMAIN tickers /\ tickers'[s] = tickers[s]
             \/ /\ tickers'[s].date <= today
                /\ \A q \in Passes \ {p} : pc[q] \notin {"idle"} \cup Ended => s \in stale'[q]
                /\ pc[p] # "seeds" =>
                     s \in DOMAIN mine[p].tickers /\ tickers'[s].date = Own(p, s)
    BY <1>8, SaveDates
  <2>2. \A s \in DOMAIN tickers' : tickers'[s].date <= today'
    BY <1>0, <2>1
  <2>3. \A q \in Passes : Routed(q)'
    BY <1>0, <2>1 DEF Routed
  <2>4. ASSUME NEW q \in Passes, NEW s \in DOMAIN mine'[q].tickers PROVE Copied(q, s)'
    <3>1. Copied(q, s) /\ s \in DOMAIN mine[q].tickers /\ Own(q, s)' = Own(q, s)
          /\ Own(q, s) \in 0..MaxDay
      BY <1>0, <2>1 DEF Own
    <3>2. CASE q = p
      <4>1. pc[p] = "seeds" => job[p].kind = "load"
        BY <1>0 DEF Routed
      <4>2. job[p].kind # "load" /\ s \notin stale[p] => 
              /\ s \in DOMAIN tickers'
              /\ \/ Own(p, s) >= tickers'[s].date
                 \/ task[p][s].upto > 0 /\ Own(p, s) = task[p][s].upto
        BY <2>1, <3>1, <3>2, <4>1 DEF Copied, Ended
      <4> QED BY <2>1, <3>1, <3>2, <4>2 DEF Copied
    <3>3. CASE q # p
      BY <2>1, <3>1, <3>3 DEF Copied
    <3> QED BY <3>2, <3>3
  <2> QED BY <2>2, <2>3, <2>4
<1>9. CASE ReadFails(p)
  BY <1>0, <1>3, <1>9 DEF ReadFails, Goto, Ended, db
<1>10. CASE Join(p) \/ SaveControls(p)
  <2>1. PICK l \in {"tickers", "seeds", "done", "failed"} :
          Goto(p, l) /\ (l = "seeds" => job[p].kind = "load")
    BY <1>10 DEF Join, SaveControls, AfterSave
  <2>2. UNCHANGED <<today, tickers, job, mine, task, stale>>
        /\ pc[p] \in {"working", "saveControls"}
    BY <1>10 DEF Join, SaveControls, db
  <2> QED BY <1>0, <1>3, <2>1, <2>2 DEF Goto, Ended
<1>11. CASE Kill(p)
  BY <1>0, <1>3, <1>11 DEF Kill, Goto, Ended
<1> QED BY <1>0, <1>4, <1>5, <1>6, <1>7, <1>8, <1>9, <1>10, <1>11
    DEF Start, PassStep, ReadSeeds, ReadControls, db

\* The invariant of the days holds at first and is kept by every step.
LEMMA InitDates == ASSUME Init PROVE Dates
<1>1. Feeds
  BY InitFeeds
<1>2. \A s \in DOMAIN tickers : tickers[s].date <= today
  BY DEF Init, Seed
<1>3. \A p \in Passes : Routed(p) /\ DOMAIN mine[p].tickers = {}
  BY DEF Init, Routed, NoTask
<1> QED BY <1>1, <1>2, <1>3 DEF Dates

LEMMA StepDates == ASSUME Dates, [Next]_vars PROVE Dates'
<1>1. Feeds'
  BY StepFeeds DEF Dates
<1>2. CASE UNCHANGED vars
  BY <1>1, <1>2 DEF vars, Dates, Routed, Copied, Own
<1>3. CASE Publish
  <2>1. /\ today \in Days /\ today' = today + 1
        /\ \A s \in DOMAIN tickers : tickers[s].date \in 0..MaxDay
        /\ \A p \in Passes : \A s \in DOMAIN mine[p].tickers : Own(p, s) \in 0..MaxDay
        /\ UNCHANGED <<tickers, job, pc, mine, task, stale>>
    BY <1>3, DaysTyped DEF Publish, db
  <2>2. \A s \in DOMAIN tickers' : tickers'[s].date <= today'
    BY <2>1 DEF Dates, Days
  <2>3. \A p \in Passes : Routed(p)'
    BY <2>1 DEF Dates, Routed
  <2>4. ASSUME NEW p \in Passes, NEW s \in DOMAIN mine'[p].tickers PROVE Copied(p, s)'
    <3>1. Copied(p, s) /\ Own(p, s) \in 0..MaxDay /\ Own(p, s)' = Own(p, s)
      BY <2>1 DEF Dates, Own
    <3>2. Own(p, s)' <= today'
      BY <2>1, <3>1 DEF Copied, Days
    <3> QED BY <2>1, <3>1, <3>2 DEF Copied
  <2> QED BY <1>1, <2>2, <2>3, <2>4 DEF Dates
<1>4. ASSUME NEW p \in Passes, Start(p) \/ PassStep(p) \/ Kill(p) PROVE Dates'
  BY <1>1, <1>4, TaskDates, PassDates DEF Dates
<1> QED BY <1>2, <1>3, <1>4 DEF Next

LEMMA DatesAlways == Spec => []Dates
BY InitDates, StepDates, PTL DEF Spec

\* The day of a ticker's price goes back only when a pass saves a copy that another
\* pass's save has overtaken, when a load, which starts from the seeds, saves, or when
\* the bars of an end-of-day pass end before it (the passes read the tickers, work for
\* minutes, and bulk_update whole documents).
THEOREM DateForward == Spec => DateNeverBack
<1> DEFINE Back == \A s \in DOMAIN tickers :
                     tickers'[s].date < tickers[s].date =>
                       \E p \in Passes :
                         /\ pc[p] \in {"tickers", "seeds", "quotes"} /\ pc'[p] # pc[p]
                         /\ \/ s \in stale[p] \/ job[p].kind = "load"
                            \/ /\ pc[p] = "tickers"
                               /\ task[p][s].upto \in 1..(tickers[s].date - 1)
<1>1. ASSUME Dates, NEW p \in Passes, SaveUpdated(p) \/ SaveSeeds(p) \/ SaveQuotes(p)
      PROVE  Back
  <2>1. ASSUME NEW s \in DOMAIN tickers, tickers'[s].date < tickers[s].date
        PROVE  \/ s \in stale[p] \/ job[p].kind = "load"
               \/ pc[p] = "tickers" /\ task[p][s].upto \in 1..(tickers[s].date - 1)
    <3>1. /\ tickers[s].date \in 0..MaxDay /\ tickers'[s] # tickers[s]
          /\ s \in DOMAIN tickers' /\ pc[p] \in {"tickers", "seeds", "quotes"}
      <4>1. tickers[s].date \in 0..MaxDay
        BY <1>1, DaysTyped
      <4> QED BY <1>1, <2>1, <4>1, SaveDates
    <3>2. pc[p] # "seeds" => s \in DOMAIN mine[p].tickers /\ tickers'[s].date = Own(p, s)
      BY <1>1, <3>1, SaveDates
    <3>3. pc[p] = "seeds" => job[p].kind = "load"
      BY <1>1 DEF Dates, Routed
    <3>4. pc[p] = "quotes" => task[p][s].upto = 0
      <4>1. s \in Symbols
        BY <1>1, DocumentsOf DEF Dates, Feeds, CopyTyping
      <4> QED BY <1>1, <4>1 DEF Dates, Routed
    <3>5. pc[p] # "seeds" => Own(p, s) \in 0..MaxDay /\ Copied(p, s) /\ task[p][s].upto \in 0..MaxDay
      BY <1>1, <3>2, DaysTyped DEF Dates
    <3> QED BY <2>1, <3>1, <3>2, <3>3, <3>4, <3>5 DEF Copied, Ended
  <2>2. pc[p] \in {"tickers", "seeds", "quotes"} /\ pc'[p] # pc[p]
    BY <1>1, SaveDates
  <2> QED BY <2>1, <2>2
<1>2. ASSUME Dates, UNCHANGED tickers PROVE Back
  <2>1. \A s \in DOMAIN tickers : tickers[s].date \in 0..MaxDay
    BY <1>2, DaysTyped
  <2> QED BY <1>2, <2>1
<1>3. ASSUME Dates, [Next]_vars PROVE Back
  <2>1. CASE Publish \/ UNCHANGED vars
    BY <1>2, <1>3, <2>1 DEF Publish, vars, db
  <2>2. ASSUME NEW p \in Passes, NEW s \in Symbols, TaskStep(p, s) PROVE Back
    BY <1>2, <1>3, <2>2, OneTaskMoves DEF Dates, Feeds
  <2>3. ASSUME NEW p \in Passes, Start(p) \/ PassStep(p) \/ Kill(p) PROVE Back
    <3>1. CASE SaveUpdated(p) \/ SaveSeeds(p) \/ SaveQuotes(p)
      BY <1>1, <1>3, <3>1
    <3>2. CASE UNCHANGED tickers
      BY <1>2, <1>3, <3>2
    <3> QED
      BY <2>2, <2>3, <3>1, <3>2 DEF Start, PassStep, ReadSeeds, ReadTickers, ReadControls,
         ReadFails, Join, SaveControls, Quote, Kill, db
  <2> QED BY <1>3, <2>1, <2>3 DEF Next
<1>4. Dates /\ [Next]_vars => [Back]_vars
  BY <1>3
<1> QED BY <1>4, DatesAlways, PTL DEF Spec, DateNeverBack

-----------------------------------------------------------------------------
(* The signals of a day: what each name says of the values. *)

Above(c, a, b) == c[a] \in Int /\ c[b] \in Int /\ c[a] > c[b]

\* Values as a day has them.
Fits(c) == /\ \A k \in DOMAIN c : c[k] \in Int
           /\ "stochastic_k" \notin DOMAIN c
           /\ Has(c, {"bb_lower", "bb_upper"}) => c["bb_lower"] <= c["bb_upper"]

Low(c)  == c["rsi_14"] \in Int /\ c["rsi_14"] < 35
High(c) == c["rsi_14"] \in Int /\ c["rsi_14"] > 65

Growing(p, c) == c["macd_histogram"] * c["macd_histogram"] > p["macd_histogram"] * p["macd_histogram"]

SeverityNames == {"Deeply Oversold", "Moderately Oversold", "Deeply Overbought",
                  "Moderately Overbought"}

\* What the name n of a signal says of the day c and the day p before it.
Tells(n, p, c) ==
  /\ n \in {"Golden Cross", "Golden Cross Active", "SMA Stack Bullish", "Bullish Pullback"} =>
       Above(c, "sma_50", "sma_200")
  /\ n \in {"Death Cross", "Death Cross Active", "SMA Stack Bearish", "Bearish Rally"} =>
       Above(c, "sma_200", "sma_50")
  /\ n = "Golden Cross" => ~ Above(p, "sma_50", "sma_200")
  /\ n = "Death Cross" => ~ Above(p, "sma_200", "sma_50")
  /\ n = "Above SMA50" => Above(c, "price", "sma_50")
  /\ n = "Below SMA50" => Above(c, "sma_50", "price")
  /\ n \in {"RSI Oversold", "RSI Multi-period Oversold"} => Low(c)
  /\ n \in {"RSI Overbought", "RSI Multi-period Overbought"} => High(c)
  /\ n = "MACD Bullish Crossover" => Above(c, "macd", "macd_signal")
  /\ n = "MACD Bearish Crossover" => Above(c, "macd_signal", "macd")
  /\ n = "MACD Histogram Expanding" => Growing(p, c)
  /\ n = "MACD Histogram Weakening" => ~ Growing(p, c)
  /\ n = "BB Breakout Upper" => Above(c, "price", "bb_lower")
  /\ n = "BB Breakout Lower" => Above(c, "bb_lower", "price")
  /\ n \notin SeverityNames \cup {"Stochastic Bullish", "Stochastic Bearish"}

LEMMA WhenHolds ==
  \A b \in BOOLEAN : \A m, d, s :
    s \in When(b, m, d) <=> b /\ s = [name |-> m, direction |-> d]
  BY DEF When

LEMMA WhenTells ==
  \A b \in BOOLEAN : \A m, d, s : s \in When(b, m, d) => b /\ s.name = m
  <1> TAKE b \in BOOLEAN
  <1> TAKE m, d, s
  <1> HAVE s \in When(b, m, d)
  <1>1. b /\ s = [name |-> m, direction |-> d]
    BY WhenHolds
  <1>2. QED BY <1>1

LEMMA TwoNames ==
  \A b1 \in BOOLEAN, b2 \in BOOLEAN : \A m1, d1, m2, d2, n :
    n \in SignalNames(When(b1, m1, d1) \cup When(b2, m2, d2)) <=>
      (n = m1 /\ b1) \/ (n = m2 /\ b2)
  <1> TAKE b1 \in BOOLEAN, b2 \in BOOLEAN
  <1> TAKE m1, d1, m2, d2, n
  <1> DEFINE S == When(b1, m1, d1)  T == When(b2, m2, d2)
             s == [name |-> m1, direction |-> d1]
             t == [name |-> m2, direction |-> d2]
  <1>1. s.name = m1 /\ t.name = m2
    OBVIOUS
  <1>2. /\ \A u : u \in S <=> b1 /\ u = s
        /\ \A u : u \in T <=> b2 /\ u = t
    BY WhenHolds
  <1> HIDE DEF S, T, s, t
  <1>3. n \in SignalNames(S \cup T) <=> (n = m1 /\ b1) \/ (n = m2 /\ b2)
    BY <1>1, <1>2 DEF SignalNames
  <1>4. QED BY <1>3 DEF S, T

LEMMA SmaStackTells ==
  ASSUME NEW p, NEW c, Fits(c), NEW s \in SmaStack(c) PROVE Tells(s.name, p, c)
  <1> DEFINE up == c["sma_20"] > c["sma_50"] /\ c["sma_50"] > c["sma_100"] /\ c["sma_100"] > c["sma_200"]
             down == c["sma_20"] < c["sma_50"] /\ c["sma_50"] < c["sma_100"] /\ c["sma_100"] < c["sma_200"]
             n == s.name
  <1>1. Has(c, {"sma_20", "sma_50", "sma_100", "sma_200"})
    BY DEF SmaStack
  <1>2. s \in When(up, "SMA Stack Bullish", "bullish") \cup When(down, "SMA Stack Bearish", "bearish")
    BY <1>1 DEF SmaStack
  <1>3. up \in BOOLEAN /\ down \in BOOLEAN
    OBVIOUS
  <1>4. up => Above(c, "sma_50", "sma_200")
    BY <1>1 DEF Has, Fits, Above
  <1>5. down => Above(c, "sma_200", "sma_50")
    BY <1>1 DEF Has, Fits, Above
  <1> HIDE DEF up, down
  <1>6. (n = "SMA Stack Bullish" /\ up) \/ (n = "SMA Stack Bearish" /\ down)
    BY <1>2, <1>3, WhenTells
  <1> HIDE DEF n
  <1>7. Tells(n, p, c)
    BY <1>4, <1>5, <1>6 DEF Tells, SeverityNames
  <1>8. QED BY <1>7 DEF n

LEMMA Sma50Tells ==
  ASSUME NEW p, NEW c, Fits(c), NEW s \in Sma50(c) PROVE Tells(s.name, p, c)
  <1> DEFINE over == c["price"] > c["sma_50"]
             under == c["price"] < c["sma_50"]
             pull == c["sma_50"] > c["sma_200"] /\ c["price"] > c["sma_50"] /\ c["rsi_14"] \in 40..55
             rally == c["sma_50"] < c["sma_200"] /\ c["price"] < c["sma_50"] /\ c["rsi_14"] \in 46..60
             n == s.name
  <1>1. Has(c, {"price", "sma_50", "sma_200", "rsi_14"})
    BY DEF Sma50
  <1>2. s \in When(over, "Above SMA50", "bullish") \cup When(under, "Below SMA50", "bearish")
             \cup When(pull, "Bullish Pullback", "bullish") \cup When(rally, "Bearish Rally", "bearish")
    BY <1>1 DEF Sma50
  <1>3. over \in BOOLEAN /\ under \in BOOLEAN /\ pull \in BOOLEAN /\ rally \in BOOLEAN
    OBVIOUS
  <1>4. /\ over => Above(c, "price", "sma_50")
        /\ under => Above(c, "sma_50", "price")
        /\ pull => Above(c, "sma_50", "sma_200")
        /\ rally => Above(c, "sma_200", "sma_50")
    BY <1>1 DEF Has, Fits, Above
  <1> HIDE DEF over, under, pull, rally
  <1>5. \/ n = "Above SMA50" /\ over
        \/ n = "Below SMA50" /\ under
        \/ n = "Bullish Pullback" /\ pull
        \/ n = "Bearish Rally" /\ rally
    BY <1>2, <1>3, WhenTells
  <1> HIDE DEF n
  <1>6. Tells(n, p, c)
    BY <1>4, <1>5 DEF Tells, SeverityNames
  <1>7. QED BY <1>6 DEF n

LEMMA TrendNames ==
  \A c, n : Fits(c) =>
    (n \in SignalNames(SmaTrendState(c)) <=>
       /\ Has(c, Averages)
       /\ \/ n = "Golden Cross Active" /\ Above(c, "sma_50", "sma_200")
          \/ n = "Death Cross Active" /\ Above(c, "sma_200", "sma_50"))
  <1> TAKE c, n
  <1> HAVE Fits(c)
  <1> DEFINE up == c["sma_50"] > c["sma_200"]  down == c["sma_50"] < c["sma_200"]
             names == SignalNames(When(up, "Golden Cross Active", "bullish")
                                  \cup When(down, "Death Cross Active", "bearish"))
  <1>1. CASE Has(c, Averages)
    <2>1. up \in BOOLEAN /\ down \in BOOLEAN
      OBVIOUS
    <2>2. SignalNames(SmaTrendState(c)) = names
      BY <1>1 DEF SmaTrendState, Averages
    <2>3. (up <=> Above(c, "sma_50", "sma_200")) /\ (down <=> Above(c, "sma_200", "sma_50"))
      BY <1>1 DEF Has, Averages, Fits, Above
    <2> HIDE DEF up, down
    <2> DEFINE TwoOf(m1, d1, m2, d2) == SignalNames(When(up, m1, d1) \cup When(down, m2, d2))
    <2>4. \A m1, d1, m2, d2 : n \in TwoOf(m1, d1, m2, d2) <=> (n = m1 /\ up) \/ (n = m2 /\ down)
      BY <2>1, TwoNames
    <2> HIDE DEF TwoOf
    <2>5. n \in TwoOf("Golden Cross Active", "bullish", "Death Cross Active", "bearish") <=>
            (n = "Golden Cross Active" /\ up) \/ (n = "Death Cross Active" /\ down)
      BY <2>4
    <2>6. n \in names <=> (n = "Golden Cross Active" /\ up) \/ (n = "Death Cross Active" /\ down)
      BY <2>5 DEF TwoOf
    <2> HIDE DEF names
    <2>7. QED BY <1>1, <2>2, <2>3, <2>6
  <1>2. CASE ~ Has(c, Averages)
    BY <1>2 DEF SmaTrendState, Averages, SignalNames
  <1>3. QED BY <1>1, <1>2

LEMMA TrendTells ==
  ASSUME NEW p, NEW c, Fits(c), NEW s \in SmaTrendState(c) PROVE Tells(s.name, p, c)
  <1> DEFINE n == s.name
  <1>1. n \in SignalNames(SmaTrendState(c))
    BY DEF SignalNames
  <1> HIDE DEF n
  <1>2. \/ n = "Golden Cross Active" /\ Above(c, "sma_50", "sma_200")
        \/ n = "Death Cross Active" /\ Above(c, "sma_200", "sma_50")
    BY <1>1, TrendNames
  <1>3. Tells(n, p, c)
    BY <1>2 DEF Tells, SeverityNames
  <1>4. QED BY <1>3 DEF n

\* A crossing in terms of the two days.
LEMMA CrossNames ==
  \A p, c, a, b, over, under, n : Fits(p) /\ Fits(c) =>
    (n \in SignalNames(CrossOver(p, c, a, b, over, under)) <=>
       /\ Has(c, {a, b}) /\ Has(p, {a, b})
       /\ \/ n = over /\ Above(c, a, b) /\ ~ Above(p, a, b)
          \/ n = under /\ Above(c, b, a) /\ ~ Above(p, b, a))
  <1> TAKE p, c, a, b, over, under, n
  <1> HAVE Fits(p) /\ Fits(c)
  <1> DEFINE up == c[a] > c[b] /\ p[a] <= p[b]  down == c[a] < c[b] /\ p[a] >= p[b]
             names == SignalNames(When(up, over, "bullish") \cup When(down, under, "bearish"))
  <1>1. CASE Has(c, {a, b}) /\ Has(p, {a, b})
    <2>1. c[a] \in Int /\ c[b] \in Int /\ p[a] \in Int /\ p[b] \in Int
      BY <1>1 DEF Has, Fits
    <2>2. SignalNames(CrossOver(p, c, a, b, over, under)) = names
      BY <1>1 DEF CrossOver
    <2>3. /\ up <=> Above(c, a, b) /\ ~ Above(p, a, b)
          /\ down <=> Above(c, b, a) /\ ~ Above(p, b, a)
      BY <2>1 DEF Above
    <2>4. up \in BOOLEAN /\ down \in BOOLEAN
      OBVIOUS
    <2> HIDE DEF up, down
    <2>5. n \in names <=> (n = over /\ up) \/ (n = under /\ down)
      BY <2>4, TwoNames
    <2> HIDE DEF names
    <2>6. QED BY <1>1, <2>2, <2>3, <2>5
  <1>2. CASE ~ (Has(c, {a, b}) /\ Has(p, {a, b}))
    BY <1>2 DEF CrossOver, SignalNames
  <1>3. QED BY <1>1, <1>2

LEMMA CrossTells ==
  ASSUME NEW p, NEW c, Fits(p), Fits(c), NEW a, NEW b, NEW over, NEW under,
         NEW s \in CrossOver(p, c, a, b, over, under)
  PROVE  \/ s.name = over /\ Above(c, a, b) /\ ~ Above(p, a, b)
         \/ s.name = under /\ Above(c, b, a) /\ ~ Above(p, b, a)
  <1> DEFINE n == s.name
  <1>1. n \in SignalNames(CrossOver(p, c, a, b, over, under))
    BY DEF SignalNames
  <1> HIDE DEF n
  <1>2. \/ n = over /\ Above(c, a, b) /\ ~ Above(p, a, b)
        \/ n = under /\ Above(c, b, a) /\ ~ Above(p, b, a)
    BY <1>1, CrossNames
  <1>3. QED BY <1>2 DEF n

LEMMA SmaCrossTells ==
  ASSUME NEW p, NEW c, Fits(p), Fits(c), NEW s \in SmaCrossover(p, c) PROVE Tells(s.name, p, c)
  <1> DEFINE n == s.name
  <1>1. s \in CrossOver(p, c, "sma_50", "sma_200", "Golden Cross", "Death Cross")
    BY DEF SmaCrossover
  <1>2. \/ n = "Golden Cross" /\ Above(c, "sma_50", "sma_200") /\ ~ Above(p, "sma_50", "sma_200")
        \/ n = "Death Cross" /\ Above(c, "sma_200", "sma_50") /\ ~ Above(p, "sma_200", "sma_50")
    BY <1>1, CrossTells
  <1> HIDE DEF n
  <1>3. Tells(n, p, c)
    BY <1>2 DEF Tells, SeverityNames
  <1>4. QED BY <1>3 DEF n

LEMMA MacdCrossTells ==
  ASSUME NEW p, NEW c, Fits(p), Fits(c), NEW s \in MacdCrossover(p, c) PROVE Tells(s.name, p, c)
  <1> DEFINE n == s.name
  <1>1. s \in CrossOver(p, c, "macd", "macd_signal",
                        "MACD Bullish Crossover", "MACD Bearish Crossover")
    BY DEF MacdCrossover
  <1>2. \/ n = "MACD Bullish Crossover" /\ Above(c, "macd", "macd_signal")
           /\ ~ Above(p, "macd", "macd_signal")
        \/ n = "MACD Bearish Crossover" /\ Above(c, "macd_signal", "macd")
           /\ ~ Above(p, "macd_signal", "macd")
    BY <1>1, CrossTells
  <1> HIDE DEF n
  <1>3. Tells(n, p, c)
    BY <1>2 DEF Tells, SeverityNames
  <1>4. QED BY <1>3 DEF n

LEMMA HistogramTells ==
  ASSUME NEW p, NEW c, Fits(p), Fits(c), NEW s \in MacdHistogramTrend(p, c)
  PROVE  Tells(s.name, p, c)
  <1> DEFINE h == c["macd_histogram"]
             ph == p["macd_histogram"]
             sameSide == (h > 0 /\ ph > 0) \/ (h < 0 /\ ph < 0)
             growing == h * h > ph * ph
             away == IF h > 0 THEN "bullish" ELSE "bearish"
             back == IF h > 0 THEN "bearish" ELSE "bullish"
             wider == sameSide /\ growing
             weaker == sameSide /\ ~ growing
             n == s.name
  <1>1. s \in When(wider, "MACD Histogram Expanding", away)
             \cup When(weaker, "MACD Histogram Weakening", back)
    BY DEF MacdHistogramTrend
  <1>2. wider \in BOOLEAN /\ weaker \in BOOLEAN
    OBVIOUS
  <1>3. (wider => Growing(p, c)) /\ (weaker => ~ Growing(p, c))
    BY DEF Growing
  <1> HIDE DEF wider, weaker, away, back
  <1>4. \/ n = "MACD Histogram Expanding" /\ wider
        \/ n = "MACD Histogram Weakening" /\ weaker
    BY <1>1, <1>2, WhenTells
  <1> HIDE DEF n
  <1>5. Tells(n, p, c)
    BY <1>3, <1>4 DEF Tells, SeverityNames
  <1>6. QED BY <1>5 DEF n

LEMMA BandsTell ==
  ASSUME NEW p, NEW c, Fits(c), NEW s \in BollingerBands(c) PROVE Tells(s.name, p, c)
  <1> DEFINE over == c["price"] > c["bb_upper"]
             under == c["price"] < c["bb_lower"]
             narrow == c["bb_middle"] > 0
                       /\ (c["bb_upper"] - c["bb_lower"]) * 100 < 4 * c["bb_middle"]
             n == s.name
  <1>1. Has(c, {"price", "bb_upper", "bb_middle", "bb_lower"})
    BY DEF BollingerBands
  <1>2. s \in When(over, "BB Breakout Upper", "bullish") \cup When(under, "BB Breakout Lower", "bearish")
             \cup When(narrow, "BB Squeeze", "neutral")
    BY <1>1 DEF BollingerBands
  <1>3. over \in BOOLEAN /\ under \in BOOLEAN /\ narrow \in BOOLEAN
    OBVIOUS
  <1>4. (over => Above(c, "price", "bb_lower")) /\ (under => Above(c, "bb_lower", "price"))
    BY <1>1 DEF Has, Fits, Above
  <1> HIDE DEF over, under, narrow
  <1>5. \/ n = "BB Breakout Upper" /\ over
        \/ n = "BB Breakout Lower" /\ under
        \/ n = "BB Squeeze"
    BY <1>2, <1>3, WhenTells
  <1> HIDE DEF n
  <1>6. Tells(n, p, c)
    BY <1>4, <1>5 DEF Tells, SeverityNames
  <1>7. QED BY <1>6 DEF n

LEMMA RsiTells ==
  ASSUME NEW p, NEW c, Fits(c), NEW s \in Rsi(c) PROVE Tells(s.name, p, c)
  <1> DEFINE all == {"rsi_10", "rsi_14", "rsi_26"}
             sold == c["rsi_14"] < 30
             bought == c["rsi_14"] > 70
             allLow == Has(c, all) /\ \A k \in all : c[k] < 35
             allHigh == Has(c, all) /\ \A k \in all : c[k] > 65
             n == s.name
  <1>1. Has(c, {"rsi_14"})
    BY DEF Rsi
  <1>2. s \in When(sold, "RSI Oversold", "bearish") \cup When(bought, "RSI Overbought", "bearish")
             \cup When(allLow, "RSI Multi-period Oversold", "bullish")
             \cup When(allHigh, "RSI Multi-period Overbought", "bearish")
    BY <1>1 DEF Rsi
  <1>3. sold \in BOOLEAN /\ bought \in BOOLEAN /\ allLow \in BOOLEAN /\ allHigh \in BOOLEAN
    OBVIOUS
  <1>4. /\ sold \/ allLow => Low(c)
        /\ bought \/ allHigh => High(c)
    BY <1>1 DEF Has, Fits, Low, High
  <1> HIDE DEF sold, bought, allLow, allHigh
  <1>5. \/ n = "RSI Oversold" /\ sold
        \/ n = "RSI Overbought" /\ bought
        \/ n = "RSI Multi-period Oversold" /\ allLow
        \/ n = "RSI Multi-period Overbought" /\ allHigh
    BY <1>2, <1>3, WhenTells
  <1> HIDE DEF n
  <1>6. Tells(n, p, c)
    BY <1>4, <1>5 DEF Tells, SeverityNames
  <1>7. QED BY <1>6 DEF n

LEMMA VolatilityTells ==
  ASSUME NEW p, NEW c, NEW s \in Volatility(p, c) PROVE Tells(s.name, p, c)
  <1> DEFINE more == c["atr"] > p["atr"]  less == c["atr"] < p["atr"]  n == s.name
  <1>1. s \in When(more, "Volatility Expanding", "neutral")
             \cup When(less, "Volatility Contracting", "neutral")
    BY DEF Volatility
  <1>2. more \in BOOLEAN /\ less \in BOOLEAN
    OBVIOUS
  <1> HIDE DEF more, less
  <1>3. n \in {"Volatility Expanding", "Volatility Contracting"}
    BY <1>1, <1>2, WhenTells
  <1> HIDE DEF n
  <1>4. Tells(n, p, c)
    BY <1>3 DEF Tells, SeverityNames
  <1>5. QED BY <1>4 DEF n

\* %K is not kept under the key these ask for.
LEMMA NothingStochastic ==
  ASSUME NEW p, NEW c, Fits(c)
  PROVE  /\ Stochastic(p, c) = {} /\ Confluence(c) = {} /\ Momentum(p, c) = {}
         /\ TrendExhaustion(p, c) = {} /\ MeanReversion(p, c) = {}
  <1>1. \A ks : "stochastic_k" \in ks => ~ Has(c, ks)
    BY DEF Has, Fits
  <1>2. Stochastic(p, c) = {}
    BY <1>1 DEF Stochastic, CrossOver
  <1>3. Confluence(c) = {}
    BY <1>1 DEF Confluence
  <1>4. Momentum(p, c) = {}
    BY <1>1 DEF Momentum
  <1>5. TrendExhaustion(p, c) = {}
    BY <1>1 DEF TrendExhaustion
  <1>6. MeanReversion(p, c) = {}
    BY <1>1 DEF MeanReversion
  <1>7. QED BY <1>2, <1>3, <1>4, <1>5, <1>6

\* The signals the composites are counted from.
FoundOn(c, p, first) ==
  SmaStack(c) \cup Sma50(c) \cup SmaTrendState(c) \cup BollingerBands(c) \cup Rsi(c)
  \cup (IF first THEN {}
        ELSE SmaCrossover(p, c) \cup MacdCrossover(p, c) \cup MacdHistogramTrend(p, c)
             \cup Volatility(p, c))

LEMMA DayOf ==
  ASSUME NEW c, NEW p, NEW first \in BOOLEAN, Fits(c)
  PROVE  DaySignals(c, p, first) = FoundOn(c, p, first) \cup Severities(FoundOn(c, p, first))
  <1> DEFINE asked == SmaStack(c) \cup Sma50(c) \cup SmaTrendState(c) \cup BollingerBands(c) \cup Rsi(c)
                      \cup (IF first THEN {}
                            ELSE SmaCrossover(p, c) \cup MacdCrossover(p, c) \cup MacdHistogramTrend(p, c)
                                 \cup Stochastic(p, c) \cup Momentum(p, c) \cup TrendExhaustion(p, c)
                                 \cup MeanReversion(p, c) \cup Volatility(p, c))
                      \cup Confluence(c)
  <1>1. DaySignals(c, p, first) = asked \cup Severities(asked)
    BY DEF DaySignals
  <1>2. asked = FoundOn(c, p, first)
    BY NothingStochastic DEF FoundOn
  <1> HIDE DEF asked
  <1>3. QED BY <1>1, <1>2

LEMMA FoundTells ==
  ASSUME NEW c, NEW p, NEW first \in BOOLEAN, Fits(c), first \/ Fits(p),
         NEW s \in FoundOn(c, p, first)
  PROVE  Tells(s.name, p, c)
  <1>1. CASE s \in SmaStack(c)
    BY <1>1, SmaStackTells
  <1>2. CASE s \in Sma50(c)
    BY <1>2, Sma50Tells
  <1>3. CASE s \in SmaTrendState(c)
    BY <1>3, TrendTells
  <1>4. CASE s \in BollingerBands(c)
    BY <1>4, BandsTell
  <1>5. CASE s \in Rsi(c)
    BY <1>5, RsiTells
  <1>6. CASE Fits(p) /\ s \in SmaCrossover(p, c)
    BY <1>6, SmaCrossTells
  <1>7. CASE Fits(p) /\ s \in MacdCrossover(p, c)
    BY <1>7, MacdCrossTells
  <1>8. CASE Fits(p) /\ s \in MacdHistogramTrend(p, c)
    BY <1>8, HistogramTells
  <1>9. CASE s \in Volatility(p, c)
    BY <1>9, VolatilityTells
  <1>10. QED BY <1>1, <1>2, <1>3, <1>4, <1>5, <1>6, <1>7, <1>8, <1>9 DEF FoundOn

\* At most one of three, and not the fourth.
LEMMA FewOfThree ==
  ASSUME NEW B, NEW x, NEW y, NEW z, NEW w, w \notin B,
         x \notin B \/ y \notin B, x \notin B \/ z \notin B, y \notin B \/ z \notin B
  PROVE  Cardinality(B \cap {x, y, z, w}) \in Nat /\ Cardinality(B \cap {x, y, z, w}) <= 1
  <1> DEFINE both == B \cap {x, y, z, w}
  <1>1. PICK v : both \subseteq {v}
    OBVIOUS
  <1>2. IsFiniteSet({v}) /\ Cardinality({v}) = 1
    BY FS_Singleton
  <1> HIDE DEF both
  <1>3. IsFiniteSet(both) /\ Cardinality(both) <= Cardinality({v})
    BY <1>1, <1>2, FS_Subset
  <1>4. Cardinality(both) \in Nat
    BY <1>3, FS_CardinalityType
  <1>5. QED BY <1>2, <1>3, <1>4 DEF both

LEMMA FewOfCombo ==
  /\ \A B : /\ "Stochastic Bearish" \notin B
            /\ Cardinality(B \cap OversoldCombo) >= 2
            => \/ "RSI Oversold" \in B /\ "BB Breakout Lower" \in B
               \/ "RSI Oversold" \in B /\ "Below SMA50" \in B
               \/ "BB Breakout Lower" \in B /\ "Below SMA50" \in B
  /\ \A B : /\ "Stochastic Bullish" \notin B
            /\ Cardinality(B \cap OverboughtCombo) >= 2
            => \/ "RSI Overbought" \in B /\ "BB Breakout Upper" \in B
               \/ "RSI Overbought" \in B /\ "Above SMA50" \in B
               \/ "BB Breakout Upper" \in B /\ "Above SMA50" \in B
  <1>1. OversoldCombo = {"RSI Oversold", "BB Breakout Lower", "Below SMA50", "Stochastic Bearish"}
    BY DEF OversoldCombo
  <1>2. OverboughtCombo = {"RSI Overbought", "BB Breakout Upper", "Above SMA50", "Stochastic Bullish"}
    BY DEF OverboughtCombo
  <1>3. ASSUME NEW B, NEW x, NEW y, NEW z, NEW w, w \notin B, Cardinality(B \cap {x, y, z, w}) >= 2
        PROVE  (x \in B /\ y \in B) \/ (x \in B /\ z \in B) \/ (y \in B /\ z \in B)
    <2>1. SUFFICES ASSUME ~ ((x \in B /\ y \in B) \/ (x \in B /\ z \in B) \/ (y \in B /\ z \in B))
                   PROVE  FALSE
      OBVIOUS
    <2>2. Cardinality(B \cap {x, y, z, w}) \in Nat /\ Cardinality(B \cap {x, y, z, w}) <= 1
      BY <1>3, <2>1, FewOfThree
    <2>3. QED BY <1>3, <2>2
  <1>4. QED BY <1>1, <1>2, <1>3

Counted(c, p, first, combo) == Cardinality(SignalNames(FoundOn(c, p, first)) \cap combo)

LEMMA NeverBoth ==
  /\ \A c, a, b : ~ (Above(c, a, b) /\ Above(c, b, a))
  /\ \A c : ~ (Low(c) /\ High(c))
  BY DEF Above, Low, High

\* What Tells says, name by name.
LEMMA SpellOut ==
  \A N, p, c : (\A n \in N \ SeverityNames : Tells(n, p, c)) =>
    /\ "Golden Cross" \in N => Above(c, "sma_50", "sma_200") /\ ~ Above(p, "sma_50", "sma_200")
    /\ "Death Cross" \in N => Above(c, "sma_200", "sma_50") /\ ~ Above(p, "sma_200", "sma_50")
    /\ "Golden Cross Active" \in N => Above(c, "sma_50", "sma_200")
    /\ "Death Cross Active" \in N => Above(c, "sma_200", "sma_50")
    /\ "SMA Stack Bullish" \in N => Above(c, "sma_50", "sma_200")
    /\ "SMA Stack Bearish" \in N => Above(c, "sma_200", "sma_50")
    /\ "Bullish Pullback" \in N => Above(c, "sma_50", "sma_200")
    /\ "Bearish Rally" \in N => Above(c, "sma_200", "sma_50")
    /\ "Above SMA50" \in N => Above(c, "price", "sma_50")
    /\ "Below SMA50" \in N => Above(c, "sma_50", "price")
    /\ "RSI Oversold" \in N => Low(c)
    /\ "RSI Multi-period Oversold" \in N => Low(c)
    /\ "RSI Overbought" \in N => High(c)
    /\ "RSI Multi-period Overbought" \in N => High(c)
    /\ "MACD Bullish Crossover" \in N => Above(c, "macd", "macd_signal")
    /\ "MACD Bearish Crossover" \in N => Above(c, "macd_signal", "macd")
    /\ "MACD Histogram Expanding" \in N => Growing(p, c)
    /\ "MACD Histogram Weakening" \in N => ~ Growing(p, c)
    /\ "BB Breakout Upper" \in N => Above(c, "price", "bb_lower")
    /\ "BB Breakout Lower" \in N => Above(c, "bb_lower", "price")
    /\ "Stochastic Bullish" \notin N
    /\ "Stochastic Bearish" \notin N
  <1> TAKE N, p, c
  <1> HAVE \A n \in N \ SeverityNames : Tells(n, p, c)
  <1>1. /\ "Golden Cross" \in N => Above(c, "sma_50", "sma_200") /\ ~ Above(p, "sma_50", "sma_200")
        /\ "Death Cross" \in N => Above(c, "sma_200", "sma_50") /\ ~ Above(p, "sma_200", "sma_50")
        /\ "Golden Cross Active" \in N => Above(c, "sma_50", "sma_200")
        /\ "Death Cross Active" \in N => Above(c, "sma_200", "sma_50")
    BY DEF Tells, SeverityNames
  <1>2. /\ "SMA Stack Bullish" \in N => Above(c, "sma_50", "sma_200")
        /\ "SMA Stack Bearish" \in N => Above(c, "sma_200", "sma_50")
        /\ "Bullish Pullback" \in N => Above(c, "sma_50", "sma_200")
        /\ "Bearish Rally" \in N => Above(c, "sma_200", "sma_50")
    BY DEF Tells, SeverityNames
  <1>3. /\ "Above SMA50" \in N => Above(c, "price", "sma_50")
        /\ "Below SMA50" \in N => Above(c, "sma_50", "price")
        /\ "RSI Oversold" \in N => Low(c)
        /\ "RSI Multi-period Oversold" \in N => Low(c)
    BY DEF Tells, SeverityNames
  <1>4. /\ "RSI Overbought" \in N => High(c)
        /\ "RSI Multi-period Overbought" \in N => High(c)
        /\ "MACD Bullish Crossover" \in N => Above(c, "macd", "macd_signal")
        /\ "MACD Bearish Crossover" \in N => Above(c, "macd_signal", "macd")
    BY DEF Tells, SeverityNames
  <1>5. /\ "MACD Histogram Expanding" \in N => Growing(p, c)
        /\ "MACD Histogram Weakening" \in N => ~ Growing(p, c)
        /\ "BB Breakout Upper" \in N => Above(c, "price", "bb_lower")
        /\ "BB Breakout Lower" \in N => Above(c, "bb_lower", "price")
    BY DEF Tells, SeverityNames
  <1>6. /\ "Stochastic Bullish" \notin N
        /\ "Stochastic Bearish" \notin N
    BY DEF Tells, SeverityNames
  <1>7. QED BY <1>1, <1>2, <1>3, <1>4, <1>5, <1>6

\* The names of a day: those found, and the severities of the two counts.
LEMMA NamesOfDay ==
  ASSUME NEW c, NEW p, NEW first \in BOOLEAN, Fits(c), first \/ Fits(p),
         NEW n \in SignalNames(DaySignals(c, p, first))
  PROVE  \/ Tells(n, p, c) /\ n \in SignalNames(FoundOn(c, p, first))
         \/ n = "Deeply Oversold" /\ Counted(c, p, first, OversoldCombo) >= 3
         \/ n = "Moderately Oversold" /\ Counted(c, p, first, OversoldCombo) = 2
         \/ n = "Deeply Overbought" /\ Counted(c, p, first, OverboughtCombo) >= 3
         \/ n = "Moderately Overbought" /\ Counted(c, p, first, OverboughtCombo) = 2
  <1> DEFINE found == FoundOn(c, p, first)
             sold == Counted(c, p, first, OversoldCombo)
             bought == Counted(c, p, first, OverboughtCombo)
             deepSold == sold >= 3  fairSold == sold = 2
             deepBought == bought >= 3  fairBought == bought = 2
  <1>1. DaySignals(c, p, first) = found \cup Severities(found)
    BY DayOf
  <1>2. Severities(found) =
          (When(deepSold, "Deeply Oversold", "bullish")
           \cup When(fairSold, "Moderately Oversold", "bullish"))
          \cup (When(deepBought, "Deeply Overbought", "bearish")
                \cup When(fairBought, "Moderately Overbought", "bearish"))
    BY DEF Severities, Severity, Counted
  <1>3. /\ deepSold \in BOOLEAN /\ fairSold \in BOOLEAN
        /\ deepBought \in BOOLEAN /\ fairBought \in BOOLEAN
    OBVIOUS
  <1>4. \A t \in found : Tells(t.name, p, c)
    BY FoundTells
  <1> HIDE DEF deepSold, fairSold, deepBought, fairBought, found
  <1>5. PICK s \in DaySignals(c, p, first) : n = s.name
    BY DEF SignalNames
  <1>6. CASE s \in found
    <2>1. Tells(n, p, c)
      BY <1>4, <1>5, <1>6
    <2>2. n \in SignalNames(found)
      BY <1>5, <1>6 DEF SignalNames
    <2>3. QED BY <2>1, <2>2 DEF found
  <1>7. CASE s \in Severities(found)
    <2>1. \/ n = "Deeply Oversold" /\ deepSold
          \/ n = "Moderately Oversold" /\ fairSold
          \/ n = "Deeply Overbought" /\ deepBought
          \/ n = "Moderately Overbought" /\ fairBought
      BY <1>2, <1>3, <1>5, <1>7, WhenTells
    <2>2. QED BY <2>1 DEF deepSold, fairSold, deepBought, fairBought
  <1>8. QED BY <1>1, <1>6, <1>7

\* Two of the one combination and two of the other deny each other somewhere.
LEMMA OneSeverity ==
  ASSUME NEW c, NEW p, NEW first \in BOOLEAN, Fits(c), first \/ Fits(p),
         Counted(c, p, first, OversoldCombo) >= 2, Counted(c, p, first, OverboughtCombo) >= 2
  PROVE  FALSE
  <1> DEFINE B == SignalNames(FoundOn(c, p, first))
  <1>1. \A t \in FoundOn(c, p, first) : Tells(t.name, p, c)
    BY FoundTells
  <1>2. \A n \in B \ SeverityNames : Tells(n, p, c)
    BY <1>1 DEF SignalNames
  <1>3. Cardinality(B \cap OversoldCombo) >= 2 /\ Cardinality(B \cap OverboughtCombo) >= 2
    BY DEF Counted
  <1> HIDE DEF B
  <1>4. /\ "RSI Oversold" \in B => Low(c)
        /\ "RSI Overbought" \in B => High(c)
        /\ "BB Breakout Upper" \in B => Above(c, "price", "bb_lower")
        /\ "BB Breakout Lower" \in B => Above(c, "bb_lower", "price")
        /\ "Above SMA50" \in B => Above(c, "price", "sma_50")
        /\ "Below SMA50" \in B => Above(c, "sma_50", "price")
        /\ "Stochastic Bullish" \notin B
        /\ "Stochastic Bearish" \notin B
    BY <1>2, SpellOut
  <1>5. "Stochastic Bearish" \notin B /\ "Stochastic Bullish" \notin B
    BY <1>4
  <1>6. ~ ("RSI Oversold" \in B /\ "RSI Overbought" \in B)
    BY <1>4, NeverBoth
  <1>7. ~ ("BB Breakout Lower" \in B /\ "BB Breakout Upper" \in B)
    BY <1>4, NeverBoth
  <1>8. ~ ("Below SMA50" \in B /\ "Above SMA50" \in B)
    BY <1>4, NeverBoth
  <1>9. \/ "RSI Oversold" \in B /\ "BB Breakout Lower" \in B
        \/ "RSI Oversold" \in B /\ "Below SMA50" \in B
        \/ "BB Breakout Lower" \in B /\ "Below SMA50" \in B
    BY <1>3, <1>5, FewOfCombo
  <1>10. \/ "RSI Overbought" \in B /\ "BB Breakout Upper" \in B
         \/ "RSI Overbought" \in B /\ "Above SMA50" \in B
         \/ "BB Breakout Upper" \in B /\ "Above SMA50" \in B
    BY <1>3, <1>5, FewOfCombo
  <1>11. QED BY <1>6, <1>7, <1>8, <1>9, <1>10

LEMMA CountsAreNumbers ==
  ASSUME NEW c, NEW p, NEW first
  PROVE  /\ Counted(c, p, first, OversoldCombo) \in Nat
         /\ Counted(c, p, first, OverboughtCombo) \in Nat
  <1>1. ASSUME NEW B, NEW w, NEW x, NEW y, NEW z PROVE Cardinality(B \cap {w, x, y, z}) \in Nat
    <2>1. IsFiniteSet({w}) /\ IsFiniteSet({x}) /\ IsFiniteSet({y}) /\ IsFiniteSet({z})
      BY FS_Singleton
    <2>2. IsFiniteSet({w} \cup {x}) /\ IsFiniteSet({y} \cup {z})
      BY <2>1, FS_Union
    <2>3. IsFiniteSet(({w} \cup {x}) \cup ({y} \cup {z}))
      BY <2>2, FS_Union
    <2>4. IsFiniteSet(B \cap {w, x, y, z})
      <3>1. B \cap {w, x, y, z} \subseteq ({w} \cup {x}) \cup ({y} \cup {z})
        OBVIOUS
      <3>2. QED BY <2>3, <3>1, FS_Subset
    <2>5. QED BY <2>4, FS_CardinalityType
  <1>2. QED BY <1>1 DEF Counted, OversoldCombo, OverboughtCombo

\* What the names in N say of the two counts.
CountsTell(N, sold, bought) ==
  /\ "Deeply Oversold" \in N => sold >= 3
  /\ "Moderately Oversold" \in N => sold = 2
  /\ "Deeply Overbought" \in N => bought >= 3
  /\ "Moderately Overbought" \in N => bought = 2

LEMMA NamesAgree ==
  ASSUME NEW N, NEW p, NEW c, NEW sold \in Nat, NEW bought \in Nat,
         ~ (sold >= 2 /\ bought >= 2), CountsTell(N, sold, bought),
         \A n \in N \ SeverityNames : Tells(n, p, c),
         NEW pair \in Opposites, pair \subseteq N
  PROVE  FALSE
  <1>1. \A n \in N \ SeverityNames : Tells(n, p, c)
    OBVIOUS
  <1>2. /\ ~ (sold >= 3 /\ sold = 2)
        /\ ~ (bought >= 3 /\ bought = 2)
        /\ ~ ((sold >= 3 \/ sold = 2) /\ (bought >= 3 \/ bought = 2))
    OBVIOUS
  <1>3. /\ ~ ("Deeply Oversold" \in N /\ "Moderately Oversold" \in N)
        /\ ~ ("Deeply Overbought" \in N /\ "Moderately Overbought" \in N)
    BY <1>2 DEF CountsTell
  <1>4. /\ ~ ("Deeply Oversold" \in N /\ "Deeply Overbought" \in N)
        /\ ~ ("Deeply Oversold" \in N /\ "Moderately Overbought" \in N)
        /\ ~ ("Moderately Oversold" \in N /\ "Deeply Overbought" \in N)
        /\ ~ ("Moderately Oversold" \in N /\ "Moderately Overbought" \in N)
    BY <1>2 DEF CountsTell
  <1>5. /\ ~ ("RSI Oversold" \in N /\ "RSI Overbought" \in N)
        /\ ~ ("RSI Multi-period Oversold" \in N /\ "RSI Multi-period Overbought" \in N)
        /\ ~ ("RSI Multi-period Oversold" \in N /\ "RSI Overbought" \in N)
        /\ ~ ("MACD Histogram Expanding" \in N /\ "MACD Histogram Weakening" \in N)
    <2>1. /\ "RSI Oversold" \in N => Low(c)
          /\ "RSI Overbought" \in N => High(c)
          /\ "RSI Multi-period Oversold" \in N => Low(c)
          /\ "RSI Multi-period Overbought" \in N => High(c)
          /\ "MACD Histogram Expanding" \in N => Growing(p, c)
          /\ "MACD Histogram Weakening" \in N => ~ Growing(p, c)
      BY <1>1, SpellOut
    <2>2. QED BY <2>1, NeverBoth
  <1>6. /\ ~ ("Golden Cross" \in N /\ "Death Cross" \in N)
        /\ ~ ("Golden Cross Active" \in N /\ "Death Cross Active" \in N)
        /\ ~ ("SMA Stack Bullish" \in N /\ "SMA Stack Bearish" \in N)
        /\ ~ ("Bullish Pullback" \in N /\ "Bearish Rally" \in N)
        /\ ~ ("SMA Stack Bullish" \in N /\ "Death Cross" \in N)
    <2>1. /\ "Golden Cross" \in N => Above(c, "sma_50", "sma_200")
          /\ "Death Cross" \in N => Above(c, "sma_200", "sma_50")
          /\ "Golden Cross Active" \in N => Above(c, "sma_50", "sma_200")
          /\ "Death Cross Active" \in N => Above(c, "sma_200", "sma_50")
      BY <1>1 DEF Tells, SeverityNames
    <2>2. /\ "SMA Stack Bullish" \in N => Above(c, "sma_50", "sma_200")
          /\ "SMA Stack Bearish" \in N => Above(c, "sma_200", "sma_50")
          /\ "Bullish Pullback" \in N => Above(c, "sma_50", "sma_200")
          /\ "Bearish Rally" \in N => Above(c, "sma_200", "sma_50")
      BY <1>1, SpellOut
    <2>3. ~ (Above(c, "sma_50", "sma_200") /\ Above(c, "sma_200", "sma_50"))
      BY NeverBoth
    <2>4. QED BY <2>1, <2>2, <2>3
  <1>7. /\ ~ ("Above SMA50" \in N /\ "Below SMA50" \in N)
         /\ ~ ("MACD Bullish Crossover" \in N /\ "MACD Bearish Crossover" \in N)
         /\ ~ ("BB Breakout Upper" \in N /\ "BB Breakout Lower" \in N)
    <2>1. /\ "Above SMA50" \in N => Above(c, "price", "sma_50")
          /\ "Below SMA50" \in N => Above(c, "sma_50", "price")
          /\ "MACD Bullish Crossover" \in N => Above(c, "macd", "macd_signal")
          /\ "MACD Bearish Crossover" \in N => Above(c, "macd_signal", "macd")
          /\ "BB Breakout Upper" \in N => Above(c, "price", "bb_lower")
          /\ "BB Breakout Lower" \in N => Above(c, "bb_lower", "price")
      BY <1>1, SpellOut
    <2>2. QED BY <2>1, NeverBoth
  <1>8. PICK x, y : /\ x \in pair /\ y \in pair
                     /\ \/ x = "Deeply Oversold" /\ y = "Moderately Oversold"
                        \/ x = "Deeply Overbought" /\ y = "Moderately Overbought"
                        \/ x = "Deeply Oversold" /\ y = "Deeply Overbought"
                        \/ x = "Deeply Oversold" /\ y = "Moderately Overbought"
                        \/ x = "Moderately Oversold" /\ y = "Deeply Overbought"
                        \/ x = "Moderately Oversold" /\ y = "Moderately Overbought"
                        \/ x = "RSI Oversold" /\ y = "RSI Overbought"
                        \/ x = "RSI Multi-period Oversold" /\ y = "RSI Multi-period Overbought"
                        \/ x = "RSI Multi-period Oversold" /\ y = "RSI Overbought"
                        \/ x = "MACD Histogram Expanding" /\ y = "MACD Histogram Weakening"
                        \/ x = "Golden Cross" /\ y = "Death Cross"
                        \/ x = "Golden Cross Active" /\ y = "Death Cross Active"
                        \/ x = "SMA Stack Bullish" /\ y = "SMA Stack Bearish"
                        \/ x = "Bullish Pullback" /\ y = "Bearish Rally"
                        \/ x = "SMA Stack Bullish" /\ y = "Death Cross"
                        \/ x = "Above SMA50" /\ y = "Below SMA50"
                        \/ x = "MACD Bullish Crossover" /\ y = "MACD Bearish Crossover"
                        \/ x = "BB Breakout Upper" /\ y = "BB Breakout Lower"
    BY DEF Opposites
  <1>9. x \in N /\ y \in N
    BY <1>8
  <1>10. QED BY <1>3, <1>4, <1>5, <1>6, <1>7, <1>8, <1>9

LEMMA DayAgrees ==
  ASSUME NEW c, NEW p, NEW first \in BOOLEAN, Fits(c), first \/ Fits(p),
         NEW pair \in Opposites, pair \subseteq SignalNames(DaySignals(c, p, first))
  PROVE  FALSE
  <1> DEFINE N == SignalNames(DaySignals(c, p, first))
             sold == Counted(c, p, first, OversoldCombo)
             bought == Counted(c, p, first, OverboughtCombo)
  <1>1. sold \in Nat /\ bought \in Nat /\ ~ (sold >= 2 /\ bought >= 2)
    BY OneSeverity, CountsAreNumbers
  <1>2. \A n \in N : \/ Tells(n, p, c)
                     \/ n = "Deeply Oversold" /\ sold >= 3
                     \/ n = "Moderately Oversold" /\ sold = 2
                     \/ n = "Deeply Overbought" /\ bought >= 3
                     \/ n = "Moderately Overbought" /\ bought = 2
    BY NamesOfDay
  <1>3. pair \subseteq N
    OBVIOUS
  <1> HIDE DEF N, sold, bought
  <1>4. \A n \in N \ SeverityNames : Tells(n, p, c)
    BY <1>2 DEF SeverityNames
  <1>5. CountsTell(N, sold, bought)
    BY <1>2 DEF CountsTell, Tells, SeverityNames
  <1>6. QED BY <1>1, <1>3, <1>4, <1>5, NamesAgree

\* What a day says of the averages is what they are, and were the day before.
LEMMA AveragesOfDay ==
  ASSUME NEW c, NEW p, NEW first \in BOOLEAN, Fits(c), first \/ Fits(p), Has(c, Averages),
         NEW N, N = SignalNames(DaySignals(c, p, first))
  PROVE  /\ "Golden Cross Active" \in N <=> Above(c, "sma_50", "sma_200")
         /\ "Death Cross Active" \in N <=> Above(c, "sma_200", "sma_50")
         /\ ~ first /\ Has(p, Averages) =>
              /\ "Golden Cross" \in N <=>
                   Above(c, "sma_50", "sma_200") /\ ~ Above(p, "sma_50", "sma_200")
              /\ "Death Cross" \in N <=>
                   Above(c, "sma_200", "sma_50") /\ ~ Above(p, "sma_200", "sma_50")
  <1> DEFINE A == SignalNames(SmaTrendState(c))
             X == SignalNames(SmaCrossover(p, c))
             found == FoundOn(c, p, first)
  <1>1. \A n \in N \ SeverityNames : Tells(n, p, c)
    BY NamesOfDay DEF SeverityNames
  <1>2. DaySignals(c, p, first) = found \cup Severities(found)
    BY DayOf
  <1>3. SmaTrendState(c) \subseteq found /\ (~ first => SmaCrossover(p, c) \subseteq found)
    BY DEF FoundOn
  <1> HIDE DEF found
  <1>4. A \subseteq N /\ (~ first => X \subseteq N)
    BY <1>2, <1>3 DEF SignalNames
  <1>5. /\ Above(c, "sma_50", "sma_200") => "Golden Cross Active" \in A
        /\ Above(c, "sma_200", "sma_50") => "Death Cross Active" \in A
    BY TrendNames
  <1>6. ASSUME ~ first, Has(p, Averages)
        PROVE  /\ Above(c, "sma_50", "sma_200") /\ ~ Above(p, "sma_50", "sma_200")
                    => "Golden Cross" \in X
               /\ Above(c, "sma_200", "sma_50") /\ ~ Above(p, "sma_200", "sma_50")
                    => "Death Cross" \in X
    <2>1. \A over, under :
            /\ Above(c, "sma_50", "sma_200") /\ ~ Above(p, "sma_50", "sma_200")
                 => over \in SignalNames(CrossOver(p, c, "sma_50", "sma_200", over, under))
            /\ Above(c, "sma_200", "sma_50") /\ ~ Above(p, "sma_200", "sma_50")
                 => under \in SignalNames(CrossOver(p, c, "sma_50", "sma_200", over, under))
      BY <1>6, CrossNames DEF Averages
    <2>2. X = SignalNames(CrossOver(p, c, "sma_50", "sma_200", "Golden Cross", "Death Cross"))
      BY DEF SmaCrossover
    <2> HIDE DEF X
    <2>3. QED BY <2>1, <2>2
  <1> HIDE DEF A, X
  <1>7. /\ "Golden Cross Active" \in N => Above(c, "sma_50", "sma_200")
        /\ "Death Cross Active" \in N => Above(c, "sma_200", "sma_50")
        /\ "Golden Cross" \in N => Above(c, "sma_50", "sma_200") /\ ~ Above(p, "sma_50", "sma_200")
        /\ "Death Cross" \in N => Above(c, "sma_200", "sma_50") /\ ~ Above(p, "sma_200", "sma_50")
    BY <1>1, SpellOut
  <1>8. /\ "Golden Cross Active" \in N <=> Above(c, "sma_50", "sma_200")
        /\ "Death Cross Active" \in N <=> Above(c, "sma_200", "sma_50")
    BY <1>4, <1>5, <1>7 DEF Above
  <1>9. ASSUME ~ first, Has(p, Averages)
        PROVE  /\ "Golden Cross" \in N <=> Above(c, "sma_50", "sma_200") /\ ~ Above(p, "sma_50", "sma_200")
               /\ "Death Cross" \in N <=> Above(c, "sma_200", "sma_50") /\ ~ Above(p, "sma_200", "sma_50")
    BY <1>4, <1>6, <1>7, <1>9
  <1>10. QED BY <1>8, <1>9

-----------------------------------------------------------------------------
(* The pass over the history. *)

\* The day's trend signals say which average lies above.
TrendKept(c, N) == /\ "Golden Cross Active" \in N <=> Above(c, "sma_50", "sma_200")
                   /\ "Death Cross Active" \in N <=> Above(c, "sma_200", "sma_50")

ScreeningInv ==
  /\ day \in 0..LastDay
  /\ Fits(values)
  /\ day = 0 => values = <<>>
  /\ Averages \cap DOMAIN values \subseteq KeysAt(day)
  /\ Has(values, Averages) => TrendKept(values, SignalNames(signals))
  /\ NoContradiction

LEMMA BarFits ==
  ASSUME NEW bar \in Bars, NEW idx
  PROVE  /\ DOMAIN Restrict(bar, KeysAt(idx)) = KeysAt(idx)
         /\ Fits(Restrict(bar, KeysAt(idx)))
  <1>1. /\ bar \in [Keys -> Int] /\ "stochastic_k" \notin Keys
        /\ {"bb_lower", "bb_upper"} \subseteq Keys => bar["bb_lower"] <= bar["bb_upper"]
    BY SignalsAssumption DEF SignalsAssumption
  <1>2. KeysAt(idx) \subseteq Keys
    BY DEF KeysAt
  <1>3. QED BY <1>1, <1>2 DEF Restrict, Fits, Has

\* An average that a day has, the next one has.
LEMMA AveragesStay ==
  ASSUME NEW i \in Int, NEW j \in Int, i <= j
  PROVE  Averages \cap KeysAt(i) \subseteq KeysAt(j)
  <1>1. SUFFICES ASSUME NEW k \in Averages, k \in KeysAt(i) PROVE k \in KeysAt(j)
    OBVIOUS
  <1>2. k \in Keys /\ Period[k] \in Int
    BY <1>1, SignalsAssumption DEF SignalsAssumption, KeysAt
  <1>3. FirstIndex(k) = Period[k] - 1 /\ k # "stochastic_d"
    BY <1>1 DEF Averages, FirstIndex
  <1>4. i >= Period[k] - 1
    BY <1>1, <1>3 DEF KeysAt
  <1>5. j >= Period[k] - 1
    BY <1>2, <1>4
  <1>6. QED BY <1>2, <1>3, <1>5 DEF KeysAt

\* What a bar brings, and what the signals say of it.
LEMMA BarStep ==
  ASSUME ScreeningInv, NEW bar \in Bars, NextBar(bar)
  PROVE  /\ ScreeningInv'
         /\ Has(values, Averages) =>
              /\ TrendKept(values', SignalNames(signals'))
              /\ "Golden Cross" \in SignalNames(signals') <=>
                   Above(values', "sma_50", "sma_200") /\ ~ Above(values, "sma_50", "sma_200")
              /\ "Death Cross" \in SignalNames(signals') <=>
                   Above(values', "sma_200", "sma_50") /\ ~ Above(values, "sma_200", "sma_50")
  <1> DEFINE c == Restrict(bar, KeysAt(day))
             first == day = 0
             N == SignalNames(DaySignals(c, values, first))
  <1>1. /\ values' = c /\ signals' = DaySignals(c, values, first)
        /\ day' = IF day < LastDay THEN day + 1 ELSE day
    BY DEF NextBar
  <1>2. DOMAIN c = KeysAt(day) /\ Fits(c)
    BY BarFits
  <1>3. Fits(values) /\ first \in BOOLEAN /\ day \in Int
    BY DEF ScreeningInv
  <1>4. day' \in 0..LastDay /\ day' \in Int /\ day <= day' /\ day' # 0
    BY <1>1, SignalsAssumption DEF ScreeningInv, SignalsAssumption
  <1>5. SignalNames(signals') = N
    BY <1>1
  <1>6. Averages \cap DOMAIN values' \subseteq KeysAt(day')
    <2>1. Averages \cap KeysAt(day) \subseteq KeysAt(day')
      BY <1>3, <1>4, AveragesStay
    <2>2. DOMAIN values' = KeysAt(day)
      BY <1>1, <1>2
    <2>3. QED BY <2>1, <2>2
  <1>7. Has(values, Averages) => Has(c, Averages) /\ ~ first
    <2>1. Has(values, Averages) => Averages \subseteq KeysAt(day)
      BY DEF ScreeningInv, Has
    <2>2. ~ Has(<<>>, Averages)
      BY DEF Has, Averages
    <2>3. Has(values, Averages) => day # 0
      BY <2>2 DEF ScreeningInv
    <2>4. QED BY <1>2, <2>1, <2>3 DEF Has
  <1>8. \A pair \in Opposites : ~ pair \subseteq N
    BY <1>2, <1>3, DayAgrees
  <1>9. N = SignalNames(DaySignals(c, values, first))
    OBVIOUS
  <1>10. ~ first /\ Has(c, Averages) /\ Has(values, Averages) =>
           /\ "Golden Cross" \in N <=>
                Above(c, "sma_50", "sma_200") /\ ~ Above(values, "sma_50", "sma_200")
           /\ "Death Cross" \in N <=>
                Above(c, "sma_200", "sma_50") /\ ~ Above(values, "sma_200", "sma_50")
    BY <1>2, <1>3, AveragesOfDay
  <1> HIDE DEF c, first, N
  <1>11. Has(c, Averages) => TrendKept(c, N)
    <2>1. SUFFICES ASSUME Has(c, Averages) PROVE TrendKept(c, N)
      OBVIOUS
    <2>2. "Golden Cross Active" \in N <=> Above(c, "sma_50", "sma_200")
      BY <1>2, <1>3, <1>9, <2>1, AveragesOfDay
    <2>3. "Death Cross Active" \in N <=> Above(c, "sma_200", "sma_50")
      BY <1>2, <1>3, <1>9, <2>1, AveragesOfDay
    <2>4. QED BY <2>2, <2>3 DEF TrendKept
  <1>12. ScreeningInv'
    <2>1. NoContradiction'
      BY <1>5, <1>8 DEF NoContradiction
    <2>2. Fits(values)'
      BY <1>1, <1>2
    <2>3. (Has(values, Averages) => TrendKept(values, SignalNames(signals)))'
      BY <1>1, <1>5, <1>11
    <2>4. (day = 0 => values = <<>>)'
      BY <1>4
    <2>5. QED BY <1>4, <1>6, <2>1, <2>2, <2>3, <2>4 DEF ScreeningInv
  <1>13. QED BY <1>1, <1>5, <1>7, <1>10, <1>11, <1>12

LEMMA ScreeningInvariance == SpecScreening => []ScreeningInv
  <1>1. InitScreening => ScreeningInv
    <2>1. SUFFICES ASSUME InitScreening PROVE ScreeningInv
      OBVIOUS
    <2>2. day = 0 /\ values = <<>> /\ signals = {}
      BY <2>1 DEF InitScreening, InitSignals
    <2>3. DOMAIN values = {}
      BY <2>2
    <2>4. ~ Has(values, Averages) /\ Fits(values)
      BY <2>3 DEF Has, Averages, Fits
    <2>5. NoContradiction
      <3>1. SignalNames(signals) = {}
        BY <2>2 DEF SignalNames
      <3>2. \A pair \in Opposites : pair # {}
        BY DEF Opposites
      <3>3. QED BY <3>1, <3>2 DEF NoContradiction
    <2>6. day \in 0..LastDay
      BY <2>2, SignalsAssumption DEF SignalsAssumption
    <2>7. QED BY <2>2, <2>3, <2>4, <2>5, <2>6 DEF ScreeningInv
  <1>2. ScreeningInv /\ [NextScreening]_screeningVars => ScreeningInv'
    <2>1. SUFFICES ASSUME ScreeningInv, [NextScreening]_screeningVars PROVE ScreeningInv'
      OBVIOUS
    <2>2. CASE \E bar \in Bars : NextBar(bar)
      BY <2>1, <2>2, BarStep
    <2>3. CASE UNCHANGED signalVars
      BY <2>1, <2>3 DEF ScreeningInv, NoContradiction, signalVars
    <2>4. QED BY <2>1, <2>2, <2>3 DEF NextScreening, Execute, Search, screeningVars
  <1>3. QED BY <1>1, <1>2, PTL DEF SpecScreening

(***************************************************************************)
(* No day of any history carries two signals of which one denies the       *)
(* other: what SignalsCalculator finds, it finds in the values of one day, *)
(* and its severities count findings of which each side's deny the other's.*)
(***************************************************************************)
THEOREM SignalsAgree == SpecScreening => []NoContradiction
  <1>1. ScreeningInv => NoContradiction
    BY DEF ScreeningInv
  <1>2. QED BY <1>1, ScreeningInvariance, PTL

(***************************************************************************)
(* In any history, once both averages are there, a cross is reported on    *)
(* exactly the days on which its trend becomes active.                     *)
(***************************************************************************)
THEOREM CrossesMark == SpecScreening => CrossesMatchStates
  <1> DEFINE A == \A t \in {<<"Golden Cross", "Golden Cross Active">>,
                            <<"Death Cross", "Death Cross Active">>} :
                    LET active    == t[2] \in SignalNames(signals')
                        wasActive == t[2] \in SignalNames(signals)
                    IN  Has(values, Averages) =>
                          ((t[1] \in SignalNames(signals')) <=> (active /\ ~ wasActive))
  <1>1. ScreeningInv /\ [NextScreening]_screeningVars => [A]_signalVars
    <2> HIDE DEF A
    <2>1. SUFFICES ASSUME ScreeningInv, NextScreening, ~ UNCHANGED signalVars PROVE A
      BY DEF screeningVars, signalVars
    <2> DEFINE old == SignalNames(signals)  new == SignalNames(signals')
               upNow == Above(values', "sma_50", "sma_200")
               downNow == Above(values', "sma_200", "sma_50")
               upThen == Above(values, "sma_50", "sma_200")
               downThen == Above(values, "sma_200", "sma_50")
    <2>2. PICK bar \in Bars : NextBar(bar)
      BY <2>1 DEF NextScreening, Execute, Search
    <2>3. Has(values, Averages) =>
            /\ TrendKept(values', new)
            /\ "Golden Cross" \in new <=> upNow /\ ~ upThen
            /\ "Death Cross" \in new <=> downNow /\ ~ downThen
      BY <2>1, <2>2, BarStep
    <2>4. Has(values, Averages) =>
            /\ "Golden Cross Active" \in new <=> upNow
            /\ "Death Cross Active" \in new <=> downNow
      BY <2>3 DEF TrendKept
    <2>5. Has(values, Averages) =>
            /\ "Golden Cross Active" \in old <=> upThen
            /\ "Death Cross Active" \in old <=> downThen
      BY <2>1 DEF ScreeningInv, TrendKept
    <2> HIDE DEF upNow, downNow, upThen, downThen, old, new
    <2>6. /\ Has(values, Averages) => (("Golden Cross" \in new) <=>
               ("Golden Cross Active" \in new /\ ~ "Golden Cross Active" \in old))
          /\ Has(values, Averages) => (("Death Cross" \in new) <=>
               ("Death Cross Active" \in new /\ ~ "Death Cross Active" \in old))
      BY <2>3, <2>4, <2>5
    <2>7. \A x, y : <<x, y>>[1] = x /\ <<x, y>>[2] = y
      OBVIOUS
    <2>8. \A t \in {<<"Golden Cross", "Golden Cross Active">>, <<"Death Cross", "Death Cross Active">>} :
            Has(values, Averages) => ((t[1] \in new) <=> (t[2] \in new /\ ~ t[2] \in old))
      <3>1. SUFFICES ASSUME NEW t \in {<<"Golden Cross", "Golden Cross Active">>,
                                       <<"Death Cross", "Death Cross Active">>}
                     PROVE  Has(values, Averages) =>
                              ((t[1] \in new) <=> (t[2] \in new /\ ~ t[2] \in old))
        OBVIOUS
      <3>2. CASE t = <<"Golden Cross", "Golden Cross Active">>
        <4>1. t[1] = "Golden Cross" /\ t[2] = "Golden Cross Active"
          BY <2>7, <3>2
        <4>2. QED BY <2>6, <4>1
      <3>3. CASE t = <<"Death Cross", "Death Cross Active">>
        <4>1. t[1] = "Death Cross" /\ t[2] = "Death Cross Active"
          BY <2>7, <3>3
        <4>2. QED BY <2>6, <4>1
      <3>4. QED BY <3>1, <3>2, <3>3
    <2>9. QED BY <2>8 DEF A, old, new
  <1>2. SpecScreening => [][A]_signalVars
    BY <1>1, ScreeningInvariance, PTL DEF SpecScreening
  <1>3. QED BY <1>2 DEF CrossesMatchStates

-----------------------------------------------------------------------------
(* Induction over the naturals. *)

\* A set of naturals has a least element.
LEMMA Least ==
  ASSUME NEW T \in SUBSET Nat, T # {}
  PROVE  \E n \in T : \A m \in T : n <= m
  <1> DEFINE R == {p \in Nat \X Nat : p[1] < p[2]}
  <1>1. IsWellFoundedOn(R, Nat)
    BY NatLessThanWellFounded DEF OpToRel
  <1>2. PICK n \in T : \A m \in T : <<m, n>> \notin R
    <2> HIDE DEF R
    <2>1. QED BY <1>1, WFMin
  <1>3. ASSUME NEW m \in T PROVE n <= m
    <2>1. <<m, n>> \in Nat \X Nat /\ <<m, n>>[1] = m /\ <<m, n>>[2] = n
      OBVIOUS
    <2>2. ~(m < n)
      BY <1>2, <2>1
    <2>3. QED BY <2>2
  <1>4. QED BY <1>3

\* A set that has 0 and the successor of each of its elements has all naturals.
LEMMA Inductive ==
  ASSUME NEW S \in SUBSET Nat, 0 \in S, \A n \in S : n + 1 \in S
  PROVE  S = Nat
  <1> SUFFICES ASSUME S # Nat PROVE FALSE
    OBVIOUS
  <1>1. PICK n \in Nat \ S : \A m \in Nat \ S : n <= m
    BY Least
  <1>2. n - 1 \in Nat /\ n - 1 \in S /\ n = (n - 1) + 1
    BY <1>1
  <1>3. QED BY <1>1, <1>2

-----------------------------------------------------------------------------
(* The first n of an ordered set. *)

\* R orders S: a pair of it is one that comes before another.
Orders(R, S) == /\ \A t \in S : <<t, t>> \notin R
                /\ \A t, u, v \in S : <<t, u>> \in R /\ <<u, v>> \in R => <<t, v>> \in R
                /\ \A t, u \in S : t = u \/ <<t, u>> \in R \/ <<u, t>> \in R

Ahead(R, S, t) == {u \in S : <<u, t>> \in R}
First(R, S, n) == {t \in S : Cardinality(Ahead(R, S, t)) < n}

LEMMA AheadCounted ==
  ASSUME NEW S, IsFiniteSet(S), NEW R
  PROVE  \A t : IsFiniteSet(Ahead(R, S, t)) /\ Cardinality(Ahead(R, S, t)) \in Nat
  <1> TAKE t
  <1>1. Ahead(R, S, t) \subseteq S
    BY DEF Ahead
  <1>2. IsFiniteSet(Ahead(R, S, t))
    BY <1>1, FS_Subset
  <1>3. QED BY <1>2, FS_CardinalityType

\* More are ahead of what comes later.
LEMMA AheadGrows ==
  ASSUME NEW S, IsFiniteSet(S), NEW R, Orders(R, S), NEW t \in S, NEW u \in S, <<t, u>> \in R
  PROVE  Cardinality(Ahead(R, S, t)) + 1 <= Cardinality(Ahead(R, S, u))
  <1> DEFINE A == Ahead(R, S, t)
             B == Ahead(R, S, u)
  <1>1. t \notin A /\ A \cup {t} \subseteq B
    BY DEF Ahead, Orders
  <1>2. IsFiniteSet(A) /\ IsFiniteSet(B)
    BY AheadCounted
  <1> HIDE DEF A, B
  <1>3. IsFiniteSet(A \cup {t}) /\ Cardinality(A \cup {t}) = Cardinality(A) + 1
    BY <1>1, <1>2, FS_AddElement
  <1>4. Cardinality(A \cup {t}) <= Cardinality(B)
    BY <1>1, <1>2, FS_Subset
  <1>5. QED BY <1>3, <1>4 DEF A, B

\* One more than the first n are the first n + 1.
LEMMA FirstGrows ==
  ASSUME NEW S, IsFiniteSet(S), NEW R, Orders(R, S), NEW n \in Nat,
         Cardinality(First(R, S, n)) = n, n < Cardinality(S)
  PROVE  Cardinality(First(R, S, n + 1)) = n + 1
  <1> DEFINE F == First(R, S, n)
             T == S \ F
             rank(t) == Cardinality(Ahead(R, S, t))
             Ranks == {rank(t) : t \in T}
  <1>1. F \subseteq S /\ IsFiniteSet(F)
    <2>1. F \subseteq S
      BY DEF First
    <2>2. QED BY <2>1, FS_Subset
  <1>2. \A t : rank(t) \in Nat
    BY AheadCounted
  <1>3. \A t \in S : t \in F <=> rank(t) < n
    BY DEF First
  <1>4. \A t, u \in S : <<t, u>> \in R => rank(t) + 1 <= rank(u)
    BY AheadGrows
  <1>5. T # {}
    <2>1. F # S
      OBVIOUS
    <2>2. QED BY <1>1, <2>1
  <1> HIDE DEF F, rank
  <1>6. Ranks \in SUBSET Nat /\ Ranks # {}
    BY <1>2, <1>5
  <1>7. PICK k \in Ranks : \A i \in Ranks : k <= i
    BY <1>6, Least
  <1>8. PICK m \in T : rank(m) = k
    OBVIOUS
  <1>9. \A u \in T : rank(m) <= rank(u)
    BY <1>7, <1>8
  <1>10. ASSUME NEW u \in T, u # m PROVE <<m, u>> \in R
    <2>1. rank(m) \in Nat /\ rank(u) \in Nat /\ rank(m) <= rank(u)
      BY <1>2, <1>9
    <2>2. <<u, m>> \notin R
      BY <1>4, <2>1
    <2>3. QED BY <1>10, <2>2 DEF Orders
  <1>11. Ahead(R, S, m) = F
    <2>1. ASSUME NEW u \in Ahead(R, S, m) PROVE u \in F
      <3>1. u \in S /\ <<u, m>> \in R
        BY <2>1 DEF Ahead
      <3>2. rank(u) + 1 <= rank(m)
        BY <1>4, <3>1
      <3>3. rank(m) \in Nat /\ rank(u) \in Nat
        BY <1>2
      <3>4. ~ (rank(m) <= rank(u))
        BY <3>2, <3>3
      <3>5. QED BY <1>9, <3>1, <3>4
    <2>2. ASSUME NEW u \in F PROVE u \in Ahead(R, S, m)
      <3>1. u \in S /\ rank(u) < n /\ u # m /\ ~ (rank(m) < n)
        BY <1>1, <1>3
      <3>2. rank(m) \in Nat /\ rank(u) \in Nat
        BY <1>2
      <3>3. <<m, u>> \notin R
        BY <1>4, <3>1, <3>2
      <3>4. <<u, m>> \in R
        BY <3>1, <3>3 DEF Orders
      <3>5. QED BY <3>1, <3>4 DEF Ahead
    <2>3. QED BY <2>1, <2>2
  <1>12. rank(m) = n
    BY <1>11 DEF F, rank
  <1>13. First(R, S, n + 1) = F \cup {m}
    <2>1. ASSUME NEW t \in S PROVE t \in First(R, S, n + 1) <=> rank(t) < n + 1
      BY DEF First, rank
    <2>2. ASSUME NEW t \in S PROVE rank(t) < n + 1 <=> t \in F \cup {m}
      <3>1. rank(t) \in Nat
        BY <1>2
      <3>2. CASE t \in F
        BY <1>3, <3>1, <3>2
      <3>3. CASE t = m
        BY <1>12, <3>3
      <3>4. CASE t \in T /\ t # m
        <4>1. rank(m) + 1 <= rank(t)
          BY <1>4, <1>10, <3>4
        <4>2. QED BY <1>12, <3>1, <3>4, <4>1
      <3>5. QED BY <3>2, <3>3, <3>4
    <2>3. First(R, S, n + 1) \subseteq S
      BY DEF First
    <2>4. QED BY <1>1, <2>1, <2>2, <2>3
  <1>14. Cardinality(F \cup {m}) = n + 1
    <2>1. m \notin F /\ Cardinality(F) = n
      BY DEF F
    <2>2. QED BY <1>1, <2>1, FS_AddElement
  <1>15. QED BY <1>13, <1>14

\* They are n, unless there are fewer.
LEMMA FirstCounted ==
  ASSUME NEW S, IsFiniteSet(S), NEW R, Orders(R, S), NEW n \in Nat, n <= Cardinality(S)
  PROVE  Cardinality(First(R, S, n)) = n
  <1> DEFINE P == {k \in Nat : k <= Cardinality(S) => Cardinality(First(R, S, k)) = k}
  <1>0. Cardinality(S) \in Nat
    BY FS_CardinalityType
  <1>1. 0 \in P
    <2>1. \A t : Cardinality(Ahead(R, S, t)) \in Nat
      BY AheadCounted
    <2>2. First(R, S, 0) = {}
      BY <2>1 DEF First
    <2>3. QED BY <2>2, FS_EmptySet
  <1>2. ASSUME NEW k \in P PROVE k + 1 \in P
    <2>1. SUFFICES ASSUME k + 1 <= Cardinality(S)
                   PROVE  Cardinality(First(R, S, k + 1)) = k + 1
      OBVIOUS
    <2>2. k \in Nat /\ k < Cardinality(S) /\ k <= Cardinality(S)
      BY <1>0, <2>1
    <2>3. Cardinality(First(R, S, k)) = k
      BY <2>2
    <2>4. QED BY <2>2, <2>3, FirstGrows
  <1>3. P = Nat
    <2> HIDE DEF P
    <2>1. P \in SUBSET Nat
      BY DEF P
    <2>2. QED BY <1>1, <1>2, <2>1, Inductive
  <1>4. QED BY <1>3

\* Who is not among the first n has n ahead of it, and the first n are n.
LEMMA LeftOut ==
  ASSUME NEW S, IsFiniteSet(S), NEW R, Orders(R, S), NEW n \in Nat, NEW t \in S \ First(R, S, n)
  PROVE  /\ Cardinality(Ahead(R, S, t)) >= n
         /\ Cardinality(First(R, S, n)) = n
         /\ \A u \in First(R, S, n) : <<t, u>> \notin R
  <1> DEFINE rank(u) == Cardinality(Ahead(R, S, u))
  <1>1. \A u : rank(u) \in Nat
    BY AheadCounted
  <1>2. rank(t) >= n
    BY <1>1 DEF First
  <1>3. Ahead(R, S, t) \subseteq S
    BY DEF Ahead
  <1>4. rank(t) <= Cardinality(S)
    BY <1>3, FS_Subset
  <1>5. Cardinality(S) \in Nat
    BY FS_CardinalityType
  <1>6. n <= Cardinality(S)
    BY <1>1, <1>2, <1>4, <1>5
  <1>7. Cardinality(First(R, S, n)) = n
    BY <1>6, FirstCounted
  <1>8. ASSUME NEW u \in First(R, S, n) PROVE <<t, u>> \notin R
    <2>1. u \in S /\ rank(u) < n
      BY DEF First
    <2>2. <<t, u>> \in R => rank(t) + 1 <= rank(u)
      BY <2>1, AheadGrows
    <2> HIDE DEF rank
    <2>3. QED BY <1>1, <1>2, <2>1, <2>2
  <1>9. QED BY <1>2, <1>7, <1>8

-----------------------------------------------------------------------------
(* The filter of a list of conditions: BuildFilter is a fold. *)

Greatest(s) == CHOOSE x \in s : \A y \in s : x >= y

\* One round of its recursion.
FilterRound(cs, g, s) == IF s = {} THEN <<>>
                         ELSE BuildClause(g[s \ {Greatest(s)}], cs[Greatest(s)])

Filtering(cs, S, g) ==
  g = [s \in SUBSET S |-> IF s = {} THEN <<>>
                          ELSE BuildClause(g[s \ {Greatest(s)}], cs[Greatest(s)])]

Filtered(cs, S) == CHOOSE g : Filtering(cs, S, g)

LEMMA FilterFolds ==
  ASSUME NEW cs
  PROVE  BuildFilter(cs) = Filtered(cs, DOMAIN cs)[DOMAIN cs]
  BY DEF BuildFilter, FoldLeft, MapThenFoldSet, Max, Greatest, Filtering, Filtered

LEMMA GreatestTop ==
  ASSUME NEW n \in Nat, NEW s \in SUBSET (1..(n + 1)), n + 1 \in s
  PROVE  Greatest(s) = n + 1
  <1>1. \A y \in s : y \in Nat /\ n + 1 >= y
    OBVIOUS
  <1>2. Greatest(s) \in s /\ \A y \in s : Greatest(s) >= y
    BY <1>1 DEF Greatest
  <1>3. Greatest(s) \in Nat /\ n + 1 >= Greatest(s) /\ Greatest(s) >= n + 1
    BY <1>1, <1>2
  <1>4. QED BY <1>3

\* The recursion has a solution on the subsets of 1..k, for every k.
LEMMA FilteredUpTo ==
  ASSUME NEW cs, NEW k \in Nat
  PROVE  \E g : \A s \in SUBSET (1..k) : g[s] = FilterRound(cs, g, s)
  <1> DEFINE P == {n \in Nat : \E g : \A s \in SUBSET (1..n) : g[s] = FilterRound(cs, g, s)}
  <1>1. 0 \in P
    <2> DEFINE g == [s \in SUBSET (1..0) |-> <<>>]
    <2>1. \A s \in SUBSET (1..0) : s = {}
      OBVIOUS
    <2>2. \A s \in SUBSET (1..0) : g[s] = FilterRound(cs, g, s)
      BY <2>1 DEF FilterRound
    <2>3. QED BY <2>2
  <1>2. ASSUME NEW n \in P PROVE n + 1 \in P
    <2>1. PICK g : \A s \in SUBSET (1..n) : g[s] = FilterRound(cs, g, s)
      OBVIOUS
    <2> DEFINE After(s) == BuildClause(g[s \ {n + 1}], cs[n + 1])
               h == [s \in SUBSET (1..(n + 1)) |-> IF s \in SUBSET (1..n) THEN g[s] ELSE After(s)]
    <2>2. ASSUME NEW s \in SUBSET (1..(n + 1)) PROVE h[s] = FilterRound(cs, h, s)
      <3>1. CASE s \in SUBSET (1..n)
        <4>1. s \ {Greatest(s)} \in SUBSET (1..n) /\ s \ {Greatest(s)} \in SUBSET (1..(n + 1))
          BY <3>1
        <4>2. h[s \ {Greatest(s)}] = g[s \ {Greatest(s)}] /\ h[s] = g[s]
          BY <3>1, <4>1
        <4>3. QED BY <2>1, <3>1, <4>2 DEF FilterRound
      <3>2. CASE s \notin SUBSET (1..n)
        <4>1. n + 1 \in s /\ s # {}
          BY <3>2
        <4>2. Greatest(s) = n + 1
          BY <4>1, GreatestTop
        <4>3. s \ {n + 1} \in SUBSET (1..n) /\ s \ {n + 1} \in SUBSET (1..(n + 1))
          OBVIOUS
        <4>4. h[s \ {n + 1}] = g[s \ {n + 1}] /\ h[s] = After(s)
          BY <3>2, <4>3
        <4>5. QED BY <4>1, <4>2, <4>4 DEF FilterRound
      <3>3. QED BY <3>1, <3>2
    <2>3. QED
      <3> HIDE DEF h
      <3>1. QED BY <2>2
  <1>3. P = Nat
    <2> HIDE DEF P
    <2>1. P \in SUBSET Nat
      BY DEF P
    <2>2. QED BY <1>1, <1>2, <2>1, Inductive
  <1>4. QED BY <1>3

\* BuildFilter is the value of the recursion on the whole list.
LEMMA FilterRounds ==
  ASSUME NEW cs, NEW n \in Nat, DOMAIN cs = 1..n
  PROVE  \E g : /\ BuildFilter(cs) = g[1..n]
                /\ \A s \in SUBSET (1..n) : g[s] = FilterRound(cs, g, s)
  <1> DEFINE S == 1..n
             g == Filtered(cs, S)
  <1>1. PICK f : \A s \in SUBSET S : f[s] = FilterRound(cs, f, s)
    BY FilteredUpTo
  <1> DEFINE h == [s \in SUBSET S |-> f[s]]
  <1>2. Filtering(cs, S, h)
    <2>1. ASSUME NEW s \in SUBSET S PROVE h[s] = FilterRound(cs, h, s)
      <3>1. s \ {Greatest(s)} \in SUBSET S
        OBVIOUS
      <3>2. h[s \ {Greatest(s)}] = f[s \ {Greatest(s)}] /\ h[s] = f[s]
        BY <3>1
      <3>3. QED BY <1>1, <3>2 DEF FilterRound
    <2>2. h = [s \in SUBSET S |-> h[s]]
      OBVIOUS
    <2>3. h = [s \in SUBSET S |-> FilterRound(cs, h, s)]
      <3> HIDE DEF h
      <3>1. QED BY <2>1, <2>2
    <2>4. QED BY <2>3 DEF Filtering, FilterRound
  <1>3. Filtering(cs, S, g)
    <2> HIDE DEF h
    <2>1. QED BY <1>2 DEF Filtered
  <1>4. \A s \in SUBSET S : g[s] = FilterRound(cs, g, s)
    <2> HIDE DEF g
    <2>1. g = [s \in SUBSET S |-> FilterRound(cs, g, s)]
      BY <1>3 DEF Filtering, FilterRound
    <2>2. QED BY <2>1
  <1>5. BuildFilter(cs) = g[1..n]
    BY FilterFolds
  <1>6. QED BY <1>4, <1>5

\* Conditions that share a field are comparisons by different operators.
Joinable(cs) ==
  \A i, j \in DOMAIN cs :
    i < j /\ cs[i].field = cs[j].field =>
      {cs[i].op, cs[j].op} \subseteq Comparisons /\ cs[i].op # cs[j].op

\* A document that has the first k conditions, and no others.
Holding(cs, k, filter) ==
  /\ DOMAIN filter = {cs[i].field : i \in 1..k}
  /\ \A x \in DOMAIN filter : DOMAIN filter[x] = {cs[i].op : i \in {i \in 1..k : cs[i].field = x}}
  /\ \A i \in 1..k : filter[cs[i].field][cs[i].op] = cs[i].value

\* A condition more joins the document.
LEMMA ClauseJoins ==
  ASSUME NEW cs, NEW n \in Nat, DOMAIN cs = 1..n, Joinable(cs),
         NEW k \in Nat, k + 1 <= n, NEW filter, Holding(cs, k, filter)
  PROVE  Holding(cs, k + 1, BuildClause(filter, cs[k + 1]))
  <1> DEFINE c == cs[k + 1]
             old == IF c.field \in DOMAIN filter THEN filter[c.field] ELSE <<>>
             clause == With(old, c.op, c.value)
             new == With(filter, c.field, clause)
  <1>1. \A i \in 1..k : /\ i \in DOMAIN cs /\ k + 1 \in DOMAIN cs /\ i < k + 1
                        /\ cs[i].field = c.field =>
                             /\ {cs[i].op, c.op} \subseteq Comparisons /\ cs[i].op # c.op
    BY DEF Joinable
  <1>2. DOMAIN old = {cs[i].op : i \in {i \in 1..k : cs[i].field = c.field}}
    <2>1. CASE c.field \in DOMAIN filter
      BY <2>1 DEF Holding
    <2>2. CASE c.field \notin DOMAIN filter
      <3>1. \A i \in 1..k : cs[i].field # c.field
        BY <2>2 DEF Holding
      <3>2. DOMAIN old = {}
        BY <2>2
      <3>3. QED BY <3>1, <3>2
    <2>3. QED BY <2>1, <2>2
  <1>3. "$eq" \notin DOMAIN old /\ c.op \notin DOMAIN old
    BY <1>1, <1>2 DEF Comparisons
  <1>4. c.op \notin Comparisons => old = <<>>
    <2>1. SUFFICES ASSUME c.op \notin Comparisons PROVE c.field \notin DOMAIN filter
      OBVIOUS
    <2>2. QED BY <1>1, <2>1 DEF Holding
  <1>5. BuildClause(filter, c) = new
    <2>1. CASE c.op \in Comparisons
      BY <1>3, <2>1 DEF BuildClause
    <2>2. CASE c.op \notin Comparisons
      BY <1>4, <2>2 DEF BuildClause
    <2>3. QED BY <2>1, <2>2
  <1>6. /\ DOMAIN new = DOMAIN filter \cup {c.field} /\ new[c.field] = clause
        /\ \A x \in DOMAIN filter \ {c.field} : new[x] = filter[x]
    BY DEF With
  <1>7. /\ DOMAIN clause = DOMAIN old \cup {c.op} /\ clause[c.op] = c.value
        /\ \A op \in DOMAIN old : clause[op] = old[op]
    BY <1>3 DEF With
  <1> HIDE DEF new, clause
  <1>8. 1..(k + 1) = (1..k) \cup {k + 1} /\ k + 1 \notin 1..k
    OBVIOUS
  <1>9. DOMAIN new = {cs[i].field : i \in 1..(k + 1)}
    BY <1>6, <1>8 DEF Holding
  <1>10. ASSUME NEW x \in DOMAIN new
         PROVE  DOMAIN new[x] = {cs[i].op : i \in {i \in 1..(k + 1) : cs[i].field = x}}
    <2>1. CASE x = c.field
      BY <1>2, <1>6, <1>7, <1>8, <2>1
    <2>2. CASE x # c.field
      <3>1. {i \in 1..(k + 1) : cs[i].field = x} = {i \in 1..k : cs[i].field = x}
        BY <1>8, <2>2
      <3>2. x \in DOMAIN filter /\ new[x] = filter[x]
        BY <1>6, <1>10, <2>2
      <3>3. QED BY <3>1, <3>2 DEF Holding
    <2>3. QED BY <2>1, <2>2
  <1>11. ASSUME NEW i \in 1..(k + 1) PROVE new[cs[i].field][cs[i].op] = cs[i].value
    <2>1. CASE i = k + 1
      BY <1>6, <1>7, <2>1
    <2>2. CASE i \in 1..k /\ cs[i].field = c.field
      <3>1. c.field \in DOMAIN filter /\ old[cs[i].op] = cs[i].value /\ cs[i].op \in DOMAIN old
        BY <1>2, <2>2 DEF Holding
      <3>2. QED BY <1>6, <1>7, <2>2, <3>1
    <2>3. CASE i \in 1..k /\ cs[i].field # c.field
      <3>1. cs[i].field \in DOMAIN filter /\ filter[cs[i].field][cs[i].op] = cs[i].value
        BY <2>3 DEF Holding
      <3>2. QED BY <1>6, <2>3, <3>1
    <2>4. QED BY <1>8, <2>1, <2>2, <2>3
  <1>12. QED BY <1>5, <1>9, <1>10, <1>11 DEF Holding

\* The filter of conditions that can be joined has each of them.
LEMMA FilterHolds ==
  ASSUME NEW cs, NEW n \in Nat, DOMAIN cs = 1..n, Joinable(cs)
  PROVE  Holding(cs, n, BuildFilter(cs))
  <1>1. PICK g : /\ BuildFilter(cs) = g[1..n]
                 /\ \A s \in SUBSET (1..n) : g[s] = FilterRound(cs, g, s)
    BY FilterRounds
  <1> DEFINE P == {k \in Nat : k <= n => Holding(cs, k, g[1..k])}
  <1>2. 0 \in P
    <2>1. g[1..0] = <<>>
      <3>1. 1..0 = {} /\ 1..0 \in SUBSET (1..n)
        OBVIOUS
      <3>2. QED BY <1>1, <3>1 DEF FilterRound
    <2>2. Holding(cs, 0, <<>>)
      BY DEF Holding
    <2>3. QED BY <2>1, <2>2
  <1>3. ASSUME NEW k \in P PROVE k + 1 \in P
    <2>1. SUFFICES ASSUME k + 1 <= n PROVE Holding(cs, k + 1, g[1..(k + 1)])
      OBVIOUS
    <2>2. k \in Nat /\ k <= n /\ Holding(cs, k, g[1..k])
      BY <2>1
    <2>3. Greatest(1..(k + 1)) = k + 1
      BY <2>2, GreatestTop
    <2>4. (1..(k + 1)) \ {k + 1} = 1..k /\ 1..(k + 1) # {} /\ 1..(k + 1) \in SUBSET (1..n)
      <3>1. \A i \in 1..(k + 1) : i \in 1..n
        BY <2>1, <2>2
      <3>2. k + 1 \in 1..(k + 1)
        BY <2>2
      <3>3. (1..(k + 1)) \ {k + 1} = 1..k
        BY <2>2
      <3>4. QED BY <3>1, <3>2, <3>3
    <2>5. g[1..(k + 1)] = BuildClause(g[1..k], cs[k + 1])
      BY <1>1, <2>3, <2>4 DEF FilterRound
    <2>6. QED BY <2>1, <2>2, <2>5, ClauseJoins
  <1>4. P = Nat
    <2> HIDE DEF P
    <2>1. P \in SUBSET Nat
      BY DEF P
    <2>2. QED BY <1>2, <1>3, <2>1, Inductive
  <1>5. QED BY <1>1, <1>4

\* A ticker that matches the filter meets each condition, and the other way round.
Meets(t, c) == c.field \in DOMAIN t /\ Holds(c.op, t[c.field], c.value)

LEMMA MatchMeets ==
  ASSUME NEW cs, NEW n \in Nat, DOMAIN cs = 1..n, Joinable(cs), NEW t
  PROVE  Matches(t, BuildFilter(cs)) <=> \A i \in 1..n : Meets(t, cs[i])
  <1> DEFINE filter == BuildFilter(cs)
  <1>1. Holding(cs, n, filter)
    BY FilterHolds
  <1> HIDE DEF filter
  <1>2. ASSUME Matches(t, filter), NEW i \in 1..n PROVE Meets(t, cs[i])
    <2>1. /\ cs[i].field \in DOMAIN filter /\ cs[i].op \in DOMAIN filter[cs[i].field]
          /\ filter[cs[i].field][cs[i].op] = cs[i].value
      BY <1>1 DEF Holding
    <2>2. QED BY <1>2, <2>1 DEF Matches, Meets
  <1>3. ASSUME \A i \in 1..n : Meets(t, cs[i]), NEW x \in DOMAIN filter
        PROVE  x \in DOMAIN t /\ \A op \in DOMAIN filter[x] : Holds(op, t[x], filter[x][op])
    <2>1. PICK i \in 1..n : cs[i].field = x
      BY <1>1 DEF Holding
    <2>2. x \in DOMAIN t
      BY <1>3, <2>1 DEF Meets
    <2>3. ASSUME NEW op \in DOMAIN filter[x] PROVE Holds(op, t[x], filter[x][op])
      <3>1. PICK k \in 1..n : cs[k].field = x /\ cs[k].op = op
        BY <1>1 DEF Holding
      <3>2. filter[x][op] = cs[k].value
        BY <1>1, <3>1 DEF Holding
      <3>3. QED BY <1>3, <3>1, <3>2 DEF Meets
    <2>4. QED BY <2>2, <2>3
  <1>4. QED BY <1>2, <1>3 DEF Matches, filter

-----------------------------------------------------------------------------
(* The conditions of a request. *)

\* Two conditions can follow each other.
Compatible(c, d) == c.field = d.field => {c.op, d.op} \subseteq Comparisons /\ c.op # d.op

\* A list of conditions, all of C, that can be joined.
ListOf(cs, C) == /\ cs \in Seq(C) /\ Joinable(cs)
                 /\ \A c \in C : \E i \in 1..Len(cs) : cs[i] = c

LEMMA ListsJoin ==
  \A cs, ds, C, D :
     ListOf(cs, C) /\ ListOf(ds, D) /\ (\A c \in C, d \in D : Compatible(c, d))
       => ListOf(cs \o ds, C \cup D)
  <1> SUFFICES ASSUME NEW cs, NEW ds, NEW C, NEW D, ListOf(cs, C), ListOf(ds, D),
                      \A c \in C, d \in D : Compatible(c, d)
               PROVE  ListOf(cs \o ds, C \cup D)
    OBVIOUS
  <1> DEFINE es == cs \o ds
             n == Len(cs)
             m == Len(ds)
  <1>1. cs \in Seq(C) /\ ds \in Seq(D) /\ Joinable(cs) /\ Joinable(ds) /\ n \in Nat /\ m \in Nat
    BY DEF ListOf
  <1>2. cs \in Seq(C \cup D) /\ ds \in Seq(C \cup D)
    BY <1>1
  <1>3. /\ es \in Seq(C \cup D) /\ Len(es) = n + m /\ DOMAIN es = 1..(n + m)
        /\ \A i \in 1..(n + m) : es[i] = IF i <= n THEN cs[i] ELSE ds[i - n]
    BY <1>1, <1>2
  <1>4. DOMAIN cs = 1..n /\ DOMAIN ds = 1..m
    BY <1>1
  <1>5. (\A i \in 1..n : cs[i] \in C) /\ (\A i \in 1..m : ds[i] \in D)
    BY <1>1
  <1> HIDE DEF es, n, m
  <1>6. ASSUME NEW i \in 1..(n + m), NEW j \in 1..(n + m), i < j, es[i].field = es[j].field
        PROVE  {es[i].op, es[j].op} \subseteq Comparisons /\ es[i].op # es[j].op
    <2>1. CASE j <= n
      <3>1. i \in 1..n /\ j \in 1..n /\ es[i] = cs[i] /\ es[j] = cs[j]
        BY <1>1, <1>3, <1>6, <2>1
      <3>2. QED BY <1>1, <1>4, <1>6, <3>1 DEF Joinable
    <2>2. CASE i <= n /\ ~ (j <= n)
      <3>1. i \in 1..n /\ j - n \in 1..m /\ es[i] = cs[i] /\ es[j] = ds[j - n]
        BY <1>1, <1>3, <1>6, <2>2
      <3>2. Compatible(es[i], es[j])
        BY <1>5, <3>1
      <3>3. QED BY <1>6, <3>2 DEF Compatible
    <2>3. CASE ~ (i <= n)
      <3>1. i - n \in 1..m /\ j - n \in 1..m /\ i - n < j - n
            /\ es[i] = ds[i - n] /\ es[j] = ds[j - n]
        BY <1>1, <1>3, <1>6, <2>3
      <3>2. QED BY <1>1, <1>4, <1>6, <3>1 DEF Joinable
    <2>4. QED BY <1>1, <2>1, <2>2, <2>3
  <1>7. Joinable(es)
    BY <1>3, <1>6 DEF Joinable
  <1>8. ASSUME NEW c \in C \cup D PROVE \E i \in 1..(n + m) : es[i] = c
    <2>1. CASE c \in C
      <3>1. PICK i \in 1..n : cs[i] = c
        BY <2>1 DEF ListOf, n
      <3>2. i \in 1..(n + m) /\ es[i] = c
        BY <1>1, <1>3, <3>1
      <3>3. QED BY <3>2
    <2>2. CASE c \in D
      <3>1. PICK i \in 1..m : ds[i] = c
        BY <2>2 DEF ListOf, m
      <3>2. n + i \in 1..(n + m) /\ ~ (n + i <= n) /\ (n + i) - n = i
        BY <1>1, <3>1
      <3>3. es[n + i] = c
        BY <1>3, <3>1, <3>2
      <3>4. QED BY <3>2, <3>3
    <2>3. QED BY <2>1, <2>2
  <1>9. QED BY <1>3, <1>7, <1>8 DEF ListOf, es

LEMMA SingleList ==
  \A c : ListOf(<<c>>, {c})
  <1> TAKE c
  <1>1. /\ <<c>> \in Seq({c}) /\ Len(<<c>>) = 1 /\ <<c>>[1] = c /\ DOMAIN <<c>> = {1}
    OBVIOUS
  <1>2. Joinable(<<c>>)
    BY <1>1 DEF Joinable
  <1>3. QED BY <1>1, <1>2 DEF ListOf

LEMMA PairList ==
  \A c, d : Compatible(c, d) => ListOf(<<c, d>>, {c} \cup {d})
  <1> SUFFICES ASSUME NEW c, NEW d, Compatible(c, d) PROVE ListOf(<<c, d>>, {c} \cup {d})
    OBVIOUS
  <1>1. /\ <<c, d>> \in Seq({c} \cup {d}) /\ Len(<<c, d>>) = 2 /\ DOMAIN <<c, d>> = {1, 2}
        /\ <<c, d>>[1] = c /\ <<c, d>>[2] = d
    OBVIOUS
  <1>2. Joinable(<<c, d>>)
    BY <1>1 DEF Joinable, Compatible
  <1>3. QED BY <1>1, <1>2 DEF ListOf

\* What is given of a value, and what its conditions are.
OfGiven(value, C) == IF value = None THEN {} ELSE C

LEMMA GivenList ==
  \A value, cs, C : ListOf(cs, C) => ListOf(Given(value, cs), OfGiven(value, C))
  <1> TAKE value, cs, C
  <1>1. ListOf(<<>>, {})
    <2>1. <<>> \in Seq({}) /\ DOMAIN <<>> = {}
      OBVIOUS
    <2>2. QED BY <2>1 DEF ListOf, Joinable
  <1>2. QED BY <1>1 DEF Given, OfGiven

MetricCondition(m) == Condition(m.field, MetricOp(m.op), MetricValue(m))

ConditionsOf(f) ==
  OfGiven(f.industries, {Condition("industry", "$in", f.industries)})
  \cup {Condition("asset_type", "$eq", AssetType(f))}
  \cup OfGiven(f.cap, {Condition("total_assets", "$gte", CapRange[f.cap][1])}
                      \cup {Condition("total_assets", "$lte", CapRange[f.cap][2])})
  \cup OfGiven(f.signals, {Condition("signals", "$all", f.signals)})
  \cup {MetricCondition(f.metrics[i]) : i \in 1..Len(f.metrics)}

LEMMA ConditionIs ==
  \A field, op, value : LET c == Condition(field, op, value)
                        IN  c.field = field /\ c.op = op /\ c.value = value
  BY DEF Condition

LEMMA MeetsIs ==
  \A t, field, op, value : Meets(t, Condition(field, op, value)) <=>
                             field \in DOMAIN t /\ Holds(op, t[field], value)
  BY DEF Meets, Condition

LEMMA HoldsIs ==
  \A x, v : /\ Holds("$eq", x, v) <=> x = v
            /\ Holds("$in", x, v) <=> x \in v
            /\ Holds("$all", x, v) <=> v \subseteq x
            /\ Holds("$gte", x, v) <=> x >= v
            /\ Holds("$lte", x, v) <=> x <= v
  BY DEF Holds

LEMMA MetricList ==
  ASSUME NEW f \in TickerFilter, ~ Unsupported(f), ~ Repeats(f)
  PROVE  /\ ListOf([i \in DOMAIN f.metrics |-> MetricCondition(f.metrics[i])],
                   {MetricCondition(f.metrics[i]) : i \in 1..Len(f.metrics)})
         /\ \A i \in 1..Len(f.metrics) : MetricCondition(f.metrics[i]).field \in MetricFields
  <1> DEFINE ms == f.metrics
             n == Len(ms)
             C == {MetricCondition(ms[i]) : i \in 1..n}
             cs == [i \in DOMAIN ms |-> MetricCondition(ms[i])]
  <1>1. ms \in Seq(MetricFilter)
    BY DEF TickerFilter
  <1>2. n \in Nat /\ DOMAIN ms = 1..n /\ \A i \in 1..n : ms[i] \in Range(ms)
    BY <1>1 DEF Range
  <1>3. \A i \in 1..n : ms[i].field \in MetricFields
    BY <1>2 DEF Unsupported
  <1>4. \A i \in 1..n : /\ MetricCondition(ms[i]).field = ms[i].field
                        /\ MetricCondition(ms[i]).op = MetricOp(ms[i].op)
    BY ConditionIs DEF MetricCondition
  <1>5. cs \in [1..n -> C] /\ DOMAIN cs = 1..n
    BY <1>2
  <1>6. \A i, j \in 1..n : i < j /\ ms[i].field = ms[j].field
                             => MetricOp(ms[i].op) # MetricOp(ms[j].op)
    BY <1>2 DEF Repeats
  <1>7. \A op : MetricOp(op) \in Comparisons
    BY DEF MetricOp, Comparisons
  <1> HIDE DEF ms
  <1>8. cs \in Seq(C) /\ Len(cs) = n
    BY <1>2, <1>5
  <1>9. \A i \in 1..n : cs[i] = MetricCondition(ms[i])
    BY <1>2
  <1> HIDE DEF cs
  <1>10. Joinable(cs)
    <2>1. SUFFICES ASSUME NEW i \in 1..n, NEW j \in 1..n, i < j, cs[i].field = cs[j].field
                   PROVE  {cs[i].op, cs[j].op} \subseteq Comparisons /\ cs[i].op # cs[j].op
      BY <1>5 DEF Joinable
    <2>2. /\ cs[i].field = ms[i].field /\ cs[i].op = MetricOp(ms[i].op)
          /\ cs[j].field = ms[j].field /\ cs[j].op = MetricOp(ms[j].op)
      BY <1>4, <1>9
    <2>3. QED BY <1>6, <1>7, <2>1, <2>2
  <1>11. ListOf(cs, C)
    BY <1>8, <1>9, <1>10 DEF ListOf
  <1>12. QED BY <1>3, <1>4, <1>11 DEF cs, ms

LEMMA ConditionsListed ==
  ASSUME NEW f \in TickerFilter, ~ Unsupported(f), ~ Repeats(f)
  PROVE  ListOf(Conditions(f), ConditionsOf(f))
  <1> DEFINE industry == Condition("industry", "$in", f.industries)
             asset == Condition("asset_type", "$eq", AssetType(f))
             low == Condition("total_assets", "$gte", CapRange[f.cap][1])
             high == Condition("total_assets", "$lte", CapRange[f.cap][2])
             all == Condition("signals", "$all", f.signals)
             ms == [i \in DOMAIN f.metrics |-> MetricCondition(f.metrics[i])]
             M == {MetricCondition(f.metrics[i]) : i \in 1..Len(f.metrics)}
  <1>1. /\ industry.field = "industry" /\ asset.field = "asset_type" /\ all.field = "signals"
        /\ low.field = "total_assets" /\ low.op = "$gte"
        /\ high.field = "total_assets" /\ high.op = "$lte"
    BY ConditionIs
  <1>2. ListOf(ms, M) /\ \A c \in M : c.field \in MetricFields
    BY MetricList
  <1>3. Conditions(f) = Given(f.industries, <<industry>>) \o <<asset>>
                        \o Given(f.cap, <<low, high>>) \o Given(f.signals, <<all>>) \o ms
    BY DEF Conditions, MetricCondition
  <1>4. ConditionsOf(f) = OfGiven(f.industries, {industry}) \cup {asset}
                          \cup OfGiven(f.cap, {low} \cup {high}) \cup OfGiven(f.signals, {all}) \cup M
    BY DEF ConditionsOf
  <1> HIDE DEF industry, asset, low, high, all, ms, M
  <1>6. ListOf(<<low, high>>, {low} \cup {high})
    <2>1. Compatible(low, high)
      BY <1>1 DEF Compatible, Comparisons
    <2>2. QED BY <2>1, PairList
  <1> DEFINE I == OfGiven(f.industries, {industry})
             T == OfGiven(f.cap, {low} \cup {high})
             S == OfGiven(f.signals, {all})
             is == Given(f.industries, <<industry>>)
             ts == Given(f.cap, <<low, high>>)
             ss == Given(f.signals, <<all>>)
  <1>7. ListOf(is, I) /\ ListOf(ts, T) /\ ListOf(ss, S) /\ ListOf(<<asset>>, {asset})
    BY <1>6, SingleList, GivenList
  <1>8. /\ \A c \in I : c.field = "industry"
        /\ \A c \in {asset} : c.field = "asset_type"
        /\ \A c \in T : c.field = "total_assets"
        /\ \A c \in S : c.field = "signals"
    BY <1>1 DEF OfGiven
  <1> HIDE DEF I, T, S, is, ts, ss
  <1>9. ListOf(is \o <<asset>>, I \cup {asset})
    <2>1. \A c \in I, d \in {asset} : Compatible(c, d)
      BY <1>8 DEF Compatible
    <2>2. QED BY <1>7, <2>1, ListsJoin
  <1>10. ListOf((is \o <<asset>>) \o ts, (I \cup {asset}) \cup T)
    <2>1. \A c \in I \cup {asset}, d \in T : Compatible(c, d)
      BY <1>8 DEF Compatible
    <2>2. QED BY <1>7, <1>9, <2>1, ListsJoin
  <1>11. ListOf(((is \o <<asset>>) \o ts) \o ss, ((I \cup {asset}) \cup T) \cup S)
    <2>1. \A c \in (I \cup {asset}) \cup T, d \in S : Compatible(c, d)
      BY <1>8 DEF Compatible
    <2>2. QED BY <1>7, <1>10, <2>1, ListsJoin
  <1>12. ListOf((((is \o <<asset>>) \o ts) \o ss) \o ms, (((I \cup {asset}) \cup T) \cup S) \cup M)
    <2>1. \A c \in ((I \cup {asset}) \cup T) \cup S, d \in M : Compatible(c, d)
      <3>1. {"industry", "asset_type", "total_assets", "signals"} \cap MetricFields = {}
        BY DEF MetricFields
      <3>2. QED BY <1>2, <1>8, <3>1 DEF Compatible
    <2>2. QED BY <1>2, <1>11, <2>1, ListsJoin
  <1>13. QED BY <1>3, <1>4, <1>12 DEF I, T, S, is, ts, ss

\* The filter of a request lets through the tickers that are wanted.
LEMMA FilterWants ==
  ASSUME NEW f \in TickerFilter, ~ Unsupported(f), ~ Repeats(f), NEW t,
         {"industry", "asset_type", "signals"} \subseteq DOMAIN t,
         "total_assets" \in DOMAIN t => t.total_assets \in Int
  PROVE  Matches(t, BuildFilter(Conditions(f))) <=> Wanted(t, f)
  <1> DEFINE cs == Conditions(f)
             C == ConditionsOf(f)
             n == Len(cs)
  <1>1. ListOf(cs, C)
    BY ConditionsListed
  <1> HIDE DEF cs, C
  <1>2. n \in Nat /\ DOMAIN cs = 1..n /\ Joinable(cs) /\ \A i \in 1..n : cs[i] \in C
    BY <1>1 DEF ListOf
  <1>3. Matches(t, BuildFilter(cs)) <=> \A i \in 1..n : Meets(t, cs[i])
    BY <1>2, MatchMeets
  <1>4. (\A i \in 1..n : Meets(t, cs[i])) <=> \A c \in C : Meets(t, c)
    BY <1>1, <1>2 DEF ListOf
  <1>5. Meets(t, Condition("industry", "$in", f.industries)) <=> t.industry \in f.industries
    BY MeetsIs, HoldsIs
  <1>6. Meets(t, Condition("asset_type", "$eq", AssetType(f))) <=> t.asset_type = AssetType(f)
    BY MeetsIs, HoldsIs
  <1>7. Meets(t, Condition("signals", "$all", f.signals)) <=> f.signals \subseteq t.signals
    BY MeetsIs, HoldsIs
  <1>8. f.cap # None =>
          ((/\ Meets(t, Condition("total_assets", "$gte", CapRange[f.cap][1]))
            /\ Meets(t, Condition("total_assets", "$lte", CapRange[f.cap][2])))
           <=> (/\ "total_assets" \in DOMAIN t
                /\ t.total_assets \in CapRange[f.cap][1]..CapRange[f.cap][2]))
    <2>1. SUFFICES ASSUME f.cap # None
          PROVE (/\ Meets(t, Condition("total_assets", "$gte", CapRange[f.cap][1]))
                 /\ Meets(t, Condition("total_assets", "$lte", CapRange[f.cap][2])))
                <=> (/\ "total_assets" \in DOMAIN t
                     /\ t.total_assets \in CapRange[f.cap][1]..CapRange[f.cap][2])
      OBVIOUS
    <2>2. f.cap \in DOMAIN CapRange
      BY <2>1 DEF TickerFilter
    <2>3. CapRange[f.cap][1] \in Int /\ CapRange[f.cap][2] \in Int
      BY <2>2, TickersAssumption DEF TickersAssumption
    <2>4. /\ Meets(t, Condition("total_assets", "$gte", CapRange[f.cap][1]))
             <=> ("total_assets" \in DOMAIN t /\ t.total_assets >= CapRange[f.cap][1])
          /\ Meets(t, Condition("total_assets", "$lte", CapRange[f.cap][2]))
             <=> ("total_assets" \in DOMAIN t /\ t.total_assets <= CapRange[f.cap][2])
      BY MeetsIs, HoldsIs
    <2>5. QED BY <2>3, <2>4
  <1>9. \A i \in 1..Len(f.metrics) :
          LET m == f.metrics[i]
          IN  Meets(t, MetricCondition(m))
              <=> m.field \in DOMAIN t /\ Holds(MetricOp(m.op), t[m.field], MetricValue(m))
    BY MeetsIs DEF MetricCondition
  <1>10. (\A m \in Range(f.metrics) :
            m.field \in DOMAIN t /\ Holds(MetricOp(m.op), t[m.field], MetricValue(m)))
         <=> \A i \in 1..Len(f.metrics) : Meets(t, MetricCondition(f.metrics[i]))
    <2>1. f.metrics \in Seq(MetricFilter)
      BY DEF TickerFilter
    <2>2. Range(f.metrics) = {f.metrics[i] : i \in 1..Len(f.metrics)}
      BY <2>1 DEF Range
    <2>3. QED BY <1>9, <2>2
  <1>11. (\A c \in C : Meets(t, c)) <=>
           /\ f.industries # None => Meets(t, Condition("industry", "$in", f.industries))
           /\ Meets(t, Condition("asset_type", "$eq", AssetType(f)))
           /\ f.cap # None =>
                /\ Meets(t, Condition("total_assets", "$gte", CapRange[f.cap][1]))
                /\ Meets(t, Condition("total_assets", "$lte", CapRange[f.cap][2]))
           /\ f.signals # None => Meets(t, Condition("signals", "$all", f.signals))
           /\ \A i \in 1..Len(f.metrics) : Meets(t, MetricCondition(f.metrics[i]))
    BY DEF C, ConditionsOf, OfGiven
  <1>12. (\A c \in C : Meets(t, c)) <=> Wanted(t, f)
    BY <1>5, <1>6, <1>7, <1>8, <1>10, <1>11 DEF Wanted
  <1>13. QED BY <1>3, <1>4, <1>12 DEF cs

-----------------------------------------------------------------------------
(* The answer to a request. *)

\* What every ticker has.
Whole(t) == /\ {"symbol", "id", "industry", "asset_type", "signals"} \subseteq DOMAIN t
            /\ t.id \in Int
            /\ \A field \in SortFields \cap DOMAIN t : t[field] \in Int

LEMMA TickersWhole ==
  /\ IsFiniteSet(AllTickers)
  /\ \A t \in AllTickers : Whole(t)
  /\ \A t, u \in AllTickers : t.symbol = u.symbol \/ t.id = u.id => t = u
  <1> DEFINE w == WatchedNow
             T == Tickers \cup {Watched}
  <1>1. /\ DOMAIN w = DOMAIN Watched \cup {"signals"}
        /\ \A x \in DOMAIN Watched \ {"signals"} : w[x] = Watched[x]
    BY DEF WatchedNow, With
  <1>2. /\ IsFiniteSet(Tickers) /\ Watched \notin Tickers
        /\ \A t \in T : /\ {"symbol", "id", "industry", "asset_type"} \subseteq DOMAIN t
                        /\ t.id \in Nat
                        /\ \A field \in SortFields \cap DOMAIN t : t[field] \in Int
        /\ \A t \in Tickers : "signals" \in DOMAIN t
        /\ \A t, u \in T : t.symbol = u.symbol \/ t.id = u.id => t = u
    BY TickersAssumption DEF TickersAssumption
  <1>3. AllTickers = Tickers \cup {w}
    BY DEF AllTickers
  <1> HIDE DEF w
  <1>4. IsFiniteSet(AllTickers)
    BY <1>2, <1>3, FS_AddElement
  <1>5. w.symbol = Watched.symbol /\ w.id = Watched.id
    BY <1>1, <1>2
  <1>6. Whole(w)
    <2>1. {"symbol", "id", "industry", "asset_type", "signals"} \subseteq DOMAIN w /\ w.id \in Int
      BY <1>1, <1>2, <1>5
    <2>2. ASSUME NEW field \in SortFields \cap DOMAIN w PROVE w[field] \in Int
      <3>1. field # "signals"
        BY DEF SortFields
      <3>2. QED BY <1>1, <1>2, <3>1
    <2>3. QED BY <2>1, <2>2 DEF Whole
  <1>7. \A t \in Tickers : Whole(t)
    BY <1>2 DEF Whole
  <1>8. ASSUME NEW t \in AllTickers, NEW u \in AllTickers, t.symbol = u.symbol \/ t.id = u.id
        PROVE  t = u
    <2>1. CASE t \in Tickers /\ u \in Tickers
      BY <1>2, <1>8, <2>1
    <2>2. CASE t \in Tickers /\ u = w
      BY <1>2, <1>5, <1>8, <2>2
    <2>3. CASE t = w /\ u \in Tickers
      BY <1>2, <1>5, <1>8, <2>3
    <2>4. CASE t = w /\ u = w
      BY <2>4
    <2>5. QED BY <1>3, <2>1, <2>2, <2>3, <2>4
  <1>9. QED BY <1>3, <1>4, <1>6, <1>7, <1>8

LEMMA KeysAreNumbers ==
  ASSUME NEW f, ~ Unsupported(f), NEW t, Whole(t)
  PROVE  SortKey(t, f) \in Int
  <1>1. SortField(f) \in SortFields
    BY DEF Unsupported, SortField, SortFields
  <1>2. Missing \in Int
    BY DEF Missing
  <1>3. QED BY <1>1, <1>2 DEF SortKey, Whole

\* The order of the tickers found.
Order(f, S) == {p \in S \X S : Goes(f, p[1], p[2])}

LEMMA OrderIs ==
  \A f, S : \A t, u \in S : <<t, u>> \in Order(f, S) <=> Goes(f, t, u)
  BY DEF Order

LEMMA GoesOrders ==
  ASSUME NEW f, ~ Unsupported(f), NEW S \in SUBSET AllTickers
  PROVE  Orders(Order(f, S), S)
  <1> DEFINE key(t) == SortKey(t, f)
  <1>1. \A t \in S : key(t) \in Int /\ t.id \in Int
    BY TickersWhole, KeysAreNumbers DEF Whole
  <1>2. \A t, u \in S : t.id = u.id => t = u
    BY TickersWhole
  <1>3. \/ \A t, u : Before(f, t, u) <=> key(t) < key(u)
        \/ \A t, u : Before(f, t, u) <=> key(t) > key(u)
    BY DEF Before
  <1> HIDE DEF key
  <1>4. \A t \in S : ~ Goes(f, t, t)
    BY <1>1, <1>3 DEF Goes
  <1>5. \A t, u, v \in S : Goes(f, t, u) /\ Goes(f, u, v) => Goes(f, t, v)
    BY <1>1, <1>3 DEF Goes
  <1>6. \A t, u \in S : t = u \/ Goes(f, t, u) \/ Goes(f, u, t)
    BY <1>1, <1>2, <1>3 DEF Goes
  <1>7. QED BY <1>4, <1>5, <1>6, OrderIs DEF Orders

\* What goes first does not come after.
LEMMA GoesBefore ==
  ASSUME NEW f, ~ Unsupported(f), NEW t, NEW u, Whole(t), Whole(u), Goes(f, t, u)
  PROVE  ~ Before(f, u, t) /\ t # u
  <1>1. SortKey(t, f) \in Int /\ SortKey(u, f) \in Int /\ t.id \in Int /\ u.id \in Int
    BY KeysAreNumbers DEF Whole
  <1>2. QED BY <1>1 DEF Goes, Before

LEMMA FirstOfIs ==
  ASSUME NEW f, ~ Unsupported(f), NEW S \in SUBSET AllTickers, NEW n \in Nat
  PROVE  /\ FirstOf(S, f, n) \subseteq S
         /\ \A t \in S \ FirstOf(S, f, n) :
              /\ Cardinality({u \in S \ {t} : ~ Before(f, t, u)}) >= n
              /\ Cardinality(FirstOf(S, f, n)) = n
              /\ \A u \in FirstOf(S, f, n) : ~ Before(f, t, u)
  <1> DEFINE R == Order(f, S)
             F == First(R, S, n)
  <1>1. IsFiniteSet(S)
    BY TickersWhole, FS_Subset
  <1>2. Orders(R, S)
    BY GoesOrders
  <1>3. \A t \in S : {u \in S : Goes(f, u, t)} = Ahead(R, S, t)
    BY OrderIs DEF Ahead
  <1>4. FirstOf(S, f, n) = F
    BY <1>3 DEF FirstOf, First
  <1>5. F \subseteq S
    BY DEF First
  <1> HIDE DEF R, F
  <1>6. ASSUME NEW t \in S \ F
        PROVE  /\ Cardinality({u \in S \ {t} : ~ Before(f, t, u)}) >= n
               /\ Cardinality(F) = n /\ \A u \in F : ~ Before(f, t, u)
    <2>1. Cardinality(Ahead(R, S, t)) >= n /\ Cardinality(F) = n /\ \A u \in F : <<t, u>> \notin R
      BY <1>1, <1>2, LeftOut DEF F
    <2>7. \A u \in F : ~ Before(f, t, u)
      BY <1>5, <2>1, OrderIs DEF R, Goes
    <2> DEFINE B == {u \in S \ {t} : ~ Before(f, t, u)}
    <2>2. Ahead(R, S, t) \subseteq B
      <3>1. ASSUME NEW u \in Ahead(R, S, t) PROVE u \in B
        <4>1. u \in S /\ Goes(f, u, t)
          BY <1>3, <3>1
        <4>2. Whole(u) /\ Whole(t)
          BY <4>1, TickersWhole
        <4>3. ~ Before(f, t, u) /\ u # t
          BY <4>1, <4>2, GoesBefore
        <4>4. QED BY <4>1, <4>3
      <3>2. QED BY <3>1
    <2>3. B \subseteq S
      OBVIOUS
    <2> HIDE DEF B
    <2>4. IsFiniteSet(B) /\ Cardinality(Ahead(R, S, t)) <= Cardinality(B)
      BY <1>1, <2>2, <2>3, FS_Subset
    <2>5. Cardinality(B) \in Nat /\ Cardinality(Ahead(R, S, t)) \in Nat
      BY <1>1, <2>4, FS_CardinalityType, AheadCounted
    <2>6. QED BY <2>1, <2>4, <2>5, <2>7 DEF B
  <1>7. QED BY <1>4, <1>5, <1>6

\* A question's order of the tickers with an overview.
NearOrder(f, S) == {p \in S \X S : GoesNearer(f, p[1], p[2])}

Overviewed(f, S) == {t \in S : t.symbol \in DOMAIN Near[f.query]}

LEMMA NearOrderIs ==
  \A f, S : \A t, u \in S : <<t, u>> \in NearOrder(f, S) <=> GoesNearer(f, t, u)
  BY DEF NearOrder

LEMMA RankedIs ==
  ASSUME NEW f, ~ Unsupported(f), f.query \in DOMAIN Near, NEW S \in SUBSET AllTickers,
         NEW n \in Nat
  PROVE  /\ Ranked(S, f, n) \subseteq Overviewed(f, S)
         /\ \A t \in Overviewed(f, S) : Near[f.query][t.symbol] \in Int
         /\ \A t \in Overviewed(f, S) \ Ranked(S, f, n) :
              /\ Cardinality(Ranked(S, f, n)) = n
              /\ \A u \in Ranked(S, f, n) : Near[f.query][u.symbol] >= Near[f.query][t.symbol]
  <1> DEFINE K == Overviewed(f, S)
             R == NearOrder(f, K)
             F == First(R, K, n)
             near(t) == Near[f.query][t.symbol]
  <1>1. K \subseteq S /\ K \in SUBSET AllTickers /\ IsFiniteSet(K)
    <2>1. K \subseteq AllTickers /\ K \subseteq S
      BY DEF Overviewed
    <2>2. QED BY <2>1, TickersWhole, FS_Subset
  <1>2. \A t \in K : near(t) \in Int
    BY TickersAssumption DEF TickersAssumption, Overviewed
  <1>3. Orders(Order(f, K), K)
    BY <1>1, GoesOrders
  <1>4. \A t, u : GoesNearer(f, t, u) <=> near(t) > near(u) \/ (near(t) = near(u) /\ Goes(f, t, u))
    BY DEF GoesNearer
  <1>5. Ranked(S, f, n) = {t \in K : Cardinality({u \in K : GoesNearer(f, u, t)}) < n}
    BY DEF Ranked, Overviewed
  <1> HIDE DEF K, near
  <1>6. /\ \A t \in K : ~ Goes(f, t, t)
        /\ \A t, u, v \in K : Goes(f, t, u) /\ Goes(f, u, v) => Goes(f, t, v)
        /\ \A t, u \in K : t = u \/ Goes(f, t, u) \/ Goes(f, u, t)
    BY <1>3, OrderIs DEF Orders
  <1>7. Orders(R, K)
    <2>1. \A t \in K : ~ GoesNearer(f, t, t)
      BY <1>2, <1>4, <1>6
    <2>2. \A t, u, v \in K : GoesNearer(f, t, u) /\ GoesNearer(f, u, v) => GoesNearer(f, t, v)
      BY <1>2, <1>4, <1>6
    <2>3. \A t, u \in K : t = u \/ GoesNearer(f, t, u) \/ GoesNearer(f, u, t)
      BY <1>2, <1>4, <1>6
    <2>4. QED BY <2>1, <2>2, <2>3, NearOrderIs DEF Orders
  <1>8. \A t \in K : {u \in K : GoesNearer(f, u, t)} = Ahead(R, K, t)
    BY NearOrderIs DEF Ahead
  <1>9. Ranked(S, f, n) = F
    BY <1>5, <1>8 DEF First
  <1>10. F \subseteq K
    BY DEF First
  <1>11. ASSUME NEW t \in K \ F
         PROVE  Cardinality(F) = n /\ \A u \in F : near(u) >= near(t)
    <2>1. Cardinality(F) = n /\ \A u \in F : <<t, u>> \notin R
      BY <1>1, <1>7, LeftOut
    <2> HIDE DEF F, R
    <2>2. ASSUME NEW u \in F PROVE near(u) >= near(t)
      <3>1. u \in K /\ ~ GoesNearer(f, t, u)
        BY <1>10, <2>1, NearOrderIs DEF R
      <3>2. near(u) \in Int /\ near(t) \in Int
        BY <1>2, <3>1
      <3>3. QED BY <1>4, <3>1, <3>2
    <2>3. QED BY <2>1, <2>2
  <1> HIDE DEF F
  <1>12. QED BY <1>2, <1>9, <1>10, <1>11 DEF K, near

WantedOf(f) == {t \in AllTickers : Wanted(t, f)}

\* What the database finds is wanted; what it leaves out the limit has cut off.
LEMMA FoundFit ==
  ASSUME NEW f \in TickerFilter, ~ Unsupported(f), ~ Repeats(f)
  PROVE  /\ SearchTickers(AllTickers, f) \subseteq WantedOf(f)
         /\ \A t \in WantedOf(f) \ SearchTickers(AllTickers, f) : CutOff(WantedOf(f), t, f)
  <1> DEFINE W == WantedOf(f)
  <1>1. ASSUME NEW t \in AllTickers
        PROVE  Matches(t, BuildFilter(Conditions(f))) <=> Wanted(t, f)
    <2>1. Whole(t)
      BY TickersWhole
    <2>2. /\ {"industry", "asset_type", "signals"} \subseteq DOMAIN t
          /\ "total_assets" \in DOMAIN t => t.total_assets \in Int
      BY <2>1 DEF Whole, SortFields
    <2>3. QED BY <2>2, FilterWants
  <1>2. W = {t \in AllTickers : Matches(t, BuildFilter(Conditions(f)))}
    BY <1>1 DEF WantedOf
  <1>3. SearchTickers(AllTickers, f) = IF f.limit \in {None, 0} THEN W ELSE FirstOf(W, f, f.limit)
    BY <1>2 DEF SearchTickers
  <1>4. W \in SUBSET AllTickers
    BY DEF WantedOf
  <1> HIDE DEF W
  <1>5. CASE f.limit \in {None, 0}
    BY <1>3, <1>5 DEF W
  <1>6. CASE f.limit \notin {None, 0}
    <2>1. f.limit \in Nat
      BY <1>6 DEF TickerFilter
    <2>2. /\ FirstOf(W, f, f.limit) \subseteq W
          /\ \A t \in W \ FirstOf(W, f, f.limit) :
               Cardinality({u \in W \ {t} : ~ Before(f, t, u)}) >= f.limit
      BY <1>4, <2>1, FirstOfIs
    <2>3. \A t \in W \ FirstOf(W, f, f.limit) : CutOff(W, t, f)
      BY <1>6, <2>2 DEF CutOff
    <2>4. QED BY <1>3, <1>6, <2>2, <2>3 DEF W
  <1>7. QED BY <1>5, <1>6

\* What AnswersFitFilter says of the tickers `best` that answer f.
Fitting(f, best, most, floor) ==
  /\ best \subseteq WantedOf(f)
  /\ \A t \in WantedOf(f) \ best :
       \/ CutOff(WantedOf(f), t, f)
       \/ f.query = None /\ Cardinality(best) = most /\ \A u \in best : ~ Before(f, t, u)
       \/ f.query # None /\ t.symbol \notin DOMAIN Near[f.query]
       \/ f.query # None /\ LET near(u) == Near[f.query][u.symbol] IN
            \/ near(t) <= floor
            \/ Cardinality(best) = most /\ \A u \in best : near(u) >= near(t)

LEMMA FittingAnswers ==
  ASSUME NEW f, NEW best \in SUBSET AllTickers, NEW most, NEW floor,
         answer' = Answer(f, best, most, floor), ~ Repeats(f) => Fitting(f, best, most, floor)
  PROVE  AnswersFitFilter'
  <1>1. /\ answer'.filter = f /\ answer'.of = AllTickers /\ answer'.most = most
        /\ answer'.floor = floor /\ answer'.symbols = {t.symbol : t \in best}
    BY DEF Answer
  <1>2. {t \in AllTickers : t.symbol \in {u.symbol : u \in best}} = best
    <2>1. ASSUME NEW t \in AllTickers, NEW u \in best, t.symbol = u.symbol PROVE t \in best
      <3>1. t = u
        BY <2>1, TickersWhole
      <3>2. QED BY <3>1
    <2>2. QED BY <2>1
  <1>3. {t \in answer'.of : t.symbol \in answer'.symbols} = best
    BY <1>1, <1>2
  <1>4. {t \in answer'.of : Wanted(t, f)} = WantedOf(f)
    BY <1>1 DEF WantedOf
  <1>5. SUFFICES ASSUME ~ Repeats(f) PROVE AnswersFitFilter'
    BY <1>1 DEF AnswersFitFilter
  <1> DEFINE near(u) == Near[f.query][u.symbol]
  <1>6. best \subseteq WantedOf(f)
    BY <1>5 DEF Fitting
  <1>7. ASSUME NEW t \in WantedOf(f) \ best
        PROVE  \/ CutOff(WantedOf(f), t, f)
               \/ f.query = None /\ Cardinality(best) = most /\ \A u \in best : ~ Before(f, t, u)
               \/ f.query # None /\ t.symbol \notin DOMAIN Near[f.query]
               \/ f.query # None /\ (near(t) <= floor
                    \/ (Cardinality(best) = most /\ \A u \in best : near(u) >= near(t)))
    BY <1>5 DEF Fitting
  <1> DEFINE fits(g, given, want, full, least) ==
               /\ given \subseteq want
               /\ \A t \in want \ given :
                    \/ CutOff(want, t, g)
                    \/ g.query = None /\ full /\ \A u \in given : ~ Before(g, t, u)
                    \/ g.query # None /\ t.symbol \notin DOMAIN Near[g.query]
                    \/ g.query # None /\
                         \/ Near[g.query][t.symbol] <= least
                         \/ full /\ \A u \in given : Near[g.query][u.symbol] >= Near[g.query][t.symbol]
  <1>8. fits(f, best, WantedOf(f), Cardinality(best) = most, floor)
    BY <1>6, <1>7
  <1>9. fits(answer'.filter, {t \in answer'.of : t.symbol \in answer'.symbols},
             {t \in answer'.of : Wanted(t, answer'.filter)},
             Cardinality({t \in answer'.of : t.symbol \in answer'.symbols}) = answer'.most, answer'.floor)
    <2> HIDE DEF fits
    <2>1. QED BY <1>1, <1>3, <1>4, <1>8
  <1>10. QED BY <1>9 DEF AnswersFitFilter

LEMMA FailureFits == ASSUME NEW f, answer' = Failed(f) PROVE AnswersFitFilter'
  <1>1. answer'.failed
    BY DEF Failed, Answer
  <1>2. QED BY <1>1 DEF AnswersFitFilter

\* The tool.
LEMMA ToolFits ==
  ASSUME NEW f \in TickerFilter, Execute(f)
  PROVE  AnswersFitFilter'
  <1> DEFINE found == SearchTickers(AllTickers, f)
             limit == IF f.limit = None THEN DefaultLimit ELSE f.limit
             best == IF f.query = None THEN FirstOf(found, f, limit) ELSE Ranked(found, f, limit)
             W == WantedOf(f)
  <1>1. CASE answer' = Failed(f)
    BY <1>1, FailureFits
  <1>2. CASE ~ Unsupported(f) /\ answer' # Failed(f)
    <2>1. answer' = Answer(f, best, limit, -100)
      BY <1>2 DEF Execute
    <2>2. limit \in Nat
      BY TickersAssumption DEF TickerFilter, TickersAssumption
    <2>3. found \in SUBSET AllTickers
      BY DEF SearchTickers, FirstOf
    <2> HIDE DEF found, limit
    <2>4. CASE f.query = None
      <3>1. best = FirstOf(found, f, limit)
        BY <2>4
      <3>2. /\ best \subseteq found
            /\ \A t \in found \ best : Cardinality(best) = limit
                                        /\ \A u \in best : ~ Before(f, t, u)
        <4>1. /\ FirstOf(found, f, limit) \subseteq found
              /\ \A t \in found \ FirstOf(found, f, limit) :
                   /\ Cardinality(FirstOf(found, f, limit)) = limit
                   /\ \A u \in FirstOf(found, f, limit) : ~ Before(f, t, u)
          BY <1>2, <2>2, <2>3, FirstOfIs
        <4> HIDE DEF best
        <4>2. QED BY <3>1, <4>1
      <3> HIDE DEF best
      <3>3. ASSUME ~ Repeats(f) PROVE Fitting(f, best, limit, -100)
        <4>1. found \subseteq W /\ \A t \in W \ found : CutOff(W, t, f)
          BY <1>2, <3>3, FoundFit DEF found
        <4>2. QED BY <2>4, <3>2, <4>1 DEF Fitting
      <3>4. QED BY <2>1, <2>3, <3>2, <3>3, FittingAnswers
    <2>5. CASE f.query # None
      <3>1. best = Ranked(found, f, limit) /\ f.query \in DOMAIN Near
        BY <2>5 DEF TickerFilter
      <3>2. /\ best \subseteq Overviewed(f, found)
            /\ \A t \in Overviewed(f, found) \ best :
                 /\ Cardinality(best) = limit
                 /\ \A u \in best : Near[f.query][u.symbol] >= Near[f.query][t.symbol]
        BY <1>2, <2>2, <2>3, <3>1, RankedIs
      <3>3. best \subseteq found
        BY <3>2 DEF Overviewed
      <3> HIDE DEF best
      <3>4. ASSUME ~ Repeats(f) PROVE Fitting(f, best, limit, -100)
        <4>1. found \subseteq W /\ \A t \in W \ found : CutOff(W, t, f)
          BY <1>2, <3>4, FoundFit DEF found
        <4>2. QED BY <2>5, <3>2, <3>3, <4>1 DEF Fitting, Overviewed
      <3>5. QED BY <2>1, <2>3, <3>3, <3>4, FittingAnswers
    <2>6. QED BY <2>4, <2>5
  <1>3. QED BY <1>1, <1>2 DEF Execute

\* The route.
LEMMA RouteFits ==
  ASSUME NEW f \in TickerFilter, NEW score \in Int, Search(f, score)
  PROVE  AnswersFitFilter'
  <1> DEFINE found == SearchTickers(AllTickers, f)
             ranked == Ranked(found, f, SearchTop)
             near(t) == Near[f.query][t.symbol]
             best == {t \in ranked : near(t) > score}
             W == WantedOf(f)
  <1>1. CASE answer' = Failed(f)
    BY <1>1, FailureFits
  <1>2. CASE ~ Unsupported(f) /\ answer' # Failed(f) /\ f.query = None
    <2>1. answer' = Answer(f, found, Cardinality(AllTickers), -100)
      BY <1>2 DEF Search
    <2>2. found \in SUBSET AllTickers
      BY DEF SearchTickers, FirstOf
    <2>3. ASSUME ~ Repeats(f) PROVE Fitting(f, found, Cardinality(AllTickers), -100)
      <3>1. found \subseteq W /\ \A t \in W \ found : CutOff(W, t, f)
        BY <1>2, <2>3, FoundFit
      <3> HIDE DEF found
      <3>2. QED BY <3>1 DEF Fitting
    <2> HIDE DEF found
    <2>4. QED BY <2>1, <2>2, <2>3, FittingAnswers
  <1>3. CASE ~ Unsupported(f) /\ answer' # Failed(f) /\ f.query # None
    <2>1. answer' = Answer(f, best, SearchTop, score)
      BY <1>3 DEF Search
    <2>2. found \in SUBSET AllTickers
      BY DEF SearchTickers, FirstOf
    <2>3. f.query \in DOMAIN Near /\ SearchTop \in Nat
      BY <1>3, TickersAssumption DEF TickerFilter, TickersAssumption
    <2> HIDE DEF found
    <2>4. /\ ranked \subseteq Overviewed(f, found)
          /\ \A t \in Overviewed(f, found) : near(t) \in Int
          /\ \A t \in Overviewed(f, found) \ ranked :
               Cardinality(ranked) = SearchTop /\ \A u \in ranked : near(u) >= near(t)
      BY <1>3, <2>2, <2>3, RankedIs
    <2> HIDE DEF ranked
    <2>5. best \subseteq ranked /\ best \subseteq found
      BY <2>4 DEF Overviewed
    <2>6. ASSUME ~ Repeats(f) PROVE Fitting(f, best, SearchTop, score)
      <3>1. found \subseteq W /\ \A t \in W \ found : CutOff(W, t, f)
        BY <1>3, <2>6, FoundFit DEF found
      <3>2. ASSUME NEW t \in Overviewed(f, found) \ best
            PROVE  \/ near(t) <= score
                   \/ Cardinality(best) = SearchTop /\ \A u \in best : near(u) >= near(t)
        <4>1. near(t) \in Int /\ \A u \in ranked : near(u) \in Int
          BY <2>4
        <4>2. CASE t \in ranked
          <5>1. ~ (near(t) > score)
            BY <4>2
          <5> HIDE DEF near
          <5>2. QED BY <4>1, <5>1
        <4>3. CASE t \notin ranked /\ best = ranked
          BY <2>4, <4>3
        <4>4. CASE t \notin ranked /\ best # ranked
          <5>1. PICK u \in ranked : ~ (near(u) > score)
            BY <2>5, <4>4
          <5>2. near(u) >= near(t)
            BY <2>4, <4>4
          <5> HIDE DEF near
          <5>3. QED BY <4>1, <5>1, <5>2
        <4>5. QED BY <4>2, <4>3, <4>4
      <3> HIDE DEF best
      <3>3. QED BY <1>3, <2>5, <3>1, <3>2 DEF Fitting, Overviewed
    <2>7. best \in SUBSET AllTickers
      BY <2>2, <2>5
    <2> HIDE DEF best
    <2>8. QED BY <2>1, <2>6, <2>7, FittingAnswers
  <1>4. QED BY <1>1, <1>2, <1>3 DEF Search

(***************************************************************************)
(* Of any tickers, for any request: the tool and the route return only     *)
(* tickers that meet each of its conditions, and leave one out only for    *)
(* the limit, or for others that are nearer to the question, or for its    *)
(* own overview (build_filter, search_tickers, similarity::search).        *)
(***************************************************************************)
THEOREM ScreeningFits == SpecScreening => []AnswersFitFilter
  <1>1. InitScreening => AnswersFitFilter
    BY DEF InitScreening, AnswersFitFilter
  <1>2. AnswersFitFilter /\ [NextScreening]_screeningVars => AnswersFitFilter'
    <2>1. SUFFICES ASSUME AnswersFitFilter, [NextScreening]_screeningVars
                   PROVE  AnswersFitFilter'
      OBVIOUS
    <2>2. CASE answer' = None
      BY <2>2 DEF AnswersFitFilter
    <2>3. CASE answer' = answer
      BY <2>1, <2>3 DEF AnswersFitFilter
    <2>4. ASSUME NEW f \in Filters, Execute(f) PROVE AnswersFitFilter'
      <3>1. f \in TickerFilter
        BY FilterAssumption DEF FilterAssumption
      <3>2. QED BY <2>4, <3>1, ToolFits
    <2>5. ASSUME NEW f \in Filters, NEW score \in Scores, Search(f, score) PROVE AnswersFitFilter'
      <3>1. f \in TickerFilter /\ score \in Int
        BY FilterAssumption, TickersAssumption DEF FilterAssumption, TickersAssumption
      <3>2. QED BY <2>5, <3>1, RouteFits
    <2>6. QED BY <2>1, <2>2, <2>3, <2>4, <2>5 DEF NextScreening, screeningVars
  <1>3. QED BY <1>1, <1>2, PTL DEF SpecScreening
=============================================================================
