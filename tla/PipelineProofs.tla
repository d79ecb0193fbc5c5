---------------------------- MODULE PipelineProofs ----------------------------
(***************************************************************************)
(* Theorems about the two kinds of pipeline.  Of a pipeline of agents of   *)
(* any length, with stages of any size, any number of rounds and permits:  *)
(* what its Final chunk accounts for, that the caller is told how it       *)
(* ended, and that it is a response stream.  Of the economic pipelines,    *)
(* for any configuration, runs, places and faults: what a failure costs,   *)
(* that census years are whole, and that the tools' answers fit.           *)
(***************************************************************************)
EXTENDS Pipeline, EconomicPipeline, FiniteSetTheorems, SequenceTheorems,
        WellFoundedInduction, TLAPS

SubStates == {"waiting", "running", "ok", "failed", "timeout"}

TypeOK ==
  /\ kind \in {"deterministic", "dynamic"}
  /\ length \in Nat /\ round \in Nat
  /\ pc \in {"top", "subs", "running", "synthesizer", "synthesizing", "done", "panicked", "cut"}
  /\ decision \in Decisions
  /\ sub \in [DOMAIN sub -> SubStates] /\ IsFiniteSet(DOMAIN sub)
  /\ usage \in Nat /\ spent \in Nat

\* Nothing is sent before the end, and at most one outcome then: the accounts of
\* a Final chunk of a deterministic pipeline are complete.
Sent ==
  /\ pc # "done" => out = <<>>
  /\ pc = "done" => \/ out = <<>> /\ kind = "deterministic" /\ length = 0
                    \/ out = <<Failure>>
                    \/ \E u \in Nat : /\ out = <<Final(u)>>
                                      /\ kind = "deterministic" => u = spent

\* Before its last stage a deterministic pipeline has a stage to go.
StagesLeft == kind = "deterministic" /\ pc \in {"top", "subs", "running"} =>
                round < length \/ (pc = "top" /\ length = 0)

\* What was spent is in the usage, but for the sub-agents of the stage under way.
Balance == kind = "deterministic" /\ ~ Ended =>
             spent = usage + (IF pc = "running" THEN Succeeded ELSE 0)

IInv == TypeOK /\ Sent /\ StagesLeft /\ Balance

-----------------------------------------------------------------------------

\* The sub-agents that have succeeded can be counted.
LEMMA SucceededNat == ASSUME TypeOK PROVE Succeeded \in Nat
  <1> DEFINE ok == {i \in DOMAIN sub : sub[i] = "ok"}
  <1>1. IsFiniteSet(DOMAIN sub) /\ ok \in SUBSET (DOMAIN sub)
    BY DEF TypeOK
  <1>2. IsFiniteSet(ok)
    BY <1>1, FS_Subset
  <1>3. QED BY <1>2, FS_CardinalityType DEF Succeeded

LEMMA InitInv == Init => IInv
  <1> SUFFICES ASSUME Init PROVE IInv
    OBVIOUS
  <1>1. length \in Nat
    BY PipelineAssumption DEF Init
  <1>2. DOMAIN sub = {} /\ sub \in [DOMAIN sub -> SubStates]
    BY DEF Init
  <1>3. IsFiniteSet(DOMAIN sub)
    BY <1>2, FS_EmptySet
  <1>4. NoDecision \in Decisions
    BY PipelineAssumption DEF NoDecision, Decisions
  <1>5. TypeOK
    BY <1>1, <1>2, <1>3, <1>4 DEF Init, TypeOK
  <1>6. QED BY <1>1, <1>5 DEF Init, IInv, Sent, StagesLeft, Balance, Ended

\* A step out of the loops that fails is told.
LEMMA FailSent == ASSUME IInv, pc # "done", Fail PROVE Sent'
  BY DEF IInv, Sent, Fail

\* A failure leaves the rest of the invariant alone.
LEMMA FailInv ==
  ASSUME IInv, pc # "done", Fail, UNCHANGED <<kind, length, sub, usage>>,
         round' \in Nat, decision' \in Decisions, spent' \in Nat
  PROVE  IInv'
  <1>1. TypeOK'
    BY DEF IInv, TypeOK, Fail
  <1>2. Sent'
    BY FailSent
  <1>3. QED BY <1>1, <1>2 DEF IInv, Fail, StagesLeft, Balance, Ended

-----------------------------------------------------------------------------
(* The loops. *)

LEMMA NextStageInv == ASSUME IInv, NEW d \in Decisions, NextStage(d) PROVE IInv'
  <1>1. TypeOK'
    BY DEF IInv, TypeOK, NextStage
  <1>2. Sent' /\ StagesLeft'
    BY DEF IInv, TypeOK, NextStage, Sent, StagesLeft
  <1>3. Balance'
    BY DEF IInv, NextStage, Balance, Ended
  <1>4. QED BY <1>1, <1>2, <1>3 DEF IInv

LEMMA NoStagesInv == ASSUME IInv, NoStages PROVE IInv'
  <1>1. TypeOK'
    BY DEF IInv, TypeOK, NoStages
  <1>2. length = 0
    BY DEF IInv, TypeOK, NoStages, StagesLeft
  <1>3. QED BY <1>1, <1>2 DEF IInv, NoStages, Sent, StagesLeft, Balance, Ended

LEMMA DecideInv == ASSUME IInv, NEW d \in Decisions, Decide(d) PROVE IInv'
  <1>1. TypeOK'
    BY DEF IInv, TypeOK, Decide, Asked
  <1>2. QED BY <1>1 DEF IInv, Decide, Asked, Sent, StagesLeft, Balance

LEMMA DecideFailsInv == ASSUME IInv, NEW answered \in BOOLEAN, DecideFails(answered) PROVE IInv'
  <1>1. round' \in Nat /\ spent' \in Nat /\ decision' \in Decisions /\ pc # "done"
    BY DEF IInv, TypeOK, DecideFails, Asked
  <1>2. QED BY <1>1, FailInv DEF DecideFails, Asked

LEMMA GiveUpInv == ASSUME IInv, GiveUp PROVE IInv'
  <1>1. round' \in Nat /\ spent' \in Nat /\ decision' \in Decisions /\ pc # "done"
    BY DEF IInv, TypeOK, GiveUp
  <1>2. QED BY <1>1, FailInv DEF GiveUp

-----------------------------------------------------------------------------
(* The sub-agents of a stage. *)

\* At first none has succeeded.
LEMMA StartSubsInv == ASSUME IInv, StartSubs PROVE IInv'
  <1>1. decision.agents \in Nat
    BY PipelineAssumption DEF IInv, TypeOK, Decisions
  <1>2. DOMAIN sub' = 1..decision.agents /\ sub' \in [DOMAIN sub' -> SubStates]
    BY DEF StartSubs, SubStates
  <1>3. IsFiniteSet(DOMAIN sub')
    BY <1>1, <1>2, FS_Interval
  <1>4. TypeOK'
    BY <1>2, <1>3 DEF IInv, TypeOK, StartSubs
  <1>5. {i \in DOMAIN sub' : sub'[i] = "ok"} = {}
    BY DEF StartSubs
  <1>6. Succeeded' = 0
    BY <1>5, FS_EmptySet DEF Succeeded
  <1>7. Balance'
    BY <1>6 DEF IInv, TypeOK, StartSubs, Balance, Ended
  <1>8. QED BY <1>4, <1>7 DEF IInv, StartSubs, Sent, StagesLeft

LEMMA SubsUnresolvedInv == ASSUME IInv, SubsUnresolved PROVE IInv'
  <1>1. round' \in Nat /\ spent' \in Nat /\ decision' \in Decisions /\ pc # "done"
    BY DEF IInv, TypeOK, SubsUnresolved
  <1>2. QED BY <1>1, FailInv DEF SubsUnresolved

\* A sub-agent that had not succeeded changes its state: the count of those that
\* have goes with what was spent.
LEMMA SubInv ==
  ASSUME IInv, pc = "running", NEW i \in DOMAIN sub, NEW state \in SubStates, sub[i] # "ok",
         sub' = [sub EXCEPT ![i] = state],
         spent' = IF state = "ok" THEN spent + 1 ELSE spent,
         UNCHANGED <<kind, length, pc, round, decision, usage, out>>
  PROVE  IInv'
  <1> DEFINE ok == {j \in DOMAIN sub : sub[j] = "ok"}
  <1>1. TypeOK'
    BY DEF IInv, TypeOK
  <1>2. IsFiniteSet(ok) /\ i \notin ok
    BY FS_Subset DEF IInv, TypeOK
  <1>3. CASE state = "ok"
    <2>1. {j \in DOMAIN sub' : sub'[j] = "ok"} = ok \cup {i}
      BY <1>3 DEF IInv, TypeOK
    <2>2. Cardinality(ok \cup {i}) = Cardinality(ok) + 1
      BY <1>2, FS_AddElement
    <2>3. Succeeded' = Succeeded + 1 /\ Succeeded \in Nat
      BY <2>1, <2>2, SucceededNat DEF IInv, Succeeded
    <2>4. Balance'
      BY <1>3, <2>3 DEF IInv, TypeOK, Balance, Ended
    <2>5. QED BY <1>1, <2>4 DEF IInv, Sent, StagesLeft
  <1>4. CASE state # "ok"
    <2>1. {j \in DOMAIN sub' : sub'[j] = "ok"} = ok
      BY <1>4 DEF IInv, TypeOK
    <2>2. Succeeded' = Succeeded
      BY <2>1 DEF Succeeded
    <2>3. Balance'
      BY <1>4, <2>2 DEF IInv, Balance, Ended
    <2>4. QED BY <1>1, <2>3 DEF IInv, Sent, StagesLeft
  <1>5. QED BY <1>3, <1>4

LEMMA SubStartsInv == ASSUME IInv, NEW i \in 1..MaxAgents, SubStarts(i) PROVE IInv'
  BY SubInv DEF SubStarts, SubStates

LEMMA SubReturnsInv ==
  ASSUME IInv, NEW i \in 1..MaxAgents, NEW result \in {"ok", "failed"}, SubReturns(i, result)
  PROVE  IInv'
  <1>1. result \in SubStates
    BY DEF SubStates
  <1>2. QED BY <1>1, SubInv DEF SubReturns, Running

LEMMA SubTimesOutInv == ASSUME IInv, NEW i \in 1..MaxAgents, SubTimesOut(i) PROVE IInv'
  BY SubInv DEF SubTimesOut, Running, SubStates

\* The usage of the stage is that of those that succeeded.
LEMMA SubsDoneInv == ASSUME IInv, SubsDone PROVE IInv'
  <1>1. Succeeded \in Nat
    BY SucceededNat DEF IInv
  <1>2. TypeOK'
    BY <1>1 DEF IInv, TypeOK, SubsDone, AddStage
  <1>3. Balance'
    BY <1>1 DEF IInv, TypeOK, SubsDone, AddStage, Balance, Ended
  <1>4. QED BY <1>2, <1>3 DEF IInv, SubsDone, AddStage, Sent, StagesLeft

LEMMA SubsFailInv == ASSUME IInv, SubsFail PROVE IInv'
  <1>1. round' \in Nat /\ spent' \in Nat /\ decision' \in Decisions /\ pc # "done"
    BY DEF IInv, TypeOK, SubsFail
  <1>2. QED BY <1>1, FailInv DEF SubsFail

-----------------------------------------------------------------------------
(* The synthesizer. *)

LEMMA SynthesizerRefusedInv == ASSUME IInv, SynthesizerRefused PROVE IInv'
  <1>1. round' \in Nat /\ spent' \in Nat /\ decision' \in Decisions /\ pc # "done"
    BY DEF IInv, TypeOK, SynthesizerRefused
  <1>2. QED BY <1>1, FailInv DEF SynthesizerRefused

LEMMA SynthesizerErrorInv == ASSUME IInv, SynthesizerError PROVE IInv'
  <1>1. round' \in Nat /\ spent' \in Nat /\ decision' \in Decisions /\ pc # "done"
    BY DEF IInv, TypeOK, SynthesizerError
  <1>2. QED BY <1>1, FailInv DEF SynthesizerError

LEMMA StartSynthesizerInv ==
  ASSUME IInv, StartSynthesizer \/ SynthesizerMissing \/ SynthesizerCut PROVE IInv'
  <1>1. TypeOK'
    BY DEF IInv, TypeOK, StartSynthesizer, SynthesizerMissing, SynthesizerCut
  <1>2. QED BY <1>1 DEF IInv, StartSynthesizer, SynthesizerMissing, SynthesizerCut, Sent,
                        StagesLeft, Balance, Ended

\* Its own usage completes the accounts.
LEMMA SynthesizerFinalInv == ASSUME IInv, SynthesizerFinal PROVE IInv'
  <1>1. TypeOK'
    BY DEF IInv, TypeOK, SynthesizerFinal, SetSynthesizer
  <1>2. kind = "deterministic" => spent' = usage'
    BY DEF IInv, TypeOK, SynthesizerFinal, SetSynthesizer, Balance, Ended
  <1>3. out' = <<Final(usage')>>
    BY DEF IInv, Sent, SynthesizerFinal
  <1>4. Sent'
    BY <1>1, <1>2, <1>3 DEF TypeOK, SynthesizerFinal, Sent
  <1>5. QED BY <1>1, <1>4 DEF IInv, SynthesizerFinal, StagesLeft, Balance, Ended

-----------------------------------------------------------------------------

LEMMA NextInv == IInv /\ [Next]_vars => IInv'
  <1> SUFFICES ASSUME IInv, [Next]_vars PROVE IInv'
    OBVIOUS
  <1>1. CASE TaskStep
    <2>1. ASSUME NEW d \in Decisions, NextStage(d) \/ Decide(d) PROVE IInv'
      BY <2>1, NextStageInv, DecideInv
    <2>2. ASSUME NEW answered \in BOOLEAN, DecideFails(answered) PROVE IInv'
      BY <2>2, DecideFailsInv
    <2>3. CASE NoStages \/ GiveUp
      BY <2>3, NoStagesInv, GiveUpInv
    <2>4. CASE StartSubs \/ SubsUnresolved \/ SubsDone \/ SubsFail
      BY <2>4, StartSubsInv, SubsUnresolvedInv, SubsDoneInv, SubsFailInv
    <2>5. CASE SynthesizerRefused \/ SynthesizerMissing \/ StartSynthesizer
      BY <2>5, SynthesizerRefusedInv, StartSynthesizerInv
    <2>6. CASE SynthesizerFinal \/ SynthesizerError \/ SynthesizerCut
      BY <2>6, SynthesizerFinalInv, SynthesizerErrorInv, StartSynthesizerInv
    <2>7. QED BY <1>1, <2>1, <2>2, <2>3, <2>4, <2>5, <2>6 DEF TaskStep
  <1>2. CASE Acquire \/ Return \/ Timeout
    BY <1>2, SubStartsInv, SubReturnsInv, SubTimesOutInv DEF Acquire, Return, Timeout
  <1>3. CASE Terminated \/ UNCHANGED vars
    BY <1>3 DEF Terminated, vars, IInv, TypeOK, Sent, StagesLeft, Balance, Ended, Succeeded
  <1>4. QED BY <1>1, <1>2, <1>3 DEF Next

\* The inductive invariant holds in every state of every behaviour.
THEOREM Invariance == Spec => []IInv
  <1>1. QED BY InitInv, NextInv, PTL DEF Spec

\* Every variable keeps its type.
THEOREM TypeCorrect == Spec => []TypeOK
  <1>1. IInv => TypeOK
    BY DEF IInv
  <1>2. QED BY <1>1, Invariance, PTL

\* The usage in the Final chunk of a deterministic pipeline is that of every call
\* that returned one.
THEOREM UsageComplete == Spec => []StageUsage
  <1>1. IInv => StageUsage
    BY DEF IInv, Sent, StageUsage, Final, Failure
  <1>2. QED BY <1>1, Invariance, PTL

\* The caller is told how the run ended, unless the pipeline has no stages.
THEOREM EndTold == Spec => []EndsTold
  <1>1. IInv => EndsTold
    BY DEF IInv, Sent, EndsTold
  <1>2. QED BY <1>1, Invariance, PTL

-----------------------------------------------------------------------------
(* The pipeline is a response stream. *)

OutcomesOf(s) == [k \in DOMAIN s |-> s[k].kind]

\* What the reader has been given: nothing, or one outcome.
LEMMA NoOutcomes == OutcomesOf(<<>>) = <<>>
  BY DEF OutcomesOf

LEMMA SingleOutcome == ASSUME NEW x PROVE OutcomesOf(<<x>>) = <<x.kind>>
  BY DEF OutcomesOf

LEMMA StreamInit == Init => Stream!Init
  BY NoOutcomes DEF Init, Ended, Stream!Init, OutcomesOf

\* A step that ends the task with an error, with an answer, or with nothing.
LEMMA StreamEnds ==
  ASSUME IInv, ~ Ended, pc' \in {"done", "panicked", "cut"},
         \/ out' = out
         \/ out' = Append(out, Failure)
         \/ \E u \in Nat : out' = Append(out, Final(u))
  PROVE  Stream!Next
  <1>1. out = <<>> /\ Ended'
    BY DEF IInv, Sent, Ended
  <1>2. OutcomesOf(out) = <<>>
    BY <1>1, NoOutcomes
  <1>3. CASE out' = out
    BY <1>1, <1>3 DEF Stream!Next, Stream!End, Ended
  <1>4. CASE out' = Append(out, Failure)
    <2>1. out' = <<Failure>>
      BY <1>1, <1>4
    <2>2. OutcomesOf(out') = <<"error">>
      BY <2>1, SingleOutcome DEF Failure
    <2>3. Stream!Answer("error")
      BY <1>1, <1>2, <2>2 DEF Stream!Answer, OutcomesOf
    <2>4. QED BY <2>3 DEF Stream!Next
  <1>5. CASE \E u \in Nat : out' = Append(out, Final(u))
    <2>1. PICK u \in Nat : out' = Append(out, Final(u))
      BY <1>5
    <2>2. out' = <<Final(u)>>
      BY <1>1, <2>1
    <2>3. OutcomesOf(out') = <<"final">>
      BY <2>2, SingleOutcome DEF Final
    <2>4. Stream!Answer("final")
      BY <1>1, <1>2, <2>3 DEF Stream!Answer, OutcomesOf
    <2>5. QED BY <2>4 DEF Stream!Next
  <1>6. QED BY <1>3, <1>4, <1>5

\* Every step of the pipeline is one of the stream, or none.
LEMMA StreamNext == IInv /\ [Next]_vars => [Stream!Next]_(Stream!streamVars)
  <1> SUFFICES ASSUME IInv, [Next]_vars PROVE [Stream!Next]_(Stream!streamVars)
    OBVIOUS
  <1>1. CASE ~ Ended /\ pc' \in {"done", "panicked", "cut"}
    <2>1. \/ out' = out
          \/ out' = Append(out, Failure)
          \/ \E u \in Nat : out' = Append(out, Final(u))
      BY <1>1 DEF Next, TaskStep, Acquire, Return, Timeout, Terminated, vars, NextStage, Decide,
                  DecideFails, Asked, NoStages, GiveUp, Fail, StartSubs, SubsUnresolved, SubsDone,
                  SubsFail, SynthesizerRefused, SynthesizerMissing, StartSynthesizer,
                  SynthesizerFinal, SetSynthesizer, SynthesizerError, SynthesizerCut, SubStarts,
                  SubReturns, SubTimesOut, IInv, TypeOK
    <2>2. QED BY <1>1, <2>1, StreamEnds
  <1>2. CASE ~ Ended /\ pc' \notin {"done", "panicked", "cut"}
    <2>1. out = <<>> /\ out' = <<>> /\ ~ Ended'
      BY <1>2, NextInv DEF IInv, Sent, Ended
    <2>2. Ended' = Ended
      <3>1. Ended \in BOOLEAN /\ Ended' \in BOOLEAN
        BY DEF Ended
      <3>2. QED BY <1>2, <2>1, <3>1
    <2>3. QED BY <2>1, <2>2 DEF Stream!streamVars
  <1>3. CASE Ended
    <2>1. UNCHANGED <<pc, out>>
      BY <1>3 DEF Ended, Next, TaskStep, Acquire, Return, Timeout, Terminated, vars, NextStage,
                  Decide, DecideFails, Asked, NoStages, GiveUp, StartSubs, SubsUnresolved, SubsDone,
                  SubsFail, SynthesizerRefused, SynthesizerMissing, StartSynthesizer,
                  SynthesizerFinal, SynthesizerError, SynthesizerCut, SubStarts,
                  SubReturns, SubTimesOut
    <2>2. QED BY <2>1 DEF Stream!streamVars, Ended
  <1>4. QED BY <1>1, <1>2, <1>3

\* To its caller a pipeline is a stream like that of a single agent.
THEOREM Implementation == Spec => ImplementsStream
  <1>1. QED BY Invariance, StreamInit, StreamNext, PTL DEF Spec, ImplementsStream, Stream!Spec

-----------------------------------------------------------------------------
(***************************************************************************)
(* The economic pipelines: what the program of a run is made of.           *)
(***************************************************************************)

\* A set of naturals has a least element.
LEMMA Least ==
  ASSUME NEW T \in SUBSET Nat, T # {}
  PROVE  \E n \in T : \A m \in T : n <= m
  <1> DEFINE R == {p \in Nat \X Nat : p[1] < p[2]}
  <1>1. IsWellFoundedOn(R, Nat)
    BY NatLessThanWellFounded DEF OpToRel
  <1>2. PICK n \in T : \A m \in T : <<m, n>> \notin R
    <2> HIDE DEF R
    <2>1. QED BY <1>1, WFMin
  <1>3. ASSUME NEW m \in T PROVE n <= m
    <2>1. <<m, n>> \in Nat \X Nat /\ <<m, n>>[1] = m /\ <<m, n>>[2] = n
      OBVIOUS
    <2>2. ~(m < n)
      BY <1>2, <2>1
    <2>3. QED BY <2>2
  <1>4. QED BY <1>3

\* The section that loads a collection.
SectionOf(col) == IF col = "fred" THEN "fred" ELSE IF col = "census" THEN "census" ELSE "bea"

\* What a program is made of.
IsJob(j) ==
  \/ j.op = "clean" /\ j.key \in {"fred", "nipa", "regional", "census"}
                    /\ j.sec = SectionOf(j.key)
  \/ j.op = "series" /\ j.sec = "fred"
  \/ j.op = "nipa" /\ j.sec = "bea"
  \/ j.op = "regional" /\ j.sec = "bea" /\ j.level \in {"STATE", "COUNTY"}
  \/ j.op = "acs" /\ j.sec = "census"

\* A stretch of a program: jobs of one section, all of which clear or none.
Stretch(s, sec, clearing) ==
  /\ s \in Seq(Range(s))
  /\ \A j \in Range(s) : IsJob(j) /\ j.sec = sec /\ (j.op = "clean" <=> clearing)

\* Nothing of a section comes before its clearing.
ClearedFirst(s) ==
  \A i, k \in 1..Len(s) : i < k /\ s[k].op = "clean" => s[i].op = "clean" \/ s[i].sec # s[k].sec

ClearFred   == Clean("fred", "fred")
ClearCensus == Clean("census", "census")

AllJobs == Range(ClearFred) \cup Range(UpdateFred)
           \cup Range(CleanBea) \cup Range(UpdateNipa) \cup Range(UpdateRegional)
           \cup Range(ClearCensus) \cup Range(UpdateCensus)

LEMMA Elements ==
  ASSUME NEW T, NEW s \in Seq(T)
  PROVE  Len(s) \in Nat /\ DOMAIN s = 1..Len(s) /\ s \in Seq(Range(s)) /\ Range(s) \subseteq T
  BY DEF Range

LEMMA Listed ==
  ASSUME NEW n \in Nat, NEW s, DOMAIN s = 1..n, s = [i \in 1..n |-> s[i]]
  PROVE  s \in Seq(Range(s)) /\ Len(s) = n
  BY DEF Range

LEMMA Joined ==
  ASSUME NEW S, NEW T, NEW a \in Seq(S), NEW b \in Seq(T)
  PROVE  /\ a \o b \in Seq(S \cup T)
         /\ Len(a \o b) = Len(a) + Len(b)
         /\ \A i \in 1..(Len(a) + Len(b)) :
              (a \o b)[i] = IF i <= Len(a) THEN a[i] ELSE b[i - Len(a)]
         /\ Range(a \o b) = Range(a) \cup Range(b)
  <1>0. a \in Seq(S \cup T) /\ b \in Seq(S \cup T)
    OBVIOUS
  <1> DEFINE U == S \cup T
  <1> HIDE DEF U
  <1>1. a \in Seq(U) /\ b \in Seq(U)
    BY <1>0 DEF U
  <1>2. /\ a \o b \in Seq(U)
        /\ Len(a \o b) = Len(a) + Len(b)
        /\ \A i \in 1..(Len(a) + Len(b)) :
             (a \o b)[i] = IF i <= Len(a) THEN a[i] ELSE b[i - Len(a)]
    BY <1>1
  <1>3. Len(a) \in Nat /\ Len(b) \in Nat /\ DOMAIN a = 1..Len(a) /\ DOMAIN b = 1..Len(b)
    BY <1>1
  <1>4. DOMAIN (a \o b) = 1..(Len(a) + Len(b))
    BY <1>2
  <1>5. Range(a \o b) \subseteq Range(a) \cup Range(b)
    <2>1. SUFFICES ASSUME NEW i \in 1..(Len(a) + Len(b))
                   PROVE  (a \o b)[i] \in Range(a) \cup Range(b)
      BY <1>4 DEF Range
    <2>2. CASE i <= Len(a)
      BY <2>2, <1>2, <1>3 DEF Range
    <2>3. CASE i > Len(a)
      <3>1. i - Len(a) \in 1..Len(b)
        BY <2>3, <1>3
      <3>2. QED BY <3>1, <2>3, <1>2, <1>3 DEF Range
    <2>4. QED BY <2>2, <2>3, <1>3
  <1>6. Range(a) \subseteq Range(a \o b)
    <2>1. SUFFICES ASSUME NEW i \in 1..Len(a) PROVE a[i] \in Range(a \o b)
      BY <1>3 DEF Range
    <2>2. i \in 1..(Len(a) + Len(b)) /\ (a \o b)[i] = a[i]
      BY <1>2, <1>3
    <2>3. QED BY <2>2, <1>4 DEF Range
  <1>7. Range(b) \subseteq Range(a \o b)
    <2>1. SUFFICES ASSUME NEW i \in 1..Len(b) PROVE b[i] \in Range(a \o b)
      BY <1>3 DEF Range
    <2>2. Len(a) + i \in 1..(Len(a) + Len(b)) /\ ~(Len(a) + i <= Len(a))
          /\ (Len(a) + i) - Len(a) = i
      BY <1>3
    <2>3. (a \o b)[Len(a) + i] = b[i]
      BY <2>2, <1>2
    <2>4. QED BY <2>2, <2>3, <1>4 DEF Range
  <1>8. QED BY <1>2, <1>5, <1>6, <1>7 DEF U

LEMMA JoinedCleared ==
  ASSUME NEW S, NEW T, NEW a \in Seq(S), NEW b \in Seq(T), ClearedFirst(a), ClearedFirst(b),
         \A x \in Range(a), y \in Range(b) : y.op = "clean" => x.op = "clean" \/ x.sec # y.sec
  PROVE  ClearedFirst(a \o b)
  <1> DEFINE c == a \o b
  <1>1. /\ Len(c) = Len(a) + Len(b)
        /\ \A i \in 1..(Len(a) + Len(b)) :
              c[i] = IF i <= Len(a) THEN a[i] ELSE b[i - Len(a)]
    BY Joined
  <1>2. Len(a) \in Nat /\ Len(b) \in Nat /\ DOMAIN a = 1..Len(a) /\ DOMAIN b = 1..Len(b)
    BY Elements
  <1> HIDE DEF c
  <1> SUFFICES ASSUME NEW i \in 1..Len(c), NEW k \in 1..Len(c), i < k, c[k].op = "clean"
               PROVE  c[i].op = "clean" \/ c[i].sec # c[k].sec
    BY DEF ClearedFirst, c
  <1>3. CASE k <= Len(a)
    <2>1. c[i] = a[i] /\ c[k] = a[k] /\ i \in 1..Len(a) /\ k \in 1..Len(a)
      BY <1>1, <1>2, <1>3
    <2>2. QED BY <2>1 DEF ClearedFirst
  <1>4. CASE i > Len(a)
    <2>1. c[i] = b[i - Len(a)] /\ c[k] = b[k - Len(a)] /\ i - Len(a) \in 1..Len(b)
          /\ k - Len(a) \in 1..Len(b) /\ i - Len(a) < k - Len(a)
      BY <1>1, <1>2, <1>4
    <2>2. QED BY <2>1 DEF ClearedFirst
  <1>5. CASE i <= Len(a) /\ k > Len(a)
    <2>1. c[i] = a[i] /\ c[k] = b[k - Len(a)] /\ i \in 1..Len(a) /\ k - Len(a) \in 1..Len(b)
      BY <1>1, <1>2, <1>5
    <2>2. a[i] \in Range(a) /\ b[k - Len(a)] \in Range(b)
      BY <2>1, <1>2 DEF Range
    <2>3. QED BY <2>1, <2>2
  <1>6. QED BY <1>3, <1>4, <1>5, <1>1, <1>2

LEMMA Years ==
  /\ ResolveYears("LAST5") \in Seq(Int) /\ Len(ResolveYears("LAST5")) \in Nat
  <1> DEFINE n == IF 5 < Span THEN 5 ELSE Span
  <1>1. n \in Nat /\ CurrentYear \in Int
    BY EconomicAssumption DEF EconomicAssumption
  <1>2. ResolveYears("LAST5") = [i \in 1..n |-> CurrentYear - (i - 1)]
    BY DEF ResolveYears, LastYears, YearsTo
  <1>3. \A i \in 1..n : CurrentYear - (i - 1) \in Int
    BY <1>1
  <1> HIDE DEF n
  <1> DEFINE years == [i \in 1..n |-> CurrentYear - (i - 1)]
  <1>4. years \in Seq(Int)
    BY <1>1, <1>3
  <1> HIDE DEF years
  <1>5. Len(years) \in Nat
    BY <1>4
  <1>6. QED BY <1>2, <1>4, <1>5 DEF years

\* The places at which the elements of a sequence first occur can be counted.
LEMMA FirstCounted ==
  ASSUME NEW s \in Seq(STRING)
  PROVE  Len(FirstOf(s)) \in Nat
  <1> DEFINE first == {i \in 1..Len(s) : \A j \in 1..(i - 1) : s[j] # s[i]}
  <1>1. IsFiniteSet(1..Len(s))
    BY FS_Interval
  <1>2. IsFiniteSet(first)
    BY <1>1, FS_Subset
  <1>3. Cardinality(first) \in Nat
    BY <1>2, FS_CardinalityType
  <1>4. FirstOf(s) = [n \in 1..Cardinality(first) |->
                        s[CHOOSE i \in first : Cardinality({j \in first : j <= i}) = n]]
    BY DEF FirstOf
  <1> HIDE DEF first
  <1>5. QED BY <1>3, <1>4

LEMMA NotClearing == 
  ASSUME NEW s, NEW sec, Stretch(s, sec, FALSE)
  PROVE  ClearedFirst(s)
  BY Elements DEF Stretch, ClearedFirst, Range

LEMMA Clearing == 
  ASSUME NEW s, NEW sec, Stretch(s, sec, TRUE)
  PROVE  ClearedFirst(s)
  BY Elements DEF Stretch, ClearedFirst, Range

LEMMA NoStretch == ASSUME NEW sec, NEW clearing
                   PROVE  Stretch(<<>>, sec, clearing) /\ Range(<<>>) = {}
  BY DEF Stretch, Range

LEMMA ClearStretch ==
  ASSUME NEW sec, NEW col \in {"fred", "nipa", "regional", "census"}, sec = SectionOf(col)
  PROVE  Stretch(Clean(sec, col), sec, TRUE)
  <1> DEFINE j == Job(sec, "clean", col, "", 0)
  <1>1. IsJob(j) /\ j.sec = sec /\ j.op = "clean"
    BY DEF IsJob, Job
  <1> HIDE DEF j
  <1>2. Clean(sec, col) = <<j>>
    BY DEF Clean, j
  <1>3. <<j>> \in Seq(Range(<<j>>)) /\ \A x \in Range(<<j>>) : x = j
    BY DEF Range
  <1>4. QED BY <1>1, <1>2, <1>3 DEF Stretch

LEMMA FredStretch ==
  /\ Stretch(UpdateFred, "fred", FALSE)
  /\ \A s \in Range(Series) : Job("fred", "series", s, "", 0) \in Range(UpdateFred)
  <1>1. Len(Series) \in Nat /\ DOMAIN Series = 1..Len(Series)
    BY ListsAssumption DEF ListsAssumption
  <1>2. DOMAIN UpdateFred = 1..Len(Series)
        /\ \A i \in 1..Len(Series) : UpdateFred[i] = Job("fred", "series", Series[i], "", 0)
    BY <1>1 DEF UpdateFred
  <1>3. UpdateFred \in Seq(Range(UpdateFred))
    BY <1>1, <1>2, Listed DEF UpdateFred
  <1>4. \A x : IsJob(Job("fred", "series", x, "", 0)) /\ Job("fred", "series", x, "", 0).sec = "fred"
               /\ Job("fred", "series", x, "", 0).op = "series"
    BY DEF IsJob, Job
  <1>5. QED BY <1>1, <1>2, <1>3, <1>4 DEF Stretch, Range

LEMMA NipaStretch == Stretch(UpdateNipa, "bea", FALSE)
  <1> DEFINE n == Len(FirstOf(Tables))
             m == Len(ResolveYears("LAST5"))
             Row(t, y) == Job("bea", "nipa", FirstOf(Tables)[t], "", ResolveYears("LAST5")[y])
  <1>1. n \in Nat /\ m \in Nat
    BY ListsAssumption, FirstCounted, Years DEF ListsAssumption
  <1>2. n * m \in Nat
    BY <1>1
  <1>3. UpdateNipa = [k \in 1..(n * m) |-> Row(1 + ((k - 1) \div m), 1 + ((k - 1) % m))]
    BY DEF UpdateNipa, Nested
  <1>4. \A t, y : IsJob(Row(t, y)) /\ Row(t, y).sec = "bea" /\ Row(t, y).op = "nipa"
    BY DEF IsJob, Job
  <1> HIDE DEF n, m, Row
  <1>5. DOMAIN UpdateNipa = 1..(n * m)
        /\ UpdateNipa = [k \in 1..(n * m) |-> UpdateNipa[k]]
        /\ \A k \in 1..(n * m) : UpdateNipa[k] = Row(1 + ((k - 1) \div m), 1 + ((k - 1) % m))
    BY <1>3
  <1>6. UpdateNipa \in Seq(Range(UpdateNipa))
    BY <1>2, <1>5, Listed
  <1>7. QED BY <1>4, <1>5, <1>6 DEF Stretch, Range

LEMMA RegionalStretch == Stretch(UpdateRegional, "bea", FALSE)
  <1> DEFINE n == Len(Regionals)
             Row(i, l) == Job("bea", "regional", Regionals[i], <<"STATE", "COUNTY">>[l], 0)
  <1>1. n \in Nat
    BY ListsAssumption DEF ListsAssumption
  <1>2. n * 2 \in Nat
    BY <1>1
  <1>3. UpdateRegional = [k \in 1..(n * 2) |-> Row(1 + ((k - 1) \div 2), 1 + ((k - 1) % 2))]
    BY DEF UpdateRegional, Nested
  <1>4. \A k \in 1..(n * 2) : 1 + ((k - 1) % 2) \in {1, 2}
    BY <1>1
  <1>5. \A i, l : l \in {1, 2} => /\ IsJob(Row(i, l)) /\ Row(i, l).sec = "bea"
                                  /\ Row(i, l).op = "regional"
    BY DEF IsJob, Job
  <1> HIDE DEF n, Row
  <1>6. DOMAIN UpdateRegional = 1..(n * 2)
        /\ UpdateRegional = [k \in 1..(n * 2) |-> UpdateRegional[k]]
        /\ \A k \in 1..(n * 2) :
             UpdateRegional[k] = Row(1 + ((k - 1) \div 2), 1 + ((k - 1) % 2))
    BY <1>3
  <1>7. UpdateRegional \in Seq(Range(UpdateRegional))
    BY <1>2, <1>6, Listed
  <1>8. ASSUME NEW k \in 1..(n * 2)
        PROVE  IsJob(UpdateRegional[k]) /\ UpdateRegional[k].sec = "bea"
               /\ UpdateRegional[k].op = "regional"
    BY <1>8, <1>4, <1>5, <1>6
  <1>9. QED BY <1>6, <1>7, <1>8 DEF Stretch, Range

LEMMA CensusStretch == Stretch(UpdateCensus, "census", FALSE)
  <1> DEFINE n == Len(ResolveYears("LAST5"))
             Row(k) == Job("census", "acs", "acs5", "", ResolveYears("LAST5")[k])
  <1>1. n \in Nat
    BY Years
  <1>2. UpdateCensus = [k \in 1..n |-> Row(k)]
    BY DEF UpdateCensus
  <1>3. \A k : IsJob(Row(k)) /\ Row(k).sec = "census" /\ Row(k).op = "acs"
    BY DEF IsJob, Job
  <1> HIDE DEF n, Row
  <1>4. DOMAIN UpdateCensus = 1..n /\ UpdateCensus = [k \in 1..n |-> UpdateCensus[k]]
        /\ \A k \in 1..n : UpdateCensus[k] = Row(k)
    BY <1>2
  <1>5. UpdateCensus \in Seq(Range(UpdateCensus))
    BY <1>1, <1>4, Listed
  <1>6. QED BY <1>3, <1>4, <1>5 DEF Stretch, Range

\* Sections: a clearing or none, then what is loaded.
Section(s, sec) == /\ s \in Seq(AllJobs) /\ ClearedFirst(s)
                   /\ \A j \in Range(s) : IsJob(j) /\ j.sec = sec

LEMMA StretchIsSection ==
  ASSUME NEW s, NEW sec, NEW clearing \in BOOLEAN, Stretch(s, sec, clearing),
         Range(s) \subseteq AllJobs
  PROVE  Section(s, sec)
  <1>1. s \in Seq(AllJobs)
    <2>1. s \in Seq(Range(s))
      BY DEF Stretch
    <2> DEFINE R == Range(s)
    <2>2. s \in Seq(R) /\ R \subseteq AllJobs
      BY <2>1
    <2> HIDE DEF R
    <2>3. QED BY <2>2
  <1>2. ClearedFirst(s)
    BY NotClearing, Clearing
  <1>3. QED BY <1>1, <1>2 DEF Section, Stretch

LEMMA SectionLoads ==
  ASSUME NEW a, NEW b, NEW sec, Stretch(a, sec, TRUE), Range(a) \subseteq AllJobs,
         Section(b, sec), \A j \in Range(b) : j.op # "clean"
  PROVE  Section(a \o b, sec) /\ Range(a \o b) = Range(a) \cup Range(b)
  <1>1. Section(a, sec)
    BY StretchIsSection
  <1>2. a \in Seq(AllJobs) /\ b \in Seq(AllJobs) /\ ClearedFirst(a) /\ ClearedFirst(b)
    BY <1>1 DEF Section
  <1>3. a \o b \in Seq(AllJobs \cup AllJobs) /\ Range(a \o b) = Range(a) \cup Range(b)
    BY <1>2, Joined
  <1>4. ClearedFirst(a \o b)
    BY <1>2, JoinedCleared
  <1>5. AllJobs \cup AllJobs = AllJobs
    OBVIOUS
  <1>6. QED BY <1>1, <1>3, <1>4, <1>5 DEF Section

LEMMA FredSection ==
  ASSUME NEW clean \in BOOLEAN
  PROVE  /\ Section(RunFred(clean), "fred")
         /\ Range(RunFred(clean)) = (IF clean THEN Range(ClearFred) ELSE {}) \cup Range(UpdateFred)
  <1> DEFINE a == IF clean THEN ClearFred ELSE <<>>
  <1>1. RunFred(clean) = a \o UpdateFred
    BY DEF RunFred, ClearFred
  <1>2. Stretch(ClearFred, "fred", TRUE)
    BY ClearStretch DEF ClearFred, SectionOf
  <1>3. Stretch(a, "fred", TRUE) /\ Range(a) = IF clean THEN Range(ClearFred) ELSE {}
    BY <1>2, NoStretch
  <1> HIDE DEF a
  <1>4. Range(a) \subseteq AllJobs /\ Range(UpdateFred) \subseteq AllJobs
    BY <1>3 DEF AllJobs
  <1>5. Section(UpdateFred, "fred") /\ \A j \in Range(UpdateFred) : j.op # "clean"
    BY <1>4, FredStretch, StretchIsSection DEF Stretch
  <1>6. Section(a \o UpdateFred, "fred") /\ Range(a \o UpdateFred) = Range(a) \cup Range(UpdateFred)
    BY <1>3, <1>4, <1>5, SectionLoads
  <1>7. QED BY <1>1, <1>3, <1>6

LEMMA CensusSection ==
  ASSUME NEW clean \in BOOLEAN
  PROVE  /\ Section(RunCensus(clean), "census")
         /\ Range(RunCensus(clean)) = (IF clean THEN Range(ClearCensus) ELSE {}) \cup Range(UpdateCensus)
  <1> DEFINE a == IF clean THEN ClearCensus ELSE <<>>
  <1>1. RunCensus(clean) = a \o UpdateCensus
    BY DEF RunCensus, ClearCensus
  <1>2. Stretch(ClearCensus, "census", TRUE)
    BY ClearStretch DEF ClearCensus, SectionOf
  <1>3. Stretch(a, "census", TRUE) /\ Range(a) = IF clean THEN Range(ClearCensus) ELSE {}
    BY <1>2, NoStretch
  <1> HIDE DEF a
  <1>4. Range(a) \subseteq AllJobs /\ Range(UpdateCensus) \subseteq AllJobs
    BY <1>3 DEF AllJobs
  <1>5. Section(UpdateCensus, "census") /\ \A j \in Range(UpdateCensus) : j.op # "clean"
    BY <1>4, CensusStretch, StretchIsSection DEF Stretch
  <1>6. Section(a \o UpdateCensus, "census") /\ Range(a \o UpdateCensus) = Range(a) \cup Range(UpdateCensus)
    BY <1>3, <1>4, <1>5, SectionLoads
  <1>7. QED BY <1>1, <1>3, <1>6

LEMMA StretchesJoined ==
  ASSUME NEW a, NEW b, NEW sec, NEW clearing, Stretch(a, sec, clearing), Stretch(b, sec, clearing)
  PROVE  Stretch(a \o b, sec, clearing) /\ Range(a \o b) = Range(a) \cup Range(b)
  <1> DEFINE S == Range(a)  T == Range(b)
  <1>1. a \in Seq(S) /\ b \in Seq(T)
    BY DEF Stretch
  <1> HIDE DEF S, T
  <1>2. a \o b \in Seq(S \cup T) /\ Range(a \o b) = Range(a) \cup Range(b)
    BY <1>1, Joined
  <1>3. a \o b \in Seq(Range(a \o b))
    BY <1>2 DEF S, T
  <1>4. QED BY <1>2, <1>3 DEF Stretch

LEMMA BeaClearing == Stretch(CleanBea, "bea", TRUE)
  <1> DEFINE a == Clean("bea", "nipa")  b == Clean("bea", "regional")
  <1>1. Stretch(a, "bea", TRUE) /\ Stretch(b, "bea", TRUE)
    BY ClearStretch DEF SectionOf
  <1>2. CleanBea = a \o b
    BY DEF CleanBea
  <1> HIDE DEF a, b
  <1>3. QED BY <1>1, <1>2, StretchesJoined

LEMMA BeaLoading ==
  /\ Section(UpdateNipa \o UpdateRegional, "bea")
  /\ \A j \in Range(UpdateNipa \o UpdateRegional) : j.op # "clean"
  /\ Range(UpdateNipa \o UpdateRegional) = Range(UpdateNipa) \cup Range(UpdateRegional)
  <1> DEFINE a == UpdateNipa  b == UpdateRegional
  <1>1. Stretch(a, "bea", FALSE) /\ Stretch(b, "bea", FALSE)
    BY NipaStretch, RegionalStretch
  <1>2. Range(a) \subseteq AllJobs /\ Range(b) \subseteq AllJobs
    BY DEF AllJobs
  <1> HIDE DEF a, b
  <1>3. /\ Stretch(a \o b, "bea", FALSE) /\ Range(a \o b) \subseteq AllJobs
        /\ Range(a \o b) = Range(a) \cup Range(b)
    BY <1>1, <1>2, StretchesJoined
  <1>4. Section(a \o b, "bea")
    BY <1>3, StretchIsSection
  <1>5. QED BY <1>3, <1>4 DEF Stretch, a, b

LEMMA BeaSection ==
  ASSUME NEW clean \in BOOLEAN
  PROVE  /\ Section(RunBea(clean), "bea")
         /\ Range(RunBea(clean)) = (IF clean THEN Range(CleanBea) ELSE {})
                                   \cup Range(UpdateNipa) \cup Range(UpdateRegional)
  <1> DEFINE a == IF clean THEN CleanBea ELSE <<>>
             b == UpdateNipa \o UpdateRegional
  <1>0. Range(CleanBea) \subseteq AllJobs
    BY DEF AllJobs
  <1>1. Stretch(a, "bea", TRUE) /\ Range(a) = IF clean THEN Range(CleanBea) ELSE {}
    BY BeaClearing, NoStretch
  <1>2. Section(b, "bea") /\ (\A j \in Range(b) : j.op # "clean")
        /\ Range(b) = Range(UpdateNipa) \cup Range(UpdateRegional)
    BY BeaLoading
  <1>3. RunBea(clean) = (a \o UpdateNipa) \o UpdateRegional
    BY DEF RunBea
  <1>4. (a \o UpdateNipa) \o UpdateRegional = a \o b
    <2>1. Range(UpdateNipa) \subseteq AllJobs /\ Range(UpdateRegional) \subseteq AllJobs
          /\ Range(a) \subseteq AllJobs
      BY <1>0, <1>1 DEF AllJobs
    <2>2. Section(a, "bea") /\ Section(UpdateNipa, "bea") /\ Section(UpdateRegional, "bea")
      BY <2>1, <1>1, NipaStretch, RegionalStretch, StretchIsSection
    <2>3. a \in Seq(AllJobs) /\ UpdateNipa \in Seq(AllJobs) /\ UpdateRegional \in Seq(AllJobs)
      BY <2>2 DEF Section
    <2> HIDE DEF a
    <2>4. QED BY <2>3, ConcatAssociative
  <1> HIDE DEF a, b
  <1>5. Section(a \o b, "bea") /\ Range(a \o b) = Range(a) \cup Range(b)
    BY <1>0, <1>1, <1>2, SectionLoads
  <1>6. QED BY <1>1, <1>2, <1>3, <1>4, <1>5

LEMMA NoSection == ASSUME NEW sec PROVE Section(<<>>, sec) /\ Range(<<>>) = {}
  BY NoStretch, StretchIsSection

\* Sections one after the other.
LEMMA SectionAfter ==
  ASSUME NEW a \in Seq(AllJobs), NEW b, NEW sec, ClearedFirst(a), \A j \in Range(a) : IsJob(j) /\ j.sec # sec,
         Section(b, sec)
  PROVE  /\ a \o b \in Seq(AllJobs) /\ ClearedFirst(a \o b)
         /\ Range(a \o b) = Range(a) \cup Range(b)
         /\ \A j \in Range(a \o b) : IsJob(j) /\ (j \in Range(a) \/ j.sec = sec)
  <1>1. b \in Seq(AllJobs) /\ ClearedFirst(b) /\ \A j \in Range(b) : IsJob(j) /\ j.sec = sec
    BY DEF Section
  <1>2. a \o b \in Seq(AllJobs \cup AllJobs) /\ Range(a \o b) = Range(a) \cup Range(b)
    BY <1>1, Joined
  <1>3. AllJobs \cup AllJobs = AllJobs
    OBVIOUS
  <1>4. \A x \in Range(a), y \in Range(b) : x.sec # y.sec
    BY <1>1
  <1>5. ClearedFirst(a \o b)
    BY <1>1, <1>4, JoinedCleared
  <1>6. QED BY <1>1, <1>2, <1>3, <1>5

LEMMA ProgramOf ==
  ASSUME NEW c
  PROVE  /\ Program(c) \in Seq(AllJobs)
         /\ ClearedFirst(Program(c))
         /\ \A j \in Range(Program(c)) : IsJob(j) /\ (j.sec = "fred" => "fred" \in c.update)
         /\ "fred" \in c.update => Range(UpdateFred) \subseteq Range(Program(c))
         /\ c = NewConfig => Range(Program(c)) = AllJobs
  <1> DEFINE F == RunFred("fred" \in c.clean)
             B == RunBea("bea" \in c.clean)
             S == RunCensus("census" \in c.clean)
             f == IF "fred" \in c.update THEN F ELSE <<>>
             b == IF "bea" \in c.update THEN B ELSE <<>>
             s == IF "census" \in c.update THEN S ELSE <<>>
  <1>1. /\ Section(F, "fred") /\ Section(B, "bea") /\ Section(S, "census")
        /\ Range(F) = (IF "fred" \in c.clean THEN Range(ClearFred) ELSE {}) \cup Range(UpdateFred)
        /\ Range(B) = (IF "bea" \in c.clean THEN Range(CleanBea) ELSE {})
                      \cup Range(UpdateNipa) \cup Range(UpdateRegional)
        /\ Range(S) = (IF "census" \in c.clean THEN Range(ClearCensus) ELSE {})
                      \cup Range(UpdateCensus)
    <2> DEFINE x == "fred" \in c.clean  y == "bea" \in c.clean  z == "census" \in c.clean
    <2>1. x \in BOOLEAN /\ y \in BOOLEAN /\ z \in BOOLEAN
      OBVIOUS
    <2> HIDE DEF x, y, z
    <2>2. /\ Section(RunFred(x), "fred") /\ Section(RunBea(y), "bea")
          /\ Section(RunCensus(z), "census")
          /\ Range(RunFred(x)) = (IF x THEN Range(ClearFred) ELSE {}) \cup Range(UpdateFred)
          /\ Range(RunBea(y)) = (IF y THEN Range(CleanBea) ELSE {})
                                \cup Range(UpdateNipa) \cup Range(UpdateRegional)
          /\ Range(RunCensus(z)) = (IF z THEN Range(ClearCensus) ELSE {})
                                   \cup Range(UpdateCensus)
      BY <2>1, FredSection, BeaSection, CensusSection
    <2>3. QED BY <2>2 DEF x, y, z
  <1>2. Program(c) = (f \o b) \o s
    BY DEF Program
  <1>3. c = NewConfig => /\ "fred" \in c.update /\ "bea" \in c.update /\ "census" \in c.update
                         /\ "fred" \in c.clean /\ "bea" \in c.clean /\ "census" \in c.clean
    BY DEF NewConfig, Sections
  <1> HIDE DEF F, B, S
  <1>4. /\ Section(f, "fred") /\ Section(b, "bea") /\ Section(s, "census")
        /\ "fred" \in c.update => f = F
        /\ "fred" \notin c.update => Range(f) = {}
        /\ "bea" \in c.update => b = B
        /\ "census" \in c.update => s = S
    BY <1>1, NoSection
  <1> HIDE DEF f, b, s
  <1>5. f \in Seq(AllJobs) /\ ClearedFirst(f) /\ \A j \in Range(f) : IsJob(j) /\ j.sec = "fred"
    BY <1>4 DEF Section
  <1>6. /\ f \o b \in Seq(AllJobs) /\ ClearedFirst(f \o b) /\ Range(f \o b) = Range(f) \cup Range(b)
        /\ \A j \in Range(f \o b) : IsJob(j) /\ (j \in Range(f) \/ j.sec = "bea")
    BY <1>4, <1>5, SectionAfter
  <1> DEFINE a == f \o b
  <1>7. a \in Seq(AllJobs) /\ ClearedFirst(a) /\ \A j \in Range(a) : IsJob(j) /\ j.sec # "census"
    BY <1>5, <1>6
  <1>8. Range(a) = Range(f) \cup Range(b) /\ \A j \in Range(a) : j \in Range(f) \/ j.sec = "bea"
    BY <1>6
  <1> HIDE DEF a
  <1>9. /\ a \o s \in Seq(AllJobs) /\ ClearedFirst(a \o s) /\ Range(a \o s) = Range(a) \cup Range(s)
        /\ \A j \in Range(a \o s) : IsJob(j) /\ (j \in Range(a) \/ j.sec = "census")
    BY <1>4, <1>7, SectionAfter
  <1>10. Program(c) = a \o s
    BY <1>2 DEF a
  <1>11. ASSUME NEW j \in Range(a \o s), j.sec = "fred" PROVE "fred" \in c.update
    BY <1>11, <1>4, <1>8, <1>9
  <1>12. "fred" \in c.update => Range(UpdateFred) \subseteq Range(a \o s)
    BY <1>1, <1>4, <1>8, <1>9
  <1>13. c = NewConfig => Range(a \o s) = AllJobs
    BY <1>1, <1>3, <1>4, <1>8, <1>9 DEF AllJobs
  <1>14. QED BY <1>9, <1>10, <1>11, <1>12, <1>13

LEMMA ProgramsAre ==
  ASSUME NEW r \in Runs
  PROVE  /\ Programs[r] = Program(Configs[r])
         /\ Len(Programs[r]) \in Nat
         /\ DOMAIN Programs[r] = 1..Len(Programs[r])
         /\ ClearedFirst(Programs[r])
         /\ \A i \in 1..Len(Programs[r]) :
              /\ Programs[r][i] \in AllJobs /\ IsJob(Programs[r][i])
              /\ Programs[r][i] \in Range(Programs[r])
              /\ Programs[r][i].sec = "fred" => "fred" \in Configs[r].update
  <1>1. Programs[r] = Program(Configs[r])
    BY DEF Programs
  <1> DEFINE P == Program(Configs[r])
  <1>2. /\ P \in Seq(AllJobs) /\ ClearedFirst(P)
        /\ \A j \in Range(P) : IsJob(j) /\ (j.sec = "fred" => "fred" \in Configs[r].update)
    BY ProgramOf
  <1> HIDE DEF P
  <1>3. Len(P) \in Nat /\ DOMAIN P = 1..Len(P) /\ \A i \in 1..Len(P) : P[i] \in AllJobs /\ P[i] \in Range(P)
    BY <1>2 DEF Range
  <1>4. Programs[r] = P
    BY <1>1 DEF P
  <1>5. QED BY <1>1, <1>2, <1>3, <1>4

-----------------------------------------------------------------------------
(* The documents of a job. *)

ColOf(op) == CASE op = "series" -> "fred" [] op = "nipa" -> "nipa"
               [] op = "regional" -> "regional" [] op = "acs" -> "census"

LEMMA RowsIn ==
  /\ \A x, d : d = FredDoc(x) => d.col = "fred"
  /\ \A x, y : \A d \in NipaDocs(x, y) : d.col = "nipa"
  /\ \A x, y : \A d \in RegionalDocs(x, y) : d.col = "regional"
  /\ \A x, y : \A d \in CensusDocs(x, y) : d.col = "census" /\ d.period[1] = y
  <1>1. ASSUME NEW x, NEW d, d = FredDoc(x) PROVE d.col = "fred"
    <2> DEFINE none == <<>>
    <2> HIDE DEF none
    <2>1. d = [col |-> "fred", key |-> x, period |-> none, fips |-> none, type |-> ""]
      BY <1>1 DEF FredDoc, none
    <2>2. QED BY <2>1
  <1>2. ASSUME NEW x, NEW y, NEW d \in NipaDocs(x, y) PROVE d.col = "nipa"
    <2> DEFINE none == <<>>
    <2> HIDE DEF none
    <2>1. PICK f \in {"A", "Q"} :
            d = [col |-> "nipa", key |-> x, period |-> <<y, f>>, fips |-> none, type |-> ""]
      BY DEF NipaDocs, none
    <2>2. QED BY <2>1
  <1>3. \A x, y : \A d \in RegionalDocs(x, y) : d.col = "regional"
    BY DEF RegionalDocs
  <1>4. \A x, y : \A d \in CensusDocs(x, y) : d.col = "census" /\ d.period[1] = y
    BY DEF CensusDocs
  <1>5. QED BY <1>1, <1>2, <1>3, <1>4

LEMMA DocsOf ==
  ASSUME NEW j, IsJob(j), NEW d \in JobDocs(j)
  PROVE  /\ j.op \in {"series", "nipa", "regional", "acs"} /\ j.op # "clean"
         /\ d.col = ColOf(j.op)
         /\ SectionOf(d.col) = j.sec
         /\ j.op = "series" => d = FredDoc(j.key)
         /\ j.op = "nipa" => d \in NipaDocs(j.key, j.year)
         /\ j.op = "regional" => d \in RegionalDocs(j.key, j.level) /\ j.level \in {"STATE", "COUNTY"}
         /\ j.op = "acs" => \E k \in 1..3 : d \in CensusDocs(AcsLevels[k], j.year)
  <1>1. PICK k \in 1..Requests(j) : d \in Rows(j, k)
    BY DEF JobDocs
  <1>2. /\ j.op \in {"series", "nipa", "regional", "acs"} /\ j.op # "clean"
        /\ j.op = "series" => d = FredDoc(j.key)
        /\ j.op = "nipa" => d \in NipaDocs(j.key, j.year)
        /\ j.op = "regional" => d \in RegionalDocs(j.key, j.level)
        /\ j.op = "acs" => d \in CensusDocs(AcsLevels[k], j.year)
    BY <1>1 DEF Rows, IsJob
  <1>3. /\ j.op = "series" => j.sec = "fred"
        /\ j.op = "nipa" => j.sec = "bea"
        /\ j.op = "regional" => j.sec = "bea" /\ j.level \in {"STATE", "COUNTY"}
        /\ j.op = "acs" => j.sec = "census" /\ k \in 1..3
    BY <1>1, <1>2 DEF IsJob, Requests
  <1>4. d.col = ColOf(j.op)
    BY <1>2, RowsIn DEF ColOf
  <1>5. SectionOf(d.col) = j.sec
    BY <1>2, <1>3, <1>4 DEF ColOf, SectionOf
  <1>6. QED BY <1>2, <1>3, <1>4, <1>5

LEMMA AllDocs ==
  /\ \A j \in AllJobs : JobDocs(j) \subseteq Docs
  /\ \A d \in Docs : \E j \in AllJobs : IsJob(j) /\ d \in JobDocs(j)
  <1>1. Range(Program(NewConfig)) = AllJobs /\ \A j \in AllJobs : IsJob(j)
    BY ProgramOf
  <1>2. QED BY <1>1 DEF Docs

\* What an acs job gets is the census of its year.
LEMMA CensusOf ==
  ASSUME NEW j \in AllJobs, IsJob(j), j.op = "acs"
  PROVE  JobDocs(j) = CensusDocsOf(j.year)
  <1>1. ASSUME NEW d \in JobDocs(j) PROVE d \in CensusDocsOf(j.year)
    <2>1. d \in Docs /\ d.col = "census"
      BY <1>1, AllDocs, DocsOf DEF ColOf
    <2>2. PICK k \in 1..3 : d \in CensusDocs(AcsLevels[k], j.year)
      BY <1>1, DocsOf
    <2>3. d.period[1] = j.year
      BY <2>2 DEF CensusDocs
    <2>4. QED BY <2>1, <2>3 DEF CensusDocsOf
  <1>2. ASSUME NEW d \in CensusDocsOf(j.year) PROVE d \in JobDocs(j)
    <2>1. d \in Docs /\ d.col = "census" /\ d.period[1] = j.year
      BY <1>2 DEF CensusDocsOf
    <2>2. PICK i \in AllJobs : IsJob(i) /\ d \in JobDocs(i)
      BY <2>1, AllDocs
    <2>3. i.op = "acs"
      BY <2>1, <2>2, DocsOf DEF ColOf
    <2>4. PICK k \in 1..3 : d \in CensusDocs(AcsLevels[k], i.year)
      BY <2>2, <2>3, DocsOf
    <2>5. i.year = j.year
      BY <2>1, <2>4 DEF CensusDocs
    <2>6. d \in Rows(j, k) /\ k \in 1..Requests(j)
      BY <2>4, <2>5 DEF Rows, Requests
    <2>7. QED BY <2>6 DEF JobDocs
  <1>3. QED BY <1>1, <1>2

-----------------------------------------------------------------------------
(* The invariant of the economic pipelines. *)

RunRecords == [pc : Nat \ {0}, stage : Nat \ {0}, got : SUBSET Docs,
               out : {"going", "ok", "error", "killed"}]

EconomicType ==
  /\ db \in [Docs -> Runs \cup {Absent, Old}]
  /\ run \in [Runs -> RunRecords]
  /\ \A f \in faults : f.run \in Runs /\ f.pc \in 1..Len(Programs[f.run])

\* What the requests a job has made return, and what its command is about.
Fetched(j, stage) == UNION {Rows(j, k) : k \in 1..(stage - 1)}

Scope(j) == IF j.op = "clean" THEN InCollection(j.key) ELSE JobDocs(j)

\* A job holds what it was answered: all of it, but of a census a missing level.
GotFits(r) == Going(r) =>
  /\ run[r].stage \in 1..(Requests(Now(r)) + 2)
  /\ UnderWay(r) => run[r].got \subseteq Scope(Now(r))
  /\ ~UnderWay(r) => /\ run[r].got \subseteq Fetched(Now(r), run[r].stage)
                     /\ \/ run[r].got = Fetched(Now(r), run[r].stage)
                        \/ Now(r).op = "acs" /\ Missed(r)

\* A document of job i of the run is the run's, or there is a reason.
DocSettled(r, i, d) ==
  \/ db[d] = r
  \/ \E k \in 1..Len(Programs[r]) :
       /\ FaultAt(r, k)
       /\ \/ d \in JobDocs(Programs[r][k])
          \/ k < i /\ Fatal(r, k) /\ Programs[r][k].sec = Programs[r][i].sec
  \/ \E s \in Runs \ {r} : TouchedBy(s, d)

Renewed(r) == \A i \in 1..Len(Programs[r]) : i < run[r].pc =>
                \A d \in JobDocs(Programs[r][i]) : DocSettled(r, i, d)

\* What the command under way has passed is settled.
PartRenewed(r) == UnderWay(r) /\ Now(r).op # "clean" =>
  \A d \in JobDocs(Now(r)) : d \in run[r].got \/ DocSettled(r, run[r].pc, d)

Finished(r) == run[r].out = "ok" => run[r].pc > Len(Programs[r])

\* A command over the year is under way, and what it makes of the documents.
Over(r, year) == UnderWay(r) /\ year \in YearsOf(Now(r))

Becomes(r) == IF Now(r).op = "clean" THEN Absent ELSE r

\* A year that is not mixed has one command over it at most, which has the
\* documents it has passed for its own; without one all documents agree.
YearFits(year) ==
  \/ year \in mixed
  \/ /\ \A r, s \in Runs : Over(r, year) /\ Over(s, year) => r = s
     /\ \A r \in Runs : Over(r, year) =>
          \A d \in CensusDocsOf(year) : d \in run[r].got \/ db[d] = Becomes(r)
     /\ \/ \E r \in Runs : Over(r, year)
        \/ \A d, e \in CensusDocsOf(year) : db[d] = db[e]

Years5 == Range(ResolveYears("LAST5"))

EconomicInv == /\ EconomicType
               /\ \A year \in Years5 : YearFits(year)
               /\ \A r \in Runs : GotFits(r) /\ Renewed(r) /\ PartRenewed(r) /\ Finished(r)

-----------------------------------------------------------------------------
(* How a step moves its run. *)

RunMoves(r) == /\ run' \in [Runs -> RunRecords]
               /\ \A s \in Runs \ {r} : run'[s] = run[s]
               /\ run'[r].pc >= run[r].pc
               /\ GotFits(r)' /\ Finished(r)'

LEMMA RequestsOf == \A j : Requests(j) \in 0..3
  BY DEF Requests

LEMMA GoingAt ==
  ASSUME EconomicType, NEW r \in Runs, Going(r)
  PROVE  /\ run[r].pc \in 1..Len(Programs[r]) /\ run[r].pc \in Nat \ {0}
         /\ run[r].stage \in Nat \ {0} /\ run[r].got \subseteq Docs
         /\ Now(r) = Programs[r][run[r].pc] /\ Now(r) \in AllJobs /\ IsJob(Now(r))
         /\ Len(Programs[r]) \in Nat
  <1>1. run[r] \in RunRecords
    BY DEF EconomicType
  <1>2. run[r].pc \in Nat \ {0} /\ run[r].stage \in Nat \ {0} /\ run[r].got \subseteq Docs
    BY <1>1 DEF RunRecords
  <1>3. QED BY <1>2, ProgramsAre DEF Going, Now

LEMMA GotoMoves ==
  ASSUME EconomicType, NEW r \in Runs, NEW i \in Nat, i > run[r].pc, Goto(r, i)
  PROVE  RunMoves(r) /\ run'[r].pc = i /\ ~UnderWay(r)'
  <1> DEFINE end == IF i > Len(Programs[r]) THEN "ok" ELSE "going"
             rec == [pc |-> i, stage |-> 1, got |-> {}, out |-> end]
  <1>1. run \in [Runs -> RunRecords] /\ run' = [run EXCEPT ![r] = rec]
    BY DEF EconomicType, Goto
  <1>2. run[r].pc \in Nat \ {0}
    BY <1>1 DEF RunRecords
  <1>3. rec \in RunRecords /\ rec.pc = i /\ rec.stage = 1 /\ rec.got = {} /\ rec.out = end
    BY <1>2 DEF RunRecords
  <1> HIDE DEF rec
  <1>4. run' \in [Runs -> RunRecords] /\ run'[r] = rec /\ \A s \in Runs \ {r} : run'[s] = run[s]
    BY <1>1, <1>3
  <1> DEFINE stage == run'[r].stage
  <1>5. Requests(Now(r)') \in 0..3
    BY RequestsOf
  <1>6. stage = 1 /\ run'[r].got = {} /\ ~UnderWay(r)'
    BY <1>3, <1>4, <1>5 DEF UnderWay
  <1>7. GotFits(r)'
    <2>1. Fetched(Now(r)', 1) = {}
      BY DEF Fetched
    <2>2. Fetched(Now(r)', stage) = {} /\ stage \in 1..(Requests(Now(r)') + 2)
      BY <2>1, <1>5, <1>6
    <2>3. QED BY <2>2, <1>6 DEF GotFits
  <1>8. Finished(r)'
    BY <1>3, <1>4, ProgramsAre DEF Finished
  <1>9. QED BY <1>2, <1>3, <1>4, <1>6, <1>7, <1>8 DEF RunMoves

LEMMA ContinueMoves ==
  ASSUME EconomicType, NEW r \in Runs, Going(r), Continue(r)
  PROVE  RunMoves(r) /\ run'[r].pc = run[r].pc + 1 /\ ~UnderWay(r)'
  <1>1. run[r].pc + 1 \in Nat /\ run[r].pc + 1 > run[r].pc
    BY GoingAt
  <1>2. QED BY <1>1, GotoMoves DEF Continue

LEMMA AbandonMoves ==
  ASSUME EconomicType, NEW r \in Runs, Going(r), Abandon(r)
  PROVE  /\ RunMoves(r) /\ run'[r].pc > run[r].pc /\ ~UnderWay(r)'
         /\ \A k \in 1..Len(Programs[r]) : run[r].pc < k /\ k < run'[r].pc =>
              Programs[r][k].sec = Now(r).sec
  <1> DEFINE n == Len(Programs[r])
             later == {i \in (run[r].pc + 1)..(n + 1) : i > n \/ Programs[r][i].sec # Now(r).sec}
             i == CHOOSE i \in later : \A k \in later : i <= k
  <1>1. n \in Nat /\ run[r].pc \in 1..n
    BY GoingAt
  <1>2. n + 1 \in later
    BY <1>1
  <1>3. later \in SUBSET Nat
    BY <1>1
  <1>4. Goto(r, i)
    BY DEF Abandon
  <1>5. i \in later /\ \A k \in later : i <= k
    <2> HIDE DEF later
    <2>1. \E m \in later : \A k \in later : m <= k
      BY <1>2, <1>3, Least
    <2>2. QED BY <2>1
  <1> HIDE DEF i
  <1>6. i \in Nat /\ i > run[r].pc
    BY <1>1, <1>5
  <1>7. RunMoves(r) /\ run'[r].pc = i /\ ~UnderWay(r)'
    BY <1>4, <1>6, GotoMoves
  <1>8. ASSUME NEW k \in 1..n, run[r].pc < k, k < i PROVE Programs[r][k].sec = Now(r).sec
    <2>1. k \notin later
      <3> HIDE DEF later
      <3>1. k \in Nat
        BY <1>1
      <3>2. QED BY <3>1, <1>5, <1>6, <1>8
    <2>2. QED BY <2>1, <1>1, <1>8
  <1>9. QED BY <1>1, <1>6, <1>7, <1>8

\* A run that stays at its job.
LEMMA StaysMoves ==
  ASSUME EconomicType, NEW r \in Runs, Going(r), NEW g \in SUBSET Docs, NEW n \in Nat \ {0},
         run' = [run EXCEPT ![r] = [pc |-> run[r].pc, stage |-> n, got |-> g, out |-> run[r].out]]
  PROVE  /\ run' \in [Runs -> RunRecords] /\ \A s \in Runs \ {r} : run'[s] = run[s]
         /\ run'[r].pc = run[r].pc /\ run'[r].stage = n /\ run'[r].got = g
         /\ Now(r)' = Now(r) /\ Going(r)' /\ Finished(r)' /\ run'[r].pc >= run[r].pc
  <1> DEFINE rec == [pc |-> run[r].pc, stage |-> n, got |-> g, out |-> run[r].out]
  <1>1. run[r].pc \in Nat \ {0} /\ run[r] \in RunRecords /\ run \in [Runs -> RunRecords]
    BY GoingAt DEF EconomicType
  <1>2. /\ rec \in RunRecords /\ rec.pc = run[r].pc /\ rec.out = run[r].out
        /\ rec.stage = n /\ rec.got = g
    BY <1>1 DEF RunRecords
  <1>3. run' = [run EXCEPT ![r] = rec]
    OBVIOUS
  <1> HIDE DEF rec
  <1>4. run' \in [Runs -> RunRecords] /\ run'[r] = rec /\ \A s \in Runs \ {r} : run'[s] = run[s]
    BY <1>1, <1>2, <1>3
  <1>5. run'[r].pc = run[r].pc /\ run'[r].out = "going"
    BY <1>2, <1>4 DEF Going
  <1>6. Now(r)' = Now(r) /\ Going(r)' /\ Finished(r)'
    BY <1>5 DEF Now, Going, Finished
  <1>7. QED BY <1>1, <1>2, <1>4, <1>5, <1>6

\* A run that ends where it is.
LEMMA EndMoves ==
  ASSUME EconomicType, NEW r \in Runs, Going(r), NEW end \in {"error", "killed"},
         run' = [run EXCEPT ![r].out = end]
  PROVE  RunMoves(r) /\ run'[r].pc = run[r].pc /\ ~UnderWay(r)'
  <1> DEFINE rec == [run[r] EXCEPT !.out = end]
  <1>1. run[r] \in RunRecords /\ run \in [Runs -> RunRecords] /\ run[r].pc \in Nat
    BY GoingAt DEF EconomicType
  <1>2. rec \in RunRecords /\ rec.pc = run[r].pc /\ rec.out = end
    BY <1>1 DEF RunRecords
  <1>3. run' = [run EXCEPT ![r] = rec]
    OBVIOUS
  <1> HIDE DEF rec
  <1>4. run' \in [Runs -> RunRecords] /\ run'[r] = rec /\ \A s \in Runs \ {r} : run'[s] = run[s]
    BY <1>1, <1>2, <1>3
  <1>5. run'[r].out \notin {"going", "ok"}
    BY <1>2, <1>4
  <1>6. GotFits(r)' /\ Finished(r)' /\ ~UnderWay(r)'
    BY <1>5 DEF GotFits, Going, Finished, UnderWay
  <1>7. run'[r].pc = run[r].pc
    BY <1>2, <1>4
  <1>8. QED BY <1>1, <1>4, <1>6, <1>7 DEF RunMoves

-----------------------------------------------------------------------------
(* What a step does to the documents, and what it leaves on record. *)

FaultsGrow(r) == /\ faults \subseteq faults'
                 /\ \A f \in faults' : f \in faults \/ (f.run = r /\ f.pc = run[r].pc)

Recorded(r) == \E f \in faults' : f.run = r /\ f.pc = run[r].pc

\* The documents that change are the job's own.
DocsMove(r) ==
  /\ db' \in [Docs -> Runs \cup {Absent, Old}]
  /\ \A d \in Docs : db'[d] # db[d] => d \in Scope(Now(r)) /\ db'[d] = Becomes(r)

\* A document of job i is the run's after the step, or a reason is known.
Accounted(r, i, d) ==
  \/ db'[d] = r
  \/ i = run[r].pc /\ DocSettled(r, i, d)
  \/ \E f \in faults' :
       /\ f.run = r /\ f.pc = run[r].pc
       /\ \/ i = run[r].pc
          \/ /\ run[r].pc < i /\ f.kind = "fetch" /\ Now(r).op \in {"regional", "acs"}
             /\ Programs[r][i].sec = Now(r).sec

LeftBehind(r) == \A i \in 1..Len(Programs[r]) : run[r].pc <= i /\ i < run'[r].pc =>
                   \A d \in JobDocs(Programs[r][i]) : Accounted(r, i, d)

HandedOn(r) == UnderWay(r)' =>
  /\ run'[r].pc = run[r].pc /\ Now(r)' = Now(r)
  /\ Now(r).op # "clean" => \A d \in JobDocs(Now(r)) : d \in run'[r].got \/ Accounted(r, run[r].pc, d)

\* What a step means for a year of the census: it has no part in it, ...
Apart(r, year) == /\ ~Over(r, year) /\ ~Over(r, year)'
                  /\ year \in mixed => year \in mixed'
                  /\ \A d \in CensusDocsOf(year) : db'[d] = db[d]

\* ... its command begins, ...
Starts(r, year) ==
  \/ year \in mixed'
  \/ /\ \A s \in Runs \ {r} : ~Over(s, year)
     /\ Over(r, year)' /\ CensusDocsOf(year) \subseteq run'[r].got

\* ... goes on, ...
Proceeds(r, year) ==
  /\ Over(r, year) /\ Over(r, year)' /\ Now(r)' = Now(r)
  /\ year \in mixed => year \in mixed'
  /\ \A d \in CensusDocsOf(year) :
       \/ db'[d] = Becomes(r)
       \/ db'[d] = db[d] /\ (d \in run[r].got => d \in run'[r].got)

\* ... or ends.
Ends(r, year) == /\ Over(r, year) /\ ~Over(r, year)'
                 /\ year \in mixed => year \in mixed'
                 /\ run[r].got = {} /\ \A d \in CensusDocsOf(year) : db'[d] = db[d]

YearStep(r, year) == \/ Apart(r, year) \/ Starts(r, year)
                     \/ Proceeds(r, year) \/ Ends(r, year)

Effect(r) ==
  /\ Going(r) /\ RunMoves(r) /\ FaultsGrow(r) /\ DocsMove(r)
  /\ LeftBehind(r) /\ HandedOn(r)
  /\ \A year \in Years5 : YearStep(r, year)

LEMMA FaultRecorded ==
  ASSUME NEW r, NEW what, Fault(r, what)
  PROVE  /\ FaultsGrow(r)
         /\ \E f \in faults' : f.run = r /\ f.pc = run[r].pc /\ f.kind = what
  <1> DEFINE f == [run |-> r, pc |-> run[r].pc, kind |-> what]
  <1>1. faults' = faults \cup {f}
    BY DEF Fault
  <1>2. f.run = r /\ f.pc = run[r].pc /\ f.kind = what
    OBVIOUS
  <1> HIDE DEF f
  <1>3. QED BY <1>1, <1>2 DEF FaultsGrow

LEMMA NoFault == ASSUME NEW r, UNCHANGED faults PROVE FaultsGrow(r)
  BY DEF FaultsGrow

LEMMA NothingMoves ==
  ASSUME EconomicType, NEW r, UNCHANGED db
  PROVE  DocsMove(r)
  BY DEF EconomicType, DocsMove

\* Outside a command nothing happens to the census.
LEMMA OutsideYears ==
  ASSUME NEW r, UNCHANGED db, mixed \subseteq mixed', ~UnderWay(r), ~UnderWay(r)'
  PROVE  \A year \in Years5 : YearStep(r, year)
  BY DEF YearStep, Apart, Over

LEMMA FetchedOf ==
  ASSUME NEW j, NEW stage \in 1..(Requests(j) + 1)
  PROVE  /\ Fetched(j, stage) \subseteq JobDocs(j)
         /\ stage > Requests(j) => Fetched(j, stage) = JobDocs(j)
         /\ Fetched(j, stage + 1) = Fetched(j, stage) \cup Rows(j, stage)
  <1>1. Requests(j) \in 0..3
    BY RequestsOf
  <1>2. 1..(stage - 1) \subseteq 1..Requests(j)
    BY <1>1
  <1>3. stage > Requests(j) => 1..(stage - 1) = 1..Requests(j)
    BY <1>1
  <1>4. 1..((stage + 1) - 1) = (1..(stage - 1)) \cup {stage}
    BY <1>1
  <1>5. Fetched(j, stage) \subseteq JobDocs(j)
    BY <1>2 DEF Fetched, JobDocs
  <1>6. stage > Requests(j) => Fetched(j, stage) = JobDocs(j)
    BY <1>3 DEF Fetched, JobDocs
  <1>7. Fetched(j, stage + 1) = Fetched(j, stage) \cup Rows(j, stage)
    BY <1>4 DEF Fetched
  <1>8. QED BY <1>5, <1>6, <1>7

LEMMA TwoFields ==
  ASSUME NEW x \in RunRecords, NEW g, NEW n
  PROVE  /\ [x EXCEPT !.got = g, !.stage = n] = [pc |-> x.pc, stage |-> n, got |-> g, out |-> x.out]
         /\ [x EXCEPT !.stage = n] = [pc |-> x.pc, stage |-> n, got |-> x.got, out |-> x.out]
         /\ [x EXCEPT !.got = g] = [pc |-> x.pc, stage |-> x.stage, got |-> g, out |-> x.out]
  <1> DEFINE y == [x EXCEPT !.got = g]  z == [x EXCEPT !.stage = n]
  <1>1. y = [pc |-> x.pc, stage |-> x.stage, got |-> g, out |-> x.out]
    BY DEF RunRecords
  <1>2. z = [pc |-> x.pc, stage |-> n, got |-> x.got, out |-> x.out]
    BY DEF RunRecords
  <1> HIDE DEF y, z
  <1>3. [y EXCEPT !.stage = n] = [pc |-> x.pc, stage |-> n, got |-> g, out |-> x.out]
    BY <1>1
  <1>4. QED BY <1>1, <1>2, <1>3 DEF y, z

LEMMA AnsweredEffect ==
  ASSUME EconomicType, NEW r \in Runs, GotFits(r), NEW op, Asking(r, op), Answered(r)
  PROVE  Effect(r)
  <1> DEFINE j == Now(r)  stage == run[r].stage  got == run[r].got  rows == Rows(j, stage)
  <1>1. Going(r) /\ stage <= Requests(j)
    BY DEF Asking
  <1>2. /\ run[r].pc \in 1..Len(Programs[r]) /\ stage \in Nat \ {0} /\ got \subseteq Docs
        /\ j \in AllJobs /\ run[r] \in RunRecords /\ run \in [Runs -> RunRecords]
    BY <1>1, GoingAt DEF EconomicType
  <1>3. stage \in 1..Requests(j) /\ Requests(j) \in 0..3 /\ stage + 1 \in Nat \ {0}
    BY <1>1, <1>2, RequestsOf
  <1>4. got \cup rows \in SUBSET Docs
    BY <1>2, <1>3, AllDocs DEF JobDocs
  <1>5. run' = [run EXCEPT ![r] = [pc |-> run[r].pc, stage |-> stage + 1, got |-> got \cup rows,
                                   out |-> run[r].out]]
    <2>1. [run[r] EXCEPT !.got = got \cup rows, !.stage = stage + 1]
          = [pc |-> run[r].pc, stage |-> stage + 1, got |-> got \cup rows, out |-> run[r].out]
      BY <1>2, TwoFields
    <2>2. run' = [run EXCEPT ![r] = [run[r] EXCEPT !.got = got \cup rows, !.stage = stage + 1]]
      BY DEF Answered
    <2>3. QED BY <2>1, <2>2
  <1>6. /\ run' \in [Runs -> RunRecords] /\ \A s \in Runs \ {r} : run'[s] = run[s]
        /\ run'[r].pc = run[r].pc /\ run'[r].stage = stage + 1 /\ run'[r].got = got \cup rows
        /\ Now(r)' = j /\ Going(r)' /\ Finished(r)' /\ run'[r].pc >= run[r].pc
    BY <1>1, <1>3, <1>4, <1>5, StaysMoves
  <1>7. ~UnderWay(r) /\ ~UnderWay(r)'
    BY <1>3, <1>6 DEF UnderWay
  <1>8. /\ stage + 1 \in 1..(Requests(j) + 2)
        /\ Fetched(j, stage + 1) = Fetched(j, stage) \cup rows
    BY <1>3, FetchedOf
  <1>9. /\ got \subseteq Fetched(j, stage)
        /\ got = Fetched(j, stage) \/ (j.op = "acs" /\ Missed(r))
    BY <1>1, <1>7 DEF GotFits
  <1>10. Missed(r) => Missed(r)'
    BY <1>6 DEF Missed, Answered
  <1>11. GotFits(r)'
    <2> HIDE DEF j, stage, got, rows
    <2>1. run'[r].got \subseteq Fetched(j, run'[r].stage)
      BY <1>6, <1>8, <1>9
    <2>2. run'[r].got = Fetched(j, run'[r].stage) \/ (j.op = "acs" /\ Missed(r)')
      BY <1>6, <1>8, <1>9, <1>10
    <2>3. run'[r].stage \in 1..(Requests(j) + 2)
      BY <1>6, <1>8
    <2>4. QED BY <2>1, <2>2, <2>3, <1>6, <1>7 DEF GotFits
  <1>12. RunMoves(r)
    BY <1>6, <1>11 DEF RunMoves
  <1>13. FaultsGrow(r) /\ DocsMove(r) /\ \A year \in Years5 : YearStep(r, year)
    BY <1>7, NoFault, NothingMoves, OutsideYears DEF Answered
  <1>14. LeftBehind(r) /\ HandedOn(r)
    BY <1>2, <1>6, <1>7 DEF LeftBehind, HandedOn
  <1>15. QED BY <1>1, <1>12, <1>13, <1>14 DEF Effect

LEMMA MissingEffect ==
  ASSUME EconomicType, NEW r \in Runs, GotFits(r), AcsMissing(r)
  PROVE  Effect(r)
  <1> DEFINE j == Now(r)  stage == run[r].stage  got == run[r].got
  <1>1. Going(r) /\ j.op = "acs" /\ stage <= Requests(j)
    BY DEF AcsMissing, Asking
  <1>2. /\ run[r].pc \in 1..Len(Programs[r]) /\ stage \in Nat \ {0} /\ got \in SUBSET Docs
        /\ run[r] \in RunRecords /\ run \in [Runs -> RunRecords]
    BY <1>1, GoingAt DEF EconomicType
  <1>3. stage \in 1..Requests(j) /\ Requests(j) \in 0..3 /\ stage + 1 \in Nat \ {0}
    BY <1>1, <1>2, RequestsOf
  <1>4. run' = [run EXCEPT ![r] = [pc |-> run[r].pc, stage |-> stage + 1, got |-> got,
                                   out |-> run[r].out]]
    <2>1. [run[r] EXCEPT !.stage = stage + 1]
          = [pc |-> run[r].pc, stage |-> stage + 1, got |-> got, out |-> run[r].out]
      BY <1>2, TwoFields
    <2>2. run' = [run EXCEPT ![r] = [run[r] EXCEPT !.stage = stage + 1]]
      BY DEF AcsMissing
    <2>3. QED BY <2>1, <2>2
  <1>5. /\ run' \in [Runs -> RunRecords] /\ \A s \in Runs \ {r} : run'[s] = run[s]
        /\ run'[r].pc = run[r].pc /\ run'[r].stage = stage + 1 /\ run'[r].got = got
        /\ Now(r)' = j /\ Going(r)' /\ Finished(r)' /\ run'[r].pc >= run[r].pc
    BY <1>1, <1>2, <1>3, <1>4, StaysMoves
  <1>6. ~UnderWay(r) /\ ~UnderWay(r)'
    BY <1>3, <1>5 DEF UnderWay
  <1>7. stage + 1 \in 1..(Requests(j) + 2) /\ got \subseteq Fetched(j, stage + 1)
    BY <1>1, <1>3, <1>6, FetchedOf DEF GotFits
  <1>8. FaultsGrow(r) /\ \E f \in faults' : f.run = r /\ f.pc = run[r].pc /\ f.kind = "missing"
    BY FaultRecorded DEF AcsMissing
  <1>9. GotFits(r)'
    <2> HIDE DEF j, stage, got
    <2>1. Missed(r)'
      BY <1>5, <1>8 DEF Missed
    <2>2. run'[r].got \subseteq Fetched(j, run'[r].stage) /\ run'[r].stage \in 1..(Requests(j) + 2)
      BY <1>5, <1>7
    <2>3. QED BY <2>1, <2>2, <1>1, <1>5, <1>6 DEF GotFits
  <1>10. RunMoves(r)
    BY <1>5, <1>9 DEF RunMoves
  <1>11. DocsMove(r) /\ \A year \in Years5 : YearStep(r, year)
    BY <1>6, NothingMoves, OutsideYears DEF AcsMissing
  <1>12. LeftBehind(r) /\ HandedOn(r)
    BY <1>2, <1>5, <1>6 DEF LeftBehind, HandedOn
  <1>13. QED BY <1>1, <1>8, <1>10, <1>11, <1>12 DEF Effect

LEMMA SkippedEffect ==
  ASSUME EconomicType, NEW r \in Runs, NEW op, Asking(r, op), Fault(r, "fetch"), Continue(r),
         UNCHANGED <<db, mixed>>
  PROVE  Effect(r)
  <1>1. Going(r) /\ run[r].stage <= Requests(Now(r))
    BY DEF Asking
  <1>2. RunMoves(r) /\ run'[r].pc = run[r].pc + 1 /\ ~UnderWay(r)' /\ run[r].pc \in Nat
        /\ run[r].stage \in Nat
    BY <1>1, ContinueMoves, GoingAt
  <1>3. FaultsGrow(r) /\ Recorded(r)
    BY FaultRecorded DEF Recorded
  <1>4. ~UnderWay(r)
    BY <1>1, <1>2, RequestsOf DEF UnderWay
  <1>5. DocsMove(r) /\ \A year \in Years5 : YearStep(r, year)
    BY <1>2, <1>4, NothingMoves, OutsideYears
  <1>6. LeftBehind(r)
    BY <1>2, <1>3 DEF LeftBehind, Accounted, Recorded
  <1>7. QED BY <1>1, <1>2, <1>3, <1>5, <1>6 DEF Effect, HandedOn

LEMMA GivenUpEffect ==
  ASSUME EconomicType, NEW r \in Runs, NEW op \in {"regional", "acs"}, Asking(r, op),
         Fault(r, "fetch"), Abandon(r), UNCHANGED <<db, mixed>>
  PROVE  Effect(r)
  <1>1. Going(r) /\ run[r].stage <= Requests(Now(r)) /\ Now(r).op \in {"regional", "acs"}
    BY DEF Asking
  <1>2. /\ RunMoves(r) /\ ~UnderWay(r)' /\ run[r].pc \in Nat /\ run[r].stage \in Nat
        /\ \A k \in 1..Len(Programs[r]) : run[r].pc < k /\ k < run'[r].pc =>
              Programs[r][k].sec = Now(r).sec
    BY <1>1, AbandonMoves, GoingAt
  <1>3. FaultsGrow(r) /\ \E f \in faults' : f.run = r /\ f.pc = run[r].pc /\ f.kind = "fetch"
    BY FaultRecorded
  <1>4. ~UnderWay(r)
    BY <1>1, <1>2, RequestsOf DEF UnderWay
  <1>5. DocsMove(r) /\ \A year \in Years5 : YearStep(r, year)
    BY <1>2, <1>4, NothingMoves, OutsideYears
  <1>6. LeftBehind(r)
    <2> SUFFICES ASSUME NEW i \in 1..Len(Programs[r]), run[r].pc <= i, i < run'[r].pc,
                        NEW d \in JobDocs(Programs[r][i])
                 PROVE  Accounted(r, i, d)
      BY DEF LeftBehind
    <2>1. i = run[r].pc \/ (run[r].pc < i /\ Programs[r][i].sec = Now(r).sec)
      BY <1>2, GoingAt
    <2>2. QED BY <2>1, <1>1, <1>3 DEF Accounted
  <1>7. QED BY <1>1, <1>2, <1>3, <1>5, <1>6 DEF Effect, HandedOn

-----------------------------------------------------------------------------
(* The steps of a command. *)

\* The documents of a year are in the scope of a command just when it is over it.
LEMMA ScopeOver ==
  ASSUME NEW j \in AllJobs, IsJob(j), NEW year \in Years5
  PROVE  /\ year \in YearsOf(j) => CensusDocsOf(year) \subseteq Scope(j)
         /\ year \notin YearsOf(j) => \A d \in CensusDocsOf(year) : d \notin Scope(j)
  <1>1. \A d \in CensusDocsOf(year) : d \in Docs /\ d.col = "census" /\ d.period[1] = year
    BY DEF CensusDocsOf
  <1>2. CASE j.op = "clean"
    <2>1. Scope(j) = {d \in Docs : d.col = j.key}
      BY <1>2 DEF Scope, InCollection
    <2>2. YearsOf(j) = IF j.key = "census" THEN Years5 ELSE {}
      BY <1>2 DEF YearsOf, Years5
    <2>3. QED BY <1>1, <2>1, <2>2
  <1>3. CASE j.op = "acs"
    <2>1. Scope(j) = CensusDocsOf(j.year) /\ YearsOf(j) = {j.year}
      BY <1>3, CensusOf DEF Scope, YearsOf
    <2>2. \A d \in Scope(j) : d.period[1] = j.year
      BY <2>1 DEF CensusDocsOf
    <2>3. QED BY <1>1, <2>1, <2>2
  <1>4. CASE j.op \notin {"clean", "acs"}
    <2>1. Scope(j) = JobDocs(j) /\ YearsOf(j) = {}
      BY <1>4 DEF Scope, YearsOf
    <2>2. ASSUME NEW d \in CensusDocsOf(year), d \in JobDocs(j) PROVE FALSE
      <3>1. j.op \in {"series", "nipa", "regional"} /\ d.col = ColOf(j.op)
        BY <2>2, <1>4, DocsOf
      <3>2. QED BY <3>1, <1>1, <2>2 DEF ColOf
    <2>3. QED BY <2>1, <2>2
  <1>5. QED BY <1>2, <1>3, <1>4

LEMMA ScopeIn == ASSUME NEW j \in AllJobs PROVE Scope(j) \in SUBSET Docs
  BY AllDocs DEF Scope, InCollection

\* A job that has made its requests holds its documents, or a level is missing.
LEMMA HeldAtEnd ==
  ASSUME EconomicType, NEW r \in Runs, GotFits(r), Commanding(r), ~UnderWay(r)
  PROVE  /\ run[r].stage = Requests(Now(r)) + 1 /\ Going(r)
         /\ run[r].got \subseteq JobDocs(Now(r))
         /\ run[r].got = JobDocs(Now(r)) \/ (Now(r).op = "acs" /\ Missed(r))
  <1> DEFINE j == Now(r)  stage == run[r].stage
  <1>1. Going(r) /\ stage > Requests(j) /\ Requests(j) \in 0..3
    BY RequestsOf DEF Commanding
  <1>2. stage \in 1..(Requests(j) + 2) /\ stage # Requests(j) + 2
    BY <1>1 DEF GotFits, UnderWay
  <1>3. stage = Requests(j) + 1 /\ stage \in 1..(Requests(j) + 1)
    BY <1>1, <1>2
  <1>4. Fetched(j, stage) = JobDocs(j)
    BY <1>1, <1>3, FetchedOf
  <1>5. run[r].got \subseteq Fetched(j, stage)
        /\ (run[r].got = Fetched(j, stage) \/ (j.op = "acs" /\ Missed(r)))
    BY <1>1 DEF GotFits
  <1>6. QED BY <1>1, <1>3, <1>4, <1>5

LEMMA BeginEffect ==
  ASSUME EconomicType, NEW r \in Runs, GotFits(r), Commanding(r), NEW docs, Begin(r, docs),
         docs \subseteq Scope(Now(r)),
         Now(r).op = "clean" => docs = Scope(Now(r)),
         Now(r).op # "clean" => docs = run[r].got
  PROVE  Effect(r)
  <1> DEFINE j == Now(r)  stage == run[r].stage
  <1>1. ~UnderWay(r) /\ Going(r) /\ stage = Requests(j) + 1
        /\ (run[r].got = JobDocs(j) \/ (j.op = "acs" /\ Missed(r)))
    BY HeldAtEnd DEF Begin
  <1>2. /\ run[r].pc \in 1..Len(Programs[r]) /\ stage \in Nat \ {0} /\ stage + 1 \in Nat \ {0}
        /\ j \in AllJobs /\ IsJob(j) /\ run[r] \in RunRecords /\ run \in [Runs -> RunRecords]
    BY <1>1, GoingAt DEF EconomicType
  <1>3. docs \in SUBSET Docs
    BY <1>2, ScopeIn
  <1>4. run' = [run EXCEPT ![r] = [pc |-> run[r].pc, stage |-> stage + 1, got |-> docs,
                                   out |-> run[r].out]]
    <2>0. run[r] \in RunRecords
      BY <1>2
    <2>1. [run[r] EXCEPT !.got = docs, !.stage = stage + 1]
          = [pc |-> run[r].pc, stage |-> stage + 1, got |-> docs, out |-> run[r].out]
      <3> DEFINE y == [run[r] EXCEPT !.got = docs]
      <3>1. y = [pc |-> run[r].pc, stage |-> stage, got |-> docs, out |-> run[r].out]
        BY <2>0 DEF RunRecords
      <3>2. [y EXCEPT !.stage = stage + 1]
            = [pc |-> run[r].pc, stage |-> stage + 1, got |-> docs, out |-> run[r].out]
        <4> HIDE DEF y
        <4>1. QED BY <3>1
      <3>3. QED BY <3>2
    <2>2. run' = [run EXCEPT ![r] = [run[r] EXCEPT !.got = docs, !.stage = stage + 1]]
      BY DEF Begin
    <2>3. QED BY <2>1, <2>2
  <1>5. /\ run' \in [Runs -> RunRecords] /\ \A s \in Runs \ {r} : run'[s] = run[s]
        /\ run'[r].pc = run[r].pc /\ run'[r].stage = stage + 1 /\ run'[r].got = docs
        /\ Now(r)' = j /\ Going(r)' /\ Finished(r)' /\ run'[r].pc >= run[r].pc
    BY <1>1, <1>2, <1>3, <1>4, StaysMoves
  <1>6. Requests(j) \in 0..3 /\ stage + 1 = Requests(j) + 2
    BY <1>1, RequestsOf
  <1>7. UnderWay(r)'
    BY <1>5, <1>6 DEF UnderWay
  <1>8. GotFits(r)'
    BY <1>5, <1>6, <1>7 DEF GotFits
  <1>9. RunMoves(r)
    BY <1>5, <1>8 DEF RunMoves
  <1>10. FaultsGrow(r) /\ DocsMove(r)
    BY NoFault, NothingMoves DEF Begin
  <1>11. LeftBehind(r)
    BY <1>2, <1>5 DEF LeftBehind
  <1>12. HandedOn(r)
    <2> SUFFICES ASSUME j.op # "clean", NEW d \in JobDocs(j), d \notin docs
                 PROVE  Accounted(r, run[r].pc, d)
      BY <1>5 DEF HandedOn
    <2>1. Missed(r)
      BY <1>1
    <2>2. \E f \in faults' : f.run = r /\ f.pc = run[r].pc
      BY <2>1, <1>10 DEF Missed, FaultsGrow
    <2>3. QED BY <2>2 DEF Accounted
  <1>13. ASSUME NEW year \in Years5 PROVE YearStep(r, year)
    <2> DEFINE y5 == YearsOf(j)
               met(y) == \E s \in Runs \ {r} : UnderWay(s) /\ y \in YearsOf(Now(s))
    <2>1. mixed' = (mixed \ y5) \cup {y \in y5 : Missed(r) \/ met(y)} /\ db' = db
      BY DEF Begin
    <2>2. CASE year \notin YearsOf(j)
      <3>1. year \in mixed => year \in mixed'
        BY <2>1, <2>2
      <3>2. ~Over(r, year) /\ ~Over(r, year)'
        BY <2>2, <1>5 DEF Over
      <3>3. QED BY <2>1, <3>1, <3>2 DEF YearStep, Apart
    <2>3. CASE year \in YearsOf(j) /\ year \notin mixed'
      <3>1. ~Missed(r)
        BY <2>1, <2>3
      <3>2. docs = Scope(j)
        BY <1>1, <3>1 DEF Scope
      <3>3. CensusDocsOf(year) \subseteq docs
        BY <2>3, <3>2, <1>2, ScopeOver
      <3>4. Over(r, year)'
        BY <1>5, <1>7, <2>3 DEF Over
      <3>5. ASSUME NEW s \in Runs \ {r}, Over(s, year) PROVE FALSE
        <4>1. met(year)
          BY <3>5 DEF Over
        <4>2. QED BY <4>1, <2>1, <2>3
      <3>6. QED BY <3>3, <3>4, <3>5, <1>5 DEF YearStep, Starts
    <2>4. CASE year \in mixed'
      BY <2>4 DEF YearStep, Starts
    <2>5. QED BY <2>2, <2>3, <2>4
  <1>14. QED BY <1>1, <1>9, <1>10, <1>11, <1>12, <1>13 DEF Effect

LEMMA HandleEffect ==
  ASSUME EconomicType, NEW r \in Runs, GotFits(r), PartRenewed(r), Handle(r, Becomes(r))
  PROVE  Effect(r)
  <1> DEFINE j == Now(r)  got == run[r].got  stage == run[r].stage  value == Becomes(r)
             doc == CHOOSE d \in got : TRUE
  <1>1. UnderWay(r) /\ Going(r) /\ got # {}
    BY DEF Handle, UnderWay
  <1>2. /\ run[r].pc \in 1..Len(Programs[r]) /\ stage \in Nat \ {0} /\ got \subseteq Docs
        /\ j \in AllJobs /\ IsJob(j) /\ run[r] \in RunRecords /\ run \in [Runs -> RunRecords]
    BY <1>1, GoingAt DEF EconomicType
  <1>3. db' = [db EXCEPT ![doc] = value] /\ run' = [run EXCEPT ![r].got = @ \ {doc}]
        /\ UNCHANGED <<faults, mixed>>
    BY DEF Handle
  <1>4. doc \in got
    BY <1>1
  <1> HIDE DEF doc
  <1>5. got \subseteq Scope(j) /\ stage = Requests(j) + 2 /\ stage \in 1..(Requests(j) + 2)
    BY <1>1 DEF GotFits, UnderWay
  <1>6. run' = [run EXCEPT ![r] = [pc |-> run[r].pc, stage |-> stage, got |-> got \ {doc},
                                   out |-> run[r].out]]
    <2>1. [run[r] EXCEPT !.got = got \ {doc}]
          = [pc |-> run[r].pc, stage |-> stage, got |-> got \ {doc}, out |-> run[r].out]
      BY <1>2, TwoFields
    <2>2. run' = [run EXCEPT ![r] = [run[r] EXCEPT !.got = got \ {doc}]]
      BY <1>3
    <2>3. QED BY <2>1, <2>2
  <1>7. /\ run' \in [Runs -> RunRecords] /\ \A s \in Runs \ {r} : run'[s] = run[s]
        /\ run'[r].pc = run[r].pc /\ run'[r].stage = stage /\ run'[r].got = got \ {doc}
        /\ Now(r)' = j /\ Going(r)' /\ Finished(r)' /\ run'[r].pc >= run[r].pc
    <2>1. got \ {doc} \in SUBSET Docs
      BY <1>2
    <2>2. QED BY <2>1, <1>1, <1>2, <1>6, StaysMoves
  <1>8. UnderWay(r)'
    BY <1>5, <1>7 DEF UnderWay
  <1>9. GotFits(r)'
    BY <1>5, <1>7, <1>8 DEF GotFits
  <1>10. RunMoves(r)
    BY <1>7, <1>9 DEF RunMoves
  <1>11. doc \in Docs /\ db \in [Docs -> Runs \cup {Absent, Old}] /\ value \in Runs \cup {Absent, Old}
    BY <1>2, <1>4 DEF EconomicType, Becomes
  <1>12. db' \in [Docs -> Runs \cup {Absent, Old}] /\ db'[doc] = value
         /\ \A d \in Docs : d # doc => db'[d] = db[d]
    <2> HIDE DEF value
    <2>1. QED BY <1>3, <1>11
  <1>13. DocsMove(r)
    BY <1>4, <1>5, <1>12 DEF DocsMove
  <1>14. FaultsGrow(r)
    BY <1>3, NoFault
  <1>15. LeftBehind(r)
    BY <1>2, <1>7 DEF LeftBehind
  <1>16. HandedOn(r)
    <2> SUFFICES ASSUME j.op # "clean", NEW d \in JobDocs(j), d \notin got \ {doc}
                 PROVE  Accounted(r, run[r].pc, d)
      BY <1>7 DEF HandedOn
    <2>1. CASE d = doc
      BY <2>1, <1>12 DEF Accounted, Becomes
    <2>2. CASE d # doc
      BY <2>2, <1>1 DEF PartRenewed, Accounted
    <2>3. QED BY <2>1, <2>2
  <1>17. ASSUME NEW year \in Years5 PROVE YearStep(r, year)
    <2>1. \A d \in CensusDocsOf(year) : d \in Docs
      BY DEF CensusDocsOf
    <2>2. CASE year \in YearsOf(j)
      <3>1. Over(r, year)
        BY <1>1, <2>2 DEF Over
      <3>2. \A d \in CensusDocsOf(year) :
               \/ db'[d] = value
               \/ db'[d] = db[d] /\ (d \in got => d \in got \ {doc})
        BY <1>12, <2>1
      <3>3. Over(r, year)'
        BY <1>7, <1>8, <2>2 DEF Over
      <3>4. QED BY <3>1, <3>2, <3>3, <1>3, <1>7 DEF YearStep, Proceeds
    <2>3. CASE year \notin YearsOf(j)
      <3>1. doc \notin CensusDocsOf(year)
        BY <2>3, <1>2, <1>4, <1>5, ScopeOver
      <3>2. ~Over(r, year) /\ ~Over(r, year)'
        BY <2>3, <1>7 DEF Over
      <3>3. \A d \in CensusDocsOf(year) : db'[d] = db[d]
        BY <3>1, <2>1, <1>12
      <3>4. QED BY <3>2, <3>3, <1>3 DEF YearStep, Apart
    <2>4. QED BY <2>2, <2>3
  <1>18. QED BY <1>1, <1>10, <1>13, <1>14, <1>15, <1>16, <1>17 DEF Effect

LEMMA CompleteEffect ==
  ASSUME EconomicType, NEW r \in Runs, PartRenewed(r), Complete(r)
  PROVE  Effect(r)
  <1>1. UnderWay(r) /\ Going(r) /\ run[r].got = {} /\ Continue(r) /\ UNCHANGED <<db, faults, mixed>>
    BY DEF Complete, UnderWay
  <1>2. RunMoves(r) /\ run'[r].pc = run[r].pc + 1 /\ ~UnderWay(r)'
        /\ run[r].pc \in 1..Len(Programs[r]) /\ Now(r) = Programs[r][run[r].pc] /\ IsJob(Now(r))
        /\ Len(Programs[r]) \in Nat
    BY <1>1, ContinueMoves, GoingAt
  <1>3. FaultsGrow(r) /\ DocsMove(r) /\ HandedOn(r)
    BY <1>1, <1>2, NoFault, NothingMoves DEF HandedOn
  <1>4. LeftBehind(r)
    <2> SUFFICES ASSUME NEW i \in 1..Len(Programs[r]), run[r].pc <= i, i < run'[r].pc,
                        NEW d \in JobDocs(Programs[r][i])
                 PROVE  Accounted(r, i, d)
      BY DEF LeftBehind
    <2>1. i = run[r].pc /\ Programs[r][i] = Now(r)
      BY <1>2
    <2>2. d \in JobDocs(Now(r)) /\ Now(r).op # "clean"
      BY <2>1, <1>2, DocsOf
    <2>3. DocSettled(r, run[r].pc, d)
      BY <2>2, <1>1 DEF PartRenewed
    <2>4. QED BY <2>1, <2>3 DEF Accounted
  <1>5. ASSUME NEW year \in Years5 PROVE YearStep(r, year)
    BY <1>1, <1>2 DEF YearStep, Ends, Apart, Over
  <1>6. QED BY <1>1, <1>2, <1>3, <1>4, <1>5 DEF Effect

\* A call that goes wrong, and what the run does then.
LEMMA CutOffEffect ==
  ASSUME EconomicType, NEW r \in Runs, Going(r), NEW what, CutOff(r, what), RunMoves(r),
         run'[r].pc \in {run[r].pc, run[r].pc + 1}, ~UnderWay(r)'
  PROVE  Effect(r)
  <1>1. FaultsGrow(r) /\ Recorded(r)
    BY FaultRecorded DEF CutOff, Recorded
  <1>2. DocsMove(r) /\ db' = db
    BY NothingMoves DEF CutOff
  <1>3. run[r].pc \in Nat
    BY GoingAt
  <1>4. LeftBehind(r)
    BY <1>1, <1>3, GoingAt DEF LeftBehind, Accounted, Recorded
  <1>5. ASSUME NEW year \in Years5 PROVE YearStep(r, year)
    <2>1. Over(r, year) => year \in mixed'
      BY DEF CutOff, Over
    <2>2. year \in mixed => year \in mixed'
      BY DEF CutOff
    <2>3. QED BY <2>1, <2>2, <1>2 DEF YearStep, Starts, Apart, Over
  <1>6. QED BY <1>1, <1>2, <1>4, <1>5 DEF Effect, HandedOn

LEMMA DeleteEffect ==
  ASSUME EconomicType, NEW r \in Runs, GotFits(r), PartRenewed(r), DeleteAll(r)
  PROVE  Effect(r)
  <1>1. Going(r) /\ Now(r).op = "clean" /\ Commanding(r)
    <2>1. Going(r) /\ Now(r).op = "clean" /\ run[r].stage \in Nat \ {0}
      BY GoingAt DEF DeleteAll
    <2>2. Requests(Now(r)) = 0
      BY <2>1 DEF Requests
    <2>3. QED BY <2>1, <2>2 DEF Commanding
  <1>2. CASE Begin(r, InCollection(Now(r).key))
    BY <1>1, <1>2, BeginEffect DEF Scope
  <1>3. CASE Handle(r, Absent)
    BY <1>1, <1>3, HandleEffect DEF Becomes
  <1>4. CASE Complete(r)
    BY <1>4, CompleteEffect
  <1>5. CASE CutOff(r, "clean") /\ run' = [run EXCEPT ![r].out = "error"]
    BY <1>1, <1>5, EndMoves, CutOffEffect
  <1>6. QED BY <1>2, <1>3, <1>4, <1>5 DEF DeleteAll

LEMMA UpdateEffect ==
  ASSUME EconomicType, NEW r \in Runs, GotFits(r), PartRenewed(r),
         NEW op \in {"nipa", "regional", "acs"}, BulkUpdate(r, op)
  PROVE  Effect(r)
  <1>1. Going(r) /\ Now(r).op # "clean" /\ Commanding(r)
    BY DEF BulkUpdate, Writing, Commanding
  <1>2. CASE Begin(r, run[r].got)
    <2>1. ~UnderWay(r)
      BY <1>2 DEF Begin
    <2>2. run[r].got \subseteq Scope(Now(r))
      BY <1>1, <2>1, HeldAtEnd DEF Scope
    <2>3. QED BY <1>1, <1>2, <2>2, BeginEffect
  <1>3. CASE Handle(r, r)
    BY <1>1, <1>3, HandleEffect DEF Becomes
  <1>4. CASE Complete(r)
    BY <1>4, CompleteEffect
  <1>5. CASE CutOff(r, "write") /\ Continue(r)
    BY <1>1, <1>5, ContinueMoves, CutOffEffect
  <1>6. QED BY <1>2, <1>3, <1>4, <1>5 DEF BulkUpdate

LEMMA SeriesEffect ==
  ASSUME EconomicType, NEW r \in Runs, GotFits(r), PartRenewed(r), UpsertSeries(r)
  PROVE  Effect(r)
  <1> DEFINE j == Now(r)  got == run[r].got
  <1>1. Going(r) /\ j.op = "series" /\ Commanding(r) /\ Continue(r)
    BY DEF UpsertSeries, Writing, Commanding
  <1>2. RunMoves(r) /\ run'[r].pc = run[r].pc + 1 /\ ~UnderWay(r)'
        /\ run[r].pc \in 1..Len(Programs[r]) /\ Now(r) = Programs[r][run[r].pc] /\ IsJob(j)
        /\ j \in AllJobs /\ Len(Programs[r]) \in Nat /\ got \subseteq Docs
    BY <1>1, ContinueMoves, GoingAt
  <1>3. CASE CutOff(r, "write")
    BY <1>1, <1>2, <1>3, CutOffEffect
  <1>4. CASE /\ db' = [d \in Docs |-> IF d \in got THEN r ELSE db[d]]
             /\ UNCHANGED <<faults, mixed>>
    <2>1. got \subseteq Scope(j) /\ Scope(j) = JobDocs(j) /\ Becomes(r) = r
      <3>1. CASE UnderWay(r)
        BY <1>1, <3>1 DEF GotFits, Scope, Becomes
      <3>2. CASE ~UnderWay(r)
        BY <1>1, <3>2, HeldAtEnd DEF Scope, Becomes
      <3>3. QED BY <3>1, <3>2
    <2>2. DocsMove(r)
      BY <1>4, <2>1 DEF DocsMove, EconomicType
    <2>3. FaultsGrow(r) /\ HandedOn(r)
      BY <1>2, <1>4, NoFault DEF HandedOn
    <2>4. LeftBehind(r)
      <3> SUFFICES ASSUME NEW i \in 1..Len(Programs[r]), run[r].pc <= i, i < run'[r].pc,
                          NEW d \in JobDocs(Programs[r][i])
                   PROVE  Accounted(r, i, d)
        BY DEF LeftBehind
      <3>1. i = run[r].pc /\ Programs[r][i] = j
        BY <1>2
      <3>2. d \in Docs /\ (d \in got => db'[d] = r)
        BY <3>1, <1>2, <1>4, AllDocs
      <3>3. CASE UnderWay(r)
        BY <3>1, <3>2, <3>3, <1>1 DEF PartRenewed, Accounted
      <3>4. CASE ~UnderWay(r)
        <4>1. got = JobDocs(j)
          BY <1>1, <3>4, HeldAtEnd
        <4>2. QED BY <4>1, <3>1, <3>2 DEF Accounted
      <3>5. QED BY <3>3, <3>4
    <2>5. ASSUME NEW year \in Years5 PROVE YearStep(r, year)
      <3>1. YearsOf(j) = {}
        BY <1>1 DEF YearsOf
      <3>2. \A d \in CensusDocsOf(year) : d \in Docs /\ d \notin got
        BY <3>1, <2>1, <1>2, ScopeOver DEF CensusDocsOf
      <3>3. QED BY <3>1, <3>2, <1>2, <1>4 DEF YearStep, Apart, Over
    <2>6. QED BY <1>1, <1>2, <2>2, <2>3, <2>4, <2>5 DEF Effect
  <1>5. QED BY <1>3, <1>4 DEF UpsertSeries

LEMMA KillEffect ==
  ASSUME EconomicType, NEW r \in Runs, Kill(r)
  PROVE  Effect(r)
  BY EndMoves, CutOffEffect DEF Kill

LEMMA StepEffect ==
  ASSUME EconomicType, NEW r \in Runs, GotFits(r), PartRenewed(r), Step(r) \/ Kill(r)
  PROVE  Effect(r)
  <1>1. CASE Kill(r)
    BY <1>1, KillEffect
  <1>2. CASE DeleteAll(r)
    BY <1>2, DeleteEffect
  <1>3. CASE FetchSeries(r) \/ FetchNipa(r)
    <2>1. PICK op : Asking(r, op) /\ (Answered(r)
                      \/ (Fault(r, "fetch") /\ Continue(r) /\ UNCHANGED <<db, mixed>>))
      BY <1>3 DEF FetchSeries, FetchNipa
    <2>2. QED BY <2>1, AnsweredEffect, SkippedEffect
  <1>4. CASE FetchRegional(r)
    BY <1>4, AnsweredEffect, GivenUpEffect DEF FetchRegional
  <1>5. CASE FetchAcs(r)
    <2>1. /\ Asking(r, "acs")
          /\ \/ Answered(r)
             \/ Fault(r, "fetch") /\ Continue(r) /\ UNCHANGED <<db, mixed>>
             \/ Fault(r, "fetch") /\ Abandon(r) /\ UNCHANGED <<db, mixed>>
      BY <1>5 DEF FetchAcs
    <2>2. QED BY <2>1, AnsweredEffect, SkippedEffect, GivenUpEffect
  <1>6. CASE AcsMissing(r)
    BY <1>6, MissingEffect
  <1>7. CASE UpsertSeries(r)
    BY <1>7, SeriesEffect
  <1>8. CASE UpsertNipa(r) \/ UpsertRegional(r) \/ UpsertCensus(r)
    BY <1>8, UpdateEffect DEF UpsertNipa, UpsertRegional, UpsertCensus
  <1>9. QED BY <1>1, <1>2, <1>3, <1>4, <1>5, <1>6, <1>7, <1>8 DEF Step

-----------------------------------------------------------------------------
(* The invariant is kept. *)

LEMMA RunsKept ==
  ASSUME EconomicType, NEW s \in Runs, Effect(s)
  PROVE  /\ run \in [Runs -> RunRecords] /\ run' \in [Runs -> RunRecords]
         /\ \A t \in Runs : run[t].pc \in Nat /\ run'[t].pc \in Nat /\ run[t].pc <= run'[t].pc
         /\ faults \subseteq faults'
  <1>1. run \in [Runs -> RunRecords] /\ run' \in [Runs -> RunRecords]
    BY DEF EconomicType, Effect, RunMoves
  <1>2. \A t \in Runs : run[t].pc \in Nat /\ run'[t].pc \in Nat
    BY <1>1 DEF RunRecords
  <1>3. ASSUME NEW t \in Runs PROVE run[t].pc <= run'[t].pc
    <2>1. CASE t = s
      BY <2>1, <1>2 DEF Effect, RunMoves
    <2>2. CASE t # s
      BY <2>2, <1>2 DEF Effect, RunMoves
    <2>3. QED BY <2>1, <2>2
  <1>4. QED BY <1>1, <1>2, <1>3 DEF Effect, FaultsGrow

\* A run that takes no step stays as it is.
LEMMA OthersStay ==
  ASSUME EconomicType, NEW s \in Runs, Effect(s), NEW t \in Runs \ {s}
  PROVE  /\ run'[t] = run[t] /\ Now(t)' = Now(t) /\ Going(t)' = Going(t)
         /\ UnderWay(t)' = UnderWay(t) /\ Becomes(t)' = Becomes(t)
         /\ \A year : Over(t, year)' = Over(t, year)
  <1>1. run'[t] = run[t]
    BY DEF Effect, RunMoves
  <1>2. QED BY <1>1 DEF Now, Going, UnderWay, Becomes, Over

\* A step changes the documents of the job it is at.
LEMMA Reach ==
  ASSUME EconomicType, NEW s \in Runs, Effect(s), NEW d \in Docs, db'[d] # db[d]
  PROVE  /\ Now(s).op # "clean" => d \in JobDocs(Now(s)) /\ db'[d] = s
         /\ Now(s).op = "clean" => d.col = Now(s).key
  BY DEF Effect, DocsMove, Scope, Becomes, InCollection

LEMMA Touches ==
  ASSUME EconomicType, NEW s \in Runs, Effect(s), NEW d \in Docs, db'[d] # db[d]
  PROVE  TouchedBy(s, d)'
  <1>1. /\ run[s].pc \in 1..Len(Programs[s]) /\ Now(s) = Programs[s][run[s].pc]
        /\ run[s].pc \in 1..(run'[s].pc)
    BY GoingAt, RunsKept DEF Effect
  <1>2. (Now(s).op = "clean" /\ Now(s).key = d.col) \/ d \in JobDocs(Now(s))
    BY Reach
  <1>3. QED BY <1>1, <1>2 DEF TouchedBy

LEMMA TouchedKept ==
  ASSUME EconomicType, NEW s \in Runs, Effect(s), NEW t \in Runs, NEW d, TouchedBy(t, d)
  PROVE  TouchedBy(t, d)'
  <1>1. run[t].pc \in Nat /\ run'[t].pc \in Nat /\ run[t].pc <= run'[t].pc
    BY RunsKept
  <1>2. 1..(run[t].pc) \subseteq 1..(run'[t].pc)
    BY <1>1
  <1>3. QED BY <1>2 DEF TouchedBy

\* A clearing spares what its own run has loaded.
LEMMA OwnSpared ==
  ASSUME EconomicType, NEW r \in Runs, Effect(r), NEW i \in 1..Len(Programs[r]),
         i < run[r].pc \/ Now(r).op # "clean",
         NEW d \in JobDocs(Programs[r][i]), db[d] = r
  PROVE  db'[d] = r
  <1> SUFFICES ASSUME db'[d] # db[d], Now(r).op = "clean" PROVE FALSE
    <2>1. d \in Docs
      BY ProgramsAre, AllDocs
    <2>2. QED BY <2>1, Reach
  <1> DEFINE k == run[r].pc
  <1>1. k \in 1..Len(Programs[r]) /\ Now(r) = Programs[r][k] /\ IsJob(Programs[r][i])
        /\ IsJob(Programs[r][k]) /\ ClearedFirst(Programs[r]) /\ d \in Docs
    BY GoingAt, ProgramsAre, AllDocs DEF Effect
  <1>2. d.col = Programs[r][k].key
    BY <1>1, Reach
  <1>3. Programs[r][k].sec = SectionOf(Programs[r][k].key)
    BY <1>1 DEF IsJob
  <1>4. Programs[r][i].op # "clean" /\ SectionOf(d.col) = Programs[r][i].sec
    BY <1>1, DocsOf
  <1>5. Programs[r][i].op = "clean" \/ Programs[r][i].sec # Programs[r][k].sec
    BY <1>1 DEF ClearedFirst
  <1>6. QED BY <1>2, <1>3, <1>4, <1>5

LEMMA DocSettledKept ==
  ASSUME EconomicType, NEW s \in Runs, Effect(s), NEW r \in Runs,
         NEW i \in 1..Len(Programs[r]), s = r => i < run[r].pc \/ Now(r).op # "clean",
         NEW d \in JobDocs(Programs[r][i]), DocSettled(r, i, d)
  PROVE  DocSettled(r, i, d)'
  <1>1. d \in Docs
    BY ProgramsAre, AllDocs
  <1>2. CASE db[d] = r
    <2>1. CASE s = r
      BY <2>1, <1>2, OwnSpared DEF DocSettled
    <2>2. CASE s # r /\ db'[d] = db[d]
      BY <2>2, <1>2 DEF DocSettled
    <2>3. CASE s # r /\ db'[d] # db[d]
      BY <2>3, <1>1, Touches DEF DocSettled
    <2>4. QED BY <2>1, <2>2, <2>3
  <1>3. CASE \E k \in 1..Len(Programs[r]) :
               /\ FaultAt(r, k)
               /\ \/ d \in JobDocs(Programs[r][k])
                  \/ k < i /\ Fatal(r, k) /\ Programs[r][k].sec = Programs[r][i].sec
    <2>1. PICK k \in 1..Len(Programs[r]) :
               /\ FaultAt(r, k)
               /\ \/ d \in JobDocs(Programs[r][k])
                  \/ k < i /\ Fatal(r, k) /\ Programs[r][k].sec = Programs[r][i].sec
      BY <1>3
    <2>2. FaultAt(r, k)' /\ (Fatal(r, k) => Fatal(r, k)')
      BY <2>1, RunsKept DEF FaultAt, Fatal
    <2>3. QED BY <2>1, <2>2 DEF DocSettled
  <1>4. CASE \E t \in Runs \ {r} : TouchedBy(t, d)
    BY <1>4, TouchedKept DEF DocSettled
  <1>5. QED BY <1>2, <1>3, <1>4 DEF DocSettled

LEMMA AccountedSettled ==
  ASSUME EconomicType, NEW r \in Runs, Effect(r), NEW i \in 1..Len(Programs[r]),
         NEW d \in JobDocs(Programs[r][i]), Accounted(r, i, d)
  PROVE  DocSettled(r, i, d)'
  <1>1. run[r].pc \in 1..Len(Programs[r]) /\ Now(r) = Programs[r][run[r].pc]
    BY GoingAt DEF Effect
  <1>2. CASE db'[d] = r
    BY <1>2 DEF DocSettled
  <1>3. CASE i = run[r].pc /\ DocSettled(r, i, d)
    <2>1. Now(r).op # "clean"
      BY <1>1, <1>3, ProgramsAre, DocsOf
    <2>2. QED BY <2>1, <1>3, DocSettledKept
  <1>4. CASE \E f \in faults' :
            /\ f.run = r /\ f.pc = run[r].pc
            /\ \/ i = run[r].pc
               \/ /\ run[r].pc < i /\ f.kind = "fetch" /\ Now(r).op \in {"regional", "acs"}
                  /\ Programs[r][i].sec = Now(r).sec
    <2>1. PICK f \in faults' :
            /\ f.run = r /\ f.pc = run[r].pc
            /\ \/ i = run[r].pc
               \/ /\ run[r].pc < i /\ f.kind = "fetch" /\ Now(r).op \in {"regional", "acs"}
                  /\ Programs[r][i].sec = Now(r).sec
      BY <1>4
    <2> DEFINE k == run[r].pc
    <2>2. \E g \in faults' : g.run = r /\ g.pc = k
      BY <2>1
    <2>3. \/ d \in JobDocs(Programs[r][k])
          \/ /\ k < i /\ Programs[r][k].op \in {"regional", "acs"}
             /\ \E g \in faults' : g.run = r /\ g.pc = k /\ g.kind = "fetch"
             /\ Programs[r][k].sec = Programs[r][i].sec
      BY <2>1, <1>1
    <2>4. k \in 1..Len(Programs[r])
      BY <1>1
    <2> HIDE DEF k
    <2>5. QED BY <2>2, <2>3, <2>4 DEF DocSettled, FaultAt, Fatal
  <1>5. QED BY <1>2, <1>3, <1>4 DEF Accounted

LEMMA RenewedKept ==
  ASSUME EconomicType, NEW s \in Runs, Effect(s), NEW r \in Runs, Renewed(r)
  PROVE  Renewed(r)'
  <1> SUFFICES ASSUME NEW i \in 1..Len(Programs[r]), i < run'[r].pc,
                      NEW d \in JobDocs(Programs[r][i])
               PROVE  DocSettled(r, i, d)'
    BY DEF Renewed
  <1>0. run[r].pc \in Nat /\ run'[r].pc \in Nat /\ i \in Nat
    BY RunsKept, ProgramsAre
  <1>1. CASE i < run[r].pc
    BY <1>1, DocSettledKept DEF Renewed
  <1>2. CASE ~(i < run[r].pc)
    <2>1. s = r
      BY <1>2 DEF Effect, RunMoves
    <2>2. Accounted(r, i, d)
      BY <2>1, <1>0, <1>2 DEF Effect, LeftBehind
    <2>3. QED BY <2>1, <2>2, AccountedSettled
  <1>3. QED BY <1>1, <1>2

LEMMA PartRenewedKept ==
  ASSUME EconomicType, NEW s \in Runs, Effect(s), NEW r \in Runs, PartRenewed(r)
  PROVE  PartRenewed(r)'
  <1> SUFFICES ASSUME UnderWay(r)'
               PROVE  PartRenewed(r)'
    BY DEF PartRenewed
  <1>1. run'[r].pc = run[r].pc /\ Now(r)' = Now(r)
    BY OthersStay DEF Effect, HandedOn
  <1>2. Going(r) /\ (s # r => UnderWay(r) /\ run'[r] = run[r])
    BY OthersStay DEF UnderWay, Effect
  <1>3. run[r].pc \in 1..Len(Programs[r]) /\ Now(r) = Programs[r][run[r].pc]
    BY <1>2, GoingAt
  <1>4. ASSUME NEW i \in 1..Len(Programs[r]), i = run[r].pc, Now(r).op # "clean",
               NEW d \in JobDocs(Programs[r][i]), d \notin run'[r].got
        PROVE  DocSettled(r, i, d)'
    <2>1. CASE s = r
      <3>1. Accounted(r, i, d) /\ Effect(r)
        BY <1>3, <1>4, <2>1 DEF Effect, HandedOn
      <3>2. QED BY <3>1, <1>4, AccountedSettled
    <2>2. CASE s # r
      <3>1. DocSettled(r, i, d)
        BY <1>2, <1>3, <1>4, <2>2 DEF PartRenewed
      <3>2. QED BY <3>1, <1>4, <2>2, DocSettledKept
    <2>3. QED BY <2>1, <2>2
  <1>5. \A i \in 1..Len(Programs[r]), d \in JobDocs(Now(r)) :
           i = run[r].pc /\ DocSettled(r, i, d)' => DocSettled(r, run[r].pc, d)'
    BY <1>1 DEF DocSettled
  <1>6. QED BY <1>1, <1>3, <1>4, <1>5 DEF PartRenewed

LEMMA YearKept ==
  ASSUME EconomicType, NEW r \in Runs, Effect(r), NEW year \in Years5, YearFits(year)
  PROVE  YearFits(year)'
  <1> DEFINE C == CensusDocsOf(year)
  <1> SUFFICES ASSUME year \notin mixed'
               PROVE  /\ \A s, t \in Runs : Over(s, year)' /\ Over(t, year)' => s = t
                      /\ \A s \in Runs : Over(s, year)' =>
                           \A d \in C : d \in run'[s].got \/ db'[d] = Becomes(s)'
                      /\ \/ \E s \in Runs : Over(s, year)'
                         \/ \A d, e \in C : db'[d] = db'[e]
    BY DEF YearFits, CensusDocsOf
  <1>1. \A s \in Runs \ {r} : /\ run'[s] = run[s] /\ Becomes(s)' = Becomes(s)
                              /\ Over(s, year)' = Over(s, year)
    BY OthersStay
  <1>2. CASE Starts(r, year)
    <2>1. /\ \A s \in Runs \ {r} : ~Over(s, year)
          /\ Over(r, year)' /\ C \subseteq run'[r].got
      BY <1>2 DEF Starts
    <2>2. QED BY <1>1, <2>1
  <1> SUFFICES ASSUME YearStep(r, year), ~Starts(r, year)
               PROVE  /\ \A s, t \in Runs : Over(s, year)' /\ Over(t, year)' => s = t
                      /\ \A s \in Runs : Over(s, year)' =>
                           \A d \in C : d \in run'[s].got \/ db'[d] = Becomes(s)'
                      /\ \/ \E s \in Runs : Over(s, year)'
                         \/ \A d, e \in C : db'[d] = db'[e]
    BY <1>2 DEF Effect
  <1>3. year \notin mixed
    BY DEF YearStep, Apart, Proceeds, Ends
  <1>4. /\ \A s, t \in Runs : Over(s, year) /\ Over(t, year) => s = t
        /\ \A s \in Runs : Over(s, year) =>
             \A d \in C : d \in run[s].got \/ db[d] = Becomes(s)
        /\ \/ \E s \in Runs : Over(s, year)
           \/ \A d, e \in C : db[d] = db[e]
    BY <1>3 DEF YearFits
  <1>5. CASE Apart(r, year)
    <2>1. ~Over(r, year) /\ ~Over(r, year)' /\ \A d \in C : db'[d] = db[d]
      BY <1>5 DEF Apart
    <2>2. \A s \in Runs : (Over(s, year)' <=> Over(s, year)) /\ (Over(s, year) => s # r)
      <3>1. TAKE s \in Runs
      <3>2. CASE s = r
        BY <3>2, <2>1
      <3>3. CASE s # r
        BY <3>3, <1>1
      <3>4. QED BY <3>2, <3>3
    <2> HIDE DEF C
    <2>3. ASSUME NEW s \in Runs, Over(s, year)', NEW d \in C
          PROVE  d \in run'[s].got \/ db'[d] = Becomes(s)'
      BY <1>1, <1>4, <2>1, <2>2, <2>3
    <2>4. (\E s \in Runs : Over(s, year)') \/ (\A d, e \in C : db'[d] = db'[e])
      BY <1>4, <2>1, <2>2
    <2>5. \A s, t \in Runs : Over(s, year)' /\ Over(t, year)' => s = t
      BY <1>4, <2>2
    <2>6. QED BY <2>3, <2>4, <2>5
  <1>6. CASE Proceeds(r, year)
    <2>1. /\ Over(r, year) /\ Now(r)' = Now(r)
          /\ \A d \in C : \/ db'[d] = Becomes(r)
                          \/ db'[d] = db[d] /\ (d \in run[r].got => d \in run'[r].got)
      BY <1>6 DEF Proceeds
    <2>2. \A s \in Runs \ {r} : ~Over(s, year)'
      BY <1>1, <1>4, <2>1
    <2>3. Becomes(r)' = Becomes(r)
      BY <2>1 DEF Becomes
    <2> HIDE DEF C
    <2>4. ASSUME NEW d \in C PROVE d \in run'[r].got \/ db'[d] = Becomes(r)'
      <3>1. d \in run[r].got \/ db[d] = Becomes(r)
        BY <1>4, <2>1
      <3>2. QED BY <3>1, <2>1, <2>3
    <2>5. Over(r, year)'
      BY <1>6 DEF Proceeds
    <2>6. QED BY <2>2, <2>4, <2>5
  <1>7. CASE Ends(r, year)
    <2>1. /\ Over(r, year) /\ ~Over(r, year)' /\ run[r].got = {}
          /\ \A d \in C : db'[d] = db[d]
      BY <1>7 DEF Ends
    <2>2. \A s \in Runs : ~Over(s, year)'
      BY <1>1, <1>4, <2>1
    <2> HIDE DEF C
    <2>3. \A d \in C : db'[d] = Becomes(r)
      BY <1>4, <2>1
    <2>4. QED BY <2>2, <2>3
  <1>8. QED BY <1>5, <1>6, <1>7 DEF YearStep

LEMMA TypeKept ==
  ASSUME EconomicType, NEW r \in Runs, Effect(r)
  PROVE  EconomicType'
  <1>1. run' \in [Runs -> RunRecords]
    BY RunsKept
  <1>2. \A f \in faults' : f.run \in Runs /\ f.pc \in 1..Len(Programs[f.run])
    BY GoingAt DEF EconomicType, Effect, FaultsGrow
  <1>3. db' \in [Docs -> Runs \cup {Absent, Old}]
    BY DEF Effect, DocsMove
  <1>4. QED BY <1>1, <1>2, <1>3 DEF EconomicType

LEMMA OthersFit ==
  ASSUME EconomicInv, NEW s \in Runs, Effect(s), NEW r \in Runs
  PROVE  GotFits(r)' /\ Finished(r)'
  <1>1. CASE r = s
    BY <1>1 DEF Effect, RunMoves
  <1>2. CASE r # s
    <2>1. /\ run'[r] = run[r] /\ faults \subseteq faults'
          /\ Going(r)' = Going(r) /\ Now(r)' = Now(r) /\ UnderWay(r)' = UnderWay(r)
      BY <1>2, RunsKept, OthersStay DEF EconomicInv
    <2>2. GotFits(r) /\ Finished(r)
      BY DEF EconomicInv
    <2>3. Missed(r) => Missed(r)'
      BY <2>1 DEF Missed
    <2>4. GotFits(r)'
      BY <2>1, <2>2, <2>3 DEF GotFits
    <2>5. Finished(r)'
      BY <2>1, <2>2 DEF Finished
    <2>6. QED BY <2>4, <2>5
  <1>3. QED BY <1>1, <1>2

LEMMA InitEconomicInv == InitEconomic => EconomicInv
  <1> SUFFICES ASSUME InitEconomic PROVE EconomicInv
    OBVIOUS
  <1> DEFINE rec == [pc |-> 1, stage |-> 1, got |-> {}, out |-> "going"]
  <1>1. rec \in RunRecords /\ rec.pc = 1 /\ rec.stage = 1 /\ rec.got = {} /\ rec.out = "going"
    BY DEF RunRecords
  <1>2. run = [r \in Runs |-> rec] /\ faults = {}
    BY DEF InitEconomic
  <1> HIDE DEF rec
  <1>3. run \in [Runs -> RunRecords] /\ \A r \in Runs : run[r] = rec
    BY <1>1, <1>2
  <1>4. db = [d \in Docs |-> Old] \/ db = [d \in Docs |-> Absent]
    BY DEF InitEconomic
  <1>5. EconomicType
    BY <1>2, <1>3, <1>4 DEF EconomicType
  <1>6. ASSUME NEW r \in Runs PROVE ~UnderWay(r)
    <2>1. run[r].stage = 1 /\ Requests(Now(r)) \in 0..3
      BY <1>1, <1>3, RequestsOf
    <2>2. QED BY <2>1 DEF UnderWay
  <1>7. ASSUME NEW year \in Years5 PROVE YearFits(year)
    <2>1. \A d, e \in CensusDocsOf(year) : db[d] = db[e]
      BY <1>4 DEF CensusDocsOf
    <2>2. QED BY <1>6, <2>1 DEF YearFits, Over
  <1>8. ASSUME NEW r \in Runs PROVE GotFits(r) /\ Renewed(r) /\ PartRenewed(r) /\ Finished(r)
    <2>1. run[r].pc = 1 /\ run[r].stage = 1 /\ run[r].got = {} /\ run[r].out = "going"
      BY <1>1, <1>3
    <2>2. Requests(Now(r)) \in 0..3 /\ Fetched(Now(r), 1) = {}
      BY RequestsOf DEF Fetched
    <2>3. GotFits(r)
      BY <2>1, <2>2, <1>6 DEF GotFits
    <2>4. Renewed(r)
      BY <2>1, ProgramsAre DEF Renewed
    <2>5. QED BY <2>1, <2>3, <2>4, <1>6 DEF Finished, PartRenewed
  <1>9. QED BY <1>5, <1>7, <1>8 DEF EconomicInv

LEMMA NextEconomicInv == EconomicInv /\ [NextEconomic]_economicVars => EconomicInv'
  <1> SUFFICES ASSUME EconomicInv, [NextEconomic]_economicVars PROVE EconomicInv'
    OBVIOUS
  <1>1. CASE NextEconomic
    <2>1. PICK s \in Runs : Step(s) \/ Kill(s)
      BY <1>1 DEF NextEconomic
    <2>2. EconomicType /\ GotFits(s) /\ PartRenewed(s)
      BY DEF EconomicInv
    <2>3. Effect(s)
      BY <2>1, <2>2, StepEffect
    <2>4. EconomicType'
      BY <2>2, <2>3, TypeKept
    <2>5. ASSUME NEW year \in Years5 PROVE YearFits(year)'
      BY <2>2, <2>3, YearKept DEF EconomicInv
    <2>6. ASSUME NEW r \in Runs
          PROVE  GotFits(r)' /\ Renewed(r)' /\ PartRenewed(r)' /\ Finished(r)'
      <3>1. Renewed(r) /\ PartRenewed(r)
        BY DEF EconomicInv
      <3>2. QED BY <2>2, <2>3, <3>1, OthersFit, RenewedKept, PartRenewedKept
    <2>7. QED BY <2>4, <2>5, <2>6 DEF EconomicInv, Years5
  <1>2. CASE UNCHANGED economicVars
    <2>1. db' = db /\ run' = run /\ faults' = faults /\ mixed' = mixed
      BY <1>2 DEF economicVars
    <2>2. EconomicType'
      BY <2>1 DEF EconomicInv, EconomicType
    <2>3. \A r \in Runs : /\ Going(r)' = Going(r) /\ Now(r)' = Now(r) /\ UnderWay(r)' = UnderWay(r)
                          /\ Missed(r)' = Missed(r) /\ Becomes(r)' = Becomes(r)
                          /\ \A year : Over(r, year)' = Over(r, year)
      BY <2>1 DEF Going, Now, UnderWay, Missed, Becomes, Over
    <2>4. ASSUME NEW year \in Years5 PROVE YearFits(year)'
      <3>1. YearFits(year)
        BY DEF EconomicInv
      <3>2. CensusDocsOf(year)' = CensusDocsOf(year)
        BY DEF CensusDocsOf
      <3>3. QED BY <2>1, <2>3, <3>1, <3>2 DEF YearFits
    <2>5. ASSUME NEW r \in Runs
          PROVE  GotFits(r)' /\ Renewed(r)' /\ PartRenewed(r)' /\ Finished(r)'
      <3>1. GotFits(r) /\ Renewed(r) /\ PartRenewed(r) /\ Finished(r)
        BY DEF EconomicInv
      <3>2. GotFits(r)' /\ Finished(r)'
        BY <2>1, <2>3, <3>1 DEF GotFits, Finished
      <3>3. \A i, d : DocSettled(r, i, d)' = DocSettled(r, i, d)
        BY <2>1 DEF DocSettled, FaultAt, Fatal, TouchedBy
      <3>4. Renewed(r)' /\ PartRenewed(r)'
        BY <2>1, <2>3, <3>1, <3>3 DEF Renewed, PartRenewed
      <3>5. QED BY <3>2, <3>4
    <2>6. QED BY <2>2, <2>4, <2>5 DEF EconomicInv, Years5
  <1>3. QED BY <1>1, <1>2

\* EconomicInv holds in every state that runs of any configuration reach.
THEOREM EconomicInvariance == SpecEconomic => []EconomicInv
  <1>1. InitEconomic => EconomicInv
    BY InitEconomicInv
  <1>2. EconomicInv /\ [NextEconomic]_economicVars => EconomicInv'
    BY NextEconomicInv
  <1>3. QED BY <1>1, <1>2, PTL DEF SpecEconomic

(***************************************************************************)
(* A run that has gone past a job, whatever becomes of it later, has       *)
(* renewed every document of that job, but for the jobs that failed        *)
(* themselves, those a failed regional or census request cost, and what    *)
(* another run has touched (update_fred, update_bea, update_census:        *)
(* `continue` against `?`).                                                *)
(***************************************************************************)
THEOREM FailuresAreContained == SpecEconomic => []FailureContained
  <1>1. EconomicInv => FailureContained
    BY DEF EconomicInv, Renewed, DocSettled, FailureContained
  <1>2. QED BY <1>1, EconomicInvariance, PTL

(***************************************************************************)
(* The nation, the states and the counties of a census year come from one  *)
(* run, but while a command over the year is under way, and after one that *)
(* was cut off, went without a level that was reported missing, or met the *)
(* command of another run (update_census: nothing is written before the    *)
(* counties have come; bulk_write and delete_many are no transactions).    *)
(***************************************************************************)
THEOREM YearsAreWhole == SpecEconomic => []YearWhole
  <1>1. EconomicInv => YearWhole
    BY DEF EconomicInv, YearFits, YearWhole, Over, Years5
  <1>2. QED BY <1>1, EconomicInvariance, PTL

-----------------------------------------------------------------------------
(* What the tools answer. *)

\* A document says itself which question it answers.
LEMMA CensusDocFits ==
  ASSUME NEW d \in Docs, d.col = "census"
  PROVE  d.type \in {"US", "STATE", "COUNTY"} /\ d.fips \in Places(d.type)
  <1>1. PICK j \in AllJobs : IsJob(j) /\ d \in JobDocs(j)
    BY AllDocs
  <1>2. j.op = "acs"
    BY <1>1, DocsOf DEF ColOf
  <1>3. PICK k \in 1..3 : d \in CensusDocs(AcsLevels[k], j.year)
    BY <1>1, <1>2, DocsOf
  <1> DEFINE geo == AcsLevels[k]
  <1>4. geo \in {"US", "STATE", "COUNTY"}
    BY DEF AcsLevels
  <1>5. ParseResponse(geo).type = geo /\ ParseResponse(geo).fips = Places(geo)
    BY <1>4 DEF ParseResponse, Places
  <1> HIDE DEF geo
  <1>6. \E f \in Places(geo) : d.fips = f /\ d.type = geo
    BY <1>3, <1>5 DEF CensusDocs, geo
  <1>7. QED BY <1>4, <1>6

LEMMA RegionalDocFits ==
  ASSUME NEW d \in Docs, d.col = "regional", NEW type \in {"US", "STATE", "COUNTY"}, d.type = type
  PROVE  d.fips \in Places(type)
  <1>1. PICK j \in AllJobs : IsJob(j) /\ d \in JobDocs(j)
    BY AllDocs
  <1>2. j.op = "regional"
    BY <1>1, DocsOf DEF ColOf
  <1>3. d \in RegionalDocs(j.key, j.level) /\ j.level \in {"STATE", "COUNTY"}
    BY <1>1, <1>2, DocsOf
  <1> DEFINE level == j.level
  <1> HIDE DEF level
  <1>4. PICK f \in GetRegional(level) : d.fips = f /\ d.type = IF f = Nation THEN "US" ELSE level
    BY <1>3 DEF RegionalDocs, level
  <1>5. level \in {"STATE", "COUNTY"}
    BY <1>3 DEF level
  <1>6. QED BY <1>4, <1>5 DEF Places, GetRegional

LEMMA NipaDocIs ==
  ASSUME NEW d \in Docs, NEW e \in Docs, d.col = "nipa", e.col = "nipa", d.key = e.key,
         d.period[1] = e.period[1], d.period[2] = "A", e.period[2] = "A"
  PROVE  d = e
  <1> DEFINE none == <<>>
             Is(x, key, year, f) == x = [col |-> "nipa", key |-> key, period |-> <<year, f>>,
                                         fips |-> none, type |-> ""]
  <1> HIDE DEF none
  <1>1. ASSUME NEW x \in Docs, x.col = "nipa"
        PROVE  \E key, year, f : Is(x, key, year, f)
    <2>1. PICK j \in AllJobs : IsJob(j) /\ x \in JobDocs(j)
      BY AllDocs
    <2>2. j.op = "nipa"
      BY <1>1, <2>1, DocsOf DEF ColOf
    <2>3. x \in NipaDocs(j.key, j.year)
      BY <2>1, <2>2, DocsOf
    <2>4. PICK f \in {"A", "Q"} : Is(x, j.key, j.year, f)
      BY <2>3 DEF NipaDocs, none
    <2>5. QED BY <2>4
  <1>2. PICK key, year, f : Is(d, key, year, f)
    BY <1>1
  <1>3. PICK key2, year2, f2 : Is(e, key2, year2, f2)
    BY <1>1
  <1>4. d.key = key /\ d.period = <<year, f>> /\ e.key = key2 /\ e.period = <<year2, f2>>
    BY <1>2, <1>3
  <1>5. key = key2 /\ year = year2 /\ f = f2
    <2>1. <<year, f>>[1] = year /\ <<year, f>>[2] = f /\ <<year2, f2>>[1] = year2 /\ <<year2, f2>>[2] = f2
      OBVIOUS
    <2>2. d.period[1] = year /\ d.period[2] = f /\ e.period[1] = year2 /\ e.period[2] = f2
      BY <1>4, <2>1
    <2>3. QED BY <2>2, <1>4
  <1>6. QED BY <1>2, <1>3, <1>5

\* The series of the only pipeline that loads them are there when it has succeeded.
LEMMA SeriesLoaded ==
  ASSUME EconomicInv, NEW r \in Runs, "fred" \in Configs[r].update, run[r].out = "ok",
         ~ \E f \in faults : f.run = r /\ Programs[r][f.pc].sec = "fred",
         ~ \E s \in Runs \ {r} : "fred" \in Configs[s].update,
         NEW id \in Range(Series)
  PROVE  FredDoc(id) \in Present
  <1> DEFINE j == Job("fred", "series", id, "", 0)  d == FredDoc(id)
  <1>1. j.op = "series" /\ j.key = id /\ j.sec = "fred"
    BY DEF Job
  <1> HIDE DEF j, d
  <1>2. PICK i \in 1..Len(Programs[r]) : Programs[r][i] = j
    <2>1. j \in Range(Program(Configs[r]))
      BY FredStretch, ProgramOf DEF j
    <2>2. Programs[r] = Program(Configs[r]) /\ DOMAIN Programs[r] = 1..Len(Programs[r])
      BY ProgramsAre
    <2>3. QED BY <2>1, <2>2 DEF Range
  <1>3. d \in JobDocs(Programs[r][i])
    <2>1. Rows(j, 1) = {d} /\ 1 \in 1..Requests(j)
      BY <1>1 DEF Rows, Requests, d
    <2>2. QED BY <1>2, <2>1 DEF JobDocs
  <1>4. d \in Docs /\ d.col = "fred"
    BY <1>3, ProgramsAre, AllDocs, RowsIn DEF d
  <1>5. \A t \in Runs : \A k \in 1..Len(Programs[t]) :
           d \in JobDocs(Programs[t][k]) => Programs[t][k].sec = "fred"
    <2>1. ASSUME NEW t \in Runs, NEW k \in 1..Len(Programs[t]), d \in JobDocs(Programs[t][k])
          PROVE  Programs[t][k].sec = "fred"
      <3>1. IsJob(Programs[t][k])
        BY ProgramsAre
      <3>2. SectionOf(d.col) = Programs[t][k].sec
        BY <2>1, <3>1, DocsOf
      <3>3. QED BY <3>2, <1>4 DEF SectionOf
    <2>2. QED BY <2>1
  <1>6. DocSettled(r, i, d)
    <2>1. run[r].pc > Len(Programs[r]) /\ run[r].pc \in Nat
      BY DEF EconomicInv, Finished, EconomicType, RunRecords
    <2>2. i < run[r].pc
      BY <2>1, ProgramsAre
    <2>3. QED BY <2>2, <1>3 DEF EconomicInv, Renewed
  <1>7. Programs[r][i].sec = "fred"
    BY <1>1, <1>2
  <1>8. \A k \in 1..Len(Programs[r]) : FaultAt(r, k) => Programs[r][k].sec # "fred"
    BY DEF FaultAt
  <1>9. \A t \in Runs \ {r} : ~TouchedBy(t, d)
    <2> SUFFICES ASSUME NEW t \in Runs \ {r}, TouchedBy(t, d) PROVE FALSE
      OBVIOUS
    <2>0. PICK k \in 1..(run[t].pc) :
            /\ k <= Len(Programs[t])
            /\ \/ Programs[t][k].op = "clean" /\ Programs[t][k].key = d.col
               \/ d \in JobDocs(Programs[t][k])
      BY DEF TouchedBy
    <2>00. k \in 1..Len(Programs[t])
      <3>1. run[t].pc \in Nat
        BY DEF EconomicInv, EconomicType, RunRecords
      <3>2. QED BY <3>1, <2>0, ProgramsAre
    <2>1. IsJob(Programs[t][k]) /\ (Programs[t][k].sec = "fred" => "fred" \in Configs[t].update)
      BY <2>00, ProgramsAre
    <2>2. Programs[t][k].op = "clean" /\ Programs[t][k].key = "fred" => Programs[t][k].sec = "fred"
      BY <2>1 DEF IsJob, SectionOf
    <2>3. QED BY <2>0, <2>00, <2>1, <2>2, <1>4, <1>5
  <1>10. db[d] = r
    BY <1>5, <1>6, <1>7, <1>8, <1>9 DEF DocSettled
  <1>11. r # Absent
    BY EconomicAssumption DEF EconomicAssumption
  <1>12. QED BY <1>4, <1>10, <1>11 DEF Present, d

(***************************************************************************)
(* A question about states is answered with states, one about a state's    *)
(* counties with that state's, a census question without a place with the  *)
(* nation, a NIPA question with one row for a year, and one about all      *)
(* series with all of them when the only run that loads them has succeeded *)
(* without a fault there (update_bea_regional, parse_response, the tools). *)
(***************************************************************************)
THEOREM AnswersAreFit == SpecEconomic => []AnswersFit
  <1>1. EconomicInv => AnswersFit
    <2> SUFFICES ASSUME EconomicInv PROVE AnswersFit
      OBVIOUS
    <2> DEFINE Returned(q) == CensusTool(q) \cup
                     UNION {BeaRegionalTool([q EXCEPT !.key = e[1], !.lines = {e[2]}]) :
                              e \in Range(Regionals)}
               FipsOf(q)   == {d.fips : d \in Returned(q)}
    <2>1. ASSUME NEW type \in {"US", "STATE", "COUNTY"}, NEW prefix,
                 NEW d \in Returned(Question(type, {}, prefix))
          PROVE  d.fips \in Places(type) /\ (prefix # "" => d.fips[1] = prefix)
      <3> DEFINE q == Question(type, {}, prefix)
      <3>1. q.type = type /\ q.fips = {} /\ q.prefix = prefix
        BY DEF Question
      <3>2. \A key, lines : LET p == [q EXCEPT !.key = key, !.lines = lines]
                            IN  p.type = type /\ p.fips = {} /\ p.prefix = prefix
        BY DEF Question
      <3> HIDE DEF q
      <3>3. CASE d \in CensusTool(q)
        <4>1. d \in GetCensusByVariable(ResolveYears(q.year), q)
          BY <3>1, <3>3 DEF CensusTool
        <4>2. d \in Docs /\ d.col = "census" /\ d.type = type /\ (prefix # "" => d.fips[1] = prefix)
          BY <4>1, <3>1 DEF GetCensusByVariable, GeoMatches, Present
        <4>3. QED BY <4>2, CensusDocFits
      <3>4. CASE \E e \in Range(Regionals) :
                   d \in BeaRegionalTool([q EXCEPT !.key = e[1], !.lines = {e[2]}])
        <4>1. PICK e \in Range(Regionals) :
                d \in BeaRegionalTool([q EXCEPT !.key = e[1], !.lines = {e[2]}])
          BY <3>4
        <4> DEFINE p == [q EXCEPT !.key = e[1], !.lines = {e[2]}]
        <4>2. p.type = type /\ p.fips = {} /\ p.prefix = prefix
          BY <3>2
        <4>3. d \in BeaRegionalTool(p)
          BY <4>1
        <4> HIDE DEF p
        <4>4. d \in Docs /\ d.col = "regional" /\ d.type = type /\ (prefix # "" => d.fips[1] = prefix)
          BY <4>2, <4>3 DEF BeaRegionalTool, GetBeaRegional, GetRegionalByTableSeries,
                            GeoMatches, Present
        <4>5. QED BY <4>4, RegionalDocFits
      <3>5. QED BY <3>3, <3>4 DEF q
    <2> HIDE DEF Returned
    <2>2. \A type \in {"US", "STATE", "COUNTY"} :
            FipsOf(Question(type, {}, "")) \subseteq Places(type)
      <3> SUFFICES ASSUME NEW type \in {"US", "STATE", "COUNTY"},
                          NEW d \in Returned(Question(type, {}, ""))
                   PROVE  d.fips \in Places(type)
        OBVIOUS
      <3>1. QED BY <2>1
    <2>3. \A c \in Counties :
            FipsOf(Question("COUNTY", {}, c[1])) \subseteq {b \in Counties : b[1] = c[1]}
      <3> SUFFICES ASSUME NEW c \in Counties, NEW d \in Returned(Question("COUNTY", {}, c[1]))
                   PROVE  d.fips \in Counties /\ d.fips[1] = c[1]
        OBVIOUS
      <3>1. c[1] # ""
        BY PlacesAssumption DEF PlacesAssumption
      <3>2. d.fips \in Places("COUNTY") /\ (c[1] # "" => d.fips[1] = c[1])
        BY <2>1
      <3>3. QED BY <3>1, <3>2 DEF Places
    <2>4. \A d \in CensusTool(Question("", {}, "")) : d.fips = Nation
      <3> DEFINE q == Question("", {}, "")  p == [q EXCEPT !.fips = {Nation}]
      <3>1. q.fips = {} /\ q.type = "" /\ q.prefix = "" /\ p.fips = {Nation}
        BY DEF Question
      <3> HIDE DEF q
      <3>2. CensusTool(q) = GetCensusByVariable(ResolveYears(q.year), p)
        BY <3>1 DEF CensusTool
      <3> HIDE DEF p
      <3>3. ASSUME NEW d \in CensusTool(q) PROVE d.fips = Nation
        <4>1. GeoMatches(d, p)
          BY <3>2, <3>3 DEF GetCensusByVariable
        <4>2. p.fips # {}
          BY <3>1
        <4>3. QED BY <4>1, <4>2, <3>1 DEF GeoMatches
      <3>4. QED BY <3>3 DEF q
    <2>5. \A i \in 1..Len(Tables) :
            LET rows == BeaNipaTool([Question("", {}, "") EXCEPT !.key = Tables[i]])
            IN  \A d, e \in rows : d.period[1] = e.period[1] => d = e
      <3> SUFFICES ASSUME NEW q, NEW d \in BeaNipaTool(q), NEW e \in BeaNipaTool(q),
                          d.period[1] = e.period[1]
                   PROVE  d = e
        OBVIOUS
      <3>1. /\ d \in Docs /\ d.col = "nipa" /\ d.key = q.key /\ d.period[2] = "A"
            /\ e \in Docs /\ e.col = "nipa" /\ e.key = q.key /\ e.period[2] = "A"
        BY DEF BeaNipaTool, GetNipaByTableSeries, Present
      <3>2. QED BY <3>1, NipaDocIs
    <2>6. \A r \in Runs :
            \/ "fred" \notin Configs[r].update \/ run[r].out # "ok"
            \/ \E f \in faults : f.run = r /\ Programs[r][f.pc].sec = "fred"
            \/ \E s \in Runs \ {r} : "fred" \in Configs[s].update
            \/ FredTool(Range(Series)) = {FredDoc(id) : id \in Range(Series)}
      <3> SUFFICES ASSUME NEW r \in Runs, "fred" \in Configs[r].update, run[r].out = "ok",
                          ~ \E f \in faults : f.run = r /\ Programs[r][f.pc].sec = "fred",
                          ~ \E s \in Runs \ {r} : "fred" \in Configs[s].update
                   PROVE  FredTool(Range(Series)) = {FredDoc(id) : id \in Range(Series)}
        OBVIOUS
      <3>1. \A id \in Range(Series) : GetSeries(id) = {FredDoc(id)}
        BY SeriesLoaded DEF GetSeries
      <3>2. ~ \E id \in Range(Series) : GetSeries(id) = {}
        BY <3>1
      <3>3. FredTool(Range(Series)) = UNION {GetSeries(id) : id \in Range(Series)}
        BY <3>2 DEF FredTool
      <3>4. QED BY <3>1, <3>3
    <2>7. QED BY <2>2, <2>3, <2>4, <2>5, <2>6 DEF AnswersFit, Returned
  <1>2. QED BY <1>1, EconomicInvariance, PTL
=============================================================================
