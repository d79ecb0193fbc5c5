------------------------------- MODULE Pipeline -------------------------------
(***************************************************************************)
(* One streaming run of a PipeLineAgent (rustic-agent): the deterministic  *)
(* pipeline, whose stages come from its configuration, the dynamic one,    *)
(* whose stages are the orchestrator's decisions, the sub-agents of a      *)
(* stage, in sequence or in parallel under a semaphore and a timeout, and  *)
(* the synthesizer that answers.                                           *)
(*                                                                         *)
(* A sub-agent is a call of Runnable::execute, a synthesizer a stream of   *)
(* ResponseStream.tla; each costs one unit of usage.  The sub-agents of a  *)
(* stage are numbered by their place in it.  `spent` is a history          *)
(* variable: the usage of every call that returned one.                    *)
(***************************************************************************)
EXTENDS Naturals, Sequences, FiniteSets

CONSTANTS MaxIterations,  \* MAX_ITERATIONS (10 in the code)
          Permits,        \* permits of the semaphore (5 in the code)
          MaxStages,      \* bound: stages of a deterministic pipeline
          MaxAgents       \* bound: agents in one stage

ASSUME PipelineAssumption == /\ MaxIterations \in Nat \ {0}
                             /\ Permits \in Nat \ {0}
                             /\ MaxStages \in Nat
                             /\ MaxAgents \in Nat

VARIABLES kind,       \* pipeline_type
          length,     \* stages.len() of a deterministic pipeline
          pc,
          round,      \* index + 1 of the stage, or iteration
          decision,   \* the stage's StageDecision
          sub,        \* the sub-agents of the stage
          turns,      \* the rounds in turn_response.stages, or in pipeline_turns
          usage,      \* turn_response.usage
          out,        \* the outcomes sent to the caller
          spent

vars == <<kind, length, pc, round, decision, sub, turns, usage, out, spent>>

\* `agents` goals; one that names no sub-agent, or has no goal, does not resolve.
Decisions == [agents : 0..MaxAgents, parallel : BOOLEAN, stop : BOOLEAN,
              resolves : BOOLEAN]

NoDecision == [agents |-> 0, parallel |-> FALSE, stop |-> FALSE, resolves |-> TRUE]

Final(u) == [kind |-> "final", usage |-> u]
Failure  == [kind |-> "error", usage |-> 0]

Init == /\ kind \in {"deterministic", "dynamic"}
        /\ length \in (IF kind = "deterministic" THEN 0..MaxStages ELSE {0})
        /\ pc = "top"
        /\ round = 0
        /\ decision = NoDecision
        /\ sub = <<>>
        /\ turns = <<>>
        /\ usage = 0
        /\ out = <<>>
        /\ spent = 0

\* Mutant of Fail: the error is sent, the loop goes on.
FailAndGoOn == /\ out' = Append(out, Failure)
               /\ pc' = "top"

\* Mutant of Fail: the error is logged and never sent.
FailSilently == /\ pc' = "done"
                /\ UNCHANGED out

\* tx.send(Err(..)), then break or return.
Fail == /\ out' = Append(out, Failure)
        /\ pc' = "done"

-----------------------------------------------------------------------------
(* The loops.                                                              *)

\* A deterministic pipeline takes its next stage; the last one synthesizes, which
\* a dynamic pipeline's decision says with `stop`.
NextStage(d) == /\ pc = "top"
                /\ kind = "deterministic"
                /\ round < length
                /\ d.stop <=> round + 1 = length
                /\ round' = round + 1
                /\ decision' = d
                /\ pc' = IF d.stop THEN "synthesizer" ELSE "subs"
                /\ UNCHANGED <<kind, length, sub, turns, usage, out, spent>>

\* Only a pipeline without stages gets here: the `for` ends, the stream with it.
NoStages == /\ pc = "top"
            /\ kind = "deterministic"
            /\ round = length
            /\ pc' = "done"
            /\ UNCHANGED <<kind, length, round, decision, sub, turns, usage, out, spent>>

\* decide: the orchestrator is asked once more, and paid for when it answers.
Asked(answered) == /\ pc = "top"
                   /\ kind = "dynamic"
                   /\ round < MaxIterations
                   /\ round' = round + 1
                   /\ spent' = IF answered THEN spent + 1 ELSE spent
                   /\ UNCHANGED <<kind, length, sub, turns, usage>>

\* A decision that does not stop names somebody.
Decide(d) == /\ Asked(TRUE)
             /\ d.stop \/ d.agents > 0
             /\ decision' = d
             /\ pc' = IF d.stop THEN "synthesizer" ELSE "subs"
             /\ UNCHANGED out

\* The orchestrator failed, its answer is no StageDecision, or it names nobody.
DecideFails(answered) == Asked(answered) /\ Fail /\ UNCHANGED decision

GiveUp == /\ pc = "top"
          /\ kind = "dynamic"
          /\ round = MaxIterations
          /\ round' = round + 1
          /\ Fail
          /\ UNCHANGED <<kind, length, decision, sub, turns, usage, spent>>

-----------------------------------------------------------------------------
(* execute_subs.                                                           *)

Running == {i \in DOMAIN sub : sub[i] = "running"}
Settled(i) == sub[i] \in {"ok", "failed", "timeout"}

StartSubs == /\ pc = "subs"
             /\ decision.resolves
             /\ sub' = [i \in 1..decision.agents |-> "waiting"]
             /\ pc' = "running"
             /\ UNCHANGED <<kind, length, round, decision, turns, usage, out, spent>>

SubsUnresolved == /\ pc = "subs"
                  /\ ~decision.resolves
                  /\ Fail
                  /\ UNCHANGED <<kind, length, round, decision, sub, turns, usage, spent>>

\* Mutant of MayStart: the permit moves into the agent's task, which a timeout
\* does not stop.
MayStartBehindTimeouts(i) ==
    IF decision.parallel
    THEN Cardinality({j \in DOMAIN sub : sub[j] \in {"running", "timeout"}}) < Permits
    ELSE \A j \in 1..(i - 1) : sub[j] = "ok"

\* A permit in parallel mode; in sequence, the success of those before.
MayStart(i) == IF decision.parallel THEN Cardinality(Running) < Permits
                                    ELSE \A j \in 1..(i - 1) : sub[j] = "ok"

SubStarts(i) == /\ pc = "running"
                /\ i \in DOMAIN sub
                /\ sub[i] = "waiting"
                /\ MayStart(i)
                /\ sub' = [sub EXCEPT ![i] = "running"]
                /\ UNCHANGED <<kind, length, pc, round, decision, turns, usage, out, spent>>

SubReturns(i, result) == /\ pc = "running"
                         /\ i \in Running
                         /\ sub' = [sub EXCEPT ![i] = result]
                         /\ spent' = IF result = "ok" THEN spent + 1 ELSE spent
                         /\ UNCHANGED <<kind, length, pc, round, decision, turns, usage, out>>

\* SUB_AGENT_TIMEOUT, counted from the permit on; only in parallel mode.
SubTimesOut(i) == /\ pc = "running"
                  /\ decision.parallel
                  /\ i \in Running
                  /\ sub' = [sub EXCEPT ![i] = "timeout"]
                  /\ UNCHANGED <<kind, length, pc, round, decision, turns, usage, out, spent>>

Succeeded == Cardinality({i \in DOMAIN sub : sub[i] = "ok"})

\* Mutant of SubsDone: add_stage keeps the responses and forgets their usage.
SubsDoneUncounted == /\ pc = "running"
                     /\ \A i \in DOMAIN sub : IF decision.parallel THEN Settled(i) ELSE sub[i] = "ok"
                     /\ turns' = Append(turns, round)
                     /\ pc' = "top"
                     /\ UNCHANGED <<kind, length, round, decision, sub, usage, out, spent>>

\* Only the deterministic loop adds the usage of a stage to the turn; the dynamic
\* one adds it to a local it never reads.
AddStage == /\ usage' = IF kind = "deterministic" THEN usage + Succeeded ELSE usage
            /\ turns' = Append(turns, round)

\* The stage's responses: all of them in sequence, the successful ones in parallel.
SubsDone == /\ pc = "running"
            /\ \A i \in DOMAIN sub : IF decision.parallel THEN Settled(i) ELSE sub[i] = "ok"
            /\ AddStage
            /\ pc' = "top"
            /\ UNCHANGED <<kind, length, round, decision, sub, out, spent>>

\* In sequence the first failure is the stage's.
SubsFail == /\ pc = "running"
            /\ ~decision.parallel
            /\ \E i \in DOMAIN sub : sub[i] = "failed"
            /\ Fail
            /\ UNCHANGED <<kind, length, round, decision, sub, turns, usage, spent>>

-----------------------------------------------------------------------------
(* execute_synthesizer.                                                    *)

SynthesizerRefused == /\ pc = "synthesizer"
                      /\ decision.agents > 1 \/ decision.parallel \/ ~decision.resolves
                      /\ Fail
                      /\ UNCHANGED <<kind, length, round, decision, sub, turns, usage, spent>>

\* subs[0] of an empty list: the task panics and the stream ends.
SynthesizerMissing == /\ pc = "synthesizer"
                      /\ decision.agents = 0 /\ ~decision.parallel /\ decision.resolves
                      /\ pc' = "panicked"
                      /\ UNCHANGED <<kind, length, round, decision, sub, turns, usage, out, spent>>

StartSynthesizer == /\ pc = "synthesizer"
                    /\ decision.agents = 1 /\ ~decision.parallel /\ decision.resolves
                    /\ pc' = "synthesizing"
                    /\ UNCHANGED <<kind, length, round, decision, sub, turns, usage, out, spent>>

\* set_synthesizer: its usage is added to that of the stages.
SetSynthesizer == usage' = usage + 1

SynthesizerFinal == /\ pc = "synthesizing"
                    /\ SetSynthesizer
                    /\ spent' = spent + 1
                    /\ out' = Append(out, Final(usage'))
                    /\ pc' = "done"
                    /\ UNCHANGED <<kind, length, round, decision, sub, turns>>

SynthesizerError == /\ pc = "synthesizing"
                    /\ Fail
                    /\ UNCHANGED <<kind, length, round, decision, sub, turns, usage, spent>>

\* Its stream ended without an outcome, and so does this one.
SynthesizerCut == /\ pc = "synthesizing"
                  /\ pc' = "cut"
                  /\ UNCHANGED <<kind, length, round, decision, sub, turns, usage, out, spent>>

-----------------------------------------------------------------------------
Ended == pc \in {"done", "panicked", "cut"}

Terminated == Ended /\ UNCHANGED vars

TaskStep == \/ \E d \in Decisions : NextStage(d) \/ Decide(d)
            \/ \E answered \in BOOLEAN : DecideFails(answered)
            \/ NoStages \/ GiveUp
            \/ StartSubs \/ SubsUnresolved \/ SubsDone \/ SubsFail
            \/ SynthesizerRefused \/ SynthesizerMissing \/ StartSynthesizer
            \/ SynthesizerFinal \/ SynthesizerError \/ SynthesizerCut

Acquire == \E i \in 1..MaxAgents : SubStarts(i)
Return  == \E i \in 1..MaxAgents, result \in {"ok", "failed"} : SubReturns(i, result)
Timeout == \E i \in 1..MaxAgents : SubTimesOut(i)

Next == TaskStep \/ Acquire \/ Return \/ Timeout \/ Terminated

Spec == Init /\ [][Next]_vars

\* The runtime polls the task, hands out free permits and fires the timer; a
\* sub-agent need not return.
FairSpec == Spec /\ WF_vars(TaskStep) /\ WF_vars(Acquire) /\ WF_vars(Timeout)

-----------------------------------------------------------------------------
(* Properties.                                                             *)

\* The Final chunk of a deterministic pipeline carries the usage of every call
\* that returned one, through all of its stages.
StageUsage == kind = "deterministic" =>
    \A k \in DOMAIN out : out[k].kind = "final" => out[k].usage = spent

\* The caller is told how the run ended, unless the pipeline has no stages, its
\* synthesizer no agent, or the synthesizer's own stream just ended.
EndsTold == pc = "done" => out # <<>> \/ (kind = "deterministic" /\ length = 0)

\* To its caller the pipeline is a response stream of ResponseStream.tla.
Stream == INSTANCE ResponseStream WITH outcomes <- [k \in DOMAIN out |-> out[k].kind],
                                       closed   <- Ended

ImplementsStream == Stream!Spec

\* A parallel stage ends although its sub-agents hang: each is timed out, which
\* frees its permit for the next.
ParallelEnds == (pc = "running" /\ decision.parallel) ~> (pc = "top")
=============================================================================
