---------------------------- MODULE AgentLoopProofs ----------------------------
(***************************************************************************)
(* Theorems about the agent's loop, for every cap, channel capacity and    *)
(* configuration: its types; that the consumer hears at most one outcome,  *)
(* as the last thing in the stream; that the loop is a response stream;    *)
(* that the answer accounts for the run; and that every request of a run   *)
(* is one the model can answer.                                            *)
(***************************************************************************)
EXTENDS AgentLoop, FiniteSetTheorems, TLAPS

\* An outcome in the channel is the last item there, and nothing precedes it in
\* what was heard; once the consumer has heard one, the channel is empty.
OutcomeLast == \A k \in DOMAIN chan : IsOutcome(chan[k]) =>
                  k = Len(chan) /\ pc = "done" /\ heard = <<>>

HeardLast == heard # <<>> => Len(heard) = 1 /\ pc = "done" /\ chan = <<>>

\* Inside an iteration its number is within the cap.
InRange == pc \notin {"loop", "done"} => iteration \in Iterations

IInv == TypeOK /\ OutcomeLast /\ HeardLast /\ InRange

-----------------------------------------------------------------------------

\* Nothing has been sent.
LEMMA InitInv == Init => IInv
  <1> SUFFICES ASSUME Init PROVE IInv
    OBVIOUS
  <1>1. results \in [1..0 -> {"pending", "ok", "failed"}]
    BY DEF Init
  <1>2. TypeOK
    BY <1>1, AgentAssumption, LoopAssumption
       DEF Init, TypeOK, Iterations, Calls, Traces, Item, NoResponse, Locals, Messages
  <1>3. OutcomeLast /\ HeardLast
    BY DEF Init, OutcomeLast, HeardLast
  <1>4. QED BY <1>2, <1>3 DEF IInv, InRange, Init

\* A send by a live task keeps the channel well-formed: it appends its item, or
\* nothing when the consumer is gone.
LEMMA SendInv ==
  ASSUME IInv, pc # "done", NEW item \in Item, Send(item),
         heard' = heard, IsOutcome(item) => pc' = "done"
  PROVE  /\ chan' \in Seq(Item)
         /\ Len(chan') <= Cap
         /\ OutcomeLast'
         /\ HeardLast'
  <1>1. \A k \in DOMAIN chan : ~IsOutcome(chan[k])
    BY DEF IInv, OutcomeLast
  <1>2. heard = <<>>
    BY DEF IInv, HeardLast
  <1>3. chan \in Seq(Item) /\ Len(chan) <= Cap
    BY DEF IInv, TypeOK
  <1>4. CASE consumer = "reading"
    <2>1. chan' = Append(chan, item) /\ Len(chan) < Cap
      BY <1>4 DEF Send
    <2>2. chan' \in Seq(Item) /\ Len(chan') <= Cap
      BY <1>3, <2>1, LoopAssumption
    <2>3. OutcomeLast'
      BY <1>1, <1>2, <1>3, <2>1 DEF OutcomeLast
    <2>4. QED BY <1>2, <2>2, <2>3 DEF HeardLast
  <1>5. CASE consumer # "reading"
    <2>1. chan' = chan
      BY <1>5 DEF Send
    <2>2. QED BY <1>1, <1>2, <1>3, <2>1 DEF OutcomeLast, HeardLast
  <1>6. QED BY <1>4, <1>5

\* A step of the task that sends nothing keeps it as well.
LEMMA QuietInv ==
  ASSUME IInv, pc # "done", chan' = chan, heard' = heard
  PROVE  OutcomeLast' /\ HeardLast'
  BY DEF IInv, OutcomeLast, HeardLast

-----------------------------------------------------------------------------
(* The steps of the task between two sends.                                *)

\* Leaving the loop at the cap, or building the next request.
LEMMA LoopTopInv == IInv /\ (GiveUp \/ CallModel) => IInv'
  <1> SUFFICES ASSUME IInv, GiveUp \/ CallModel PROVE IInv'
    OBVIOUS
  <1>1. TypeOK /\ pc = "loop" /\ chan' = chan /\ heard' = heard
    BY DEF IInv, GiveUp, CallModel
  <1>2. OutcomeLast' /\ HeardLast'
    BY <1>1, QuietInv
  <1>3. CASE GiveUp
    <2>1. iteration' \in 0..(MaxIterations + 1)
      BY <1>1, <1>3, LoopAssumption DEF GiveUp, TypeOK
    <2>2. TypeOK' /\ InRange'
      BY <1>1, <1>3, <2>1 DEF GiveUp, TypeOK, InRange, ghosts
    <2>3. QED BY <1>2, <2>2 DEF IInv
  <1>4. CASE CallModel
    <2>1. iteration' \in 0..(MaxIterations + 1)
      BY <1>1, <1>4, LoopAssumption DEF CallModel, TypeOK
    <2>2. asked' \subseteq Messages
      <3>1. known[PreviousId] \subseteq Messages
        BY <1>1, LoopAssumption DEF TypeOK, PreviousId
      <3>2. Prompt \in Messages
        BY DEF Messages
      <3>3. Newest \subseteq Messages
        BY <1>1 DEF TypeOK, Newest, Answered
      <3>4. Everything \subseteq Messages
        BY <1>1 DEF TypeOK, Everything
      <3>5. agent.provider \in {"openai", "completions", "anthropic", "gemini"}
        BY <1>1, AgentAssumption DEF TypeOK, Configurations
      <3>6. Body \subseteq Messages
        <4>1. Stateless \subseteq Messages
          BY <3>2, <3>4 DEF Stateless
        <4>2. /\ OpenAIBody \subseteq Messages      /\ CompletionsBody \subseteq Messages
              /\ AnthropicBody \subseteq Messages   /\ GeminiBody \subseteq Messages
          BY <3>2, <3>3, <3>4, <4>1
             DEF OpenAIBody, CompletionsBody, AnthropicBody, GeminiBody, Without
        <4>3. QED BY <3>5, <4>2 DEF Body
      <3>7. QED BY <1>4, <3>1, <3>6 DEF CallModel
    <2>3. TypeOK'
      BY <1>1, <1>4, <2>1, <2>2 DEF CallModel, TypeOK
    <2>4. InRange'
      BY <1>1, <1>4, LoopAssumption DEF CallModel, TypeOK, InRange, Iterations
    <2>5. QED BY <1>2, <2>3, <2>4 DEF IInv
  <1>5. QED BY <1>3, <1>4

\* The request is answered; chunks that are not passed on.
LEMMA ChunkInv ==
  IInv /\ (Accepted \/ ToolCallChunk \/ ThoughtChunk \/ \E u \in Usages : FinalChunk(u)) => IInv'
  <1> SUFFICES ASSUME IInv,
                      Accepted \/ ToolCallChunk \/ ThoughtChunk \/ \E u \in Usages : FinalChunk(u)
               PROVE  IInv'
    OBVIOUS
  <1> USE DEF Chunk
  <1>1. TypeOK /\ pc # "done" /\ chan' = chan /\ heard' = heard
    BY DEF IInv, Accepted, ToolCallChunk, ThoughtChunk, FinalChunk
  <1>2. OutcomeLast' /\ HeardLast'
    BY <1>1, QuietInv
  <1>3. InRange /\ pc # "loop" /\ pc' # "loop" /\ iteration' = iteration
    BY DEF IInv, Accepted, ToolCallChunk, ThoughtChunk, FinalChunk
  <1>4. InRange'
    BY <1>1, <1>3 DEF InRange
  <1>5. CASE Accepted
    <2>1. NoResponse \in Locals
      BY LoopAssumption DEF NoResponse, Locals
    <2>2. TypeOK'
      BY <1>1, <1>5, <2>1 DEF Accepted, TypeOK, ghosts
    <2>3. QED BY <1>2, <1>4, <2>2 DEF IInv
  <1>6. CASE ToolCallChunk
    <2>1. resp' \in Locals
      <3> DEFINE one == [resp EXCEPT !.calls = @ + 1]
      <3>1. resp \in Locals /\ resp.calls < MaxCalls
        BY <1>1, <1>6 DEF ToolCallChunk, TypeOK
      <3>2. resp.calls + 1 \in 0..MaxCalls
        BY <3>1, LoopAssumption DEF Locals
      <3>3. one \in Locals
        BY <3>1, <3>2 DEF Locals
      <3>4. resp' = [one EXCEPT !.chunks = @ + 1] /\ one.chunks < MaxChunks
        BY <1>1, <1>6 DEF ToolCallChunk, TypeOK, Locals
      <3> HIDE DEF one
      <3>5. QED BY <3>3, <3>4, LoopAssumption DEF Locals
    <2>2. TypeOK'
      BY <1>1, <1>6, <2>1 DEF ToolCallChunk, TypeOK
    <2>3. QED BY <1>2, <1>4, <2>2 DEF IInv
  <1>7. CASE ThoughtChunk
    <2>1. resp' \in Locals
      <3> DEFINE one == [resp EXCEPT !.thought = TRUE]
      <3>1. one \in Locals
        BY <1>1 DEF TypeOK, Locals
      <3>2. resp' = [one EXCEPT !.chunks = @ + 1] /\ one.chunks < MaxChunks
        BY <1>1, <1>7 DEF ThoughtChunk, TypeOK, Locals
      <3> HIDE DEF one
      <3>3. QED BY <3>1, <3>2, LoopAssumption DEF Locals
    <2>2. TypeOK'
      BY <1>1, <1>7, <2>1 DEF ThoughtChunk, TypeOK
    <2>3. QED BY <1>2, <1>4, <2>2 DEF IInv
  <1>8. CASE \E u \in Usages : FinalChunk(u)
    <2> PICK u \in Usages : FinalChunk(u)
      BY <1>8
    <2>1. u \in Nat
      BY LoopAssumption
    <2>2. /\ resp' \in Locals
          /\ bill' \in [Iterations -> Nat]
      BY <1>1, <2>1 DEF FinalChunk, TypeOK, Locals
    <2>3. lastId' \in 0..MaxIterations
      BY <1>1, <1>3, LoopAssumption DEF FinalChunk, TypeOK, ResponseId, InRange, Iterations
    <2>4. TypeOK'
      BY <1>1, <2>2, <2>3 DEF FinalChunk, TypeOK
    <2>5. QED BY <1>2, <1>4, <2>4 DEF IInv
  <1>9. QED BY <1>5, <1>6, <1>7, <1>8

\* An entry of tracked_iterations is well-typed.
LEMMA TrackInv ==
  ASSUME IInv, NEW C \in SUBSET Calls, Track(C), iteration \in Iterations
  PROVE  tracked' \in Traces
  <1>1. /\ tracked \in Traces
        /\ [iteration |-> iteration, id |-> lastId, usage |-> resp.usage, calls |-> C]
             \in [iteration : Iterations, id : 0..MaxIterations, usage : Nat,
                  calls : SUBSET Calls]
    BY DEF IInv, TypeOK, Locals
  <1>2. QED BY <1>1 DEF Track, Traces

\* Messages that name an iteration and one of its calls are messages.
LEMMA MessageTypes ==
  ASSUME NEW i \in Iterations, NEW C \in SUBSET Calls
  PROVE  /\ CallsOf(i, C) \subseteq Messages
         /\ {Message("output", i, c) : c \in C} \subseteq Messages
  BY DEF CallsOf, Messages

\* The end of a stream and the end of the tools.
LEMMA EndInv == IInv /\ (EndOfStream \/ Collect) => IInv'
  <1> SUFFICES ASSUME IInv, EndOfStream \/ Collect PROVE IInv'
    OBVIOUS
  <1>1. TypeOK /\ pc \in {"stream", "tools"} /\ chan' = chan /\ heard' = heard
    BY DEF IInv, EndOfStream, Collect
  <1>2. OutcomeLast' /\ HeardLast'
    BY <1>1, QuietInv
  <1>3. iteration \in Iterations /\ iteration' = iteration
    BY <1>1 DEF IInv, InRange, EndOfStream, Collect
  <1>4. InRange'
    BY <1>3 DEF InRange
  <1>5. CASE EndOfStream
    <2>1. 1..resp.calls \subseteq Calls
      BY <1>1, LoopAssumption DEF TypeOK, Locals, Calls
    <2>2. known' \in [0..MaxIterations -> SUBSET Messages]
      <3>1. CallsOf(iteration, 1..resp.calls) \subseteq Messages
        BY <1>3, <2>1, MessageTypes
      <3>2. asked \subseteq Messages /\ known \in [0..MaxIterations -> SUBSET Messages]
        BY <1>1 DEF TypeOK
      <3>3. QED BY <1>5, <3>1, <3>2 DEF EndOfStream
    <2>3. total' \in Nat
      BY <1>1, <1>5 DEF EndOfStream, TypeOK, Locals
    <2>4. tracked' \in Traces /\ pc' \in {"final", "notify"}
      <3>1. CASE resp.calls = 0
        BY <1>3, <1>5, <3>1, TrackInv DEF EndOfStream
      <3>2. CASE resp.calls # 0
        BY <1>1, <1>5, <3>2 DEF EndOfStream, TypeOK
      <3>3. QED BY <3>1, <3>2
    <2>5. TypeOK'
      BY <1>1, <1>5, <2>2, <2>3, <2>4 DEF EndOfStream, TypeOK
    <2>6. QED BY <1>2, <1>4, <2>5 DEF IInv
  <1>6. CASE Collect
    <2> DEFINE ok   == {c \in DOMAIN results : results[c] = "ok"}
               msgs == (IF resp.thought THEN {Thought} ELSE {}) \cup
                       CallsOf(iteration, ok) \cup {Message("output", iteration, c) : c \in ok}
    <2>1. ok \in SUBSET Calls
      BY <1>1, LoopAssumption DEF TypeOK, Calls
    <2>2. msgs \subseteq Messages
      BY <1>3, <2>1, MessageTypes DEF Messages
    <2>3. tracked' \in Traces
      BY <1>3, <1>6, <2>1, TrackInv DEF Collect
    <2>4. /\ pc' \in {"relay", "loop"}
          /\ iterations' = iterations \/ iterations' = [iterations EXCEPT ![iteration] = msgs]
      BY <1>6 DEF Collect
    <2> HIDE DEF msgs, ok
    <2>5. iterations' \in [Iterations -> SUBSET Messages]
      BY <1>1, <2>2, <2>4 DEF TypeOK
    <2>6. TypeOK'
      BY <1>1, <1>6, <2>3, <2>4, <2>5 DEF Collect, TypeOK, ghosts
    <2>7. QED BY <1>2, <1>4, <2>6 DEF IInv
  <1>7. QED BY <1>5, <1>6

\* A tool's result, in any order.
LEMMA ToolStepInv == IInv /\ ToolStep => IInv'
  <1> SUFFICES ASSUME IInv, NEW c \in Calls, NEW result \in {"ok", "failed"},
                      ToolReturns(c, result)
               PROVE  IInv'
    BY DEF ToolStep
  <1>1. TypeOK /\ pc = "tools" /\ chan' = chan /\ heard' = heard /\ pc' = pc
        /\ iteration' = iteration
    BY DEF IInv, ToolReturns
  <1>2. OutcomeLast' /\ HeardLast' /\ InRange'
    BY <1>1, QuietInv DEF InRange, IInv
  <1>3. \E n \in 0..MaxCalls : results' \in [1..n -> {"pending", "ok", "failed"}]
    BY <1>1 DEF TypeOK, ToolReturns
  <1>4. TypeOK'
    BY <1>1, <1>3 DEF TypeOK, ToolReturns, ghosts
  <1>5. QED BY <1>2, <1>4 DEF IInv

-----------------------------------------------------------------------------
(* The sends.                                                              *)

\* Content: a chunk of the model's, the notice before the tools, the relayed
\* output.
LEMMA ContentInv == IInv /\ (ContentChunk \/ StartTools \/ RelayOutput) => IInv'
  <1> SUFFICES ASSUME IInv, ContentChunk \/ StartTools \/ RelayOutput PROVE IInv'
    OBVIOUS
  <1> USE DEF Chunk
  <1>1. /\ TypeOK /\ pc \in {"stream", "notify", "relay"} /\ heard' = heard
        /\ Send(Content) /\ iteration' = iteration
    BY DEF IInv, ContentChunk, StartTools, RelayOutput
  <1>2. Content \in Item /\ ~IsOutcome(Content)
    BY DEF Item, IsOutcome, Content
  <1>3. /\ chan' \in Seq(Item) /\ Len(chan') <= Cap
        /\ OutcomeLast' /\ HeardLast'
    BY <1>1, <1>2, SendInv
  <1>4. InRange'
    BY <1>1 DEF IInv, InRange
  <1>5. CASE ContentChunk
    <2>1. resp' \in Locals
      <3>1. resp \in Locals /\ resp.chunks < MaxChunks
        BY <1>1, <1>5 DEF ContentChunk, TypeOK
      <3>2. resp.chunks + 1 \in 0..MaxChunks
        BY <3>1, LoopAssumption DEF Locals
      <3>3. resp' = [resp EXCEPT !.chunks = resp.chunks + 1]
        BY <1>5 DEF ContentChunk
      <3>4. QED BY <3>1, <3>2, <3>3 DEF Locals
    <2>2. TypeOK'
      BY <1>1, <1>3, <1>5, <2>1 DEF ContentChunk, TypeOK
    <2>3. QED BY <1>3, <1>4, <2>2 DEF IInv
  <1>6. CASE StartTools
    <2>1. resp.calls \in 0..MaxCalls
      BY <1>1 DEF TypeOK, Locals
    <2>2. \E n \in 0..MaxCalls : results' \in [1..n -> {"pending", "ok", "failed"}]
      BY <1>6, <2>1 DEF StartTools
    <2>3. TypeOK'
      BY <1>1, <1>3, <1>6, <2>2 DEF StartTools, TypeOK, ghosts
    <2>4. QED BY <1>3, <1>4, <2>3 DEF IInv
  <1>7. CASE RelayOutput
    <2>1. TypeOK'
      BY <1>1, <1>3, <1>7 DEF RelayOutput, TypeOK, ghosts
    <2>2. QED BY <1>3, <1>4, <2>1 DEF IInv
  <1>8. QED BY <1>5, <1>6, <1>7

\* Outcomes: each ends the task.
LEMMA OutcomeInv == IInv /\ (Refused \/ ErrorChunk \/ SendFinal) => IInv'
  <1> SUFFICES ASSUME IInv, Refused \/ ErrorChunk \/ SendFinal PROVE IInv'
    OBVIOUS
  <1> DEFINE final == Final([iterations |-> tracked, usage |-> total, id |-> lastId])
  <1>1. /\ TypeOK /\ pc \in {"call", "stream", "final"} /\ heard' = heard /\ pc' = "done"
        /\ Send(Failure) \/ Send(final)
    BY DEF IInv, Refused, ErrorChunk, SendFinal
  <1>2. Failure \in Item /\ final \in Item
    BY <1>1 DEF TypeOK, Item, Final
  <1> HIDE DEF final
  <1>3. /\ chan' \in Seq(Item) /\ Len(chan') <= Cap
        /\ OutcomeLast' /\ HeardLast'
    BY <1>1, <1>2, SendInv
  <1>4. InRange'
    BY <1>1 DEF InRange
  <1>5. total' \in Nat
    BY <1>1 DEF TypeOK, Locals, Refused, ErrorChunk, SendFinal
  <1>6. TypeOK'
    BY <1>1, <1>3, <1>5 DEF TypeOK, Refused, ErrorChunk, SendFinal, ghosts
  <1>7. QED BY <1>3, <1>4, <1>6 DEF IInv

-----------------------------------------------------------------------------
(* The consumers.                                                          *)

\* Taking the next item off the channel.
LEMMA ReceiveInv == IInv /\ Receive => IInv'
  <1> SUFFICES ASSUME IInv, Receive PROVE IInv'
    OBVIOUS
  <1> DEFINE item == Head(chan)
             stop == \/ item.kind = "error"
                     \/ (item.kind = "final" /\ agent.consumer = "complete")
  <1>1. /\ TypeOK /\ chan # <<>> /\ heard = <<>>
        /\ UNCHANGED <<agent, task, ghosts>>
    BY DEF IInv, HeardLast, Receive
  <1>2. /\ chan \in Seq(Item) /\ Len(chan) \in Nat \ {0} /\ item = chan[1] /\ item \in Item
        /\ Tail(chan) \in Seq(Item) /\ Len(Tail(chan)) = Len(chan) - 1
        /\ \A k \in DOMAIN Tail(chan) : k + 1 \in DOMAIN chan /\ Tail(chan)[k] = chan[k + 1]
    BY <1>1 DEF TypeOK
  <1>3. /\ heard' = IF IsOutcome(item) THEN <<item>> ELSE <<>>
        /\ chan' = IF stop THEN <<>> ELSE Tail(chan)
        /\ consumer' = IF stop THEN "left" ELSE "reading"
    BY <1>1, <1>2 DEF Receive
  <1>4. stop => IsOutcome(item)
    BY <1>2 DEF IsOutcome
  <1> HIDE DEF item, stop
  <1>5. CASE IsOutcome(item)
    <2>1. Len(chan) = 1 /\ pc = "done"
      BY <1>2, <1>5 DEF IInv, OutcomeLast
    <2>2. chan' = <<>> /\ heard' = <<item>> /\ pc' = "done"
      <3>1. Tail(chan) = <<>>
        BY <1>2, <2>1
      <3>2. QED BY <1>1, <1>3, <1>5, <2>1, <3>1 DEF task
    <2>3. OutcomeLast' /\ HeardLast' /\ InRange'
      BY <2>2 DEF OutcomeLast, HeardLast, InRange
    <2>4. TypeOK'
      <3>1. chan' \in Seq(Item) /\ Len(chan') <= Cap /\ heard' \in Seq(Item)
        BY <1>2, <2>2, LoopAssumption
      <3>2. consumer' \in {"reading", "left", "ended", "dropped"}
        BY <1>3
      <3>3. TypeOK /\ UNCHANGED <<agent, task, ghosts>>
        BY <1>1, <1>2 DEF IInv, task, ghosts
      <3>4. QED BY <3>1, <3>2, <3>3 DEF TypeOK, task, ghosts
    <2>5. QED BY <2>3, <2>4 DEF IInv
  <1>6. CASE ~IsOutcome(item)
    <2>1. chan' = Tail(chan) /\ heard' = heard /\ consumer' = "reading" /\ pc' = pc
      BY <1>1, <1>3, <1>4, <1>6 DEF task
    <2>2. OutcomeLast'
      BY <1>1, <1>2, <2>1 DEF IInv, OutcomeLast
    <2>3. HeardLast' /\ InRange'
      BY <1>1, <2>1 DEF IInv, HeardLast, InRange, task
    <2>4. chan' \in Seq(Item) /\ Len(chan') <= Cap
      BY <1>1, <1>2, <2>1, LoopAssumption DEF TypeOK
    <2>5. TypeOK'
      BY <1>1, <2>1, <2>4 DEF TypeOK, task, ghosts
    <2>6. QED BY <2>2, <2>3, <2>5 DEF IInv
  <1>7. QED BY <1>5, <1>6

\* The end of the stream, and a consumer that gives up.
LEMMA LeaveInv == IInv /\ (StreamEnds \/ Dropped) => IInv'
  <1> SUFFICES ASSUME IInv, StreamEnds \/ Dropped PROVE IInv'
    OBVIOUS
  <1>1. /\ TypeOK /\ heard' = heard /\ chan' = <<>>
        /\ UNCHANGED <<agent, task, ghosts>>
        /\ consumer' \in {"ended", "dropped"}
    BY DEF IInv, StreamEnds, Dropped
  <1>2. OutcomeLast' /\ HeardLast' /\ InRange'
    BY <1>1 DEF IInv, OutcomeLast, HeardLast, InRange, task
  <1>3. chan' \in Seq(Item) /\ Len(chan') <= Cap
    BY <1>1, LoopAssumption
  <1>4. TypeOK'
    BY <1>1, <1>3 DEF TypeOK, task, ghosts
  <1>5. QED BY <1>2, <1>4 DEF IInv

\* Every step of the specification.
LEMMA NextInv == IInv /\ [Next]_vars => IInv'
  <1> SUFFICES ASSUME IInv, [Next]_vars PROVE IInv'
    OBVIOUS
  <1>1. CASE AgentStep
    BY <1>1, LoopTopInv, EndInv, ContentInv, OutcomeInv DEF AgentStep
  <1>2. CASE ProviderStep
    BY <1>2, ChunkInv, ContentInv, OutcomeInv DEF ProviderStep
  <1>3. CASE ToolStep
    BY <1>3, ToolStepInv
  <1>4. CASE Receive \/ StreamEnds \/ Dropped
    BY <1>4, ReceiveInv, LeaveInv
  <1>5. CASE Terminated \/ UNCHANGED vars
    BY <1>5 DEF Terminated, vars, task, ghosts, IInv, TypeOK, OutcomeLast, HeardLast, InRange
  <1>6. QED BY <1>1, <1>2, <1>3, <1>4, <1>5 DEF Next

-----------------------------------------------------------------------------

\* The invariant holds throughout, with or without fairness.
THEOREM Invariance == Spec => []IInv
  <1>1. QED BY InitInv, NextInv, PTL DEF Spec

\* Every variable keeps its type.
THEOREM TypeCorrect == Spec => []TypeOK
  <1>1. IInv => TypeOK
    BY DEF IInv
  <1>2. QED BY <1>1, Invariance, PTL

\* The consumer is given at most one outcome, behind everything else in the
\* stream, by a task that is gone.
THEOREM SingleOutcome == Spec => []OneOutcome
  <1>1. IInv => OneOutcome
    <2> SUFFICES ASSUME IInv PROVE OneOutcome
      OBVIOUS
    <2>1. chan \in Seq(Item) /\ heard \in Seq(Item)
      BY DEF IInv, TypeOK
    <2>2. CASE heard = <<>>
      <3>1. Delivered = chan
        BY <2>1, <2>2 DEF Delivered
      <3>2. QED BY <3>1 DEF IInv, OutcomeLast, OneOutcome
    <2>3. CASE heard # <<>>
      <3>1. chan = <<>> /\ Len(heard) = 1 /\ pc = "done"
        BY <2>3 DEF IInv, HeardLast
      <3>2. Delivered = heard
        BY <2>1, <3>1 DEF Delivered
      <3>3. QED BY <2>1, <3>1, <3>2 DEF OneOutcome
    <2>4. QED BY <2>2, <2>3
  <1>2. QED BY <1>1, Invariance, PTL

-----------------------------------------------------------------------------
(* The loop is a response stream to its consumer. *)

\* What the consumer has heard of: nothing, or one outcome.
OutcomesOf(s) == [k \in DOMAIN s |-> s[k].kind]

LEMMA NoOutcomes == OutcomesOf(<<>>) = <<>>
  BY DEF OutcomesOf

LEMMA OneOutcomeOf == ASSUME NEW x PROVE OutcomesOf(<<x>>) = <<x.kind>>
  BY DEF OutcomesOf

LEMMA StreamInit == Init => Stream!Init
  BY NoOutcomes DEF Init, Stream!Init, OutcomesOf

\* An outcome is the reader's answer; everything else passes unnoticed.
LEMMA ReceiveAnswers == IInv /\ Receive => [Stream!Next]_(Stream!streamVars)
  <1> SUFFICES ASSUME IInv, Receive PROVE [Stream!Next]_(Stream!streamVars)
    OBVIOUS
  <1> DEFINE item == Head(chan)
  <1>1. chan \in Seq(Item) /\ chan # <<>> /\ heard = <<>> /\ consumer = "reading"
    BY DEF IInv, TypeOK, HeardLast, Receive
  <1>2. item \in Item
    BY <1>1
  <1>3. item.kind \in {"content", "error", "final"}
    BY <1>2 DEF Item, Content, Failure
  <1>4. OutcomesOf(heard) = <<>>
    BY <1>1, NoOutcomes
  <1>5. CASE item.kind = "content"
    <2>1. heard' = heard /\ consumer' = consumer
      BY <1>1, <1>5 DEF Receive, IsOutcome
    <2>2. QED BY <2>1 DEF Stream!streamVars
  <1>6. CASE item.kind \in {"error", "final"}
    <2>1. heard' = <<item>>
      BY <1>1, <1>6 DEF Receive, IsOutcome
    <2>2. OutcomesOf(heard') = <<item.kind>>
      BY <2>1, OneOutcomeOf
    <2>3. (consumer' # "reading") \in BOOLEAN
      OBVIOUS
    <2>4. CASE item.kind = "error"
      <3>1. Stream!Answer("error")
        BY <1>1, <1>4, <2>2, <2>3, <2>4 DEF Stream!Answer, OutcomesOf
      <3>2. QED BY <3>1 DEF Stream!Next
    <2>5. CASE item.kind = "final"
      <3>1. Stream!Answer("final")
        BY <1>1, <1>4, <2>2, <2>3, <2>5 DEF Stream!Answer, OutcomesOf
      <3>2. QED BY <3>1 DEF Stream!Next
    <2>6. QED BY <1>6, <2>4, <2>5
  <1>7. QED BY <1>3, <1>5, <1>6

\* Every step of the loop is one of the stream, or none.
LEMMA StreamNext == IInv /\ [Next]_vars => [Stream!Next]_(Stream!streamVars)
  <1> SUFFICES ASSUME IInv, [Next]_vars PROVE [Stream!Next]_(Stream!streamVars)
    OBVIOUS
  <1>1. CASE Receive
    BY <1>1, ReceiveAnswers
  <1>2. CASE StreamEnds \/ Dropped
    <2>1. consumer = "reading" /\ consumer' # "reading" /\ heard' = heard
      BY <1>2 DEF StreamEnds, Dropped
    <2>2. Stream!End
      BY <2>1 DEF Stream!End
    <2>3. QED BY <2>2 DEF Stream!Next
  <1>3. CASE AgentStep \/ ProviderStep \/ ToolStep \/ Terminated \/ UNCHANGED vars
    <2>1. UNCHANGED <<consumer, heard>>
      BY <1>3 DEF AgentStep, GiveUp, CallModel, EndOfStream, StartTools, Collect, RelayOutput,
                  SendFinal, ProviderStep, Refused, Accepted, ErrorChunk, ToolCallChunk,
                  ContentChunk, ThoughtChunk, FinalChunk, Chunk, ToolStep, ToolReturns, Terminated,
                  vars
    <2>2. QED BY <2>1 DEF Stream!streamVars
  <1>4. QED BY <1>1, <1>2, <1>3 DEF Next

\* The agent's loop keeps the contract of a streaming call, whatever the provider,
\* the tools and the consumer do.
THEOREM Implementation == Spec => ImplementsStream
  <1>1. QED BY Invariance, StreamInit, StreamNext, PTL DEF Spec, ImplementsStream, Stream!Spec

-----------------------------------------------------------------------------
(* Sums, by induction over the sets that are added up. *)

\* A set of naturals has a least element.
LEMMA Least ==
  ASSUME NEW T \in SUBSET Nat, T # {}
  PROVE  \E n \in T : \A m \in T : n <= m
  <1> DEFINE R == {p \in Nat \X Nat : p[1] < p[2]}
  <1>1. IsWellFoundedOn(R, Nat)
    BY NatLessThanWellFounded DEF OpToRel
  <1>2. PICK n \in T : \A m \in T : <<m, n>> \notin R
    <2> HIDE DEF R
    <2>1. QED BY <1>1, WFMin
  <1>3. ASSUME NEW m \in T PROVE n <= m
    <2>1. <<m, n>> \in Nat \X Nat /\ <<m, n>>[1] = m /\ <<m, n>>[2] = n
      OBVIOUS
    <2>2. ~(m < n)
      BY <1>2, <2>1
    <2>3. QED BY <2>2
  <1>4. QED BY <1>3

\* A set that has 0 and the successor of each of its elements has all naturals.
LEMMA Inductive ==
  ASSUME NEW S \in SUBSET Nat, 0 \in S, \A n \in S : n + 1 \in S
  PROVE  S = Nat
  <1> SUFFICES ASSUME S # Nat PROVE FALSE
    OBVIOUS
  <1>1. PICK n \in Nat \ S : \A m \in Nat \ S : n <= m
    BY Least
  <1>2. n - 1 \in Nat /\ n - 1 \in S /\ n = (n - 1) + 1
    BY <1>1
  <1>3. QED BY <1>1, <1>2

\* What holds of a set when it holds of the set without any one of its elements, holds of all
\* subsets of a finite set.
LEMMA BySize ==
  ASSUME NEW S, IsFiniteSet(S), NEW Good,
         \A s \in SUBSET S : (\A x \in s : s \ {x} \in Good) => s \in Good
  PROVE  SUBSET S \subseteq Good
  <1> DEFINE Sized == {n \in Nat : \A s \in SUBSET S : Cardinality(s) = n => s \in Good}
  <1>1. \A s \in SUBSET S : IsFiniteSet(s) /\ Cardinality(s) \in Nat
    BY FS_Subset, FS_CardinalityType
  <1>2. 0 \in Sized
    BY <1>1, FS_EmptySet
  <1>3. ASSUME NEW n \in Sized PROVE n + 1 \in Sized
    <2>1. ASSUME NEW s \in SUBSET S, Cardinality(s) = n + 1 PROVE s \in Good
      <3>1. ASSUME NEW x \in s PROVE s \ {x} \in Good
        <4>1. Cardinality(s \ {x}) = n /\ s \ {x} \in SUBSET S
          BY <1>1, <2>1, FS_RemoveElement
        <4>2. QED BY <1>3, <4>1
      <3>2. QED BY <3>1
    <2>2. QED BY <2>1
  <1>4. Sized = Nat
    <2> HIDE DEF Sized
    <2>1. Sized \in SUBSET Nat
      BY DEF Sized
    <2>2. QED BY <1>2, <1>3, <2>1, Inductive
  <1>5. QED BY <1>1, <1>4

\* The fold takes the elements of a set one by one, in an order that is not known.
Pick(s) == CHOOSE x \in s : TRUE

\* The recursion of the fold at one set.
Adds(f, g, s) == g[s] = IF s = {} THEN 0 ELSE f[Pick(s)] + g[s \ {Pick(s)}]

\* The recursion on all the subsets of a set, and its solution.
Rec(f, S, g) == g = [s \in SUBSET S |-> IF s = {} THEN 0 ELSE f[Pick(s)] + g[s \ {Pick(s)}]]
Iter(f, S) == CHOOSE g : Rec(f, S, g)

\* What FoldFunction adds up.
Sum(f) == FoldFunction(+, 0, f)

\* The community module defines it as this recursion.
LEMMA SumFolds == ASSUME NEW f PROVE Sum(f) = Iter(f, DOMAIN f)[DOMAIN f]
  BY DEF Sum, FoldFunction, FoldFunctionOnSet, MapThenFoldSet, Iter, Rec, Pick

\* It has a solution.
LEMMA AdditionDefined ==
  ASSUME NEW S, IsFiniteSet(S), NEW f
  PROVE  \E g : \A s \in SUBSET S : Adds(f, g, s)
  <1> DEFINE Small(n) == {s \in SUBSET S : Cardinality(s) <= n}
             Solvable == {n \in Nat : \E g : \A s \in Small(n) : Adds(f, g, s)}
  <1>1. \A s \in SUBSET S : IsFiniteSet(s) /\ Cardinality(s) \in Nat
                            /\ Cardinality(s) <= Cardinality(S)
    BY FS_Subset, FS_CardinalityType
  <1>2. 0 \in Solvable
    <2> DEFINE g == [s \in SUBSET S |-> 0]
    <2>1. \A s \in Small(0) : s = {}
      BY <1>1, FS_EmptySet
    <2>2. g[{}] = 0
      OBVIOUS
    <2>3. \A s \in Small(0) : Adds(f, g, s)
      BY <2>1, <2>2 DEF Adds
    <2>4. QED BY <2>3
  <1>3. ASSUME NEW n \in Solvable PROVE n + 1 \in Solvable
    <2>1. PICK g : \A s \in Small(n) : Adds(f, g, s)
      OBVIOUS
    <2> DEFINE h == [s \in SUBSET S |-> IF Cardinality(s) <= n THEN g[s]
                                        ELSE f[Pick(s)] + g[s \ {Pick(s)}]]
    <2>2. ASSUME NEW s \in Small(n + 1) PROVE Adds(f, h, s)
      <3>1. CASE s = {}
        <4>1. Cardinality({}) <= n /\ {} \in SUBSET S
          BY FS_EmptySet
        <4>2. h[{}] = g[{}] /\ Adds(f, g, {})
          BY <2>1, <4>1
        <4>3. QED BY <3>1, <4>2 DEF Adds
      <3>2. CASE s # {}
        <4>1. Pick(s) \in s
          BY <3>2 DEF Pick
        <4>2. Cardinality(s \ {Pick(s)}) <= n /\ s \ {Pick(s)} \in SUBSET S
          BY <1>1, <4>1, FS_RemoveElement
        <4>3. h[s \ {Pick(s)}] = g[s \ {Pick(s)}]
          BY <4>2
        <4>4. h[s] = f[Pick(s)] + g[s \ {Pick(s)}]
          <5>1. CASE Cardinality(s) <= n
            <6>1. Adds(f, g, s) /\ h[s] = g[s]
              BY <2>1, <5>1
            <6>2. QED BY <3>2, <6>1 DEF Adds
          <5>2. CASE ~(Cardinality(s) <= n)
            BY <5>2
          <5>3. QED BY <5>1, <5>2
        <4>5. QED BY <3>2, <4>3, <4>4 DEF Adds
      <3>3. QED BY <3>1, <3>2
    <2>3. QED
      <3> HIDE DEF h
      <3>1. QED BY <2>2
  <1>4. Solvable = Nat
    <2> HIDE DEF Solvable
    <2>1. Solvable \in SUBSET Nat
      BY DEF Solvable
    <2>2. QED BY <1>2, <1>3, <2>1, Inductive
  <1>5. Cardinality(S) \in Nat /\ SUBSET S = Small(Cardinality(S))
    BY <1>1
  <1>6. QED BY <1>4, <1>5

\* So the sum of a function is the value of such a solution on the whole domain.
LEMMA SumAdds ==
  ASSUME NEW S, IsFiniteSet(S), NEW f, DOMAIN f = S
  PROVE  \E g : Sum(f) = g[S] /\ \A s \in SUBSET S : Adds(f, g, s)
  <1> DEFINE g == Iter(f, S)
  <1>1. PICK e : \A s \in SUBSET S : Adds(f, e, s)
    BY AdditionDefined
  <1> DEFINE h == [s \in SUBSET S |-> e[s]]
  <1>2. Rec(f, S, h)
    <2>1. ASSUME NEW s \in SUBSET S
          PROVE  h[s] = IF s = {} THEN 0 ELSE f[Pick(s)] + h[s \ {Pick(s)}]
      BY <1>1 DEF Adds
    <2>2. h = [s \in SUBSET S |-> h[s]]
      OBVIOUS
    <2> HIDE DEF h
    <2>3. QED BY <2>1, <2>2 DEF Rec
  <1>3. Rec(f, S, g)
    <2> HIDE DEF h
    <2>1. QED BY <1>2 DEF Iter
  <1>4. \A s \in SUBSET S : Adds(f, g, s)
    <2> HIDE DEF g
    <2>1. QED BY <1>3 DEF Rec, Adds
  <1>5. Sum(f) = g[S]
    BY SumFolds
  <1>6. QED BY <1>4, <1>5

\* The sum of zeros is zero.
LEMMA SumOfZeros ==
  ASSUME NEW S, IsFiniteSet(S)
  PROVE  Sum([i \in S |-> 0]) = 0
  <1> DEFINE f == [i \in S |-> 0]
  <1>1. PICK g : Sum(f) = g[S] /\ \A s \in SUBSET S : Adds(f, g, s)
    BY SumAdds
  <1> DEFINE Good == {s \in SUBSET S : g[s] = 0}
  <1>2. ASSUME NEW s \in SUBSET S, \A x \in s : s \ {x} \in Good PROVE s \in Good
    <2>1. CASE s = {}
      BY <1>1, <1>2, <2>1 DEF Adds
    <2>2. CASE s # {}
      <3>1. Pick(s) \in s
        BY <2>2 DEF Pick
      <3>2. f[Pick(s)] = 0 /\ g[s \ {Pick(s)}] = 0
        BY <1>2, <3>1
      <3>3. QED BY <1>1, <1>2, <2>2, <3>2 DEF Adds
    <2>3. QED BY <2>1, <2>2
  <1>3. SUBSET S \subseteq Good
    <2> HIDE DEF Good
    <2>1. QED BY <1>2, BySize
  <1>4. QED BY <1>1, <1>3

\* One value more or less is so much more or less in the sum.
LEMMA SumUpdate ==
  ASSUME NEW S, IsFiniteSet(S), NEW f \in [S -> Nat], NEW i \in S, NEW u \in Nat
  PROVE  /\ Sum(f) \in Nat
         /\ Sum([f EXCEPT ![i] = u]) = Sum(f) - f[i] + u
  <1> DEFINE h == [f EXCEPT ![i] = u]
  <1>1. PICK g : Sum(f) = g[S] /\ \A s \in SUBSET S : Adds(f, g, s)
    BY SumAdds
  <1>2. DOMAIN h = S /\ h \in [S -> Nat] /\ h[i] = u /\ \A j \in S : j # i => h[j] = f[j]
    OBVIOUS
  <1> HIDE DEF h
  <1>3. PICK e : Sum(h) = e[S] /\ \A s \in SUBSET S : Adds(h, e, s)
    BY <1>2, SumAdds
  <1> DEFINE Good == {s \in SUBSET S : g[s] \in Nat /\ e[s] \in Nat
                                       /\ e[s] = g[s] + (IF i \in s THEN u - f[i] ELSE 0)}
  <1>4. ASSUME NEW s \in SUBSET S, \A x \in s : s \ {x} \in Good PROVE s \in Good
    <2>1. CASE s = {}
      <3>1. Adds(f, g, s) /\ Adds(h, e, s)
        BY <1>1, <1>3, <1>4
      <3>2. g[s] = 0 /\ e[s] = 0 /\ i \notin s
        BY <2>1, <3>1 DEF Adds
      <3>3. QED BY <1>4, <3>2
    <2>2. CASE s # {}
      <3> DEFINE x == Pick(s)
      <3>1. x \in s
        BY <2>2 DEF Pick
      <3>2. g[s] = f[x] + g[s \ {x}] /\ e[s] = h[x] + e[s \ {x}]
        BY <1>1, <1>3, <2>2 DEF Adds
      <3> HIDE DEF x
      <3>3. /\ g[s \ {x}] \in Nat /\ e[s \ {x}] \in Nat
            /\ e[s \ {x}] = g[s \ {x}] + (IF i \in s \ {x} THEN u - f[i] ELSE 0)
        BY <1>4, <3>1
      <3>4. f[x] \in Nat /\ h[x] \in Nat /\ f[i] \in Nat
        BY <1>2, <3>1
      <3>5. CASE x = i
        BY <1>2, <3>1, <3>2, <3>3, <3>4, <3>5
      <3>6. CASE x # i
        BY <1>2, <3>1, <3>2, <3>3, <3>4, <3>6
      <3>7. QED BY <3>5, <3>6
    <2>3. QED BY <2>1, <2>2
  <1>5. S \in Good
    <2> HIDE DEF Good
    <2>1. QED BY <1>4, BySize
  <1>6. Sum(f) \in Nat
        /\ Sum(h) = Sum(f) + (u - f[i])
    BY <1>1, <1>3, <1>5
  <1>7. Sum(h) = Sum(f) - f[i] + u
    <2>1. f[i] \in Nat
      OBVIOUS
    <2>2. QED BY <1>6, <2>1
  <1>8. QED BY <1>6, <1>7 DEF h

-----------------------------------------------------------------------------
(* The accounts of a run. *)

\* What is answered for is what was reported: all of it is in the total, but for what the
\* stream under way has reported, and nothing of requests to come.
Billed ==
  /\ \A i \in Iterations : i > iteration \/ (i = iteration /\ pc = "call") => bill[i] = 0
  /\ Sum(bill) = total + (IF pc = "stream" THEN resp.usage ELSE 0)
  /\ pc \in {"stream", "notify", "tools"} => resp.usage = bill[iteration]

\* The trace has the iterations that are over, each with its own usage.
Traced ==
  /\ pc \in {"call", "stream", "notify", "tools"} => Len(tracked) = iteration - 1
  /\ pc \in {"loop", "relay", "final"} => Len(tracked) = iteration
  /\ \A i \in DOMAIN tracked : /\ tracked[i].iteration = i
                               /\ tracked[i].usage = bill[i]

\* An answer on its way, or heard, is the account of the run as it ended.
Settled(items) ==
  \A k \in DOMAIN items : items[k].kind = "final" =>
     LET r == items[k].response
     IN  /\ r.usage = Sum(bill) /\ Len(r.iterations) = iteration
         /\ \A i \in DOMAIN r.iterations : /\ r.iterations[i].iteration = i
                                           /\ r.iterations[i].usage = bill[i]

Accounts == Billed /\ Traced /\ Settled(chan) /\ Settled(heard)


LEMMA InitAccounts == Init => Accounts
  <1> SUFFICES ASSUME Init PROVE Accounts
    OBVIOUS
  <1>1. IsFiniteSet(Iterations)
    BY LoopAssumption, FS_Interval DEF Iterations
  <1>2. bill = [i \in Iterations |-> 0] /\ Sum(bill) = 0
    BY <1>1, SumOfZeros DEF Init
  <1>3. Billed
    BY <1>2 DEF Init, Billed
  <1>4. Traced
    BY DEF Init, Traced
  <1>5. Settled(chan) /\ Settled(heard)
    BY DEF Init, Settled
  <1>6. QED BY <1>3, <1>4, <1>5 DEF Accounts

\* While the task lives there is no answer yet.
LEMMA NoFinals ==
  ASSUME IInv, pc # "done"
  PROVE  heard = <<>> /\ \A k \in DOMAIN chan : chan[k].kind # "final"
  BY DEF IInv, OutcomeLast, HeardLast, IsOutcome

\* Nor is there one after a step that sends none.
LEMMA SendSettles ==
  ASSUME IInv, pc # "done", heard' = heard, NEW item, item.kind # "final",
         chan' = chan \/ Send(item)
  PROVE  Settled(chan)' /\ Settled(heard)'
  <1>1. heard' = <<>> /\ \A k \in DOMAIN chan : chan[k].kind # "final"
    BY NoFinals
  <1>2. chan \in Seq(Item)
    BY DEF IInv, TypeOK
  <1>3. chan' = chan \/ chan' = Append(chan, item)
    BY DEF Send
  <1>4. \A k \in DOMAIN chan' : chan'[k].kind # "final"
    BY <1>1, <1>2, <1>3
  <1>5. QED BY <1>1, <1>4 DEF Settled

\* The answer that is sent is the account.
LEMMA FinalSettles ==
  ASSUME IInv, Accounts, SendFinal
  PROVE  Settled(chan)' /\ Settled(heard)'
  <1> DEFINE r == [iterations |-> tracked, usage |-> total, id |-> lastId]
  <1>1. /\ pc = "final" /\ heard' = heard /\ bill' = bill /\ iteration' = iteration
        /\ Send(Final(r))
    BY DEF SendFinal, ghosts
  <1>2. heard' = <<>> /\ \A k \in DOMAIN chan : chan[k].kind # "final"
    BY <1>1, NoFinals
  <1>3. chan \in Seq(Item)
    BY DEF IInv, TypeOK
  <1>4. chan' = chan \/ chan' = Append(chan, Final(r))
    BY <1>1 DEF Send
  <1>5. Final(r).response = r /\ r.usage = total /\ r.iterations = tracked
    BY DEF Final
  <1>6. total = Sum(bill)
    BY <1>1 DEF Accounts, Billed, IInv, TypeOK
  <1>7. /\ Len(r.iterations) = iteration
        /\ \A i \in DOMAIN r.iterations : /\ r.iterations[i].iteration = i
                                          /\ r.iterations[i].usage = bill[i]
    BY <1>1, <1>5 DEF Accounts, Traced
  <1> HIDE DEF r
  <1>8. \A k \in DOMAIN chan' : chan'[k].kind = "final" => chan'[k] = Final(r)
    BY <1>2, <1>3, <1>4
  <1>9. Settled(chan)'
    BY <1>1, <1>5, <1>6, <1>7, <1>8 DEF Settled
  <1>10. QED BY <1>2, <1>9 DEF Settled

\* What is reported, and the trace.
LEMMA TaskAccounts ==
  ASSUME IInv, Accounts, AgentStep \/ ProviderStep \/ ToolStep
  PROVE  Billed' /\ Traced'
  <1> USE DEF ghosts
  <1>1. /\ iteration \in Nat /\ total \in Nat /\ resp \in Locals /\ bill \in [Iterations -> Nat]
        /\ tracked \in Traces /\ Len(tracked) \in Nat
    BY LoopAssumption DEF IInv, TypeOK, Traces
  <1>2. pc \notin {"loop", "done"} => iteration \in Iterations
    BY DEF IInv, InRange
  <1>3. Iterations \subseteq Nat /\ IsFiniteSet(Iterations)
    BY LoopAssumption, FS_Interval DEF Iterations
  <1>4. resp.usage \in Nat
    BY <1>1 DEF Locals
  <1>5. CASE GiveUp \/ CallModel
    BY <1>1, <1>3, <1>5 DEF Accounts, Billed, Traced, GiveUp, CallModel
  <1>6. CASE Refused \/ ErrorChunk
    BY <1>1, <1>4, <1>6 DEF Accounts, Billed, Traced, Refused, ErrorChunk
  <1>7. CASE Accepted
    <2>1. resp'.usage = 0 /\ bill[iteration] = 0
      BY <1>2, <1>7 DEF Accepted, NoResponse, Accounts, Billed
    <2>2. QED BY <1>1, <1>2, <1>7, <2>1 DEF Accounts, Billed, Traced, Accepted
  <1>8. CASE ToolCallChunk \/ ContentChunk \/ ThoughtChunk
    <2>1. resp'.usage = resp.usage /\ pc = "stream"
      BY <1>1, <1>8 DEF ToolCallChunk, ContentChunk, ThoughtChunk, Chunk, Locals
    <2>2. UNCHANGED <<bill, iteration, total, tracked, pc>>
      BY <1>8 DEF ToolCallChunk, ContentChunk, ThoughtChunk, Chunk
    <2>3. QED BY <2>1, <2>2 DEF Accounts, Billed, Traced
  <1>9. ASSUME NEW u \in Usages, FinalChunk(u) PROVE Billed' /\ Traced'
    <2>1. u \in Nat /\ pc = "stream"
      BY <1>9, LoopAssumption DEF FinalChunk, Chunk
    <2>2. bill' = [bill EXCEPT ![iteration] = u] /\ resp'.usage = u
      BY <1>1, <1>9 DEF FinalChunk, Locals
    <2>3. UNCHANGED <<iteration, total, tracked, pc>>
      BY <1>9 DEF FinalChunk, Chunk
    <2>4. Sum(bill') = Sum(bill) - bill[iteration] + u
      BY <1>1, <1>2, <1>3, <2>1, <2>2, SumUpdate
    <2>5. Sum(bill) = total + resp.usage /\ resp.usage = bill[iteration]
      BY <2>1 DEF Accounts, Billed
    <2>6. Sum(bill') = total + u
      BY <1>1, <1>4, <2>1, <2>4, <2>5
    <2>7. Billed'
      BY <1>1, <1>2, <1>3, <2>1, <2>2, <2>3, <2>6 DEF Accounts, Billed
    <2>8. Traced'
      <3>1. \A i \in DOMAIN tracked : i # iteration /\ bill'[i] = bill[i]
        BY <1>1, <1>2, <2>1, <2>2 DEF Accounts, Traced, Traces
      <3>2. QED BY <2>3, <3>1 DEF Accounts, Traced
    <2>9. QED BY <2>7, <2>8
  <1>10. ASSUME NEW C, Track(C), pc \in {"stream", "tools"}, pc' \in {"loop", "relay", "final"},
                UNCHANGED <<iteration, bill>>
         PROVE  Traced'
    <2> DEFINE e == [iteration |-> iteration, id |-> lastId, usage |-> resp.usage, calls |-> C]
    <2>1. tracked' = Append(tracked, e) /\ e.iteration = iteration /\ e.usage = bill[iteration]
      BY <1>10 DEF Track, Accounts, Billed
    <2>2. Len(tracked) = iteration - 1
      BY <1>10 DEF Accounts, Traced
    <2> HIDE DEF e
    <2>3. QED BY <1>1, <1>10, <2>1, <2>2 DEF Accounts, Traced, Traces
  <1>11. CASE EndOfStream
    <2>1. Billed'
      BY <1>1, <1>4, <1>11 DEF EndOfStream, Accounts, Billed
    <2>2. Traced'
      <3>1. CASE resp.calls = 0
        BY <1>10, <1>11, <3>1 DEF EndOfStream
      <3>2. CASE resp.calls # 0
        BY <1>11, <3>2 DEF EndOfStream, Accounts, Traced
      <3>3. QED BY <3>1, <3>2
    <2>3. QED BY <2>1, <2>2
  <1>12. CASE Collect
    <2>1. Billed'
      BY <1>12 DEF Collect, Accounts, Billed
    <2>2. /\ pc = "tools" /\ pc' \in {"relay", "loop"} /\ UNCHANGED <<iteration, bill>>
          /\ \E C : Track(C)
      BY <1>12 DEF Collect
    <2>3. QED BY <1>10, <2>1, <2>2
  <1>13. CASE StartTools \/ RelayOutput \/ SendFinal
    BY <1>13 DEF StartTools, RelayOutput, SendFinal, Accounts, Billed, Traced
  <1>14. CASE ToolStep
    BY <1>14 DEF ToolStep, ToolReturns, Accounts, Billed, Traced
  <1>15. QED
    BY <1>5, <1>6, <1>7, <1>8, <1>9, <1>11, <1>12, <1>13, <1>14 DEF AgentStep, ProviderStep

LEMMA NextAccounts == IInv /\ Accounts /\ [Next]_vars => Accounts'
  <1> SUFFICES ASSUME IInv, Accounts, [Next]_vars PROVE Accounts'
    OBVIOUS
  <1>1. CASE AgentStep \/ ProviderStep \/ ToolStep
    <2>1. Settled(chan)' /\ Settled(heard)'
      <3>1. CASE SendFinal
        BY <3>1, FinalSettles
      <3>2. CASE Refused \/ ErrorChunk
        <4>1. pc # "done" /\ heard' = heard /\ Send(Failure) /\ Failure.kind # "final"
          BY <3>2 DEF Refused, ErrorChunk, Failure
        <4>2. QED BY <4>1, SendSettles
      <3>3. CASE ~(SendFinal \/ Refused \/ ErrorChunk)
        <4>1. pc # "done" /\ heard' = heard /\ (chan' = chan \/ Send(Content))
          BY <1>1, <3>3 DEF AgentStep, GiveUp, CallModel, EndOfStream, StartTools, Collect,
             RelayOutput, ProviderStep, Accepted, ToolCallChunk, ContentChunk, ThoughtChunk,
             FinalChunk, Chunk, ToolStep, ToolReturns
        <4>2. Content.kind # "final"
          BY DEF Content
        <4>3. QED BY <4>1, <4>2, SendSettles
      <3>4. QED BY <3>1, <3>2, <3>3
    <2>2. QED BY <1>1, <2>1, TaskAccounts DEF Accounts
  <1>2. CASE Receive
    <2>1. UNCHANGED <<task, ghosts>> /\ chan \in Seq(Item) /\ chan # <<>> /\ heard \in Seq(Item)
      BY <1>2 DEF Receive, IInv, TypeOK
    <2>2. Billed' /\ Traced'
      BY <2>1 DEF task, ghosts, Accounts, Billed, Traced
    <2>3. /\ heard' = heard \/ heard' = Append(heard, Head(chan))
          /\ chan' = <<>> \/ chan' = Tail(chan)
      BY <1>2 DEF Receive
    <2>4. \A k \in DOMAIN heard' :
             (k \in DOMAIN heard /\ heard'[k] = heard[k]) \/ heard'[k] = chan[1]
      BY <2>1, <2>3
    <2>5. \A k \in DOMAIN chan' : k + 1 \in DOMAIN chan /\ chan'[k] = chan[k + 1]
      BY <2>1, <2>3
    <2>6. 1 \in DOMAIN chan /\ bill' = bill /\ iteration' = iteration
      BY <2>1 DEF task, ghosts
    <2>7. Settled(chan)' /\ Settled(heard)'
      BY <2>4, <2>5, <2>6 DEF Accounts, Settled
    <2>8. QED BY <2>2, <2>7 DEF Accounts
  <1>3. CASE StreamEnds \/ Dropped
    <2>1. UNCHANGED <<task, ghosts, heard>> /\ chan' = <<>>
      BY <1>3 DEF StreamEnds, Dropped
    <2>2. QED BY <2>1 DEF task, ghosts, Accounts, Billed, Traced, Settled
  <1>4. CASE Terminated \/ UNCHANGED vars
    <2>1. UNCHANGED vars
      BY <1>4 DEF Terminated
    <2>2. QED BY <2>1 DEF vars, task, ghosts, Accounts, Billed, Traced, Settled
  <1>5. QED BY <1>1, <1>2, <1>3, <1>4 DEF Next

\* The answer of a run is its account, however many iterations, calls, stop chunks and tools
\* it took: total_usage is the sum of what every response reported, and tracked_iterations has
\* each iteration once, in order, with its own usage.
THEOREM RunAccounted == Spec => []FinalAccounts
  <1>1. Spec => []Accounts
    <2>1. QED BY Invariance, InitAccounts, NextAccounts, PTL DEF Spec
  <1>2. IInv /\ Accounts => FinalAccounts
    <2> SUFFICES ASSUME IInv, Accounts, NEW k \in DOMAIN Delivered, Delivered[k].kind = "final"
                 PROVE  LET r == Delivered[k].response
                        IN  /\ r.usage = FoldFunction(+, 0, bill)
                            /\ Len(r.iterations) = iteration
                            /\ \A i \in DOMAIN r.iterations : /\ r.iterations[i].iteration = i
                                                              /\ r.iterations[i].usage = bill[i]
      BY DEF FinalAccounts
    <2>1. chan \in Seq(Item) /\ heard \in Seq(Item)
      BY DEF IInv, TypeOK
    <2>2. \/ k \in DOMAIN heard /\ Delivered[k] = heard[k]
          \/ k - Len(heard) \in DOMAIN chan /\ Delivered[k] = chan[k - Len(heard)]
      BY <2>1 DEF Delivered
    <2>3. LET r == Delivered[k].response
          IN  /\ r.usage = Sum(bill)
              /\ Len(r.iterations) = iteration
              /\ \A i \in DOMAIN r.iterations : /\ r.iterations[i].iteration = i
                                                /\ r.iterations[i].usage = bill[i]
      BY <2>2 DEF Accounts, Settled
    <2>4. QED BY <2>3 DEF Sum
  <1>3. QED BY <1>1, <1>2, Invariance, PTL

-----------------------------------------------------------------------------
(* The history a request carries. *)

\* The loop goes on, or may.
Running == pc \in {"loop", "call", "stream", "notify", "tools"}

\* The response of this iteration is with the provider.
Held == pc \in {"notify", "tools"} \/ (pc = "loop" /\ iteration > 0)

Exchanges(i, C) == CallsOf(i, C) \cup {Message("output", i, c) : c \in C}

\* What the provider holds: nothing without an id, the newest response as it was asked for.
Memory == /\ known[0] = {}
          /\ Held => known[iteration] = asked \cup CallsOf(iteration, 1..resp.calls)
          /\ pc = "tools" => DOMAIN results = 1..resp.calls

\* The messages of an iteration are the calls that returned and what they returned.
Added == Running => \A i \in Iterations :
           IF i \in DOMAIN tracked
           THEN iterations[i] \ {Thought} = Exchanges(i, tracked[i].calls)
           ELSE iterations[i] = {}

\* At the top of the loop the last response is the one to continue.
Chained == pc = "loop" =>
             IF iteration = 0 THEN lastId = 0 /\ tracked = <<>>
             ELSE lastId = tracked[iteration].id /\ tracked[iteration].calls \subseteq 1..resp.calls

\* A request can be answered: its messages are of n iterations and paired, the prompt is
\* reached, and a builder that sends no calls has them all in the provider's memory.
Within(A, n) == \A m \in A : m.kind \in {"call", "output"} => m.iter \in 1..n

Paired(A) == \A m \in A :
                /\ m.kind = "output" => Message("call", m.iter, m.call) \in A
                /\ m.kind = "call" => \/ Message("output", m.iter, m.call) \in A
                                      \/ m.call \notin tracked[m.iter].calls

Answers(A, n) ==
  /\ Within(A, n)
  /\ (agent.provider = "gemini" => agent.store) => Paired(A)
  /\ agent.store \/ agent.provider = "completions" => Prompt \in A
  /\ agent.provider = "gemini" /\ agent.store =>
       \A i \in 1..n : CallsOf(i, tracked[i].calls) \subseteq A

\* The last request could be answered: the next one is built on it.
Answerable == Running /\ iteration > 0 /\ Unbroken => Answers(asked, iteration - 1)

History == Memory /\ Added /\ Chained /\ Answerable

\* The fields of the messages of an iteration.
LEMMA ExchangeFields ==
  ASSUME NEW i, NEW C, NEW m \in Exchanges(i, C)
  PROVE  /\ m.iter = i /\ m.call \in C /\ m.kind \in {"call", "output"}
         /\ m = Message(m.kind, i, m.call)
         /\ Message("call", i, m.call) \in Exchanges(i, C)
         /\ Message("output", i, m.call) \in Exchanges(i, C)
  BY DEF Exchanges, CallsOf, Message

\* What the iterations of the run have added.
Past == UNION {Exchanges(i, tracked[i].calls) : i \in DOMAIN tracked}

LEMMA PastMember ==
  ASSUME NEW m \in Past
  PROVE  /\ m.iter \in DOMAIN tracked /\ m.call \in tracked[m.iter].calls
         /\ m.kind \in {"call", "output"}
         /\ Message("call", m.iter, m.call) \in Past
         /\ Message("output", m.iter, m.call) \in Past
  <1>1. PICK i \in DOMAIN tracked : m \in Exchanges(i, tracked[i].calls)
    BY DEF Past
  <1>2. /\ m.iter = i /\ m.call \in tracked[i].calls /\ m.kind \in {"call", "output"}
        /\ Message("call", i, m.call) \in Exchanges(i, tracked[i].calls)
        /\ Message("output", i, m.call) \in Exchanges(i, tracked[i].calls)
    BY <1>1, ExchangeFields
  <1>3. Exchanges(i, tracked[i].calls) \subseteq Past
    BY DEF Past
  <1>4. QED BY <1>2, <1>3

LEMMA PastHas ==
  ASSUME NEW i \in DOMAIN tracked, NEW c \in tracked[i].calls
  PROVE  Message("call", i, c) \in Past /\ Message("output", i, c) \in Past
  <1>1. /\ Message("call", i, c) \in Exchanges(i, tracked[i].calls)
        /\ Message("output", i, c) \in Exchanges(i, tracked[i].calls)
    BY DEF Exchanges, CallsOf
  <1>2. QED BY <1>1 DEF Past

\* Outside the messages of a thought and the prompt, a message is a call or an output.
LEMMA Kinds == /\ Prompt.kind = "prompt" /\ Thought.kind = "thought"
               /\ \A k, i, c : /\ Message(k, i, c).kind = k /\ Message(k, i, c).iter = i
                               /\ Message(k, i, c).call = c
  BY DEF Prompt, Thought, Message

\* All the messages are those of the past.
LEMMA AllAdded ==
  ASSUME IInv, Accounts, Added, pc = "loop"
  PROVE  Everything \ {Thought} = Past /\ DOMAIN tracked = 1..iteration
         /\ DOMAIN tracked \subseteq Iterations /\ iteration \in Nat
  <1>1. /\ tracked \in Traces /\ Len(tracked) = iteration
        /\ iteration \in Nat /\ \A i \in DOMAIN tracked : tracked[i].iteration = i
    BY LoopAssumption DEF IInv, TypeOK, Accounts, Traced
  <1>2. DOMAIN tracked = 1..iteration
    BY <1>1 DEF Traces
  <1>3. DOMAIN tracked \subseteq Iterations
    <2> DEFINE Entry == [iteration : Iterations, id : 0..MaxIterations, usage : Nat,
                         calls : SUBSET Calls]
    <2>1. tracked \in Seq(Entry)
      BY <1>1 DEF Traces
    <2>2. ASSUME NEW i \in DOMAIN tracked PROVE tracked[i] \in Entry
      <3> HIDE DEF Entry
      <3>1. QED BY <2>1
    <2>3. \A i \in DOMAIN tracked : tracked[i].iteration \in Iterations
      BY <2>2
    <2> HIDE DEF Entry
    <2>4. QED BY <1>1, <2>3
  <1>4. Everything \ {Thought} = UNION {iterations[i] \ {Thought} : i \in Iterations}
    BY DEF Everything
  <1>5. \A i \in Iterations : IF i \in DOMAIN tracked
                              THEN iterations[i] \ {Thought} = Exchanges(i, tracked[i].calls)
                              ELSE iterations[i] = {}
    BY DEF Added, Running
  <1>6. Everything \ {Thought} = Past
    BY <1>2, <1>3, <1>4, <1>5 DEF Past
  <1>7. QED BY <1>1, <1>2, <1>3, <1>6

\* What the provider remembers of the response that is continued.
LEMMA Remembered ==
  ASSUME IInv, Accounts, History, pc = "loop", Unbroken
  PROVE  known[PreviousId] =
           IF agent.store /\ agent.provider \in {"openai", "gemini"} /\ iteration > 0
           THEN asked \cup CallsOf(iteration, 1..resp.calls) ELSE {}
  <1>1. known[0] = {} /\ (iteration = 0 => lastId = 0) /\ iteration \in Nat
        /\ (iteration > 0 => lastId = tracked[iteration].id)
    BY LoopAssumption DEF IInv, TypeOK, History, Memory, Chained
  <1>2. iteration > 0 => iteration \in DOMAIN tracked
    BY <1>1, AllAdded DEF History
  <1>3. CASE agent.store /\ agent.provider \in {"openai", "gemini"} /\ iteration > 0
    <2>1. PreviousId = iteration
      BY <1>1, <1>2, <1>3 DEF PreviousId, Unbroken
    <2>2. QED BY <1>3, <2>1 DEF History, Memory, Held
  <1>4. CASE ~(agent.store /\ agent.provider \in {"openai", "gemini"} /\ iteration > 0)
    <2>1. PreviousId = 0
      BY <1>1, <1>4 DEF PreviousId
    <2>2. QED BY <1>1, <1>4, <2>1
  <1>5. QED BY <1>3, <1>4

\* The providers that are sent the whole history, or the prompt alone.
LEMMA WholeHistory ==
  ASSUME IInv, Accounts, History, pc = "loop", Unbroken,
         \/ agent.provider \in {"completions", "anthropic"}
         \/ agent.provider = "openai" /\ ~agent.store
  PROVE  Answers(Body \cup known[PreviousId], iteration)
  <1>1. known[PreviousId] = {}
    BY Remembered
  <1>2. Everything \ {Thought} = Past /\ DOMAIN tracked = 1..iteration
    BY AllAdded DEF History
  <1>3. Without("thought", Everything) = Past
    <2>1. ASSUME NEW m \in Everything, m.kind # "thought" PROVE m \in Past
      BY <1>2, <2>1, Kinds
    <2>2. ASSUME NEW m \in Past PROVE m \in Everything /\ m.kind # "thought"
      BY <1>2, <2>2, PastMember
    <2>3. QED BY <2>1, <2>2 DEF Without
  <1>4. Without("thought", {Prompt} \cup Everything) = {Prompt} \cup Past
    BY <1>3, Kinds DEF Without
  <1>5. Without("thought", Stateless) \in {{Prompt}, Past} /\ (Past # {} => Everything # {})
    BY <1>2, <1>3, Kinds DEF Without, Stateless
  <1>6. /\ Body \in {{Prompt}, Past, {Prompt} \cup Past}
        /\ agent.store \/ agent.provider = "completions" => Prompt \in Body
    BY <1>4, <1>5 DEF Body, OpenAIBody, CompletionsBody, AnthropicBody
  <1>7. Within(Body, iteration) /\ Paired(Body)
    <2>1. Prompt.kind \notin {"call", "output"}
      BY Kinds
    <2>2. QED BY <1>2, <1>6, <2>1, PastMember DEF Within, Paired
  <1>8. QED BY <1>1, <1>6, <1>7 DEF Answers

\* The Responses API with storage is sent the newest messages and remembers the others.
LEMMA NewestHistory ==
  ASSUME IInv, Accounts, History, pc = "loop", Unbroken, agent.provider = "openai", agent.store
  PROVE  Answers(Body \cup known[PreviousId], iteration)
  <1> DEFINE A == Body \cup known[PreviousId]
  <1>1. Body = Without("thought", {Prompt} \cup Newest)
    BY DEF Body, OpenAIBody
  <1>2. Prompt \in Body
    BY <1>1, Kinds DEF Without
  <1>3. DOMAIN tracked = 1..iteration /\ DOMAIN tracked \subseteq Iterations /\ iteration \in Nat
    BY AllAdded DEF History
  <1>4. \A i \in Iterations : IF i \in DOMAIN tracked
                              THEN iterations[i] \ {Thought} = Exchanges(i, tracked[i].calls)
                              ELSE iterations[i] = {}
    BY DEF History, Added, Running
  <1>5. Answered \subseteq DOMAIN tracked
    BY <1>4 DEF Answered
  <1>6. ASSUME NEW m \in Body, m # Prompt
        PROVE  /\ m.iter \in 1..iteration /\ m.kind \in {"call", "output"}
               /\ Message("call", m.iter, m.call) \in Body
               /\ Message("output", m.iter, m.call) \in Body
    <2>1. m \in Newest /\ m.kind # "thought"
      BY <1>1, <1>6 DEF Without
    <2>2. PICK i \in Answered : m \in iterations[i] /\ \A j \in Answered : j <= i
      BY <2>1 DEF Newest
    <2>3. m \in Exchanges(i, tracked[i].calls) /\ i \in DOMAIN tracked
      BY <1>4, <1>5, <2>1, <2>2, Kinds DEF Answered
    <2>4. /\ m.iter = i /\ m.kind \in {"call", "output"}
          /\ Message("call", i, m.call) \in Exchanges(i, tracked[i].calls)
          /\ Message("output", i, m.call) \in Exchanges(i, tracked[i].calls)
      BY <2>3, ExchangeFields
    <2>5. Exchanges(i, tracked[i].calls) \subseteq Newest
      <3>1. iterations[i] \subseteq Newest
        BY <2>2 DEF Newest
      <3>2. QED BY <1>3, <1>4, <2>3, <3>1
    <2>6. QED BY <1>1, <1>3, <2>3, <2>4, <2>5, Kinds DEF Without
  <1>7. CASE iteration = 0
    <2>1. A = Body
      BY <1>7, Remembered
    <2>2. QED BY <1>2, <1>6, <2>1, Kinds DEF Answers, Within, Paired
  <1>8. CASE iteration > 0
    <2>1. A = Body \cup asked \cup CallsOf(iteration, 1..resp.calls)
      BY <1>8, Remembered
    <2>2. Answers(asked, iteration - 1)
      BY <1>8 DEF History, Answerable, Running
    <2>3. \A m \in CallsOf(iteration, 1..resp.calls) : m.kind = "call" /\ m.iter = iteration
      BY Kinds DEF CallsOf
    <2>4. ASSUME NEW c \in tracked[iteration].calls PROVE Message("output", iteration, c) \in Body
      <3>1. iteration \in DOMAIN tracked /\ iteration \in Iterations
        BY <1>3, <1>8
      <3>2. Message("output", iteration, c) \in Exchanges(iteration, tracked[iteration].calls)
        BY DEF Exchanges
      <3>3. Message("output", iteration, c) \in iterations[iteration]
        BY <1>4, <3>1, <3>2
      <3>4. iteration \in Answered /\ \A j \in Answered : j <= iteration
        BY <1>3, <1>5, <3>1, <3>3 DEF Answered
      <3>5. Message("output", iteration, c) \in Newest
        BY <3>3, <3>4 DEF Newest
      <3>6. QED BY <1>1, <3>5, Kinds DEF Without
    <2>5. Within(A, iteration)
      BY <1>3, <1>6, <1>8, <2>1, <2>2, <2>3, Kinds DEF Answers, Within
    <2>6. Paired(A)
      <3> SUFFICES ASSUME NEW m \in A
                   PROVE  /\ m.kind = "output" => Message("call", m.iter, m.call) \in A
                          /\ m.kind = "call" => \/ Message("output", m.iter, m.call) \in A
                                                \/ m.call \notin tracked[m.iter].calls
        BY DEF Paired
      <3>1. CASE m \in Body
        BY <1>6, <2>1, <3>1, Kinds
      <3>2. CASE m \in asked
        BY <2>1, <2>2, <3>2 DEF Answers, Paired
      <3>3. CASE m \in CallsOf(iteration, 1..resp.calls)
        BY <2>1, <2>3, <2>4, <3>3
      <3>4. QED BY <2>1, <3>1, <3>2, <3>3
    <2>7. QED BY <1>2, <2>5, <2>6 DEF Answers
  <1>9. QED BY <1>3, <1>7, <1>8

\* Gemini is sent the outputs without their calls: it has them in memory, if it stores.
LEMMA OutputHistory ==
  ASSUME IInv, Accounts, History, pc = "loop", Unbroken, agent.provider = "gemini"
  PROVE  Answers(Body \cup known[PreviousId], iteration)
  <1> DEFINE A == Body \cup known[PreviousId]
  <1>1. Body = Without("call", Stateless)
    BY DEF Body, GeminiBody
  <1>2. Everything \ {Thought} = Past /\ DOMAIN tracked = 1..iteration /\ iteration \in Nat
    BY AllAdded DEF History
  <1>3. ASSUME NEW m \in Body, m.kind \in {"call", "output"} PROVE m \in Past /\ m.kind = "output"
    BY <1>1, <1>2, <1>3, Kinds DEF Without, Stateless
  <1>4. ASSUME NEW i \in DOMAIN tracked, NEW c \in tracked[i].calls
        PROVE  Message("output", i, c) \in Body
    <2>1. Message("output", i, c) \in Everything
      BY <1>2, PastHas
    <2>2. QED BY <1>1, <2>1, Kinds DEF Without, Stateless
  <1>5. Within(Body, iteration)
    BY <1>2, <1>3, PastMember DEF Within
  <1>6. CASE ~agent.store
    <2>1. A = Body
      BY <1>6, Remembered
    <2>2. QED BY <1>5, <1>6, <2>1 DEF Answers
  <1>7. CASE agent.store /\ iteration = 0
    <2>1. A = Body
      BY <1>7, Remembered
    <2>2. Past = {}
      BY <1>2, <1>7 DEF Past
    <2>3. \A i \in Iterations : iterations[i] = {}
      BY <1>2, <1>7 DEF History, Added, Running
    <2>4. Body = {Prompt}
      BY <1>1, <2>3, Kinds DEF Stateless, Everything, Without
    <2>5. A = {Prompt} /\ 1..iteration = {}
      BY <1>7, <2>1, <2>4
    <2>6. Paired(A)
      BY <2>5, Kinds DEF Paired
    <2>7. Within(A, iteration)
      BY <1>5, <2>1
    <2>8. QED BY <1>7, <2>5, <2>6, <2>7 DEF Answers
  <1>8. CASE agent.store /\ iteration > 0
    <2>1. A = Body \cup asked \cup CallsOf(iteration, 1..resp.calls)
      BY <1>8, Remembered
    <2>2. Answers(asked, iteration - 1)
      BY <1>8 DEF History, Answerable, Running
    <2>3. \A m \in CallsOf(iteration, 1..resp.calls) : m.kind = "call" /\ m.iter = iteration
      BY Kinds DEF CallsOf
    <2>4. ASSUME NEW i \in 1..iteration PROVE CallsOf(i, tracked[i].calls) \subseteq A
      <3>1. CASE i \in 1..(iteration - 1)
        BY <1>8, <2>1, <2>2, <3>1 DEF Answers
      <3>2. CASE i = iteration
        <4>1. tracked[iteration].calls \subseteq 1..resp.calls
          BY <1>8 DEF History, Chained
        <4>2. QED BY <2>1, <3>2, <4>1 DEF CallsOf
      <3>3. QED BY <1>2, <3>1, <3>2
    <2>5. Within(A, iteration)
      BY <1>2, <1>5, <1>8, <2>1, <2>2, <2>3 DEF Answers, Within
    <2>6. Paired(A)
      <3> SUFFICES ASSUME NEW m \in A
                   PROVE  /\ m.kind = "output" => Message("call", m.iter, m.call) \in A
                          /\ m.kind = "call" => \/ Message("output", m.iter, m.call) \in A
                                                \/ m.call \notin tracked[m.iter].calls
        BY DEF Paired
      <3>1. CASE m \in Body
        <4>1. m.kind \in {"call", "output"} =>
                m.kind = "output" /\ m.iter \in 1..iteration /\ m.call \in tracked[m.iter].calls
          BY <1>2, <1>3, <3>1, PastMember
        <4>2. m.kind \in {"call", "output"} =>
                Message("call", m.iter, m.call) \in CallsOf(m.iter, tracked[m.iter].calls)
          BY <4>1 DEF CallsOf
        <4>3. QED BY <2>4, <4>1, <4>2
      <3>2. CASE m \in asked
        BY <1>8, <2>1, <2>2, <3>2 DEF Answers, Paired
      <3>3. CASE m \in CallsOf(iteration, 1..resp.calls)
        <4>1. m.kind = "call" /\ m.iter = iteration /\ iteration \in DOMAIN tracked
          BY <1>2, <1>8, <2>3, <3>3
        <4>2. QED BY <1>4, <2>1, <4>1
      <3>4. QED BY <2>1, <3>1, <3>2, <3>3
    <2>7. Prompt \in A
      BY <1>8, <2>1, <2>2 DEF Answers
    <2>8. QED BY <2>4, <2>5, <2>6, <2>7 DEF Answers
  <1>9. QED BY <1>2, <1>6, <1>7, <1>8

\* So the next request can be answered, whatever the provider.
LEMMA RequestBuilt ==
  ASSUME IInv, Accounts, History, CallModel
  PROVE  History'
  <1>1. /\ pc = "loop" /\ pc' = "call" /\ iteration' = iteration + 1 /\ iteration \in Nat
        /\ asked' = Body \cup known[PreviousId]
        /\ UNCHANGED <<agent, tracked, iterations, known>>
    BY LoopAssumption DEF CallModel, IInv, TypeOK
  <1>2. Unbroken => Answers(Body \cup known[PreviousId], iteration)
    <2>1. agent.provider \in {"openai", "completions", "anthropic", "gemini"}
          /\ agent.store \in BOOLEAN
      BY AgentAssumption DEF IInv, TypeOK, Configurations
    <2>2. QED BY <1>1, <2>1, WholeHistory, NewestHistory, OutputHistory
  <1>3. iteration' - 1 = iteration
    BY <1>1
  <1>4. Answerable'
    BY <1>1, <1>2, <1>3 DEF Answerable, Answers, Within, Paired, Unbroken
  <1>5. Memory' /\ Added' /\ Chained'
    BY <1>1 DEF History, Memory, Added, Chained, Running, Held
  <1>6. QED BY <1>4, <1>5 DEF History

LEMMA InitHistory == Init => History
  BY LoopAssumption DEF Init, History, Memory, Added, Chained, Answerable, Running, Held

\* The tools are done: what they returned becomes the history of this iteration.
LEMMA ToolsCollected ==
  ASSUME IInv, Accounts, History, Collect
  PROVE  History'
  <1> USE DEF ghosts
  <1> DEFINE ok == {c \in DOMAIN results : results[c] = "ok"}
             e  == [iteration |-> iteration, id |-> lastId, usage |-> resp.usage, calls |-> ok]
  <1>1. /\ pc = "tools" /\ tracked' = Append(tracked, e) /\ iteration' = iteration
        /\ known' = known /\ asked' = asked /\ agent' = agent /\ lastId' = lastId /\ resp' = resp
        /\ pc' \in {"relay", "loop"}
    BY DEF Collect, Track
  <1>2. known[0] = {} /\ known[iteration] = asked \cup CallsOf(iteration, 1..resp.calls)
        /\ DOMAIN results = 1..resp.calls
    BY <1>1 DEF History, Memory, Held
  <1>3. Memory'
    BY <1>1, <1>2 DEF Memory, Held
  <1>4. CASE pc' = "relay"
    BY <1>3, <1>4 DEF History, Added, Chained, Answerable, Running
  <1>5. CASE pc' = "loop"
    <2>1. iteration \in Iterations /\ iteration \in Nat /\ Len(tracked) = iteration - 1
          /\ tracked \in Traces /\ iteration > 0
      BY <1>1, LoopAssumption DEF IInv, InRange, TypeOK, Accounts, Traced, Iterations
    <2>2. /\ DOMAIN tracked = 1..(iteration - 1) /\ DOMAIN tracked' = 1..iteration
          /\ tracked'[iteration] = e
          /\ \A i \in 1..(iteration - 1) : tracked'[i] = tracked[i]
      BY <1>1, <2>1 DEF Traces
    <2>3. e.id = lastId /\ e.calls = ok
      OBVIOUS
    <2>4. iterations' = [iterations EXCEPT ![iteration] =
                           (IF resp.thought THEN {Thought} ELSE {}) \cup
                           CallsOf(iteration, ok) \cup {Message("output", iteration, c) : c \in ok}]
      BY <1>5 DEF Collect
    <2>5. iterations \in [Iterations -> SUBSET Messages]
      BY DEF IInv, TypeOK
    <2>6. Thought \notin Exchanges(iteration, ok)
      BY Kinds, ExchangeFields
    <2> HIDE DEF e
    <2>7. Chained'
      BY <1>1, <1>2, <2>1, <2>2, <2>3 DEF Chained
    <2> HIDE DEF ok
    <2>8. iterations'[iteration] \ {Thought} = Exchanges(iteration, ok)
      BY <2>1, <2>4, <2>5, <2>6 DEF Exchanges
    <2>9. \A i \in Iterations : i # iteration => iterations'[i] = iterations[i]
      BY <2>4, <2>5
    <2>10. Added'
      <3>1. \A i \in Iterations : IF i \in DOMAIN tracked
                                  THEN iterations[i] \ {Thought} = Exchanges(i, tracked[i].calls)
                                  ELSE iterations[i] = {}
        BY <1>1 DEF History, Added, Running
      <3>2. \A i \in Iterations : i \in 1..iteration /\ i # iteration => i \in 1..(iteration - 1)
        BY <2>1 DEF Iterations
      <3>3. \A i \in 1..(iteration - 1) : i # iteration /\ i \in 1..iteration
        BY <2>1
      <3>4. iteration \in 1..iteration
        BY <2>1
      <3>5. QED BY <2>2, <2>3, <2>8, <2>9, <3>1, <3>2, <3>3, <3>4 DEF Added
    <2>11. Answerable'
      <3>1. SUFFICES ASSUME Unbroken' PROVE Answers(asked, iteration - 1)'
        BY DEF Answerable
      <3>2. Unbroken
        <4>1. \A i \in DOMAIN tracked : i \in DOMAIN tracked' /\ tracked'[i] = tracked[i]
          BY <2>1, <2>2
        <4>2. QED BY <1>1, <3>1, <4>1 DEF Unbroken
      <3>3. Answers(asked, iteration - 1)
        BY <1>1, <2>1, <3>2 DEF History, Answerable, Running
      <3>4. Within(asked, iteration - 1)'
        BY <1>1, <3>3 DEF Answers, Within
      <3>5. Paired(asked) => Paired(asked)'
        BY <1>1, <2>2, <3>3 DEF Answers, Within, Paired
      <3>6. QED BY <1>1, <2>2, <3>3, <3>4, <3>5 DEF Answers
    <2>12. QED BY <1>3, <2>7, <2>10, <2>11 DEF History
  <1>6. QED BY <1>1, <1>4, <1>5

LEMMA NextHistory == IInv /\ Accounts /\ History /\ [Next]_vars => History'
  <1> SUFFICES ASSUME IInv, Accounts, History, [Next]_vars PROVE History'
    OBVIOUS
  <1> USE DEF ghosts
  <1>1. CASE CallModel
    BY <1>1, RequestBuilt
  <1>2. CASE Collect
    BY <1>2, ToolsCollected
  <1>3. CASE EndOfStream
    <2>1. /\ pc = "stream" /\ pc' \in {"final", "notify"} /\ UNCHANGED <<agent, iteration, asked, resp>>
          /\ known' = [known EXCEPT ![iteration] = asked \cup CallsOf(iteration, 1..resp.calls)]
      BY <1>3 DEF EndOfStream
    <2>2. iteration \in 1..MaxIterations /\ known \in [0..MaxIterations -> SUBSET Messages]
      BY <2>1 DEF IInv, InRange, TypeOK, Iterations
    <2>3. Memory'
      <3>1. known'[0] = known[0]
        BY <2>1, <2>2, LoopAssumption
      <3>2. known'[iteration] = asked \cup CallsOf(iteration, 1..resp.calls)
        BY <2>1, <2>2, LoopAssumption
      <3>3. QED BY <2>1, <3>1, <3>2 DEF History, Memory
    <2>4. CASE pc' = "final"
      BY <2>3, <2>4 DEF History, Added, Chained, Answerable, Running
    <2>5. CASE pc' = "notify"
      <3>1. UNCHANGED <<tracked, iterations>>
        BY <1>3, <2>5 DEF EndOfStream
      <3>2. Added' /\ Chained'
        BY <2>1, <2>5, <3>1 DEF History, Added, Chained, Running
      <3>3. Answerable'
        BY <2>1, <2>5, <3>1 DEF History, Answerable, Running, Unbroken, Answers, Within, Paired
      <3>4. QED BY <2>3, <3>2, <3>3 DEF History
    <2>6. QED BY <2>1, <2>4, <2>5
  <1>4. CASE GiveUp \/ Refused \/ ErrorChunk \/ SendFinal \/ RelayOutput
    <2>1. pc' \in {"done", "final"} /\ known' = known
      BY <1>4 DEF GiveUp, Refused, ErrorChunk, SendFinal, RelayOutput
    <2>2. QED BY <2>1 DEF History, Memory, Added, Chained, Answerable, Running, Held
  <1>5. CASE Accepted \/ ToolCallChunk \/ ContentChunk \/ ThoughtChunk
             \/ \E u \in Usages : FinalChunk(u)
    <2>1. /\ pc \in {"call", "stream"} /\ pc' = "stream"
          /\ UNCHANGED <<agent, iteration, tracked, iterations, asked, known>>
      BY <1>5 DEF Accepted, ToolCallChunk, ContentChunk, ThoughtChunk, FinalChunk, Chunk
    <2>2. Memory' /\ Added' /\ Chained'
      BY <2>1 DEF History, Memory, Added, Chained, Running, Held
    <2>3. Answerable'
      BY <2>1 DEF History, Answerable, Running, Unbroken, Answers, Within, Paired
    <2>4. QED BY <2>2, <2>3 DEF History
  <1>6. CASE StartTools \/ ToolStep
    <2>1. /\ pc \in {"notify", "tools"} /\ pc' = "tools"
          /\ DOMAIN results' = IF pc = "notify" THEN 1..resp.calls ELSE DOMAIN results
          /\ UNCHANGED <<agent, iteration, tracked, iterations, asked, known, resp>>
      BY <1>6 DEF StartTools, ToolStep, ToolReturns
    <2>2. Memory' /\ Added' /\ Chained'
      BY <2>1 DEF History, Memory, Added, Chained, Running, Held
    <2>3. Answerable'
      BY <2>1 DEF History, Answerable, Running, Unbroken, Answers, Within, Paired
    <2>4. QED BY <2>2, <2>3 DEF History
  <1>7. CASE Receive \/ StreamEnds \/ Dropped \/ Terminated \/ UNCHANGED vars
    <2>1. UNCHANGED <<agent, task, ghosts>>
      BY <1>7 DEF Receive, StreamEnds, Dropped, Terminated, vars
    <2>2. Memory' /\ Added' /\ Chained'
      BY <2>1 DEF task, History, Memory, Added, Chained, Running, Held
    <2>3. Answerable'
      BY <2>1 DEF task, History, Answerable, Running, Unbroken, Answers, Within, Paired
    <2>4. QED BY <2>2, <2>3 DEF History
  <1>8. QED
    BY <1>1, <1>2, <1>3, <1>4, <1>5, <1>6, <1>7 DEF Next, AgentStep, ProviderStep

\* Every request of every provider's builder can be answered, in runs of any length with any
\* number of calls, in any order and with any of them failing: a tool output comes with its
\* call, a call with its output unless the tool failed, and the prompt is reached.
THEOREM HistoryAnswerable == Spec => []RequestsAnswerable
  <1>1. Spec => []Accounts
    <2>1. QED BY Invariance, InitAccounts, NextAccounts, PTL DEF Spec
  <1>2. Spec => []History
    <2>1. QED BY <1>1, Invariance, InitHistory, NextHistory, PTL DEF Spec
  <1>3. IInv /\ Accounts /\ History => RequestsAnswerable
    <2> SUFFICES ASSUME IInv, Accounts, History, pc = "call", Unbroken PROVE ToolPairs /\ PromptReached
      BY DEF RequestsAnswerable
    <2>1. iteration > 0
      BY LoopAssumption DEF IInv, InRange, Iterations
    <2>2. Answers(asked, iteration - 1)
      BY <2>1 DEF History, Answerable, Running
    <2>3. QED BY <2>2 DEF Answers, Paired, ToolPairs, PromptReached
  <1>4. QED BY <1>1, <1>2, <1>3, Invariance, PTL
=============================================================================
