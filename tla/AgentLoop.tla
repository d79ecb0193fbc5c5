------------------------------- MODULE AgentLoop -------------------------------
(***************************************************************************)
(* One run of Agent::complete_with_streaming (rustic-agent): the spawned   *)
(* task that calls the model, executes the tools it asks for and calls it  *)
(* again, the provider that answers, the tools, the bounded channel, and   *)
(* the two consumers of the stream: Agent::complete and the forwarding     *)
(* task of SingleAgent::execute_streaming.                                 *)
(*                                                                         *)
(* A response is named by the iteration that asked for it, a tool call by  *)
(* its iteration and its place in the response.  Identifier 0 stands for   *)
(* no response id, the empty one, or that of an earlier conversation turn. *)
(* `bill`, `asked` and `known` are history variables: what the provider    *)
(* reported, and what the model can see.                                   *)
(***************************************************************************)
EXTENDS Naturals, Sequences, Functions

CONSTANTS Agents,         \* configurations a run is made with
          MaxIterations,  \* MAX_ITERATIONS (10 in the code)
          Cap,            \* capacity of the channel (100 in the code)
          MaxCalls,       \* bound: tool calls in one response
          MaxChunks,      \* bound: chunks in one response, stop chunks apart
          Usages          \* token counts a provider reports

\* `openai` is the Responses API, `completions` the chat completions API of the
\* OpenAI-compatible providers.
Configurations == [provider : {"openai", "completions", "anthropic", "gemini"},
                   store    : BOOLEAN,
                   relay    : BOOLEAN,                    \* relay_tool_output
                   consumer : {"complete", "forward"}]

ASSUME AgentAssumption == Agents \subseteq Configurations
ASSUME LoopAssumption == /\ MaxIterations \in Nat \ {0}
                         /\ Cap \in Nat \ {0}
                         /\ MaxCalls \in Nat
                         /\ MaxChunks \in Nat
                         /\ Usages \subseteq Nat

VARIABLES agent,       \* the configuration the call was made with
          pc,          \* where the spawned task is
          iteration,
          lastId,      \* last_response_id
          resp,        \* what the task has read of the current response
          results,     \* of the tool futures, in the order of the calls
          iterations,  \* the messages each iteration added
          tracked,     \* tracked_iterations
          total,       \* total_usage
          chan,        \* the mpsc channel
          consumer,
          heard,       \* what the consumer received from the first outcome on
          bill, asked, known

task   == <<pc, iteration, lastId, resp, results, iterations, tracked, total>>
ghosts == <<bill, asked, known>>
vars   == <<agent, task, chan, consumer, heard, ghosts>>

Iterations == 1..MaxIterations
Calls      == 1..MaxCalls

Message(kind, i, c) == [kind |-> kind, iter |-> i, call |-> c]
Prompt   == Message("prompt", 0, 0)
Thought  == Message("thought", 0, 0)
Messages == {Prompt, Thought} \cup
            {Message(kind, i, c) : kind \in {"call", "output"}, i \in Iterations, c \in Calls}

Locals     == [calls : 0..MaxCalls, thought : BOOLEAN, usage : Nat, chunks : 0..MaxChunks]
NoResponse == [calls |-> 0, thought |-> FALSE, usage |-> 0, chunks |-> 0]

Content   == [kind |-> "content"]
Failure   == [kind |-> "error"]
Final(r)  == [kind |-> "final", response |-> r]
IsOutcome(item) == item.kind # "content"

-----------------------------------------------------------------------------
(* The request builders of the providers.                                  *)

Answered == {i \in Iterations : iterations[i] # {}}

\* Mutant of Newest: the first iteration's messages instead of the latest's.
Oldest == UNION {iterations[i] : i \in {i \in Answered : \A j \in Answered : i <= j}}

\* The messages of the newest iteration that added any.
Newest == UNION {iterations[i] : i \in {i \in Answered : \A j \in Answered : j <= i}}

Without(kind, M) == {m \in M : m.kind # kind}

Everything == UNION {iterations[i] : i \in Iterations}
Stateless  == IF Everything = {} THEN {Prompt} ELSE Everything

OpenAIBody == Without("thought", IF agent.store THEN {Prompt} \cup Newest ELSE Stateless)

CompletionsBody == Without("thought", {Prompt} \cup Everything)

AnthropicBody == Without("thought", IF agent.store THEN {Prompt} \cup Everything
                                                   ELSE Stateless)

\* Tool calls are left out: the interaction that is continued has them.
GeminiBody == Without("call", Stateless)

Body == CASE agent.provider = "openai"      -> OpenAIBody
          [] agent.provider = "completions" -> CompletionsBody
          [] agent.provider = "anthropic"   -> AnthropicBody
          [] agent.provider = "gemini"      -> GeminiBody

\* previous_response_id, previous_interaction_id; filtered when empty.
PreviousId == IF agent.store /\ agent.provider \in {"openai", "gemini"}
              THEN lastId ELSE 0

\* The id in the stop chunk of the provider's adapter.
ResponseId == IF \/ agent.provider = "gemini"
                 \/ agent.provider = "openai" /\ agent.store
              THEN iteration ELSE 0

-----------------------------------------------------------------------------
Init == /\ agent \in Agents
        /\ pc = "loop"
        /\ iteration = 0
        /\ lastId = 0
        /\ resp = NoResponse
        /\ results = <<>>
        /\ iterations = [i \in Iterations |-> {}]
        /\ tracked = <<>>
        /\ total = 0
        /\ chan = <<>>
        /\ consumer = "reading"
        /\ heard = <<>>
        /\ bill = [i \in Iterations |-> 0]
        /\ asked = {}
        /\ known = [i \in 0..MaxIterations |-> {}]

\* Mutant of Send: a receiver that is gone still looks full.
SendToNobody(item) == /\ Len(chan) < Cap
                      /\ chan' = Append(chan, item)

\* tx.send(item).await: waits for room, returns at once when the receiver is gone.
Send(item) == IF consumer = "reading"
              THEN /\ Len(chan) < Cap
                   /\ chan' = Append(chan, item)
              ELSE UNCHANGED chan

-----------------------------------------------------------------------------
(* The task.                                                               *)

\* The cap: the loop is left without a word to the consumer.
GiveUp == /\ pc = "loop"
          /\ iteration = MaxIterations
          /\ iteration' = iteration + 1
          /\ pc' = "done"
          /\ UNCHANGED <<agent, lastId, resp, results, iterations, tracked, total,
                         chan, consumer, heard, ghosts>>

\* Mutant of CallModel: the cap is checked before the increment.
OneTooMany == /\ pc = "loop"
              /\ iteration <= MaxIterations
              /\ iteration' = iteration + 1
              /\ asked' = Body \cup known[PreviousId]
              /\ pc' = "call"
              /\ UNCHANGED <<agent, lastId, resp, results, iterations, tracked, total,
                             chan, consumer, heard, bill, known>>

CallModel == /\ pc = "loop"
             /\ iteration < MaxIterations
             /\ iteration' = iteration + 1
             /\ asked' = Body \cup known[PreviousId]
             /\ pc' = "call"
             /\ UNCHANGED <<agent, lastId, resp, results, iterations, tracked, total,
                            chan, consumer, heard, bill, known>>

\* complete_with_stream returned an error.
Refused == /\ pc = "call"
           /\ Send(Failure)
           /\ pc' = "done"
           /\ UNCHANGED <<agent, iteration, lastId, resp, results, iterations, tracked,
                          total, consumer, heard, ghosts>>

\* Mutant of Accepted: `usage` is declared outside the loop.
AcceptedKeepingUsage ==
    /\ pc = "call"
    /\ pc' = "stream"
    /\ resp' = [NoResponse EXCEPT !.usage = resp.usage]
    /\ UNCHANGED <<agent, iteration, lastId, results, iterations, tracked, total,
                   chan, consumer, heard, ghosts>>

Accepted == /\ pc = "call"
            /\ pc' = "stream"
            /\ resp' = NoResponse
            /\ UNCHANGED <<agent, iteration, lastId, results, iterations, tracked, total,
                           chan, consumer, heard, ghosts>>

Chunk == /\ pc = "stream"
         /\ UNCHANGED <<agent, pc, iteration, results, iterations, tracked, total,
                        consumer, heard, asked, known>>

ToolCallChunk == /\ Chunk
                 /\ resp.calls < MaxCalls
                 /\ resp.chunks < MaxChunks
                 /\ resp' = [resp EXCEPT !.calls = @ + 1, !.chunks = @ + 1]
                 /\ UNCHANGED <<lastId, chan, bill>>

\* A stop chunk; a second one overrides the first.
FinalChunk(u) == /\ Chunk
                 /\ resp' = [resp EXCEPT !.usage = u]
                 /\ lastId' = ResponseId
                 /\ bill' = [bill EXCEPT ![iteration] = u]
                 /\ UNCHANGED chan

ContentChunk == /\ Chunk
                /\ resp.chunks < MaxChunks
                /\ Send(Content)
                /\ resp' = [resp EXCEPT !.chunks = @ + 1]
                /\ UNCHANGED <<lastId, bill>>

ThoughtChunk == /\ Chunk
                /\ resp.chunks < MaxChunks
                /\ resp' = [resp EXCEPT !.thought = TRUE, !.chunks = @ + 1]
                /\ UNCHANGED <<lastId, chan, bill>>

\* Mutant of ErrorChunk: only the stream is left, not the loop.
ErrorRetries == /\ pc = "stream"
                /\ Send(Failure)
                /\ total' = total + resp.usage
                /\ pc' = "loop"
                /\ UNCHANGED <<agent, iteration, lastId, resp, results, iterations,
                               tracked, consumer, heard, ghosts>>

\* An error inside the stream: reported, then the loop is left.
ErrorChunk == /\ pc = "stream"
              /\ Send(Failure)
              /\ total' = total + resp.usage
              /\ pc' = "done"
              /\ UNCHANGED <<agent, iteration, lastId, resp, results, iterations,
                             tracked, consumer, heard, ghosts>>

Track(calls) == tracked' = Append(tracked, [iteration |-> iteration, id |-> lastId,
                                            usage |-> resp.usage, calls |-> calls])

CallsOf(i, C) == {Message("call", i, c) : c \in C}

\* The stream ended, with or without a stop chunk.  From here on the provider
\* holds the response under its id.
EndOfStream == /\ pc = "stream"
               /\ total' = total + resp.usage
               /\ known' = [known EXCEPT ![iteration] =
                              asked \cup CallsOf(iteration, 1..resp.calls)]
               /\ IF resp.calls = 0
                  THEN /\ Track({})
                       /\ pc' = "final"
                  ELSE /\ pc' = "notify"
                       /\ UNCHANGED tracked
               /\ UNCHANGED <<agent, iteration, lastId, resp, results, iterations,
                              chan, consumer, heard, bill, asked>>

\* The empty content chunk, then join_all polls the futures.
StartTools == /\ pc = "notify"
              /\ Send(Content)
              /\ results' = [c \in 1..resp.calls |-> "pending"]
              /\ pc' = "tools"
              /\ UNCHANGED <<agent, iteration, lastId, resp, iterations, tracked, total,
                             consumer, heard, ghosts>>

\* execute_tool_call: only a local tool's error is an Err; a remote or unknown
\* tool's is a JSON output.
ToolReturns(c, result) == /\ pc = "tools"
                          /\ c \in DOMAIN results
                          /\ results[c] = "pending"
                          /\ results' = [results EXCEPT ![c] = result]
                          /\ UNCHANGED <<agent, pc, iteration, lastId, resp, iterations,
                                         tracked, total, chan, consumer, heard, ghosts>>

\* The messages of the iteration: a thought, then a pair for each tool that
\* returned; a failed one is only logged.
Collect ==
    LET ok   == {c \in DOMAIN results : results[c] = "ok"}
        msgs == (IF resp.thought THEN {Thought} ELSE {}) \cup
                CallsOf(iteration, ok) \cup {Message("output", iteration, c) : c \in ok}
    IN /\ pc = "tools"
       /\ \A c \in DOMAIN results : results[c] # "pending"
       /\ Track(ok)
       /\ IF agent.relay
          THEN /\ pc' = "relay"
               /\ UNCHANGED iterations
          ELSE /\ pc' = "loop"
               /\ iterations' = [iterations EXCEPT ![iteration] = msgs]
       /\ UNCHANGED <<agent, iteration, lastId, resp, results, total,
                      chan, consumer, heard, ghosts>>

\* relay_tool_output: the merged outputs are the content of the answer.
RelayOutput == /\ pc = "relay"
               /\ Send(Content)
               /\ pc' = "final"
               /\ UNCHANGED <<agent, iteration, lastId, resp, results, iterations, tracked,
                              total, consumer, heard, ghosts>>

\* Mutant of SendFinal: no break behind the Final chunk.
SendFinalAndGoOn ==
    /\ pc = "final"
    /\ Send(Final([iterations |-> tracked, usage |-> total, id |-> lastId]))
    /\ pc' = "loop"
    /\ UNCHANGED <<agent, iteration, lastId, resp, results, iterations, tracked, total,
                   consumer, heard, ghosts>>

SendFinal == /\ pc = "final"
             /\ Send(Final([iterations |-> tracked, usage |-> total, id |-> lastId]))
             /\ pc' = "done"
             /\ UNCHANGED <<agent, iteration, lastId, resp, results, iterations, tracked,
                            total, consumer, heard, ghosts>>

AgentStep == \/ GiveUp \/ CallModel \/ EndOfStream \/ StartTools \/ Collect
             \/ RelayOutput \/ SendFinal

ProviderStep == \/ Refused \/ Accepted \/ ErrorChunk
                \/ ToolCallChunk \/ ContentChunk \/ ThoughtChunk
                \/ \E u \in Usages : FinalChunk(u)

ToolStep == \E c \in Calls, result \in {"ok", "failed"} : ToolReturns(c, result)

-----------------------------------------------------------------------------
(* The consumers.  `complete` returns on the first outcome and on the end  *)
(* of the stream; the forwarder reads on after a Final chunk.              *)

Receive == /\ consumer = "reading"
           /\ chan # <<>>
           /\ LET item == Head(chan)
                  stop == \/ item.kind = "error"
                          \/ (item.kind = "final" /\ agent.consumer = "complete")
              IN /\ heard' = IF IsOutcome(item) \/ heard # <<>>
                             THEN Append(heard, item) ELSE heard
                 /\ consumer' = IF stop THEN "left" ELSE "reading"
                 /\ chan' = IF stop THEN <<>> ELSE Tail(chan)
           /\ UNCHANGED <<agent, task, ghosts>>

\* The task is gone and the channel is empty.
StreamEnds == /\ consumer = "reading"
              /\ chan = <<>>
              /\ pc = "done"
              /\ consumer' = "ended"
              /\ UNCHANGED <<agent, task, chan, heard, ghosts>>

\* The future of `complete` is dropped: the sub-agent timeout of execute_subs.
Dropped == /\ consumer = "reading"
           /\ agent.consumer = "complete"
           /\ consumer' = "dropped"
           /\ chan' = <<>>
           /\ UNCHANGED <<agent, task, heard, ghosts>>

Terminated == /\ pc = "done"
              /\ consumer # "reading"
              /\ UNCHANGED vars

Next == \/ AgentStep
        \/ ProviderStep
        \/ ToolStep
        \/ Receive
        \/ StreamEnds
        \/ Dropped
        \/ Terminated

Spec == Init /\ [][Next]_vars

\* The runtime polls the task and the consumer.  A provider answers and its
\* stream ends, and a tool returns, sooner or later: the code relies on both and
\* sets no timeout for either.
FairSpec == /\ Spec
            /\ WF_vars(AgentStep)
            /\ WF_vars(ProviderStep)
            /\ WF_vars(ToolStep)
            /\ WF_vars(Receive \/ StreamEnds)

-----------------------------------------------------------------------------
(* Properties.                                                             *)

Traces == Seq([iteration : Iterations, id : 0..MaxIterations, usage : Nat,
               calls : SUBSET Calls])

Item == {Content, Failure} \cup
        [kind : {"final"},
         response : [iterations : Traces, usage : Nat, id : 0..MaxIterations]]

\* Every variable has its type.
TypeOK == /\ agent \in Agents
          /\ pc \in {"loop", "call", "stream", "notify", "tools", "relay", "final", "done"}
          /\ iteration \in 0..(MaxIterations + 1)
          /\ lastId \in 0..MaxIterations
          /\ resp \in Locals
          /\ \E n \in 0..MaxCalls : results \in [1..n -> {"pending", "ok", "failed"}]
          /\ iterations \in [Iterations -> SUBSET Messages]
          /\ tracked \in Traces
          /\ total \in Nat
          /\ chan \in Seq(Item)
          /\ Len(chan) <= Cap
          /\ consumer \in {"reading", "left", "ended", "dropped"}
          /\ heard \in Seq(Item)
          /\ bill \in [Iterations -> Nat]
          /\ asked \subseteq Messages
          /\ known \in [0..MaxIterations -> SUBSET Messages]

\* What the consumer has been given or will find in the channel.
Delivered == heard \o chan

\* The consumer gets at most one outcome, a Final chunk or an error; it is the
\* last thing in the stream, and the task that sent it is gone.
OneOutcome == \A k \in DOMAIN Delivered :
                 IsOutcome(Delivered[k]) => k = Len(Delivered) /\ pc = "done"

\* The answer accounts for the whole run: its usage is the sum of what the
\* provider reported for every request made, each iteration is in its trace
\* once, in order, and with its own usage.
FinalAccounts ==
    \A k \in DOMAIN Delivered : Delivered[k].kind = "final" =>
        LET r == Delivered[k].response IN
        /\ r.usage = FoldFunction(+, 0, bill)
        /\ Len(r.iterations) = iteration
        /\ \A i \in DOMAIN r.iterations : /\ r.iterations[i].iteration = i
                                          /\ r.iterations[i].usage = bill[i]

\* Every response so far that the provider keeps was closed by a stop chunk, so
\* that the next request is chained to it.
Unbroken == agent.store /\ agent.provider \in {"openai", "gemini"} =>
               \A i \in DOMAIN tracked : tracked[i].id = i

\* When a request is made, the model sees a tool output only with the call it
\* answers, and a call without an output only where the tool failed.  (The
\* Gemini builder sends outputs without calls, which needs the provider's
\* memory.)
ToolPairs ==
    (agent.provider = "gemini" => agent.store) =>
        \A m \in asked :
           /\ m.kind = "output" => Message("call", m.iter, m.call) \in asked
           /\ m.kind = "call" => \/ Message("output", m.iter, m.call) \in asked
                                 \/ m.call \notin tracked[m.iter].calls

\* With a stateful provider, and with chat completions, every request of the run
\* reaches the user's prompt, in its body or through the response it continues.
PromptReached ==
    agent.store \/ agent.provider = "completions" => Prompt \in asked

\* Every request of a run is one the model can answer: what it sees of the history,
\* in the body or in the provider's memory, has the prompt and is paired.
RequestsAnswerable == pc = "call" /\ Unbroken => ToolPairs /\ PromptReached

\* To its consumer the loop is a response stream of ResponseStream.tla.
Stream == INSTANCE ResponseStream WITH
             outcomes <- [k \in DOMAIN heard |-> heard[k].kind],
             closed   <- consumer # "reading"

ImplementsStream == Stream!Spec

\* The task is never left behind, whether or not anybody still listens.
TaskEnds == <>(pc = "done")
=============================================================================
