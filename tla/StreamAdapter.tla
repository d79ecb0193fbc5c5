---------------------------- MODULE StreamAdapter ----------------------------
(***************************************************************************)
(* The adapters of rustic-agent: each turns the events a provider streams  *)
(* for one response into chunks for the agent loop.  A step is an event    *)
(* and what the adapter makes of it.                                       *)
(*                                                                         *)
(* The provider's part is external: it streams texts, the fragments of     *)
(* tool calls and an ending.  The arguments of a call are Parts fragments. *)
(* Chunks without content are left out, the agent does nothing with them.  *)
(* `odd` and `quoted` are history variables.                               *)
(***************************************************************************)
EXTENDS Naturals, Sequences, FiniteSets, Functions

CONSTANTS APIs,       \* the APIs an instance is about
          MaxCalls,   \* bound: tool calls in one response
          Parts,      \* bound: fragments of the arguments of a call
          MaxTexts,   \* bound: texts and thoughts in one response
          Usages      \* token counts a provider reports

ASSUME AdapterAssumption ==
         /\ APIs \subseteq {"completions", "responses", "anthropic", "gemini"}
         /\ MaxCalls \in Nat /\ Parts \in Nat \ {0} /\ MaxTexts \in Nat
         /\ Usages \subseteq Nat \ {0}

VARIABLES api,
          indexed,                 \* whether the provider numbers its tool calls
          begun, sent, closed,     \* of its calls: those opened, fragments sent, ended
          texts,                   \* texts and thoughts sent
          ending,                  \* how the response ended
          reported,                \* the usage in it, 0 for none
          odd,                     \* texts sent together with a finish reason
          quoted,                  \* an event quoted the end mark of the stream
          pending,                 \* tool_buffers, tool_values, pending_tool_calls
          finishing,               \* finish_reason
          usage,
          live,                    \* the stream is read on
          out                      \* the chunks

provider == <<begun, sent, closed, texts, ending, reported, odd, quoted>>
adapter  == <<pending, finishing, usage>>
vars     == <<api, indexed, provider, adapter, live, out>>

Calls == 1..MaxCalls

Whole(c) == [k \in 1..Parts |-> <<c, k>>]

\* from_str: the call whose arguments these are; 0 is the value put in their place.
Parsed(args) == IF \E c \in Calls : args = Whole(c)
                THEN CHOOSE c \in Calls : args = Whole(c) ELSE 0

Text(n)           == [kind |-> "text", n |-> n]
Thought(n)        == [kind |-> "thought", n |-> n]
ToolCall(id, arg) == [kind |-> "call", id |-> id, arg |-> arg]
Stop(u)           == [kind |-> "stop", usage |-> u]
Failure           == [kind |-> "error"]

Init == /\ api \in APIs
        /\ indexed \in (IF api \in {"completions", "gemini"} THEN BOOLEAN ELSE {TRUE})
        /\ begun = {} /\ closed = {}
        /\ sent = [c \in Calls |-> 0]
        /\ texts = 0
        /\ ending = "none"
        /\ reported = 0
        /\ odd = {}
        /\ quoted = FALSE
        /\ pending = <<>>
        /\ finishing = FALSE
        /\ usage = 0
        /\ live = TRUE
        /\ out = <<>>

Emit(chunks) == out' = out \o chunks
Nothing == UNCHANGED out

-----------------------------------------------------------------------------
(* What a provider streams.                                                *)

Complete(c) == c \in begun /\ sent[c] = Parts

Speaking(a) == api = a /\ live /\ ending = "none"

\* The next n fragments of a call; a provider that does not number its calls sends
\* one after the other.
Sends(c, n) ==
  /\ c \notin closed
  /\ sent[c] + n <= Parts
  /\ c \notin begun => /\ indexed \/ \A d \in begun : Complete(d)
                       /\ \A d \in 1..(c - 1) : d \in begun
  /\ begun' = begun \cup {c}
  /\ sent' = [sent EXCEPT ![c] = @ + n]

Opens(c) == /\ c \notin begun
            /\ Sends(c, 0)
            /\ UNCHANGED <<closed, texts, ending, reported, odd, quoted>>

Continues(c) == /\ c \in begun
                /\ Sends(c, 1)
                /\ UNCHANGED <<closed, texts, ending, reported, odd, quoted>>

\* The end of a call; it may come too early, when the response is cut at its limit.
Closes(c) == /\ c \in begun \ closed
             /\ closed' = closed \cup {c}
             /\ UNCHANGED <<begun, sent, texts, ending, reported, odd, quoted>>

Says == /\ texts < MaxTexts
        /\ texts' = texts + 1
        /\ UNCHANGED <<begun, sent, closed, ending, reported, odd, quoted>>

Ends(how, u) == /\ begun = closed
                /\ ending' = how
                /\ reported' = u
                /\ UNCHANGED <<begun, sent, closed, texts, odd, quoted>>

Slot(c) == IF indexed THEN c ELSE 0

-----------------------------------------------------------------------------
(* The tool calls in the adapters.                                         *)

\* The buffers with `buffer` in a slot, whether or not there was one.
Put(slot, buffer) ==
  [s \in DOMAIN pending \cup {slot} |-> IF s = slot THEN buffer ELSE pending[s]]

Buffer(slot, id) == pending' = Put(slot, [id |-> id, args |-> <<>>])

\* A fragment of a call that is not buffered is dropped.
Collect(slot, piece) ==
  pending' = IF slot \in DOMAIN pending
             THEN [pending EXCEPT ![slot].args = Append(@, piece)] ELSE pending

Given(slot) == ToolCall(pending[slot].id, Parsed(pending[slot].args))

Keep == UNCHANGED <<api, indexed, finishing, usage, live>>

-----------------------------------------------------------------------------
(* The OpenAI Responses API.                                               *)

OutputTextDelta == /\ Speaking("responses")
                   /\ Says
                   /\ Emit(<<Text(texts')>>)
                   /\ Keep /\ UNCHANGED pending

OutputItemAdded(c) == /\ Speaking("responses")
                      /\ Opens(c)
                      /\ Buffer(c, c)
                      /\ Keep /\ Nothing

FunctionCallArgumentsDelta(c) == /\ Speaking("responses")
                                 /\ Continues(c)
                                 /\ Collect(c, <<c, sent'[c]>>)
                                 /\ Keep /\ Nothing

\* The buffers are kept.
FunctionCallArgumentsDone(c) == /\ Speaking("responses")
                                /\ Closes(c)
                                /\ Emit(<<Given(c)>>)
                                /\ Keep /\ UNCHANGED pending

ResponseCompleted(u) == /\ Speaking("responses")
                        /\ Ends("regular", u)
                        /\ Emit(<<Stop(u)>>)
                        /\ Keep /\ UNCHANGED pending

-----------------------------------------------------------------------------
(* Anthropic.                                                              *)

ContentBlockStart(c) == /\ Speaking("anthropic")
                        /\ Opens(c)
                        /\ Buffer(c, c)
                        /\ Keep /\ Nothing

InputJsonDelta(c) == /\ Speaking("anthropic")
                     /\ Continues(c)
                     /\ Collect(c, <<c, sent'[c]>>)
                     /\ Keep /\ Nothing

TextOrThinkingDelta == /\ Speaking("anthropic")
                       /\ Says
                       /\ \E chunk \in {Text(texts'), Thought(texts')} : Emit(<<chunk>>)
                       /\ Keep /\ UNCHANGED pending

ContentBlockStop(c) == /\ Speaking("anthropic")
                       /\ Closes(c)
                       /\ Emit(<<Given(c)>>)
                       /\ Keep /\ UNCHANGED pending

MessageDelta(u) == /\ Speaking("anthropic")
                   /\ Ends("regular", u)
                   /\ Emit(<<Stop(u)>>)
                   /\ Keep /\ UNCHANGED pending

-----------------------------------------------------------------------------
(* Gemini.                                                                 *)

StepStart(c) == /\ Speaking("gemini")
                /\ indexed \/ begun = closed
                /\ Opens(c)
                /\ Buffer(Slot(c), c)
                /\ Keep /\ Nothing

ArgumentsDelta(c) == /\ Speaking("gemini")
                     /\ Continues(c)
                     /\ Collect(Slot(c), <<c, sent'[c]>>)
                     /\ Keep /\ Nothing

\* The summary of a thought is dropped, its signature passed on.
TextOrSignature == /\ Speaking("gemini")
                   /\ Says
                   /\ \E chunk \in {Text(texts'), Thought(texts')} : Emit(<<chunk>>)
                   /\ Keep /\ UNCHANGED pending

Removed(slot) == Restrict(pending, DOMAIN pending \ {slot})

StepStop(c) == /\ Speaking("gemini")
               /\ Closes(c)
               /\ IF Slot(c) \in DOMAIN pending THEN Emit(<<Given(Slot(c))>>) ELSE Nothing
               /\ pending' = Removed(Slot(c))
               /\ Keep

\* Without a usage there is no stop chunk.
InteractionCompleted(u) == /\ Speaking("gemini")
                           /\ Ends("regular", u)
                           /\ IF u = 0 THEN Nothing ELSE Emit(<<Stop(u)>>)
                           /\ Keep /\ UNCHANGED pending
-----------------------------------------------------------------------------
(* The chat completions API.  A chunk has one choice or none; with one it  *)
(* has the start of a call, a fragment or a whole call, or no call (0); a  *)
(* text or none; a finish reason or none; a usage or none (0).             *)

Slots(buffers) == {s \in DOMAIN buffers : buffers[s].id # 0}

\* The calls of a HashMap, in any order; one without an id is skipped.
Batches(buffers) ==
  {[i \in DOMAIN order |-> ToolCall(buffers[order[i]].id, Parsed(buffers[order[i]].args))] :
     order \in Bijection(1..Cardinality(Slots(buffers)), Slots(buffers))}

Buffered(c) == IF Slot(c) \in DOMAIN pending THEN pending[Slot(c)]
               ELSE [id |-> 0, args |-> <<>>]

\* Mutant of Accumulate: a delta that starts a call replaces what is there.
Replace(c, n) ==
  IF c = 0 THEN pending
  ELSE Put(Slot(c), [id   |-> IF c \in begun THEN Buffered(c).id ELSE c,
                     args |-> SubSeq(Whole(c), sent[c] + 1, sent[c] + n)])

Accumulate(c, n) ==
  IF c = 0 THEN pending
  ELSE Put(Slot(c), [id   |-> IF c \in begun THEN Buffered(c).id ELSE c,
                     args |-> Buffered(c).args
                                \o SubSeq(Whole(c), sent[c] + 1, sent[c] + n)])

\* Mutant of Known: each chunk's usage replaces the one before.
Latest(u) == u

Known(u) == IF u = 0 THEN usage ELSE u

\* A chunk with a choice, up to what depends on the finish reason.
Choice(c, n, says, u) ==
  /\ Speaking("completions")
  /\ IF c = 0 THEN n = 0 /\ UNCHANGED <<begun, sent>>
     ELSE n \in (IF c \in begun THEN {1} ELSE {0, Parts}) /\ Sends(c, n)
  /\ texts + says <= MaxTexts
  /\ texts' = texts + says
  /\ u = 0 \/ reported = 0
  /\ reported' = IF u = 0 THEN reported ELSE u
  /\ usage' = Known(u)
  /\ UNCHANGED <<api, indexed, closed, quoted>>

\* The text of a chunk that has a finish reason is not passed on.
Finish(says, how) == /\ ending' = how
                     /\ odd' = odd \cup (IF says = 1 THEN {texts'} ELSE {})

ChoiceDelta(c, n, says) ==
  /\ Choice(c, n, says, 0)
  /\ pending' = Accumulate(c, n)
  /\ IF says = 1 THEN Emit(<<Text(texts')>>) ELSE Nothing
  /\ UNCHANGED <<ending, odd, finishing, live>>

\* The stop state is reset: no stop chunk follows, and the usage is not told.
FinishToolCalls(c, n, says, u) ==
  /\ Choice(c, n, says, u)
  /\ begun' # {} /\ \A d \in begun' : Complete(d)'
  /\ Finish(says, "calls")
  /\ \E batch \in Batches(Accumulate(c, n)) : Emit(batch)
  /\ pending' = <<>>
  /\ finishing' = FALSE
  /\ UNCHANGED live

FinishStop(c, n, says, u) ==
  /\ Choice(c, n, says, u)
  /\ \A d \in begun' : Complete(d)'
  /\ Finish(says, "regular")
  /\ pending' = Accumulate(c, n)
  /\ Emit(<<Stop(usage')>>)
  /\ finishing' = TRUE
  /\ UNCHANGED live

\* Truncated: an error, on which the agent leaves the stream.
FinishLength(c, n, says, u) ==
  /\ Choice(c, n, says, u)
  /\ Finish(says, "cut")
  /\ pending' = Accumulate(c, n)
  /\ Emit(<<Failure>>)
  /\ finishing' = TRUE
  /\ live' = FALSE

\* Any other reason, a content filter for one.
FinishOther(c, n, says, u) ==
  /\ Choice(c, n, says, u)
  /\ Finish(says, "cut")
  /\ pending' = Accumulate(c, n)
  /\ Nothing
  /\ finishing' = TRUE
  /\ UNCHANGED live

\* The calls of a model that ended with "stop".
Flushed == Batches(pending)

\* A chunk without a choice: the usage, before or after the finish reason.
UsageChunk(u) ==
  /\ api = "completions" /\ live
  /\ reported = 0
  /\ reported' = u
  /\ ending' = IF ending = "regular" THEN "settled" ELSE ending
  /\ usage' = Known(u)
  /\ IF finishing THEN /\ \E batch \in Flushed : Emit(batch \o <<Stop(usage')>>)
                       /\ pending' = <<>>
     ELSE Nothing /\ UNCHANGED pending
  /\ UNCHANGED <<api, indexed, begun, sent, closed, texts, odd, quoted, finishing, live>>

-----------------------------------------------------------------------------
(* The end of a stream.                                                    *)

Leave == live /\ live' = FALSE /\ UNCHANGED <<api, indexed, provider, adapter>>

\* [DONE] after the ending, or the connection is closed, after the ending or before.
StreamEnds == Leave /\ Nothing

\* The connection breaks, or an event cannot be decoded.
StreamBreaks == Leave /\ Emit(<<Failure>>)

\* The adapters look for [DONE] in the data of an event before they decode it, and
\* find it in a text that quotes it.
MarkQuoted == /\ Speaking(api) /\ api \in {"completions", "gemini"}
              /\ texts < MaxTexts
              /\ texts' = texts + 1
              /\ quoted' = TRUE
              /\ live' = FALSE
              /\ Nothing
              /\ UNCHANGED <<api, indexed, begun, sent, closed, ending, reported, odd,
                             adapter>>

\* The provider reports that it failed, in an event these adapters do not know; the
\* one of the chat completions cannot decode it, which is StreamBreaks.
ProviderFails == /\ Speaking(api) /\ api # "completions"
                 /\ ending' = "failed"
                 /\ Nothing
                 /\ UNCHANGED <<api, indexed, begun, sent, closed, texts, reported, odd,
                                quoted, adapter, live>>

Responses == \/ OutputTextDelta
             \/ \E u \in Usages : ResponseCompleted(u)
             \/ \E c \in Calls : \/ OutputItemAdded(c) \/ FunctionCallArgumentsDelta(c)
                                 \/ FunctionCallArgumentsDone(c)

Anthropic == \/ TextOrThinkingDelta
             \/ \E u \in Usages : MessageDelta(u)
             \/ \E c \in Calls : \/ ContentBlockStart(c) \/ InputJsonDelta(c)
                                 \/ ContentBlockStop(c)

Gemini == \/ TextOrSignature
          \/ \E u \in Usages \cup {0} : InteractionCompleted(u)
          \/ \E c \in Calls : StepStart(c) \/ ArgumentsDelta(c) \/ StepStop(c)

Completions ==
  \/ \E u \in Usages : UsageChunk(u)
  \/ \E c \in Calls \cup {0}, n \in {0, 1, Parts}, says \in {0, 1} :
       \/ ChoiceDelta(c, n, says)
       \/ \E u \in Usages \cup {0} :
            \/ FinishToolCalls(c, n, says, u) \/ FinishStop(c, n, says, u)
            \/ FinishLength(c, n, says, u) \/ FinishOther(c, n, says, u)

Next == \/ Responses \/ Anthropic \/ Gemini \/ Completions
        \/ StreamEnds \/ StreamBreaks \/ MarkQuoted \/ ProviderFails

Spec == Init /\ [][Next]_vars

-----------------------------------------------------------------------------
(* Properties.                                                             *)

Handed(c) == {i \in DOMAIN out : out[i].kind = "call" /\ out[i].id = c}

\* Chat completions that do not number their calls share one buffer for all of them.
Merged == api = "completions" /\ ~indexed /\ Cardinality(begun) > 1

\* No call is handed over twice, and when a response has ended as it should, each of
\* its calls has been, but not the calls of a chat completion that ended with "stop"
\* and had no usage chunk behind it.  A call is handed to the agent with all of its own
\* arguments, however its fragments were mixed with those of other calls, unless the
\* response was cut in the middle of it, or the provider does not number its calls.
CallsHandedOver ==
  \A c \in Calls :
    /\ Cardinality(Handed(c)) <= 1
    /\ \A i \in Handed(c) : out[i].arg = c \/ ~Complete(c) \/ Merged
    /\ c \in begun /\ ~Merged
       /\ ending \in {"calls", "settled"} \cup (IF api = "completions" THEN {} ELSE {"regular"})
       => Handed(c) # {}

\* Where the chunks have a text or a thought.
Said == {i \in DOMAIN out : out[i].kind \in {"text", "thought"}}

\* Texts and thoughts are passed on at once, in order, each once; but not one that came
\* with a finish reason, or that quoted the end mark of the stream.  The last chunk of a
\* response that ended as it should has the usage the provider reported; but not if it
\* ended with the tool calls of a chat completion.
AnswerRelayed ==
  /\ \A i, j \in Said : i < j => out[i].n < out[j].n
  /\ {out[i].n : i \in Said} = (1..texts) \ (odd \cup IF quoted THEN {texts} ELSE {})
  /\ reported > 0 /\ ending \in {"regular", "settled"}
       => out # <<>> /\ out[Len(out)] \in {Stop(reported), Failure}
=============================================================================
