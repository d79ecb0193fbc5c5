------------------------- MODULE StreamAdapterProofs -------------------------
(***************************************************************************)
(* What holds of the adapters for any number of calls, fragments, texts    *)
(* and token counts: a tool call is handed over once and whole, however    *)
(* its fragments were mixed with those of others, texts and thoughts are   *)
(* passed on in order, and the usage ends the answer.                      *)
(***************************************************************************)
EXTENDS StreamAdapter, FiniteSetTheorems, SequenceTheorems, TLAPS

-----------------------------------------------------------------------------
(* Types.                                                                  *)

Pieces == Calls \X (1..Parts)

\* The first n fragments of the arguments of a call.
Prefix(c, n) == [k \in 1..n |-> <<c, k>>]

BufferType == [id : Calls, args : Seq(Pieces)]

Buffers(f) == /\ DOMAIN f \subseteq 0..MaxCalls
              /\ \A s \in DOMAIN f : f[s] \in BufferType

CallChunk == [kind : {"call"}, id : Calls, arg : 0..MaxCalls]
SaidChunk == [kind : {"text", "thought"}, n : Nat]
EndChunk  == [kind : {"stop"}, usage : Nat] \cup [kind : {"error"}]
Chunk     == CallChunk \cup SaidChunk \cup EndChunk

Typing ==
  /\ api \in {"completions", "responses", "anthropic", "gemini"} /\ indexed \in BOOLEAN
  /\ api \in {"responses", "anthropic"} => indexed
  /\ begun \subseteq Calls /\ closed \subseteq begun
  /\ sent \in [Calls -> 0..Parts] /\ \A c \in Calls \ begun : sent[c] = 0
  /\ texts \in Nat /\ reported \in Nat /\ usage \in Nat /\ odd \subseteq 1..texts
  /\ ending \in {"none", "regular", "calls", "cut", "settled", "failed"}
  /\ quoted \in BOOLEAN /\ finishing \in BOOLEAN /\ live \in BOOLEAN
  /\ Buffers(pending)
  /\ out \in Seq(Chunk)

-----------------------------------------------------------------------------
(* Fragments and buffers.                                                  *)

LEMMA Numbers == /\ MaxCalls \in Nat /\ Parts \in Nat \ {0} /\ Calls \subseteq Nat \ {0}
                 /\ Usages \subseteq Nat \ {0}
BY AdapterAssumption DEF Calls

LEMMA PrefixTyped ==
  ASSUME NEW c \in Calls, NEW n \in 0..Parts
  PROVE  /\ Prefix(c, n) \in Seq(Pieces) /\ Len(Prefix(c, n)) = n
         /\ \A k \in 1..n : Prefix(c, n)[k] = <<c, k>>
         /\ Prefix(c, Parts) = Whole(c) /\ Prefix(c, 0) = <<>>
<1>1. n \in Nat /\ \A k \in 1..n : <<c, k>> \in Pieces
  BY Numbers DEF Pieces
<1>2. Prefix(c, n) \in [1..n -> Pieces]
  BY <1>1 DEF Prefix
<1>3. Prefix(c, 0) = <<>>
  BY DEF Prefix
<1> QED BY <1>1, <1>2, <1>3 DEF Prefix, Whole

\* One more fragment, and several.
LEMMA PrefixGrows ==
  ASSUME NEW c \in Calls, NEW n \in 0..Parts, NEW m \in 0..Parts, n + m <= Parts
  PROVE  /\ SubSeq(Whole(c), n + 1, n + m) \in Seq(Pieces)
         /\ Prefix(c, n) \o SubSeq(Whole(c), n + 1, n + m) = Prefix(c, n + m)
         /\ m = 1 => Append(Prefix(c, n), <<c, n + 1>>) = Prefix(c, n + 1)
<1> DEFINE more == SubSeq(Whole(c), n + 1, n + m)
           both == Prefix(c, n) \o more
<1>1. n \in Nat /\ m \in Nat /\ n + m \in 0..Parts
  BY Numbers
<1>2. /\ Prefix(c, n) \in Seq(Pieces) /\ Len(Prefix(c, n)) = n
      /\ \A k \in 1..n : Prefix(c, n)[k] = <<c, k>>
  BY PrefixTyped
<1>3. Whole(c) \in Seq(Pieces) /\ Len(Whole(c)) = Parts
      /\ \A k \in 1..Parts : Whole(c)[k] = <<c, k>>
  <2>1. Parts \in 0..Parts
    BY Numbers
  <2> QED BY <2>1, PrefixTyped
<1>4. more \in Seq(Pieces) /\ Len(more) = m
      /\ \A k \in 1..m : more[k] = <<c, n + k>>
  <2>1. more = [k \in 1..m |-> Whole(c)[n + k]]
    BY <1>1, <1>3, Numbers
  <2>2. \A k \in 1..m : n + k \in 1..Parts /\ Whole(c)[n + k] = <<c, n + k>>
    BY <1>1, <1>3, Numbers
  <2> HIDE DEF more
  <2>3. more = [k \in 1..m |-> <<c, n + k>>]
    BY <2>1, <2>2
  <2>4. \A k \in 1..m : <<c, n + k>> \in Pieces
    BY <2>2 DEF Pieces
  <2>5. more \in [1..m -> Pieces]
    BY <2>3, <2>4
  <2> HIDE DEF Pieces
  <2>6. more \in Seq(Pieces) /\ Len(more) = m
    BY <1>1, <2>5
  <2> QED BY <2>3, <2>6
<1> HIDE DEF more
<1>5. both = Prefix(c, n + m)
  <2>1. both \in Seq(Pieces) /\ Len(both) = n + m
    <3> HIDE DEF Pieces
    <3> QED BY <1>1, <1>2, <1>4, ConcatProperties
  <2>2. ASSUME NEW k \in 1..(n + m) PROVE both[k] = <<c, k>>
    <3>1. CASE k <= n
      BY <2>2, <3>1, <1>1, <1>2, <1>4
    <3>2. CASE k > n
      <4>1. k - n \in 1..m /\ n + (k - n) = k
        BY <2>2, <3>2, <1>1
      <4>2. both[k] = more[k - n]
        BY <2>2, <3>2, <1>1, <1>2, <1>4, <4>1
      <4> QED BY <4>1, <4>2, <1>4
    <3>3. k <= n \/ k > n
      BY <2>2, <1>1
    <3> HIDE DEF both, more
    <3> QED BY <3>1, <3>2, <3>3
  <2> HIDE DEF both, Pieces
  <2>3. both = [k \in 1..(n + m) |-> both[k]]
    BY <1>1, <2>1
  <2> QED BY <2>2, <2>3 DEF Prefix
<1>6. m = 1 => Append(Prefix(c, n), <<c, n + 1>>) = Prefix(c, n + 1)
  <2> SUFFICES ASSUME m = 1 PROVE Append(Prefix(c, n), <<c, n + 1>>) = Prefix(c, n + 1)
    OBVIOUS
  <2> DEFINE longer == Append(Prefix(c, n), <<c, n + 1>>)
  <2>1. <<c, n + 1>> \in Pieces
    BY <1>1, Numbers DEF Pieces
  <2>2. longer \in Seq(Pieces) /\ Len(longer) = n + 1
        /\ \A k \in 1..(n + 1) : longer[k] = <<c, k>>
    BY <1>1, <1>2, <2>1
  <2>3. longer = [k \in 1..(n + 1) |-> longer[k]]
    BY <1>1, <2>2
  <2> HIDE DEF longer
  <2>4. longer = Prefix(c, n + 1)
    BY <2>2, <2>3 DEF Prefix
  <2> QED BY <2>4 DEF longer
<1> QED BY <1>4, <1>5, <1>6 DEF more

\* Arguments that are whole are those of one call; others are of none, or of that.
LEMMA ParsedIs ==
  ASSUME NEW args
  PROVE  Parsed(args) \in 0..MaxCalls /\ \A c \in Calls : Parsed(Whole(c)) = c
<1>1. Parsed(args) \in 0..MaxCalls
  BY Numbers DEF Parsed, Calls
<1>2. ASSUME NEW c \in Calls, NEW d \in Calls, Whole(c) = Whole(d) PROVE c = d
  <2>1. 1 \in 1..Parts
    BY Numbers
  <2>2. Whole(c)[1] = <<c, 1>> /\ Whole(d)[1] = <<d, 1>>
    BY <2>1 DEF Whole
  <2> QED BY <1>2, <2>2
<1>3. ASSUME NEW c \in Calls PROVE Parsed(Whole(c)) = c
  BY <1>2 DEF Parsed
<1> QED BY <1>1, <1>3

LEMMA SlotTyped ==
  ASSUME Typing, NEW c \in Calls
  PROVE  Slot(c) \in 0..MaxCalls /\ (indexed => Slot(c) = c) /\ (~indexed => Slot(c) = 0)
BY Numbers DEF Slot, Calls

\* A buffer in a slot, and the others as they were.
LEMMA PutKeeps ==
  ASSUME Buffers(pending), NEW slot \in 0..MaxCalls, NEW buffer \in BufferType
  PROVE  /\ Buffers(Put(slot, buffer))
         /\ DOMAIN Put(slot, buffer) = DOMAIN pending \cup {slot}
         /\ Put(slot, buffer)[slot] = buffer
         /\ \A s \in DOMAIN pending \ {slot} : Put(slot, buffer)[s] = pending[s]
BY DEF Buffers, Put

-----------------------------------------------------------------------------
(* The chunks that are out, when more are passed on.                       *)

IsCall(i) == i \in DOMAIN out /\ out[i].kind = "call"

LEMMA OutGrows ==
  ASSUME out \in Seq(Chunk), NEW new \in Seq(Chunk), out' = out \o new
  PROVE  /\ out' \in Seq(Chunk) /\ Len(out) \in Nat /\ Len(out') = Len(out) + Len(new)
         /\ DOMAIN out = 1..Len(out) /\ DOMAIN out' = 1..Len(out')
         /\ \A i \in DOMAIN out : i \in DOMAIN out' /\ out'[i] = out[i]
         /\ \A i \in DOMAIN out' \ DOMAIN out :
              i - Len(out) \in DOMAIN new /\ out'[i] = new[i - Len(out)]
         /\ \A k \in DOMAIN new :
              /\ Len(out) + k \in DOMAIN out' \ DOMAIN out
              /\ out'[Len(out) + k] = new[k]
OBVIOUS

-----------------------------------------------------------------------------
(* The invariant.                                                          *)

\* The buffers have a call in each of their slots and a slot for each of the calls, and
\* if the calls do not share one, all the fragments of each that were sent.
Shared(b) == ~indexed /\ Cardinality(b) > 1

Chart(f, b, s) ==
  /\ \A k \in DOMAIN f : f[k].id \in b /\ k = Slot(f[k].id)
  /\ \A c \in b : Slot(c) \in DOMAIN f
  /\ ~Shared(b) => \A c \in b : f[Slot(c)] = [id |-> c, args |-> Prefix(c, s[c])]

\* In the APIs whose calls are ended one by one, a call that is open has its fragments in
\* the buffer of its slot, which is no other's, and the calls handed over are those ended.
Holds(c) == /\ Slot(c) \in DOMAIN pending
            /\ pending[Slot(c)] = [id |-> c, args |-> Prefix(c, sent[c])]

Numbered ==
  api # "completions" =>
    /\ \A c \in begun \ closed : Holds(c)
    /\ indexed \/ \A c, d \in begun \ closed : c = d
    /\ \A i : IsCall(i) => out[i].id \in closed
    /\ \A c \in closed : \E i : IsCall(i) /\ out[i].id = c
    /\ ending \in {"none", "regular", "failed"}
    /\ ending = "regular" => begun = closed

\* The chat completions hand all the calls over at once, when they are finished or, if
\* the model stopped, when the usage comes; until then the buffers have them.
Flushable == ending = "none" \/ (finishing /\ reported = 0)

Chosen ==
  api = "completions" =>
    /\ closed = {} /\ usage = reported /\ ending # "failed"
    /\ ending = "none" => ~finishing
    /\ ending = "regular" => finishing
    /\ ending = "calls" => ~finishing
    /\ ending = "settled" => reported # 0
    /\ Flushable => (\A i : ~IsCall(i)) /\ Chart(pending, begun, sent)
    /\ ending \in {"calls", "settled"} /\ ~Merged
         => \A c \in begun : \E i : IsCall(i) /\ out[i].id = c

\* A call is handed over once, with its arguments.
GivenOnce ==
  \A i : IsCall(i) =>
    /\ \A j : IsCall(j) /\ out[j].id = out[i].id => j = i
    /\ out[i].arg = out[i].id \/ ~Complete(out[i].id) \/ Merged

\* What was said is out, in order, and the usage of an ended response is.
Ordered == \A i, j \in Said : i < j => out[i].n < out[j].n
AllSaid == {out[i].n : i \in Said} = (1..texts) \ (odd \cup IF quoted THEN {texts} ELSE {})
Told    == reported > 0 /\ ending \in {"regular", "settled"}
             => out # <<>> /\ out[Len(out)] \in {Stop(reported), Failure}
Relayed == (quoted => ~live) /\ Ordered /\ AllSaid /\ Told

IInv == Typing /\ Numbered /\ Chosen /\ GivenOnce /\ Relayed

\* Calls share a buffer when there are two of them and no numbers.
LEMMA TwoCalls ==
  ASSUME NEW b \in SUBSET Calls
  PROVE  Cardinality(b) > 1 <=> \E c, d \in b : c # d
<1>1. IsFiniteSet(b) /\ Cardinality(b) \in Nat
  <2>1. IsFiniteSet(Calls)
    BY Numbers, FS_Interval DEF Calls
  <2> QED BY <2>1, FS_Subset, FS_CardinalityType
<1>2. ASSUME Cardinality(b) > 1 PROVE \E c, d \in b : c # d
  <2> SUFFICES ASSUME \A c, d \in b : c = d PROVE FALSE
    OBVIOUS
  <2>1. b # {}
    BY <1>2, FS_EmptySet
  <2>2. PICK c \in b : TRUE
    BY <2>1
  <2>3. b = {c}
    BY <2>2
  <2>4. Cardinality(b) = 1
    BY <2>3, FS_Singleton
  <2> QED BY <1>2, <2>4
<1>3. ASSUME NEW c \in b, NEW d \in b, c # d PROVE Cardinality(b) > 1
  <2>1. Cardinality(b) # 0
    BY <1>1, FS_EmptySet
  <2>2. Cardinality(b) # 1
    <3> SUFFICES ASSUME Cardinality(b) = 1 PROVE FALSE
      OBVIOUS
    <3>1. PICK x : b = {x}
      BY <1>1, FS_Singleton
    <3> QED BY <1>3, <3>1
  <2> QED BY <1>1, <2>1, <2>2
<1> QED BY <1>2, <1>3

\* Chunks that are neither texts nor thoughts leave what was said as it is.
LEMMA Unsaid ==
  ASSUME out \in Seq(Chunk), NEW new \in Seq(Chunk), out' = out \o new,
         \A k \in DOMAIN new : new[k].kind \notin {"text", "thought"}
  PROVE  /\ Ordered => Ordered'
         /\ {out'[i].n : i \in Said'} = {out[i].n : i \in Said}
<1>1. Said' = Said /\ \A i \in Said : out'[i] = out[i]
  BY OutGrows DEF Said
<1>2. Ordered => Ordered'
  BY <1>1 DEF Ordered
<1> QED BY <1>1, <1>2

\* The next text or thought is said behind the others.
LEMMA SaidNext ==
  ASSUME out \in Seq(Chunk), texts \in Nat, \A i \in Said : out[i].n \in 1..texts, Ordered,
         NEW chunk \in {Text(texts + 1), Thought(texts + 1)}, out' = out \o <<chunk>>
  PROVE  /\ Ordered'
         /\ {out'[i].n : i \in Said'} = {out[i].n : i \in Said} \cup {texts + 1}
<1>1. chunk \in Chunk /\ chunk.kind \in {"text", "thought"} /\ chunk.n = texts + 1
  BY DEF Text, Thought, Chunk, SaidChunk
<1> DEFINE new == <<chunk>>
<1>2. new \in Seq(Chunk) /\ DOMAIN new = {1} /\ new[1] = chunk
  BY <1>1
<1> HIDE DEF new
<1>3. /\ DOMAIN out' = DOMAIN out \cup {Len(out) + 1} /\ Len(out) \in Nat
      /\ DOMAIN out = 1..Len(out)
      /\ \A i \in DOMAIN out : out'[i] = out[i]
      /\ out'[Len(out) + 1] = chunk
  <2>1. out' = out \o new
    BY DEF new
  <2>2. Len(new) = 1
    BY <1>2 DEF new
  <2> QED BY <1>2, <2>1, <2>2, OutGrows
<1>4. Said' = Said \cup {Len(out) + 1}
  BY <1>1, <1>3 DEF Said
<1>5. \A i \in Said : i \in 1..Len(out) /\ out'[i] = out[i]
  BY <1>3 DEF Said
<1>6. {out'[i].n : i \in Said'} = {out[i].n : i \in Said} \cup {texts + 1}
  BY <1>1, <1>3, <1>4, <1>5
<1>7. ASSUME NEW i \in Said', NEW j \in Said', i < j PROVE out'[i].n < out'[j].n
  <2>1. i \in Said
    BY <1>3, <1>4, <1>5, <1>7
  <2>2. CASE j \in Said
    BY <1>5, <1>7, <2>1, <2>2 DEF Ordered
  <2>3. CASE j = Len(out) + 1
    <3>1. out'[j].n = texts + 1 /\ out'[i].n \in 1..texts
      BY <1>1, <1>3, <1>5, <2>1, <2>3
    <3>2. \A x \in 1..texts : x < texts + 1
      OBVIOUS
    <3> QED BY <3>1, <3>2
  <2> QED BY <1>4, <2>2, <2>3
<1> QED BY <1>6, <1>7 DEF Ordered

\* The numbers of what was said.
LEMMA SaidNumbers ==
  ASSUME Typing, AllSaid
  PROVE  \A i \in Said : out[i].n \in 1..texts
BY DEF AllSaid

-----------------------------------------------------------------------------
(* The APIs whose calls are ended one by one.                              *)

Chatting == api # "completions" /\ live /\ ending = "none"

Speaks == /\ Chatting /\ Says
          /\ \E chunk \in {Text(texts + 1), Thought(texts + 1)} : out' = out \o <<chunk>>
          /\ Keep /\ UNCHANGED pending

Starts(c) == /\ Chatting /\ (indexed \/ begun = closed) /\ Opens(c)
             /\ Buffer(Slot(c), c)
             /\ Keep /\ Nothing

GoesOn(c) == /\ Chatting /\ Continues(c)
             /\ Collect(Slot(c), <<c, sent[c] + 1>>)
             /\ Keep /\ Nothing

Stops(c) == /\ Chatting /\ Closes(c)
            /\ out' = out \o <<Given(Slot(c))>>
            /\ pending' = pending \/ pending' = Removed(Slot(c))
            /\ Keep

Completes(u) == /\ Chatting /\ Ends("regular", u)
                /\ out' = IF u = 0 THEN out ELSE out \o <<Stop(u)>>
                /\ Keep /\ UNCHANGED pending

\* The actions of these APIs are five between them.
LEMMA FiveSteps ==
  ASSUME Typing, Numbered, Responses \/ Anthropic \/ Gemini
  PROVE  \/ Speaks
         \/ \E c \in Calls : Starts(c) \/ GoesOn(c) \/ Stops(c)
         \/ \E u \in Usages \cup {0} : Completes(u)
<1>1. ASSUME NEW a, Speaking(a), a \in {"responses", "anthropic", "gemini"}
      PROVE  Chatting /\ (a # "gemini" => \A c : Slot(c) = c)
  BY <1>1 DEF Speaking, Chatting, Typing, Slot
<1>2. ASSUME Says, \E chunk \in {Text(texts'), Thought(texts')} : Emit(<<chunk>>)
      PROVE  \E chunk \in {Text(texts + 1), Thought(texts + 1)} : out' = out \o <<chunk>>
  <2>1. texts' = texts + 1
    BY <1>2 DEF Says
  <2> QED BY <1>2, <2>1 DEF Emit
<1>3. ASSUME NEW c \in Calls, Continues(c) PROVE sent'[c] = sent[c] + 1
  BY <1>3 DEF Continues, Sends, Typing
<1>4. ASSUME NEW c \in Calls, Chatting, Closes(c) PROVE Slot(c) \in DOMAIN pending
  BY <1>4 DEF Chatting, Closes, Numbered, Holds
<1>5. CASE Responses
  <2>1. CASE OutputTextDelta
    BY <1>1, <1>2, <2>1 DEF OutputTextDelta, Speaks
  <2>2. ASSUME NEW c \in Calls, OutputItemAdded(c) PROVE Starts(c)
    <3>1. Chatting /\ Slot(c) = c /\ indexed
      BY <1>1, <2>2 DEF OutputItemAdded, Speaking, Typing
    <3> QED BY <2>2, <3>1 DEF OutputItemAdded, Starts
  <2>3. ASSUME NEW c \in Calls, FunctionCallArgumentsDelta(c) PROVE GoesOn(c)
    BY <1>1, <1>3, <2>3 DEF FunctionCallArgumentsDelta, GoesOn
  <2>4. ASSUME NEW c \in Calls, FunctionCallArgumentsDone(c) PROVE Stops(c)
    BY <1>1, <2>4 DEF FunctionCallArgumentsDone, Stops, Emit
  <2>5. ASSUME NEW u \in Usages, ResponseCompleted(u) PROVE Completes(u)
    BY <1>1, <2>5, Numbers DEF ResponseCompleted, Completes, Emit
  <2> QED BY <1>5, <2>1, <2>2, <2>3, <2>4, <2>5 DEF Responses
<1>6. CASE Anthropic
  <2>1. CASE TextOrThinkingDelta
    BY <1>1, <1>2, <2>1 DEF TextOrThinkingDelta, Speaks
  <2>2. ASSUME NEW c \in Calls, ContentBlockStart(c) PROVE Starts(c)
    <3>1. Chatting /\ Slot(c) = c /\ indexed
      BY <1>1, <2>2 DEF ContentBlockStart, Speaking, Typing
    <3> QED BY <2>2, <3>1 DEF ContentBlockStart, Starts
  <2>3. ASSUME NEW c \in Calls, InputJsonDelta(c) PROVE GoesOn(c)
    BY <1>1, <1>3, <2>3 DEF InputJsonDelta, GoesOn
  <2>4. ASSUME NEW c \in Calls, ContentBlockStop(c) PROVE Stops(c)
    BY <1>1, <2>4 DEF ContentBlockStop, Stops, Emit
  <2>5. ASSUME NEW u \in Usages, MessageDelta(u) PROVE Completes(u)
    BY <1>1, <2>5, Numbers DEF MessageDelta, Completes, Emit
  <2> QED BY <1>6, <2>1, <2>2, <2>3, <2>4, <2>5 DEF Anthropic
<1>7. CASE Gemini
  <2>1. CASE TextOrSignature
    BY <1>1, <1>2, <2>1 DEF TextOrSignature, Speaks
  <2>2. ASSUME NEW c \in Calls, StepStart(c) PROVE Starts(c)
    BY <1>1, <2>2 DEF StepStart, Starts
  <2>3. ASSUME NEW c \in Calls, ArgumentsDelta(c) PROVE GoesOn(c)
    BY <1>1, <1>3, <2>3 DEF ArgumentsDelta, GoesOn
  <2>4. ASSUME NEW c \in Calls, StepStop(c) PROVE Stops(c)
    <3>1. Chatting /\ Slot(c) \in DOMAIN pending
      BY <1>1, <1>4, <2>4 DEF StepStop
    <3> QED BY <2>4, <3>1 DEF StepStop, Stops, Emit
  <2>5. ASSUME NEW u \in Usages \cup {0}, InteractionCompleted(u) PROVE Completes(u)
    BY <1>1, <2>5 DEF InteractionCompleted, Completes, Emit, Nothing
  <2> QED BY <1>7, <2>1, <2>2, <2>3, <2>4, <2>5 DEF Gemini
<1> QED BY <1>5, <1>6, <1>7

\* A call is out with the same chunk if no calls are added.
SameCalls == \A i : /\ (IsCall(i))' <=> IsCall(i)
                    /\ IsCall(i) => out'[i] = out[i]

LEMMA Uncalled ==
  ASSUME out \in Seq(Chunk), NEW new \in Seq(Chunk), out' = out \o new,
         \A k \in DOMAIN new : new[k].kind # "call"
  PROVE  SameCalls
BY OutGrows DEF SameCalls, IsCall

LEMMA GivenStill ==
  ASSUME GivenOnce, SameCalls, Merged => Merged',
         \A i : IsCall(i) /\ out[i].id \in begun' /\ sent'[out[i].id] = Parts
                => Complete(out[i].id)
  PROVE  GivenOnce'
BY DEF GivenOnce, SameCalls, Complete

LEMMA Beginning == Init => IInv
<1> SUFFICES ASSUME Init PROVE IInv
  OBVIOUS
<1>1. Typing
  <2>1. sent \in [Calls -> 0..Parts] /\ \A c \in Calls : sent[c] = 0
    BY Numbers DEF Init
  <2>2. Buffers(pending) /\ out \in Seq(Chunk)
    BY DEF Init, Buffers
  <2>3. api \in APIs /\ indexed \in BOOLEAN /\ (api \in {"responses", "anthropic"} => indexed)
    BY DEF Init
  <2>4. api \in {"completions", "responses", "anthropic", "gemini"}
    BY <2>3, AdapterAssumption
  <2> QED BY <2>1, <2>2, <2>3, <2>4 DEF Init, Typing
<1>2. out = <<>> /\ (\A i : ~IsCall(i)) /\ Said = {}
  BY DEF Init, IsCall, Said
<1>3. Numbered
  BY <1>2 DEF Init, Numbered
<1>4. Chart(pending, begun, sent)
  BY DEF Init, Chart
<1>5. Chosen
  BY <1>2, <1>4 DEF Init, Chosen
<1>6. GivenOnce
  BY <1>2 DEF GivenOnce
<1>7. Relayed
  <2>1. Ordered
    BY <1>2 DEF Ordered
  <2>2. AllSaid
    BY <1>2 DEF AllSaid, Init
  <2>3. Told
    BY DEF Told, Init
  <2> QED BY <2>1, <2>2, <2>3 DEF Relayed, Init
<1> QED BY <1>1, <1>3, <1>5, <1>6, <1>7 DEF IInv

LEMMA RelayedStill ==
  ASSUME Typing, Relayed, NEW new \in Seq(Chunk), out' = out \o new,
         \A k \in DOMAIN new : new[k].kind \notin {"text", "thought"},
         texts' = texts, odd' = odd, quoted' = quoted, live' => live, Told'
  PROVE  Relayed'
<1>1. Ordered' /\ {out'[i].n : i \in Said'} = {out[i].n : i \in Said}
  BY Unsaid DEF Relayed, Typing
<1>2. AllSaid'
  BY <1>1 DEF Relayed, AllSaid
<1> QED BY <1>1, <1>2 DEF Relayed, Typing

LEMMA RelayedQuietly ==
  ASSUME Relayed, out' = out, texts' = texts, odd' = odd, quoted' = quoted, live' => live,
         Told'
  PROVE  Relayed'
BY DEF Relayed, Ordered, AllSaid, Said

LEMMA NothingNew ==
  ASSUME Typing, out' = out
  PROVE  out' \in Seq(Chunk) /\ SameCalls
BY DEF Typing, SameCalls, IsCall

LEMMA SpeaksKeeps == IInv /\ Speaks => IInv'
<1> SUFFICES ASSUME IInv, Speaks PROVE IInv'
  OBVIOUS
<1>1. PICK chunk \in {Text(texts + 1), Thought(texts + 1)} : out' = out \o <<chunk>>
  BY DEF Speaks
<1>2. chunk \in Chunk /\ chunk.kind \in {"text", "thought"}
  BY DEF Text, Thought, Chunk, SaidChunk, IInv, Typing
<1>3. /\ texts' = texts + 1 /\ Chatting
      /\ UNCHANGED <<begun, sent, closed, ending, reported, odd, quoted>>
      /\ UNCHANGED <<api, indexed, finishing, usage, live, pending>>
  BY DEF Speaks, Says, Keep
<1> DEFINE new == <<chunk>>
<1>4. new \in Seq(Chunk) /\ out' = out \o new /\ \A k \in DOMAIN new : new[k] = chunk
  BY <1>1, <1>2
<1> HIDE DEF new
<1>5. out' \in Seq(Chunk) /\ SameCalls
  BY <1>2, <1>4, OutGrows, Uncalled DEF IInv, Typing
<1>6. Typing'
  <2>1. texts' \in Nat /\ odd' \subseteq 1..texts'
    BY <1>3 DEF IInv, Typing
  <2> QED BY <1>3, <1>5, <2>1 DEF IInv, Typing, Buffers
<1>7. Numbered'
  BY <1>3, <1>5 DEF IInv, Numbered, Holds, Slot, SameCalls
<1>8. Chosen'
  BY <1>3 DEF Chatting, Chosen
<1>9. GivenOnce'
  BY <1>3, <1>5, GivenStill DEF IInv, Merged, Complete
<1>10. Relayed'
  <2>1. AllSaid /\ Ordered /\ ~quoted
    BY <1>3 DEF IInv, Relayed, Chatting
  <2>2. Ordered' /\ {out'[i].n : i \in Said'} = {out[i].n : i \in Said} \cup {texts + 1}
    BY <1>1, <2>1, SaidNumbers, SaidNext DEF IInv, Typing
  <2>3. 1..(texts + 1) = (1..texts) \cup {texts + 1} /\ texts + 1 \notin odd
    BY DEF IInv, Typing
  <2>4. AllSaid'
    BY <1>3, <2>1, <2>2, <2>3 DEF AllSaid
  <2>5. Told'
    BY <1>3 DEF Chatting, Told
  <2> QED BY <1>3, <2>1, <2>2, <2>4, <2>5 DEF Relayed
<1> QED BY <1>6, <1>7, <1>8, <1>9, <1>10 DEF IInv

LEMMA StartsKeeps == \A c \in Calls : IInv /\ Starts(c) => IInv'
<1> SUFFICES ASSUME NEW c \in Calls, IInv, Starts(c) PROVE IInv'
  OBVIOUS
<1>1. /\ c \notin begun /\ c \notin closed /\ begun' = begun \cup {c} /\ Chatting
      /\ indexed \/ begun = closed
      /\ pending' = Put(Slot(c), [id |-> c, args |-> <<>>])
      /\ UNCHANGED <<closed, texts, ending, reported, odd, quoted>>
      /\ UNCHANGED <<api, indexed, finishing, usage, live, out>>
  BY DEF Starts, Opens, Sends, Buffer, Keep, Nothing
<1>2. sent' = sent /\ sent[c] = 0
  BY <1>1 DEF Starts, Opens, Sends, IInv, Typing
<1>3. [id |-> c, args |-> <<>>] \in BufferType
  BY DEF BufferType
<1>4. /\ Buffers(pending)' /\ Slot(c) \in DOMAIN pending'
      /\ pending'[Slot(c)] = [id |-> c, args |-> <<>>]
      /\ \A s \in DOMAIN pending \ {Slot(c)} : s \in DOMAIN pending' /\ pending'[s] = pending[s]
  <2>1. Buffers(pending) /\ Slot(c) \in 0..MaxCalls
    BY SlotTyped DEF IInv, Typing
  <2> DEFINE put == Put(Slot(c), [id |-> c, args |-> <<>>])
  <2>2. /\ Buffers(put) /\ DOMAIN put = DOMAIN pending \cup {Slot(c)}
        /\ put[Slot(c)] = [id |-> c, args |-> <<>>]
        /\ \A s \in DOMAIN pending \ {Slot(c)} : put[s] = pending[s]
    BY <1>3, <2>1, PutKeeps
  <2>3. pending' = put
    BY <1>1
  <2> HIDE DEF put
  <2> QED BY <2>2, <2>3 DEF Buffers
<1>5. out' \in Seq(Chunk) /\ SameCalls
  BY <1>1, NothingNew DEF IInv, Typing
<1>6. Typing'
  BY <1>1, <1>2, <1>4, <1>5 DEF IInv, Typing
<1>7. Numbered'
  <2>1. api # "completions" /\ Numbered
    BY <1>1 DEF Chatting, IInv
  <2>2. (Holds(c))'
    <3>1. Prefix(c, 0) = <<>>
      BY Numbers, PrefixTyped
    <3> QED BY <1>1, <1>2, <1>4, <3>1 DEF Holds, Slot
  <2>3. ASSUME NEW d \in begun \ closed PROVE (Holds(d))'
    <3>1. indexed /\ d \in Calls /\ c # d /\ Slot(c) # Slot(d) /\ Holds(d)
      BY <1>1, <2>1, <2>3, SlotTyped DEF IInv, Typing, Numbered
    <3> QED BY <1>1, <1>2, <1>4, <3>1 DEF Holds, Slot
  <2>4. indexed \/ begun' \ closed' = {c}
    BY <1>1 DEF IInv, Typing
  <2> QED BY <1>1, <1>5, <2>1, <2>2, <2>3, <2>4 DEF Numbered, SameCalls, Chatting
<1>8. Chosen'
  BY <1>1 DEF Chatting, Chosen
<1>9. GivenOnce'
  <2>1. \A i : IsCall(i) => out[i].id # c
    BY <1>1 DEF IInv, Numbered, Chatting
  <2>2. ~Merged
    BY <1>1 DEF Merged, Chatting
  <2> QED BY <1>1, <1>2, <1>5, <2>1, <2>2, GivenStill DEF IInv, Complete
<1>10. Relayed'
  <2>1. Told'
    BY <1>1 DEF Chatting, Told
  <2> QED BY <1>1, <2>1, RelayedQuietly DEF IInv
<1> QED BY <1>6, <1>7, <1>8, <1>9, <1>10 DEF IInv

LEMMA GoesOnKeeps == \A c \in Calls : IInv /\ GoesOn(c) => IInv'
<1> SUFFICES ASSUME NEW c \in Calls, IInv, GoesOn(c) PROVE IInv'
  OBVIOUS
<1> DEFINE piece == <<c, sent[c] + 1>>
           longer == Append(pending[Slot(c)].args, piece)
<1>1. /\ c \in begun /\ c \notin closed /\ begun' = begun /\ Chatting /\ sent[c] + 1 <= Parts
      /\ sent' = [sent EXCEPT ![c] = @ + 1]
      /\ Collect(Slot(c), piece)
      /\ UNCHANGED <<closed, texts, ending, reported, odd, quoted>>
      /\ UNCHANGED <<api, indexed, finishing, usage, live, out>>
  BY DEF GoesOn, Continues, Sends, Keep, Nothing
<1>2. sent[c] \in 0..Parts /\ sent[c] \in Nat
  BY Numbers DEF IInv, Typing
<1>3. Holds(c) /\ Slot(c) \in 0..MaxCalls
  BY <1>1, SlotTyped DEF IInv, Numbered, Chatting, Typing
<1>4. longer = Prefix(c, sent[c] + 1) /\ longer \in Seq(Pieces)
  <2>1. 1 \in 0..Parts /\ sent[c] + 1 \in 0..Parts
    BY <1>1, <1>2, Numbers
  <2>2. Append(Prefix(c, sent[c]), piece) = Prefix(c, sent[c] + 1)
    BY <1>1, <1>2, <2>1, PrefixGrows
  <2>3. Prefix(c, sent[c] + 1) \in Seq(Pieces)
    BY <2>1, PrefixTyped
  <2>4. pending[Slot(c)].args = Prefix(c, sent[c])
    BY <1>3 DEF Holds
  <2> QED BY <2>2, <2>3, <2>4
<1> HIDE DEF piece
<1>5. /\ DOMAIN pending' = DOMAIN pending
      /\ pending'[Slot(c)] = [id |-> c, args |-> longer]
      /\ \A s \in DOMAIN pending \ {Slot(c)} : pending'[s] = pending[s]
  <2> DEFINE slot == Slot(c)
             was  == pending[slot]
  <2>1. slot \in DOMAIN pending /\ was = [id |-> c, args |-> Prefix(c, sent[c])]
    BY <1>3 DEF Holds
  <2>2. pending' = [pending EXCEPT ![slot].args = Append(@, piece)]
    BY <1>1, <2>1 DEF Collect
  <2>3. [was EXCEPT !.args = Append(was.args, piece)] = [id |-> c, args |-> longer]
    BY <2>1
  <2> HIDE DEF slot
  <2>4. /\ DOMAIN pending' = DOMAIN pending
        /\ pending'[slot] = [was EXCEPT !.args = Append(was.args, piece)]
        /\ \A s \in DOMAIN pending \ {slot} : pending'[s] = pending[s]
    BY <2>1, <2>2
  <2> QED BY <2>3, <2>4 DEF slot
<1> HIDE DEF longer
<1>6. Buffers(pending)'
  <2>1. [id |-> c, args |-> longer] \in BufferType
    BY <1>4 DEF BufferType
  <2>2. ASSUME NEW s \in DOMAIN pending PROVE pending'[s] \in BufferType
    BY <1>5, <2>1, <2>2 DEF IInv, Typing, Buffers
  <2> QED BY <1>5, <2>2 DEF IInv, Typing, Buffers
<1>7. out' \in Seq(Chunk) /\ SameCalls
  BY <1>1, NothingNew DEF IInv, Typing
<1>8. sent' \in [Calls -> 0..Parts] /\ sent'[c] = sent[c] + 1
      /\ \A d \in Calls \ {c} : sent'[d] = sent[d]
  BY <1>1, <1>2, Numbers DEF IInv, Typing
<1>9. Typing'
  BY <1>1, <1>6, <1>7, <1>8 DEF IInv, Typing
<1>10. Numbered'
  <2>1. api # "completions" /\ Numbered
    BY <1>1 DEF Chatting, IInv
  <2>2. (Holds(c))'
    BY <1>1, <1>3, <1>4, <1>5, <1>8 DEF Holds, Slot
  <2>3. ASSUME NEW d \in begun \ closed, d # c PROVE (Holds(d))'
    <3>1. d \in Calls /\ Slot(c) # Slot(d) /\ Holds(d)
      BY <1>1, <2>1, <2>3, SlotTyped DEF IInv, Typing, Numbered
    <3> QED BY <1>1, <1>5, <1>8, <3>1, <2>3 DEF Holds, Slot
  <2> QED BY <1>1, <1>7, <2>1, <2>2, <2>3 DEF Numbered, SameCalls
<1>11. Chosen'
  BY <1>1 DEF Chatting, Chosen
<1>12. GivenOnce'
  <2>1. \A i : IsCall(i) => out[i].id \in closed /\ out[i].id \in Calls
    BY <1>1 DEF IInv, Typing, Numbered, Chatting
  <2>2. ~Merged
    BY <1>1 DEF Merged, Chatting
  <2> QED BY <1>1, <1>8, <1>7, <2>1, <2>2, GivenStill DEF IInv, Complete
<1>13. Relayed'
  <2>1. Told'
    BY <1>1 DEF Chatting, Told
  <2> QED BY <1>1, <2>1, RelayedQuietly DEF IInv
<1> QED BY <1>9, <1>10, <1>11, <1>12, <1>13 DEF IInv

LEMMA StopsKeeps == \A c \in Calls : IInv /\ Stops(c) => IInv'
<1> SUFFICES ASSUME NEW c \in Calls, IInv, Stops(c) PROVE IInv'
  OBVIOUS
<1> DEFINE chunk == Given(Slot(c))
           new   == <<chunk>>
<1>1. /\ c \in begun /\ c \notin closed /\ closed' = closed \cup {c} /\ Chatting
      /\ out' = out \o new
      /\ pending' = pending \/ pending' = Removed(Slot(c))
      /\ UNCHANGED <<begun, sent, texts, ending, reported, odd, quoted>>
      /\ UNCHANGED <<api, indexed, finishing, usage, live>>
  BY DEF Stops, Closes, Keep
<1>2. Holds(c) /\ Slot(c) \in 0..MaxCalls
  BY <1>1, SlotTyped DEF IInv, Numbered, Chatting, Typing
<1>3. /\ chunk \in Chunk /\ chunk.kind = "call" /\ chunk.id = c
      /\ chunk.arg = c \/ ~Complete(c)
  <2>1. chunk = ToolCall(c, Parsed(Prefix(c, sent[c])))
    BY <1>2 DEF Holds, Given
  <2>2. Parsed(Prefix(c, sent[c])) \in 0..MaxCalls
    BY ParsedIs
  <2>3. Complete(c) => Parsed(Prefix(c, sent[c])) = c
    <3>1. Parts \in 0..Parts
      BY Numbers
    <3> QED BY <3>1, PrefixTyped, ParsedIs DEF Complete
  <2> QED BY <2>1, <2>2, <2>3 DEF ToolCall, Chunk, CallChunk
<1> HIDE DEF chunk
<1>4. new \in Seq(Chunk) /\ DOMAIN new = {1} /\ new[1] = chunk /\ Len(new) = 1
  BY <1>3
<1> HIDE DEF new
<1>5. /\ out' \in Seq(Chunk) /\ DOMAIN out' = DOMAIN out \cup {Len(out) + 1}
      /\ Len(out) \in Nat /\ DOMAIN out = 1..Len(out)
      /\ \A i \in DOMAIN out : out'[i] = out[i]
      /\ out'[Len(out) + 1] = chunk
  <2>1. out \in Seq(Chunk)
    BY DEF IInv, Typing
  <2>2. /\ out' \in Seq(Chunk) /\ Len(out) \in Nat /\ Len(out') = Len(out) + 1
        /\ DOMAIN out = 1..Len(out) /\ DOMAIN out' = 1..Len(out')
        /\ \A i \in DOMAIN out : out'[i] = out[i]
        /\ out'[Len(out) + 1] = chunk
    BY <1>1, <1>4, <2>1, OutGrows
  <2>3. 1..(Len(out) + 1) = (1..Len(out)) \cup {Len(out) + 1}
    BY <2>2
  <2> QED BY <2>2, <2>3
<1>6. \A i : (IsCall(i))' <=> IsCall(i) \/ i = Len(out) + 1
  BY <1>3, <1>5 DEF IsCall
<1>7. \A i : IsCall(i) => out'[i] = out[i] /\ out[i].id \in closed /\ i # Len(out) + 1
  BY <1>1, <1>5 DEF IInv, Numbered, Chatting, IsCall
<1>8. Buffers(pending)'
  BY <1>1 DEF Removed, Restrict, IInv, Typing, Buffers
<1>9. Typing'
  BY <1>1, <1>5, <1>8 DEF IInv, Typing
<1>10. Numbered'
  <2>1. api # "completions" /\ Numbered
    BY <1>1 DEF Chatting, IInv
  <2>2. ASSUME NEW d \in begun \ closed, d # c PROVE (Holds(d))'
    <3>1. d \in Calls /\ Slot(c) # Slot(d) /\ Holds(d)
      BY <1>1, <2>1, <2>2, SlotTyped DEF IInv, Typing, Numbered
    <3>2. Slot(d) \in DOMAIN pending' /\ pending'[Slot(d)] = pending[Slot(d)]
      BY <1>1, <3>1 DEF Removed, Restrict, Holds
    <3> QED BY <1>1, <3>1, <3>2 DEF Holds, Slot
  <2>3. \A i : (IsCall(i))' => out'[i].id \in closed'
    BY <1>1, <1>3, <1>5, <1>6, <1>7
  <2>4. ASSUME NEW d \in closed' PROVE \E i : (IsCall(i))' /\ out'[i].id = d
    <3>1. CASE d = c
      BY <1>3, <1>5, <1>6, <3>1
    <3>2. CASE d \in closed
      BY <1>6, <1>7, <2>1, <3>2 DEF Numbered
    <3> QED BY <1>1, <2>4, <3>1, <3>2
  <2> QED BY <1>1, <2>1, <2>2, <2>3, <2>4 DEF Numbered, Chatting
<1>11. Chosen'
  BY <1>1 DEF Chatting, Chosen
<1>12. GivenOnce'
  <2>1. GivenOnce /\ \A d : (d \in begun' /\ sent'[d] = Parts) <=> Complete(d)
    BY <1>1 DEF IInv, Complete
  <2>2. ASSUME NEW i, IsCall(i)
        PROVE  /\ \A j : (IsCall(j))' /\ out'[j].id = out'[i].id => j = i
               /\ out'[i].arg = out'[i].id
                    \/ ~(out'[i].id \in begun' /\ sent'[out'[i].id] = Parts)
    <3>1. ~Merged
      BY <1>1 DEF Merged, Chatting
    <3>2. out'[i] = out[i] /\ out[i].id \in closed /\ out[i].id # c
      BY <1>1, <1>7, <2>2
    <3>3. ASSUME NEW j, (IsCall(j))', out'[j].id = out'[i].id PROVE j = i
      <4>1. IsCall(j)
        BY <1>3, <1>5, <1>6, <3>2, <3>3
      <4> QED BY <1>7, <2>1, <2>2, <3>2, <3>3, <4>1 DEF GivenOnce
    <3>4. out[i].arg = out[i].id \/ ~Complete(out[i].id)
      BY <2>1, <2>2, <3>1 DEF GivenOnce
    <3> QED BY <2>1, <3>2, <3>3, <3>4
  <2>3. /\ \A j : (IsCall(j))' /\ out'[j].id = c => j = Len(out) + 1
        /\ out'[Len(out) + 1].arg = c \/ ~(c \in begun' /\ sent'[c] = Parts)
    BY <1>1, <1>3, <1>5, <1>6, <1>7, <2>1
  <2>4. out'[Len(out) + 1].id = c
    BY <1>3, <1>5
  <2> QED BY <1>6, <2>2, <2>3, <2>4 DEF GivenOnce, Complete
<1>13. Relayed'
  <2>1. Told'
    BY <1>1 DEF Chatting, Told
  <2>2. \A k \in DOMAIN new : new[k].kind \notin {"text", "thought"}
    BY <1>3, <1>4
  <2> QED BY <1>1, <1>4, <2>1, <2>2, RelayedStill DEF IInv
<1> QED BY <1>9, <1>10, <1>11, <1>12, <1>13 DEF IInv

LEMMA CompletesKeeps == \A u \in Usages \cup {0} : IInv /\ Completes(u) => IInv'
<1> SUFFICES ASSUME NEW u \in Usages \cup {0}, IInv, Completes(u) PROVE IInv'
  OBVIOUS
<1> DEFINE new == IF u = 0 THEN <<>> ELSE <<Stop(u)>>
<1>1. u \in Nat /\ Stop(u) \in Chunk /\ Stop(u).kind = "stop"
  BY Numbers DEF Stop, Chunk, EndChunk
<1>2. /\ begun = closed /\ ending' = "regular" /\ reported' = u /\ Chatting
      /\ out' = out \o new
      /\ UNCHANGED <<begun, sent, closed, texts, odd, quoted>>
      /\ UNCHANGED <<api, indexed, finishing, usage, live, pending>>
  BY DEF Completes, Ends, Keep, IInv, Typing
<1>3. /\ new \in Seq(Chunk) /\ \A k \in DOMAIN new : new[k].kind = "stop"
      /\ u # 0 => Len(new) = 1 /\ DOMAIN new = {1} /\ new[1] = Stop(u)
  BY <1>1
<1> HIDE DEF new
<1>4. out' \in Seq(Chunk) /\ SameCalls
  BY <1>2, <1>3, OutGrows, Uncalled DEF IInv, Typing
<1>5. Typing'
  BY <1>1, <1>2, <1>4 DEF IInv, Typing, Buffers
<1>6. Numbered'
  <2>1. api # "completions" /\ Numbered
    BY <1>2 DEF Chatting, IInv
  <2> QED BY <1>2, <1>4, <2>1 DEF Numbered, Holds, Slot, SameCalls
<1>7. Chosen'
  BY <1>2 DEF Chatting, Chosen
<1>8. GivenOnce'
  BY <1>2, <1>4, GivenStill DEF IInv, Merged, Complete
<1>9. Relayed'
  <2>1. Told'
    <3> SUFFICES ASSUME u # 0 PROVE out' # <<>> /\ out'[Len(out')] = Stop(u)
      BY <1>1, <1>2 DEF Told, Stop
    <3>1. Len(out') = Len(out) + 1 /\ Len(out) \in Nat /\ out'[Len(out) + 1] = Stop(u)
      BY <1>2, <1>3, OutGrows DEF IInv, Typing
    <3> QED BY <3>1
  <2>2. \A k \in DOMAIN new : new[k].kind \notin {"text", "thought"}
    BY <1>3
  <2> QED BY <1>2, <1>3, <2>1, <2>2, RelayedStill DEF IInv
<1> QED BY <1>5, <1>6, <1>7, <1>8, <1>9 DEF IInv

-----------------------------------------------------------------------------
(* The end of a stream.                                                    *)

LEMMA EndsKeep == IInv /\ StreamEnds => IInv'
<1> SUFFICES ASSUME IInv, StreamEnds PROVE IInv'
  OBVIOUS
<1>1. /\ live' = FALSE
      /\ UNCHANGED <<api, indexed, begun, sent, closed, texts, ending, reported, odd, quoted>>
      /\ UNCHANGED <<pending, finishing, usage, out>>
  BY DEF StreamEnds, Leave, Nothing, provider, adapter
<1>2. Typing'
  BY <1>1 DEF IInv, Typing, Buffers
<1>3. Numbered'
  BY <1>1 DEF IInv, Numbered, Holds, Slot, IsCall
<1>4. Chosen'
  BY <1>1 DEF IInv, Chosen, Flushable, Chart, Slot, Shared, Merged, IsCall
<1>5. GivenOnce'
  BY <1>1 DEF IInv, GivenOnce, Complete, Merged, IsCall
<1>6. Relayed'
  <2>1. Told'
    BY <1>1 DEF IInv, Relayed, Told, Stop
  <2> QED BY <1>1, <2>1, RelayedQuietly DEF IInv
<1> QED BY <1>2, <1>3, <1>4, <1>5, <1>6 DEF IInv

LEMMA BreaksKeep == IInv /\ StreamBreaks => IInv'
<1> SUFFICES ASSUME IInv, StreamBreaks PROVE IInv'
  OBVIOUS
<1> DEFINE new == <<Failure>>
<1>1. /\ live' = FALSE /\ out' = out \o new
      /\ UNCHANGED <<api, indexed, begun, sent, closed, texts, ending, reported, odd, quoted>>
      /\ UNCHANGED <<pending, finishing, usage>>
  BY DEF StreamBreaks, Leave, Emit, provider, adapter
<1>2. /\ new \in Seq(Chunk) /\ Len(new) = 1 /\ DOMAIN new = {1} /\ new[1] = Failure
      /\ Failure.kind = "error"
  BY DEF Failure, Chunk, EndChunk
<1> HIDE DEF new
<1>3. out' \in Seq(Chunk) /\ SameCalls
  BY <1>1, <1>2, OutGrows, Uncalled DEF IInv, Typing
<1>4. Typing'
  BY <1>1, <1>3 DEF IInv, Typing, Buffers
<1>5. Numbered'
  BY <1>1, <1>3 DEF IInv, Numbered, Holds, Slot, SameCalls
<1>6. Chosen'
  BY <1>1, <1>3 DEF IInv, Chosen, Flushable, Chart, Slot, Shared, Merged, SameCalls
<1>7. GivenOnce'
  BY <1>1, <1>3, GivenStill DEF IInv, Merged, Complete
<1>8. Relayed'
  <2>1. Told'
    <3>1. Len(out') = Len(out) + 1 /\ Len(out) \in Nat /\ out'[Len(out) + 1] = Failure
      BY <1>1, <1>2, OutGrows DEF IInv, Typing
    <3> QED BY <3>1 DEF Told
  <2>2. \A k \in DOMAIN new : new[k].kind \notin {"text", "thought"}
    BY <1>2
  <2> QED BY <1>1, <1>2, <2>1, <2>2, RelayedStill DEF IInv
<1> QED BY <1>4, <1>5, <1>6, <1>7, <1>8 DEF IInv

LEMMA QuotedKeeps == IInv /\ MarkQuoted => IInv'
<1> SUFFICES ASSUME IInv, MarkQuoted PROVE IInv'
  OBVIOUS
<1>1. /\ live /\ ending = "none" /\ live' = FALSE /\ texts' = texts + 1 /\ quoted' = TRUE
      /\ UNCHANGED <<api, indexed, begun, sent, closed, ending, reported, odd>>
      /\ UNCHANGED <<pending, finishing, usage, out>>
  BY DEF MarkQuoted, Speaking, Nothing, adapter
<1>2. Typing'
  <2>1. texts' \in Nat /\ odd' \subseteq 1..texts'
    BY <1>1 DEF IInv, Typing
  <2> QED BY <1>1, <2>1 DEF IInv, Typing, Buffers
<1>3. Numbered'
  BY <1>1 DEF IInv, Numbered, Holds, Slot, IsCall
<1>4. Chosen'
  BY <1>1 DEF IInv, Chosen, Flushable, Chart, Slot, Shared, Merged, IsCall
<1>5. GivenOnce'
  BY <1>1 DEF IInv, GivenOnce, Complete, Merged, IsCall
<1>6. Relayed'
  <2>1. ~quoted /\ Ordered /\ AllSaid
    BY <1>1 DEF IInv, Relayed
  <2>2. 1..(texts + 1) = (1..texts) \cup {texts + 1} /\ texts + 1 \notin 1..texts
        /\ odd \subseteq 1..texts
    BY DEF IInv, Typing
  <2>3. (1..(texts + 1)) \ (odd \cup {texts + 1}) = (1..texts) \ odd
    BY <2>2
  <2>4. AllSaid'
    BY <1>1, <2>1, <2>3 DEF AllSaid, Said
  <2>5. Ordered' /\ Told'
    BY <1>1, <2>1 DEF Ordered, Said, Told
  <2> QED BY <1>1, <2>4, <2>5 DEF Relayed
<1> QED BY <1>2, <1>3, <1>4, <1>5, <1>6 DEF IInv

LEMMA FailsKeep == IInv /\ ProviderFails => IInv'
<1> SUFFICES ASSUME IInv, ProviderFails PROVE IInv'
  OBVIOUS
<1>1. /\ api # "completions" /\ ending = "none" /\ ending' = "failed"
      /\ UNCHANGED <<api, indexed, begun, sent, closed, texts, reported, odd, quoted>>
      /\ UNCHANGED <<pending, finishing, usage, out, live>>
  BY DEF ProviderFails, Speaking, Nothing, adapter
<1>2. Typing'
  BY <1>1 DEF IInv, Typing, Buffers
<1>3. Numbered'
  BY <1>1 DEF IInv, Numbered, Holds, Slot, IsCall
<1>4. Chosen'
  BY <1>1 DEF Chosen
<1>5. GivenOnce'
  BY <1>1 DEF IInv, GivenOnce, Complete, Merged, IsCall
<1>6. Relayed'
  <2>1. Told'
    BY <1>1 DEF Told
  <2> QED BY <1>1, <2>1, RelayedQuietly DEF IInv
<1> QED BY <1>2, <1>3, <1>4, <1>5, <1>6 DEF IInv

-----------------------------------------------------------------------------
(* The chat completions.                                                   *)

\* The calls are shared when there are more of them.
LEMMA SharedStill ==
  ASSUME NEW b \in SUBSET Calls, NEW more \in SUBSET Calls, b \subseteq more, Shared(b)
  PROVE  Shared(more)
BY TwoCalls DEF Shared

\* A chunk of a chat completion: what it says of a call is in the buffer of its slot.
LEMMA ChartGrows ==
  ASSUME IInv, api = "completions", ending = "none", NEW c \in Calls, NEW n \in 0..Parts,
         Sends(c, n)
  PROVE  Buffers(Accumulate(c, n)) /\ Chart(Accumulate(c, n), begun', sent')
<1>1. /\ begun' = begun \cup {c} /\ sent' = [sent EXCEPT ![c] = @ + n]
      /\ sent[c] + n <= Parts
  BY DEF Sends
<1>2. /\ sent[c] \in 0..Parts /\ sent'[c] = sent[c] + n /\ begun' \in SUBSET Calls
      /\ \A d \in Calls \ {c} : sent'[d] = sent[d]
      /\ c \notin begun => sent[c] = 0
  BY <1>1 DEF IInv, Typing
<1>3. Chart(pending, begun, sent) /\ Buffers(pending)
  BY DEF IInv, Typing, Chosen, Flushable
<1>4. Slot(c) \in 0..MaxCalls /\ c # 0
  BY SlotTyped, Numbers DEF IInv, Typing
<1> DEFINE more == SubSeq(Whole(c), sent[c] + 1, sent[c] + n)
           id   == IF c \in begun THEN Buffered(c).id ELSE c
           args == Buffered(c).args \o more
           new  == [id |-> id, args |-> args]
           f    == Put(Slot(c), new)
<1>5. more \in Seq(Pieces) /\ Prefix(c, sent[c]) \o more = Prefix(c, sent[c] + n)
  BY <1>1, <1>2, PrefixGrows
<1> HIDE DEF more
<1>6. id \in begun' /\ id \in Calls /\ Slot(id) = Slot(c)
  <2>1. CASE c \in begun
    <3>1. Slot(c) \in DOMAIN pending /\ id = pending[Slot(c)].id
      BY <1>3, <2>1 DEF Chart, Buffered
    <3> QED BY <1>1, <1>2, <1>3, <3>1 DEF Chart
  <2>2. CASE c \notin begun
    BY <1>1, <2>2
  <2> QED BY <2>1, <2>2
<1>7. args \in Seq(Pieces)
  <2>1. Buffered(c).args \in Seq(Pieces)
    BY <1>3 DEF Buffered, Buffers, BufferType
  <2> HIDE DEF Pieces
  <2> QED BY <1>5, <2>1, ConcatProperties
<1>8. ~Shared(begun') => id = c /\ args = Prefix(c, sent'[c])
  <2> SUFFICES ASSUME ~Shared(begun') PROVE id = c /\ args = Prefix(c, sent'[c])
    OBVIOUS
  <2>1. ~Shared(begun)
    BY <1>1, <1>2, SharedStill DEF IInv, Typing
  <2>2. CASE c \in begun
    <3>1. Buffered(c) = [id |-> c, args |-> Prefix(c, sent[c])]
      BY <1>3, <2>1, <2>2 DEF Chart, Buffered
    <3> QED BY <1>2, <1>5, <2>2, <3>1
  <2>3. CASE c \notin begun
    <3>1. Slot(c) \notin DOMAIN pending
      <4> SUFFICES ASSUME Slot(c) \in DOMAIN pending PROVE FALSE
        OBVIOUS
      <4> DEFINE d == pending[Slot(c)].id
      <4>1. d \in begun /\ d \in Calls /\ Slot(c) = Slot(d) /\ c # d
        BY <1>3, <2>3 DEF Chart, IInv, Typing
      <4>2. ~indexed
        BY <4>1, SlotTyped DEF IInv, Typing
      <4>3. Shared(begun')
        BY <1>1, <1>2, <4>1, <4>2, TwoCalls DEF Shared
      <4> QED BY <4>3
    <3>2. Buffered(c).args = <<>> /\ Prefix(c, 0) = <<>> /\ sent[c] = 0
      BY <1>2, <2>3, <3>1, PrefixTyped, Numbers DEF Buffered
    <3>3. args = Prefix(c, sent[c]) \o more
      BY <3>2
    <3> QED BY <1>2, <1>5, <2>3, <3>3
  <2> QED BY <2>2, <2>3
<1> HIDE DEF id, args
<1>9. new \in BufferType /\ new.id = id
  BY <1>6, <1>7 DEF BufferType
<1>10. Accumulate(c, n) = f
  BY <1>4 DEF Accumulate, f, new, id, args, more
<1> HIDE DEF new
<1>11. /\ Buffers(f) /\ DOMAIN f = DOMAIN pending \cup {Slot(c)} /\ f[Slot(c)] = new
       /\ \A s \in DOMAIN pending \ {Slot(c)} : f[s] = pending[s]
  BY <1>3, <1>4, <1>9, PutKeeps
<1> HIDE DEF f
<1>12. \A k \in DOMAIN f : f[k].id \in begun' /\ k = Slot(f[k].id)
  <2> TAKE k \in DOMAIN f
  <2>1. CASE k = Slot(c)
    BY <1>6, <1>9, <1>11, <2>1
  <2>2. CASE k # Slot(c)
    BY <1>1, <1>3, <1>11, <2>2 DEF Chart
  <2> QED BY <2>1, <2>2
<1>13. \A d \in begun' : Slot(d) \in DOMAIN f
  BY <1>1, <1>3, <1>11 DEF Chart
<1>14. ASSUME ~Shared(begun'), NEW d \in begun'
       PROVE  f[Slot(d)] = [id |-> d, args |-> Prefix(d, sent'[d])]
  <2>1. CASE d = c
    BY <1>8, <1>11, <1>14, <2>1 DEF new
  <2>2. CASE d # c
    <3>1. indexed /\ d \in begun /\ d \in Calls
      BY <1>1, <1>2, <1>14, <2>2, TwoCalls DEF Shared, IInv, Typing
    <3>2. Slot(d) # Slot(c)
      BY <2>2, <3>1, SlotTyped DEF IInv
    <3>3. ~Shared(begun)
      BY <3>1 DEF Shared
    <3> QED BY <1>2, <1>3, <1>11, <2>2, <3>1, <3>2, <3>3 DEF Chart
  <2> QED BY <2>1, <2>2
<1> QED BY <1>10, <1>11, <1>12, <1>13, <1>14 DEF Chart

\* Of any chunk with a choice, as long as the response goes on.
ChoiceMade(c, n, says, u) ==
  /\ c \in Calls \cup {0} /\ n \in {0, 1, Parts} /\ says \in {0, 1} /\ u \in Usages \cup {0}
  /\ Choice(c, n, says, u)

LEMMA ChoiceIs ==
  ASSUME IInv, NEW c, NEW n, NEW says, NEW u, ChoiceMade(c, n, says, u)
  PROVE  /\ api = "completions" /\ live /\ ending = "none" /\ ~finishing /\ ~quoted
         /\ \A i : ~IsCall(i)
         /\ Chart(Accumulate(c, n), begun', sent') /\ Buffers(Accumulate(c, n))
         /\ begun' \subseteq Calls
         /\ sent' \in [Calls -> 0..Parts] /\ \A d \in Calls \ begun' : sent'[d] = 0
         /\ texts' = texts + says /\ texts' \in Nat /\ reported' \in Nat
         /\ usage' = reported'
         /\ closed = {} /\ UNCHANGED <<api, indexed, closed, quoted>>
<1>1. /\ api = "completions" /\ live /\ ending = "none"
      /\ texts' = texts + says /\ reported' = (IF u = 0 THEN reported ELSE u)
      /\ usage' = Known(u) /\ UNCHANGED <<api, indexed, closed, quoted>>
  BY DEF ChoiceMade, Choice, Speaking
<1>2. texts' \in Nat /\ reported' \in Nat
  BY <1>1, Numbers DEF ChoiceMade, IInv, Typing
<1>3. ~finishing /\ ~quoted /\ (\A i : ~IsCall(i)) /\ Chart(pending, begun, sent)
      /\ closed = {} /\ usage = reported
  BY <1>1 DEF IInv, Chosen, Flushable, Relayed
<1>4. /\ Chart(Accumulate(c, n), begun', sent') /\ Buffers(Accumulate(c, n))
      /\ begun' \subseteq Calls
      /\ sent' \in [Calls -> 0..Parts] /\ \A d \in Calls \ begun' : sent'[d] = 0
  <2>1. CASE c = 0
    <3>1. begun' = begun /\ sent' = sent /\ Accumulate(c, n) = pending
      BY <2>1 DEF ChoiceMade, Choice, Accumulate
    <3> QED BY <1>3, <3>1 DEF IInv, Typing, Chart
  <2>2. CASE c # 0
    <3>1. c \in Calls /\ n \in 0..Parts /\ Sends(c, n)
      BY <2>2, Numbers DEF ChoiceMade, Choice
    <3>2. Chart(Accumulate(c, n), begun', sent') /\ Buffers(Accumulate(c, n))
      BY <1>1, <3>1, ChartGrows
    <3>3. /\ begun' = begun \cup {c} /\ sent' = [sent EXCEPT ![c] = @ + n]
          /\ sent[c] + n <= Parts
      BY <3>1 DEF Sends
    <3>4. sent[c] + n \in 0..Parts
      BY <3>1, <3>3, Numbers DEF IInv, Typing
    <3> QED BY <3>1, <3>2, <3>3, <3>4 DEF IInv, Typing
  <2> QED BY <2>1, <2>2
<1> QED BY <1>1, <1>2, <1>3, <1>4 DEF Known

\* A batch has each of the buffers once.
LEMMA BatchIs ==
  ASSUME NEW f, Buffers(f), \A k \in DOMAIN f : k = Slot(f[k].id), NEW batch \in Batches(f)
  PROVE  /\ batch \in Seq(Chunk) /\ \A i \in DOMAIN batch : batch[i].kind = "call"
         /\ \A i \in DOMAIN batch :
              \E k \in DOMAIN f : batch[i] = ToolCall(f[k].id, Parsed(f[k].args))
         /\ \A k \in DOMAIN f :
              \E i \in DOMAIN batch : batch[i] = ToolCall(f[k].id, Parsed(f[k].args))
         /\ \A i, j \in DOMAIN batch : batch[i].id = batch[j].id => i = j
<1> DEFINE N == Cardinality(DOMAIN f)
           given(k) == ToolCall(f[k].id, Parsed(f[k].args))
<1>1. Slots(f) = DOMAIN f
  BY Numbers DEF Slots, Buffers, BufferType
<1>2. N \in Nat
  <2>1. IsFiniteSet(0..MaxCalls)
    BY Numbers, FS_Interval
  <2> QED BY <2>1, FS_Subset, FS_CardinalityType DEF Buffers
<1>3. \A k \in DOMAIN f : given(k) \in Chunk /\ given(k).kind = "call" /\ given(k).id = f[k].id
  BY ParsedIs DEF Buffers, BufferType, ToolCall, Chunk, CallChunk
<1>4. \A k, l \in DOMAIN f : given(k).id = given(l).id => k = l
  BY <1>3
<1> HIDE DEF N
<1>5. PICK order \in Bijection(1..N, DOMAIN f) : batch = [i \in DOMAIN order |-> given(order[i])]
  BY <1>1 DEF Batches, N
<1> HIDE DEF given
<1>6. /\ order \in [1..N -> DOMAIN f] /\ DOMAIN order = 1..N
      /\ \A i, j \in 1..N : order[i] = order[j] => i = j
      /\ \A k \in DOMAIN f : \E i \in 1..N : order[i] = k
  BY <1>5 DEF Bijection, Injection, Surjection, IsInjective
<1>7. /\ DOMAIN batch = 1..N /\ batch \in [1..N -> Chunk]
      /\ \A i \in 1..N : order[i] \in DOMAIN f /\ batch[i] = given(order[i])
  BY <1>3, <1>5, <1>6
<1>8. batch \in Seq(Chunk)
  BY <1>2, <1>7
<1>9. \A i \in DOMAIN batch : batch[i].kind = "call"
  BY <1>3, <1>7
<1>10. \A i \in DOMAIN batch : \E k \in DOMAIN f : batch[i] = given(k)
  BY <1>7
<1>11. \A k \in DOMAIN f : \E i \in DOMAIN batch : batch[i] = given(k)
  BY <1>6, <1>7
<1>12. \A i, j \in DOMAIN batch : batch[i].id = batch[j].id => i = j
  BY <1>4, <1>6, <1>7
<1> QED BY <1>8, <1>9, <1>10, <1>11, <1>12 DEF given

\* When all that is buffered is handed over, with what follows it, each call is out once,
\* with its arguments, unless calls share a buffer.
LEMMA Flush ==
  ASSUME out \in Seq(Chunk), \A i : ~IsCall(i), NEW f, Buffers(f), NEW b \in SUBSET Calls,
         NEW s, Chart(f, b, s), indexed' = indexed, api' = "completions",
         begun' = b, sent' = s,
         NEW batch \in Batches(f), NEW end \in Seq(Chunk),
         \A k \in DOMAIN end : end[k].kind = "stop", out' = out \o (batch \o end)
  PROVE  /\ out' \in Seq(Chunk) /\ GivenOnce'
         /\ ~Merged' => \A c \in b : \E i : (IsCall(i))' /\ out'[i].id = c
         /\ \A k \in DOMAIN (batch \o end) : (batch \o end)[k].kind \notin {"text", "thought"}
<1> DEFINE new == batch \o end
           given(k) == ToolCall(f[k].id, Parsed(f[k].args))
<1>1. /\ batch \in Seq(Chunk) /\ \A i \in DOMAIN batch : batch[i].kind = "call"
      /\ \A i \in DOMAIN batch : \E k \in DOMAIN f : batch[i] = given(k)
      /\ \A k \in DOMAIN f : \E i \in DOMAIN batch : batch[i] = given(k)
      /\ \A i, j \in DOMAIN batch : batch[i].id = batch[j].id => i = j
  BY BatchIs DEF Chart
<1>2. \A k \in DOMAIN f : given(k).id = f[k].id /\ given(k).arg = Parsed(f[k].args)
  BY DEF ToolCall
<1> HIDE DEF given, Chunk
<1>3. /\ new \in Seq(Chunk) /\ Len(new) = Len(batch) + Len(end)
      /\ Len(batch) \in Nat /\ Len(end) \in Nat
      /\ DOMAIN batch = 1..Len(batch) /\ DOMAIN end = 1..Len(end)
      /\ DOMAIN new = 1..Len(new)
      /\ \A i \in 1..Len(batch) : new[i] = batch[i]
      /\ \A i \in (Len(batch) + 1)..Len(new) : new[i] = end[i - Len(batch)]
  BY <1>1, ConcatProperties
<1> HIDE DEF new
<1>4. \A i \in DOMAIN new : (new[i].kind = "call" <=> i \in DOMAIN batch)
                            /\ new[i].kind \in {"call", "stop"}
  <2> TAKE i \in DOMAIN new
  <2>1. CASE i \in DOMAIN batch
    BY <1>1, <1>3, <2>1
  <2>2. CASE i \notin DOMAIN batch
    <3>1. i \in (Len(batch) + 1)..Len(new) /\ i - Len(batch) \in DOMAIN end
      BY <1>3, <2>2
    <3>2. new[i] = end[i - Len(batch)]
      BY <1>3, <3>1
    <3> QED BY <2>2, <3>1, <3>2
  <2> QED BY <2>1, <2>2
<1>5. /\ out' \in Seq(Chunk) /\ Len(out) \in Nat /\ DOMAIN out = 1..Len(out)
      /\ \A i \in DOMAIN out : out'[i] = out[i]
      /\ \A i \in DOMAIN out' \ DOMAIN out :
           i \in Int /\ i - Len(out) \in DOMAIN new /\ out'[i] = new[i - Len(out)]
      /\ \A k \in DOMAIN new : Len(out) + k \in DOMAIN out' /\ out'[Len(out) + k] = new[k]
  <2>1. out' = out \o new
    BY DEF new
  <2> QED BY <1>3, <2>1, OutGrows
<1>6. ASSUME NEW i, (IsCall(i))'
      PROVE  /\ i \in Int /\ i - Len(out) \in DOMAIN batch
             /\ out'[i] = batch[i - Len(out)]
  <2>1. i \in DOMAIN out' /\ out'[i].kind = "call"
    BY <1>6 DEF IsCall
  <2>2. i \notin DOMAIN out
    BY <1>5, <2>1 DEF IsCall
  <2>3. i - Len(out) \in DOMAIN batch
    BY <1>4, <1>5, <2>1, <2>2
  <2> QED BY <1>3, <1>5, <2>1, <2>2, <2>3
<1>7. ASSUME NEW k \in DOMAIN batch PROVE \E i : (IsCall(i))' /\ out'[i] = batch[k]
  <2>1. k \in DOMAIN new /\ new[k] = batch[k]
    BY <1>3, <1>7
  <2>2. Len(out) + k \in DOMAIN out' /\ out'[Len(out) + k] = batch[k]
    BY <1>5, <2>1
  <2> QED BY <1>1, <2>2 DEF IsCall
<1>8. Merged' <=> Shared(b)
  BY DEF Merged, Shared
<1>9. GivenOnce'
  <2>1. ASSUME NEW i, (IsCall(i))', NEW j, (IsCall(j))', out'[j].id = out'[i].id
        PROVE  j = i
    <3> DEFINE k == i - Len(out)
               l == j - Len(out)
    <3>1. /\ i \in Int /\ k \in DOMAIN batch /\ out'[i] = batch[k]
          /\ j \in Int /\ l \in DOMAIN batch /\ out'[j] = batch[l]
      BY <1>6, <2>1
    <3> HIDE DEF k, l
    <3>2. k = l
      BY <1>1, <2>1, <3>1
    <3> QED BY <1>5, <3>1, <3>2 DEF k, l
  <2>2. ASSUME NEW i, (IsCall(i))', ~Shared(b), out'[i].id \in b, s[out'[i].id] = Parts
        PROVE  out'[i].arg = out'[i].id
    <3>1. PICK k \in DOMAIN f : out'[i] = given(k)
      BY <1>1, <1>6, <2>2
    <3> DEFINE c == out'[i].id
    <3>2. f[k].id = c /\ k = Slot(c) /\ c \in Calls
      BY <1>2, <2>2, <3>1 DEF Chart
    <3>3. f[k].args = Prefix(c, Parts)
      <4>1. f[k] = [id |-> c, args |-> Prefix(c, s[c])]
        BY <2>2, <3>2 DEF Chart
      <4>2. s[c] = Parts
        BY <2>2
      <4> HIDE DEF c
      <4> QED BY <4>1, <4>2
    <3>4. Parsed(f[k].args) = c
      <4>1. Parts \in 0..Parts
        BY Numbers
      <4> QED BY <3>2, <3>3, <4>1, PrefixTyped, ParsedIs
    <3> QED BY <1>2, <3>1, <3>4
  <2> QED BY <1>8, <2>1, <2>2 DEF GivenOnce, Complete
<1>10. ASSUME ~Merged', NEW c \in b PROVE \E i : (IsCall(i))' /\ out'[i].id = c
  <2>1. Slot(c) \in DOMAIN f /\ f[Slot(c)].id = c
    <3>1. ~Shared(b)
      BY <1>8, <1>10
    <3>2. Slot(c) \in DOMAIN f /\ f[Slot(c)] = [id |-> c, args |-> Prefix(c, s[c])]
      BY <1>10, <3>1 DEF Chart
    <3> QED BY <3>2
  <2>2. PICK k \in DOMAIN batch : batch[k] = given(Slot(c))
    BY <1>1, <2>1
  <2>3. batch[k].id = c
    BY <1>2, <2>1, <2>2
  <2> QED BY <1>7, <2>3
<1> QED BY <1>4, <1>5, <1>9, <1>10 DEF new

\* A chunk with a choice after which nothing is handed over.
LEMMA ChoiceKeeps ==
  ASSUME IInv, NEW c, NEW n, NEW says, NEW u, ChoiceMade(c, n, says, u),
         pending' = Accumulate(c, n),
         NEW new \in Seq(Chunk), out' = out \o new, \A k \in DOMAIN new : new[k].kind # "call",
         finishing' \in BOOLEAN, live' \in BOOLEAN, odd' \subseteq 1..texts',
         ending' \in {"none", "regular", "cut"}, finishing' <=> ending' # "none"
  PROVE  Typing' /\ Numbered' /\ Chosen' /\ GivenOnce'
<1>1. /\ api = "completions" /\ \A i : ~IsCall(i)
      /\ Chart(Accumulate(c, n), begun', sent') /\ Buffers(Accumulate(c, n))
      /\ begun' \subseteq Calls
      /\ sent' \in [Calls -> 0..Parts] /\ \A d \in Calls \ begun' : sent'[d] = 0
      /\ texts' \in Nat /\ reported' \in Nat /\ usage' = reported'
      /\ closed = {} /\ UNCHANGED <<api, indexed, closed, quoted>>
  BY ChoiceIs
<1>2. out' \in Seq(Chunk) /\ \A i : ~(IsCall(i))'
  BY <1>1, OutGrows, Uncalled DEF IInv, Typing, SameCalls
<1>3. Typing'
  BY <1>1, <1>2 DEF IInv, Typing, Buffers
<1>4. Numbered'
  BY <1>1 DEF Numbered
<1>5. (Chart(pending, begun, sent))'
  BY <1>1 DEF Chart, Slot, Shared
<1>6. Chosen'
  BY <1>1, <1>2, <1>5 DEF Chosen
<1>7. GivenOnce'
  BY <1>2 DEF GivenOnce
<1> QED BY <1>3, <1>4, <1>6, <1>7

\* The text of a chunk with a finish reason is left out, and is in `odd`.
LEMMA RelayedFinish ==
  ASSUME Typing, Relayed, ~quoted, quoted' = quoted, NEW new \in Seq(Chunk),
         out' = out \o new,
         \A k \in DOMAIN new : new[k].kind \notin {"text", "thought"},
         NEW says \in {0, 1}, texts' = texts + says,
         odd' = odd \cup (IF says = 1 THEN {texts'} ELSE {}), Told'
  PROVE  Relayed' /\ odd' \subseteq 1..texts'
<1>1. Ordered' /\ {out'[i].n : i \in Said'} = {out[i].n : i \in Said} /\ AllSaid
  BY Unsaid DEF Relayed, Typing
<1>2. odd \subseteq 1..texts /\ 1..(texts + 1) = (1..texts) \cup {texts + 1} /\ texts + 0 = texts
  BY DEF Typing
<1>3. (1..texts') \ odd' = (1..texts) \ odd /\ odd' \subseteq 1..texts'
  <2>1. CASE says = 0
    BY <1>2, <2>1
  <2>2. CASE says = 1
    <3>1. texts + 1 \notin 1..texts
      BY DEF Typing
    <3> QED BY <1>2, <2>2, <3>1
  <2> QED BY <2>1, <2>2
<1>4. AllSaid'
  BY <1>1, <1>3 DEF AllSaid
<1> QED BY <1>1, <1>3, <1>4 DEF Relayed

LEMMA DeltaKeeps ==
  ASSUME IInv, NEW c \in Calls \cup {0}, NEW n \in {0, 1, Parts}, NEW says \in {0, 1},
         ChoiceDelta(c, n, says)
  PROVE  IInv'
<1> DEFINE new == IF says = 1 THEN <<Text(texts + 1)>> ELSE <<>>
<1>1. ChoiceMade(c, n, says, 0) /\ pending' = Accumulate(c, n)
      /\ UNCHANGED <<ending, odd, finishing, live>>
  BY DEF ChoiceDelta, ChoiceMade
<1>2. /\ live /\ ending = "none" /\ ~finishing /\ ~quoted /\ quoted' = quoted
      /\ texts' = texts + says
  BY <1>1, ChoiceIs
<1>3. out \in Seq(Chunk) /\ texts \in Nat /\ odd \subseteq 1..texts /\ live \in BOOLEAN
  BY DEF IInv, Typing
<1>4. Text(texts + 1) \in Chunk /\ Text(texts + 1).kind = "text"
  BY <1>3 DEF Text, Chunk, SaidChunk
<1>5. out' = out \o new
  <2>1. CASE says = 1
    BY <1>2, <2>1 DEF ChoiceDelta, Emit
  <2>2. CASE says = 0
    BY <1>3, <2>2 DEF ChoiceDelta, Nothing
  <2> QED BY <2>1, <2>2
<1>6. new \in Seq(Chunk) /\ \A k \in DOMAIN new : new[k].kind = "text"
  BY <1>4
<1>7. Typing' /\ Numbered' /\ Chosen' /\ GivenOnce'
  <2>1. odd' \subseteq 1..texts'
    BY <1>1, <1>2, <1>3
  <2>2. \A k \in DOMAIN new : new[k].kind # "call"
    BY <1>6
  <2>3. /\ finishing' \in BOOLEAN /\ live' \in BOOLEAN
        /\ ending' \in {"none", "regular", "cut"} /\ (finishing' <=> ending' # "none")
    BY <1>1, <1>2 DEF IInv, Typing
  <2> HIDE DEF new
  <2> QED BY <1>1, <1>5, <1>6, <2>1, <2>2, <2>3, ChoiceKeeps
<1>8. Relayed'
  <2>1. Ordered /\ AllSaid
    BY DEF IInv, Relayed
  <2>2. Told'
    BY <1>1, <1>2 DEF Told
  <2>3. CASE says = 1
    <3>1. Ordered' /\ {out'[i].n : i \in Said'} = {out[i].n : i \in Said} \cup {texts + 1}
      BY <1>3, <1>5, <2>1, <2>3, SaidNumbers, SaidNext DEF IInv
    <3>2. 1..(texts + 1) = (1..texts) \cup {texts + 1} /\ texts + 1 \notin odd
      BY <1>3
    <3>3. AllSaid'
      BY <1>1, <1>2, <2>1, <2>3, <3>1, <3>2 DEF AllSaid
    <3> QED BY <1>2, <2>2, <3>1, <3>3 DEF Relayed
  <2>4. CASE says = 0
    <3>1. out' = out /\ texts' = texts
      BY <1>2, <1>3, <1>5, <2>4
    <3> QED BY <1>1, <1>2, <2>2, <3>1, RelayedQuietly DEF IInv
  <2> QED BY <2>3, <2>4
<1> QED BY <1>7, <1>8 DEF IInv

\* Of a chunk with a finish reason after which nothing is handed over.
LEMMA CutKeeps ==
  ASSUME IInv, NEW c, NEW n, NEW says, NEW u, ChoiceMade(c, n, says, u),
         pending' = Accumulate(c, n), NEW how \in {"regular", "cut"}, Finish(says, how),
         NEW new \in Seq(Chunk), out' = out \o new,
         \A k \in DOMAIN new : new[k].kind \in {"stop", "error"},
         finishing' = TRUE, live' \in BOOLEAN, Told'
  PROVE  IInv'
<1>1. /\ ending' = how /\ odd' = odd \cup (IF says = 1 THEN {texts'} ELSE {})
      /\ says \in {0, 1}
  BY DEF Finish, ChoiceMade
<1>2. ~quoted /\ quoted' = quoted /\ texts' = texts + says
  BY ChoiceIs
<1>3. /\ \A k \in DOMAIN new : new[k].kind # "call"
      /\ \A k \in DOMAIN new : new[k].kind \notin {"text", "thought"}
  OBVIOUS
<1>4. Relayed' /\ odd' \subseteq 1..texts'
  BY <1>1, <1>2, <1>3, RelayedFinish DEF IInv
<1>5. /\ finishing' \in BOOLEAN /\ ending' \in {"none", "regular", "cut"}
      /\ finishing' <=> ending' # "none"
  BY <1>1
<1>6. Typing' /\ Numbered' /\ Chosen' /\ GivenOnce'
  BY <1>3, <1>4, <1>5, ChoiceKeeps
<1> QED BY <1>4, <1>6 DEF IInv

LEMMA FinishesKeep ==
  ASSUME IInv, NEW c \in Calls \cup {0}, NEW n \in {0, 1, Parts}, NEW says \in {0, 1},
         NEW u \in Usages \cup {0},
         FinishStop(c, n, says, u) \/ FinishLength(c, n, says, u) \/ FinishOther(c, n, says, u)
  PROVE  IInv'
<1>1. ChoiceMade(c, n, says, u) /\ pending' = Accumulate(c, n) /\ finishing' = TRUE
  BY DEF FinishStop, FinishLength, FinishOther, ChoiceMade
<1>2. reported' \in Nat /\ usage' = reported'
  BY <1>1, ChoiceIs
<1>3. out \in Seq(Chunk) /\ live \in BOOLEAN
  BY DEF IInv, Typing
<1>4. CASE FinishStop(c, n, says, u)
  <2> DEFINE new == <<Stop(usage')>>
  <2>1. Finish(says, "regular") /\ out' = out \o new /\ live' \in BOOLEAN
    BY <1>3, <1>4 DEF FinishStop, Emit
  <2>2. Stop(usage') \in Chunk /\ Stop(usage').kind = "stop"
    BY <1>2 DEF Stop, Chunk, EndChunk
  <2>3. new \in Seq(Chunk) /\ (\A k \in DOMAIN new : new[k].kind \in {"stop", "error"})
        /\ Len(new) = 1 /\ DOMAIN new = {1} /\ new[1] = Stop(usage')
    BY <2>2
  <2> HIDE DEF new
  <2>4. Told'
    <3>1. Len(out') = Len(out) + 1 /\ Len(out) \in Nat /\ out'[Len(out) + 1] = Stop(reported')
      BY <1>2, <1>3, <2>1, <2>3, OutGrows
    <3> QED BY <3>1 DEF Told, Stop
  <2> QED BY <1>1, <2>1, <2>3, <2>4, CutKeeps
<1>5. CASE FinishLength(c, n, says, u)
  <2> DEFINE new == <<Failure>>
  <2>1. Finish(says, "cut") /\ out' = out \o new /\ live' \in BOOLEAN
    BY <1>5 DEF FinishLength, Emit
  <2>2. new \in Seq(Chunk) /\ \A k \in DOMAIN new : new[k].kind \in {"stop", "error"}
    BY DEF Failure, Chunk, EndChunk
  <2>3. Told'
    BY <2>1 DEF Finish, Told
  <2> HIDE DEF new
  <2> QED BY <1>1, <2>1, <2>2, <2>3, CutKeeps
<1>6. CASE FinishOther(c, n, says, u)
  <2> DEFINE new == <<>>
  <2>1. Finish(says, "cut") /\ out' = out \o new /\ live' \in BOOLEAN
    BY <1>3, <1>6 DEF FinishOther, Nothing
  <2>2. new \in Seq(Chunk) /\ \A k \in DOMAIN new : new[k].kind \in {"stop", "error"}
    OBVIOUS
  <2>3. Told'
    BY <2>1 DEF Finish, Told
  <2> HIDE DEF new
  <2> QED BY <1>1, <2>1, <2>2, <2>3, CutKeeps
<1> QED BY <1>4, <1>5, <1>6

LEMMA ToolCallsKeep ==
  ASSUME IInv, NEW c \in Calls \cup {0}, NEW n \in {0, 1, Parts}, NEW says \in {0, 1},
         NEW u \in Usages \cup {0}, FinishToolCalls(c, n, says, u)
  PROVE  IInv'
<1> DEFINE f == Accumulate(c, n)
<1>1. /\ ChoiceMade(c, n, says, u) /\ Finish(says, "calls")
      /\ pending' = <<>> /\ finishing' = FALSE /\ live' = live
  BY DEF FinishToolCalls, ChoiceMade
<1>2. PICK batch \in Batches(f) : out' = out \o batch
  BY DEF FinishToolCalls, Emit
<1>3. /\ api = "completions" /\ ~quoted /\ \A i : ~IsCall(i)
      /\ Chart(f, begun', sent') /\ Buffers(f)
      /\ begun' \subseteq Calls
      /\ sent' \in [Calls -> 0..Parts] /\ \A d \in Calls \ begun' : sent'[d] = 0
      /\ texts' = texts + says /\ texts' \in Nat /\ reported' \in Nat /\ usage' = reported'
      /\ closed = {} /\ UNCHANGED <<api, indexed, closed, quoted>>
  BY <1>1, ChoiceIs
<1> HIDE DEF f
<1>4. out \in Seq(Chunk) /\ batch \in Seq(Chunk) /\ <<>> \in Seq(Chunk)
  BY <1>3, BatchIs DEF IInv, Typing, Chart
<1>5. batch \o <<>> = batch
  BY <1>4
<1>6. /\ out' \in Seq(Chunk) /\ GivenOnce'
      /\ ~Merged' => \A d \in begun' : \E i : (IsCall(i))' /\ out'[i].id = d
      /\ \A k \in DOMAIN batch : batch[k].kind \notin {"text", "thought"}
  <2>1. out' = out \o (batch \o <<>>) /\ api' = "completions"
    BY <1>2, <1>3, <1>5
  <2>2. \A k \in DOMAIN <<>> : <<>>[k].kind = "stop"
    OBVIOUS
  <2>3. batch \in Batches(f) /\ begun' \in SUBSET Calls /\ indexed' = indexed
    BY <1>2, <1>3
  <2>4. /\ out' \in Seq(Chunk) /\ GivenOnce'
        /\ ~Merged' => \A d \in begun' : \E i : (IsCall(i))' /\ out'[i].id = d
        /\ \A k \in DOMAIN (batch \o <<>>) :
             (batch \o <<>>)[k].kind \notin {"text", "thought"}
    BY <1>3, <1>4, <2>1, <2>2, <2>3, Flush
  <2> QED BY <1>5, <2>4
<1>7. /\ ending' = "calls" /\ odd' = odd \cup (IF says = 1 THEN {texts'} ELSE {})
  BY <1>1 DEF Finish
<1>8. Relayed' /\ odd' \subseteq 1..texts'
  <2>1. Told'
    BY <1>7 DEF Told
  <2> QED BY <1>2, <1>3, <1>4, <1>6, <1>7, <2>1, RelayedFinish DEF IInv
<1>9. Typing'
  <2>1. Buffers(pending)'
    BY <1>1, Numbers DEF Buffers
  <2>2. finishing' \in BOOLEAN /\ live' \in BOOLEAN
    BY <1>1 DEF IInv, Typing
  <2> QED BY <1>3, <1>6, <1>7, <1>8, <2>1, <2>2 DEF IInv, Typing
<1>10. Numbered'
  BY <1>3 DEF Numbered
<1>11. Chosen'
  BY <1>1, <1>3, <1>6, <1>7 DEF Chosen, Flushable
<1> QED BY <1>6, <1>8, <1>9, <1>10, <1>11 DEF IInv

LEMMA UsageKeeps == \A u \in Usages : IInv /\ UsageChunk(u) => IInv'
<1> SUFFICES ASSUME NEW u \in Usages, IInv, UsageChunk(u) PROVE IInv'
  OBVIOUS
<1>1. /\ api = "completions" /\ reported = 0 /\ reported' = u
      /\ ending' = (IF ending = "regular" THEN "settled" ELSE ending)
      /\ UNCHANGED <<api, indexed, begun, sent, closed, texts, odd, quoted, finishing, live>>
  BY DEF UsageChunk
<1>2. u \in Nat /\ u # 0 /\ usage' = u
  BY Numbers DEF UsageChunk, Known
<1>3. /\ closed = {} /\ ending # "failed" /\ ending # "settled" /\ out \in Seq(Chunk)
      /\ ending = "none" => ~finishing
      /\ ending = "regular" => finishing
      /\ ending = "calls" => ~finishing
  BY <1>1 DEF IInv, Chosen, Typing
<1>4. Numbered'
  BY <1>1 DEF Numbered
<1>5. CASE ~finishing
  <2>1. pending' = pending /\ out' = out /\ ending' = ending
    BY <1>1, <1>3, <1>5 DEF UsageChunk, Nothing
  <2>2. SameCalls
    BY <2>1 DEF SameCalls, IsCall
  <2>3. Typing'
    BY <1>1, <1>2, <2>1 DEF IInv, Typing, Buffers
  <2>4. Chosen'
    BY <1>1, <1>2, <1>3, <1>5, <2>1
    DEF IInv, Chosen, Flushable, Chart, Slot, Shared, Merged, IsCall
  <2>5. GivenOnce'
    BY <1>1, <2>2, GivenStill DEF IInv, Merged, Complete
  <2>6. Relayed'
    <3>1. Told'
      BY <1>3, <1>5, <2>1 DEF Told
    <3> QED BY <1>1, <2>1, <3>1, RelayedQuietly DEF IInv
  <2> QED BY <1>4, <2>3, <2>4, <2>5, <2>6 DEF IInv
<1>6. CASE finishing
  <2> DEFINE end == <<Stop(u)>>
  <2>1. pending' = <<>>
    BY <1>6 DEF UsageChunk
  <2>2. PICK batch \in Batches(pending) : out' = out \o (batch \o end)
    BY <1>2, <1>6 DEF UsageChunk, Flushed, Emit
  <2>3. (\A i : ~IsCall(i)) /\ Chart(pending, begun, sent) /\ Buffers(pending)
        /\ begun \in SUBSET Calls
    BY <1>1, <1>6 DEF IInv, Chosen, Flushable, Typing
  <2>4. Stop(u) \in Chunk /\ Stop(u).kind = "stop"
    BY <1>2 DEF Stop, Chunk, EndChunk
  <2>5. end \in Seq(Chunk) /\ (\A k \in DOMAIN end : end[k].kind = "stop")
        /\ Len(end) = 1 /\ end[1] = Stop(u)
    BY <2>4
  <2> HIDE DEF end
  <2>6. batch \in Seq(Chunk)
    BY <2>3, BatchIs DEF Chart
  <2>7. /\ out' \in Seq(Chunk) /\ GivenOnce'
        /\ ~Merged' => \A d \in begun : \E i : (IsCall(i))' /\ out'[i].id = d
        /\ \A k \in DOMAIN (batch \o end) : (batch \o end)[k].kind \notin {"text", "thought"}
    <3>1. api' = "completions" /\ indexed' = indexed /\ begun' = begun /\ sent' = sent
      BY <1>1
    <3> QED BY <1>3, <2>2, <2>3, <2>5, <3>1, Flush
  <2> DEFINE new == batch \o end
  <2>8. new \in Seq(Chunk) /\ Len(new) = Len(batch) + 1 /\ Len(batch) \in Nat
        /\ new[Len(batch) + 1] = Stop(u)
    <3> HIDE DEF Chunk
    <3>1. new \in Seq(Chunk) /\ Len(new) = Len(batch) + Len(end) /\ Len(batch) \in Nat
      BY <2>5, <2>6, ConcatProperties
    <3> QED BY <2>5, <2>6, <3>1, ConcatProperties
  <2>9. Typing'
    BY <1>1, <1>2, <2>1, <2>7 DEF IInv, Typing, Buffers
  <2>10. Chosen'
    BY <1>1, <1>2, <1>3, <1>6, <2>7 DEF IInv, Chosen, Flushable
  <2>11. Relayed'
    <3>1. out' = out \o new
      BY <2>2
    <3> HIDE DEF new
    <3>2. Len(out) \in Nat /\ Len(out') = Len(out) + Len(new)
          /\ out'[Len(out) + (Len(batch) + 1)] = Stop(u)
      <4>1. DOMAIN new = 1..Len(new) /\ Len(batch) + 1 \in DOMAIN new
        BY <2>8
      <4> QED BY <1>3, <2>8, <3>1, <4>1, OutGrows
    <3>3. Told'
      BY <1>1, <2>8, <3>2 DEF Told, Stop
    <3> QED BY <1>1, <2>7, <2>8, <3>1, <3>3, RelayedStill DEF IInv, new
  <2> QED BY <1>4, <2>7, <2>9, <2>10, <2>11 DEF IInv
<1> QED BY <1>5, <1>6

-----------------------------------------------------------------------------
(* Any step, and what follows.                                             *)

LEMMA Step == IInv /\ [Next]_vars => IInv'
<1> SUFFICES ASSUME IInv, [Next]_vars PROVE IInv'
  OBVIOUS
<1>1. CASE Responses \/ Anthropic \/ Gemini
  <2>1. \/ Speaks
        \/ \E c \in Calls : Starts(c) \/ GoesOn(c) \/ Stops(c)
        \/ \E u \in Usages \cup {0} : Completes(u)
    BY <1>1, FiveSteps DEF IInv
  <2> QED BY <2>1, SpeaksKeeps, StartsKeeps, GoesOnKeeps, StopsKeeps, CompletesKeeps
<1>2. CASE Completions
  BY <1>2, UsageKeeps, DeltaKeeps, ToolCallsKeep, FinishesKeep DEF Completions
<1>3. CASE UNCHANGED vars
  <2>1. UNCHANGED <<api, indexed, begun, sent, closed, texts, ending, reported, odd, quoted,
                    pending, finishing, usage, live, out>>
    BY <1>3 DEF vars, provider, adapter
  <2>2. Typing'
    BY <2>1 DEF IInv, Typing, Buffers
  <2>3. Numbered' /\ GivenOnce'
    BY <2>1 DEF IInv, Numbered, Holds, Slot, IsCall, GivenOnce, Complete, Merged
  <2>4. Chosen'
    BY <2>1 DEF IInv, Chosen, Flushable, Chart, Slot, Shared, Merged, IsCall
  <2>5. Told'
    BY <2>1 DEF IInv, Relayed, Told, Stop
  <2> QED BY <2>1, <2>2, <2>3, <2>4, <2>5, RelayedQuietly DEF IInv
<1> QED BY <1>1, <1>2, <1>3, EndsKeep, BreaksKeep, QuotedKeeps, FailsKeep DEF Next

\* The buffers, the progress of the calls and what is out agree in every reachable state.
THEOREM Invariance == Spec => []IInv
BY Beginning, Step, PTL DEF Spec

\* Every variable keeps its type.
THEOREM TypeCorrect == Spec => []Typing
<1>1. IInv => Typing
  BY DEF IInv
<1> QED BY <1>1, Invariance, PTL

\* A tool call is handed over once, with all its arguments, and none is left behind.
THEOREM CallsWhole == Spec => []CallsHandedOver
<1>1. ASSUME IInv PROVE CallsHandedOver
  <2>1. ASSUME NEW c \in Calls PROVE Cardinality(Handed(c)) <= 1
    <3>1. \A i, j \in Handed(c) : i = j
      BY <1>1 DEF Handed, IInv, GivenOnce, IsCall
    <3>2. CASE Handed(c) = {}
      BY <3>2, FS_EmptySet
    <3>3. CASE Handed(c) # {}
      <4>1. PICK i \in Handed(c) : TRUE
        BY <3>3
      <4>2. Handed(c) = {i}
        BY <3>1
      <4> QED BY <4>2, FS_Singleton
    <3> QED BY <3>2, <3>3
  <2>2. ASSUME NEW c \in Calls, NEW i \in Handed(c)
        PROVE  out[i].arg = c \/ ~Complete(c) \/ Merged
    BY <1>1, <2>2 DEF Handed, IInv, GivenOnce, IsCall
  <2>3. ASSUME NEW c \in begun, ~Merged,
               ending \in {"calls", "settled"}
                 \cup (IF api = "completions" THEN {} ELSE {"regular"})
        PROVE  Handed(c) # {}
    <3>1. \E i : IsCall(i) /\ out[i].id = c
      <4>1. CASE api = "completions"
        BY <1>1, <2>3, <4>1 DEF IInv, Chosen
      <4>2. CASE api # "completions"
        BY <1>1, <2>3, <4>2 DEF IInv, Numbered
      <4> QED BY <4>1, <4>2
    <3> QED BY <3>1 DEF Handed, IsCall
  <2> QED BY <2>1, <2>2, <2>3 DEF CallsHandedOver
<1> QED BY <1>1, Invariance, PTL

\* What the model says reaches the agent in order, each once, and its usage ends it.
THEOREM AnswerWhole == Spec => []AnswerRelayed
<1>1. IInv => AnswerRelayed
  BY DEF IInv, Relayed, Ordered, AllSaid, Told, AnswerRelayed
<1> QED BY <1>1, Invariance, PTL
=============================================================================
