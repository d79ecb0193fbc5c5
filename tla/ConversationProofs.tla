--------------------------- MODULE ConversationProofs ---------------------------
(***************************************************************************)
(* Theorems about one conversation and any number of requests on it, of    *)
(* any kinds: its types, that turns get sequence numbers of their own,     *)
(* that what a request wrote is kept, and that what is deleted stays so,   *)
(* each but for the races the property names.                              *)
(*                                                                         *)
(* The argument is about windows.  Two requests in one window at the same  *)
(* time have raced (RacedWithin); without a race, each copy a request      *)
(* holds in its window is as good as the document itself.                  *)
(***************************************************************************)
EXTENDS Conversation, TLAPS

Labels == [turn        |-> {"idle", "history", "agent", "save", "count", "insert", "reread",
                            "add", "done", "failed", "panicked", "stopped"},
           update      |-> {"idle", "write", "done", "failed", "panicked", "stopped"},
           delete      |-> {"idle", "remove", "removeTurns", "done", "panicked", "stopped"},
           recalculate |-> {"idle", "list", "recompute", "done", "failed", "panicked",
                            "stopped"}]

Steps == {"idle", "history", "agent", "save", "count", "insert", "reread", "add", "write",
          "remove", "removeTurns", "list", "recompute", "done", "failed", "panicked",
          "stopped"}

Turns == [id : Requests, sequence : Nat]

\* Every variable has its type, and a request is at a label of its kind.
TypeOK == /\ kind \in [Requests -> Kinds]
          /\ conv \in Conversations \cup {Missing}
          /\ turns \in Seq(Turns)
          /\ pc \in [Requests -> Steps]
          /\ \A r \in Requests : pc[r] \in Labels[kind[r]]
          /\ copy \in [Requests -> Conversations \cup {Missing}]
          /\ read \in [Requests -> Seq(Turns)]
          /\ sequence \in [Requests -> Nat]
          /\ raced \subseteq (DOMAIN Windows) \X SUBSET Requests

\* Who is about to write the conversation has read one.
CopyThere == \A r \in Requests :
                pc[r] \in Windows["conversation"] => copy[r] \in Conversations

RacedWithin == \A w \in DOMAIN Windows : \A r, s \in Within(w) : r # s => Raced(w, r, s)

\* Behind a deletion nobody is about to write.
MissingQuiet ==
  conv = Missing /\ ~DeleteRaced =>
    \A s \in Requests : pc[s] \notin {"add", "write", "remove", "list", "recompute",
                                      "count", "insert"}

Deleted ==
  ~DeleteRaced => \A d \in Requests :
    kind[d] = "delete" /\ pc[d] \in {"removeTurns", "done"} =>
       conv = Missing /\ (pc[d] = "done" => turns = <<>>)

\* A turn's number was one more than the turns there were.  Those stored between the
\* count and the insertion were inserted by requests it has raced with.
NumbersBelow ==
  ~DeleteRaced =>
    /\ \A i \in DOMAIN turns :
          /\ turns[i].sequence <= i
          /\ \A j \in DOMAIN turns : turns[i].sequence <= j /\ j < i =>
                Raced("turns", turns[j].id, turns[i].id)
    /\ \A r \in Requests : pc[r] = "insert" =>
          /\ sequence[r] <= Len(turns) + 1
          /\ \A j \in DOMAIN turns : sequence[r] <= j => Raced("turns", turns[j].id, r)

\* What a recalculation has listed is still stored, so that it cannot be inserted.
ListedStored ==
  ~DeleteRaced => \A q \in Requests : pc[q] = "recompute" =>
                     \A i \in DOMAIN read[q] : read[q][i].id \in Ids

\* The turn of a request is stored when its usage is added.
TurnStored ==
  conv # Missing /\ ~DeleteRaced =>
    \A r \in Requests : kind[r] = "turn" /\ pc[r] \in {"reread", "add", "done"} => r \in Ids

Overtaken(r) == \E s \in Requests : Raced("conversation", r, s)

Writers == {s \in Requests : pc[s] \in {"add", "write", "list", "recompute"}}

\* The usage of a finished turn is in the conversation and in every copy of it that
\* somebody is about to write back; a recalculation that would reset it has the turn.
UsageKept ==
  ~DeleteRaced => \A r \in Requests : kind[r] = "turn" /\ pc[r] = "done" /\ ~Overtaken(r) =>
    /\ conv # Missing => r \in conv.usage
    /\ \A s \in Writers : r \in copy[s].usage
    /\ \A q \in Requests : pc[q] = "recompute" => \E i \in DOMAIN read[q] : read[q][i].id = r

Replaced(r) == \E s \in Requests : s # r /\ kind[s] = "update" /\ pc[s] = "done"

SettingsKept ==
  ~DeleteRaced => \A r \in Requests :
    kind[r] = "update" /\ pc[r] = "done" /\ ~Overtaken(r) /\ ~Replaced(r) =>
      /\ conv # Missing => conv.settings = r
      /\ \A s \in Writers : copy[s].settings = r

IInv == /\ TypeOK /\ CopyThere /\ RacedWithin /\ MissingQuiet /\ Deleted
        /\ NumbersBelow /\ ListedStored /\ TurnStored /\ UsageKept /\ SettingsKept

-----------------------------------------------------------------------------
(* Facts about every step.                                                 *)

LEMMA WindowLabels ==
  /\ DOMAIN Windows = {"conversation", "turns"}
  /\ Windows["conversation"] = {"add", "write", "remove", "list", "recompute"}
  /\ Windows["turns"] = {"count", "insert", "removeTurns", "recompute"}
  BY DEF Windows

LEMMA KindLabels ==
  /\ Labels["turn"] = {"idle", "history", "agent", "save", "count", "insert", "reread",
                       "add", "done", "failed", "panicked", "stopped"}
  /\ Labels["update"] = {"idle", "write", "done", "failed", "panicked", "stopped"}
  /\ Labels["delete"] = {"idle", "remove", "removeTurns", "done", "panicked", "stopped"}
  /\ Labels["recalculate"] = {"idle", "list", "recompute", "done", "failed", "panicked",
                              "stopped"}
  BY DEF Labels

\* No conversation has been read, and no request has begun.
LEMMA InitInv == Init => IInv
  <1> SUFFICES ASSUME Init PROVE IInv
    OBVIOUS
  <1>1. \A r \in Requests : pc[r] = "idle"
    BY DEF Init
  <1>2. conv \in Conversations
    BY DEF Init, New, Conversations
  <1>3. TypeOK
    <2>1. kind \in [Requests -> Kinds]
      BY MixAssumption DEF Init
    <2>2. \A r \in Requests : pc[r] \in Labels[kind[r]]
      BY <1>1, <2>1, KindLabels DEF Kinds
    <2>3. /\ turns \in Seq(Turns)
          /\ pc \in [Requests -> Steps]
          /\ copy \in [Requests -> Conversations \cup {Missing}]
          /\ read \in [Requests -> Seq(Turns)]
          /\ sequence \in [Requests -> Nat]
          /\ raced = {}
      <3>1. <<>> \in Seq(Turns)
        OBVIOUS
      <3>2. read \in [Requests -> Seq(Turns)] /\ turns \in Seq(Turns)
        BY <3>1 DEF Init
      <3>3. pc \in [Requests -> Steps]
        BY DEF Init, Steps
      <3>4. copy \in [Requests -> Conversations \cup {Missing}]
        BY DEF Init
      <3>5. QED BY <3>2, <3>3, <3>4 DEF Init
    <2>4. QED BY <1>2, <2>1, <2>2, <2>3 DEF TypeOK
  <1>4. CopyThere /\ RacedWithin
    BY <1>1, WindowLabels DEF CopyThere, RacedWithin, Within
  <1>5. MissingQuiet /\ Deleted /\ ListedStored /\ TurnStored /\ UsageKept /\ SettingsKept
    BY <1>1 DEF MissingQuiet, Deleted, ListedStored, TurnStored, UsageKept, SettingsKept
  <1>6. NumbersBelow
    BY <1>1 DEF Init, NumbersBelow
  <1>7. QED BY <1>3, <1>4, <1>5, <1>6 DEF IInv

\* A request that goes on races with those in the windows it enters, and no race is
\* forgotten.
LEMMA GoFacts ==
  ASSUME TypeOK, RacedWithin, NEW r \in Requests, NEW to \in Steps, Go(r, to), kind' = kind
  PROVE  /\ pc' \in [Requests -> Steps]
         /\ pc'[r] = to
         /\ \A s \in Requests \ {r} : pc'[s] = pc[s]
         /\ \A w, s, q : Raced(w, s, q) => Raced(w, s, q)'
         /\ \A w \in DOMAIN Windows, s \in Requests \ {r} :
               to \in Windows[w] /\ pc[s] \in Windows[w] => Raced(w, r, s)' /\ Raced(w, s, r)'
         /\ raced' \subseteq (DOMAIN Windows) \X SUBSET Requests
         /\ RacedWithin'
         /\ DeleteRaced => DeleteRaced'
         /\ \A s \in Requests : Overtaken(s) => Overtaken(s)'
  <1>1. /\ pc' \in [Requests -> Steps]
        /\ pc'[r] = to
        /\ \A s \in Requests \ {r} : pc'[s] = pc[s]
    BY DEF TypeOK, Go
  <1>2. raced \subseteq raced'
    BY DEF Go
  <1>3. \A w, s, q : Raced(w, s, q) => Raced(w, s, q)'
    BY <1>2 DEF Raced
  <1>4. ASSUME NEW w \in DOMAIN Windows, NEW s \in Requests \ {r},
               to \in Windows[w], pc[s] \in Windows[w]
        PROVE  Raced(w, r, s)' /\ Raced(w, s, r)'
    <2>1. s \in Within(w) \ {r}
      BY <1>4 DEF Within
    <2>2. w \in {v \in DOMAIN Windows : to \in Windows[v]}
      BY <1>4
    <2>3. <<w, {r, s}>> \in raced'
      <3> DEFINE Pairs(v) == {<<v, {r, q}>> : q \in Within(v) \ {r}}
      <3>1. <<w, {r, s}>> \in Pairs(w)
        BY <2>1
      <3>2. <<w, {r, s}>> \in UNION {Pairs(v) : v \in {u \in DOMAIN Windows : to \in Windows[u]}}
        <4> HIDE DEF Pairs
        <4>1. Pairs(w) \in {Pairs(v) : v \in {u \in DOMAIN Windows : to \in Windows[u]}}
          BY <2>2
        <4>2. QED BY <3>1, <4>1
      <3>3. QED BY <3>2 DEF Go
    <2>4. {r, s} = {s, r}
      OBVIOUS
    <2>5. QED BY <2>3, <2>4 DEF Raced
  <1>5. raced' \subseteq (DOMAIN Windows) \X SUBSET Requests
    <2>1. SUFFICES ASSUME NEW x \in raced' PROVE x \in (DOMAIN Windows) \X SUBSET Requests
      OBVIOUS
    <2>2. CASE x \in raced
      BY <2>2 DEF TypeOK
    <2>3. CASE x \notin raced
      <3>1. PICK w \in DOMAIN Windows : x \in {<<w, {r, s}>> : s \in Within(w) \ {r}}
        BY <2>3 DEF Go
      <3>2. QED BY <3>1 DEF Within
    <2>4. QED BY <2>2, <2>3
  <1>6. RacedWithin'
    <2>1. SUFFICES ASSUME NEW w \in DOMAIN Windows, NEW s \in Within(w)', NEW q \in Within(w)',
                          s # q
                   PROVE  Raced(w, s, q)'
      BY DEF RacedWithin
    <2>2. s \in Requests /\ q \in Requests /\ pc'[s] \in Windows[w] /\ pc'[q] \in Windows[w]
      BY DEF Within
    <2>3. CASE s = r
      BY <1>1, <1>4, <2>1, <2>2, <2>3
    <2>4. CASE q = r
      BY <1>1, <1>4, <2>1, <2>2, <2>4
    <2>5. CASE s # r /\ q # r
      BY <1>1, <1>3, <2>1, <2>2, <2>5 DEF RacedWithin, Within
    <2>6. QED BY <2>3, <2>5, <2>4
  <1>7. DeleteRaced => DeleteRaced'
    BY <1>3 DEF DeleteRaced
  <1>8. \A s \in Requests : Overtaken(s) => Overtaken(s)'
    BY <1>3 DEF Overtaken
  <1>9. QED BY <1>1, <1>3, <1>4, <1>5, <1>6, <1>7, <1>8

\* The types after a step, from those of what the step has written.
LEMMA TypeStep ==
  ASSUME TypeOK, RacedWithin, NEW r \in Requests, NEW to \in Steps, Go(r, to), kind' = kind,
         to \in Labels[kind[r]],
         conv' \in Conversations \cup {Missing}, turns' \in Seq(Turns),
         copy' \in [Requests -> Conversations \cup {Missing}],
         read' \in [Requests -> Seq(Turns)], sequence' \in [Requests -> Nat]
  PROVE  TypeOK'
  <1>1. \A s \in Requests : pc'[s] \in Labels[kind'[s]]
    BY GoFacts DEF TypeOK
  <1>2. pc' \in [Requests -> Steps] /\ raced' \subseteq (DOMAIN Windows) \X SUBSET Requests
    BY GoFacts
  <1>3. QED BY <1>1, <1>2 DEF TypeOK

-----------------------------------------------------------------------------
(* The steps that neither enter a window nor write.                        *)

\* A step outside of the windows that writes nothing; r may read for itself.
LEMMA QuietInv ==
  ASSUME IInv, NEW r \in Requests,
         NEW to \in {"history", "agent", "save", "failed", "panicked", "stopped"}, Go(r, to),
         to \in Labels[kind[r]], pc[r] # "done",
         UNCHANGED <<kind, conv, turns, sequence>>,
         copy' \in [Requests -> Conversations \cup {Missing}],
         read' \in [Requests -> Seq(Turns)],
         \A s \in Requests \ {r} : copy'[s] = copy[s] /\ read'[s] = read[s]
  PROVE  IInv'
  <1> USE DEF IInv
  <1>1. to \in Steps
    BY DEF Steps
  <1>2. TypeOK' /\ RacedWithin'
    BY <1>1, GoFacts, TypeStep DEF TypeOK
  <1>3. /\ pc'[r] = to
        /\ \A s \in Requests \ {r} : pc'[s] = pc[s]
        /\ \A w, s, q : Raced(w, s, q) => Raced(w, s, q)'
        /\ DeleteRaced => DeleteRaced'
        /\ \A s \in Requests : Overtaken(s) => Overtaken(s)'
    BY <1>1, GoFacts
  <1>4. CopyThere'
    BY <1>3, WindowLabels DEF CopyThere
  <1>5. MissingQuiet'
    BY <1>3 DEF MissingQuiet
  <1>6. Deleted'
    BY <1>3 DEF Deleted
  <1>7. NumbersBelow'
    BY <1>3 DEF NumbersBelow
  <1>8. ListedStored' /\ TurnStored'
    BY <1>3 DEF ListedStored, TurnStored, Ids
  <1>9. UsageKept'
    <2>1. SUFFICES ASSUME ~DeleteRaced', NEW q \in Requests, kind[q] = "turn", pc'[q] = "done",
                          ~Overtaken(q)'
                   PROVE  /\ conv # Missing => q \in conv.usage
                          /\ \A s \in Writers' : q \in copy'[s].usage
                          /\ \A s \in Requests : pc'[s] = "recompute" =>
                                \E i \in DOMAIN read'[s] : read'[s][i].id = q
      BY DEF UsageKept
    <2>2. q # r /\ pc[q] = "done" /\ ~Overtaken(q) /\ ~DeleteRaced
      BY <1>3, <2>1
    <2>3. \A s \in Writers' : s \in Writers /\ copy'[s] = copy[s]
      BY <1>3 DEF Writers
    <2>4. \A s \in Requests : pc'[s] = "recompute" => pc[s] = "recompute" /\ read'[s] = read[s]
      BY <1>3
    <2>5. /\ conv # Missing => q \in conv.usage
          /\ \A s \in Writers : q \in copy[s].usage
          /\ \A s \in Requests : pc[s] = "recompute" =>
                \E i \in DOMAIN read[s] : read[s][i].id = q
      BY <2>1, <2>2 DEF UsageKept
    <2>6. ASSUME NEW s \in Requests, pc'[s] = "recompute"
          PROVE  \E i \in DOMAIN read'[s] : read'[s][i].id = q
      BY <2>4, <2>5, <2>6
    <2>7. QED BY <2>3, <2>5, <2>6
  <1>10. SettingsKept'
    <2>1. \A s \in Requests : Replaced(s) => Replaced(s)'
      BY <1>3 DEF Replaced
    <2>2. QED BY <1>3, <2>1 DEF SettingsKept, Writers
  <1>11. QED BY <1>2, <1>4, <1>5, <1>6, <1>7, <1>8, <1>9, <1>10

\* A request reads the conversation and enters a window with the copy.
LEMMA FetchInv ==
  ASSUME IInv, NEW r \in Requests, NEW to \in {"count", "add", "write", "remove", "list"},
         Go(r, to), to \in Labels[kind[r]], pc[r] # "done", to = "add" => pc[r] = "reread",
         conv # Missing, copy' = [copy EXCEPT ![r] = conv],
         UNCHANGED <<kind, conv, turns, read, sequence>>
  PROVE  IInv'
  <1> USE DEF IInv
  <1>1. to \in Steps
    BY DEF Steps
  <1>2. copy' \in [Requests -> Conversations \cup {Missing}]
    BY DEF TypeOK
  <1>3. TypeOK' /\ RacedWithin'
    BY <1>1, <1>2, GoFacts, TypeStep DEF TypeOK
  <1>4. /\ pc'[r] = to
        /\ \A s \in Requests \ {r} : pc'[s] = pc[s]
        /\ \A w, s, q : Raced(w, s, q) => Raced(w, s, q)'
        /\ DeleteRaced => DeleteRaced'
        /\ \A s \in Requests : Overtaken(s) => Overtaken(s)'
    BY <1>1, GoFacts
  <1>5. /\ copy'[r] = conv
        /\ conv \in Conversations
        /\ \A s \in Requests \ {r} : copy'[s] = copy[s]
    BY DEF TypeOK
  <1>6. CopyThere'
    BY <1>4, <1>5 DEF CopyThere
  <1>7. MissingQuiet'
    BY DEF MissingQuiet
  <1>8. Deleted'
    BY <1>4 DEF Deleted
  <1>9. NumbersBelow'
    BY <1>4 DEF NumbersBelow
  <1>10. ListedStored' /\ TurnStored'
    BY <1>4 DEF ListedStored, TurnStored, Ids
  <1>11. UsageKept'
    BY <1>4, <1>5 DEF UsageKept, Writers
  <1>12. SettingsKept'
    <2>1. \A s \in Requests : Replaced(s) => Replaced(s)'
      BY <1>4 DEF Replaced
    <2>2. QED BY <1>4, <1>5, <2>1 DEF SettingsKept, Writers
  <1>13. QED BY <1>3, <1>6, <1>7, <1>8, <1>9, <1>10, <1>11, <1>12

\* get_conversation before a window: the request enters it or panics.
LEMMA GetInv ==
  ASSUME IInv, NEW r \in Requests, NEW to \in {"count", "add", "write", "remove", "list"},
         GetConversation(r, to), to \in Labels[kind[r]], pc[r] # "done",
         to = "add" => pc[r] = "reread", UNCHANGED <<kind, conv, turns, read, sequence>>
  PROVE  IInv'
  <1>1. CASE conv = Missing
    <2>1. Go(r, "panicked") /\ copy' = copy
      BY <1>1 DEF GetConversation
    <2>2. TypeOK
      BY DEF IInv
    <2>3. "panicked" \in Labels[kind[r]]
      BY <2>2, KindLabels DEF TypeOK, Kinds
    <2>4. QED BY <2>1, <2>2, <2>3, QuietInv DEF TypeOK
  <1>2. CASE conv # Missing
    BY <1>2, FetchInv DEF GetConversation
  <1>3. QED BY <1>1, <1>2

\* The steps outside of the windows.
LEMMA QuietSteps ==
  ASSUME IInv, NEW r \in Requests,
         \/ StartTurn(r) \/ ReadHistory(r) \/ AgentAnswers(r) \/ AgentFails(r)
         \/ UpdateRefused(r) \/ Stop(r)
  PROVE  IInv'
  <1> USE DEF At
  <1>1. TypeOK
    BY DEF IInv
  <1>2. \A to \in {"panicked", "stopped"} : to \in Labels[kind[r]]
    BY <1>1, KindLabels DEF TypeOK, Kinds
  <1>3. CASE StartTurn(r)
    <2>1. PICK to \in {"history", "panicked"} : Go(r, to)
      BY <1>3 DEF StartTurn, GetConversation
    <2>2. /\ copy' \in [Requests -> Conversations \cup {Missing}]
          /\ \A s \in Requests \ {r} : copy'[s] = copy[s]
      BY <1>1, <1>3 DEF StartTurn, GetConversation, TypeOK
    <2>3. to \in Labels[kind[r]] /\ pc[r] # "done"
      BY <1>3, <2>1, KindLabels DEF StartTurn
    <2>4. QED BY <1>1, <1>3, <2>1, <2>2, <2>3, QuietInv DEF StartTurn, TypeOK
  <1>4. CASE ReadHistory(r)
    <2>1. /\ read' \in [Requests -> Seq(Turns)]
          /\ \A s \in Requests \ {r} : read'[s] = read[s]
      BY <1>1, <1>4 DEF ReadHistory, GetTurns, TypeOK
    <2>2. "agent" \in Labels[kind[r]] /\ pc[r] # "done"
      BY <1>4, KindLabels DEF ReadHistory
    <2>3. QED BY <1>1, <1>4, <2>1, <2>2, QuietInv DEF ReadHistory, TypeOK
  <1>5. CASE AgentAnswers(r) \/ AgentFails(r) \/ UpdateRefused(r) \/ Stop(r)
    <2>1. PICK to \in {"save", "failed", "stopped"} :
             Go(r, to) /\ to \in Labels[kind[r]] /\ pc[r] # "done"
      BY <1>2, <1>5, KindLabels DEF AgentAnswers, AgentFails, UpdateRefused, Stop, Active, Over
    <2>2. UNCHANGED <<kind, conv, turns, copy, read, sequence>>
      BY <1>5 DEF AgentAnswers, AgentFails, UpdateRefused, Stop, locals
    <2>3. QED BY <1>1, <2>1, <2>2, QuietInv DEF TypeOK
  <1>6. QED BY <1>3, <1>4, <1>5

\* The steps that read the conversation before a window.
LEMMA GetSteps ==
  ASSUME IInv, NEW r \in Requests,
         \/ SaveTurn(r) \/ ReadAgain(r) \/ StartUpdate(r) \/ StartDelete(r)
         \/ StartRecalculation(r)
  PROVE  IInv'
  <1>1. PICK to \in {"count", "add", "write", "remove", "list"} :
           /\ GetConversation(r, to)
           /\ to \in Labels[kind[r]] /\ pc[r] # "done" /\ (to = "add" => pc[r] = "reread")
           /\ UNCHANGED <<kind, conv, turns, read, sequence>>
    BY KindLabels DEF SaveTurn, ReadAgain, StartUpdate, StartDelete, StartRecalculation, At
  <1>2. QED BY <1>1, GetInv

-----------------------------------------------------------------------------
(* The steps inside of the windows.                                        *)

LEMMA CountTurnsInv == ASSUME IInv, NEW r \in Requests, CountTurns(r) PROVE IInv'
  <1> USE DEF IInv
  <1>1. /\ kind[r] = "turn" /\ pc[r] = "count" /\ Go(r, "insert")
        /\ sequence' = [sequence EXCEPT ![r] = Len(turns) + 1]
        /\ UNCHANGED <<kind, conv, turns, copy, read>>
    BY DEF CountTurns, At
  <1>2. "insert" \in Steps /\ "insert" \in Labels[kind[r]]
    BY <1>1, KindLabels DEF Steps
  <1>3. turns \in Seq(Turns) /\ sequence' \in [Requests -> Nat]
    BY <1>1 DEF TypeOK
  <1>4. TypeOK' /\ RacedWithin'
    BY <1>1, <1>2, <1>3, GoFacts, TypeStep DEF TypeOK
  <1>5. /\ pc'[r] = "insert"
        /\ \A s \in Requests \ {r} : pc'[s] = pc[s]
        /\ \A w, s, q : Raced(w, s, q) => Raced(w, s, q)'
        /\ DeleteRaced => DeleteRaced'
        /\ \A s \in Requests : Overtaken(s) => Overtaken(s)'
    BY <1>1, <1>2, GoFacts
  <1>6. CopyThere'
    BY <1>1, <1>5, WindowLabels DEF CopyThere
  <1>7. MissingQuiet' /\ Deleted'
    BY <1>1, <1>5 DEF MissingQuiet, Deleted
  <1>8. NumbersBelow'
    <2>1. /\ sequence'[r] = Len(turns) + 1
          /\ \A s \in Requests \ {r} : sequence'[s] = sequence[s]
      BY <1>1 DEF TypeOK
    <2>2. \A j \in DOMAIN turns : j \in Nat /\ j <= Len(turns)
      BY <1>3
    <2>3. Len(turns) \in Nat
      BY <1>3
    <2>4. QED BY <1>1, <1>5, <2>1, <2>2, <2>3 DEF NumbersBelow
  <1>9. ListedStored' /\ TurnStored'
    BY <1>1, <1>5 DEF ListedStored, TurnStored, Ids
  <1>10. UsageKept'
    BY <1>1, <1>5 DEF UsageKept, Writers
  <1>11. SettingsKept'
    <2>1. \A s \in Requests : Replaced(s) => Replaced(s)'
      BY <1>1, <1>5 DEF Replaced
    <2>2. QED BY <1>1, <1>5, <2>1 DEF SettingsKept, Writers
  <1>12. QED BY <1>4, <1>6, <1>7, <1>8, <1>9, <1>10, <1>11

\* The requests that inserted since r counted have raced with it; those that have
\* counted and not yet inserted race with it now.
LEMMA InsertNewTurnInv == ASSUME IInv, NEW r \in Requests, InsertNewTurn(r) PROVE IInv'
  <1> USE DEF IInv
  <1>1. /\ kind[r] = "turn" /\ pc[r] = "insert" /\ Go(r, "reread")
        /\ turns' = Append(turns, [id |-> r, sequence |-> sequence[r]])
        /\ UNCHANGED <<kind, conv, copy, read, sequence>>
    BY DEF InsertNewTurn, At, InsertTurn, NewTurn, locals
  <1>2. "reread" \in Steps /\ "reread" \in Labels[kind[r]]
    BY <1>1, KindLabels DEF Steps
  <1>3. turns \in Seq(Turns) /\ sequence[r] \in Nat
    BY DEF TypeOK
  <1>4. turns' \in Seq(Turns)
    BY <1>1, <1>3 DEF Turns
  <1>5. TypeOK' /\ RacedWithin'
    BY <1>1, <1>2, <1>4, GoFacts, TypeStep DEF TypeOK
  <1>6. /\ pc'[r] = "reread"
        /\ \A s \in Requests \ {r} : pc'[s] = pc[s]
        /\ \A w, s, q : Raced(w, s, q) => Raced(w, s, q)'
        /\ DeleteRaced => DeleteRaced'
        /\ \A s \in Requests : Overtaken(s) => Overtaken(s)'
    BY <1>1, <1>2, GoFacts
  <1>7. /\ Len(turns) \in Nat
        /\ DOMAIN turns = 1..Len(turns)
        /\ DOMAIN turns' = 1..(Len(turns) + 1)
        /\ Len(turns') = Len(turns) + 1
        /\ \A i \in DOMAIN turns : turns'[i] = turns[i]
        /\ turns'[Len(turns) + 1] = [id |-> r, sequence |-> sequence[r]]
    BY <1>1, <1>3
  <1>8. Ids \subseteq Ids' /\ r \in Ids'
    BY <1>7 DEF Ids
  <1>9. CopyThere'
    BY <1>1, <1>6, WindowLabels DEF CopyThere
  <1>10. MissingQuiet'
    BY <1>1, <1>6 DEF MissingQuiet
  <1>11. Deleted'
    BY <1>1, <1>6 DEF Deleted, MissingQuiet
  <1>12. raced \subseteq raced'
    BY <1>1 DEF Go
  <1>13. NumbersBelow'
    <2>1. SUFFICES ASSUME ~DeleteRaced' PROVE NumbersBelow'
      BY DEF NumbersBelow
    <2>2. /\ \A i \in DOMAIN turns :
                /\ turns[i].sequence <= i
                /\ \A j \in DOMAIN turns : turns[i].sequence <= j /\ j < i =>
                      <<"turns", {turns[j].id, turns[i].id}>> \in raced
          /\ \A s \in Requests : pc[s] = "insert" =>
                /\ sequence[s] <= Len(turns) + 1
                /\ \A j \in DOMAIN turns : sequence[s] <= j => <<"turns", {turns[j].id, s}>> \in raced
      BY <1>6, <2>1 DEF NumbersBelow, Raced
    <2>3. ASSUME NEW i \in DOMAIN turns'
          PROVE  /\ turns'[i].sequence <= i
                 /\ \A j \in DOMAIN turns' : turns'[i].sequence <= j /\ j < i =>
                       <<"turns", {turns'[j].id, turns'[i].id}>> \in raced'
      <3>1. CASE i \in DOMAIN turns
        <4>1. \A j \in DOMAIN turns' : j < i => j \in DOMAIN turns
          BY <1>7, <3>1
        <4>2. QED BY <1>12, <1>7, <2>2, <3>1, <4>1
      <3>2. CASE i = Len(turns) + 1
        <4>1. \A j \in DOMAIN turns' : j < i => j \in DOMAIN turns
          BY <1>7, <3>2
        <4>2. turns'[i].id = r /\ turns'[i].sequence = sequence[r]
          BY <1>7, <3>2
        <4>3. QED BY <1>1, <1>12, <1>7, <2>2, <3>2, <4>1, <4>2
      <3>3. QED BY <1>7, <3>1, <3>2
    <2>4. ASSUME NEW s \in Requests, pc'[s] = "insert"
          PROVE  /\ sequence'[s] <= Len(turns') + 1
                 /\ \A j \in DOMAIN turns' : sequence'[s] <= j => <<"turns", {turns'[j].id, s}>> \in raced'
      <3>1. s # r /\ pc[s] = "insert" /\ sequence'[s] = sequence[s] /\ sequence[s] \in Nat
        BY <1>1, <1>6, <2>4 DEF TypeOK
      <3>2. <<"turns", {r, s}>> \in raced'
        <4>1. r \in Within("turns") /\ s \in Within("turns")
          BY <1>1, <3>1, WindowLabels DEF Within
        <4>2. QED BY <1>12, <3>1, <4>1, WindowLabels DEF RacedWithin, Raced
      <3>3. ASSUME NEW j \in DOMAIN turns', sequence'[s] <= j
            PROVE  <<"turns", {turns'[j].id, s}>> \in raced'
        <4>1. CASE j \in DOMAIN turns
          BY <1>12, <1>7, <2>2, <3>1, <3>3, <4>1
        <4>2. CASE j = Len(turns) + 1
          <5>1. turns'[j].id = r
            BY <1>7, <4>2
          <5>2. QED BY <3>2, <5>1
        <4>3. QED BY <1>7, <4>1, <4>2
      <3>4. sequence'[s] <= Len(turns') + 1
        BY <1>7, <2>2, <3>1
      <3>5. QED BY <3>3, <3>4
    <2>5. QED BY <2>3, <2>4 DEF NumbersBelow, Raced
  <1>14. ListedStored' /\ TurnStored'
    BY <1>1, <1>6, <1>8 DEF ListedStored, TurnStored
  <1>15. UsageKept'
    BY <1>1, <1>6 DEF UsageKept, Writers
  <1>16. SettingsKept'
    <2>1. \A s \in Requests : Replaced(s) => Replaced(s)'
      BY <1>1, <1>6 DEF Replaced
    <2>2. QED BY <1>1, <1>6, <2>1 DEF SettingsKept, Writers
  <1>17. QED BY <1>5, <1>9, <1>10, <1>11, <1>13, <1>14, <1>15, <1>16

\* A request replaces the conversation by its copy, changed.  Those with copies of their
\* own have raced with it, and there is still a conversation if there was no deletion.
LEMMA ReplaceInv ==
  ASSUME IInv, NEW r \in Requests, pc[r] \in {"add", "write", "recompute"}, Go(r, "done"),
         kind[r] # "delete", "done" \in Labels[kind[r]],
         conv' \in Conversations, UNCHANGED <<kind, turns, copy, read, sequence>>,
         kind[r] = "turn" => pc[r] = "add",
         ~DeleteRaced => \A q \in Requests :
            /\ kind[q] = "turn" /\ (q = r \/ (pc[q] = "done" /\ ~Overtaken(q))) => q \in conv'.usage
            /\ kind[q] = "update" /\ ~Replaced(q)' /\ (q = r \/ (pc[q] = "done" /\ ~Overtaken(q))) =>
                  conv'.settings = q
  PROVE  IInv'
  <1> USE DEF IInv
  <1>1. "done" \in Steps
    BY DEF Steps
  <1>2. TypeOK' /\ RacedWithin'
    BY <1>1, GoFacts, TypeStep DEF TypeOK
  <1>3. /\ pc'[r] = "done"
        /\ \A s \in Requests \ {r} : pc'[s] = pc[s]
        /\ \A w, s, q : Raced(w, s, q) => Raced(w, s, q)'
        /\ DeleteRaced => DeleteRaced'
        /\ \A s \in Requests : Overtaken(s) => Overtaken(s)'
    BY <1>1, GoFacts
  <1>4. conv' # Missing
    BY MissingAssumption
  <1>5. ~DeleteRaced => conv # Missing
    BY DEF MissingQuiet
  <1>6. CopyThere'
    BY <1>3, WindowLabels DEF CopyThere
  <1>7. MissingQuiet'
    BY <1>4 DEF MissingQuiet
  <1>8. Deleted'
    BY <1>3, <1>5 DEF Deleted
  <1>9. NumbersBelow'
    BY <1>3 DEF NumbersBelow
  <1>10. ListedStored' /\ TurnStored'
    BY <1>3, <1>5 DEF ListedStored, TurnStored, Ids
  <1>11. \A s \in Writers' : s \in Writers /\ s # r
    BY <1>3 DEF Writers
  <1>12. ASSUME NEW s \in Writers' PROVE Overtaken(r)'
    <2>1. s \in Within("conversation") /\ r \in Within("conversation") /\ s # r
      BY <1>11, <1>12, WindowLabels DEF Writers, Within
    <2>2. Raced("conversation", r, s)'
      BY <1>3, <2>1, WindowLabels DEF RacedWithin
    <2>3. QED BY <1>11, <1>12, <2>2 DEF Overtaken, Writers
  <1>13. UsageKept'
    <2>1. SUFFICES ASSUME ~DeleteRaced', NEW q \in Requests, kind[q] = "turn", pc'[q] = "done",
                          ~Overtaken(q)'
                   PROVE  /\ q \in conv'.usage
                          /\ \A s \in Writers' : q \in copy[s].usage
                          /\ \A s \in Requests : pc'[s] = "recompute" =>
                                \E i \in DOMAIN read[s] : read[s][i].id = q
      BY DEF UsageKept
    <2>2. q \in conv'.usage
      BY <1>3, <2>1
    <2>3. CASE q = r
      <3>1. Writers' = {}
        BY <1>12, <2>1, <2>3
      <3>2. \A s \in Requests : pc'[s] # "recompute"
        BY <3>1 DEF Writers
      <3>3. QED BY <2>2, <3>1, <3>2
    <2>4. CASE q # r
      BY <1>3, <1>11, <2>1, <2>2, <2>4 DEF UsageKept
    <2>5. QED BY <2>3, <2>4
  <1>14. SettingsKept'
    <2>1. SUFFICES ASSUME ~DeleteRaced', NEW q \in Requests, kind[q] = "update", pc'[q] = "done",
                          ~Overtaken(q)', ~Replaced(q)'
                   PROVE  conv'.settings = q /\ \A s \in Writers' : copy[s].settings = q
      BY DEF SettingsKept
    <2>2. conv'.settings = q
      BY <1>3, <2>1
    <2>3. CASE q = r
      BY <1>12, <2>1, <2>2, <2>3
    <2>4. CASE q # r
      <3>1. Replaced(q) => Replaced(q)'
        BY <1>3 DEF Replaced
      <3>2. QED BY <1>3, <1>11, <2>1, <2>2, <2>4, <3>1 DEF SettingsKept
    <2>5. QED BY <2>3, <2>4
  <1>15. QED BY <1>2, <1>6, <1>7, <1>8, <1>9, <1>10, <1>13, <1>14

\* What request r writes back has all that its copy had.
LEMMA ReplaceSteps ==
  ASSUME IInv, NEW r \in Requests, AddTurn(r) \/ WriteSettings(r) \/ ResetUsage(r)
  PROVE  IInv'
  <1>1. /\ pc[r] \in {"add", "write", "recompute"} /\ Go(r, "done")
        /\ kind[r] \in {"turn", "update", "recalculate"}
        /\ kind[r] = "turn" => pc[r] = "add"
        /\ kind[r] = "recalculate" => pc[r] = "recompute"
        /\ UNCHANGED <<kind, turns, copy, read, sequence>>
    BY DEF AddTurn, WriteSettings, ResetUsage, At, locals
  <1>2. copy[r] \in Conversations
    BY <1>1, WindowLabels DEF IInv, CopyThere
  <1>3. "done" \in Labels[kind[r]]
    BY <1>1, KindLabels
  <1>4. /\ conv' \in Conversations
        /\ kind[r] \in {"turn", "update"} => copy[r].usage \subseteq conv'.usage
        /\ kind[r] = "turn" => r \in conv'.usage
        /\ kind[r] \in {"turn", "recalculate"} => conv'.settings = copy[r].settings
        /\ kind[r] = "update" => conv'.settings = r
        /\ kind[r] = "recalculate" => read[r] = <<>>
    <2>1. CASE AddTurn(r)
      BY <1>2, <2>1 DEF AddTurn, UpdateConversation, Conversations, At
    <2>2. CASE WriteSettings(r)
      BY <1>2, <2>2 DEF WriteSettings, UpdateConversation, Conversations, At
    <2>3. CASE ResetUsage(r)
      BY <1>2, <2>3 DEF ResetUsage, UpdateConversation, Conversations, At
    <2>4. QED BY <2>1, <2>2, <2>3
  <1>5. r \in Writers
    BY <1>1 DEF Writers
  <1>6. ASSUME ~DeleteRaced, NEW q \in Requests, kind[q] = "turn",
               q = r \/ (pc[q] = "done" /\ ~Overtaken(q))
        PROVE  q \in conv'.usage
    <2>1. CASE q = r
      BY <1>4, <1>6, <2>1
    <2>2. CASE q # r
      <3>1. /\ q \in copy[r].usage
            /\ pc[r] = "recompute" => \E i \in DOMAIN read[r] : read[r][i].id = q
        BY <1>5, <1>6, <2>2 DEF IInv, UsageKept
      <3>2. kind[r] # "recalculate"
        BY <1>1, <1>4, <3>1
      <3>3. QED BY <1>1, <1>4, <3>1, <3>2
    <2>3. QED BY <2>1, <2>2
  <1>7. ASSUME ~DeleteRaced, NEW q \in Requests, kind[q] = "update", ~Replaced(q)',
               q = r \/ (pc[q] = "done" /\ ~Overtaken(q))
        PROVE  conv'.settings = q
    <2>1. CASE q = r
      BY <1>4, <1>7, <2>1
    <2>2. CASE q # r
      <3>1. pc'[r] = "done" /\ \A s \in Requests \ {r} : pc'[s] = pc[s]
        BY <1>1 DEF IInv, TypeOK, Go
      <3>2. kind[r] # "update" /\ ~Replaced(q)
        BY <1>1, <1>7, <2>2, <3>1 DEF Replaced
      <3>3. copy[r].settings = q
        BY <1>5, <1>7, <2>2, <3>2 DEF IInv, SettingsKept
      <3>4. QED BY <1>1, <1>4, <3>2, <3>3
    <2>3. QED BY <2>1, <2>2
  <1>8. QED BY <1>1, <1>3, <1>4, <1>6, <1>7, ReplaceInv

\* Whoever is in a window when the document goes has raced with the deletion.
LEMMA RemoveConversationInv ==
  ASSUME IInv, NEW r \in Requests, RemoveConversation(r) PROVE IInv'
  <1> USE DEF IInv
  <1>1. /\ kind[r] = "delete" /\ pc[r] = "remove" /\ Go(r, "removeTurns")
        /\ conv' = Missing /\ UNCHANGED <<kind, turns, copy, read, sequence>>
    BY DEF RemoveConversation, At, locals
  <1>2. "removeTurns" \in Steps /\ "removeTurns" \in Labels[kind[r]]
    BY <1>1, KindLabels DEF Steps
  <1>3. TypeOK' /\ RacedWithin'
    BY <1>1, <1>2, GoFacts, TypeStep DEF TypeOK
  <1>4. /\ pc'[r] = "removeTurns"
        /\ \A s \in Requests \ {r} : pc'[s] = pc[s]
        /\ \A w, s, q : Raced(w, s, q) => Raced(w, s, q)'
        /\ \A w \in DOMAIN Windows, s \in Requests \ {r} :
              "removeTurns" \in Windows[w] /\ pc[s] \in Windows[w] => Raced(w, r, s)'
        /\ DeleteRaced => DeleteRaced'
        /\ \A s \in Requests : Overtaken(s) => Overtaken(s)'
    BY <1>1, <1>2, GoFacts
  <1>5. CopyThere'
    BY <1>1, <1>4, WindowLabels DEF CopyThere
  <1>6. MissingQuiet'
    <2>1. SUFFICES ASSUME NEW s \in Requests,
                          pc'[s] \in {"add", "write", "remove", "list", "recompute", "count",
                                      "insert"}
                   PROVE  DeleteRaced'
      BY DEF MissingQuiet
    <2>2. s # r /\ pc[s] = pc'[s]
      BY <1>4, <2>1
    <2>3. \E w \in DOMAIN Windows : Raced(w, r, s)'
      <3>1. CASE pc[s] \in {"count", "insert"}
        BY <1>4, <2>2, <3>1, WindowLabels
      <3>2. CASE pc[s] \notin {"count", "insert"}
        <4>1. r \in Within("conversation") /\ s \in Within("conversation")
          BY <1>1, <2>1, <2>2, <3>2, WindowLabels DEF Within
        <4>2. QED BY <1>4, <2>2, <4>1, WindowLabels DEF RacedWithin
      <3>3. QED BY <3>1, <3>2
    <2>4. QED BY <1>1, <2>3 DEF DeleteRaced
  <1>7. Deleted'
    BY <1>1, <1>4 DEF Deleted
  <1>8. NumbersBelow'
    BY <1>1, <1>4 DEF NumbersBelow
  <1>9. ListedStored' /\ TurnStored'
    BY <1>1, <1>4 DEF ListedStored, TurnStored, Ids
  <1>10. UsageKept'
    BY <1>1, <1>4 DEF UsageKept, Writers
  <1>11. SettingsKept'
    <2>1. \A s \in Requests : Replaced(s) => Replaced(s)'
      BY <1>1, <1>4 DEF Replaced
    <2>2. QED BY <1>1, <1>4, <2>1 DEF SettingsKept, Writers
  <1>12. QED BY <1>3, <1>5, <1>6, <1>7, <1>8, <1>9, <1>10, <1>11

\* So has whoever counts, inserts or rewrites turns when the turns go.
LEMMA RemoveTurnsInv == ASSUME IInv, NEW r \in Requests, RemoveTurns(r) PROVE IInv'
  <1> USE DEF IInv
  <1>1. /\ kind[r] = "delete" /\ pc[r] = "removeTurns" /\ Go(r, "done")
        /\ turns' = <<>> /\ UNCHANGED <<kind, conv, copy, read, sequence>>
    BY DEF RemoveTurns, At, locals
  <1>2. "done" \in Steps /\ "done" \in Labels[kind[r]]
    BY <1>1, KindLabels DEF Steps
  <1>3. turns' \in Seq(Turns)
    BY <1>1
  <1>4. TypeOK' /\ RacedWithin'
    BY <1>1, <1>2, <1>3, GoFacts, TypeStep DEF TypeOK
  <1>5. /\ pc'[r] = "done"
        /\ \A s \in Requests \ {r} : pc'[s] = pc[s]
        /\ \A w, s, q : Raced(w, s, q) => Raced(w, s, q)'
        /\ DeleteRaced => DeleteRaced'
        /\ \A s \in Requests : Overtaken(s) => Overtaken(s)'
    BY <1>1, <1>2, GoFacts
  <1>6. CopyThere'
    BY <1>1, <1>5, WindowLabels DEF CopyThere
  <1>7. MissingQuiet'
    BY <1>1, <1>5 DEF MissingQuiet
  <1>8. Deleted'
    BY <1>1, <1>5 DEF Deleted
  <1>9. ~DeleteRaced => conv = Missing
    BY <1>1 DEF Deleted
  <1>10. ~DeleteRaced' => \A s \in Requests : pc'[s] \notin {"insert", "recompute"}
    BY <1>1, <1>5, <1>9 DEF MissingQuiet
  <1>11. NumbersBelow' /\ ListedStored'
    BY <1>1, <1>10 DEF NumbersBelow, ListedStored
  <1>12. TurnStored'
    BY <1>1, <1>5, <1>9 DEF TurnStored
  <1>13. UsageKept'
    BY <1>1, <1>5 DEF UsageKept, Writers
  <1>14. SettingsKept'
    <2>1. \A s \in Requests : Replaced(s) => Replaced(s)'
      BY <1>1, <1>5 DEF Replaced
    <2>2. QED BY <1>1, <1>5, <2>1 DEF SettingsKept, Writers
  <1>15. QED BY <1>4, <1>6, <1>7, <1>8, <1>11, <1>12, <1>13, <1>14

\* The list has the turns of all who have finished.
LEMMA ListTurnsInv == ASSUME IInv, NEW r \in Requests, ListTurns(r) PROVE IInv'
  <1> USE DEF IInv
  <1>1. /\ kind[r] = "recalculate" /\ pc[r] = "list" /\ Go(r, "recompute")
        /\ read' = [read EXCEPT ![r] = turns]
        /\ UNCHANGED <<kind, conv, turns, copy, sequence>>
    BY DEF ListTurns, GetTurns, At
  <1>2. "recompute" \in Steps /\ "recompute" \in Labels[kind[r]]
    BY <1>1, KindLabels DEF Steps
  <1>3. read' \in [Requests -> Seq(Turns)]
    BY <1>1 DEF TypeOK
  <1>4. TypeOK' /\ RacedWithin'
    BY <1>1, <1>2, <1>3, GoFacts, TypeStep DEF TypeOK
  <1>5. /\ pc'[r] = "recompute"
        /\ \A s \in Requests \ {r} : pc'[s] = pc[s]
        /\ \A w, s, q : Raced(w, s, q) => Raced(w, s, q)'
        /\ DeleteRaced => DeleteRaced'
        /\ \A s \in Requests : Overtaken(s) => Overtaken(s)'
    BY <1>1, <1>2, GoFacts
  <1>6. read'[r] = turns /\ \A s \in Requests \ {r} : read'[s] = read[s]
    BY <1>1 DEF TypeOK
  <1>7. ~DeleteRaced => conv # Missing
    BY <1>1 DEF MissingQuiet
  <1>8. CopyThere'
    BY <1>1, <1>5, WindowLabels DEF CopyThere
  <1>9. MissingQuiet'
    BY <1>1, <1>5 DEF MissingQuiet
  <1>10. Deleted'
    BY <1>1, <1>5 DEF Deleted
  <1>11. NumbersBelow'
    BY <1>1, <1>5 DEF NumbersBelow
  <1>12. ListedStored'
    BY <1>1, <1>5, <1>6 DEF ListedStored, Ids
  <1>13. TurnStored'
    BY <1>1, <1>5 DEF TurnStored, Ids
  <1>14. UsageKept'
    <2>1. SUFFICES ASSUME ~DeleteRaced', NEW q \in Requests, kind[q] = "turn", pc'[q] = "done",
                          ~Overtaken(q)'
                   PROVE  /\ conv # Missing => q \in conv.usage
                          /\ \A s \in Writers' : q \in copy[s].usage
                          /\ \A s \in Requests : pc'[s] = "recompute" =>
                                \E i \in DOMAIN read'[s] : read'[s][i].id = q
      BY <1>1 DEF UsageKept
    <2>2. q # r /\ pc[q] = "done" /\ ~Overtaken(q) /\ ~DeleteRaced
      BY <1>5, <2>1
    <2>3. /\ conv # Missing => q \in conv.usage
          /\ \A s \in Writers : q \in copy[s].usage
          /\ \A s \in Requests : pc[s] = "recompute" =>
                \E i \in DOMAIN read[s] : read[s][i].id = q
      BY <2>1, <2>2 DEF UsageKept
    <2>4. Writers' = Writers
      BY <1>1, <1>5 DEF Writers
    <2>5. \E i \in DOMAIN read'[r] : read'[r][i].id = q
      <3>1. q \in Ids
        BY <1>7, <2>1, <2>2 DEF TurnStored
      <3>2. QED BY <1>6, <3>1 DEF Ids
    <2>6. ASSUME NEW s \in Requests \ {r}, pc'[s] = "recompute"
          PROVE  \E i \in DOMAIN read'[s] : read'[s][i].id = q
      <3>1. read'[s] = read[s] /\ pc[s] = "recompute"
        BY <1>5, <1>6, <2>6
      <3>2. QED BY <2>3, <3>1
    <2>7. QED BY <2>3, <2>4, <2>5, <2>6
  <1>15. SettingsKept'
    <2>1. \A s \in Requests : Replaced(s) => Replaced(s)'
      BY <1>1, <1>5 DEF Replaced
    <2>2. QED BY <1>1, <1>5, <2>1 DEF SettingsKept, Writers
  <1>16. QED BY <1>4, <1>8, <1>9, <1>10, <1>11, <1>12, <1>13, <1>14, <1>15

\* A turn can be written again only when a deletion has removed it meanwhile.
LEMMA RewriteTurnInv == ASSUME IInv, NEW r \in Requests, RewriteTurn(r) PROVE IInv'
  <1>1. /\ kind[r] = "recalculate" /\ pc[r] = "recompute" /\ read[r] # <<>>
        /\ UNCHANGED <<kind, conv, copy, sequence>>
    BY DEF RewriteTurn, At
  <1>2. TypeOK
    BY DEF IInv
  <1>3. CASE Head(read[r]).id \in Ids
    <2>1. Go(r, "failed") /\ UNCHANGED <<turns, read>>
      BY <1>3 DEF RewriteTurn
    <2>2. "failed" \in Labels[kind[r]]
      BY <1>1, KindLabels
    <2>3. QED BY <1>1, <1>2, <2>1, <2>2, QuietInv DEF TypeOK
  <1>4. CASE Head(read[r]).id \notin Ids
    <2>1. /\ turns' = Append(turns, Head(read[r]))
          /\ read' = [read EXCEPT ![r] = Tail(read[r])]
          /\ UNCHANGED <<pc, raced>>
      BY <1>4 DEF RewriteTurn, InsertTurn
    <2>2. read[r] \in Seq(Turns) /\ turns \in Seq(Turns)
      BY <1>2 DEF TypeOK
    <2>3. 1 \in DOMAIN read[r] /\ Head(read[r]) = read[r][1]
      BY <1>1, <2>2
    <2>4. DeleteRaced
      BY <1>1, <1>4, <2>3 DEF IInv, ListedStored
    <2>5. DeleteRaced'
      BY <1>1, <2>1, <2>4 DEF DeleteRaced, Raced
    <2>6. TypeOK'
      <3>1. turns' \in Seq(Turns) /\ Tail(read[r]) \in Seq(Turns)
        BY <1>1, <2>1, <2>2
      <3>2. read' \in [Requests -> Seq(Turns)]
        BY <1>2, <2>1, <3>1 DEF TypeOK
      <3>3. QED BY <1>1, <1>2, <2>1, <3>1, <3>2 DEF TypeOK
    <2>7. CopyThere' /\ RacedWithin'
      BY <1>1, <2>1 DEF IInv, CopyThere, RacedWithin, Within, Raced
    <2>8. QED BY <2>5, <2>6, <2>7
              DEF IInv, MissingQuiet, Deleted, NumbersBelow, ListedStored, TurnStored,
                  UsageKept, SettingsKept
  <1>5. QED BY <1>3, <1>4

-----------------------------------------------------------------------------
(* The theorems.                                                           *)

LEMMA NextInv == IInv /\ [Next]_vars => IInv'
  <1> SUFFICES ASSUME IInv, [Next]_vars PROVE IInv'
    OBVIOUS
  <1>1. ASSUME NEW r \in Requests, TurnStep(r) PROVE IInv'
    BY <1>1, QuietSteps, GetSteps, CountTurnsInv, InsertNewTurnInv, ReplaceSteps DEF TurnStep
  <1>2. ASSUME NEW r \in Requests, OtherStep(r) PROVE IInv'
    BY <1>2, QuietSteps, GetSteps, ReplaceSteps, RemoveConversationInv, RemoveTurnsInv,
       ListTurnsInv, RewriteTurnInv DEF OtherStep
  <1>3. ASSUME NEW r \in Requests, Stop(r) PROVE IInv'
    BY <1>3, QuietSteps
  <1>4. CASE UNCHANGED vars
    <2>1. UNCHANGED <<kind, conv, turns, pc, copy, read, sequence, raced>>
      BY <1>4 DEF vars, locals
    <2>2. TypeOK' /\ CopyThere' /\ RacedWithin'
      BY <2>1 DEF IInv, TypeOK, CopyThere, RacedWithin, Within, Raced
    <2>3. DeleteRaced' <=> DeleteRaced
      BY <2>1 DEF DeleteRaced, Raced
    <2>4. MissingQuiet' /\ Deleted' /\ ListedStored' /\ TurnStored'
      BY <2>1, <2>3 DEF IInv, MissingQuiet, Deleted, ListedStored, TurnStored, Ids
    <2>5. NumbersBelow'
      BY <2>1, <2>3 DEF IInv, NumbersBelow, Raced
    <2>6. Writers' = Writers /\ \A r \in Requests : Overtaken(r)' <=> Overtaken(r)
      BY <2>1 DEF Writers, Overtaken, Raced
    <2>7. UsageKept'
      BY <2>1, <2>3, <2>6 DEF IInv, UsageKept
    <2>8. \A r \in Requests : Replaced(r)' <=> Replaced(r)
      BY <2>1 DEF Replaced
    <2>9. SettingsKept'
      BY <2>1, <2>3, <2>6, <2>8 DEF IInv, SettingsKept
    <2>10. QED BY <2>2, <2>4, <2>5, <2>7, <2>9 DEF IInv
  <1>5. QED BY <1>1, <1>2, <1>3, <1>4 DEF Next, Finished

\* The inductive invariant holds in every state of every behaviour.
THEOREM Invariance == Spec => []IInv
  <1>1. QED BY InitInv, NextInv, PTL DEF Spec

\* Every variable keeps its type, and a request stays within the steps of its kind.
THEOREM TypeCorrect == Spec => []TypeOK
  <1>1. IInv => TypeOK
    BY DEF IInv
  <1>2. QED BY <1>1, Invariance, PTL

\* Two turns of a conversation have one sequence number only when one of them was
\* between save_turn's count and its insertion while the other was, or a deletion raced
\* with a write: for any number of requests.
THEOREM NumbersUnique == Spec => []SequencesUnique
  <1>1. IInv => SequencesUnique
    <2>1. SUFFICES ASSUME IInv, NEW i \in DOMAIN turns, NEW j \in DOMAIN turns, i < j,
                          turns[i].sequence = turns[j].sequence, ~DeleteRaced
                   PROVE  Raced("turns", turns[i].id, turns[j].id)
      BY DEF SequencesUnique
    <2>2. turns[i].sequence <= i
      BY <2>1 DEF IInv, NumbersBelow
    <2>3. QED BY <2>1, <2>2 DEF IInv, NumbersBelow
  <1>2. QED BY <1>1, Invariance, PTL

\* The usage of a turn that was saved, and settings that were written, are in the
\* conversation unless the request was overtaken between its own read and write, or the
\* settings were replaced by a later update.
THEOREM NothingLost == Spec => []WritesKept
  <1>1. IInv => WritesKept
    BY DEF IInv, WritesKept, UsageKept, SettingsKept, Overtaken, Replaced
  <1>2. QED BY <1>1, Invariance, PTL

\* After delete_conversation neither the document nor a turn comes back, unless another
\* request was about to write when it was deleted.
THEOREM DeletionFinal == Spec => []StaysDeleted
  <1>1. IInv => StaysDeleted
    BY DEF IInv, StaysDeleted, Deleted
  <1>2. QED BY <1>1, Invariance, PTL
=============================================================================
