----------------------------- MODULE Conversation -----------------------------
(***************************************************************************)
(* One conversation of rustic-boot's ConversationService and the requests  *)
(* that work on it at the same time: turns, updates, deletions and cost    *)
(* recalculations.  MongoDB does one operation at a time (the repository   *)
(* is behind a Mutex); a request makes several, with an await between any  *)
(* two, and no transaction.                                                *)
(*                                                                         *)
(* Usage and costs are the set of turns whose usage was added, a turn has  *)
(* the id of the request that made it, the settings the id of the update   *)
(* that wrote them.  The conversation is stateful and keeps its full       *)
(* history; create_conversation is Init.  `raced` is a history variable:   *)
(* the pairs of requests that were at the same time between a read of the  *)
(* conversation, or of its turns, and the write that rests on it.          *)
(***************************************************************************)
EXTENDS Naturals, Sequences, FiniteSets

CONSTANTS Requests,
          Mixes,     \* which kinds of requests a behaviour consists of
          Missing,   \* the conversation that is not there
          None

Kinds == {"turn", "update", "delete", "recalculate"}

ASSUME RequestAssumption == None \notin Requests
ASSUME MixAssumption == Mixes \subseteq [Requests -> Kinds]

Conversations == [usage : SUBSET Requests, response : Requests \cup {None},
                  settings : Requests \cup {None}]

ASSUME MissingAssumption == Missing \notin Conversations

VARIABLES kind,      \* what each request asks for
          conv,      \* the conversation document, or Missing
          turns,     \* the turn documents, in the order find() returns them
          pc,
          copy,      \* the conversation as each request last read it
          read,      \* the turns as each request last read them
          sequence,  \* of the turn a request is about to insert
          raced

locals == <<copy, read, sequence>>
vars   == <<kind, conv, turns, pc, locals, raced>>

Over == {"idle", "done", "failed", "panicked", "stopped"}

\* Between reading and writing the conversation, or the turns.  The turns rest on
\* the conversation that save_turn found as well.
Windows == [conversation |-> {"add", "write", "remove", "list", "recompute"},
            turns        |-> {"count", "insert", "removeTurns", "recompute"}]

Active == {r \in Requests : pc[r] \notin Over}

Ids == {turns[i].id : i \in DOMAIN turns}

New == [usage |-> {}, response |-> None, settings |-> None]

Init == /\ kind \in Mixes
        /\ conv = New
        /\ turns = <<>>
        /\ pc = [r \in Requests |-> "idle"]
        /\ copy = [r \in Requests |-> Missing]
        /\ read = [r \in Requests |-> <<>>]
        /\ sequence = [r \in Requests |-> 0]
        /\ raced = {}

-----------------------------------------------------------------------------
(* The storage manager.                                                    *)

At(r, k, from) == kind[r] = k /\ pc[r] = from

Within(w) == {s \in Requests : pc[s] \in Windows[w]}

\* Request r goes on; it races with those in a window it enters.
Go(r, to) ==
    /\ pc' = [pc EXCEPT ![r] = to]
    /\ raced' = raced \cup UNION {{<<w, {r, s}>> : s \in Within(w) \ {r}} :
                                     w \in {v \in DOMAIN Windows : to \in Windows[v]}}

\* get_conversation.  find_one indexes an empty result: the request panics.
GetConversation(r, to) ==
    IF conv = Missing
    THEN Go(r, "panicked") /\ UNCHANGED copy
    ELSE Go(r, to) /\ copy' = [copy EXCEPT ![r] = conv]

GetTurns(r) == read' = [read EXCEPT ![r] = turns]

\* update_conversation replaces the whole document, and inserts it (upsert) when
\* there is none.
UpdateConversation(c) == conv' = c

\* insert_turn.  The ids are uuids and their index is unique.
InsertTurn(turn) == turns' = Append(turns, turn)

-----------------------------------------------------------------------------
(* send_turn and send_turn_streaming: get_conversation, get_turns, the     *)
(* agent, then save_turn.                                                  *)

StartTurn(r) == /\ At(r, "turn", "idle")
                /\ GetConversation(r, "history")
                /\ UNCHANGED <<kind, conv, turns, read, sequence>>

ReadHistory(r) == /\ At(r, "turn", "history")
                  /\ GetTurns(r)
                  /\ Go(r, "agent")
                  /\ UNCHANGED <<kind, conv, turns, copy, sequence>>

\* The outcome of the agent's stream.  An error is not saved.
AgentAnswers(r) == /\ At(r, "turn", "agent")
                   /\ Go(r, "save")
                   /\ UNCHANGED <<kind, conv, turns, locals>>

AgentFails(r) == /\ At(r, "turn", "agent")
                 /\ Go(r, "failed")
                 /\ UNCHANGED <<kind, conv, turns, locals>>

\* Mutant of SaveTurn: the conversation send_turn has read is used.
SaveBlindly(r) == /\ At(r, "turn", "save")
                  /\ Go(r, "count")
                  /\ UNCHANGED <<kind, conv, turns, locals>>

SaveTurn(r) == /\ At(r, "turn", "save")
               /\ GetConversation(r, "count")
               /\ UNCHANGED <<kind, conv, turns, read, sequence>>

\* Mutant of CountTurns: the turns billed to the conversation are counted.
CountBilled(r) == /\ At(r, "turn", "count")
                  /\ sequence' = [sequence EXCEPT ![r] = Cardinality(copy[r].usage) + 1]
                  /\ Go(r, "insert")
                  /\ UNCHANGED <<kind, conv, turns, copy, read>>

CountTurns(r) == /\ At(r, "turn", "count")
                 /\ sequence' = [sequence EXCEPT ![r] = Len(turns) + 1]
                 /\ Go(r, "insert")
                 /\ UNCHANGED <<kind, conv, turns, copy, read>>

\* The document of a turn, without its texts, times and costs.
NewTurn(r) == [id |-> r, sequence |-> sequence[r]]

InsertNewTurn(r) == /\ At(r, "turn", "insert")
                    /\ InsertTurn(NewTurn(r))
                    /\ Go(r, "reread")
                    /\ UNCHANGED <<kind, conv, locals>>

\* Mutant of ReadAgain: the conversation save_turn has read is used.
ReadOnce(r) == /\ At(r, "turn", "reread")
               /\ Go(r, "add")
               /\ UNCHANGED <<kind, conv, turns, locals>>

\* update_conversation_for_turn: it reads the conversation again, ..
ReadAgain(r) == /\ At(r, "turn", "reread")
                /\ GetConversation(r, "add")
                /\ UNCHANGED <<kind, conv, turns, read, sequence>>

\* .. adds the turn to what it read and replaces the document.
AddTurn(r) == /\ At(r, "turn", "add")
              /\ UpdateConversation([copy[r] EXCEPT !.usage = @ \cup {r}, !.response = r])
              /\ Go(r, "done")
              /\ UNCHANGED <<kind, turns, locals>>

-----------------------------------------------------------------------------
(* update_conversation.                                                    *)

StartUpdate(r) == /\ At(r, "update", "idle")
                  /\ GetConversation(r, "write")
                  /\ UNCHANGED <<kind, conv, turns, read, sequence>>

\* apply_update refuses settings that contradict each other.
UpdateRefused(r) == /\ At(r, "update", "write")
                    /\ Go(r, "failed")
                    /\ UNCHANGED <<kind, conv, turns, locals>>

WriteSettings(r) == /\ At(r, "update", "write")
                    /\ UpdateConversation([copy[r] EXCEPT !.settings = r])
                    /\ Go(r, "done")
                    /\ UNCHANGED <<kind, turns, locals>>

-----------------------------------------------------------------------------
(* delete_conversation.                                                    *)

StartDelete(r) == /\ At(r, "delete", "idle")
                  /\ GetConversation(r, "remove")
                  /\ UNCHANGED <<kind, conv, turns, read, sequence>>

RemoveConversation(r) == /\ At(r, "delete", "remove")
                         /\ conv' = Missing
                         /\ Go(r, "removeTurns")
                         /\ UNCHANGED <<kind, turns, locals>>

RemoveTurns(r) == /\ At(r, "delete", "removeTurns")
                  /\ turns' = <<>>
                  /\ Go(r, "done")
                  /\ UNCHANGED <<kind, conv, locals>>

-----------------------------------------------------------------------------
(* recalculate_conversation_usage_cost.                                    *)

StartRecalculation(r) == /\ At(r, "recalculate", "idle")
                         /\ GetConversation(r, "list")
                         /\ UNCHANGED <<kind, conv, turns, read, sequence>>

ListTurns(r) == /\ At(r, "recalculate", "list")
                /\ GetTurns(r)
                /\ Go(r, "recompute")
                /\ UNCHANGED <<kind, conv, turns, copy, sequence>>

\* update_turn inserts the turn, which the index refuses while it is stored.
RewriteTurn(r) == /\ At(r, "recalculate", "recompute")
                  /\ read[r] # <<>>
                  /\ IF Head(read[r]).id \in Ids
                     THEN /\ Go(r, "failed")
                          /\ UNCHANGED <<turns, read>>
                     ELSE /\ InsertTurn(Head(read[r]))
                          /\ read' = [read EXCEPT ![r] = Tail(@)]
                          /\ UNCHANGED <<pc, raced>>
                  /\ UNCHANGED <<kind, conv, copy, sequence>>

ResetUsage(r) == /\ At(r, "recalculate", "recompute")
                 /\ read[r] = <<>>
                 /\ UpdateConversation([copy[r] EXCEPT !.usage = {}])
                 /\ Go(r, "done")
                 /\ UNCHANGED <<kind, turns, locals>>

-----------------------------------------------------------------------------
\* The client disconnects, the database returns an error or the server stops:
\* what the request has written stays.
Stop(r) == /\ r \in Active
           /\ Go(r, "stopped")
           /\ UNCHANGED <<kind, conv, turns, locals>>

TurnStep(r) == \/ StartTurn(r) \/ ReadHistory(r) \/ AgentAnswers(r) \/ AgentFails(r)
               \/ SaveTurn(r) \/ CountTurns(r) \/ InsertNewTurn(r)
               \/ ReadAgain(r) \/ AddTurn(r)

OtherStep(r) == \/ StartUpdate(r) \/ UpdateRefused(r) \/ WriteSettings(r)
                \/ StartDelete(r) \/ RemoveConversation(r) \/ RemoveTurns(r)
                \/ StartRecalculation(r) \/ ListTurns(r) \/ RewriteTurn(r) \/ ResetUsage(r)

Finished == /\ \A r \in Requests : pc[r] \in Over \ {"idle"}
            /\ UNCHANGED vars

Next == \/ \E r \in Requests : TurnStep(r) \/ OtherStep(r) \/ Stop(r)
        \/ Finished

Spec == Init /\ [][Next]_vars
-----------------------------------------------------------------------------
(* Properties.                                                             *)

Raced(w, r, s) == <<w, {r, s}>> \in raced

\* A deletion overlapped with somebody else's write.
DeleteRaced == \E d, s \in Requests, w \in DOMAIN Windows :
                  kind[d] = "delete" /\ Raced(w, d, s)

\* Two turns get the same sequence number only when save_turn counted the one
\* while it had not yet inserted the other, or when a deletion came between.
SequencesUnique ==
    \A i, j \in DOMAIN turns : i < j /\ turns[i].sequence = turns[j].sequence =>
        Raced("turns", turns[i].id, turns[j].id) \/ DeleteRaced

\* What a request has written to the conversation, the usage of its turn or new
\* settings, is still there, unless another request was between its own read and
\* its own write at the same time.  The agent's answer, which takes minutes, lies
\* outside of that window.
WritesKept ==
    conv # Missing /\ ~DeleteRaced =>
        \A r \in Requests : pc[r] = "done" =>
           /\ kind[r] = "turn" => \/ r \in conv.usage
                                  \/ \E s \in Requests : Raced("conversation", r, s)
           /\ kind[r] = "update" =>
                 \/ conv.settings = r
                 \/ \E s \in Requests : \/ Raced("conversation", r, s)
                                        \/ s # r /\ kind[s] = "update" /\ pc[s] = "done"

\* A deleted conversation stays deleted, with all of its turns, unless another
\* request was about to write when it was deleted.
StaysDeleted ==
    (\E d \in Requests : kind[d] = "delete" /\ pc[d] = "done") /\ ~DeleteRaced =>
        conv = Missing /\ turns = <<>>
=============================================================================
