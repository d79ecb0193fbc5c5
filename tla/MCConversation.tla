---------------------------- MODULE MCConversation ----------------------------
(***************************************************************************)
(* Conversation for TLC.  Four requests of which at most two are turns:    *)
(* two that race, a third that reads what they left, and a deletion or a   *)
(* recalculation among them.  No property tells requests of one kind       *)
(* apart, so that they are symmetric.                                      *)
(***************************************************************************)
EXTENDS Conversation, TLC

CONSTANTS r1, r2, r3, r4

MCRequests == {r1, r2, r3, r4}
MCMixes    == {m \in [MCRequests -> Kinds] :
                 Cardinality({r \in MCRequests : m[r] = "turn"}) <= 2}
Symmetry   == Permutations(MCRequests)
=============================================================================
