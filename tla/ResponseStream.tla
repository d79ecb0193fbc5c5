---------------------------- MODULE ResponseStream ----------------------------
(***************************************************************************)
(* What every streaming call of rustic-agent promises its reader, whether  *)
(* a single agent or a pipeline answers it: any number of content, thought *)
(* and status chunks, at most one outcome, and an end behind which nothing *)
(* comes.  It does not promise an outcome: the stream may just end.        *)
(***************************************************************************)
EXTENDS Sequences

VARIABLES outcomes,   \* the Final chunks and errors the reader received
          closed      \* the reader has seen the end, or has left

streamVars == <<outcomes, closed>>

Init == /\ outcomes = <<>>
        /\ closed = FALSE

Answer(kind) == /\ ~closed
                /\ outcomes = <<>>
                /\ outcomes' = <<kind>>
                /\ closed' \in BOOLEAN

End == /\ ~closed
       /\ closed' = TRUE
       /\ UNCHANGED outcomes

Next == \/ Answer("final")
        \/ Answer("error")
        \/ End

Spec == Init /\ [][Next]_streamVars
=============================================================================
