------------------------------ MODULE MCAgentLoop ------------------------------
(***************************************************************************)
(* AgentLoop for TLC.  Three requests: the second follows tools that       *)
(* returned or failed, the third can tell the newest iteration from the    *)
(* oldest, and after it the cap is reached.  Two calls in a response, and  *)
(* a channel of one place, so that every send can block.  The forwarding   *)
(* consumer and the relay mode do not depend on the provider and are       *)
(* paired with one of them.                                                *)
(***************************************************************************)
EXTENDS AgentLoop

MCAgents == {a \in Configurations :
               (a.relay \/ a.consumer = "forward") => a.provider = "openai"}
MCUsages == {1}
=============================================================================
