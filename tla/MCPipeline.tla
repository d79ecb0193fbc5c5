------------------------------ MODULE MCPipeline ------------------------------
(***************************************************************************)
(* Pipeline for TLC: see Pipeline.cfg.  Three agents compete for two       *)
(* permits, so that one has to wait for a permit a timeout frees; three    *)
(* stages, or three decisions, so that usage is carried over two of them.  *)
(***************************************************************************)
EXTENDS Pipeline
=============================================================================
