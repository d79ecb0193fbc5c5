----------------------------- MODULE MCKeyCache -----------------------------
(***************************************************************************)
(* A small instance of KeyCache.                                           *)
(***************************************************************************)
EXTENDS KeyCache

CONSTANTS r1, r2

MCRequests == {r1, r2}
=============================================================================
