--------------------------- MODULE MCFileRepository ---------------------------
(***************************************************************************)
(* FileRepository for TLC.  Two keys, two values and four appends: a       *)
(* record, a fragment, records of either key behind it, and a restart      *)
(* anywhere in between.                                                    *)
(***************************************************************************)
EXTENDS FileRepository

CONSTANTS k1, k2, v1, v2

MCKeys == {k1, k2}
MCVals == {v1, v2}
=============================================================================
