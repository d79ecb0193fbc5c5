--------------------------- MODULE MCFileDatabase ---------------------------
(***************************************************************************)
(* A small instance of FileDatabase: neither the names of collections nor  *)
(* the keys are compared with anything but each other.                     *)
(***************************************************************************)
EXTENDS FileDatabase

MCSymmetry == Permutations(Names) \cup Permutations(Keys)
=============================================================================
