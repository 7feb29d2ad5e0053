--------------------------- MODULE MCAttemptOpening ---------------------------
(***************************************************************************)
(* An instance of AttemptOpening for TLC: the starts, and the requests in  *)
(* flight, differ in their names only.                                     *)
(***************************************************************************)
EXTENDS AttemptOpening, TLC

MCSymmetry == Permutations(Requests) \cup Permutations(Edits)
=============================================================================
