-------------------------- MODULE MCLearningProgress --------------------------
(***************************************************************************)
(* An instance of LearningProgress for TLC: the first attempt is about the *)
(* exercise as a whole; the author then makes it a gap exercise, and the   *)
(* second is about its gap.                                                *)
(***************************************************************************)
EXTENDS LearningProgress, TLC

CONSTANTS exercise, gap, h1, h2

MCDates == 1 .. 4

MCTouched == (1 :> {exercise}) @@ (2 :> {gap})

MCSymmetry == Permutations({h1, h2})
=============================================================================
