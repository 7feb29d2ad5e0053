--------------------------- MODULE MCAttemptReview ---------------------------
(***************************************************************************)
(* Instances of AttemptReview for TLC.                                     *)
(***************************************************************************)
EXTENDS AttemptReview, TLC

CONSTANTS t1, t2, a1, a2, c1, c2

MCTeachers == {t1, t2}
MCAiCalls == {a1, a2}

MCOneTeacher == {t1}
MCOneCall == {a1}

\* One thing at a time, but for a second press of the learner.
Serial == (c1 :> Op) @@ (c2 :> {"dispute"})

\* Work no teacher comes to.
Unattended == (c1 :> {"submit_answer", "put_ai_review", "give_up", "accept_at_term"})

\* One stale write beside everyone else.
ClaimBeside == (c1 :> {"submit_answer", "review", "batch_approve"}) @@ (c2 :> {"claim"})

MCSymmetry == Permutations(MCTeachers) \cup Permutations(MCAiCalls)
=============================================================================
