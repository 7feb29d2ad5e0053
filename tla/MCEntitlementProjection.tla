----------------------- MODULE MCEntitlementProjection -----------------------
(***************************************************************************)
(* Instances of EntitlementProjection for TLC.  Messages under way at once *)
(* differ in nothing but their names, and so do readers.                   *)
(***************************************************************************)
EXTENDS EntitlementProjection, TLC

Symmetry == Permutations(Handlers) \cup Permutations(Readers)

=============================================================================
