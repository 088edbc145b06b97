--------------------------- MODULE MCAdvisorQueue ---------------------------
(***************************************************************************)
(* AdvisorQueue for TLC: two hook processes at a time.                     *)
(***************************************************************************)
EXTENDS AdvisorQueue

Symmetry == Permutations(Hooks) \cup Permutations(Ids)

=============================================================================
