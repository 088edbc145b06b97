-------------------------- MODULE MCAutoPipeline --------------------------
(***************************************************************************)
(* AutoPipeline for TLC: small roadmaps.                                   *)
(***************************************************************************)
EXTENDS AutoPipeline

MCOne == <<NewPhase(1, 1, 0)>>
MCDecimals == <<NewPhase(1, 1, 0), NewPhase(2, 1, 1), NewPhase(3, 2, 0)>>

Symmetry == Permutations(Sessions)

=============================================================================
