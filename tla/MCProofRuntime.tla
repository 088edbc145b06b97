--------------------------- MODULE MCProofRuntime ---------------------------
(***************************************************************************)
(* ProofRuntime for TLC.  The processes are interchangeable wherever no    *)
(* liveness is checked.                                                    *)
(***************************************************************************)
EXTENDS ProofRuntime, TLC

Symmetry == Permutations(Procs)

=============================================================================
