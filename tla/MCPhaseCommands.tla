-------------------------- MODULE MCPhaseCommands --------------------------
(***************************************************************************)
(* PhaseCommands for TLC: two integer phases, the first one finished.    *)
(***************************************************************************)
EXTENDS PhaseCommands

MCRoadmap ==
    <<[id |-> 1, major |-> 1, minor |-> 0, done |-> TRUE, begun |-> TRUE],
      NewPhase(2, 2, 0)>>

Symmetry == Permutations(Commands)

=============================================================================
