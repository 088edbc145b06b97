--------------------------- MODULE MCExecuteWaves ---------------------------
(***************************************************************************)
(* ExecuteWaves for TLC: two plans in the first wave, one of which names   *)
(* no wave, and one in the second.                                         *)
(***************************************************************************)
EXTENDS ExecuteWaves

CONSTANTS p1, p2, p3

MCPlans == <<p1, p2, p3>>
MCWaves == (p1 :> 0 @@ p2 :> 1 @@ p3 :> 2)

=============================================================================
