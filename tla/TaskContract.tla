---------------------------- MODULE TaskContract ----------------------------
(***************************************************************************)
(* What the proof-first runtime promises about a task, as                  *)
(* docs/architecture/runtime-foundation.md states it in sections 5 and 7:  *)
(* a task moves through its lifecycle, and the Done Gate alone decides     *)
(* whether it may be marked done or shipped.                               *)
(*                                                                         *)
(* The evidence of a task is reduced to one bit: would the Done Gate pass  *)
(* on what is recorded now.  Collecting evidence may turn the bit either   *)
(* way; a verdict must follow it, in both directions: no false done, and   *)
(* no task blocked whose proof is there.                                   *)
(***************************************************************************)
CONSTANT TaskIds

VARIABLES
    status,     \* status of each task, "none" when it does not exist
    proof       \* whether its recorded evidence would pass the gate

vars == <<status, proof>>

Move(t, new) == status' = [status EXCEPT ![t] = new] /\ UNCHANGED proof

Init ==
    /\ status = [t \in TaskIds |-> "none"]
    /\ proof = [t \in TaskIds |-> FALSE]

\* A new goal is accepted under t; what was recorded may not fit its risk.
Accept(t) ==
    /\ status' = [status EXCEPT ![t] = "intake"]
    /\ \E b \in BOOLEAN : proof' = [proof EXCEPT ![t] = b]

Advance(t) ==
    \/ status[t] = "intake" /\ Move(t, "executing")
    \/ status[t] = "executing" /\ Move(t, "verifying")

Collect(t) ==
    /\ status[t] # "none"
    /\ \E b \in BOOLEAN : proof' = [proof EXCEPT ![t] = b]
    /\ UNCHANGED status

Verdict(t) ==
    /\ status[t] # "none"
    /\ Move(t, IF proof[t] THEN "done" ELSE "blocked")

Ship(t) ==
    /\ proof[t]
    /\ Move(t, "shipped")

Next == \E t \in TaskIds :
    Accept(t) \/ Advance(t) \/ Collect(t) \/ Verdict(t) \/ Ship(t)

Spec == Init /\ [][Next]_vars

=============================================================================
