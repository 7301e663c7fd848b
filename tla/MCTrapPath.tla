---------------------------- MODULE MCTrapPath ----------------------------
(* A two-instruction user program for TLC; text addresses wrap around.     *)
EXTENDS TrapPathRefinement

MCUserPC == {"u0", "u1"}
MCNextPC == [a \in MCUserPC |-> IF a = "u0" THEN "u1" ELSE "u0"]
=============================================================================
