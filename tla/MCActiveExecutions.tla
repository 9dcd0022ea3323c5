-------------------------- MODULE MCActiveExecutions --------------------------
(* Execution e1 is created by a1 and resumed by a2, execution e2 is created *)
(* by b1; both compete for one slot unless a configuration says otherwise. *)
EXTENDS ActiveExecutions, TLC

CONSTANTS a1, a2, b1, e1, e2

MCExecutions == {e1, e2}
MCExecutionOf == (a1 :> e1) @@ (a2 :> e1) @@ (b1 :> e2)

=============================================================================
