-------------------------- MODULE MCConcurrencyQueue --------------------------
(* Five calls for three executions (two resumes of e1 wait under one id).  *)
EXTENDS ConcurrencyQueue

CONSTANTS c1, c2, c3, c4, c5, e1, e2, e3

MCCalls == {c1, c2, c3, c4, c5}
MCExecutions == {e1, e2, e3}
MCExecutionOf == (c1 :> e1) @@ (c2 :> e1) @@ (c3 :> e2) @@ (c4 :> e3) @@ (c5 :> e3)

=============================================================================
