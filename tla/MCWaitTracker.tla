----------------------------- MODULE MCWaitTracker -----------------------------
(* A parent with one sub-workflow.                                         *)
EXTENDS WaitTracker

CONSTANTS m1, m2, parent, child

ChildOfP == [x \in Executions |-> IF x = child THEN parent ELSE None]

\* The mains are alike, so the parent may as well start on the first one.
InitOnFirst == Init /\ run[parent].on = m1
OnFirstMain == InitOnFirst /\ [][Next]_vars /\ Fairness

=============================================================================
