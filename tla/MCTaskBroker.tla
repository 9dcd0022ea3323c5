----------------------------- MODULE MCTaskBroker -----------------------------
(* Two requests compete for a runner that takes one task at a time and may *)
(* offer to three times.                                                   *)
EXTENDS TaskBroker

CONSTANTS r1, q1, q2

MCRunnerOf == [o \in Offers |-> r1]
MCTypeOf == [x \in Runners \cup Requests |-> "javascript"]

=============================================================================
