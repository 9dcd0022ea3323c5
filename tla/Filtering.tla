------------------------------- MODULE Filtering -------------------------------
(***************************************************************************)
(* The loops of the broker that splice elements out of a list and leave    *)
(* the others in their order.  It is SelectSeq for the test of membership, *)
(* as a recursive function: what SelectSeq returns is beyond the provers.  *)
(***************************************************************************)
EXTENDS Naturals, Sequences

\* The elements of s that are in S, in their order.
Keep(s, S) ==
    LET kept[i \in 0..Len(s)] ==
          IF i = 0 THEN <<>>
          ELSE IF s[i] \in S THEN Append(kept[i - 1], s[i]) ELSE kept[i - 1]
    IN kept[Len(s)]

=============================================================================
