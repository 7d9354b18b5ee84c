------------------------- MODULE MCDurableWorkflow -------------------------
(***************************************************************************)
(* Small instances of DurableWorkflow: a gate followed by a committing     *)
(* node, two workers, one of which has a fast clock.                       *)
(***************************************************************************)
EXTENDS DurableWorkflow, TLC

CONSTANTS w1, w2

MCSkew == [w \in Workers |-> IF w = w2 THEN 1 ELSE 0]
Symmetry == Permutations(Actions)
NoSkew == [w \in Workers |-> 0]
=============================================================================
