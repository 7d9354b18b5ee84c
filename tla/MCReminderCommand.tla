------------------------- MODULE MCReminderCommand -------------------------
(* A create that pins a memory, an update and a cancel of the one reminder    *)
(* there is, and an update that writes what the create would have written.    *)
EXTENDS ReminderCommand, TLC
CONSTANTS r1, w1, w2, b1, m1
MCExisting == b1 :> [content |-> "old", when |-> 1, refs |-> {}]
Every == [label |-> "", statuses |-> {"scheduled"}]
Old == [label |-> "old", statuses |-> {}]
MCPlans ==
    {[action |-> "create", content |-> "new", when |-> 1, selects |-> {m1}, selector |-> None,
      unclear |-> FALSE],
     [action |-> "update", content |-> "new", when |-> 1, selects |-> {m1}, selector |-> Every,
      unclear |-> FALSE],
     [action |-> "cancel", content |-> "", when |-> None, selects |-> {}, selector |-> Old,
      unclear |-> FALSE]}
Symmetry == Permutations(Workers)
=============================================================================
