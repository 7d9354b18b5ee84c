-------------------------- MODULE MCMemoryRecall --------------------------
(* One fact slot whose value is replaced while it is recalled. *)
EXTENDS MemoryRecall, TLC
CONSTANTS s1, t1, t2, p1, q1
MCDrafts == {[slot |-> s1, text |-> t1, expires |-> TRUE],
             [slot |-> NoSlot, text |-> t2, expires |-> FALSE]}
MCAbout == {}
MCPlans == {<<t2, s1>>}
=============================================================================
