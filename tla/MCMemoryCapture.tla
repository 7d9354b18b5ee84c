-------------------------- MODULE MCMemoryCapture --------------------------
(* Two captures about one fact slot that already has a value. *)
EXTENDS MemoryCapture, TLC
CONSTANTS r1, r2, w1, w2, s1, t1, t2
MCDrafts == {[slot |-> s1, text |-> t2, expires |-> FALSE],
             [slot |-> NoSlot, text |-> t1, expires |-> TRUE]}
MCAbout == {t1, t2} \X {t1, t2}
MCKnown == [slot |-> s1, text |-> t1, expires |-> FALSE]
Symmetry == Permutations(Workers) \union Permutations(Runs)
=============================================================================
