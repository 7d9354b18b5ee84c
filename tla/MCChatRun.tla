----------------------------- MODULE MCChatRun -----------------------------
(* Small instances of ChatRun. *)
EXTENDS ChatRun, TLC

CONSTANTS s1, k1, k2, i1, i2

\* Instances and keys are interchangeable; sessions are not permuted.
Interchangeable == Permutations(Instances) \union Permutations(Keys)
=============================================================================
