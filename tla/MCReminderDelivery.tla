------------------------ MODULE MCReminderDelivery ------------------------
(***************************************************************************)
(* Small instances of ReminderDelivery.                                    *)
(***************************************************************************)
EXTENDS ReminderDelivery, TLC

Symmetry == Permutations(Reminders) \union Permutations(Workers)
                \union Permutations(Dispatchers) \union Permutations(Commands)
=============================================================================
