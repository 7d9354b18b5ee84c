------------------------- MODULE ReminderLifecycle -------------------------
(***************************************************************************)
(* What reminder delivery promises the owner of a reminder: one life cycle *)
(* per reminder, a cancelled reminder is never sent, a fired one was.      *)
(***************************************************************************)
CONSTANT Reminders

VARIABLES
    status,     \* status[r], or "none" before the reminder exists
    sent        \* reminders the delivery provider accepted

LifecycleVars == <<status, sent>>

Init ==
    /\ status = [r \in Reminders |-> "none"]
    /\ sent = {}

Move(r, from, to) ==
    /\ status[r] = from
    /\ status' = [status EXCEPT ![r] = to]
    /\ UNCHANGED sent

Create(r) == Move(r, "none", "scheduled")
Cancel(r) == Move(r, "scheduled", "cancelled")
Trigger(r) == Move(r, "scheduled", "processing")
GiveUp(r) == Move(r, "processing", "failed")

\* Only a reminder the provider accepted is reported as fired.
Fire(r) ==
    /\ r \in sent
    /\ Move(r, "processing", "fired")

\* A worker that lost its lease may still reach the provider after another
\* worker has given up, so acceptance can come after "failed"; it never comes
\* before the trigger or after a cancellation.
Send(r) ==
    /\ status[r] \in {"processing", "failed"}
    /\ sent' = sent \union {r}
    /\ UNCHANGED status

Next ==
    \E r \in Reminders :
        Create(r) \/ Cancel(r) \/ Trigger(r) \/ GiveUp(r) \/ Fire(r) \/ Send(r)

Spec == Init /\ [][Next]_LifecycleVars
=============================================================================
