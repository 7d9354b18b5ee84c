---------------------------- MODULE WorkflowRun ----------------------------
(***************************************************************************)
(* What a durable workflow promises its callers, with no workers, leases   *)
(* or checkpoints in sight: a run is created once, advances in indivisible *)
(* segments, and every segment that starts from a suspended run consumes   *)
(* exactly one human decision.  DurableWorkflow implements this module.    *)
(***************************************************************************)
EXTENDS Integers, Sequences

CONSTANTS
    Runs,       \* workflow runs (one per owner, workflow and idempotency key)
    NumNodes,   \* the definition is the node sequence 1..NumNodes
    Gates,      \* the nodes that may suspend the run for a human
    Actions     \* human actions a gate accepts

VARIABLES
    status,     \* status[r]: the run's persistent status
    done,       \* done[r]: how many nodes of the definition have completed
    decisions   \* decisions[r]: the human actions accepted so far, in order

rvars == <<status, done, decisions>>

Terminal == {"completed", "failed", "cancelled", "expired"}

Init ==
    /\ status = [r \in Runs |-> "absent"]
    /\ done = [r \in Runs |-> 0]
    /\ decisions = [r \in Runs |-> <<>>]

\* A client creates the run; the idempotency key makes this happen once.
Create(r) ==
    /\ status[r] = "absent"
    /\ status' = [status EXCEPT ![r] = "pending"]
    /\ UNCHANGED <<done, decisions>>

\* One committed segment takes the run from n completed nodes to m and
\* leaves it suspended at a gate, completed, or stopped by an error.
Advance(r, m, s) ==
    /\ m \in done[r] .. NumNodes
    /\ \/ s = "suspended" /\ m + 1 \in Gates
       \/ s = "completed" /\ m = NumNodes
       \/ s \in {"failed", "cancelled", "expired"}
    /\ status' = [status EXCEPT ![r] = s]
    /\ done' = [done EXCEPT ![r] = m]

Begin(r, m, s) ==
    /\ status[r] = "pending"
    /\ Advance(r, m, s)
    /\ UNCHANGED decisions

Decide(r, a, m, s) ==
    /\ status[r] = "suspended"
    /\ Advance(r, m, s)
    /\ decisions' = [decisions EXCEPT ![r] = Append(@, a)]

Next ==
    \E r \in Runs :
        \/ Create(r)
        \/ \E m \in 0 .. NumNodes, s \in Terminal \union {"suspended"} :
              \/ Begin(r, m, s)
              \/ \E a \in Actions : Decide(r, a, m, s)

Spec == Init /\ [][Next]_rvars
=============================================================================
