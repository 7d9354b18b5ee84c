-------------------------- MODULE DurableWorkflow --------------------------
(***************************************************************************)
(* The durable workflow runtime: DurableRuntime (internal/workflow) driving *)
(* a Runner in memory on top of the MySQL WorkflowStore.  Workers are the   *)
(* goroutines that serve Start and Resume calls; they share nothing but the *)
(* store, their clocks may be skewed, and each may stop anywhere (process   *)
(* crash, cancelled request context, panic, database error, refused         *)
(* encoding): the claim it took then stays in the store.                    *)
(***************************************************************************)
EXTENDS Integers, Sequences, FiniteSets

CONSTANTS
    Runs,         \* workflow runs, one per (owner, workflow, idempotency key)
    Workers,      \* goroutines executing Start or Resume
    NumNodes,     \* the definition is the node sequence 1..NumNodes
    Gates,        \* nodes that may ask for a human decision
    Actions,      \* the human actions a wait allows
    None,         \* no run, or no decision applied yet
    Lease,        \* DurableRuntimeOptions.LeaseDuration
    WaitTTL,      \* how long a wait point stays valid
    RunTTL,       \* budget deadline, counted from the creation of the run
    MaxSteps,     \* Budget.MaxSteps (0: unlimited)
    MaxResumes,   \* Budget.MaxResumes (0: unlimited)
    Skew,         \* Skew[w]: how far w's clock runs ahead
    MaxTime,      \* bound: the clock stops here
    MaxClaims     \* bound: number of claims ever attempted

ASSUME RuntimeAssumption ==
    /\ NumNodes \in Nat \ {0}
    /\ Gates \subseteq 1 .. NumNodes
    /\ None \notin Actions \union Runs
    /\ Lease \in Nat \ {0}
    /\ WaitTTL \in Nat \ {0}
    /\ RunTTL \in Nat
    /\ MaxSteps \in Nat
    /\ MaxResumes \in Nat
    /\ Skew \in [Workers -> Nat]
    /\ MaxTime \in Nat
    /\ MaxClaims \in Nat

VARIABLES
    \* the store
    ctl,        \* ctl[r]: Control of the committed checkpoint
    claim,      \* claim[r]: claim_token and lease_until of the run row
    waits,      \* waits[r]: rows of workflow_waits, oldest first
    events,     \* events[r]: rows of workflow_node_events, by sequence
    \* the workers
    pc,         \* pc[w]: where w stands in Start, Resume or execute
    job,        \* job[w]: the call w serves
    base,       \* base[w]: the state w decoded after its claim
    mem,        \* mem[w]: the state the Runner has reached in memory
    buf,        \* buf[w]: events collected and not yet committed
    \* the environment
    clock, nextToken, nextWait

store == <<ctl, claim, waits, events>>
local == <<job, base, mem, buf>>
vars == <<ctl, claim, waits, events, pc, job, base, mem, buf, clock, nextToken, nextWait>>

-----------------------------------------------------------------------------
(* Types and null records *)

Nodes == 1 .. NumNodes
Terminal == {"completed", "failed", "cancelled", "expired"}
StoredStatus == {"absent", "pending", "suspended"} \union Terminal
NoWait == [id |-> 0, node |-> 0, expires |-> 0]
NoClaim == [token |-> 0, until |-> 0]
NoControl ==
    [status |-> "absent", node |-> 0, attempt |-> 0, done |-> 0, wait |-> NoWait,
     ver |-> 0, steps |-> 0, resumes |-> 0, seq |-> 0, data |-> None,
     deadline |-> 0]
NoJob == [kind |-> "none", run |-> None, wait |-> 0, action |-> None, now |-> 0,
          expect |-> 0, call |-> 0, token |-> 0, at |-> 0]

Control ==
    [status : StoredStatus \union {"running"}, node : 0 .. NumNodes, attempt : Nat,
     done : 0 .. NumNodes,
     wait : [id : Nat, node : 0 .. NumNodes, expires : Nat],
     ver : Nat, steps : Nat, resumes : Nat, seq : Nat,
     data : Actions \union {None}, deadline : Nat]
Event == [type : {"started", "completed", "suspended", "resumed", "failed"},
          node : Nodes, attempt : Nat, wait : Nat]
WaitRow == [id : Nat, status : {"pending", "processing", "resolved"},
            token : Nat, until : Nat, expires : Nat,
            action : Actions \union {None}]
Job == [kind : {"none", "start", "resume"}, run : Runs \union {None}, wait : Nat,
        action : Actions \union {None}, now : Nat, expect : Nat, call : Nat, token : Nat,
        at : 0 .. NumNodes + 1]

Now(w) == clock + Skew[w]

-----------------------------------------------------------------------------
(* ControlState: every state change bumps StateVersion *)

Touch(c) == [c EXCEPT !.ver = @ + 1]
Transition(c, s) == [c EXCEPT !.status = s, !.ver = @ + 1]
Emitted(c) == [c EXCEPT !.seq = @ + 1, !.ver = @ + 1]
NodeEvent(t, c, id) == [type |-> t, node |-> c.node, attempt |-> c.attempt, wait |-> id]

DeadlinePassed(c, t) == c.deadline # 0 /\ t >= c.deadline
StepBudgetSpent(c) == MaxSteps > 0 /\ c.steps >= MaxSteps
ResumeBudgetSpent(c) == MaxResumes > 0 /\ c.resumes >= MaxResumes

\* WaitPoint.ValidateResume: unexpired, and the command names this wait
ValidateResume(id, expires, j, t) == expires > t /\ id = j.wait

-----------------------------------------------------------------------------
Init ==
    /\ ctl = [r \in Runs |-> NoControl]
    /\ claim = [r \in Runs |-> NoClaim]
    /\ waits = [r \in Runs |-> <<>>]
    /\ events = [r \in Runs |-> <<>>]
    /\ pc = [w \in Workers |-> "idle"]
    /\ job = [w \in Workers |-> NoJob]
    /\ base = [w \in Workers |-> NoControl]
    /\ mem = [w \in Workers |-> NoControl]
    /\ buf = [w \in Workers |-> <<>>]
    /\ clock = 0
    /\ nextToken = 1
    /\ nextWait = 1

\* The call returns to its client and w forgets everything it held in memory.
Return(w) ==
    /\ pc' = [pc EXCEPT ![w] = "idle"]
    /\ job' = [job EXCEPT ![w] = NoJob]
    /\ base' = [base EXCEPT ![w] = NoControl]
    /\ mem' = [mem EXCEPT ![w] = NoControl]
    /\ buf' = [buf EXCEPT ![w] = <<>>]

-----------------------------------------------------------------------------
(* DurableRuntime.Start and Resume, up to the claim.  `now' is read before  *)
(* the store is called and may be stale when the claim is taken.            *)

Call(w, kind, r, id, a) ==
    [kind |-> kind, run |-> r, wait |-> id, action |-> a, now |-> Now(w),
     expect |-> ctl[r].ver, call |-> nextToken, token |-> 0, at |-> 0]

Accept(w, j) ==
    /\ pc[w] = "idle"
    /\ nextToken <= MaxClaims
    /\ pc' = [pc EXCEPT ![w] = "claim"]
    /\ job' = [job EXCEPT ![w] = j]
    /\ nextToken' = nextToken + 1
    /\ UNCHANGED <<claim, waits, events, base, mem, buf, clock, nextWait>>

\* CreateRun inserts the row.
StartNew(w, r) ==
    /\ ctl[r].status = "absent"
    /\ ctl' = [ctl EXCEPT ![r] = [NoControl EXCEPT !.status = "pending", !.deadline = Now(w) + RunTTL]]
    /\ Accept(w, Call(w, "start", r, 0, None))

\* CreateRun finds a row with the same start data.  A run past "pending" is
\* returned as it is, and different start data is refused: no state changes.
StartAgain(w, r) ==
    /\ ctl[r].status = "pending"
    /\ Accept(w, Call(w, "start", r, 0, None))
    /\ UNCHANGED ctl

\* Resume reads the checkpoint; every mismatch is an early return.
Resume(w, r, a) ==
    LET j == Call(w, "resume", r, ctl[r].wait.id, a)
    IN  /\ ctl[r].status = "suspended"
        /\ ValidateResume(ctl[r].wait.id, ctl[r].wait.expires, j, j.now)
        /\ Accept(w, j)
        /\ UNCHANGED ctl

\* WorkflowStore.ClaimRun: one conditional UPDATE.
CanClaimRun(w) ==
    LET r == job[w].run
    IN  /\ ctl[r].status = "pending"
        /\ ctl[r].ver = job[w].expect
        /\ claim[r].token = 0 \/ claim[r].until <= job[w].now

\* The most recent open wait row of a run, 0 when there is none.
CurrentWait(r) ==
    LET open == {i \in 1 .. Len(waits[r]) : waits[r][i].status # "resolved"}
    IN  IF open = {} THEN 0 ELSE CHOOSE i \in open : \A k \in open : k <= i

\* WorkflowStore.ClaimWait: run row and wait row under one transaction.
CanClaimWait(w) ==
    LET r == job[w].run
        i == CurrentWait(r)
    IN  /\ ctl[r].status = "suspended"
        /\ ctl[r].ver = job[w].expect
        /\ i # 0
        /\ ~(waits[r][i].status = "processing" /\ waits[r][i].until > job[w].now)
        /\ ValidateResume(waits[r][i].id, waits[r][i].expires, job[w], job[w].now)

NewClaim(w) == [token |-> job[w].call, until |-> job[w].now + Lease]

ClaimRun(w) ==
    /\ pc[w] = "claim" /\ job[w].kind = "start"
    /\ CanClaimRun(w)
    /\ claim' = [claim EXCEPT ![job[w].run] = NewClaim(w)]
    /\ pc' = [pc EXCEPT ![w] = "reload"]
    /\ UNCHANGED <<ctl, waits, events, job, base, mem, buf, clock, nextToken, nextWait>>

ClaimWait(w) ==
    LET r == job[w].run
    IN  /\ pc[w] = "claim" /\ job[w].kind = "resume"
        /\ CanClaimWait(w)
        /\ waits' = [waits EXCEPT ![r][CurrentWait(r)] =
                        [@ EXCEPT !.status = "processing", !.token = NewClaim(w).token,
                                  !.until = NewClaim(w).until]]
        /\ claim' = [claim EXCEPT ![r] = NewClaim(w)]
        /\ pc' = [pc EXCEPT ![w] = "reload"]
        /\ UNCHANGED <<ctl, events, job, base, mem, buf, clock, nextToken, nextWait>>

ClaimRefused(w) ==
    /\ pc[w] = "claim"
    /\ IF job[w].kind = "start" THEN ~CanClaimRun(w) ELSE ~CanClaimWait(w)
    /\ Return(w)
    /\ UNCHANGED <<store, clock, nextToken, nextWait>>

\* Both claims end with a GetRun outside their transaction: the state *and the
\* token* the worker goes on with are whatever the row holds by then.
Reload(w) ==
    LET r == job[w].run
    IN  /\ pc[w] = "reload"
        /\ base' = [base EXCEPT ![w] = ctl[r]]
        /\ mem' = [mem EXCEPT ![w] = ctl[r]]
        /\ job' = [job EXCEPT ![w].token = claim[r].token]
        /\ pc' = [pc EXCEPT ![w] = "begin"]
        /\ UNCHANGED <<store, buf, clock, nextToken, nextWait>>

-----------------------------------------------------------------------------
(* Runner, in memory.  Every exit of the Runner reads the time of the       *)
(* commit request and hands its result to CommitExecution.                  *)

Exit(w, c) ==
    /\ mem' = [mem EXCEPT ![w] = c]
    /\ pc' = [pc EXCEPT ![w] = "commit"]
    /\ job' = [job EXCEPT ![w].now = Now(w)]
    /\ UNCHANGED <<store, base, clock, nextToken>>

EnterLoop(w, c, n) ==
    /\ mem' = [mem EXCEPT ![w] = c]
    /\ pc' = [pc EXCEPT ![w] = "node"]
    /\ job' = [job EXCEPT ![w].at = n]
    /\ UNCHANGED <<store, base, clock, nextToken, nextWait>>

\* Runner.Run accepts only a pending state without progress.
RunBegin(w) ==
    /\ pc[w] = "begin" /\ job[w].kind = "start"
    /\ mem[w].status = "pending"
    /\ EnterLoop(w, Transition(mem[w], "running"), 1)
    /\ UNCHANGED buf

CanResume(w) ==
    /\ mem[w].status = "suspended"
    /\ ~DeadlinePassed(mem[w], Now(w))
    /\ ~ResumeBudgetSpent(mem[w])
    /\ ~StepBudgetSpent(mem[w])
    /\ ValidateResume(mem[w].wait.id, mem[w].wait.expires, job[w], Now(w))
    /\ mem[w].wait.node = mem[w].node

SkippingResumeBegin(w) == \* mutant: resumes after the gate instead of at it
    /\ pc[w] = "begin" /\ job[w].kind = "resume"
    /\ CanResume(w)
    /\ EnterLoop(w, [mem[w] EXCEPT !.status = "running", !.wait = NoWait, !.ver = @ + 2,
                                   !.seq = @ + 1, !.resumes = @ + 1], mem[w].wait.node + 1)
    /\ buf' = [buf EXCEPT ![w] = Append(@, NodeEvent("resumed", mem[w], mem[w].wait.id))]

\* Runner.Resume: node.resumed, the wait is cleared, the run is running again.
ResumeBegin(w) ==
    LET c == [Emitted(mem[w]) EXCEPT !.wait = NoWait, !.resumes = @ + 1]
    IN  /\ pc[w] = "begin" /\ job[w].kind = "resume"
        /\ CanResume(w)
        /\ EnterLoop(w, Transition(c, "running"), mem[w].wait.node)
        /\ buf' = [buf EXCEPT ![w] = Append(@, NodeEvent("resumed", mem[w], mem[w].wait.id))]

\* The Runner refuses; the unchanged state is still offered to CommitExecution.
BeginRefused(w) ==
    /\ pc[w] = "begin"
    /\ IF job[w].kind = "start" THEN mem[w].status # "pending" ELSE ~CanResume(w)
    /\ Exit(w, mem[w])
    /\ UNCHANGED <<buf, nextWait>>

Blocked(w) == DeadlinePassed(mem[w], Now(w)) \/ StepBudgetSpent(mem[w])

\* stopBeforeNode: no node event.
StopBeforeNode(w) ==
    /\ pc[w] = "node" /\ job[w].at <= NumNodes
    /\ Blocked(w)
    /\ Exit(w, Transition(mem[w], IF DeadlinePassed(mem[w], Now(w)) THEN "expired" ELSE "failed"))
    /\ UNCHANGED <<buf, nextWait>>

StartedNoReset(c, n) == \* mutant: the attempt counter survives a change of node
    Touch([c EXCEPT !.node = n, !.attempt = @ + 1, !.steps = @ + 1])
Started(c, n) ==
    Touch([c EXCEPT !.node = n, !.attempt = IF c.node = n THEN c.attempt + 1 ELSE 1,
                    !.steps = @ + 1])

\* The node is entered and its side effects happen under ExecutionID
\* run:node:attempt, before the Runner learns the outcome.
ExecuteNode(w) ==
    LET c == Started(mem[w], job[w].at)
    IN  /\ pc[w] = "node" /\ job[w].at <= NumNodes
        /\ ~Blocked(w)
        /\ mem' = [mem EXCEPT ![w] = Emitted(c)]
        /\ buf' = [buf EXCEPT ![w] = Append(@, NodeEvent("started", c, 0))]
        /\ pc' = [pc EXCEPT ![w] = "outcome"]
        /\ UNCHANGED <<store, job, base, clock, nextToken, nextWait>>

LateDecided(w) == \* mutant: the decision reaches the node after the gate
    IF job[w].kind = "resume" /\ mem[w].steps = base[w].steps + 2
    THEN [mem[w] EXCEPT !.data = job[w].action]
    ELSE mem[w]
\* Only the first node a resumed call executes sees the human decision.
Decided(w) ==
    IF job[w].kind = "resume" /\ mem[w].steps = base[w].steps + 1
    THEN [mem[w] EXCEPT !.data = job[w].action]
    ELSE mem[w]

NodeContinues(w) ==
    LET c == [Decided(w) EXCEPT !.done = @ + 1]
    IN  /\ pc[w] = "outcome"
        /\ ~DeadlinePassed(mem[w], Now(w))
        /\ EnterLoop(w, Emitted(Touch(c)), job[w].at + 1)
        /\ buf' = [buf EXCEPT ![w] = Append(@, NodeEvent("completed", c, 0))]

NodeSuspends(w) ==
    LET point == [id |-> nextWait, node |-> mem[w].node, expires |-> Now(w) + WaitTTL]
        c == Transition([Decided(w) EXCEPT !.wait = point], "suspended")
    IN  /\ pc[w] = "outcome"
        /\ mem[w].node \in Gates
        /\ ~DeadlinePassed(mem[w], Now(w))
        /\ Exit(w, Emitted(c))
        /\ buf' = [buf EXCEPT ![w] = Append(@, NodeEvent("suspended", c, nextWait))]
        /\ nextWait' = nextWait + 1

\* nodeFailure: the node's own error, or the deadline found passed after it.
NodeFails(w, s) ==
    /\ pc[w] = "outcome"
    /\ s \in {"failed", "cancelled", "expired"}
    /\ DeadlinePassed(mem[w], Now(w)) => s = "expired"
    /\ Exit(w, Emitted(Transition(mem[w], s)))
    /\ buf' = [buf EXCEPT ![w] = Append(@, NodeEvent("failed", mem[w], 0))]
    /\ UNCHANGED nextWait

RunCompletes(w) ==
    /\ pc[w] = "node" /\ job[w].at > NumNodes
    /\ Exit(w, Transition(mem[w], "completed"))
    /\ UNCHANGED <<buf, nextWait>>

-----------------------------------------------------------------------------
(* WorkflowStore.CommitExecution and RenewClaim *)

HoldsClaim(w) ==
    LET r == job[w].run
    IN  /\ claim[r].token # 0
        /\ claim[r].token = job[w].token
        /\ claim[r].until > job[w].now

\* The wait row this execution resolves: claimed with the same token.
Resolvable(w, i) ==
    LET row == waits[job[w].run][i]
    IN  /\ row.id = job[w].wait
        /\ row.status = "processing"
        /\ row.token = job[w].token

CanCommitUnfenced(w) == mem[w].ver > base[w].ver \* mutant: neither claim nor version checked
CanCommit(w) ==
    LET r == job[w].run
    IN  /\ HoldsClaim(w)
        /\ ctl[r].ver = base[w].ver /\ mem[w].ver > base[w].ver
        /\ Len(buf[w]) = mem[w].seq - ctl[r].seq
        /\ job[w].kind = "resume" => \E i \in 1 .. Len(waits[r]) : Resolvable(w, i)
        /\ mem[w].status = "suspended" =>
              \A i \in 1 .. Len(waits[r]) : waits[r][i].id # mem[w].wait.id

UnresolvedWaits(w) == waits[job[w].run] \* mutant: the wait row is left in processing
\* The wait rows after the commit: the claimed one resolved, a new one added.
ResolvedWaits(w) ==
    [i \in 1 .. Len(waits[job[w].run]) |->
        IF job[w].kind = "resume" /\ Resolvable(w, i)
        THEN [waits[job[w].run][i] EXCEPT !.status = "resolved", !.token = 0, !.until = 0,
                                          !.action = job[w].action]
        ELSE waits[job[w].run][i]]
NewWaitRow(p) == [id |-> p.id, status |-> "pending", token |-> 0, until |-> 0,
                  expires |-> p.expires, action |-> None]

CommitExecution(w) ==
    LET r == job[w].run
    IN  /\ pc[w] = "commit"
        /\ CanCommit(w)
        /\ ctl' = [ctl EXCEPT ![r] = mem[w]]
        /\ claim' = [claim EXCEPT ![r] = NoClaim]
        /\ waits' = [waits EXCEPT ![r] =
                        IF mem[w].status = "suspended"
                        THEN Append(ResolvedWaits(w), NewWaitRow(mem[w].wait))
                        ELSE ResolvedWaits(w)]
        /\ events' = [events EXCEPT ![r] = @ \o buf[w]]
        /\ Return(w)
        /\ UNCHANGED <<clock, nextToken, nextWait>>

\* Lease lost, state conflict, or no claim left on the row that was read.
CommitRefused(w) ==
    /\ pc[w] = "commit"
    /\ ~CanCommit(w)
    /\ Return(w)
    /\ UNCHANGED <<store, clock, nextToken, nextWait>>

\* RenewClaim extends the run's lease and that of the wait claimed with it.
RenewClaim(w) ==
    LET r == job[w].run
        until == Now(w) + Lease
    IN  /\ pc[w] \in {"node", "outcome"}
        /\ claim[r].token # 0 /\ claim[r].token = job[w].token
        /\ claim[r].until > Now(w)
        /\ claim' = [claim EXCEPT ![r].until = until]
        /\ waits' = [waits EXCEPT ![r] = [i \in 1 .. Len(waits[r]) |->
                        IF waits[r][i].status = "processing" /\ waits[r][i].token = job[w].token
                        THEN [waits[r][i] EXCEPT !.until = until]
                        ELSE waits[r][i]]]
        /\ UNCHANGED <<ctl, events, pc, job, base, mem, buf, clock, nextToken, nextWait>>

\* The call ends without reaching the store again: crash, cancelled context,
\* panic, failed database call, refused checkpoint encoding.
Crash(w) ==
    /\ pc[w] # "idle"
    /\ Return(w)
    /\ UNCHANGED <<store, clock, nextToken, nextWait>>

Tick ==
    /\ clock < MaxTime
    /\ clock' = clock + 1
    /\ UNCHANGED <<store, pc, local, nextToken, nextWait>>

WorkerStep(w) ==
    \/ \E r \in Runs : \/ StartNew(w, r)
                       \/ StartAgain(w, r)
                       \/ \E a \in Actions : Resume(w, r, a)
    \/ ClaimRun(w) \/ ClaimWait(w) \/ ClaimRefused(w) \/ Reload(w)
    \/ RunBegin(w) \/ ResumeBegin(w) \/ BeginRefused(w)
    \/ StopBeforeNode(w) \/ ExecuteNode(w) \/ RunCompletes(w)
    \/ NodeContinues(w) \/ NodeSuspends(w)
    \/ \E s \in {"failed", "cancelled", "expired"} : NodeFails(w, s)
    \/ CommitExecution(w) \/ CommitRefused(w) \/ RenewClaim(w) \/ Crash(w)

Next == Tick \/ \E w \in Workers : WorkerStep(w)

Spec == Init /\ [][Next]_vars

-----------------------------------------------------------------------------
(* Properties *)

TypeOK ==
    /\ ctl \in [Runs -> Control]
    /\ claim \in [Runs -> [token : Nat, until : Nat]]
    /\ waits \in [Runs -> Seq(WaitRow)]
    /\ events \in [Runs -> Seq(Event)]
    /\ pc \in [Workers -> {"idle", "claim", "reload", "begin", "node", "outcome", "commit"}]
    /\ job \in [Workers -> Job]
    /\ base \in [Workers -> Control]
    /\ mem \in [Workers -> Control]
    /\ buf \in [Workers -> Seq(Event)]
    /\ clock \in Nat /\ nextToken \in Nat /\ nextWait \in Nat

\* The wait table and the checkpoint tell the same story: one resolved row per
\* accepted resume, and exactly one open row, the checkpoint's own PendingWait,
\* while the run is suspended (none otherwise).  ClaimWait and GetCurrentWait
\* pick "the latest open wait" and rely on it.
WaitsMatchCheckpoint ==
    \A r \in Runs :
        /\ Len(waits[r]) = ctl[r].resumes + (IF ctl[r].status = "suspended" THEN 1 ELSE 0)
        /\ \A i \in 1 .. Len(waits[r]) :
              waits[r][i].status = "resolved" <=> i <= ctl[r].resumes
        /\ ctl[r].status = "suspended" =>
              /\ waits[r][Len(waits[r])].id = ctl[r].wait.id
              /\ waits[r][Len(waits[r])].expires = ctl[r].wait.expires

\* A wait row is in processing under exactly the claim of its run row, so a
\* resume can never be refused by one lease while the other has lapsed.
ClaimsAgree ==
    \A r \in Runs : \A i \in 1 .. Len(waits[r]) :
        waits[r][i].status = "processing" =>
            claim[r] = [token |-> waits[r][i].token, until |-> waits[r][i].until]

\* What may follow an event in the audit log of one run.
Follows(e, f) ==
    CASE e.type = "started"   -> /\ f.type \in {"completed", "suspended", "failed"}
                                 /\ f.node = e.node /\ f.attempt = e.attempt
      [] e.type = "completed" -> f.type = "started" /\ f.node = e.node + 1 /\ f.attempt = 1
      [] e.type = "suspended" -> f.type = "resumed" /\ f.node = e.node /\ f.wait = e.wait
      [] e.type = "resumed"   -> /\ f.type = "started"
                                 /\ f.node = e.node /\ f.attempt = e.attempt + 1
      [] OTHER                -> FALSE

\* The committed audit log is one sequential execution of the definition,
\* whatever workers crashed, stalled or raced: node events alternate as the
\* Runner emits them, every resume answers the suspension before it, and the
\* log is as long as the checkpoint's event_sequence says.  In particular the
\* execution ids run:node:attempt of committed executions are distinct and can
\* serve as idempotency keys of side effects.
EventLogLegal ==
    \A r \in Runs :
        /\ Len(events[r]) = ctl[r].seq
        /\ events[r] # <<>> => /\ events[r][1].type = "started"
                               /\ events[r][1].node = 1 /\ events[r][1].attempt = 1
        /\ \A i \in 1 .. Len(events[r]) - 1 : Follows(events[r][i], events[r][i + 1])

\* The decision a surviving run carries in its data is the one the audit
\* columns of the last resolved wait name, even when several humans or
\* retries raced for that wait with different actions.
AuditMatchesData ==
    \A r \in Runs :
        ctl[r].status \in {"suspended", "completed"} =>
            ctl[r].data = IF ctl[r].resumes = 0 THEN None
                          ELSE waits[r][ctl[r].resumes].action

\* No late worker, renewal or claim touches a finished run.
TerminalIsFrozen ==
    [][\A r \in Runs : ctl[r].status \in Terminal =>
          /\ ctl'[r] = ctl[r] /\ claim'[r] = claim[r]
          /\ waits'[r] = waits[r] /\ events'[r] = events[r]]_vars

\* A committed checkpoint was computed from the checkpoint it replaces: no
\* execution is lost under a later one and none is applied to a state it did
\* not start from.
NoLostUpdate ==
    [][\A r \in Runs : ctl'[r].ver # ctl[r].ver =>
          \E w \in Workers : /\ job[w].run = r
                             /\ base[w] = ctl[r]
                             /\ mem[w] = ctl'[r]]_vars

\* The commit that ends a claim is made by the call that took the claim.
OnlyClaimantCommits ==
    [][\A w \in Workers : CommitExecution(w) => job[w].call = claim[job[w].run].token]_vars

\* What callers are promised: indivisible segments, one decision each.
Promise == INSTANCE WorkflowRun WITH
    status <- [r \in Runs |-> ctl[r].status],
    done <- [r \in Runs |-> ctl[r].done],
    decisions <- [r \in Runs |-> [i \in 1 .. ctl[r].resumes |-> waits[r][i].action]]

\* Workers, leases and checkpoints implement WorkflowRun: every commit is one
\* atomic segment, and every segment of a suspended run consumes the one
\* decision that its wait row records.
Refinement == Promise!Spec

-----------------------------------------------------------------------------
(* The inductive invariant behind the properties above *)

\* Checkpoints the store may hold.
StoredShape(c) ==
    /\ c.status # "running"
    /\ c.status \in {"absent", "pending"} => c.done = 0 /\ c.resumes = 0 /\ c.data = None
    /\ c.status = "absent" => c = NoControl
    /\ c.status = "suspended" =>
          c.node \in Gates /\ c.node = c.done + 1 /\ c.wait.node = c.node

\* A worker past its claim still knows the stored checkpoint exactly, or the
\* stored version has moved beyond the one it read.
KnowsBase(w) ==
    LET r == job[w].run
    IN  /\ StoredShape(base[w])
        /\ base[w].ver <= ctl[r].ver
        /\ base[w].ver = ctl[r].ver => base[w] = ctl[r]

\* How far the in-memory state may have moved from the one that was read.
Progressed(w) ==
    /\ mem[w].ver > base[w].ver
    /\ base[w].done <= mem[w].done
    /\ job[w].kind = "start" => base[w].status = "pending" /\ mem[w].resumes = 0
    /\ job[w].kind = "resume" => /\ base[w].status = "suspended"
                                 /\ mem[w].resumes = base[w].resumes + 1

InLoop(w) ==
    /\ mem[w].status = "running"
    /\ job[w].at = mem[w].done + 1
    /\ pc[w] = "outcome" => mem[w].node = job[w].at /\ mem[w].steps > base[w].steps
    /\ mem[w].steps >= base[w].steps
    /\ mem[w].steps = base[w].steps => job[w].at <= NumNodes
    /\ job[w].kind = "start" => mem[w].data = None
    /\ (/\ job[w].kind = "resume"
        /\ mem[w].steps > base[w].steps + (IF pc[w] = "outcome" THEN 1 ELSE 0))
       => mem[w].data = job[w].action

Finished(w) ==
    /\ mem[w].status \in Terminal \union {"suspended"}
    /\ StoredShape(mem[w])
    /\ mem[w].status = "completed" => mem[w].done = NumNodes
    /\ mem[w].status \in {"suspended", "completed"} =>
          mem[w].data = IF job[w].kind = "resume" THEN job[w].action ELSE None

WorkerInv(w) ==
    /\ pc[w] # "idle" => /\ job[w].run \in Runs
                         /\ job[w].kind \in {"start", "resume"}
                         /\ job[w].kind = "resume" => job[w].action \in Actions
                         /\ ctl[job[w].run].status # "absent"
    /\ pc[w] \in {"begin", "node", "outcome", "commit"} => KnowsBase(w)
    /\ pc[w] = "begin" => mem[w] = base[w]
    /\ pc[w] \in {"node", "outcome"} => Progressed(w) /\ InLoop(w)
    /\ pc[w] = "commit" /\ mem[w].ver > base[w].ver => Progressed(w) /\ Finished(w)

\* The commit that ends a run gives its claim up, and nothing claims it again.
TerminalUnclaimed == \A r \in Runs : ctl[r].status \in Terminal => claim[r] = NoClaim

\* TypeOK, the store's own consistency, and what every worker knows: the parts
\* that make WaitsMatchCheckpoint, ClaimsAgree and AuditMatchesData inductive.
IInv ==
    /\ TypeOK
    /\ \A r \in Runs : StoredShape(ctl[r])
    /\ WaitsMatchCheckpoint
    /\ ClaimsAgree
    /\ AuditMatchesData
    /\ TerminalUnclaimed
    /\ \A w \in Workers : WorkerInv(w)

=============================================================================
