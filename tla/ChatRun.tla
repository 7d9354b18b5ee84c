------------------------------ MODULE ChatRun ------------------------------
(***************************************************************************)
(* Chat runs: a request creates a run in its session and a goroutine that  *)
(* executes it; a model runner streams events to that goroutine through a  *)
(* channel with one slot; users cancel; server instances crash and start   *)
(* again over one MySQL database.  A repository call is one transaction,   *)
(* hence one step.  The sequence number of an event is its place in the    *)
(* log: every writer takes last_event_sequence + 1 under the row lock.     *)
(***************************************************************************)
EXTENDS Integers, Sequences, FiniteSets

CONSTANTS
    Sessions,
    Keys,           \* idempotency keys: the run of a request is <<session, key>>
    Instances,      \* server processes on the same database
    MaxChunks,      \* bound: text chunks in one answer
    MaxNotices,     \* bound: status and tool events of one answer
    MaxCrashes,     \* bound: process crashes
    MaxErrors       \* bound: failing statements

Nobody == "nobody"

ASSUME ChatAssumption ==
    /\ Nobody \notin Instances
    /\ MaxChunks \in Nat \ {0}
    /\ MaxNotices \in Nat
    /\ MaxCrashes \in Nat
    /\ MaxErrors \in Nat

Runs == Sessions \X Keys

VARIABLES
    status,     \* status[r]: agent_runs.status, "none" before CreateRun
    log,        \* log[r]: types of the events of r
    messages,   \* messages[s]: chat_messages of session s
    exec,       \* exec[r]: the goroutine in Service.execute
    runner,     \* runner[r]: the goroutine in Runner.run
    pipe,       \* pipe[r]: the channel from runner to goroutine
    cancelling, \* cancelling[r]: instance between the two halves of CancelRun
    cancelled,  \* cancelled[r]: instances whose CancelRun of r returned the run, not an error
    up,         \* instances that are running
    crashes,
    errors

table == <<status, log, messages>>
handlers == <<cancelling, cancelled>>
vars == <<status, log, messages, exec, runner, pipe, cancelling, cancelled, up, crashes, errors>>

-----------------------------------------------------------------------------
Active == {"queued", "running"}
Terminal == {"completed", "failed", "cancelled", "timed_out", "interrupted"}
TerminalEvent == {"run.completed", "run.failed", "run.cancelled", "run.timed_out",
                  "run.interrupted"}
EventType == TerminalEvent \union
    {"run.queued", "run.started", "context.truncated", "retrieval.decided", "run.status", "text.delta"}
EventOf(s) ==
    CASE s = "completed" -> "run.completed"
      [] s = "failed" -> "run.failed"
      [] s = "cancelled" -> "run.cancelled"
      [] s = "timed_out" -> "run.timed_out"
      [] s = "interrupted" -> "run.interrupted"

NoExec == [pc |-> "off", at |-> Nobody, live |-> FALSE, parts |-> 0, verdict |-> "none"]
NoRunner == [pc |-> "off", left |-> 0, notices |-> 0, whole |-> FALSE,
             late |-> FALSE, verdict |-> "none"]

Message == [run : Runs, role : {"user", "assistant"}, parts : Nat]
Exec == [pc : {"off", "new", "start", "load", "decide", "stream", "complete", "fail"},
         at : Instances \union {Nobody}, live : BOOLEAN, parts : 0 .. MaxChunks,
         verdict : {"none", "failed", "timed_out"}]
Verdict == {"completed", "canceled", "deadline", "error"}
Runner == [pc : {"off", "emit", "terminal", "done"}, left : 0 .. MaxChunks,
           notices : 0 .. MaxNotices, whole : BOOLEAN,
           late : BOOLEAN, verdict : Verdict \union {"none"}]

\* What the runner sends: an event of the answer, or how it ended.
Sent == Verdict \union {"run.status", "text.delta"}

Init ==
    /\ status = [r \in Runs |-> "none"]
    /\ log = [r \in Runs |-> <<>>]
    /\ messages = [s \in Sessions |-> <<>>]
    /\ exec = [r \in Runs |-> NoExec]
    /\ runner = [r \in Runs |-> NoRunner]
    /\ pipe = [r \in Runs |-> <<>>]
    /\ cancelling = [r \in Runs |-> Nobody]
    /\ cancelled = [r \in Runs |-> {}]
    /\ up \in (SUBSET Instances) \ {{}}   \* the others start later
    /\ crashes = 0
    /\ errors = 0

\* A statement fails.
Failure == errors < MaxErrors /\ errors' = errors + 1
NoFailure == UNCHANGED errors

Recorded(r, s, type) ==
    /\ status' = [status EXCEPT ![r] = s]
    /\ log' = [log EXCEPT ![r] = Append(@, type)]

Goto(r, pc) == exec' = [exec EXCEPT ![r].pc = pc]

\* The deferred clean-up: the context ends and leaves the map of cancels.
Exit(r) == exec' = [exec EXCEPT ![r] = [NoExec EXCEPT !.at = exec[r].at]]

\* The call of fail that follows; a delta that cannot be stored also ends the context.
GiveUp(r, s) == exec' = [exec EXCEPT ![r].pc = "fail", ![r].verdict = s]
GiveUpAndCancel(r, s) ==
    exec' = [exec EXCEPT ![r].pc = "fail", ![r].verdict = s, ![r].live = FALSE]

-----------------------------------------------------------------------------
(* Requests *)

NoneActive(s) == \A k \in Keys : status[<<s, k>>] \notin Active

\* Under the row lock of the session: a repeated key returns the stored run; an
\* active run refuses others.
CanCreate(r) == status[r] = "none" /\ NoneActive(r[1])

Question(r) == [run |-> r, role |-> "user", parts |-> 0]
Insert(r) ==
    /\ Recorded(r, "queued", "run.queued")
    /\ messages' = [messages EXCEPT ![r[1]] = Append(@, Question(r))]

CreateRun(i, r) ==
    /\ i \in up
    /\ CanCreate(r)
    /\ Insert(r)
    /\ exec' = [exec EXCEPT ![r] = [NoExec EXCEPT !.pc = "new", !.at = i, !.live = TRUE]]
    /\ UNCHANGED <<runner, pipe, handlers, up, crashes, errors>>

\* CancelRun commits, then looks the goroutine up in its own process.
CancelRun(i, r) ==
    /\ i \in up
    /\ status[r] \in Active
    /\ cancelling[r] = Nobody
    /\ Recorded(r, "cancelled", "run.cancelled")
    /\ cancelling' = [cancelling EXCEPT ![r] = i]
    /\ UNCHANGED <<messages, exec, runner, pipe, cancelled, up, crashes, errors>>

RegisteredAndRunning(r) == exec[r].pc \notin {"off", "new"} /\ status[r] = "running" \* mutant
Registered(r) == exec[r].pc \notin {"off", "new"}

CancelContext(r) ==
    LET i == cancelling[r]
    IN  /\ i # Nobody
        /\ exec' = IF Registered(r) /\ exec[r].at = i
                   THEN [exec EXCEPT ![r].live = FALSE] ELSE exec
        /\ cancelling' = [cancelling EXCEPT ![r] = Nobody]
        /\ cancelled' = [cancelled EXCEPT ![r] = @ \union {i}]
        /\ UNCHANGED <<table, runner, pipe, up, crashes, errors>>

\* The cancelled run cannot be read back: CancelRun returns the error and looks
\* nobody up, and once the row is terminal no other CancelRun will.
RereadFails(r) ==
    /\ cancelling[r] # Nobody
    /\ Failure
    /\ cancelling' = [cancelling EXCEPT ![r] = Nobody]
    /\ UNCHANGED <<table, exec, runner, pipe, cancelled, up, crashes>>

-----------------------------------------------------------------------------
(* Service.execute *)

Register(r) ==
    /\ exec[r].pc = "new"
    /\ Goto(r, "start")
    /\ UNCHANGED <<table, runner, pipe, handlers, up, crashes, errors>>

Startable(r) == exec[r].live /\ status[r] = "queued"

StartRun(r) ==
    /\ exec[r].pc = "start"
    /\ \/ Startable(r) /\ Recorded(r, "running", "run.started") /\ Goto(r, "load") /\ NoFailure
       \/ ~Startable(r) /\ Exit(r) /\ NoFailure /\ UNCHANGED <<status, log>>
       \/ Failure /\ Exit(r) /\ UNCHANGED <<status, log>>
    /\ UNCHANGED <<messages, runner, pipe, handlers, up, crashes>>

\* GetRun, ListMessages and the assembler; the context may have been truncated.
LoadContext(r) ==
    /\ exec[r].pc = "load"
    /\ \/ exec[r].live /\ Goto(r, "decide") /\ NoFailure /\ UNCHANGED log
       \/ /\ exec[r].live /\ status[r] \notin Terminal
          /\ log' = [log EXCEPT ![r] = Append(@, "context.truncated")]
          /\ Goto(r, "decide") /\ NoFailure
       \/ ~exec[r].live /\ GiveUp(r, "failed") /\ NoFailure /\ UNCHANGED log
       \/ Failure /\ GiveUp(r, "failed") /\ UNCHANGED log
    /\ UNCHANGED <<status, messages, runner, pipe, handlers, up, crashes>>

AppendAlways(r, type) == log' = [log EXCEPT ![r] = Append(@, type)] \* mutant
\* AppendEvent: refused once the run is terminal.
AppendEvent(r, type) ==
    /\ status[r] \notin Terminal
    /\ log' = [log EXCEPT ![r] = Append(@, type)]

\* The decision is stored and the runner starts on an answer of some length.  A
\* whole answer is one message or the chunks of a validated answer: what emit
\* reports about it is ignored.  A streamed answer ends when a chunk is dropped.
DecideRetrieval(r) ==
    /\ exec[r].pc = "decide"
    /\ \/ /\ AppendEvent(r, "retrieval.decided")
          /\ Goto(r, "stream") /\ NoFailure
          /\ \E n \in 1 .. MaxChunks : \E b \in BOOLEAN :
                runner' = [runner EXCEPT ![r] =
                    [NoRunner EXCEPT !.pc = "emit", !.left = n,
                                     !.notices = MaxNotices, !.whole = b]]
       \/ status[r] \in Terminal /\ GiveUp(r, "failed") /\ NoFailure /\ UNCHANGED <<log, runner>>
       \/ Failure /\ GiveUp(r, "failed") /\ UNCHANGED <<log, runner>>
    /\ UNCHANGED <<status, messages, pipe, handlers, up, crashes>>

Received(r, e) ==
    /\ exec[r].pc = "stream"
    /\ pipe[r] = <<e>>
    /\ pipe' = [pipe EXCEPT ![r] = <<>>]

ReceiveDeltaUnchecked(r) == \* mutant
    /\ Received(r, "text.delta")
    /\ \/ AppendEvent(r, "text.delta") /\ NoFailure
       \/ Failure /\ UNCHANGED log
    /\ exec' = [exec EXCEPT ![r].parts = @ + 1]
    /\ UNCHANGED <<status, messages, runner, handlers, up, crashes>>
\* The chunk joins the answer in memory and the event log; one that cannot be
\* stored ends the run.
ReceiveDelta(r) ==
    /\ Received(r, "text.delta")
    /\ \/ /\ AppendEvent(r, "text.delta")
          /\ exec' = [exec EXCEPT ![r].parts = @ + 1]
          /\ NoFailure
       \/ status[r] \in Terminal /\ GiveUpAndCancel(r, "failed") /\ NoFailure /\ UNCHANGED log
       \/ Failure /\ GiveUpAndCancel(r, "failed") /\ UNCHANGED log
    /\ UNCHANGED <<status, messages, runner, handlers, up, crashes>>

\* A status or a tool result joins the log only.
ReceiveNotice(r) ==
    /\ Received(r, "run.status")
    /\ \/ AppendEvent(r, "run.status") /\ NoFailure /\ UNCHANGED exec
       \/ status[r] \in Terminal /\ GiveUp(r, "failed") /\ NoFailure /\ UNCHANGED log
       \/ Failure /\ GiveUp(r, "failed") /\ UNCHANGED log
    /\ UNCHANGED <<status, messages, runner, handlers, up, crashes>>

ReceiveEnd(r) ==
    /\ \/ Received(r, "completed") /\ Goto(r, "complete")
       \/ Received(r, "canceled") /\ Exit(r)
       \/ Received(r, "deadline") /\ GiveUp(r, "timed_out")
       \/ Received(r, "error") /\ GiveUp(r, "failed")
    /\ UNCHANGED <<table, runner, handlers, up, crashes, errors>>

CompletesUnlessTerminal(r) == exec[r].live \* mutant
Completable(r) == exec[r].live /\ status[r] = "running"

\* The assistant message and run.completed are one transaction.
CompleteRun(r) ==
    /\ exec[r].pc = "complete"
    /\ \/ /\ Completable(r)
          /\ Recorded(r, "completed", "run.completed")
          /\ messages' = [messages EXCEPT ![r[1]] =
                 Append(@, [run |-> r, role |-> "assistant", parts |-> exec[r].parts])]
          /\ Exit(r) /\ NoFailure
       \/ ~Completable(r) /\ GiveUp(r, "failed") /\ NoFailure /\ UNCHANGED table
       \/ Failure /\ GiveUp(r, "failed") /\ UNCHANGED table
    /\ UNCHANGED <<runner, pipe, handlers, up, crashes>>

\* FailRun changes nothing when the run is terminal; its error is dropped.
FailRun(r) ==
    /\ exec[r].pc = "fail"
    /\ \/ status[r] \in Active /\ NoFailure
          /\ Recorded(r, exec[r].verdict, EventOf(exec[r].verdict))
       \/ status[r] \in Terminal /\ NoFailure /\ UNCHANGED <<status, log>>
       \/ Failure /\ UNCHANGED <<status, log>>
    /\ Exit(r)
    /\ UNCHANGED <<messages, runner, pipe, handlers, up, crashes>>

-----------------------------------------------------------------------------
(* Runner.run.  Its context ends with that of execute or at RunTimeout. *)

ContextDone(r) == ~exec[r].live \/ runner[r].late
Cause(r) == (IF exec[r].live THEN {} ELSE {"canceled"})
            \union (IF runner[r].late THEN {"deadline"} ELSE {})

Stopped(r, v) == runner' = [runner EXCEPT ![r].pc = "terminal", ![r].verdict = v]

EmitChunk(r) ==
    /\ runner[r].pc = "emit" /\ runner[r].left > 0
    /\ pipe[r] = <<>>
    /\ pipe' = [pipe EXCEPT ![r] = <<"text.delta">>]
    /\ runner' = [runner EXCEPT ![r].left = @ - 1]
    /\ UNCHANGED <<table, exec, handlers, up, crashes, errors>>

EmitNotice(r) ==
    /\ runner[r].pc = "emit" /\ runner[r].notices > 0
    /\ \/ pipe[r] = <<>> /\ pipe' = [pipe EXCEPT ![r] = <<"run.status">>]
       \/ ContextDone(r) /\ UNCHANGED pipe
    /\ runner' = [runner EXCEPT ![r].notices = @ - 1]
    /\ UNCHANGED <<table, exec, handlers, up, crashes, errors>>

\* emit gives up when the context has ended.
DropChunk(r) ==
    /\ runner[r].pc = "emit" /\ runner[r].left > 0
    /\ ContextDone(r)
    /\ IF runner[r].whole THEN runner' = [runner EXCEPT ![r].left = @ - 1]
       ELSE \E v \in Cause(r) : Stopped(r, v)
    /\ UNCHANGED <<table, exec, pipe, handlers, up, crashes, errors>>

\* The model, its stream or the tools fail, or report the end of the context.
ModelFails(r) ==
    /\ runner[r].pc = "emit"
    /\ \E v \in Cause(r) \union {"error"} : Stopped(r, v)
    /\ UNCHANGED <<table, exec, pipe, handlers, up, crashes, errors>>

AnswerEnds(r) ==
    /\ runner[r].pc = "emit" /\ runner[r].left = 0
    /\ Stopped(r, "completed")
    /\ UNCHANGED <<table, exec, pipe, handlers, up, crashes, errors>>

\* A plain send: it waits for the slot whatever became of the context.
EmitTerminal(r) ==
    /\ runner[r].pc = "terminal"
    /\ pipe[r] = <<>>
    /\ pipe' = [pipe EXCEPT ![r] = <<runner[r].verdict>>]
    /\ runner' = [runner EXCEPT ![r] = [NoRunner EXCEPT !.pc = "done"]]
    /\ UNCHANGED <<table, exec, handlers, up, crashes, errors>>

RunTimeout(r) ==
    /\ runner[r].pc = "emit" /\ ~runner[r].late
    /\ runner' = [runner EXCEPT ![r].late = TRUE]
    /\ UNCHANGED <<table, exec, pipe, handlers, up, crashes, errors>>

-----------------------------------------------------------------------------
(* Processes *)

Crash(i) ==
    /\ i \in up /\ crashes < MaxCrashes
    /\ crashes' = crashes + 1
    /\ up' = up \ {i}
    /\ exec' = [r \in Runs |-> IF exec[r].at = i THEN NoExec ELSE exec[r]]
    /\ runner' = [r \in Runs |-> IF exec[r].at = i THEN NoRunner ELSE runner[r]]
    /\ pipe' = [r \in Runs |-> IF exec[r].at = i THEN <<>> ELSE pipe[r]]
    /\ cancelling' = [r \in Runs |-> IF cancelling[r] = i THEN Nobody ELSE cancelling[r]]
    /\ UNCHANGED <<table, cancelled, errors>>

LeftRunning == {r \in Runs : status[r] = "running"} \* mutant
LeftOver == {r \in Runs : status[r] \in Active}

\* NewService runs InterruptRunning over the runs of every process before it serves.
Start(i) ==
    /\ i \notin up
    /\ up' = up \union {i}
    /\ status' = [r \in Runs |-> IF r \in LeftOver THEN "interrupted" ELSE status[r]]
    /\ log' = [r \in Runs |-> IF r \in LeftOver THEN Append(log[r], "run.interrupted")
                              ELSE log[r]]
    /\ UNCHANGED <<messages, exec, runner, pipe, handlers, crashes, errors>>

Execute(r) ==
    \/ Register(r) \/ StartRun(r) \/ LoadContext(r) \/ DecideRetrieval(r)
    \/ ReceiveDelta(r) \/ ReceiveNotice(r) \/ ReceiveEnd(r)
    \/ CompleteRun(r) \/ FailRun(r)

Produce(r) ==
    EmitChunk(r) \/ EmitNotice(r) \/ DropChunk(r) \/ ModelFails(r) \/ AnswerEnds(r) \/ EmitTerminal(r)

Next ==
    \/ \E r \in Runs :
          \/ \E i \in Instances : CreateRun(i, r) \/ CancelRun(i, r)
          \/ CancelContext(r) \/ RereadFails(r) \/ Execute(r) \/ Produce(r) \/ RunTimeout(r)
    \/ \E i \in Instances : Crash(i) \/ Start(i)

Spec == Init /\ [][Next]_vars

\* A goroutine that can go on does, and a crashed server is started again.  The
\* model owes nothing: a call that hangs is ended by RunTimeout.
FairSpec ==
    /\ Spec
    /\ \A r \in Runs : /\ WF_vars(Execute(r)) /\ WF_vars(CancelContext(r))
                       /\ WF_vars(RunTimeout(r)) /\ WF_vars(DropChunk(r))
                       /\ WF_vars(AnswerEnds(r)) /\ WF_vars(EmitTerminal(r))
    /\ \A i \in Instances : WF_vars(Start(i))

-----------------------------------------------------------------------------
(* Properties *)

TypeOK ==
    /\ status \in [Runs -> Active \union Terminal \union {"none"}]
    /\ log \in [Runs -> Seq(EventType)]
    /\ messages \in [Sessions -> Seq(Message)]
    /\ exec \in [Runs -> Exec]
    /\ runner \in [Runs -> Runner]
    /\ pipe \in [Runs -> {<<>>} \union {<<e>> : e \in Sent}]
    /\ cancelling \in [Runs -> Instances \union {Nobody}]
    /\ cancelled \in [Runs -> SUBSET Instances]
    /\ up \subseteq Instances
    /\ crashes \in 0 .. MaxCrashes
    /\ errors \in 0 .. MaxErrors

\* A log has one terminal event, the last, and it names the status: nothing is
\* appended after a cancellation or an interruption the goroutine has not seen.
LogEndsWithStatus ==
    \A r \in Runs :
        /\ \A n \in 1 .. Len(log[r]) : log[r][n] \in TerminalEvent => n = Len(log[r])
        /\ status[r] \in Terminal => log[r][Len(log[r])] = EventOf(status[r])
        /\ status[r] \in Active => log[r][Len(log[r])] \notin TerminalEvent

Answers(ms, r) == {n \in 1 .. Len(ms) : ms[n].run = r /\ ms[n].role = "assistant"}
Deltas(l) == {n \in 1 .. Len(l) : l[n] = "text.delta"}

\* The stored answer is the text the subscribers saw, and only a completed run has one.
AnswerMatchesEvents ==
    \A r \in Runs :
        /\ Cardinality(Answers(messages[r[1]], r)) = IF status[r] = "completed" THEN 1 ELSE 0
        /\ \A n \in Answers(messages[r[1]], r) :
              messages[r[1]][n].parts = Cardinality(Deltas(log[r]))

\* Turns never interleave: an answer directly follows its own question, also
\* when another process interrupted the run and a new one was asked.
TurnsDoNotInterleave ==
    \A s \in Sessions : \A n \in 1 .. Len(messages[s]) :
        messages[s][n].role = "assistant" =>
            /\ n > 1
            /\ messages[s][n - 1] = Question(messages[s][n].run)

\* Once CancelRun has returned the run on the instance that executes it, the run's
\* context is cancelled or the model is never called.  A CancelRun that returned an
\* error because the cancelled run could not be read back promises nothing: the
\* model may go on until an event of its answer is refused.
CancelReachesModel ==
    \A r \in Runs :
        exec[r].at \in cancelled[r] /\ runner[r].pc \in {"emit", "terminal"} => ~exec[r].live

\* Whatever the model does and whichever process dies, every run ends, unless a
\* statement failed: a run whose StartRun or FailRun failed waits for a restart.
RunsEnd == \A r \in Runs : status[r] \in Active ~> status[r] \in Terminal \/ errors > 0

=============================================================================
