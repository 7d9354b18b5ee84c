----------------------- MODULE DurableWorkflowProofs -----------------------
(***************************************************************************)
(* Machine-checked proofs about DurableWorkflow, for every number of runs, *)
(* workers, nodes and actions and every lease, TTL, budget and clock skew. *)
(***************************************************************************)
EXTENDS DurableWorkflow, SequenceTheorems, TLAPS

-----------------------------------------------------------------------------
(* What the ControlState operators do, field by field *)

\* Emitted bumps the event sequence and the version, and nothing else.
LEMMA EmittedFields ==
    ASSUME NEW c \in Control
    PROVE  /\ Emitted(c) \in Control
           /\ Emitted(c).ver = c.ver + 1 /\ Emitted(c).seq = c.seq + 1
           /\ Emitted(c).status = c.status /\ Emitted(c).node = c.node
           /\ Emitted(c).attempt = c.attempt /\ Emitted(c).done = c.done
           /\ Emitted(c).wait = c.wait /\ Emitted(c).steps = c.steps
           /\ Emitted(c).resumes = c.resumes /\ Emitted(c).data = c.data
           /\ Emitted(c).deadline = c.deadline
<1>1. c.seq + 1 \in Nat /\ c.ver + 1 \in Nat
  BY DEF Control
<1>2. \A m, n \in Nat : [c EXCEPT !.seq = m, !.ver = n] \in Control
  BY DEF Control
<1>3. Emitted(c) \in Control
  BY <1>1, <1>2, Zenon DEF Emitted
<1> QED
  BY <1>3 DEF Emitted, Control

\* Transition changes the status and bumps the version, and nothing else.
LEMMA TransitionFields ==
    ASSUME NEW c \in Control, NEW s \in StoredStatus \union {"running"}
    PROVE  /\ Transition(c, s) \in Control
           /\ Transition(c, s).ver = c.ver + 1 /\ Transition(c, s).seq = c.seq
           /\ Transition(c, s).status = s /\ Transition(c, s).node = c.node
           /\ Transition(c, s).attempt = c.attempt /\ Transition(c, s).done = c.done
           /\ Transition(c, s).wait = c.wait /\ Transition(c, s).steps = c.steps
           /\ Transition(c, s).resumes = c.resumes /\ Transition(c, s).data = c.data
           /\ Transition(c, s).deadline = c.deadline
<1>1. c.ver + 1 \in Nat
  BY DEF Control
<1>2. \A n \in Nat : [c EXCEPT !.status = s, !.ver = n] \in Control
  BY DEF Control
<1>3. Transition(c, s) \in Control
  BY <1>1, <1>2, Zenon DEF Transition
<1> QED
  BY <1>3 DEF Transition, Control

\* Touch bumps the version, and nothing else.
LEMMA TouchFields ==
    ASSUME NEW c \in Control
    PROVE  /\ Touch(c) \in Control
           /\ Touch(c).ver = c.ver + 1 /\ Touch(c).seq = c.seq /\ Touch(c).status = c.status
           /\ Touch(c).node = c.node /\ Touch(c).attempt = c.attempt
           /\ Touch(c).done = c.done /\ Touch(c).wait = c.wait
           /\ Touch(c).steps = c.steps /\ Touch(c).resumes = c.resumes
           /\ Touch(c).data = c.data /\ Touch(c).deadline = c.deadline
<1>1. c.ver + 1 \in Nat
  BY DEF Control
<1>2. \A v \in Nat : [c EXCEPT !.ver = v] \in Control
  BY DEF Control
<1>3. Touch(c) \in Control
  BY <1>1, <1>2, Zenon DEF Touch
<1> QED
  BY <1>3 DEF Touch, Control

\* Starting node n counts a step and keeps everything a later segment reads.
LEMMA StartedFields ==
    ASSUME NEW c \in Control, NEW n \in Nodes
    PROVE  /\ Started(c, n) \in Control
           /\ Started(c, n).ver = c.ver + 1 /\ Started(c, n).seq = c.seq
           /\ Started(c, n).status = c.status /\ Started(c, n).node = n
           /\ Started(c, n).done = c.done /\ Started(c, n).wait = c.wait
           /\ Started(c, n).steps = c.steps + 1
           /\ Started(c, n).resumes = c.resumes /\ Started(c, n).data = c.data
           /\ Started(c, n).deadline = c.deadline
<1> DEFINE a == IF c.node = n THEN c.attempt + 1 ELSE 1
           k == c.steps + 1
           d == [c EXCEPT !.node = n, !.attempt = a, !.steps = k]
<1>1. k \in Nat /\ a \in Nat /\ n \in 0 .. NumNodes
  BY RuntimeAssumption DEF Control, Nodes
<1>2. Started(c, n) = Touch(d)
  BY DEF Started, Control
<1> HIDE DEF a, k
<1>3. /\ d \in Control
      /\ d.ver = c.ver /\ d.seq = c.seq /\ d.status = c.status /\ d.node = n
      /\ d.done = c.done /\ d.wait = c.wait /\ d.steps = k
      /\ d.resumes = c.resumes /\ d.data = c.data /\ d.deadline = c.deadline
  BY <1>1 DEF Control
<1> HIDE DEF d
<1> QED
  BY <1>2, <1>3, TouchFields DEF k

\* The decision of a resumed call is applied to the data, and nothing else.
LEMMA DecidedFields ==
    ASSUME NEW w \in Workers, mem[w] \in Control, job[w].action \in Actions \union {None}
    PROVE  /\ Decided(w) \in Control
           /\ Decided(w).ver = mem[w].ver /\ Decided(w).seq = mem[w].seq
           /\ Decided(w).status = mem[w].status /\ Decided(w).node = mem[w].node
           /\ Decided(w).attempt = mem[w].attempt /\ Decided(w).done = mem[w].done
           /\ Decided(w).wait = mem[w].wait /\ Decided(w).steps = mem[w].steps
           /\ Decided(w).resumes = mem[w].resumes
           /\ Decided(w).deadline = mem[w].deadline
           /\ Decided(w).data = IF job[w].kind = "resume" /\ mem[w].steps = base[w].steps + 1
                                THEN job[w].action ELSE mem[w].data
  BY DEF Decided, Control

-----------------------------------------------------------------------------
(* A step of worker w leaves the other workers alone *)

OthersUnchanged(w) ==
    \A v \in Workers \ {w} :
        pc'[v] = pc[v] /\ job'[v] = job[v] /\ base'[v] = base[v] /\ mem'[v] = mem[v]

\* Checkpoints are created once and then only replaced by later versions.
StoreMoves ==
    \A r \in Runs :
        \/ ctl'[r] = ctl[r]
        \/ ctl[r].status = "absent"
        \/ ctl'[r].ver > ctl[r].ver /\ ctl'[r].status # "absent"

\* What a worker knows survives every step that does not touch its memory:
\* a replaced checkpoint has a later version than the one it read.
LEMMA OtherWorker ==
    ASSUME TypeOK, TypeOK', StoreMoves, NEW v \in Workers, WorkerInv(v),
           pc'[v] = pc[v], job'[v] = job[v], base'[v] = base[v], mem'[v] = mem[v]
    PROVE  WorkerInv(v)'
<1>1. CASE pc[v] = "idle"
  BY <1>1 DEF WorkerInv
<1>2. CASE pc[v] # "idle"
  <2> DEFINE r == job[v].run
  <2>1. /\ r \in Runs /\ ctl[r].status # "absent"
        /\ ctl'[r] = ctl[r] \/ (ctl'[r].ver > ctl[r].ver /\ ctl'[r].status # "absent")
    BY <1>2 DEF WorkerInv, StoreMoves
  <2>2. base[v].ver \in Nat /\ ctl[r].ver \in Nat /\ ctl'[r].ver \in Nat
    BY <2>1 DEF TypeOK, Control
  <2>3. KnowsBase(v) => KnowsBase(v)'
    BY <2>1, <2>2 DEF KnowsBase, StoredShape
  <2>4. Progressed(v)' = Progressed(v) /\ InLoop(v)' = InLoop(v) /\ Finished(v)' = Finished(v)
    BY DEF Progressed, InLoop, Finished, StoredShape
  <2> QED
    BY <1>2, <2>1, <2>3, <2>4 DEF WorkerInv
<1> QED
  BY <1>1, <1>2

\* The invariant is preserved by a step of w that leaves the store alone, as
\* soon as w's own part is.
LEMMA LocalStep ==
    ASSUME IInv, TypeOK', UNCHANGED store, NEW w \in Workers, OthersUnchanged(w), WorkerInv(w)'
    PROVE  IInv'
<1>1. StoreMoves
  BY DEF StoreMoves, store
<1>2. \A v \in Workers : WorkerInv(v)'
  BY <1>1, OtherWorker DEF IInv, OthersUnchanged
<1>3. \A r \in Runs : StoredShape(ctl[r])'
  BY DEF IInv, StoredShape, store
<1>4. WaitsMatchCheckpoint' /\ ClaimsAgree' /\ AuditMatchesData' /\ TerminalUnclaimed'
  BY DEF IInv, WaitsMatchCheckpoint, ClaimsAgree, AuditMatchesData, TerminalUnclaimed, store
<1> QED
  BY <1>2, <1>3, <1>4 DEF IInv

-----------------------------------------------------------------------------
(* The three ways a worker moves on: it returns, enters the loop, or leaves *)
(* the Runner.                                                              *)

\* Updating one worker's entry keeps a function typed and the rest as it was.
LEMMA UpdateOne ==
    ASSUME NEW S, NEW T, NEW f \in [S -> T], NEW x \in S, NEW y \in T
    PROVE  /\ [f EXCEPT ![x] = y] \in [S -> T]
           /\ [f EXCEPT ![x] = y][x] = y
           /\ \A z \in S \ {x} : [f EXCEPT ![x] = y][z] = f[z]
  OBVIOUS

\* A sequence and one more element, written as a function.
LEMMA AppendAsFunction ==
    ASSUME NEW S, NEW s \in Seq(S), NEW x \in S
    PROVE  [i \in 1 .. Len(s) + 1 |-> IF i <= Len(s) THEN s[i] ELSE x] = Append(s, x)
<1> DEFINE f == [i \in 1 .. Len(s) + 1 |-> IF i <= Len(s) THEN s[i] ELSE x]
<1>1. Append(s, x) \in Seq(S) /\ Len(Append(s, x)) = Len(s) + 1 /\ Len(s) \in Nat
  OBVIOUS
<1>2. f \in Seq(S) /\ Len(f) = Len(s) + 1
  <2>1. \A i \in 1 .. Len(s) + 1 : f[i] \in S
    BY <1>1
  <2> QED
    BY <2>1, <1>1
<1>3. \A i \in 1 .. Len(s) + 1 : f[i] = Append(s, x)[i]
  BY <1>1
<1>4. f = Append(s, x)
  <2>1. Len(f) = Len(Append(s, x)) /\ \A i \in 1 .. Len(f) : f[i] = Append(s, x)[i]
    BY <1>1, <1>2, <1>3
  <2> HIDE DEF f
  <2> QED
    BY <1>1, <1>2, <2>1, SeqEqual
<1> QED
  BY <1>4

\* The initial control record and job are of their types.
LEMMA NullTypes == NoControl \in Control /\ NoJob \in Job
<1>1. NoControl \in Control
  BY RuntimeAssumption DEF NoControl, NoWait, Control, StoredStatus
<1>2. NoJob \in Job
  BY RuntimeAssumption DEF NoJob, Job
<1> QED
  BY <1>1, <1>2

\* A call that ends, in whatever way, leaves the invariant intact.
LEMMA ReturnStep ==
    ASSUME IInv, NEW w \in Workers, Return(w), UNCHANGED <<store, clock, nextToken, nextWait>>
    PROVE  IInv'
<1>1. /\ pc'[w] = "idle" /\ OthersUnchanged(w)
      /\ pc' \in [Workers -> {"idle", "claim", "reload", "begin", "node", "outcome", "commit"}]
      /\ job' \in [Workers -> Job]
      /\ base' \in [Workers -> Control] /\ mem' \in [Workers -> Control]
      /\ buf' \in [Workers -> Seq(Event)]
  <2>1. <<>> \in Seq(Event)
    OBVIOUS
  <2> QED
    BY <2>1, UpdateOne, NullTypes DEF IInv, TypeOK, Return, OthersUnchanged
<1>2. TypeOK'
  BY <1>1 DEF IInv, TypeOK, store
<1>3. WorkerInv(w)'
  BY <1>1 DEF WorkerInv
<1> QED
  BY <1>1, <1>2, <1>3, LocalStep

\* Changing the time, the token or the loop position of a job changes no more.
LEMMA JobFields ==
    ASSUME NEW j \in Job
    PROVE  /\ \A n \in Nat :
                 /\ [j EXCEPT !.now = n] \in Job
                 /\ [j EXCEPT !.now = n].kind = j.kind /\ [j EXCEPT !.now = n].run = j.run
                 /\ [j EXCEPT !.now = n].wait = j.wait
                 /\ [j EXCEPT !.now = n].action = j.action
           /\ \A n \in Nat :
                 /\ [j EXCEPT !.token = n] \in Job
                 /\ [j EXCEPT !.token = n].kind = j.kind /\ [j EXCEPT !.token = n].run = j.run
                 /\ [j EXCEPT !.token = n].action = j.action
           /\ \A n \in 0 .. NumNodes + 1 :
                 /\ [j EXCEPT !.at = n] \in Job /\ [j EXCEPT !.at = n].at = n
                 /\ [j EXCEPT !.at = n].kind = j.kind /\ [j EXCEPT !.at = n].run = j.run
                 /\ [j EXCEPT !.at = n].action = j.action
  BY DEF Job

\* The Runner leaves with state c: the invariant holds if c is either the
\* unchanged state or a legal end of the segment that was being executed.
LEMMA ExitStep ==
    ASSUME IInv, NEW w \in Workers, NEW c \in Control, Exit(w, c),
           pc[w] \in {"begin", "node", "outcome"},
           buf' \in [Workers -> Seq(Event)], nextWait' \in Nat,
           c.ver > base[w].ver =>
              /\ base[w].done <= c.done
              /\ job[w].kind = "start" => base[w].status = "pending" /\ c.resumes = 0
              /\ job[w].kind = "resume" => /\ base[w].status = "suspended"
                                           /\ c.resumes = base[w].resumes + 1
              /\ c.status \in Terminal \union {"suspended"}
              /\ StoredShape(c)
              /\ c.status = "completed" => c.done = NumNodes
              /\ c.status \in {"suspended", "completed"} =>
                    c.data = IF job[w].kind = "resume" THEN job[w].action ELSE None
    PROVE  IInv'
<1>1. Now(w) \in Nat
  BY RuntimeAssumption DEF Now, IInv, TypeOK
<1>2. /\ pc'[w] = "commit" /\ mem'[w] = c /\ base'[w] = base[w] /\ ctl' = ctl
      /\ job'[w] = [job[w] EXCEPT !.now = Now(w)]
      /\ OthersUnchanged(w)
      /\ mem' \in [Workers -> Control] /\ job' \in [Workers -> Job]
      /\ pc' \in [Workers -> {"idle", "claim", "reload", "begin", "node", "outcome", "commit"}]
  <2>1. [job[w] EXCEPT !.now = Now(w)] \in Job
    BY <1>1, JobFields DEF IInv, TypeOK
  <2>2. job' = [job EXCEPT ![w] = [job[w] EXCEPT !.now = Now(w)]]
    BY DEF Exit, IInv, TypeOK
  <2> QED
    BY <2>1, <2>2, UpdateOne DEF Exit, IInv, TypeOK, OthersUnchanged, store
<1>3. /\ job'[w].kind = job[w].kind /\ job'[w].run = job[w].run
      /\ job'[w].action = job[w].action
  BY <1>1, <1>2, JobFields DEF IInv, TypeOK
<1>4. TypeOK'
  BY <1>2 DEF IInv, TypeOK, Exit, store
<1>5. KnowsBase(w)'
  BY <1>2, <1>3 DEF IInv, WorkerInv, KnowsBase, StoredShape
<1>6. (mem'[w].ver > base'[w].ver) => Progressed(w)' /\ Finished(w)'
  BY <1>2, <1>3 DEF Progressed, Finished, StoredShape
<1>7. WorkerInv(w)'
  BY <1>2, <1>3, <1>5, <1>6 DEF IInv, WorkerInv
<1> QED
  BY <1>2, <1>4, <1>7, LocalStep DEF Exit

\* The Runner stands before node n with state c.
LEMMA LoopStep ==
    ASSUME IInv, NEW w \in Workers, NEW c \in Control, NEW n \in 0 .. NumNodes + 1,
           EnterLoop(w, c, n), pc[w] \in {"begin", "outcome"},
           buf' \in [Workers -> Seq(Event)],
           c.ver > base[w].ver, base[w].done <= c.done,
           job[w].kind = "start" => /\ base[w].status = "pending"
                                    /\ c.resumes = 0 /\ c.data = None,
           job[w].kind = "resume" => /\ base[w].status = "suspended"
                                     /\ c.resumes = base[w].resumes + 1,
           c.status = "running", n = c.done + 1, c.steps >= base[w].steps,
           c.steps = base[w].steps => n <= NumNodes,
           job[w].kind = "resume" /\ c.steps > base[w].steps => c.data = job[w].action
    PROVE  IInv'
<1>2. /\ pc'[w] = "node" /\ mem'[w] = c /\ base'[w] = base[w] /\ ctl' = ctl
      /\ job'[w] = [job[w] EXCEPT !.at = n]
      /\ OthersUnchanged(w)
      /\ mem' \in [Workers -> Control] /\ job' \in [Workers -> Job]
      /\ pc' \in [Workers -> {"idle", "claim", "reload", "begin", "node", "outcome", "commit"}]
  <2>1. [job[w] EXCEPT !.at = n] \in Job
    BY JobFields DEF IInv, TypeOK
  <2>2. job' = [job EXCEPT ![w] = [job[w] EXCEPT !.at = n]]
    BY DEF EnterLoop, IInv, TypeOK
  <2> QED
    BY <2>1, <2>2, UpdateOne DEF EnterLoop, IInv, TypeOK, OthersUnchanged, store
<1>3. /\ job'[w].kind = job[w].kind /\ job'[w].run = job[w].run
      /\ job'[w].action = job[w].action /\ job'[w].at = n
  BY <1>2, JobFields DEF IInv, TypeOK
<1>4. TypeOK'
  BY <1>2 DEF IInv, TypeOK, EnterLoop, store
<1>5. KnowsBase(w)'
  BY <1>2, <1>3 DEF IInv, WorkerInv, KnowsBase, StoredShape
<1>6. Progressed(w)'
  BY <1>2, <1>3 DEF Progressed
<1>7. InLoop(w)'
  <2>1. c.steps \in Nat /\ base[w].steps \in Nat
    BY DEF IInv, TypeOK, Control
  <2> QED
    BY <1>2, <1>3, <2>1 DEF InLoop
<1>8. WorkerInv(w)'
  BY <1>2, <1>3, <1>5, <1>6, <1>7 DEF IInv, WorkerInv
<1> QED
  BY <1>2, <1>4, <1>8, LocalStep DEF EnterLoop

-----------------------------------------------------------------------------
(* The Runner's own steps *)

\* Collecting one more event keeps the buffers typed.
LEMMA EventBuffered ==
    ASSUME IInv, NEW w \in Workers, NEW c \in Control, c.node \in Nodes, NEW id \in Nat,
           NEW t \in {"started", "completed", "suspended", "resumed", "failed"}
    PROVE  [buf EXCEPT ![w] = Append(@, NodeEvent(t, c, id))] \in [Workers -> Seq(Event)]
<1>1. NodeEvent(t, c, id) \in Event
  BY DEF NodeEvent, Event, Control
<1>2. Append(buf[w], NodeEvent(t, c, id)) \in Seq(Event)
  BY <1>1 DEF IInv, TypeOK
<1> QED
  BY <1>2, UpdateOne DEF IInv, TypeOK

\* The first attempt of a claimed run enters the node loop.
LEMMA RunBeginStep ==
    ASSUME IInv, NEW w \in Workers, RunBegin(w)
    PROVE  IInv'
<1> DEFINE c == Transition(mem[w], "running")
<1>1. mem[w] \in Control /\ mem[w] = base[w] /\ mem[w].status = "pending" /\ StoredShape(base[w])
  BY DEF RunBegin, IInv, TypeOK, WorkerInv, KnowsBase
<1>2. /\ c \in Control /\ c.ver = mem[w].ver + 1 /\ c.done = 0 /\ c.resumes = 0 /\ c.data = None
      /\ c.status = "running" /\ c.steps = mem[w].steps
  BY <1>1, TransitionFields DEF StoredShape
<1>3. /\ mem[w].ver + 1 > mem[w].ver /\ mem[w].done = 0 /\ mem[w].steps \in Nat
      /\ 1 \in 0 .. NumNodes + 1 /\ 1 <= NumNodes
  BY <1>1, RuntimeAssumption DEF Control, StoredShape
<1>4. EnterLoop(w, c, 1) /\ pc[w] = "begin" /\ job[w].kind = "start" /\ buf' = buf
  BY DEF RunBegin
<1> HIDE DEF c
<1>5. buf' \in [Workers -> Seq(Event)]
  BY <1>4 DEF IInv, TypeOK
<1>6. /\ c.ver > base[w].ver /\ base[w].done <= c.done /\ 1 = c.done + 1
      /\ c.steps >= base[w].steps /\ base[w].status = "pending"
  BY <1>1, <1>2, <1>3
<1> QED
  BY <1>1, <1>2, <1>3, <1>4, <1>5, <1>6, LoopStep

\* A claimed resume records the decision in its copy and enters the loop.
LEMMA ResumeBeginStep ==
    ASSUME IInv, NEW w \in Workers, ResumeBegin(w)
    PROVE  IInv'
<1> DEFINE e == Emitted(mem[w])
           d == [e EXCEPT !.wait = NoWait, !.resumes = @ + 1]
           c == Transition(d, "running")
           n == mem[w].wait.node
<1>1. /\ mem[w] \in Control /\ mem[w] = base[w] /\ mem[w].status = "suspended"
      /\ StoredShape(base[w]) /\ mem[w].wait.node = mem[w].node
  BY DEF ResumeBegin, CanResume, IInv, TypeOK, WorkerInv, KnowsBase
<1>2. /\ d \in Control /\ d.ver = mem[w].ver + 1 /\ d.done = mem[w].done
      /\ d.resumes = mem[w].resumes + 1 /\ d.steps = mem[w].steps
  <2>1. e \in Control /\ e.ver = mem[w].ver + 1 /\ e.done = mem[w].done
        /\ e.resumes = mem[w].resumes /\ e.steps = mem[w].steps
    BY <1>1, EmittedFields
  <2> HIDE DEF e
  <2>2. NoWait \in [id : Nat, node : 0 .. NumNodes, expires : Nat] /\ e.resumes + 1 \in Nat
    BY <2>1, RuntimeAssumption DEF NoWait, Control
  <2>3. \A p \in [id : Nat, node : 0 .. NumNodes, expires : Nat], k \in Nat :
           LET x == [e EXCEPT !.wait = p, !.resumes = k]
           IN  /\ x \in Control /\ x.ver = e.ver /\ x.done = e.done
               /\ x.resumes = k /\ x.steps = e.steps
    BY <2>1 DEF Control
  <2>4. d = [e EXCEPT !.wait = NoWait, !.resumes = e.resumes + 1]
    OBVIOUS
  <2>5. LET x == [e EXCEPT !.wait = NoWait, !.resumes = e.resumes + 1]
        IN  /\ x \in Control /\ x.ver = e.ver /\ x.done = e.done
            /\ x.resumes = e.resumes + 1 /\ x.steps = e.steps
    BY <2>2, <2>3
  <2> HIDE DEF d
  <2> QED
    BY <2>1, <2>4, <2>5
<1>3. /\ c \in Control /\ c.ver = d.ver + 1 /\ c.done = d.done /\ c.resumes = d.resumes
      /\ c.status = "running" /\ c.steps = d.steps
  <2> HIDE DEF d
  <2> QED
    BY <1>2, TransitionFields
<1>4. /\ EnterLoop(w, c, n) /\ pc[w] = "begin" /\ job[w].kind = "resume"
      /\ buf' = [buf EXCEPT ![w] = Append(@, NodeEvent("resumed", mem[w], mem[w].wait.id))]
  BY DEF ResumeBegin
<1> HIDE DEF c, d
<1>5. /\ n \in Nodes /\ n = mem[w].done + 1 /\ mem[w].wait.id \in Nat /\ mem[w].steps \in Nat
      /\ mem[w].ver \in Nat /\ mem[w].done \in Nat /\ mem[w].resumes \in Nat
  BY <1>1, RuntimeAssumption DEF StoredShape, Control, Nodes
<1>6. buf' \in [Workers -> Seq(Event)]
  BY <1>1, <1>4, <1>5, EventBuffered
<1>7. /\ n \in 0 .. NumNodes + 1 /\ n <= NumNodes /\ c.ver > base[w].ver
      /\ base[w].done <= c.done /\ n = c.done + 1
      /\ c.steps >= base[w].steps /\ ~(c.steps > base[w].steps)
  BY <1>1, <1>2, <1>3, <1>5, RuntimeAssumption DEF Nodes
<1> QED
  BY <1>1, <1>2, <1>3, <1>4, <1>6, <1>7, LoopStep

\* A run that cannot begin drops the job.
LEMMA BeginRefusedStep ==
    ASSUME IInv, NEW w \in Workers, BeginRefused(w)
    PROVE  IInv'
<1>1. /\ mem[w] \in Control /\ mem[w] = base[w] /\ mem[w].ver \in Nat
      /\ Exit(w, mem[w]) /\ pc[w] = "begin" /\ buf' = buf /\ nextWait' = nextWait
  BY DEF BeginRefused, IInv, TypeOK, WorkerInv, Control
<1>2. ~(mem[w].ver > base[w].ver)
  BY <1>1
<1> QED
  BY <1>1, <1>2, ExitStep DEF IInv, TypeOK

\* A stop before a node leaves the loop with the failure in memory.
LEMMA StopBeforeNodeStep ==
    ASSUME IInv, NEW w \in Workers, StopBeforeNode(w)
    PROVE  IInv'
<1> DEFINE s == IF DeadlinePassed(mem[w], Now(w)) THEN "expired" ELSE "failed"
           c == Transition(mem[w], s)
<1>1. /\ mem[w] \in Control /\ mem[w].ver \in Nat /\ base[w].ver \in Nat
      /\ pc[w] = "node" /\ Progressed(w) /\ Exit(w, c)
      /\ buf' \in [Workers -> Seq(Event)] /\ nextWait' \in Nat
  BY DEF StopBeforeNode, IInv, TypeOK, WorkerInv, Control
<1>2. s \in {"failed", "expired"}
  OBVIOUS
<1> HIDE DEF s
<1>3. /\ c \in Control /\ c.ver = mem[w].ver + 1 /\ c.done = mem[w].done
      /\ c.resumes = mem[w].resumes /\ c.status = s
  BY <1>1, <1>2, TransitionFields DEF StoredStatus, Terminal
<1> HIDE DEF c
<1>4. StoredShape(c) /\ c.status \in Terminal
  BY <1>2, <1>3 DEF StoredShape, Terminal
<1> QED
  BY <1>1, <1>2, <1>3, <1>4, ExitStep DEF Progressed

\* The loop ends after the last node.
LEMMA RunCompletesStep ==
    ASSUME IInv, NEW w \in Workers, RunCompletes(w)
    PROVE  IInv'
<1> DEFINE c == Transition(mem[w], "completed")
<1>1. /\ mem[w] \in Control /\ mem[w].ver \in Nat /\ base[w].ver \in Nat
      /\ mem[w].done \in 0 .. NumNodes /\ mem[w].steps \in Nat /\ base[w].steps \in Nat
      /\ pc[w] = "node" /\ Progressed(w) /\ InLoop(w) /\ Exit(w, c)
      /\ job[w].at > NumNodes /\ job[w].kind \in {"start", "resume"}
      /\ buf' \in [Workers -> Seq(Event)] /\ nextWait' \in Nat
  BY DEF RunCompletes, IInv, TypeOK, WorkerInv, Control
<1>2. /\ c \in Control /\ c.ver = mem[w].ver + 1 /\ c.done = mem[w].done
      /\ c.resumes = mem[w].resumes /\ c.status = "completed" /\ c.data = mem[w].data
  BY <1>1, TransitionFields DEF StoredStatus, Terminal
<1> HIDE DEF c
<1>3. StoredShape(c) /\ c.status \in Terminal
  BY <1>2 DEF StoredShape, Terminal
<1>4. c.done = NumNodes
  BY <1>1, <1>2, RuntimeAssumption DEF InLoop
<1>5. c.data = IF job[w].kind = "resume" THEN job[w].action ELSE None
  BY <1>1, <1>2, RuntimeAssumption, SMTT(30) DEF InLoop
<1> QED
  BY <1>1, <1>2, <1>3, <1>4, <1>5, ExitStep DEF Progressed

\* A node runs on the copy in memory and reports an outcome.
LEMMA ExecuteNodeStep ==
    ASSUME IInv, NEW w \in Workers, ExecuteNode(w)
    PROVE  IInv'
<1> DEFINE n == job[w].at
           d == Started(mem[w], n)
           c == Emitted(d)
<1>1. /\ mem[w] \in Control /\ mem[w].ver \in Nat /\ base[w].ver \in Nat
      /\ mem[w].done \in 0 .. NumNodes /\ mem[w].steps \in Nat /\ base[w].steps \in Nat
      /\ pc[w] = "node" /\ Progressed(w) /\ InLoop(w) /\ KnowsBase(w)
      /\ job[w].at <= NumNodes
      /\ mem' = [mem EXCEPT ![w] = c] /\ pc' = [pc EXCEPT ![w] = "outcome"]
      /\ buf' = [buf EXCEPT ![w] = Append(@, NodeEvent("started", d, 0))]
      /\ UNCHANGED <<ctl, claim, waits, events, job, base, clock, nextToken, nextWait>>
  BY DEF ExecuteNode, IInv, TypeOK, WorkerInv, Control, store
<1>2. n \in Nodes
  BY <1>1, RuntimeAssumption DEF InLoop, Nodes
<1>3. /\ d \in Control /\ d.ver = mem[w].ver + 1 /\ d.node = n /\ d.done = mem[w].done
      /\ d.resumes = mem[w].resumes /\ d.status = mem[w].status /\ d.data = mem[w].data
      /\ d.steps = mem[w].steps + 1
  BY <1>1, <1>2, StartedFields
<1> HIDE DEF d, n
<1>4. /\ c \in Control /\ c.ver = d.ver + 1 /\ c.node = d.node /\ c.done = d.done
      /\ c.resumes = d.resumes /\ c.status = d.status /\ c.data = d.data /\ c.steps = d.steps
  BY <1>3, EmittedFields
<1> HIDE DEF c
<1>5. buf' \in [Workers -> Seq(Event)]
  BY <1>1, <1>2, <1>3, EventBuffered
<1>6. /\ mem'[w] = c /\ pc'[w] = "outcome" /\ OthersUnchanged(w)
      /\ mem' \in [Workers -> Control]
      /\ pc' \in [Workers -> {"idle", "claim", "reload", "begin", "node", "outcome", "commit"}]
  BY <1>1, <1>4, UpdateOne DEF IInv, TypeOK, OthersUnchanged
<1>7. TypeOK'
  BY <1>1, <1>5, <1>6 DEF IInv, TypeOK
<1>8. KnowsBase(w)'
  BY <1>1 DEF KnowsBase, StoredShape
<1>9. Progressed(w)'
  BY <1>1, <1>3, <1>4, <1>6 DEF Progressed
<1>10. InLoop(w)'
  BY <1>1, <1>3, <1>4, <1>6 DEF InLoop, n
<1>11. WorkerInv(w)'
  BY <1>1, <1>6, <1>8, <1>9, <1>10 DEF IInv, WorkerInv
<1> QED
  BY <1>1, <1>6, <1>7, <1>11, LocalStep DEF store

\* What holds at "outcome", gathered once for the three outcomes of a node.
LEMMA AtOutcome ==
    ASSUME IInv, NEW w \in Workers, pc[w] = "outcome"
    PROVE  /\ mem[w] \in Control /\ mem[w].ver \in Nat /\ base[w].ver \in Nat
           /\ mem[w].done \in 0 .. NumNodes /\ base[w].done \in 0 .. NumNodes
           /\ mem[w].steps \in Nat /\ base[w].steps \in Nat
           /\ mem[w].steps > base[w].steps
           /\ mem[w].node \in Nodes /\ mem[w].node = mem[w].done + 1 /\ job[w].at = mem[w].node
           /\ job[w].kind \in {"start", "resume"} /\ job[w].action \in Actions \union {None}
           /\ Progressed(w) /\ InLoop(w)
           /\ Decided(w).data = IF job[w].kind = "resume" THEN job[w].action ELSE None
           /\ Now(w) \in Nat
<1>1. /\ mem[w] \in Control /\ base[w] \in Control /\ Progressed(w) /\ InLoop(w)
      /\ job[w] \in Job
  BY DEF IInv, TypeOK, WorkerInv
<1>2. /\ mem[w].ver \in Nat /\ base[w].ver \in Nat
      /\ mem[w].done \in 0 .. NumNodes /\ base[w].done \in 0 .. NumNodes
      /\ mem[w].steps \in Nat /\ base[w].steps \in Nat /\ mem[w].node \in 0 .. NumNodes
      /\ job[w].action \in Actions \union {None}
  BY <1>1 DEF Control, Job
<1>3. /\ mem[w].node \in Nodes /\ mem[w].node = mem[w].done + 1 /\ job[w].at = mem[w].node
      /\ mem[w].steps > base[w].steps
  BY <1>1, <1>2, RuntimeAssumption DEF InLoop, Nodes
<1>4. job[w].kind \in {"start", "resume"}
  BY DEF IInv, WorkerInv
<1>5. Decided(w).data = IF job[w].kind = "resume" /\ mem[w].steps = base[w].steps + 1
                         THEN job[w].action ELSE mem[w].data
  BY <1>1, <1>2, DecidedFields
<1>6. job[w].kind = "resume" /\ mem[w].steps # base[w].steps + 1 => mem[w].data = job[w].action
  BY <1>1, <1>2, <1>3 DEF InLoop
<1>7. job[w].kind = "start" => mem[w].data = None
  BY <1>1 DEF InLoop
<1>8. Decided(w).data = IF job[w].kind = "resume" THEN job[w].action ELSE None
  BY <1>4, <1>5, <1>6, <1>7
<1>9. Now(w) \in Nat
  BY RuntimeAssumption DEF Now, IInv, TypeOK
<1> QED
  BY <1>1, <1>2, <1>3, <1>4, <1>8, <1>9

\* A node that succeeds advances the copy by one node.
LEMMA NodeContinuesStep ==
    ASSUME IInv, NEW w \in Workers, NodeContinues(w)
    PROVE  IInv'
<1> DEFINE d == Decided(w)
           b == [d EXCEPT !.done = @ + 1]
           t == Touch(b)
           c == Emitted(t)
           n == job[w].at + 1
<1>0. pc[w] = "outcome" /\ EnterLoop(w, c, n)
      /\ buf' = [buf EXCEPT ![w] = Append(@, NodeEvent("completed", b, 0))]
  BY DEF NodeContinues
<1>1. /\ d \in Control /\ d.ver = mem[w].ver /\ d.done = mem[w].done /\ d.status = mem[w].status
      /\ d.resumes = mem[w].resumes /\ d.steps = mem[w].steps /\ d.node = mem[w].node
  BY <1>0, AtOutcome, DecidedFields
<1>d. d.data = IF job[w].kind = "resume" THEN job[w].action ELSE None
  BY <1>0, AtOutcome
<1> HIDE DEF d
<1>2. /\ b \in Control /\ b.ver = d.ver /\ b.done = d.done + 1 /\ b.status = d.status
      /\ b.resumes = d.resumes /\ b.steps = d.steps /\ b.node = d.node /\ b.data = d.data
  <2>1. d.done + 1 \in 0 .. NumNodes
    BY <1>0, <1>1, AtOutcome, RuntimeAssumption, SMTT(30) DEF Nodes
  <2>2. \A k \in 0 .. NumNodes :
           LET x == [d EXCEPT !.done = k]
           IN  /\ x \in Control /\ x.ver = d.ver /\ x.done = k /\ x.status = d.status
               /\ x.resumes = d.resumes /\ x.steps = d.steps /\ x.node = d.node
               /\ x.data = d.data
    BY <1>1 DEF Control
  <2> QED
    BY <2>1, <2>2
<1> HIDE DEF b
<1>3. /\ t \in Control /\ t.ver = b.ver + 1 /\ t.done = b.done /\ t.status = b.status
      /\ t.resumes = b.resumes /\ t.steps = b.steps /\ t.data = b.data
  BY <1>2, TouchFields
<1> HIDE DEF t
<1>4. /\ c \in Control /\ c.ver = t.ver + 1 /\ c.done = t.done /\ c.status = t.status
      /\ c.resumes = t.resumes /\ c.steps = t.steps /\ c.data = t.data
  BY <1>3, EmittedFields
<1> HIDE DEF c
<1>5. buf' \in [Workers -> Seq(Event)]
  BY <1>0, <1>1, <1>2, AtOutcome, EventBuffered
<1>6. /\ c.ver > base[w].ver /\ base[w].done <= c.done /\ n = c.done + 1
      /\ n \in 0 .. NumNodes + 1 /\ c.steps >= base[w].steps /\ c.steps # base[w].steps
      /\ c.status = "running"
  <2>1. /\ c.ver = mem[w].ver + 2 /\ c.done = mem[w].done + 1 /\ c.steps = mem[w].steps
        /\ c.status = mem[w].status
    BY <1>0, <1>1, <1>2, <1>3, <1>4, AtOutcome
  <2>2. /\ mem[w].status = "running" /\ mem[w].ver > base[w].ver /\ base[w].done <= mem[w].done
        /\ job[w].at = mem[w].done + 1 /\ mem[w].steps > base[w].steps
        /\ mem[w].done + 1 \in 1 .. NumNodes
    BY <1>0, AtOutcome DEF Progressed, InLoop, Nodes
  <2>3. /\ mem[w].ver \in Nat /\ base[w].ver \in Nat /\ mem[w].steps \in Nat
        /\ base[w].steps \in Nat /\ mem[w].done \in Nat /\ base[w].done \in Nat
    BY <1>0, AtOutcome
  <2>4. /\ n = c.done + 1 /\ n \in 0 .. NumNodes + 1
    BY <2>1, <2>2, <2>3, RuntimeAssumption
  <2>5. /\ c.ver > base[w].ver /\ base[w].done <= c.done
        /\ c.steps >= base[w].steps /\ c.steps # base[w].steps
    BY <2>1, <2>2, <2>3
  <2> QED
    BY <2>1, <2>2, <2>4, <2>5
<1>7. /\ job[w].kind = "start" => /\ base[w].status = "pending"
                                  /\ c.resumes = 0 /\ c.data = None
      /\ job[w].kind = "resume" => /\ base[w].status = "suspended"
                                   /\ c.resumes = base[w].resumes + 1
                                   /\ c.data = job[w].action
  BY <1>0, <1>1, <1>d, <1>2, <1>3, <1>4, AtOutcome DEF Progressed
<1> HIDE DEF n
<1> QED
  BY <1>0, <1>4, <1>5, <1>6, <1>7, LoopStep

\* A node that fails ends the copy in a terminal status.
LEMMA NodeFailsStep ==
    ASSUME IInv, NEW w \in Workers, NEW s \in {"failed", "cancelled", "expired"}, NodeFails(w, s)
    PROVE  IInv'
<1> DEFINE t == Transition(mem[w], s)
           c == Emitted(t)
<1>0. /\ pc[w] = "outcome" /\ Exit(w, c) /\ nextWait' \in Nat
      /\ buf' = [buf EXCEPT ![w] = Append(@, NodeEvent("failed", mem[w], 0))]
  BY DEF NodeFails, IInv, TypeOK
<1>1. /\ t \in Control /\ t.ver = mem[w].ver + 1 /\ t.done = mem[w].done /\ t.status = s
      /\ t.resumes = mem[w].resumes
  BY <1>0, AtOutcome, TransitionFields DEF StoredStatus, Terminal
<1> HIDE DEF t
<1>2. /\ c \in Control /\ c.ver = t.ver + 1 /\ c.done = t.done /\ c.status = s
      /\ c.resumes = t.resumes
  BY <1>1, EmittedFields
<1> HIDE DEF c
<1>3. buf' \in [Workers -> Seq(Event)]
  BY <1>0, AtOutcome, EventBuffered
<1>4. StoredShape(c) /\ c.status \in Terminal /\ c.status \notin {"suspended", "completed"}
  BY <1>2 DEF StoredShape, Terminal
<1>5. /\ base[w].done <= c.done
      /\ job[w].kind = "start" => base[w].status = "pending" /\ c.resumes = 0
      /\ job[w].kind = "resume" => /\ base[w].status = "suspended"
                                   /\ c.resumes = base[w].resumes + 1
  BY <1>0, <1>1, <1>2, AtOutcome DEF Progressed
<1> QED
  BY <1>0, <1>2, <1>3, <1>4, <1>5, ExitStep

\* A node that waits suspends the copy with one new wait.
LEMMA NodeSuspendsStep ==
    ASSUME IInv, NEW w \in Workers, NodeSuspends(w)
    PROVE  IInv'
<1> DEFINE d == Decided(w)
           point == [id |-> nextWait, node |-> mem[w].node, expires |-> Now(w) + WaitTTL]
           b == [d EXCEPT !.wait = point]
           t == Transition(b, "suspended")
           c == Emitted(t)
<1>0. /\ pc[w] = "outcome" /\ Exit(w, c) /\ mem[w].node \in Gates
      /\ nextWait \in Nat /\ nextWait' \in Nat
      /\ buf' = [buf EXCEPT ![w] = Append(@, NodeEvent("suspended", t, nextWait))]
  BY DEF NodeSuspends, IInv, TypeOK
<1>1. /\ d \in Control /\ d.ver = mem[w].ver /\ d.done = mem[w].done
      /\ d.resumes = mem[w].resumes /\ d.node = mem[w].node
      /\ d.data = IF job[w].kind = "resume" THEN job[w].action ELSE None
  BY <1>0, AtOutcome, DecidedFields
<1>2. point \in [id : Nat, node : 0 .. NumNodes, expires : Nat] /\ point.node = mem[w].node
  BY <1>0, AtOutcome, RuntimeAssumption, SMTT(30) DEF Nodes
<1> HIDE DEF d, point
<1>3. /\ b \in Control /\ b.ver = d.ver /\ b.done = d.done /\ b.wait = point
      /\ b.resumes = d.resumes /\ b.node = d.node /\ b.data = d.data
  BY <1>1, <1>2 DEF Control
<1> HIDE DEF b
<1>4. /\ t \in Control /\ t.ver = b.ver + 1 /\ t.done = b.done /\ t.status = "suspended"
      /\ t.resumes = b.resumes /\ t.node = b.node /\ t.data = b.data /\ t.wait = b.wait
  BY <1>3, TransitionFields DEF StoredStatus
<1> HIDE DEF t
<1>5. /\ c \in Control /\ c.ver = t.ver + 1 /\ c.done = t.done /\ c.status = t.status
      /\ c.resumes = t.resumes /\ c.node = t.node /\ c.data = t.data /\ c.wait = t.wait
  BY <1>4, EmittedFields
<1> HIDE DEF c
<1>6. buf' \in [Workers -> Seq(Event)]
  BY <1>0, <1>1, <1>3, <1>4, AtOutcome, EventBuffered
<1>7. StoredShape(c)
  BY <1>0, <1>1, <1>2, <1>3, <1>4, <1>5, AtOutcome DEF StoredShape
<1>8. /\ base[w].done <= c.done
      /\ job[w].kind = "start" => base[w].status = "pending" /\ c.resumes = 0
      /\ job[w].kind = "resume" => /\ base[w].status = "suspended"
                                   /\ c.resumes = base[w].resumes + 1
      /\ c.data = IF job[w].kind = "resume" THEN job[w].action ELSE None
      /\ c.status = "suspended"
  BY <1>0, <1>1, <1>3, <1>4, <1>5, AtOutcome DEF Progressed
<1> QED
  BY <1>0, <1>5, <1>6, <1>7, <1>8, ExitStep

-----------------------------------------------------------------------------
(* Taking a call and claiming its run *)

\* Clocks and counters are natural numbers.
LEMMA Numbers ==
    ASSUME TypeOK, NEW w \in Workers, NEW r \in Runs
    PROVE  /\ Now(w) \in Nat /\ nextToken \in Nat
           /\ ctl[r].ver \in Nat /\ ctl[r].wait.id \in Nat
<1>1. ctl[r] \in Control /\ clock \in Nat /\ nextToken \in Nat
  BY DEF TypeOK
<1>2. Skew[w] \in Nat
  BY RuntimeAssumption
<1>3. Now(w) \in Nat
  BY <1>1, <1>2 DEF Now
<1>4. ctl[r].ver \in Nat /\ ctl[r].wait.id \in Nat
  BY <1>1 DEF Control
<1> QED
  BY <1>1, <1>3, <1>4

\* A claimed job reloads the stored run as its base.
LEMMA ReloadStep ==
    ASSUME IInv, NEW w \in Workers, Reload(w)
    PROVE  IInv'
<1> DEFINE r == job[w].run
<1>1. /\ pc[w] = "reload" /\ r \in Runs /\ ctl[r] \in Control /\ job[w] \in Job
      /\ claim[r].token \in Nat /\ StoredShape(ctl[r]) /\ ctl[r].ver \in Nat
      /\ job[w].kind \in {"start", "resume"} /\ ctl[r].status # "absent"
      /\ job[w].kind = "resume" => job[w].action \in Actions
  BY DEF Reload, IInv, TypeOK, WorkerInv, Control
<1>2. /\ base' = [base EXCEPT ![w] = ctl[r]] /\ mem' = [mem EXCEPT ![w] = ctl[r]]
      /\ job' = [job EXCEPT ![w] = [job[w] EXCEPT !.token = claim[r].token]]
      /\ pc' = [pc EXCEPT ![w] = "begin"]
      /\ UNCHANGED <<ctl, claim, waits, events, buf, clock, nextToken, nextWait>>
  BY DEF Reload, IInv, TypeOK, store
<1>3. /\ [job[w] EXCEPT !.token = claim[r].token] \in Job
      /\ [job[w] EXCEPT !.token = claim[r].token].run = r
      /\ [job[w] EXCEPT !.token = claim[r].token].kind = job[w].kind
      /\ [job[w] EXCEPT !.token = claim[r].token].action = job[w].action
  BY <1>1, JobFields
<1>4. /\ base'[w] = ctl[r] /\ mem'[w] = ctl[r] /\ pc'[w] = "begin" /\ OthersUnchanged(w)
      /\ job'[w].run = r /\ job'[w].kind = job[w].kind /\ job'[w].action = job[w].action
  BY <1>1, <1>2, <1>3, UpdateOne DEF OthersUnchanged, IInv, TypeOK
<1>5. TypeOK'
  BY <1>1, <1>2, <1>3, UpdateOne DEF IInv, TypeOK
<1>6. KnowsBase(w)'
  BY <1>1, <1>2, <1>4 DEF KnowsBase, StoredShape
<1>7. WorkerInv(w)'
  BY <1>1, <1>2, <1>4, <1>6 DEF WorkerInv
<1> QED
  BY <1>2, <1>4, <1>5, <1>7, LocalStep DEF store

\* An accepted call leaves the invariant intact if the store still has it.
LEMMA AcceptStep ==
    ASSUME IInv, NEW w \in Workers, NEW j \in Job, Accept(w, j), StoreMoves,
           ctl' \in [Runs -> Control],
           \A r \in Runs : StoredShape(ctl[r])', WaitsMatchCheckpoint', AuditMatchesData',
           \A r \in Runs : ctl'[r].status \in Terminal => ctl'[r] = ctl[r],
           j.run \in Runs, j.kind \in {"start", "resume"},
           j.kind = "resume" => j.action \in Actions,
           ctl'[j.run].status # "absent"
    PROVE  IInv'
<1>1. /\ pc[w] = "idle" /\ job' = [job EXCEPT ![w] = j] /\ pc' = [pc EXCEPT ![w] = "claim"]
      /\ nextToken' = nextToken + 1
      /\ UNCHANGED <<claim, waits, events, base, mem, buf, clock, nextWait>>
  BY DEF Accept
<1>2. TypeOK'
  BY <1>1, UpdateOne DEF IInv, TypeOK
<1>3. pc'[w] = "claim" /\ job'[w] = j /\ OthersUnchanged(w)
  BY <1>1, UpdateOne DEF IInv, TypeOK, OthersUnchanged
<1>4. WorkerInv(w)'
  BY <1>3 DEF WorkerInv
<1>5. \A v \in Workers : WorkerInv(v)'
  BY <1>2, <1>3, <1>4, OtherWorker DEF IInv, OthersUnchanged
<1>6. ClaimsAgree' /\ TerminalUnclaimed'
  BY <1>1 DEF IInv, ClaimsAgree, TerminalUnclaimed
<1> QED
  BY <1>2, <1>5, <1>6 DEF IInv

\* The calls that Start and Resume make up are typed jobs.
LEMMA CallType ==
    ASSUME TypeOK, NEW w \in Workers, NEW r \in Runs, NEW id \in Nat,
           NEW a \in Actions \union {None}, NEW k \in {"start", "resume"}
    PROVE  /\ Call(w, k, r, id, a) \in Job
           /\ Call(w, k, r, id, a).run = r
           /\ Call(w, k, r, id, a).kind = k
           /\ Call(w, k, r, id, a).action = a
  BY Numbers, RuntimeAssumption DEF Call, Job

\* A new run is stored as pending and its caller goes on to claim it.
LEMMA StartNewStep ==
    ASSUME IInv, NEW w \in Workers, NEW r \in Runs, StartNew(w, r)
    PROVE  IInv'
<1> DEFINE c == [NoControl EXCEPT !.status = "pending", !.deadline = Now(w) + RunTTL]
           j == Call(w, "start", r, 0, None)
<1>0. /\ ctl[r].status = "absent" /\ ctl' = [ctl EXCEPT ![r] = c] /\ Accept(w, j)
  BY DEF StartNew
<1>1. /\ ctl[r] = NoControl /\ Now(w) \in Nat /\ nextToken \in Nat
      /\ UNCHANGED <<claim, waits>>
  BY <1>0, Numbers DEF IInv, StoredShape, Accept
<1>2. /\ c \in Control /\ c.status = "pending" /\ c.done = 0 /\ c.resumes = 0 /\ c.data = None
  <2>1. Now(w) + RunTTL \in Nat
    BY <1>1, RuntimeAssumption
  <2>2. \A n \in Nat : [NoControl EXCEPT !.status = "pending", !.deadline = n] \in Control
    BY NullTypes DEF Control, StoredStatus
  <2>3. c \in Control
    BY <2>1, <2>2
  <2> QED
    BY <2>3 DEF NoControl, Control
<1>3. j \in Job /\ j.run = r /\ j.kind = "start"
  BY CallType DEF IInv
<1> HIDE DEF c, j
<1>4. /\ ctl' \in [Runs -> Control] /\ ctl'[r] = c
      /\ \A q \in Runs \ {r} : ctl'[q] = ctl[q]
  BY <1>0, <1>1, <1>2, UpdateOne DEF IInv, TypeOK
<1>5. StoreMoves
  BY <1>0, <1>4 DEF StoreMoves
<1>6. \A q \in Runs : StoredShape(ctl[q])'
  <2>1. StoredShape(ctl'[r])
    BY <1>2, <1>4 DEF StoredShape
  <2> QED
    BY <1>4, <2>1 DEF IInv, StoredShape
<1>7. NoControl.status = "absent" /\ NoControl.resumes = 0
  BY DEF NoControl
<1>8. WaitsMatchCheckpoint'
  <2>1. waits' = waits /\ ctl[r].resumes = c.resumes /\ ctl[r].status # "suspended"
        /\ c.status # "suspended"
    BY <1>0, <1>1, <1>2, <1>7
  <2>2. \A q \in Runs : /\ ctl'[q].resumes = ctl[q].resumes
                        /\ ctl'[q].status = "suspended" <=> ctl[q].status = "suspended"
                        /\ ctl'[q].status = "suspended" => ctl'[q] = ctl[q]
    BY <2>1, <1>4
  <2> QED
    BY <2>1, <2>2 DEF IInv, WaitsMatchCheckpoint
<1>9. AuditMatchesData'
  BY <1>0, <1>1, <1>2, <1>4, <1>7 DEF IInv, AuditMatchesData
<1>10. \A q \in Runs : ctl'[q].status \in Terminal => ctl'[q] = ctl[q]
  BY <1>2, <1>4 DEF Terminal
<1> QED
  BY <1>0, <1>2, <1>3, <1>4, <1>5, <1>6, <1>8, <1>9, <1>10, AcceptStep

\* A repeated start takes the stored run.
LEMMA StartAgainStep ==
    ASSUME IInv, NEW w \in Workers, NEW r \in Runs, StartAgain(w, r)
    PROVE  IInv'
<1> DEFINE j == Call(w, "start", r, 0, None)
<1>0. ctl[r].status = "pending" /\ ctl' = ctl /\ Accept(w, j)
  BY DEF StartAgain
<1>1. /\ Now(w) \in Nat /\ nextToken \in Nat /\ ctl[r].ver \in Nat
      /\ UNCHANGED <<claim, waits>>
  BY <1>0, Numbers DEF IInv, Accept
<1>2. j \in Job /\ j.run = r /\ j.kind = "start"
  BY CallType DEF IInv
<1> HIDE DEF j
<1>3. StoreMoves /\ \A q \in Runs : StoredShape(ctl[q])'
  BY <1>0 DEF StoreMoves, IInv, StoredShape
<1>4. WaitsMatchCheckpoint' /\ AuditMatchesData' /\ ctl' \in [Runs -> Control]
  BY <1>0, <1>1 DEF IInv, TypeOK, WaitsMatchCheckpoint, AuditMatchesData
<1> QED
  BY <1>0, <1>2, <1>3, <1>4, AcceptStep

\* A resume request takes the open wait of a suspended run.
LEMMA ResumeStep ==
    ASSUME IInv, NEW w \in Workers, NEW r \in Runs, NEW a \in Actions, Resume(w, r, a)
    PROVE  IInv'
<1> DEFINE j == Call(w, "resume", r, ctl[r].wait.id, a)
<1>0. ctl[r].status = "suspended" /\ ctl' = ctl /\ Accept(w, j)
  BY DEF Resume
<1>1. /\ Now(w) \in Nat /\ nextToken \in Nat /\ ctl[r].ver \in Nat /\ ctl[r].wait.id \in Nat
      /\ UNCHANGED <<claim, waits>>
  BY <1>0, Numbers DEF IInv, Accept
<1>2. j \in Job /\ j.run = r /\ j.kind = "resume" /\ j.action = a
  BY <1>1, CallType DEF IInv
<1> HIDE DEF j
<1>3. StoreMoves /\ \A q \in Runs : StoredShape(ctl[q])'
  BY <1>0 DEF StoreMoves, IInv, StoredShape
<1>4. WaitsMatchCheckpoint' /\ AuditMatchesData' /\ ctl' \in [Runs -> Control]
  BY <1>0, <1>1 DEF IInv, TypeOK, WaitsMatchCheckpoint, AuditMatchesData
<1> QED
  BY <1>0, <1>2, <1>3, <1>4, AcceptStep

-----------------------------------------------------------------------------
(* Leases: claims and renewals change claim and waits, never ctl *)

\* While a run is suspended its last wait row is the only open one, so the
\* "latest open wait" of GetCurrentWait and ClaimWait is that row.
LEMMA OpenWait ==
    ASSUME IInv, NEW r \in Runs, ctl[r].status = "suspended"
    PROVE  /\ Len(waits[r]) = ctl[r].resumes + 1
           /\ CurrentWait(r) = Len(waits[r]) /\ Len(waits[r]) \in 1 .. Len(waits[r])
           /\ \A i \in 1 .. Len(waits[r]) :
                 waits[r][i].status # "resolved" <=> i = Len(waits[r])
<1>1. waits[r] \in Seq(WaitRow) /\ ctl[r].resumes \in Nat
  BY DEF IInv, TypeOK, Control
<1>2. Len(waits[r]) \in Nat /\ Len(waits[r]) = ctl[r].resumes + 1
  BY <1>1 DEF IInv, WaitsMatchCheckpoint
<1>3. \A i \in 1 .. Len(waits[r]) : waits[r][i].status # "resolved" <=> i = Len(waits[r])
  BY <1>1, <1>2 DEF IInv, WaitsMatchCheckpoint
<1> DEFINE open == {i \in 1 .. Len(waits[r]) : waits[r][i].status # "resolved"}
<1>4. open = {Len(waits[r])}
  BY <1>1, <1>2, <1>3
<1>5. CurrentWait(r) = CHOOSE i \in open : \A k \in open : k <= i
  BY <1>4 DEF CurrentWait
<1>6. (CHOOSE i \in open : \A k \in open : k <= i) = Len(waits[r])
  BY <1>2, <1>4
<1> QED
  BY <1>1, <1>2, <1>3, <1>5, <1>6

\* Wait rows whose lease alone has changed still match the checkpoint.
LEMMA LeaseStep ==
    ASSUME IInv, NEW w \in Workers, NEW p \in {"reload", pc[w]}, pc[w] # "idle",
           p = "reload" => pc[w] = "claim",
           UNCHANGED <<ctl, events, job, base, mem, buf, clock, nextToken, nextWait>>,
           pc' = [pc EXCEPT ![w] = p],
           claim' \in [Runs -> [token : Nat, until : Nat]],
           waits' \in [Runs -> Seq(WaitRow)],
           \A q \in Runs :
              /\ Len(waits'[q]) = Len(waits[q])
              /\ \A i \in 1 .. Len(waits[q]) :
                    /\ waits'[q][i].id = waits[q][i].id
                    /\ waits'[q][i].expires = waits[q][i].expires
                    /\ waits'[q][i].action = waits[q][i].action
                    /\ waits'[q][i].status = "resolved" <=> waits[q][i].status = "resolved",
           \A q \in Runs : ctl[q].status \in Terminal => claim'[q] = claim[q],
           ClaimsAgree'
    PROVE  IInv'
<1>1. TypeOK'
  <2>1. pc' \in [Workers -> {"idle", "claim", "reload", "begin", "node", "outcome", "commit"}]
    <3>1. p \in {"idle", "claim", "reload", "begin", "node", "outcome", "commit"}
      BY DEF IInv, TypeOK
    <3> QED
      BY <3>1, UpdateOne DEF IInv, TypeOK
  <2> QED
    BY <2>1 DEF IInv, TypeOK
<1>2. pc'[w] = p /\ OthersUnchanged(w)
  BY UpdateOne DEF IInv, TypeOK, OthersUnchanged
<1>3. StoreMoves
  BY DEF StoreMoves
<1>4. WorkerInv(w)'
  <2>1. CASE p = pc[w]
    BY <2>1, <1>1, <1>2, <1>3, OtherWorker DEF IInv
  <2>2. CASE p = "reload"
    BY <2>2, <1>2 DEF IInv, WorkerInv
  <2> QED
    BY <2>1, <2>2
<1>5. \A v \in Workers : WorkerInv(v)'
  BY <1>1, <1>2, <1>3, <1>4, OtherWorker DEF IInv, OthersUnchanged
<1>6. \A q \in Runs : StoredShape(ctl[q])'
  BY DEF IInv, StoredShape
<1>7. \A q \in Runs : waits[q] \in Seq(WaitRow) /\ ctl[q].resumes \in Nat
  BY DEF IInv, TypeOK, Control
<1>. WaitsMatchCheckpoint /\ AuditMatchesData
  BY DEF IInv
<1>8. WaitsMatchCheckpoint'
  <2> SUFFICES ASSUME NEW q \in Runs
               PROVE  /\ Len(waits'[q]) = ctl[q].resumes
                                          + (IF ctl[q].status = "suspended" THEN 1 ELSE 0)
                      /\ \A i \in 1 .. Len(waits'[q]) :
                            waits'[q][i].status = "resolved" <=> i <= ctl[q].resumes
                      /\ ctl[q].status = "suspended" =>
                            /\ waits'[q][Len(waits'[q])].id = ctl[q].wait.id
                            /\ waits'[q][Len(waits'[q])].expires = ctl[q].wait.expires
    BY DEF WaitsMatchCheckpoint
  <2>1. /\ Len(waits'[q]) = ctl[q].resumes + (IF ctl[q].status = "suspended" THEN 1 ELSE 0)
        /\ \A i \in 1 .. Len(waits'[q]) :
              waits'[q][i].status = "resolved" <=> i <= ctl[q].resumes
    BY DEF WaitsMatchCheckpoint
  <2>2. CASE ctl[q].status = "suspended"
    <3>1. Len(waits[q]) \in 1 .. Len(waits[q])
      BY <2>2, OpenWait
    <3>2. /\ waits[q][Len(waits[q])].id = ctl[q].wait.id
          /\ waits[q][Len(waits[q])].expires = ctl[q].wait.expires
      BY <2>2 DEF WaitsMatchCheckpoint
    <3>3. /\ Len(waits'[q]) = Len(waits[q])
          /\ waits'[q][Len(waits[q])].id = waits[q][Len(waits[q])].id
          /\ waits'[q][Len(waits[q])].expires = waits[q][Len(waits[q])].expires
      BY <3>1
    <3> QED
      BY <2>1, <3>2, <3>3
  <2> QED
    BY <2>1, <2>2
<1>9. AuditMatchesData'
  <2> SUFFICES ASSUME NEW q \in Runs, ctl[q].status \in {"suspended", "completed"}
               PROVE  ctl[q].data = IF ctl[q].resumes = 0 THEN None
                                    ELSE waits'[q][ctl[q].resumes].action
    BY DEF AuditMatchesData
  <2>1. Len(waits[q]) >= ctl[q].resumes
    BY <1>7 DEF WaitsMatchCheckpoint
  <2>2. ctl[q].resumes # 0 => ctl[q].resumes \in 1 .. Len(waits[q])
    BY <1>7, <2>1
  <2>3. ctl[q].data = IF ctl[q].resumes = 0 THEN None ELSE waits[q][ctl[q].resumes].action
    BY DEF AuditMatchesData
  <2>4. ctl[q].resumes # 0 =>
           waits'[q][ctl[q].resumes].action = waits[q][ctl[q].resumes].action
    BY <2>2
  <2> QED
    BY <2>3, <2>4
<1>10. TerminalUnclaimed'
  BY DEF IInv, TerminalUnclaimed
<1> QED
  BY <1>1, <1>5, <1>6, <1>8, <1>9, <1>10 DEF IInv

\* A pending run is claimed for an owner.
LEMMA ClaimRunStep ==
    ASSUME IInv, NEW w \in Workers, ClaimRun(w)
    PROVE  IInv'
<1> DEFINE r == job[w].run
<1>1. /\ r \in Runs /\ pc[w] = "claim" /\ ctl[r].status = "pending"
      /\ claim' = [claim EXCEPT ![r] = NewClaim(w)]
      /\ pc' = [pc EXCEPT ![w] = "reload"]
      /\ UNCHANGED <<ctl, waits, events, job, base, mem, buf, clock, nextToken, nextWait>>
  BY DEF ClaimRun, CanClaimRun, IInv, WorkerInv
<1>2. NewClaim(w) \in [token : Nat, until : Nat]
  <2>1. job[w].now \in Nat /\ job[w].call \in Nat
    BY DEF IInv, TypeOK, Job
  <2> QED
    BY <2>1, RuntimeAssumption DEF NewClaim
<1>3. claim' \in [Runs -> [token : Nat, until : Nat]] /\ \A q \in Runs \ {r} : claim'[q] = claim[q]
  BY <1>1, <1>2, UpdateOne DEF IInv, TypeOK
<1>4. Len(waits[r]) = 0
  BY <1>1 DEF IInv, WaitsMatchCheckpoint, StoredShape
<1>5. ClaimsAgree'
  BY <1>1, <1>3, <1>4 DEF IInv, ClaimsAgree
<1>6. \A q \in Runs : ctl[q].status \in Terminal => claim'[q] = claim[q]
  BY <1>1, <1>3 DEF Terminal
<1> QED
  BY <1>1, <1>3, <1>5, <1>6, LeaseStep DEF IInv, TypeOK

\* An open wait is claimed for an owner and a decision.
LEMMA ClaimWaitStep ==
    ASSUME IInv, NEW w \in Workers, ClaimWait(w)
    PROVE  IInv'
<1> DEFINE r == job[w].run
           n == CurrentWait(r)
           c == NewClaim(w)
           row == [waits[r][n] EXCEPT !.status = "processing", !.token = c.token,
                                      !.until = c.until]
           s == [waits[r] EXCEPT ![n] = row]
<1>1. /\ r \in Runs /\ pc[w] = "claim" /\ ctl[r].status = "suspended"
      /\ claim' = [claim EXCEPT ![r] = c]
      /\ pc' = [pc EXCEPT ![w] = "reload"]
      /\ UNCHANGED <<ctl, events, job, base, mem, buf, clock, nextToken, nextWait>>
  BY DEF ClaimWait, CanClaimWait, IInv, WorkerInv
<1>2. waits' = [waits EXCEPT ![r] = s]
  BY <1>1 DEF ClaimWait, IInv, TypeOK
<1>3. /\ waits[r] \in Seq(WaitRow) /\ n = Len(waits[r]) /\ n \in 1 .. Len(waits[r])
      /\ waits[r][n] \in WaitRow
      /\ \A i \in 1 .. Len(waits[r]) : waits[r][i].status # "resolved" <=> i = n
  BY <1>1, OpenWait, SMTT(30) DEF IInv, TypeOK
<1>4. c \in [token : Nat, until : Nat]
  <2>1. job[w].now \in Nat /\ job[w].call \in Nat
    BY DEF IInv, TypeOK, Job
  <2> QED
    BY <2>1, RuntimeAssumption DEF NewClaim
<1> HIDE DEF n, c
<1>5. /\ row \in WaitRow /\ row.status = "processing" /\ row.token = c.token
      /\ row.until = c.until /\ row.id = waits[r][n].id
      /\ row.expires = waits[r][n].expires /\ row.action = waits[r][n].action
  BY <1>3, <1>4 DEF WaitRow
<1> HIDE DEF row
<1>6. /\ s \in Seq(WaitRow) /\ Len(s) = Len(waits[r]) /\ s[n] = row
      /\ \A i \in 1 .. Len(waits[r]) : i # n => s[i] = waits[r][i]
  BY <1>3, <1>5
<1> HIDE DEF s
<1>7. /\ waits' \in [Runs -> Seq(WaitRow)] /\ waits'[r] = s
      /\ \A q \in Runs \ {r} : waits'[q] = waits[q]
  BY <1>1, <1>2, <1>6, UpdateOne DEF IInv, TypeOK
<1>8. /\ claim' \in [Runs -> [token : Nat, until : Nat]] /\ claim'[r] = c
      /\ \A q \in Runs \ {r} : claim'[q] = claim[q]
  BY <1>1, <1>4, UpdateOne DEF IInv, TypeOK
<1>9. \A q \in Runs :
         /\ Len(waits'[q]) = Len(waits[q])
         /\ \A i \in 1 .. Len(waits[q]) :
               /\ waits'[q][i].id = waits[q][i].id
               /\ waits'[q][i].expires = waits[q][i].expires
               /\ waits'[q][i].action = waits[q][i].action
               /\ waits'[q][i].status = "resolved" <=> waits[q][i].status = "resolved"
  <2> TAKE q \in Runs
  <2>1. CASE q # r
    BY <2>1, <1>7
  <2>2. CASE q = r
    BY <2>2, <1>3, <1>5, <1>6, <1>7
  <2> QED
    BY <2>1, <2>2
<1>10. ClaimsAgree'
  <2> SUFFICES ASSUME NEW q \in Runs, NEW i \in 1 .. Len(waits'[q]),
                      waits'[q][i].status = "processing"
               PROVE  claim'[q] = [token |-> waits'[q][i].token, until |-> waits'[q][i].until]
    BY DEF ClaimsAgree
  <2>1. CASE q # r
    <3>1. waits'[q] = waits[q] /\ claim'[q] = claim[q]
      BY <2>1, <1>7, <1>8
    <3>2. ClaimsAgree
      BY DEF IInv
    <3> QED
      BY <3>1, <3>2 DEF ClaimsAgree
  <2>2. CASE q = r
    <3>1. i = n
      BY <2>2, <1>3, <1>6, <1>7
    <3> QED
      BY <2>2, <3>1, <1>4, <1>5, <1>6, <1>7, <1>8
  <2> QED
    BY <2>1, <2>2
<1>11. \A q \in Runs : ctl[q].status \in Terminal => claim'[q] = claim[q]
  BY <1>1, <1>8 DEF Terminal
<1> QED
  BY <1>1, <1>7, <1>8, <1>9, <1>10, <1>11, LeaseStep

\* A renewal moves the leases of a live claim and of its wait, and nothing else.
LEMMA RenewClaimStep ==
    ASSUME IInv, NEW w \in Workers, RenewClaim(w)
    PROVE  IInv'
<1> DEFINE r == job[w].run
           u == Now(w) + Lease
           s == [i \in 1 .. Len(waits[r]) |->
                    IF waits[r][i].status = "processing" /\ waits[r][i].token = job[w].token
                    THEN [waits[r][i] EXCEPT !.until = u]
                    ELSE waits[r][i]]
<1>1. /\ pc[w] \in {"node", "outcome"} /\ claim[r].token = job[w].token /\ claim[r].token # 0
      /\ claim' = [claim EXCEPT ![r].until = u] /\ waits' = [waits EXCEPT ![r] = s]
      /\ UNCHANGED <<ctl, events, pc, job, base, mem, buf, clock, nextToken, nextWait>>
  BY DEF RenewClaim
<1>2. r \in Runs /\ waits[r] \in Seq(WaitRow) /\ claim[r] \in [token : Nat, until : Nat]
  BY <1>1 DEF IInv, TypeOK, WorkerInv
<1>3. u \in Nat
  BY <1>2, Numbers, RuntimeAssumption DEF IInv
<1> HIDE DEF u
<1>4. \A x \in WaitRow :
         LET y == [x EXCEPT !.until = u]
         IN  /\ y \in WaitRow /\ y.until = u /\ y.id = x.id /\ y.status = x.status
             /\ y.token = x.token /\ y.expires = x.expires /\ y.action = x.action
  BY <1>3 DEF WaitRow
<1>5. \A i \in 1 .. Len(waits[r]) : waits[r][i] \in WaitRow
  BY <1>2
<1>6. s \in Seq(WaitRow) /\ Len(s) = Len(waits[r])
  BY <1>2, <1>4, <1>5
<1>7. \A i \in 1 .. Len(waits[r]) :
         /\ s[i].id = waits[r][i].id /\ s[i].expires = waits[r][i].expires
         /\ s[i].action = waits[r][i].action /\ s[i].status = waits[r][i].status
         /\ s[i].token = waits[r][i].token
         /\ s[i].status = "processing" /\ s[i].token = job[w].token => s[i].until = u
  BY <1>4, <1>5
<1> HIDE DEF s
<1>8. /\ waits' \in [Runs -> Seq(WaitRow)] /\ waits'[r] = s
      /\ \A q \in Runs \ {r} : waits'[q] = waits[q]
  BY <1>1, <1>2, <1>6, UpdateOne DEF IInv, TypeOK
<1>9. /\ claim' \in [Runs -> [token : Nat, until : Nat]]
      /\ claim'[r] = [token |-> claim[r].token, until |-> u]
      /\ \A q \in Runs \ {r} : claim'[q] = claim[q]
  BY <1>1, <1>2, <1>3 DEF IInv, TypeOK
<1>10. \A q \in Runs :
         /\ Len(waits'[q]) = Len(waits[q])
         /\ \A i \in 1 .. Len(waits[q]) :
               /\ waits'[q][i].id = waits[q][i].id
               /\ waits'[q][i].expires = waits[q][i].expires
               /\ waits'[q][i].action = waits[q][i].action
               /\ waits'[q][i].status = "resolved" <=> waits[q][i].status = "resolved"
  <2> TAKE q \in Runs
  <2>1. CASE q # r
    BY <2>1, <1>8
  <2>2. CASE q = r
    BY <2>2, <1>6, <1>7, <1>8
  <2> QED
    BY <2>1, <2>2
<1>11. ClaimsAgree'
  <2> SUFFICES ASSUME NEW q \in Runs, NEW i \in 1 .. Len(waits'[q]),
                      waits'[q][i].status = "processing"
               PROVE  claim'[q] = [token |-> waits'[q][i].token, until |-> waits'[q][i].until]
    BY DEF ClaimsAgree
  <2>1. CASE q # r
    <3>1. waits'[q] = waits[q] /\ claim'[q] = claim[q]
      BY <2>1, <1>8, <1>9
    <3>2. ClaimsAgree
      BY DEF IInv
    <3> QED
      BY <3>1, <3>2 DEF ClaimsAgree
  <2>2. CASE q = r
    <3>1. i \in 1 .. Len(waits[r]) /\ waits[r][i].status = "processing"
      BY <2>2, <1>6, <1>7, <1>8
    <3>2. claim[r].token = waits[r][i].token
      <4>1. ClaimsAgree
        BY DEF IInv
      <4>2. claim[r] = [token |-> waits[r][i].token, until |-> waits[r][i].until]
        BY <4>1, <3>1, <1>2 DEF ClaimsAgree
      <4> QED
        BY <4>2
    <3>3. s[i].token = job[w].token /\ s[i].until = u
      BY <2>2, <3>1, <3>2, <1>1, <1>7
    <3> QED
      BY <2>2, <3>3, <1>1, <1>8, <1>9
  <2> QED
    BY <2>1, <2>2
<1>12. pc' = [pc EXCEPT ![w] = pc[w]]
  BY <1>1 DEF IInv, TypeOK
<1>13. \A q \in Runs : ctl[q].status \in Terminal => claim'[q] = claim[q]
  BY <1>1, <1>9 DEF IInv, TerminalUnclaimed, NoClaim
<1> QED
  BY <1>1, <1>8, <1>9, <1>10, <1>11, <1>12, <1>13, LeaseStep

-----------------------------------------------------------------------------
(* CommitExecution: the one step that replaces a checkpoint *)

\* A commit finds the very checkpoint it was computed from, and that state's
\* one open wait row resolved with the decision the call carried.
LEMMA CommitFacts ==
    ASSUME IInv, NEW w \in Workers, pc[w] = "commit", CanCommit(w)
    PROVE  LET r == job[w].run
               rows == ResolvedWaits(w)
           IN  /\ r \in Runs /\ base[w] = ctl[r] /\ Progressed(w) /\ Finished(w)
               /\ mem[w] \in Control /\ mem[w].ver > ctl[r].ver
               /\ rows \in Seq(WaitRow) /\ Len(rows) = mem[w].resumes
               /\ \A i \in 1 .. Len(rows) : rows[i].status = "resolved"
               /\ \A i \in 1 .. Len(rows) : i <= ctl[r].resumes => rows[i] = waits[r][i]
               /\ job[w].kind = "start" => mem[w].resumes = 0
               /\ job[w].kind = "resume" =>
                     /\ mem[w].resumes = ctl[r].resumes + 1
                     /\ rows[mem[w].resumes].action = job[w].action
<1> DEFINE r == job[w].run
           rows == ResolvedWaits(w)
           row(i) == [waits[r][i] EXCEPT !.status = "resolved", !.token = 0, !.until = 0,
                                         !.action = job[w].action]
<1>1. /\ r \in Runs /\ job[w].kind \in {"start", "resume"} /\ KnowsBase(w)
      /\ job[w].kind = "resume" => job[w].action \in Actions
      /\ mem[w] \in Control /\ ctl[r] \in Control /\ waits[r] \in Seq(WaitRow)
  BY DEF IInv, TypeOK, WorkerInv
<1>2. base[w] = ctl[r] /\ mem[w].ver > ctl[r].ver
  BY <1>1 DEF CanCommit, KnowsBase
<1>3. Progressed(w) /\ Finished(w)
  BY <1>2 DEF CanCommit, IInv, WorkerInv
<1>4. mem[w].resumes \in Nat /\ ctl[r].resumes \in Nat /\ Len(waits[r]) \in Nat
  <2>1. Len(waits[r]) \in Nat
    BY <1>1
  <2>2. \A c \in Control : c.resumes \in Nat
    BY DEF Control
  <2> QED
    BY <1>1, <2>1, <2>2
<1>5. /\ rows = [i \in 1 .. Len(waits[r]) |->
                   IF job[w].kind = "resume" /\ Resolvable(w, i) THEN row(i) ELSE waits[r][i]]
  BY DEF ResolvedWaits
<1>6. CASE job[w].kind = "start"
  <2>1. ctl[r].status = "pending" /\ mem[w].resumes = 0
    BY <1>2, <1>3, <1>6 DEF Progressed
  <2>2. Len(waits[r]) = 0
    BY <1>1, <2>1 DEF IInv, WaitsMatchCheckpoint, StoredShape
  <2>3. rows \in Seq(WaitRow) /\ Len(rows) = 0
    BY <1>5, <2>2
  <2> HIDE DEF rows
  <2> QED
    BY <1>1, <1>2, <1>3, <1>6, <2>1, <2>3 DEF rows
<1>7. CASE job[w].kind = "resume"
  <2>1. ctl[r].status = "suspended" /\ mem[w].resumes = ctl[r].resumes + 1
    BY <1>2, <1>3, <1>7 DEF Progressed
  <2>2. /\ Len(waits[r]) = mem[w].resumes /\ Len(waits[r]) \in 1 .. Len(waits[r])
        /\ \A i \in 1 .. Len(waits[r]) : waits[r][i].status # "resolved" <=> i = Len(waits[r])
    BY <1>1, <2>1, OpenWait
  <2>3. \A i \in 1 .. Len(waits[r]) : Resolvable(w, i) => i = Len(waits[r])
    BY <2>2 DEF Resolvable
  <2>4. Resolvable(w, Len(waits[r]))
    BY <1>7, <2>3 DEF CanCommit
  <2>5. \A x \in WaitRow :
           LET y == [x EXCEPT !.status = "resolved", !.token = 0, !.until = 0,
                              !.action = job[w].action]
           IN  y \in WaitRow /\ y.status = "resolved" /\ y.action = job[w].action
    BY <1>1, <1>7 DEF WaitRow
  <2>6. \A i \in 1 .. Len(waits[r]) : waits[r][i] \in WaitRow
    BY <1>1
  <2>7. \A i \in 1 .. Len(waits[r]) :
           row(i) \in WaitRow /\ row(i).status = "resolved" /\ row(i).action = job[w].action
    BY <2>5, <2>6
  <2> HIDE DEF row
  <2>8. /\ rows \in Seq(WaitRow) /\ Len(rows) = Len(waits[r])
        /\ \A i \in 1 .. Len(waits[r]) :
              rows[i] = IF i = Len(waits[r]) THEN row(i) ELSE waits[r][i]
    BY <1>4, <1>5, <1>7, <2>3, <2>4, <2>6, <2>7
  <2> HIDE DEF rows
  <2>9. /\ \A i \in 1 .. Len(rows) : rows[i].status = "resolved"
        /\ rows[mem[w].resumes].action = job[w].action
    BY <2>2, <2>7, <2>8
  <2>10. \A i \in 1 .. Len(rows) : i <= ctl[r].resumes => rows[i] = waits[r][i]
    BY <1>4, <2>1, <2>2, <2>8
  <2> QED
    BY <1>1, <1>2, <1>3, <1>7, <2>1, <2>2, <2>8, <2>9, <2>10 DEF rows
<1> QED
  BY <1>1, <1>6, <1>7

\* A commit writes the copy, resolves the wait and drops the claim in one transaction.
LEMMA CommitExecutionStep ==
    ASSUME IInv, NEW w \in Workers, CommitExecution(w)
    PROVE  IInv'
<1> DEFINE r == job[w].run
           m == mem[w]
           rows == ResolvedWaits(w)
           new == NewWaitRow(m.wait)
           s == IF m.status = "suspended" THEN Append(rows, new) ELSE rows
<1>1. /\ pc[w] = "commit" /\ CanCommit(w) /\ Return(w)
      /\ ctl' = [ctl EXCEPT ![r] = m] /\ claim' = [claim EXCEPT ![r] = NoClaim]
      /\ waits' = [waits EXCEPT ![r] = s] /\ events' = [events EXCEPT ![r] = @ \o buf[w]]
      /\ UNCHANGED <<clock, nextToken, nextWait>>
  BY DEF CommitExecution
<1>2. /\ r \in Runs /\ base[w] = ctl[r] /\ Progressed(w) /\ Finished(w)
      /\ m \in Control /\ m.ver > ctl[r].ver
      /\ rows \in Seq(WaitRow) /\ Len(rows) = m.resumes
      /\ \A i \in 1 .. Len(rows) : rows[i].status = "resolved"
      /\ job[w].kind = "start" => m.resumes = 0
      /\ job[w].kind = "resume" => /\ m.resumes = ctl[r].resumes + 1
                                   /\ rows[m.resumes].action = job[w].action
  BY <1>1, CommitFacts
<1>3. /\ new \in WaitRow /\ new.status = "pending"
      /\ new.id = m.wait.id /\ new.expires = m.wait.expires
  BY <1>2 DEF NewWaitRow, WaitRow, Control
<1>4. m.resumes \in Nat /\ ctl[r].resumes \in Nat
  BY <1>2 DEF IInv, TypeOK, Control
<1>5. job[w].kind \in {"start", "resume"}
  BY <1>1 DEF IInv, WorkerInv
<1>6. StoredShape(m) /\ m.status \in Terminal \union {"suspended"}
  BY <1>2 DEF Finished
<1> HIDE DEF rows, new
<1>7. /\ s \in Seq(WaitRow)
      /\ Len(s) = m.resumes + (IF m.status = "suspended" THEN 1 ELSE 0)
      /\ \A i \in 1 .. Len(s) : s[i] = IF i <= m.resumes THEN rows[i] ELSE new
      /\ m.status = "suspended" => s[Len(s)] = new
  BY <1>2, <1>3, <1>4
<1> HIDE DEF s
<1>8. \A i \in 1 .. Len(s) : /\ s[i].status = "resolved" <=> i <= m.resumes
                             /\ s[i].status # "processing"
  BY <1>2, <1>3, <1>4, <1>7
<1>9. /\ ctl' \in [Runs -> Control] /\ ctl'[r] = m
      /\ \A q \in Runs \ {r} : ctl'[q] = ctl[q]
  BY <1>1, <1>2, UpdateOne DEF IInv, TypeOK
<1>10. /\ waits' \in [Runs -> Seq(WaitRow)] /\ waits'[r] = s
       /\ \A q \in Runs \ {r} : waits'[q] = waits[q]
  BY <1>1, <1>2, <1>7, UpdateOne DEF IInv, TypeOK
<1>11. /\ claim' \in [Runs -> [token : Nat, until : Nat]] /\ claim'[r] = NoClaim
       /\ \A q \in Runs \ {r} : claim'[q] = claim[q]
  <2>1. NoClaim \in [token : Nat, until : Nat]
    BY DEF NoClaim
  <2> QED
    BY <1>1, <1>2, <2>1, UpdateOne DEF IInv, TypeOK
<1>12. events' \in [Runs -> Seq(Event)]
  <2>1. events[r] \o buf[w] \in Seq(Event)
    BY <1>2 DEF IInv, TypeOK
  <2> QED
    BY <1>1, <2>1, UpdateOne DEF IInv, TypeOK
<1>13. /\ pc'[w] = "idle" /\ OthersUnchanged(w)
       /\ pc' \in [Workers -> {"idle", "claim", "reload", "begin", "node", "outcome", "commit"}]
       /\ job' \in [Workers -> Job]
       /\ base' \in [Workers -> Control] /\ mem' \in [Workers -> Control]
       /\ buf' \in [Workers -> Seq(Event)]
  <2>1. <<>> \in Seq(Event)
    OBVIOUS
  <2> QED
    BY <2>1, <1>1, UpdateOne, NullTypes DEF IInv, TypeOK, Return, OthersUnchanged
<1>14. TypeOK'
  BY <1>1, <1>9, <1>10, <1>11, <1>12, <1>13 DEF IInv, TypeOK
<1>15. StoreMoves
  BY <1>2, <1>6, <1>9 DEF StoreMoves, Terminal
<1>16. \A v \in Workers : WorkerInv(v)'
  <2>1. WorkerInv(w)'
    BY <1>13 DEF WorkerInv
  <2> QED
    BY <1>13, <1>14, <1>15, <2>1, OtherWorker DEF IInv, OthersUnchanged
<1>17. \A q \in Runs : StoredShape(ctl[q])'
  BY <1>6, <1>9 DEF IInv, StoredShape
<1>18. WaitsMatchCheckpoint'
  <2>1. \A q \in Runs \ {r} : ctl'[q] = ctl[q] /\ waits'[q] = waits[q]
    BY <1>9, <1>10
  <2>2. ctl'[r] = m /\ waits'[r] = s
    BY <1>9, <1>10
  <2>3. WaitsMatchCheckpoint
    BY DEF IInv
  <2>4. /\ Len(s) = m.resumes + (IF m.status = "suspended" THEN 1 ELSE 0)
        /\ \A i \in 1 .. Len(s) : s[i].status = "resolved" <=> i <= m.resumes
        /\ m.status = "suspended" => /\ s[Len(s)].id = m.wait.id
                                     /\ s[Len(s)].expires = m.wait.expires
    BY <1>3, <1>7, <1>8
  <2> HIDE DEF m
  <2> QED
    BY <2>1, <2>2, <2>3, <2>4, SMTT(30) DEF WaitsMatchCheckpoint
<1>19. ClaimsAgree'
  <2> SUFFICES ASSUME NEW q \in Runs, NEW i \in 1 .. Len(waits'[q]),
                      waits'[q][i].status = "processing"
               PROVE  claim'[q] = [token |-> waits'[q][i].token, until |-> waits'[q][i].until]
    BY DEF ClaimsAgree
  <2>1. q # r
    BY <1>8, <1>10
  <2>2. waits'[q] = waits[q] /\ claim'[q] = claim[q]
    BY <2>1, <1>10, <1>11
  <2>3. ClaimsAgree
    BY DEF IInv
  <2> QED
    BY <2>2, <2>3 DEF ClaimsAgree
<1>20. AuditMatchesData'
  <2> SUFFICES ASSUME NEW q \in Runs, ctl'[q].status \in {"suspended", "completed"}
               PROVE  ctl'[q].data = IF ctl'[q].resumes = 0 THEN None
                                     ELSE waits'[q][ctl'[q].resumes].action
    BY DEF AuditMatchesData
  <2>1. CASE q # r
    <3>1. ctl'[q] = ctl[q] /\ waits'[q] = waits[q]
      BY <2>1, <1>9, <1>10
    <3>2. AuditMatchesData
      BY DEF IInv
    <3> QED
      BY <3>1, <3>2 DEF AuditMatchesData
  <2>2. CASE q = r
    <3>1. m.data = IF job[w].kind = "resume" THEN job[w].action ELSE None
      BY <2>2, <1>2, <1>9 DEF Finished
    <3>2. job[w].kind = "resume" => m.resumes # 0 /\ s[m.resumes].action = job[w].action
      <4> SUFFICES ASSUME job[w].kind = "resume"
                   PROVE  m.resumes # 0 /\ s[m.resumes].action = job[w].action
        OBVIOUS
      <4>1. m.resumes = ctl[r].resumes + 1 /\ rows[m.resumes].action = job[w].action
        BY <1>2
      <4>2. m.resumes # 0 /\ m.resumes \in 1 .. Len(s) /\ m.resumes <= m.resumes
        BY <4>1, <1>4, <1>7
      <4>3. s[m.resumes] = rows[m.resumes]
        BY <4>2, <1>7
      <4> QED
        BY <4>1, <4>2, <4>3
    <3> QED
      BY <2>2, <3>1, <3>2, <1>2, <1>5, <1>9, <1>10
  <2> QED
    BY <2>1, <2>2
<1>21. TerminalUnclaimed'
  BY <1>9, <1>11 DEF IInv, TerminalUnclaimed
<1> QED
  BY <1>14, <1>16, <1>17, <1>18, <1>19, <1>20, <1>21 DEF IInv

-----------------------------------------------------------------------------
(* The theorems *)

\* The empty store satisfies the inductive invariant.
LEMMA InitInv == Init => IInv
<1> SUFFICES ASSUME Init PROVE IInv
  OBVIOUS
<1>1. TypeOK
  <2>1. NoClaim \in [token : Nat, until : Nat]
    BY DEF NoClaim
  <2>2. /\ <<>> \in Seq(WaitRow) /\ <<>> \in Seq(Event)
    OBVIOUS
  <2> QED
    BY <2>1, <2>2, NullTypes DEF Init, TypeOK
<1>2. /\ NoControl.status = "absent" /\ NoControl.done = 0 /\ NoControl.resumes = 0
      /\ NoControl.data = None
  BY DEF NoControl
<1>3. \A r \in Runs : StoredShape(ctl[r])
  BY <1>2 DEF Init, StoredShape
<1>4. \A r \in Runs : ctl[r] = NoControl /\ waits[r] = <<>> /\ Len(waits[r]) = 0
  BY DEF Init
<1>5. WaitsMatchCheckpoint
  BY <1>2, <1>4 DEF WaitsMatchCheckpoint
<1>6. ClaimsAgree
  BY <1>4 DEF ClaimsAgree
<1>7. AuditMatchesData
  BY <1>2, <1>4 DEF AuditMatchesData
<1>8. \A w \in Workers : WorkerInv(w)
  BY DEF Init, WorkerInv
<1>9. TerminalUnclaimed
  BY DEF Init, TerminalUnclaimed
<1> QED
  BY <1>1, <1>3, <1>5, <1>6, <1>7, <1>8, <1>9 DEF IInv

\* A step that leaves everything but the clock alone.
LEMMA IdleStep ==
    ASSUME IInv, UNCHANGED <<store, pc, local>>, clock' \in Nat, nextToken' \in Nat,
           nextWait' \in Nat
    PROVE  IInv'
<1>1. TypeOK'
  BY DEF IInv, TypeOK, store, local
<1>2. StoreMoves
  BY DEF StoreMoves, store
<1>3. \A v \in Workers : WorkerInv(v)'
  BY <1>1, <1>2, OtherWorker DEF IInv, local
<1>4. \A r \in Runs : StoredShape(ctl[r])'
  BY DEF IInv, StoredShape, store
<1>5. WaitsMatchCheckpoint' /\ ClaimsAgree' /\ AuditMatchesData' /\ TerminalUnclaimed'
  BY DEF IInv, WaitsMatchCheckpoint, ClaimsAgree, AuditMatchesData, TerminalUnclaimed, store
<1> QED
  BY <1>1, <1>3, <1>4, <1>5 DEF IInv

\* Every step, and every stutter, preserves the inductive invariant.
LEMMA StepInv == IInv /\ [Next]_vars => IInv'
<1> SUFFICES ASSUME IInv, [Next]_vars PROVE IInv'
  OBVIOUS
<1>1. CASE UNCHANGED vars
  BY <1>1, IdleStep DEF vars, store, local, IInv, TypeOK
<1>2. CASE Tick
  BY <1>2, IdleStep DEF Tick, IInv, TypeOK
<1>3. ASSUME NEW w \in Workers, WorkerStep(w) PROVE IInv'
  <2>1. CASE \E r \in Runs : StartNew(w, r) \/ StartAgain(w, r) \/ \E a \in Actions : Resume(w, r, a)
    BY <2>1, StartNewStep, StartAgainStep, ResumeStep
  <2>2. CASE ClaimRun(w) \/ ClaimWait(w) \/ Reload(w)
    BY <2>2, ClaimRunStep, ClaimWaitStep, ReloadStep
  <2>3. CASE ClaimRefused(w) \/ CommitRefused(w) \/ Crash(w)
    BY <2>3, ReturnStep DEF ClaimRefused, CommitRefused, Crash
  <2>4. CASE RunBegin(w) \/ ResumeBegin(w) \/ BeginRefused(w)
    BY <2>4, RunBeginStep, ResumeBeginStep, BeginRefusedStep
  <2>5. CASE StopBeforeNode(w) \/ ExecuteNode(w) \/ RunCompletes(w)
    BY <2>5, StopBeforeNodeStep, ExecuteNodeStep, RunCompletesStep
  <2>6. CASE \/ NodeContinues(w) \/ NodeSuspends(w)
             \/ \E s \in {"failed", "cancelled", "expired"} : NodeFails(w, s)
    BY <2>6, NodeContinuesStep, NodeSuspendsStep, NodeFailsStep
  <2>7. CASE CommitExecution(w) \/ RenewClaim(w)
    BY <2>7, CommitExecutionStep, RenewClaimStep
  <2> QED
    BY <1>3, <2>1, <2>2, <2>3, <2>4, <2>5, <2>6, <2>7 DEF WorkerStep
<1> QED
  BY <1>1, <1>2, <1>3 DEF Next

\* IInv is inductive: however many workers race, crash or stall, the store and
\* what every worker knows of it stay consistent.
THEOREM Invariance == Spec => []IInv
<1>1. Init => IInv
  BY InitInv
<1>2. IInv /\ [Next]_vars => IInv'
  BY StepInv
<1> QED
  BY <1>1, <1>2, PTL DEF Spec

\* Every variable of the runtime keeps its type.
THEOREM TypeCorrect == Spec => []TypeOK
<1>1. IInv => TypeOK
  BY DEF IInv
<1> QED
  BY <1>1, Invariance, PTL

\* CommitExecution and ClaimWait keep workflow_waits and the checkpoint's
\* PendingWait in step, for any number of racing resumes.
THEOREM WaitsMatch == Spec => []WaitsMatchCheckpoint
<1>1. IInv => WaitsMatchCheckpoint
  BY DEF IInv
<1> QED
  BY <1>1, Invariance, PTL

\* ClaimWait, RenewClaim and CommitExecution keep the two leases of a resume,
\* on the run row and on the wait row, equal.
THEOREM LeasesAgree == Spec => []ClaimsAgree
<1>1. IInv => ClaimsAgree
  BY DEF IInv
<1> QED
  BY <1>1, Invariance, PTL

\* The action in the audit columns is the one the surviving run applied.
THEOREM AuditCorrect == Spec => []AuditMatchesData
<1>1. IInv => AuditMatchesData
  BY DEF IInv
<1> QED
  BY <1>1, Invariance, PTL

-----------------------------------------------------------------------------
(* Action properties and the refinement *)

\* A claim of a wait row records nothing in its audit columns.
LEMMA ClaimWaitActions ==
    ASSUME IInv, NEW w \in Workers, ClaimWait(w)
    PROVE  \A q \in Runs : \A i \in 1 .. Len(waits[q]) :
              waits'[q][i].action = waits[q][i].action
<1> DEFINE r == job[w].run
           n == CurrentWait(r)
           row == [waits[r][n] EXCEPT !.status = "processing", !.token = NewClaim(w).token,
                                      !.until = NewClaim(w).until]
<1>1. r \in Runs /\ ctl[r].status = "suspended" /\ waits[r] \in Seq(WaitRow)
  BY DEF ClaimWait, CanClaimWait, IInv, TypeOK, WorkerInv
<1>2. n \in 1 .. Len(waits[r]) /\ waits[r][n] \in WaitRow
  BY <1>1, OpenWait
<1>3. waits' = [waits EXCEPT ![r] = [waits[r] EXCEPT ![n] = row]]
  BY <1>1 DEF ClaimWait, IInv, TypeOK
<1>4. row.action = waits[r][n].action
  BY <1>2 DEF WaitRow
<1> HIDE DEF row, n
<1> QED
  BY <1>1, <1>2, <1>3, <1>4 DEF IInv, TypeOK

\* A renewal neither.
LEMMA RenewClaimActions ==
    ASSUME IInv, NEW w \in Workers, RenewClaim(w)
    PROVE  \A q \in Runs : \A i \in 1 .. Len(waits[q]) :
              waits'[q][i].action = waits[q][i].action
<1> DEFINE r == job[w].run
           u == Now(w) + Lease
           s == [i \in 1 .. Len(waits[r]) |->
                    IF waits[r][i].status = "processing" /\ waits[r][i].token = job[w].token
                    THEN [waits[r][i] EXCEPT !.until = u]
                    ELSE waits[r][i]]
<1>1. waits' = [waits EXCEPT ![r] = s] /\ pc[w] # "idle"
  BY DEF RenewClaim
<1>2. r \in Runs /\ waits[r] \in Seq(WaitRow)
  BY <1>1 DEF IInv, TypeOK, WorkerInv
<1>3. \A x \in WaitRow : [x EXCEPT !.until = u].action = x.action
  BY DEF WaitRow
<1>4. \A i \in 1 .. Len(waits[r]) : waits[r][i] \in WaitRow
  BY <1>2
<1> HIDE DEF u
<1>5. \A i \in 1 .. Len(waits[r]) : s[i].action = waits[r][i].action
  BY <1>3, <1>4
<1> HIDE DEF s
<1> QED
  BY <1>1, <1>2, <1>5 DEF IInv, TypeOK

\* Only the creation of a run and a commit change what callers can observe.
LEMMA ObservableSteps ==
    ASSUME IInv, [Next]_vars
    PROVE  \/ /\ ctl' = ctl
              /\ \A q \in Runs : \A i \in 1 .. Len(waits[q]) :
                    waits'[q][i].action = waits[q][i].action
           \/ \E w \in Workers : \E r \in Runs : StartNew(w, r)
           \/ \E w \in Workers : CommitExecution(w)
<1>1. CASE UNCHANGED vars
  BY <1>1 DEF vars
<1>2. CASE Tick
  BY <1>2 DEF Tick, store
<1>3. ASSUME NEW w \in Workers, WorkerStep(w), ~CommitExecution(w),
             \A r \in Runs : ~StartNew(w, r)
      PROVE  /\ ctl' = ctl
             /\ \A q \in Runs : \A i \in 1 .. Len(waits[q]) :
                   waits'[q][i].action = waits[q][i].action
  <2>1. CASE \E r \in Runs : StartAgain(w, r) \/ \E a \in Actions : Resume(w, r, a)
    BY <2>1 DEF StartAgain, Resume, Accept
  <2>2. CASE ClaimWait(w)
    BY <2>2, ClaimWaitActions DEF ClaimWait
  <2>3. CASE RenewClaim(w)
    BY <2>3, RenewClaimActions DEF RenewClaim
  <2>4. CASE ClaimRun(w) \/ Reload(w) \/ ClaimRefused(w) \/ CommitRefused(w) \/ Crash(w)
    BY <2>4 DEF ClaimRun, Reload, ClaimRefused, CommitRefused, Crash, store
  <2>5. CASE \/ RunBegin(w) \/ ResumeBegin(w) \/ BeginRefused(w)
             \/ StopBeforeNode(w) \/ ExecuteNode(w) \/ RunCompletes(w)
    BY <2>5 DEF RunBegin, ResumeBegin, BeginRefused, StopBeforeNode, ExecuteNode, RunCompletes,
                EnterLoop, Exit, store
  <2>6. CASE \/ NodeContinues(w) \/ NodeSuspends(w)
             \/ \E s \in {"failed", "cancelled", "expired"} : NodeFails(w, s)
    BY <2>6 DEF NodeContinues, NodeSuspends, NodeFails, EnterLoop, Exit, store
  <2> QED
    BY <1>3, <2>1, <2>2, <2>3, <2>4, <2>5, <2>6 DEF WorkerStep
<1> QED
  BY <1>1, <1>2, <1>3 DEF Next

\* CommitExecution applies an execution only to the checkpoint it started
\* from: no committed segment is lost or applied twice.
THEOREM NothingLost == Spec => NoLostUpdate
<1>1. IInv /\ [Next]_vars =>
         [\A r \in Runs : ctl'[r].ver # ctl[r].ver =>
             \E w \in Workers : /\ job[w].run = r
                                /\ base[w] = ctl[r]
                                /\ mem[w] = ctl'[r]]_vars
  <2> SUFFICES ASSUME IInv, [Next]_vars, NEW r \in Runs, ctl'[r].ver # ctl[r].ver
               PROVE  \E w \in Workers : /\ job[w].run = r
                                         /\ base[w] = ctl[r]
                                         /\ mem[w] = ctl'[r]
    BY DEF vars
  <2>1. ASSUME NEW w \in Workers, NEW q \in Runs, StartNew(w, q) PROVE FALSE
    <3>1. /\ ctl' = [ctl EXCEPT ![q] = [NoControl EXCEPT !.status = "pending",
                                                         !.deadline = Now(w) + RunTTL]]
          /\ ctl[q] = NoControl
      BY <2>1 DEF StartNew, IInv, StoredShape
    <3>2. [NoControl EXCEPT !.status = "pending", !.deadline = Now(w) + RunTTL].ver
             = NoControl.ver
      BY DEF NoControl
    <3> QED
      BY <3>1, <3>2 DEF IInv, TypeOK
  <2>2. ASSUME NEW w \in Workers, CommitExecution(w)
        PROVE  job[w].run = r /\ base[w] = ctl[r] /\ mem[w] = ctl'[r]
    <3>1. /\ pc[w] = "commit" /\ CanCommit(w)
          /\ ctl' = [ctl EXCEPT ![job[w].run] = mem[w]]
      BY <2>2 DEF CommitExecution
    <3>2. job[w].run = r
      BY <3>1 DEF IInv, TypeOK
    <3> QED
      BY <3>1, <3>2, CommitFacts DEF IInv, TypeOK
  <2> QED
    BY <2>1, <2>2, ObservableSteps
<1> QED
  BY <1>1, Invariance, PTL DEF Spec, NoLostUpdate

\* Workers, leases and checkpoints implement indivisible segments with one
\* decision each.
THEOREM Implements == Spec => Refinement
<1> DEFINE S == [r \in Runs |-> ctl[r].status]
           D == [r \in Runs |-> ctl[r].done]
           A == [r \in Runs |-> [i \in 1 .. ctl[r].resumes |-> waits[r][i].action]]
<1>1. Init => Promise!Init
  <2> SUFFICES ASSUME Init PROVE Promise!Init
    OBVIOUS
  <2>1. /\ NoControl.status = "absent" /\ NoControl.done = 0 /\ NoControl.resumes = 0
    BY DEF NoControl
  <2>2. \A r \in Runs : ctl[r] = NoControl
    BY DEF Init
  <2>3. \A r \in Runs : [i \in 1 .. ctl[r].resumes |-> waits[r][i].action] = <<>>
    BY <2>1, <2>2
  <2> QED
    BY <2>1, <2>2, <2>3 DEF Promise!Init
<1>2. IInv /\ [Next]_vars => [Promise!Next]_<<S, D, A>>
  <2> SUFFICES ASSUME IInv, [Next]_vars
               PROVE  Promise!Next \/ (S' = S /\ D' = D /\ A' = A)
    OBVIOUS
  <2>0. \A q \in Runs : /\ waits[q] \in Seq(WaitRow) /\ ctl[q] \in Control
                        /\ ctl[q].resumes \in Nat /\ ctl[q].resumes <= Len(waits[q])
    <3>1. WaitsMatchCheckpoint /\ \A q \in Runs : waits[q] \in Seq(WaitRow) /\ ctl[q] \in Control
      BY DEF IInv, TypeOK
    <3>2. \A c \in Control : c.resumes \in Nat
      BY DEF Control
    <3> QED
      BY <3>1, <3>2 DEF WaitsMatchCheckpoint
  <2>1. CASE /\ ctl' = ctl
             /\ \A q \in Runs : \A i \in 1 .. Len(waits[q]) :
                   waits'[q][i].action = waits[q][i].action
    <3>1. \A q \in Runs : \A i \in 1 .. ctl[q].resumes :
             waits'[q][i].action = waits[q][i].action
      BY <2>0, <2>1
    <3>2. S' = S /\ D' = D
      BY <2>1
    <3>3. A' = A
      BY <2>1, <3>1
    <3> QED
      BY <3>2, <3>3
  <2>2. ASSUME NEW w \in Workers, NEW r \in Runs, StartNew(w, r) PROVE Promise!Next
    <3> DEFINE c == [NoControl EXCEPT !.status = "pending", !.deadline = Now(w) + RunTTL]
    <3>1. /\ ctl[r].status = "absent" /\ ctl[r] = NoControl /\ waits' = waits
          /\ ctl' = [ctl EXCEPT ![r] = c]
      BY <2>2 DEF StartNew, Accept, IInv, StoredShape
    <3>2. c.status = "pending" /\ c.done = NoControl.done /\ c.resumes = NoControl.resumes
      BY DEF NoControl
    <3> HIDE DEF c
    <3>3. /\ ctl'[r] = c /\ \A q \in Runs \ {r} : ctl'[q] = ctl[q]
      BY <3>1 DEF IInv, TypeOK
    <3>4. S' = [S EXCEPT ![r] = "pending"]
      BY <3>2, <3>3
    <3>5. \A q \in Runs : ctl'[q].done = ctl[q].done /\ ctl'[q].resumes = ctl[q].resumes
      BY <3>1, <3>2, <3>3
    <3>6. D' = D /\ A' = A
      BY <3>1, <3>5
    <3>7. Promise!Create(r)
      BY <3>1, <3>4, <3>6 DEF Promise!Create
    <3> QED
      BY <3>7 DEF Promise!Next
  <2>3. ASSUME NEW w \in Workers, CommitExecution(w) PROVE Promise!Next
    <3> DEFINE r == job[w].run
               m == mem[w]
               rows == ResolvedWaits(w)
               s == IF m.status = "suspended" THEN Append(rows, NewWaitRow(m.wait)) ELSE rows
    <3>1. /\ pc[w] = "commit" /\ CanCommit(w)
          /\ ctl' = [ctl EXCEPT ![r] = m] /\ waits' = [waits EXCEPT ![r] = s]
      BY <2>3 DEF CommitExecution
    <3>2. /\ r \in Runs /\ base[w] = ctl[r] /\ Progressed(w) /\ Finished(w)
          /\ m \in Control /\ rows \in Seq(WaitRow) /\ Len(rows) = m.resumes
          /\ \A i \in 1 .. Len(rows) : i <= ctl[r].resumes => rows[i] = waits[r][i]
          /\ job[w].kind = "start" => m.resumes = 0
          /\ job[w].kind = "resume" => /\ m.resumes = ctl[r].resumes + 1
                                       /\ rows[m.resumes].action = job[w].action
      BY <3>1, CommitFacts
    <3>3. /\ m.resumes \in Nat /\ m.done \in 0 .. NumNodes
          /\ ctl[r].done \in 0 .. NumNodes /\ ctl[r].resumes \in Nat
      BY <2>0, <3>2 DEF Control
    <3>4. /\ job[w].kind \in {"start", "resume"}
          /\ job[w].kind = "resume" => job[w].action \in Actions
      BY <3>1 DEF IInv, WorkerInv
    <3> HIDE DEF rows
    <3>5. \A i \in 1 .. m.resumes : s[i] = rows[i]
      BY <3>2, <3>3
    <3> HIDE DEF s
    <3>6. /\ ctl'[r] = m /\ waits'[r] = s
          /\ \A q \in Runs \ {r} : ctl'[q] = ctl[q] /\ waits'[q] = waits[q]
      BY <3>1, <3>2 DEF IInv, TypeOK
    <3>7. S' = [S EXCEPT ![r] = m.status] /\ D' = [D EXCEPT ![r] = m.done]
      BY <3>6
    <3>8. Promise!Advance(r, m.done, m.status)
      <4>1. m.done \in ctl[r].done .. NumNodes
        BY <3>2, <3>3, RuntimeAssumption DEF Progressed
      <4>2. \/ m.status = "suspended" /\ m.done + 1 \in Gates
            \/ m.status = "completed" /\ m.done = NumNodes
            \/ m.status \in {"failed", "cancelled", "expired"}
        BY <3>2 DEF Finished, StoredShape, Terminal
      <4>3. m.done \in D[r] .. NumNodes
        BY <4>1, <3>2
      <4> QED
        BY <4>2, <4>3, <3>7 DEF Promise!Advance
    <3>9. m.done \in 0 .. NumNodes /\ m.status \in Promise!Terminal \union {"suspended"}
      BY <3>2, <3>3 DEF Finished, Terminal, Promise!Terminal
    <3>10. CASE job[w].kind = "start"
      <4>1. ctl[r].status = "pending" /\ m.resumes = 0 /\ ctl[r].resumes = 0
        BY <3>2, <3>10 DEF Progressed, IInv, StoredShape
      <4>2. A' = A
        <5>1. [i \in 1 .. m.resumes |-> waits'[r][i].action]
                 = [i \in 1 .. ctl[r].resumes |-> waits[r][i].action]
          BY <4>1
        <5> QED
          BY <5>1, <3>6
      <4>3. Promise!Begin(r, m.done, m.status)
        BY <4>1, <4>2, <3>2, <3>8 DEF Promise!Begin
      <4> QED
        BY <4>3, <3>2, <3>9, ZenonT(30) DEF Promise!Next, Promise!Begin, Promise!Advance
    <3>11. CASE job[w].kind = "resume"
      <4>1. ctl[r].status = "suspended" /\ m.resumes = ctl[r].resumes + 1
        BY <3>2, <3>11 DEF Progressed
      <4> DEFINE old == [i \in 1 .. ctl[r].resumes |-> waits[r][i].action]
                 new == [i \in 1 .. m.resumes |-> waits'[r][i].action]
      <4>2. \A i \in 1 .. m.resumes :
               waits'[r][i].action = IF i <= ctl[r].resumes THEN waits[r][i].action
                                     ELSE job[w].action
        <5> TAKE i \in 1 .. m.resumes
        <5>1. waits'[r][i] = rows[i]
          BY <3>5, <3>6
        <5>2. CASE i <= ctl[r].resumes
          BY <5>1, <5>2, <3>2
        <5>3. CASE ~(i <= ctl[r].resumes)
          <6>1. i = m.resumes
            BY <5>3, <4>1, <3>3
          <6> QED
            BY <5>1, <5>3, <6>1, <3>2, <3>11
        <5> QED
          BY <5>2, <5>3
      <4>3. old \in Seq(Actions \union {None}) /\ Len(old) = ctl[r].resumes
        <5>1. \A i \in 1 .. ctl[r].resumes : waits[r][i] \in WaitRow
          BY <2>0, <3>2
        <5>2. \A i \in 1 .. ctl[r].resumes : waits[r][i].action \in Actions \union {None}
          BY <5>1 DEF WaitRow
        <5> QED
          BY <5>2, <3>3
      <4>4. new = Append(old, job[w].action)
        <5>1. m.resumes = Len(old) + 1 /\ job[w].action \in Actions \union {None}
          BY <4>1, <4>3, <3>4, <3>11
        <5>2. \A i \in 1 .. Len(old) : old[i] = waits[r][i].action
          BY <4>3
        <5>3. new = [i \in 1 .. Len(old) + 1 |-> IF i <= Len(old) THEN old[i]
                                                 ELSE job[w].action]
          <6>1. \A i \in 1 .. m.resumes :
                   waits'[r][i].action = IF i <= Len(old) THEN old[i] ELSE job[w].action
            <7> TAKE i \in 1 .. m.resumes
            <7>1. i \in Nat /\ i >= 1 /\ Len(old) = ctl[r].resumes
              BY <4>3, <3>3
            <7>2. i <= Len(old) => old[i] = waits[r][i].action
              BY <5>2, <7>1, <3>3
            <7> HIDE DEF old
            <7> QED
              BY <7>1, <7>2, <4>2
          <6> HIDE DEF old
          <6> QED
            BY <6>1, <5>1, Zenon
        <5> HIDE DEF old, new
        <5> QED
          BY <5>1, <5>3, <4>3, AppendAsFunction
      <4>5. A' = [A EXCEPT ![r] = Append(@, job[w].action)]
        <5>1. A'[r] = new /\ A[r] = old
          BY <3>2, <3>6
        <5>2. \A q \in Runs \ {r} : A'[q] = A[q]
          BY <3>6
        <5> HIDE DEF old, new
        <5> QED
          BY <5>1, <5>2, <4>4
      <4>6. PICK q \in Runs, n \in 0 .. NumNodes, x \in Promise!Terminal \union {"suspended"},
                 a \in Actions : q = r /\ n = m.done /\ x = m.status /\ a = job[w].action
        BY <3>2, <3>4, <3>9, <3>11
      <4>7. Promise!Decide(q, a, n, x)
        BY <4>1, <4>5, <4>6, <3>2, <3>8 DEF Promise!Decide, Promise!Advance
      <4> QED
        BY <4>7 DEF Promise!Next
    <3> QED
      BY <3>4, <3>10, <3>11
  <2> QED
    BY <2>1, <2>2, <2>3, ObservableSteps
<1> QED
  BY <1>1, <1>2, Invariance, PTL DEF Spec, Refinement, Promise!Spec, Promise!rvars

\* The rows of a finished run never change again: claims need a pending or a
\* suspended run, renewals a live claim, commits the version they started from.
THEOREM TerminalFrozen == Spec => TerminalIsFrozen
<1>1. IInv /\ [Next]_vars =>
         [\A r \in Runs : ctl[r].status \in Terminal =>
             /\ ctl'[r] = ctl[r] /\ claim'[r] = claim[r]
             /\ waits'[r] = waits[r] /\ events'[r] = events[r]]_vars
  <2> SUFFICES ASSUME IInv, [Next]_vars, NEW r \in Runs, ctl[r].status \in Terminal
               PROVE  /\ ctl'[r] = ctl[r] /\ claim'[r] = claim[r]
                      /\ waits'[r] = waits[r] /\ events'[r] = events[r]
    BY DEF vars
  <2> DEFINE Same == /\ ctl'[r] = ctl[r] /\ claim'[r] = claim[r]
                     /\ waits'[r] = waits[r] /\ events'[r] = events[r]
  <2>1. ctl[r].status \notin {"absent", "pending", "suspended"} /\ claim[r] = NoClaim
    BY DEF Terminal, IInv, TerminalUnclaimed
  <2>2. CASE UNCHANGED vars \/ Tick
    BY <2>2 DEF vars, Tick, store
  <2>3. ASSUME NEW w \in Workers, WorkerStep(w) PROVE Same
    <3>1. ASSUME NEW q \in Runs, StartNew(w, q) PROVE Same
      <4>1. q # r
        BY <3>1, <2>1 DEF StartNew
      <4> QED
        BY <3>1, <4>1 DEF StartNew, Accept, IInv, TypeOK
    <3>2. CASE \E q \in Runs : StartAgain(w, q) \/ \E a \in Actions : Resume(w, q, a)
      BY <3>2 DEF StartAgain, Resume, Accept
    <3>3. CASE ClaimRun(w)
      <4>1. job[w].run # r
        BY <3>3, <2>1 DEF ClaimRun, CanClaimRun
      <4> QED
        BY <3>3, <4>1 DEF ClaimRun, IInv, TypeOK
    <3>4. CASE ClaimWait(w)
      <4>1. job[w].run # r
        BY <3>4, <2>1 DEF ClaimWait, CanClaimWait
      <4> QED
        BY <3>4, <4>1 DEF ClaimWait, IInv, TypeOK
    <3>5. CASE RenewClaim(w)
      <4>1. job[w].run # r
        BY <3>5, <2>1 DEF RenewClaim, NoClaim
      <4> QED
        BY <3>5, <4>1 DEF RenewClaim, IInv, TypeOK
    <3>6. CASE CommitExecution(w)
      <4>1. pc[w] = "commit" /\ CanCommit(w)
        BY <3>6 DEF CommitExecution
      <4>2. ctl[job[w].run].status \in {"pending", "suspended"}
        <5>1. job[w].kind \in {"start", "resume"}
          BY <4>1 DEF IInv, WorkerInv
        <5>2. base[w] = ctl[job[w].run] /\ Progressed(w)
          BY <4>1, CommitFacts
        <5> QED
          BY <5>1, <5>2 DEF Progressed
      <4>3. job[w].run # r
        BY <4>2, <2>1
      <4> QED
        BY <3>6, <4>3 DEF CommitExecution, IInv, TypeOK
    <3>7. CASE Reload(w) \/ ClaimRefused(w) \/ CommitRefused(w) \/ Crash(w)
      BY <3>7 DEF Reload, ClaimRefused, CommitRefused, Crash, store
    <3>8. CASE \/ RunBegin(w) \/ ResumeBegin(w) \/ BeginRefused(w)
               \/ StopBeforeNode(w) \/ ExecuteNode(w) \/ RunCompletes(w)
      BY <3>8 DEF RunBegin, ResumeBegin, BeginRefused, StopBeforeNode, ExecuteNode,
                  RunCompletes, EnterLoop, Exit, store
    <3>9. CASE \/ NodeContinues(w) \/ NodeSuspends(w)
               \/ \E s \in {"failed", "cancelled", "expired"} : NodeFails(w, s)
      BY <3>9 DEF NodeContinues, NodeSuspends, NodeFails, EnterLoop, Exit, store
    <3> QED
      BY <2>3, <3>1, <3>2, <3>3, <3>4, <3>5, <3>6, <3>7, <3>8, <3>9 DEF WorkerStep
  <2> QED
    BY <2>2, <2>3 DEF Next
<1> QED
  BY <1>1, Invariance, PTL DEF Spec, TerminalIsFrozen

-----------------------------------------------------------------------------
(* The audit log is one sequential execution                               *)

Chained(s) == \A i \in 1 .. Len(s) - 1 : Follows(s[i], s[i + 1])

\* The first event of a segment that starts from the checkpoint c.
Opens(c, e) ==
    CASE c.status = "pending"   -> e.type = "started" /\ e.node = 1 /\ e.attempt = 1
      [] c.status = "suspended" -> /\ e.type = "resumed"
                                   /\ e.node = c.node /\ e.wait = c.wait.id
      [] OTHER                  -> FALSE

\* The events s end where the suspended state c says.
Closes(c, s) ==
    c.status = "suspended" =>
        /\ s # <<>> /\ s[Len(s)].type = "suspended"
        /\ s[Len(s)].node = c.node /\ s[Len(s)].wait = c.wait.id

\* What the log of a run says of its checkpoint.
Logged(c, s) ==
    /\ Len(s) = c.seq
    /\ Chained(s)
    /\ s # <<>> => s[1].type = "started" /\ s[1].node = 1 /\ s[1].attempt = 1
    /\ Closes(c, s)
    /\ c.status \in {"absent", "pending"} => s = <<>> /\ c.node = 0

\* The state m, in which node n is next, was reached through the events s.
Before(c, m, n, s) ==
    IF s = <<>> THEN c.status = "pending" /\ m.node = 0 /\ n = 1
    ELSE LET e == s[Len(s)]
         IN  /\ e.type \in {"resumed", "completed"}
             /\ m.node = e.node
             /\ e.type = "resumed" => n = e.node /\ m.attempt = e.attempt
             /\ e.type = "completed" => n = e.node + 1

Within(m, s) ==
    /\ s # <<>> /\ s[Len(s)].type = "started"
    /\ s[Len(s)].node = m.node /\ s[Len(s)].attempt = m.attempt

\* What the collected events s say of a worker at p that read c and holds m.
Collected(p, c, m, n, s) ==
    /\ Chained(s)
    /\ s # <<>> => Opens(c, s[1])
    /\ c.status = "pending" => c.node = 0
    /\ p \in {"idle", "claim", "reload", "begin"} => s = <<>>
    /\ p = "node" => Before(c, m, n, s)
    /\ p = "outcome" => Within(m, s)
    /\ p = "commit" /\ m.ver > c.ver => Closes(m, s)

LogInv ==
    /\ \A r \in Runs : Logged(ctl[r], events[r])
    /\ \A w \in Workers : Collected(pc[w], base[w], mem[w], job[w].at, buf[w])

\* One more event at the end of a chain.
LEMMA AppendChained ==
    ASSUME NEW s \in Seq(Event), NEW e \in Event, Chained(s),
           s # <<>> => Follows(s[Len(s)], e)
    PROVE  /\ Append(s, e) \in Seq(Event) /\ Append(s, e) # <<>> /\ Chained(Append(s, e))
           /\ Append(s, e)[Len(Append(s, e))] = e
           /\ Append(s, e)[1] = IF s = <<>> THEN e ELSE s[1]
<1> DEFINE t == Append(s, e)
<1>1. /\ t \in Seq(Event) /\ t # <<>> /\ Len(t) = Len(s) + 1 /\ Len(s) \in Nat
      /\ t[Len(s) + 1] = e /\ \A i \in 1 .. Len(s) : t[i] = s[i]
  OBVIOUS
<1>2. Len(s) = 0 <=> s = <<>>
  OBVIOUS
<1> HIDE DEF t
<1>3. ASSUME NEW i \in 1 .. Len(t) - 1
      PROVE  Follows(t[i], t[i + 1])
  <2>1. CASE i \in 1 .. Len(s) - 1
    <3>1. i \in 1 .. Len(s) /\ i + 1 \in 1 .. Len(s)
      BY <1>1, <2>1
    <3>2. t[i] = s[i] /\ t[i + 1] = s[i + 1]
      BY <1>1, <3>1
    <3> QED
      BY <2>1, <3>2 DEF Chained
  <2>2. CASE i = Len(s)
    <3>1. s # <<>> /\ t[i] = s[Len(s)] /\ t[i + 1] = e
      BY <1>1, <1>2, <1>3, <2>2
    <3> QED
      BY <3>1
  <2> QED
    BY <1>1, <2>1, <2>2
<1>4. t[1] = IF s = <<>> THEN e ELSE s[1]
  <2>1. CASE s = <<>>
    BY <1>1, <1>2, <2>1
  <2>2. CASE s # <<>>
    <3>1. 1 \in 1 .. Len(s)
      BY <1>1, <1>2, <2>2
    <3> QED
      BY <1>1, <2>2, <3>1
  <2> QED
    BY <2>1, <2>2
<1> QED
  BY <1>1, <1>3, <1>4 DEF t, Chained

\* A chain at the end of a chain.
LEMMA ConcatChained ==
    ASSUME NEW s \in Seq(Event), NEW b \in Seq(Event), Chained(s), Chained(b),
           s # <<>> /\ b # <<>> => Follows(s[Len(s)], b[1])
    PROVE  /\ Chained(s \o b) /\ Len(s \o b) = Len(s) + Len(b)
           /\ s # <<>> => (s \o b)[1] = s[1]
           /\ s = <<>> => s \o b = b
           /\ b # <<>> => s \o b # <<>> /\ (s \o b)[Len(s \o b)] = b[Len(b)]
<1> DEFINE t == s \o b
<1>1. /\ t \in Seq(Event) /\ Len(t) = Len(s) + Len(b) /\ Len(s) \in Nat /\ Len(b) \in Nat
      /\ \A i \in 1 .. Len(s) : t[i] = s[i]
      /\ \A i \in 1 .. Len(b) : t[Len(s) + i] = b[i]
  OBVIOUS
<1>2. (Len(s) = 0 <=> s = <<>>) /\ (Len(b) = 0 <=> b = <<>>)
  OBVIOUS
<1>3. s = <<>> => t = b
  OBVIOUS
<1>4. t = <<>> <=> Len(t) = 0
  BY <1>1
<1> HIDE DEF t
<1>5. ASSUME NEW i \in 1 .. Len(t) - 1
      PROVE  Follows(t[i], t[i + 1])
  <2>1. CASE i \in 1 .. Len(s) - 1
    <3>1. i \in 1 .. Len(s) /\ i + 1 \in 1 .. Len(s)
      BY <1>1, <2>1
    <3>2. t[i] = s[i] /\ t[i + 1] = s[i + 1]
      BY <1>1, <3>1
    <3> QED
      BY <2>1, <3>2 DEF Chained
  <2>2. CASE i = Len(s)
    <3>1. Len(s) > 0 /\ Len(b) > 0 /\ i \in 1 .. Len(s) /\ 1 \in 1 .. Len(b)
      BY <1>1, <1>5, <2>2
    <3>2. t[i] = s[Len(s)] /\ t[i + 1] = b[1]
      BY <1>1, <2>2, <3>1
    <3> QED
      BY <1>2, <3>1, <3>2
  <2>3. CASE i > Len(s)
    <3> DEFINE j == i - Len(s)
    <3>1. /\ j \in 1 .. Len(b) - 1 /\ j \in 1 .. Len(b) /\ j + 1 \in 1 .. Len(b)
          /\ i = Len(s) + j /\ i + 1 = Len(s) + (j + 1)
      BY <1>1, <1>5, <2>3
    <3> HIDE DEF j
    <3>2. t[i] = b[j] /\ t[i + 1] = b[j + 1]
      BY <1>1, <3>1
    <3> QED
      BY <3>1, <3>2 DEF Chained
  <2> QED
    BY <1>1, <2>1, <2>2, <2>3
<1>6. s # <<>> => t[1] = s[1]
  <2> SUFFICES ASSUME s # <<>> PROVE t[1] = s[1]
    OBVIOUS
  <2>1. 1 \in 1 .. Len(s)
    BY <1>1, <1>2
  <2> QED
    BY <1>1, <2>1
<1>7. b # <<>> => t # <<>> /\ t[Len(t)] = b[Len(b)]
  <2> SUFFICES ASSUME b # <<>> PROVE t # <<>> /\ t[Len(t)] = b[Len(b)]
    OBVIOUS
  <2>1. Len(b) \in 1 .. Len(b) /\ Len(t) # 0
    BY <1>1, <1>2
  <2> QED
    BY <1>1, <1>4, <2>1
<1> QED
  BY <1>1, <1>3, <1>5, <1>6, <1>7 DEF t, Chained

\* A step of one worker that adds nothing to the log.
LEMMA LogStep ==
    ASSUME LogInv, NEW w \in Workers, UNCHANGED <<ctl, events>>, OthersUnchanged(w),
           \A v \in Workers \ {w} : buf'[v] = buf[v],
           Collected(pc'[w], base'[w], mem'[w], job'[w].at, buf'[w])
    PROVE  LogInv'
<1>1. ASSUME NEW v \in Workers
      PROVE  Collected(pc'[v], base'[v], mem'[v], job'[v].at, buf'[v])
  <2>1. CASE v = w
    BY <2>1
  <2>2. CASE v # w
    <3>1. /\ pc'[v] = pc[v] /\ base'[v] = base[v] /\ mem'[v] = mem[v]
          /\ job'[v] = job[v] /\ buf'[v] = buf[v]
      BY <2>2 DEF OthersUnchanged
    <3> QED
      BY <3>1, Zenon DEF LogInv
  <2> QED
    BY <2>1, <2>2
<1> QED
  BY <1>1, Zenon DEF LogInv

\* What a step knows of its worker.
LEMMA WorkerLog ==
    ASSUME IInv, LogInv, NEW w \in Workers
    PROVE  /\ mem[w] \in Control /\ base[w] \in Control /\ buf[w] \in Seq(Event)
           /\ job[w] \in Job /\ WorkerInv(w)
           /\ Chained(buf[w])
           /\ Collected(pc[w], base[w], mem[w], job[w].at, buf[w])
BY DEF IInv, TypeOK, LogInv, Collected

\* The memory of a worker at rest holds no event.
LEMMA NothingCollected ==
    ASSUME NEW p \in {"idle", "claim", "reload", "begin"}, NEW c, NEW m, NEW n,
           c.status = "pending" => c.node = 0
    PROVE  Collected(p, c, m, n, <<>>)
BY DEF Collected, Chained

LEMMA LogReturn ==
    ASSUME IInv, LogInv, NEW w \in Workers, Return(w), UNCHANGED <<ctl, events>>
    PROVE  LogInv'
<1>1. /\ pc'[w] = "idle" /\ base'[w] = NoControl /\ mem'[w] = NoControl /\ buf'[w] = <<>>
      /\ OthersUnchanged(w) /\ \A v \in Workers \ {w} : buf'[v] = buf[v]
  BY DEF IInv, TypeOK, Return, OthersUnchanged
<1>2. Collected(pc'[w], base'[w], mem'[w], job'[w].at, buf'[w])
  BY <1>1, NothingCollected DEF NoControl
<1> QED
  BY <1>1, <1>2, LogStep

\* The calls, the claims and the reload, before there is an event.
LEMMA LogClaims ==
    ASSUME IInv, LogInv, NEW w \in Workers,
           \/ \E r \in Runs : StartAgain(w, r) \/ \E a \in Actions : Resume(w, r, a)
           \/ ClaimRun(w) \/ ClaimWait(w) \/ Reload(w)
    PROVE  LogInv'
<1>1. CASE \/ \E r \in Runs : StartAgain(w, r) \/ \E a \in Actions : Resume(w, r, a)
           \/ ClaimRun(w) \/ ClaimWait(w)
  <2>1. /\ pc[w] \in {"idle", "claim"} /\ pc'[w] \in {"claim", "reload"}
        /\ OthersUnchanged(w) /\ UNCHANGED <<ctl, events, base, mem, buf>>
    BY <1>1 DEF StartAgain, Resume, Accept, ClaimRun, ClaimWait, IInv, TypeOK, OthersUnchanged
  <2>2. buf[w] = <<>> /\ (base[w].status = "pending" => base[w].node = 0)
    BY <2>1, WorkerLog DEF Collected
  <2>3. Collected(pc'[w], base'[w], mem'[w], job'[w].at, buf'[w])
    BY <2>1, <2>2, NothingCollected
  <2> QED
    BY <2>1, <2>3, LogStep
<1>2. CASE Reload(w)
  <2>1. /\ pc[w] = "reload" /\ pc'[w] = "begin" /\ base'[w] = ctl[job[w].run]
        /\ OthersUnchanged(w) /\ UNCHANGED <<ctl, events, buf>>
    BY <1>2 DEF Reload, IInv, TypeOK, OthersUnchanged, store
  <2>2. buf[w] = <<>> /\ job[w].run \in Runs
    BY <2>1, WorkerLog DEF Collected, WorkerInv
  <2>3. ctl[job[w].run].status = "pending" => ctl[job[w].run].node = 0
    BY <2>2 DEF LogInv, Logged
  <2>4. Collected(pc'[w], base'[w], mem'[w], job'[w].at, buf'[w])
    BY <2>1, <2>2, <2>3, NothingCollected
  <2> QED
    BY <2>1, <2>4, LogStep
<1> QED
  BY <1>1, <1>2

\* A run that is created has no event.
LEMMA LogStart ==
    ASSUME IInv, LogInv, NEW w \in Workers, NEW r \in Runs, StartNew(w, r)
    PROVE  LogInv'
<1> DEFINE c == [NoControl EXCEPT !.status = "pending", !.deadline = Now(w) + RunTTL]
<1>1. /\ ctl[r].status = "absent" /\ ctl' = [ctl EXCEPT ![r] = c]
      /\ pc[w] = "idle" /\ pc'[w] = "claim" /\ OthersUnchanged(w)
      /\ UNCHANGED <<events, base, mem, buf>>
  BY DEF StartNew, Accept, IInv, TypeOK, OthersUnchanged
<1>2. c.status = "pending" /\ c.node = 0 /\ c.seq = 0
  BY DEF NoControl
<1> HIDE DEF c
<1>3. events[r] = <<>>
  BY <1>1 DEF LogInv, Logged
<1>4. Logged(c, events[r])
  BY <1>2, <1>3 DEF Logged, Chained, Closes
<1>5. ASSUME NEW q \in Runs
      PROVE  Logged(ctl'[q], events'[q])
  <2>1. CASE q = r
    <3>1. ctl'[q] = c /\ events'[q] = events[r]
      BY <1>1, <2>1 DEF IInv, TypeOK
    <3> QED
      BY <1>4, <3>1
  <2>2. CASE q # r
    <3>1. ctl'[q] = ctl[q] /\ events'[q] = events[q]
      BY <1>1, <2>2 DEF IInv, TypeOK
    <3> QED
      BY <3>1, Zenon DEF LogInv
  <2> QED
    BY <2>1, <2>2
<1>6. ASSUME NEW v \in Workers
      PROVE  Collected(pc'[v], base'[v], mem'[v], job'[v].at, buf'[v])
  <2>1. CASE v = w
    <3>1. buf[w] = <<>> /\ (base[w].status = "pending" => base[w].node = 0)
      BY <1>1, WorkerLog DEF Collected
    <3> QED
      BY <1>1, <2>1, <3>1, NothingCollected
  <2>2. CASE v # w
    <3>1. /\ pc'[v] = pc[v] /\ base'[v] = base[v] /\ mem'[v] = mem[v]
          /\ job'[v] = job[v] /\ buf'[v] = buf[v]
      BY <1>1, <2>2 DEF OthersUnchanged
    <3> QED
      BY <3>1, Zenon DEF LogInv
  <2> QED
    BY <2>1, <2>2
<1> QED
  BY <1>5, <1>6, Zenon DEF LogInv

\* The Runner leaves: with its events complete if it suspended.
LEMMA LogExit ==
    ASSUME IInv, LogInv, NEW w \in Workers, NEW c, Exit(w, c),
           NEW s \in Seq(Event), buf' = [buf EXCEPT ![w] = s], Chained(s),
           s # <<>> => Opens(base[w], s[1]),
           c.ver > base[w].ver => Closes(c, s)
    PROVE  LogInv'
<1>1. /\ pc'[w] = "commit" /\ mem'[w] = c /\ base'[w] = base[w] /\ buf'[w] = s
      /\ OthersUnchanged(w) /\ UNCHANGED <<ctl, events>>
      /\ \A v \in Workers \ {w} : buf'[v] = buf[v]
  BY DEF Exit, IInv, TypeOK, OthersUnchanged, store
<1>2. base[w].status = "pending" => base[w].node = 0
  BY WorkerLog DEF Collected
<1>3. Collected(pc'[w], base'[w], mem'[w], job'[w].at, buf'[w])
  BY <1>1, <1>2 DEF Collected
<1> QED
  BY <1>1, <1>3, LogStep

\* The Runner stands before node n in state c.
LEMMA LogLoop ==
    ASSUME IInv, LogInv, NEW w \in Workers, NEW c, NEW n, EnterLoop(w, c, n),
           NEW s \in Seq(Event), buf' = [buf EXCEPT ![w] = s], Chained(s),
           s # <<>> => Opens(base[w], s[1]),
           Before(base[w], c, n, s)
    PROVE  LogInv'
<1>1. /\ pc'[w] = "node" /\ mem'[w] = c /\ base'[w] = base[w] /\ buf'[w] = s
      /\ OthersUnchanged(w) /\ UNCHANGED <<ctl, events>>
      /\ \A v \in Workers \ {w} : buf'[v] = buf[v]
  BY DEF EnterLoop, IInv, TypeOK, OthersUnchanged, store
<1>2. job'[w].at = n
  BY DEF EnterLoop, IInv, TypeOK, Job
<1>3. base[w].status = "pending" => base[w].node = 0
  BY WorkerLog DEF Collected
<1>4. Collected(pc'[w], base'[w], mem'[w], job'[w].at, buf'[w])
  BY <1>1, <1>2, <1>3 DEF Collected
<1> QED
  BY <1>1, <1>4, LogStep

LEMMA LogBegins ==
    ASSUME IInv, LogInv, NEW w \in Workers, RunBegin(w) \/ ResumeBegin(w) \/ BeginRefused(w)
    PROVE  LogInv'
<1> DEFINE m == mem[w]
<1>1. /\ pc[w] = "begin" /\ buf[w] = <<>> /\ m = base[w] /\ m \in Control
      /\ (base[w].status = "pending" => base[w].node = 0)
      /\ buf \in [Workers -> Seq(Event)]
  BY WorkerLog DEF RunBegin, ResumeBegin, BeginRefused, Collected, WorkerInv, IInv, TypeOK
<1>2. CASE RunBegin(w)
  <2>1. m.status = "pending" /\ EnterLoop(w, Transition(m, "running"), 1) /\ UNCHANGED buf
    BY <1>2 DEF RunBegin
  <2>2. Transition(m, "running").node = 0
    BY <1>1, <2>1, TransitionFields
  <2>3. buf' = [buf EXCEPT ![w] = buf[w]]
    BY <1>1, <2>1
  <2>4. Before(base[w], Transition(m, "running"), 1, buf[w])
    BY <1>1, <2>1, <2>2 DEF Before
  <2> QED
    BY <1>1, <2>1, <2>3, <2>4, WorkerLog, LogLoop DEF Chained
<1>3. CASE ResumeBegin(w)
  <2> DEFINE d == [Emitted(m) EXCEPT !.wait = NoWait, !.resumes = @ + 1]
             e == NodeEvent("resumed", m, m.wait.id)
             s == Append(buf[w], e)
  <2>1. /\ CanResume(w) /\ EnterLoop(w, Transition(d, "running"), m.wait.node)
        /\ buf' = [buf EXCEPT ![w] = s]
    BY <1>3 DEF ResumeBegin
  <2>2. /\ m.status = "suspended" /\ m.wait.node = m.node /\ WorkerInv(w)
        /\ StoredShape(base[w])
    BY <1>1, <2>1, WorkerLog DEF CanResume, WorkerInv, KnowsBase
  <2>3. m.node \in Nodes /\ m.attempt \in Nat /\ m.wait.id \in Nat
    BY <1>1, <2>2, RuntimeAssumption DEF StoredShape, RuntimeAssumption, Control, Nodes
  <2>4. /\ e \in Event /\ e.type = "resumed" /\ e.node = m.node /\ e.attempt = m.attempt
        /\ e.wait = m.wait.id
    BY <2>3 DEF NodeEvent, Event
  <2>5. d \in Control /\ d.node = m.node /\ d.attempt = m.attempt
    <3>1. Emitted(m) \in Control /\ Emitted(m).node = m.node /\ Emitted(m).attempt = m.attempt
      BY <1>1, EmittedFields
    <3>2. NoWait \in [id : Nat, node : 0 .. NumNodes, expires : Nat]
      BY RuntimeAssumption DEF NoWait
    <3> DEFINE k == Emitted(m).resumes + 1
    <3>3. k \in Nat
      BY <3>1 DEF Control
    <3>4. d = [Emitted(m) EXCEPT !.wait = NoWait, !.resumes = k]
      OBVIOUS
    <3> HIDE DEF k, d
    <3>5. ASSUME NEW x \in Control
          PROVE  LET y == [x EXCEPT !.wait = NoWait, !.resumes = k]
                 IN  y \in Control /\ y.node = x.node /\ y.attempt = x.attempt
      BY <3>2, <3>3 DEF Control
    <3> QED
      BY <3>1, <3>4, <3>5
  <2>6. Transition(d, "running").node = m.node /\ Transition(d, "running").attempt = m.attempt
    <3> HIDE DEF d
    <3> QED
      BY <2>5, TransitionFields
  <2> HIDE DEF d, e
  <2>7. /\ s \in Seq(Event) /\ s # <<>> /\ Chained(s) /\ s[Len(s)] = e /\ s[1] = e
    BY <1>1, <2>4, WorkerLog, AppendChained
  <2> HIDE DEF s
  <2>8. Opens(base[w], s[1])
    BY <1>1, <2>2, <2>4, <2>7 DEF Opens
  <2>9. Before(base[w], Transition(d, "running"), m.wait.node, s)
    BY <2>2, <2>4, <2>6, <2>7 DEF Before
  <2> QED
    BY <2>1, <2>7, <2>8, <2>9, LogLoop
<1>4. CASE BeginRefused(w)
  <2>1. Exit(w, m) /\ UNCHANGED buf
    BY <1>4 DEF BeginRefused
  <2>2. buf' = [buf EXCEPT ![w] = buf[w]]
    BY <1>1, <2>1
  <2>3. ~(m.ver > base[w].ver)
    BY <1>1 DEF Control
  <2> QED
    BY <1>1, <2>1, <2>2, <2>3, WorkerLog, LogExit
<1> QED
  BY <1>2, <1>3, <1>4

LEMMA LogStops ==
    ASSUME IInv, LogInv, NEW w \in Workers, StopBeforeNode(w) \/ RunCompletes(w)
    PROVE  LogInv'
<1>1. PICK t \in {"expired", "failed", "completed"} :
          Exit(w, Transition(mem[w], t)) /\ UNCHANGED buf
  BY DEF StopBeforeNode, RunCompletes
<1>2. Transition(mem[w], t).status # "suspended"
  BY WorkerLog, TransitionFields DEF StoredStatus, Terminal
<1>3. buf' = [buf EXCEPT ![w] = buf[w]] /\ buf[w] \in Seq(Event)
  BY <1>1 DEF IInv, TypeOK
<1>4. Closes(Transition(mem[w], t), buf[w])
  BY <1>2 DEF Closes
<1>5. Chained(buf[w]) /\ (buf[w] # <<>> => Opens(base[w], buf[w][1]))
  BY WorkerLog DEF Collected
<1> QED
  BY <1>1, <1>3, <1>4, <1>5, LogExit

\* The execution of node n follows a resumption of n or the completion of n - 1.
LEMMA LogExecutes ==
    ASSUME IInv, LogInv, NEW w \in Workers, ExecuteNode(w)
    PROVE  LogInv'
<1> DEFINE m == mem[w]
           n == job[w].at
           c == Started(m, n)
           e == NodeEvent("started", c, 0)
           s == Append(buf[w], e)
<1>1. /\ pc[w] = "node" /\ n <= NumNodes
      /\ mem' = [mem EXCEPT ![w] = Emitted(c)] /\ buf' = [buf EXCEPT ![w] = s]
      /\ pc' = [pc EXCEPT ![w] = "outcome"]
      /\ UNCHANGED <<ctl, events, job, base>>
  BY DEF ExecuteNode, store
<1>2. m \in Control /\ buf[w] \in Seq(Event) /\ job[w] \in Job /\ WorkerInv(w)
  BY WorkerLog
<1>3. n \in Nodes
  <2>1. n = m.done + 1 /\ m.done \in Nat /\ NumNodes \in Nat
    BY <1>1, <1>2, RuntimeAssumption DEF WorkerInv, InLoop, Control
  <2> QED
    BY <1>1, <2>1 DEF Nodes
<1>4. c.attempt = (IF m.node = n THEN m.attempt + 1 ELSE 1) /\ c.attempt \in Nat
  <2>1. m.attempt \in Nat
    BY <1>2 DEF Control
  <2> QED
    BY <1>2, <2>1 DEF Started, Touch, Control
<1>5. c \in Control /\ c.node = n
  BY <1>2, <1>3, StartedFields
<1> HIDE DEF c
<1>6. Emitted(c).node = n /\ Emitted(c).attempt = c.attempt
  BY <1>5, EmittedFields
<1>7. e \in Event /\ e.type = "started" /\ e.node = n /\ e.attempt = c.attempt
  BY <1>3, <1>4, <1>5 DEF NodeEvent, Event
<1>8. Before(base[w], m, n, buf[w]) /\ Chained(buf[w])
      /\ (buf[w] # <<>> => Opens(base[w], buf[w][1]))
      /\ (base[w].status = "pending" => base[w].node = 0)
  BY <1>1, WorkerLog DEF Collected
<1> HIDE DEF e
<1>9. buf[w] # <<>> => Follows(buf[w][Len(buf[w])], e)
  <2> SUFFICES ASSUME buf[w] # <<>> PROVE Follows(buf[w][Len(buf[w])], e)
    OBVIOUS
  <2> DEFINE f == buf[w][Len(buf[w])]
  <2>1. f \in Event
    <3>1. Len(buf[w]) \in 1 .. Len(buf[w])
      BY <1>2
    <3> QED
      BY <1>2, <3>1
  <2>2. /\ f.type \in {"resumed", "completed"} /\ m.node = f.node
        /\ f.type = "resumed" => n = f.node /\ m.attempt = f.attempt
        /\ f.type = "completed" => n = f.node + 1
    BY <1>8 DEF Before
  <2>3. f.node \in Int
    BY <2>1 DEF Event, Nodes
  <2> HIDE DEF f
  <2>4. Follows(f, e)
    BY <1>4, <1>7, <2>2, <2>3 DEF Follows
  <2> QED
    BY <2>4 DEF f
<1>10. buf[w] = <<>> => Opens(base[w], e)
  BY <1>4, <1>7, <1>8 DEF Before, Opens
<1>11. s \in Seq(Event) /\ s # <<>> /\ Chained(s) /\ s[Len(s)] = e
       /\ s[1] = IF buf[w] = <<>> THEN e ELSE buf[w][1]
  BY <1>2, <1>7, <1>8, <1>9, AppendChained
<1> HIDE DEF s
<1>12. /\ pc'[w] = "outcome" /\ mem'[w] = Emitted(c) /\ buf'[w] = s /\ base'[w] = base[w]
       /\ OthersUnchanged(w) /\ \A v \in Workers \ {w} : buf'[v] = buf[v]
  BY <1>1 DEF IInv, TypeOK, OthersUnchanged
<1>13. Within(Emitted(c), s)
  BY <1>6, <1>7, <1>11 DEF Within
<1>14. Opens(base[w], s[1])
  BY <1>8, <1>10, <1>11
<1>15. Collected(pc'[w], base'[w], mem'[w], job'[w].at, buf'[w])
  BY <1>8, <1>11, <1>12, <1>13, <1>14 DEF Collected
<1> QED
  BY <1>1, <1>12, <1>15, LogStep

\* The event of the outcome follows that of the execution.
LEMMA OutcomeEvent ==
    ASSUME IInv, LogInv, NEW w \in Workers, pc[w] = "outcome",
           NEW t \in {"completed", "suspended", "failed"}, NEW c, c.node = mem[w].node,
           c.attempt = mem[w].attempt, NEW id \in Nat
    PROVE  LET e == NodeEvent(t, c, id)
               s == Append(buf[w], e)
           IN  /\ s \in Seq(Event) /\ s # <<>> /\ Chained(s) /\ s[Len(s)] = e
               /\ e.type = t /\ e.node = mem[w].node /\ e.wait = id
               /\ Opens(base[w], s[1])
<1> DEFINE e == NodeEvent(t, c, id)
           s == Append(buf[w], e)
<1>1. mem[w] \in Control /\ buf[w] \in Seq(Event) /\ WorkerInv(w) /\ job[w] \in Job
  BY WorkerLog
<1>2. Within(mem[w], buf[w]) /\ Chained(buf[w]) /\ Opens(base[w], buf[w][1])
  BY WorkerLog DEF Collected, Within
<1>3. mem[w].node \in Nodes /\ mem[w].attempt \in Nat
  <2>1. mem[w].node = mem[w].done + 1
    BY <1>1 DEF WorkerInv, InLoop
  <2> QED
    BY <1>1, <2>1, RuntimeAssumption, SMTT(20) DEF Control, Nodes
<1>4. e \in Event /\ e.type = t /\ e.node = mem[w].node /\ e.attempt = mem[w].attempt
      /\ e.wait = id
  BY <1>3 DEF NodeEvent, Event
<1> HIDE DEF e
<1>5. Follows(buf[w][Len(buf[w])], e)
  BY <1>2, <1>4 DEF Within, Follows
<1>6. /\ s \in Seq(Event) /\ s # <<>> /\ Chained(s) /\ s[Len(s)] = e
      /\ s[1] = buf[w][1]
  BY <1>1, <1>2, <1>4, <1>5, AppendChained DEF Within
<1> QED
  BY <1>2, <1>4, <1>6 DEF e

LEMMA LogContinues ==
    ASSUME IInv, LogInv, NEW w \in Workers, NodeContinues(w)
    PROVE  LogInv'
<1> DEFINE d == Decided(w)
           c == [d EXCEPT !.done = @ + 1]
           e == NodeEvent("completed", c, 0)
           s == Append(buf[w], e)
           m == Emitted(Touch(c))
<1>1. /\ pc[w] = "outcome" /\ EnterLoop(w, m, job[w].at + 1) /\ buf' = [buf EXCEPT ![w] = s]
  BY DEF NodeContinues
<1>2. /\ mem[w] \in Control /\ job[w] \in Job /\ WorkerInv(w)
  BY WorkerLog
<1>3. /\ mem[w].node = job[w].at /\ mem[w].node = mem[w].done + 1
      /\ job[w].action \in Actions \union {None}
  BY <1>1, <1>2 DEF WorkerInv, InLoop, Job
<1>4. d \in Control /\ d.node = mem[w].node /\ d.attempt = mem[w].attempt /\ d.done = mem[w].done
  BY <1>2, <1>3, DecidedFields
<1>5. d.done + 1 \in 0 .. NumNodes
  BY <1>2, <1>3, <1>4, RuntimeAssumption DEF Control
<1> HIDE DEF d
<1>6. c \in Control /\ c.node = mem[w].node /\ c.attempt = mem[w].attempt
  BY <1>4, <1>5 DEF Control
<1> HIDE DEF c
<1>7. m.node = mem[w].node
  BY <1>6, TouchFields, EmittedFields
<1>8. /\ s \in Seq(Event) /\ s # <<>> /\ Chained(s) /\ s[Len(s)] = e
      /\ e.type = "completed" /\ e.node = mem[w].node /\ Opens(base[w], s[1])
  BY <1>1, <1>6, OutcomeEvent, SMTT(20)
<1> HIDE DEF m, s, e
<1>9. Before(base[w], m, job[w].at + 1, s)
  BY <1>3, <1>7, <1>8 DEF Before
<1> QED
  BY <1>1, <1>8, <1>9, LogLoop

LEMMA LogSuspends ==
    ASSUME IInv, LogInv, NEW w \in Workers, NodeSuspends(w)
    PROVE  LogInv'
<1> DEFINE p == [id |-> nextWait, node |-> mem[w].node, expires |-> Now(w) + WaitTTL]
           d == [Decided(w) EXCEPT !.wait = p]
           c == Transition(d, "suspended")
           e == NodeEvent("suspended", c, nextWait)
           s == Append(buf[w], e)
<1>1. /\ pc[w] = "outcome" /\ Exit(w, Emitted(c)) /\ buf' = [buf EXCEPT ![w] = s]
  BY DEF NodeSuspends
<1>2. /\ mem[w] \in Control /\ job[w].action \in Actions \union {None} /\ nextWait \in Nat
      /\ Now(w) + WaitTTL \in Nat
  BY RuntimeAssumption DEF IInv, TypeOK, Job, Now
<1>3. /\ Decided(w) \in Control /\ Decided(w).node = mem[w].node
      /\ Decided(w).attempt = mem[w].attempt
  BY <1>2, DecidedFields
<1>4. p \in [id : Nat, node : 0 .. NumNodes, expires : Nat] /\ p.id = nextWait
  BY <1>2 DEF Control
<1> HIDE DEF p
<1>5. d \in Control /\ d.node = mem[w].node /\ d.attempt = mem[w].attempt /\ d.wait = p
  BY <1>3, <1>4 DEF Control
<1> HIDE DEF d
<1>6. "suspended" \in StoredStatus \union {"running"}
  BY DEF StoredStatus
<1>7. /\ c \in Control /\ c.node = mem[w].node /\ c.attempt = mem[w].attempt
      /\ c.wait = p
  BY <1>5, <1>6, TransitionFields
<1> HIDE DEF c
<1>8. Emitted(c).node = mem[w].node /\ Emitted(c).wait = p
  BY <1>7, EmittedFields
<1>9. /\ s \in Seq(Event) /\ s # <<>> /\ Chained(s) /\ s[Len(s)] = e
      /\ e.type = "suspended" /\ e.node = mem[w].node /\ e.wait = nextWait
      /\ Opens(base[w], s[1])
  BY <1>1, <1>2, <1>7, OutcomeEvent
<1> HIDE DEF s, e
<1>10. Closes(Emitted(c), s)
  BY <1>4, <1>8, <1>9 DEF Closes
<1> QED
  BY <1>1, <1>9, <1>10, LogExit

LEMMA LogFails ==
    ASSUME IInv, LogInv, NEW w \in Workers, NEW t \in {"failed", "cancelled", "expired"},
           NodeFails(w, t)
    PROVE  LogInv'
<1> DEFINE c == Transition(mem[w], t)
           e == NodeEvent("failed", mem[w], 0)
           s == Append(buf[w], e)
<1>1. /\ pc[w] = "outcome" /\ Exit(w, Emitted(c)) /\ buf' = [buf EXCEPT ![w] = s]
  BY DEF NodeFails
<1>2. mem[w] \in Control /\ t \in StoredStatus \union {"running"} /\ t # "suspended"
  BY WorkerLog DEF StoredStatus, Terminal
<1>3. c \in Control /\ c.status = t
  BY <1>2, TransitionFields
<1> HIDE DEF c
<1>4. Emitted(c).status # "suspended"
  BY <1>2, <1>3, EmittedFields
<1>5. s \in Seq(Event) /\ Chained(s) /\ Opens(base[w], s[1])
  BY <1>1, OutcomeEvent
<1> HIDE DEF s
<1>6. Closes(Emitted(c), s)
  BY <1>4 DEF Closes
<1> QED
  BY <1>1, <1>5, <1>6, LogExit

\* The events of a segment are appended to the log that the checkpoint it read
\* closed, and to no other.
LEMMA LogCommits ==
    ASSUME IInv, LogInv, NEW w \in Workers, CommitExecution(w)
    PROVE  LogInv'
<1> DEFINE r == job[w].run
           b == buf[w]
           m == mem[w]
           s == events[r]
<1>1. /\ pc[w] = "commit" /\ CanCommit(w) /\ Return(w)
      /\ ctl' = [ctl EXCEPT ![r] = m] /\ events' = [events EXCEPT ![r] = s \o b]
  BY DEF CommitExecution
<1>2. /\ r \in Runs /\ base[w] = ctl[r] /\ Finished(w) /\ m \in Control /\ m.ver > ctl[r].ver
  BY <1>1, CommitFacts
<1>3. /\ s \in Seq(Event) /\ b \in Seq(Event) /\ ctl[r] \in Control
      /\ m.seq \in Nat /\ ctl[r].seq \in Nat
  BY <1>2 DEF IInv, TypeOK, Control
<1>4. /\ Chained(b) /\ Closes(m, b) /\ (b # <<>> => Opens(ctl[r], b[1]))
  BY <1>1, <1>2, WorkerLog DEF Collected
<1>5. Logged(ctl[r], s)
  BY <1>2 DEF LogInv
<1>6. ASSUME s # <<>>, b # <<>>
      PROVE  Follows(s[Len(s)], b[1])
  <2>1. ctl[r].status = "suspended"
    BY <1>4, <1>5, <1>6 DEF Opens, Logged
  <2>2. s[Len(s)].type = "suspended" /\ s[Len(s)].node = ctl[r].node
        /\ s[Len(s)].wait = ctl[r].wait.id
    BY <1>5, <2>1 DEF Logged, Closes
  <2>3. b[1].type = "resumed" /\ b[1].node = ctl[r].node /\ b[1].wait = ctl[r].wait.id
    BY <1>4, <1>6, <2>1 DEF Opens
  <2> QED
    BY <2>2, <2>3 DEF Follows
<1> DEFINE t == s \o b
<1>7. /\ Chained(t) /\ Len(t) = Len(s) + Len(b)
      /\ s # <<>> => t[1] = s[1]
      /\ s = <<>> => t = b
      /\ b # <<>> => t # <<>> /\ t[Len(t)] = b[Len(b)]
  BY <1>3, <1>4, <1>5, <1>6, ConcatChained DEF Logged
<1>8. Len(t) = m.seq
  <2>1. Len(b) = m.seq - ctl[r].seq /\ Len(s) = ctl[r].seq
    BY <1>1, <1>5 DEF CanCommit, Logged
  <2> QED
    BY <1>3, <1>7, <2>1
<1> HIDE DEF t
<1>9. t # <<>> => t[1].type = "started" /\ t[1].node = 1 /\ t[1].attempt = 1
  <2>1. CASE s # <<>>
    BY <1>5, <1>7, <2>1 DEF Logged
  <2>2. CASE s = <<>>
    <3>1. ctl[r].status # "suspended"
      BY <1>5, <2>2 DEF Logged, Closes
    <3> QED
      BY <1>4, <1>7, <2>2, <3>1 DEF Opens
  <2> QED
    BY <2>1, <2>2
<1>10. Closes(m, t)
  BY <1>4, <1>7 DEF Closes
<1>11. m.status \notin {"absent", "pending"}
  BY <1>2 DEF Finished, Terminal
<1> HIDE DEF m
<1>12. Logged(m, t)
  BY <1>7, <1>8, <1>9, <1>10, <1>11 DEF Logged
<1>13. ASSUME NEW q \in Runs
       PROVE  Logged(ctl'[q], events'[q])
  <2>1. CASE q = r
    <3>1. ctl'[q] = m /\ events'[q] = t
      BY <1>1, <2>1 DEF IInv, TypeOK, t
    <3> QED
      BY <1>12, <3>1
  <2>2. CASE q # r
    <3>1. ctl'[q] = ctl[q] /\ events'[q] = events[q]
      BY <1>1, <2>2 DEF IInv, TypeOK
    <3> QED
      BY <3>1, Zenon DEF LogInv
  <2> QED
    BY <2>1, <2>2
<1>14. ASSUME NEW v \in Workers
       PROVE  Collected(pc'[v], base'[v], mem'[v], job'[v].at, buf'[v])
  <2>1. CASE v = w
    <3>1. pc'[w] = "idle" /\ base'[w] = NoControl /\ buf'[w] = <<>>
      BY <1>1 DEF IInv, TypeOK, Return
    <3> QED
      BY <2>1, <3>1, NothingCollected DEF NoControl
  <2>2. CASE v # w
    <3>1. /\ pc'[v] = pc[v] /\ base'[v] = base[v] /\ mem'[v] = mem[v]
          /\ job'[v] = job[v] /\ buf'[v] = buf[v]
      BY <1>1, <2>2 DEF IInv, TypeOK, Return
    <3> QED
      BY <3>1, Zenon DEF LogInv
  <2> QED
    BY <2>1, <2>2
<1> QED
  BY <1>13, <1>14, Zenon DEF LogInv

LEMMA LogInit == Init => LogInv
<1> SUFFICES ASSUME Init PROVE LogInv
  OBVIOUS
<1>1. \A r \in Runs : ctl[r] = NoControl /\ events[r] = <<>>
  BY DEF Init
<1>2. Logged(NoControl, <<>>)
  BY DEF Logged, Closes, Chained, NoControl
<1>3. \A w \in Workers : pc[w] = "idle" /\ base[w] = NoControl /\ buf[w] = <<>>
  BY DEF Init
<1>4. \A m, n : Collected("idle", NoControl, m, n, <<>>)
  BY NothingCollected DEF NoControl
<1> QED
  BY <1>1, <1>2, <1>3, <1>4 DEF LogInv

LEMMA LogNext == IInv /\ LogInv /\ [Next]_vars => LogInv'
<1> SUFFICES ASSUME IInv, LogInv, [Next]_vars PROVE LogInv'
  OBVIOUS
<1>1. CASE UNCHANGED vars \/ Tick
  <2>1. UNCHANGED <<ctl, events, pc, base, mem, job, buf>>
    BY <1>1 DEF vars, Tick, store, local
  <2> QED
    BY <2>1 DEF LogInv
<1>2. ASSUME NEW w \in Workers, WorkerStep(w) PROVE LogInv'
  <2>1. CASE \E r \in Runs : StartNew(w, r)
    BY <2>1, LogStart
  <2>2. CASE \/ \E r \in Runs : StartAgain(w, r) \/ \E a \in Actions : Resume(w, r, a)
             \/ ClaimRun(w) \/ ClaimWait(w) \/ Reload(w)
    BY <2>2, LogClaims
  <2>3. CASE ClaimRefused(w) \/ CommitRefused(w) \/ Crash(w)
    BY <2>3, LogReturn DEF ClaimRefused, CommitRefused, Crash, store
  <2>4. CASE RunBegin(w) \/ ResumeBegin(w) \/ BeginRefused(w)
    BY <2>4, LogBegins
  <2>5. CASE StopBeforeNode(w) \/ ExecuteNode(w) \/ RunCompletes(w)
    BY <2>5, LogStops, LogExecutes
  <2>6. CASE \/ NodeContinues(w) \/ NodeSuspends(w)
             \/ \E s \in {"failed", "cancelled", "expired"} : NodeFails(w, s)
    BY <2>6, LogContinues, LogSuspends, LogFails
  <2>7. CASE CommitExecution(w)
    BY <2>7, LogCommits
  <2>8. CASE RenewClaim(w)
    <3>1. UNCHANGED <<ctl, events, pc, base, mem, job, buf>>
      BY <2>8 DEF RenewClaim
    <3> QED
      BY <3>1 DEF LogInv
  <2> QED
    BY <1>2, <2>1, <2>2, <2>3, <2>4, <2>5, <2>6, <2>7, <2>8 DEF WorkerStep
<1> QED
  BY <1>1, <1>2 DEF Next

\* The committed audit log is one sequential execution of the definition, for any
\* number of workers that race, stall and crash: its executions run:node:attempt
\* are distinct, and a resumption answers the suspension before it.
THEOREM LogsAreLegal == Spec => []EventLogLegal
<1>1. Init => IInv /\ LogInv
  BY InitInv, LogInit
<1>2. IInv /\ LogInv /\ [Next]_vars => IInv' /\ LogInv'
  BY StepInv, LogNext
<1>3. LogInv => EventLogLegal
  BY DEF LogInv, Logged, Chained, EventLogLegal
<1> QED
  BY <1>1, <1>2, <1>3, PTL DEF Spec

=============================================================================
