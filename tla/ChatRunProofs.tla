--------------------------- MODULE ChatRunProofs ---------------------------
(***************************************************************************)
(* Machine-checked proofs about ChatRun, for any sessions, keys and        *)
(* instances and every bound on chunks, notices, crashes and errors.       *)
(***************************************************************************)
EXTENDS ChatRun, FiniteSetTheorems, TLAPS

-----------------------------------------------------------------------------
(* The inductive invariant.  Its parts have the values they speak of as      *)
(* arguments: s is a run's status, l its log, x its goroutine, u its runner, *)
(* p its channel, c who cancels it and d who did.                            *)

Statuses == Active \union Terminal \union {"none"}
Typed(s, l, x, u, p, c, d) ==
    /\ s \in Statuses
    /\ l \in Seq(EventType)
    /\ x \in Exec
    /\ u \in Runner
    /\ p \in {<<>>} \union {<<e>> : e \in Sent}
    /\ c \in Instances \union {Nobody}
    /\ d \in SUBSET Instances

\* A log begins with its run, and a terminal event is its last and the status.
LogFits(s, l) ==
    /\ s = "none" <=> l = <<>>
    /\ \A n \in 1 .. Len(l) : l[n] \in TerminalEvent => n = Len(l) /\ s \in Terminal
    /\ s \in Terminal => l[Len(l)] = EventOf(s)

\* The chunks of the runner that have not reached the log.
Coming(u, p) == u.left + (IF p = <<"text.delta">> THEN 1 ELSE 0)

\* The goroutine holds the text that is in the log.  It owns a context only while
\* it runs, and has a runner once it streams, whose answer ends within its bound.
Streams(l, x, u, p) ==
    /\ x.pc = "off" => ~x.live
    /\ x.pc # "off" => x.parts = Cardinality(Deltas(l))
    /\ x.pc \in {"off", "new", "start", "load", "decide"} => x.parts = 0
    /\ x.pc \in {"new", "start", "load", "decide"} => u.pc = "off" /\ p = <<>>
    /\ x.pc = "stream" => x.parts + Coming(u, p) <= MaxChunks
    /\ x.pc = "fail" => x.verdict # "none"
    /\ u.pc = "terminal" => u.verdict # "none"

\* Nothing runs before CreateRun.  A cancellation is committed before it looks for
\* the goroutine, and one that it did not reach cannot start the run any more.
Cancels(s, x, u, p, c, d) ==
    /\ s = "none" => x = NoExec /\ u = NoRunner /\ p = <<>> /\ c = Nobody /\ d = {}
    /\ c # Nobody \/ d # {} => s \in Terminal
    /\ x.at \in d /\ x.live => x.pc \in {"new", "start"}

Row(s, l, x, u, p, c, d) ==
    /\ Typed(s, l, x, u, p, c, d)
    /\ LogFits(s, l)
    /\ Streams(l, x, u, p)
    /\ Cancels(s, x, u, p, c, d)

\* A completed run has one answer, with the text of its log; others have none.
Answered(s, l, ms, r) ==
    /\ s # "completed" => Answers(ms, r) = {}
    /\ s = "completed" =>
          \E n \in 1 .. Len(ms) :
             Answers(ms, r) = {n} /\ ms[n].parts = Cardinality(Deltas(l))

\* The question of an active run is the last message of its session.
Asked(s, ms, r) == s \in Active => ms # <<>> /\ ms[Len(ms)] = Question(r)

Follows(ms) ==
    \A n \in 1 .. Len(ms) :
        ms[n].role = "assistant" => n > 1 /\ ms[n - 1] = Question(ms[n].run)

Rows == \A r \in Runs : Row(status[r], log[r], exec[r], runner[r], pipe[r],
                            cancelling[r], cancelled[r])
Talks == \A r \in Runs : /\ Answered(status[r], log[r], messages[r[1]], r)
                         /\ Asked(status[r], messages[r[1]], r)
Inv == TypeOK /\ Rows /\ Talks /\ TurnsDoNotInterleave

-----------------------------------------------------------------------------
(* Fields and frames *)

LEMMA Empty ==
    /\ NoExec \in Exec
    /\ NoRunner \in Runner
    /\ Nobody \in Instances \union {Nobody}
<1>1. 0 \in 0 .. MaxChunks /\ 0 \in 0 .. MaxNotices
  BY ChatAssumption DEF ChatAssumption
<1>2. NoExec \in Exec
  BY <1>1 DEF NoExec, Exec
<1>3. NoRunner \in Runner
  BY <1>1 DEF NoRunner, Runner
<1> QED
  BY <1>2, <1>3

\* The goroutine's record after the assignments of its steps.
LEMMA ExecFields ==
    ASSUME NEW x \in Exec
    PROVE  /\ \A pc \in {"new", "start", "load", "decide", "stream", "complete"} :
                 [x EXCEPT !.pc = pc] \in Exec
           /\ \A v \in {"failed", "timed_out"} :
                 /\ [x EXCEPT !.pc = "fail", !.verdict = v] \in Exec
                 /\ [x EXCEPT !.pc = "fail", !.verdict = v, !.live = FALSE] \in Exec
           /\ [x EXCEPT !.live = FALSE] \in Exec
           /\ \A n \in 0 .. MaxChunks : [x EXCEPT !.parts = n] \in Exec
           /\ [NoExec EXCEPT !.at = x.at] \in Exec
           /\ \A i \in Instances :
                 [NoExec EXCEPT !.pc = "new", !.at = i, !.live = TRUE] \in Exec
<1>1. \A pc \in {"new", "start", "load", "decide", "stream", "complete"} :
         [x EXCEPT !.pc = pc] \in Exec
  BY ZenonT(30) DEF Exec
<1>2. \A v \in {"failed", "timed_out"} :
         /\ [x EXCEPT !.pc = "fail", !.verdict = v] \in Exec
         /\ [x EXCEPT !.pc = "fail", !.verdict = v, !.live = FALSE] \in Exec
  BY ZenonT(30) DEF Exec
<1>3. /\ [x EXCEPT !.live = FALSE] \in Exec
      /\ \A n \in 0 .. MaxChunks : [x EXCEPT !.parts = n] \in Exec
  BY ZenonT(30) DEF Exec
<1>4. \A y \in Exec, i \in Instances \union {Nobody} :
         /\ [y EXCEPT !.at = i] \in Exec
         /\ [y EXCEPT !.pc = "new", !.at = i, !.live = TRUE] \in Exec
  BY ZenonT(30) DEF Exec
<1>5. x.at \in Instances \union {Nobody}
  BY DEF Exec
<1> QED
  BY <1>1, <1>2, <1>3, <1>4, <1>5, Empty

LEMMA RunnerFields ==
    ASSUME NEW u \in Runner
    PROVE  /\ \A n \in 0 .. MaxChunks : [u EXCEPT !.left = n] \in Runner
           /\ \A n \in 0 .. MaxNotices : [u EXCEPT !.notices = n] \in Runner
           /\ \A v \in Verdict : [u EXCEPT !.pc = "terminal", !.verdict = v] \in Runner
           /\ [u EXCEPT !.late = TRUE] \in Runner
           /\ [NoRunner EXCEPT !.pc = "done"] \in Runner
           /\ \A n \in 0 .. MaxChunks, b \in BOOLEAN :
                 [NoRunner EXCEPT !.pc = "emit", !.left = n,
                                  !.notices = MaxNotices, !.whole = b] \in Runner
<1>1. /\ \A n \in 0 .. MaxChunks : [u EXCEPT !.left = n] \in Runner
      /\ \A n \in 0 .. MaxNotices : [u EXCEPT !.notices = n] \in Runner
  BY ZenonT(30) DEF Runner
<1>2. /\ \A v \in Verdict : [u EXCEPT !.pc = "terminal", !.verdict = v] \in Runner
      /\ [u EXCEPT !.late = TRUE] \in Runner
  BY ZenonT(30) DEF Runner
<1>3. MaxNotices \in 0 .. MaxNotices
  BY ChatAssumption DEF ChatAssumption
<1>4. \A y \in Runner :
         /\ [y EXCEPT !.pc = "done"] \in Runner
         /\ \A n \in 0 .. MaxChunks, m \in 0 .. MaxNotices, b \in BOOLEAN :
               [y EXCEPT !.pc = "emit", !.left = n, !.notices = m, !.whole = b] \in Runner
  BY ZenonT(30) DEF Runner
<1> QED
  BY <1>1, <1>2, <1>3, <1>4, Empty

\* The text of a log grows by one with a chunk and by nothing with another event.
LEMMA DeltasOfAppend ==
    ASSUME NEW l \in Seq(EventType), NEW e \in EventType
    PROVE  /\ Append(l, e) \in Seq(EventType)
           /\ Cardinality(Deltas(l)) \in Nat
           /\ e = "text.delta" =>
                 Cardinality(Deltas(Append(l, e))) = Cardinality(Deltas(l)) + 1
           /\ e # "text.delta" => Deltas(Append(l, e)) = Deltas(l)
<1>1. IsFiniteSet(1 .. Len(l))
  BY FS_Interval
<1>2. IsFiniteSet(Deltas(l))
  BY <1>1, FS_Subset DEF Deltas
<1>3. Cardinality(Deltas(l)) \in Nat
  BY <1>2, FS_CardinalityType
<1>4. /\ Append(l, e) \in Seq(EventType)
      /\ Len(Append(l, e)) = Len(l) + 1
      /\ Append(l, e)[Len(l) + 1] = e
      /\ \A n \in 1 .. Len(l) : Append(l, e)[n] = l[n]
  OBVIOUS
<1>5. CASE e = "text.delta"
  <2>1. Deltas(Append(l, e)) = Deltas(l) \union {Len(l) + 1}
    BY <1>4, <1>5 DEF Deltas
  <2>2. Len(l) + 1 \notin Deltas(l)
    BY DEF Deltas
  <2> QED
    BY <1>2, <1>3, <1>4, <1>5, <2>1, <2>2, FS_AddElement
<1>6. CASE e # "text.delta"
  <2>1. Deltas(Append(l, e)) = Deltas(l)
    BY <1>4, <1>6 DEF Deltas
  <2> QED
    BY <1>3, <1>4, <1>6, <2>1
<1> QED
  BY <1>5, <1>6

\* An event that keeps the status joins the log of a run that has not ended; a
\* terminal event joins it with its status.
LEMMA LogGrows ==
    ASSUME NEW s \in Statuses, NEW l \in Seq(EventType), LogFits(s, l), s \notin Terminal,
           NEW s2 \in Statuses, NEW e \in EventType, s2 # "none",
           IF s2 \in Terminal THEN e = EventOf(s2) ELSE e \notin TerminalEvent
    PROVE  LogFits(s2, Append(l, e))
<1>1. /\ Len(Append(l, e)) = Len(l) + 1 /\ Len(l) \in Nat
      /\ Append(l, e)[Len(l) + 1] = e /\ Append(l, e) # <<>>
      /\ \A n \in 1 .. Len(l) : Append(l, e)[n] = l[n]
  OBVIOUS
<1>2. \A n \in 1 .. Len(l) : l[n] \notin TerminalEvent
  BY DEF LogFits
<1>3. \A n \in 1 .. Len(l) + 1 : n \in 1 .. Len(l) \/ n = Len(l) + 1
  BY <1>1
<1>4. \A n \in 1 .. Len(Append(l, e)) :
         Append(l, e)[n] \in TerminalEvent => n = Len(Append(l, e)) /\ s2 \in Terminal
  BY <1>1, <1>2, <1>3
<1> QED
  BY <1>1, <1>4 DEF LogFits

\* One run changes.
Becomes(r, s, l, x, u, p, c, d) ==
    /\ status' = [status EXCEPT ![r] = s]
    /\ log' = [log EXCEPT ![r] = l]
    /\ exec' = [exec EXCEPT ![r] = x]
    /\ runner' = [runner EXCEPT ![r] = u]
    /\ pipe' = [pipe EXCEPT ![r] = p]
    /\ cancelling' = [cancelling EXCEPT ![r] = c]
    /\ cancelled' = [cancelled EXCEPT ![r] = d]

Tables ==
    /\ status \in [Runs -> Statuses]
    /\ log \in [Runs -> Seq(EventType)]
    /\ exec \in [Runs -> Exec]
    /\ runner \in [Runs -> Runner]
    /\ pipe \in [Runs -> {<<>>} \union {<<e>> : e \in Sent}]
    /\ cancelling \in [Runs -> Instances \union {Nobody}]
    /\ cancelled \in [Runs -> SUBSET Instances]

LEMMA Same ==
    ASSUME Tables, NEW r \in Runs
    PROVE  /\ status = [status EXCEPT ![r] = status[r]]
           /\ log = [log EXCEPT ![r] = log[r]]
           /\ exec = [exec EXCEPT ![r] = exec[r]]
           /\ runner = [runner EXCEPT ![r] = runner[r]]
           /\ pipe = [pipe EXCEPT ![r] = pipe[r]]
           /\ cancelling = [cancelling EXCEPT ![r] = cancelling[r]]
           /\ cancelled = [cancelled EXCEPT ![r] = cancelled[r]]
<1>1. \A S, T : \A f \in [S -> T], i \in S : f = [f EXCEPT ![i] = f[i]]
  OBVIOUS
<1> QED
  BY <1>1, Zenon DEF Tables

\* The rows of the other runs stay as they are.
LEMMA OneRow ==
    ASSUME Tables, Rows, NEW r \in Runs,
           NEW s, NEW l, NEW x, NEW u, NEW p, NEW c, NEW d,
           Row(s, l, x, u, p, c, d), Becomes(r, s, l, x, u, p, c, d)
    PROVE  Tables' /\ Rows'
<1>1. Typed(s, l, x, u, p, c, d)
  BY DEF Row
<1>2. Tables'
  <2>1. status' \in [Runs -> Statuses] /\ log' \in [Runs -> Seq(EventType)]
    BY <1>1 DEF Tables, Typed, Becomes
  <2>2. exec' \in [Runs -> Exec] /\ runner' \in [Runs -> Runner]
    BY <1>1 DEF Tables, Typed, Becomes
  <2>3. pipe' \in [Runs -> {<<>>} \union {<<e>> : e \in Sent}]
    BY <1>1 DEF Tables, Typed, Becomes
  <2>4. /\ cancelling' \in [Runs -> Instances \union {Nobody}]
        /\ cancelled' \in [Runs -> SUBSET Instances]
    BY <1>1 DEF Tables, Typed, Becomes
  <2> QED
    BY <2>1, <2>2, <2>3, <2>4 DEF Tables
<1>3. /\ status'[r] = s /\ log'[r] = l /\ exec'[r] = x /\ runner'[r] = u
      /\ pipe'[r] = p /\ cancelling'[r] = c /\ cancelled'[r] = d
  BY DEF Tables, Becomes
<1>4. ASSUME NEW q \in Runs \ {r}
      PROVE  /\ status'[q] = status[q] /\ log'[q] = log[q] /\ exec'[q] = exec[q]
             /\ runner'[q] = runner[q] /\ pipe'[q] = pipe[q]
             /\ cancelling'[q] = cancelling[q] /\ cancelled'[q] = cancelled[q]
  BY DEF Tables, Becomes
<1>5. ASSUME NEW q \in Runs
      PROVE  Row(status'[q], log'[q], exec'[q], runner'[q], pipe'[q],
                 cancelling'[q], cancelled'[q])
  <2>1. CASE q = r
    BY <1>3, <2>1, Zenon
  <2>2. CASE q # r
    BY <1>4, <2>2, Zenon DEF Rows
  <2> QED
    BY <2>1, <2>2
<1> QED
  BY <1>2, <1>5, Zenon DEF Rows

LEMMA Typing ==
    TypeOK <=> /\ Tables
               /\ messages \in [Sessions -> Seq(Message)]
               /\ up \subseteq Instances
               /\ crashes \in 0 .. MaxCrashes
               /\ errors \in 0 .. MaxErrors
BY DEF TypeOK, Tables, Statuses

\* The row of a run, as its steps need it.
LEMMA RowOf ==
    ASSUME Inv, NEW r \in Runs
    PROVE  /\ Tables
           /\ Row(status[r], log[r], exec[r], runner[r], pipe[r], cancelling[r], cancelled[r])
           /\ Typed(status[r], log[r], exec[r], runner[r], pipe[r], cancelling[r], cancelled[r])
           /\ LogFits(status[r], log[r])
           /\ Streams(log[r], exec[r], runner[r], pipe[r])
           /\ Cancels(status[r], exec[r], runner[r], pipe[r], cancelling[r], cancelled[r])
BY Typing, Zenon DEF Inv, Rows, Row

LEMMA Errors ==
    ASSUME Inv, NoFailure \/ Failure
    PROVE  errors' \in 0 .. MaxErrors
BY ChatAssumption, Typing DEF Inv, NoFailure, Failure, ChatAssumption

\* A step of one run that adds no message, and completes or revives nothing.
LEMMA Silent ==
    ASSUME Inv, NEW r \in Runs,
           NEW s, NEW l, NEW x, NEW u, NEW p, NEW c, NEW d,
           Row(s, l, x, u, p, c, d), Becomes(r, s, l, x, u, p, c, d),
           s = "completed" <=> status[r] = "completed",
           s = "completed" => l = log[r],
           s \in Active => status[r] \in Active,
           UNCHANGED <<messages, up, crashes>>, errors' \in 0 .. MaxErrors
    PROVE  Inv'
<1>1. Tables /\ Rows
  BY Typing DEF Inv
<1>2. Tables' /\ Rows'
  BY <1>1, OneRow
<1>3. TypeOK'
  BY <1>2, Typing DEF Inv, TypeOK, Tables, Statuses
<1>4. /\ status'[r] = s /\ log'[r] = l
      /\ \A q \in Runs \ {r} : status'[q] = status[q] /\ log'[q] = log[q]
  BY <1>1 DEF Becomes, Tables
<1>5. ASSUME NEW q \in Runs
      PROVE  /\ Answered(status'[q], log'[q], messages'[q[1]], q)
             /\ Asked(status'[q], messages'[q[1]], q)
  <2>1. /\ Answered(status[q], log[q], messages[q[1]], q)
        /\ Asked(status[q], messages[q[1]], q)
    BY DEF Inv, Talks
  <2>2. CASE q = r
    BY <1>4, <2>1, <2>2 DEF Answered, Asked
  <2>3. CASE q # r
    BY <1>4, <2>1, <2>3, Zenon
  <2> QED
    BY <2>2, <2>3
<1>6. TurnsDoNotInterleave'
  BY DEF Inv, TurnsDoNotInterleave
<1> QED
  BY <1>2, <1>3, <1>5, <1>6, Zenon DEF Inv, Talks

\* A step of one run outside the database.
LEMMA Outside ==
    ASSUME Inv, NEW r \in Runs,
           NEW x, NEW u, NEW p, NEW c, NEW d,
           Row(status[r], log[r], x, u, p, c, d),
           Becomes(r, status[r], log[r], x, u, p, c, d),
           UNCHANGED <<messages, up, crashes>>, errors' \in 0 .. MaxErrors
    PROVE  Inv'
BY Silent

-----------------------------------------------------------------------------
(* What the steps do to the row of their run *)

Ended(x) == [NoExec EXCEPT !.at = x.at]
Failing(x, v) == [x EXCEPT !.pc = "fail", !.verdict = v]
FailingCancelled(x, v) == [x EXCEPT !.pc = "fail", !.verdict = v, !.live = FALSE]

\* The goroutine ends, after it may have stored how.
LEMMA ExitRow ==
    ASSUME NEW s, NEW l, NEW x, NEW u, NEW p, NEW c, NEW d,
           Row(s, l, x, u, p, c, d), x.pc # "off",
           NEW s2 \in Statuses, NEW l2 \in Seq(EventType), LogFits(s2, l2), s2 # "none",
           s \in Terminal => s2 \in Terminal,
           NEW p2, p2 = <<>> \/ p2 = p
    PROVE  Row(s2, l2, Ended(x), u, p2, c, d)
<1> DEFINE y == Ended(x)
<1>1. y \in Exec
  BY ExecFields DEF Row, Typed, Ended
<1>2. y.pc = "off" /\ ~y.live /\ y.parts = 0
  BY DEF NoExec, Ended
<1> HIDE DEF y
<1>3. Typed(s2, l2, y, u, p2, c, d)
  BY <1>1 DEF Row, Typed
<1>4. Streams(l2, y, u, p2)
  BY <1>2 DEF Row, Streams
<1>5. Cancels(s2, y, u, p2, c, d)
  BY <1>2 DEF Row, Cancels
<1> QED
  BY <1>3, <1>4, <1>5 DEF Row, y

\* The goroutine goes to fail, with its context or without.
LEMMA GiveUpRow ==
    ASSUME NEW s, NEW l, NEW x, NEW u, NEW p, NEW c, NEW d,
           Row(s, l, x, u, p, c, d), x.pc \in {"load", "decide", "stream", "complete"},
           NEW v \in {"failed", "timed_out"}, NEW p2, p2 = <<>> \/ p2 = p
    PROVE  /\ Row(s, l, Failing(x, v), u, p2, c, d)
           /\ Row(s, l, FailingCancelled(x, v), u, p2, c, d)
<1>1. /\ x \in Exec /\ s # "none"
      /\ x.at \in d => ~x.live
  BY DEF Row, Typed, Cancels, NoExec
<1>2. ASSUME NEW y \in Exec, y.pc = "fail", y.verdict = v, y.at = x.at, y.parts = x.parts,
             y.live => x.live
      PROVE  Row(s, l, y, u, p2, c, d)
  <2>1. Typed(s, l, y, u, p2, c, d)
    BY DEF Row, Typed
  <2>2. Streams(l, y, u, p2)
    BY <1>2 DEF Row, Streams
  <2>3. Cancels(s, y, u, p2, c, d)
    BY <1>1, <1>2 DEF Row, Cancels
  <2> QED
    BY <2>1, <2>2, <2>3 DEF Row
<1> DEFINE y == Failing(x, v)
           z == FailingCancelled(x, v)
<1>3. y \in Exec /\ z \in Exec
  BY <1>1, ExecFields DEF Failing, FailingCancelled
<1>4. /\ y.pc = "fail" /\ y.verdict = v /\ y.at = x.at /\ y.parts = x.parts /\ y.live = x.live
      /\ z.pc = "fail" /\ z.verdict = v /\ z.at = x.at /\ z.parts = x.parts /\ ~z.live
  BY <1>1 DEF Exec, Failing, FailingCancelled
<1> HIDE DEF y, z
<1>5. Row(s, l, y, u, p2, c, d)
  BY <1>2, <1>3, <1>4
<1>6. Row(s, l, z, u, p2, c, d)
  BY <1>2, <1>3, <1>4
<1> QED
  BY <1>5, <1>6 DEF y, z

\* The runner sends, drops or stops: never more text than it had left.
LEMMA RunnerRow ==
    ASSUME NEW s, NEW l, NEW x, NEW u, NEW p, NEW c, NEW d,
           Row(s, l, x, u, p, c, d), u.pc \in {"emit", "terminal"},
           NEW u2 \in Runner, NEW p2 \in {<<>>} \union {<<e>> : e \in Sent},
           u2.pc = "terminal" => u2.verdict # "none",
           Coming(u2, p2) <= Coming(u, p)
    PROVE  Row(s, l, x, u2, p2, c, d)
<1>1. s # "none" /\ x.pc \notin {"new", "start", "load", "decide"}
  BY DEF Row, Cancels, Streams, NoRunner
<1>2. Typed(s, l, x, u2, p2, c, d)
  BY DEF Row, Typed
<1>3. x.parts \in Nat /\ MaxChunks \in Nat /\ Coming(u, p) \in Int /\ Coming(u2, p2) \in Int
  BY ChatAssumption DEF ChatAssumption, Row, Typed, Exec, Runner, Coming
<1>4. x.pc = "stream" => x.parts + Coming(u2, p2) <= MaxChunks
  <2> SUFFICES ASSUME x.pc = "stream"
               PROVE  x.parts + Coming(u2, p2) <= MaxChunks
    OBVIOUS
  <2>1. x.parts + Coming(u, p) <= MaxChunks
    BY DEF Row, Streams
  <2> QED
    BY <1>3, <2>1
<1>5. Streams(l, x, u2, p2)
  BY <1>1, <1>4 DEF Row, Streams
<1>6. Cancels(s, x, u2, p2, c, d)
  BY <1>1 DEF Row, Cancels
<1> QED
  BY <1>2, <1>5, <1>6 DEF Row

-----------------------------------------------------------------------------
(* The steps of the runner *)

\* A step that changes the runner and the channel of a run.
LEMMA RunnerStep ==
    ASSUME Inv, NEW r \in Runs, runner[r].pc \in {"emit", "terminal"},
           NEW u \in Runner, NEW p \in {<<>>} \union {<<e>> : e \in Sent},
           u.pc = "terminal" => u.verdict # "none",
           Coming(u, p) <= Coming(runner[r], pipe[r]),
           runner' = [runner EXCEPT ![r] = u], pipe' = [pipe EXCEPT ![r] = p],
           UNCHANGED <<table, exec, handlers, up, crashes, errors>>
    PROVE  Inv'
<1>1. Row(status[r], log[r], exec[r], u, p, cancelling[r], cancelled[r])
  BY RowOf, RunnerRow
<1>2. Becomes(r, status[r], log[r], exec[r], u, p, cancelling[r], cancelled[r])
  BY RowOf, Same DEF Becomes, table, handlers
<1>3. errors' \in 0 .. MaxErrors /\ UNCHANGED <<messages, up, crashes>>
  BY Typing DEF Inv, table
<1> QED
  BY <1>1, <1>2, <1>3, Outside

LEMMA Stops ==
    ASSUME Inv, NEW r \in Runs, runner[r].pc = "emit", NEW v \in Verdict, Stopped(r, v),
           UNCHANGED <<table, exec, pipe, handlers, up, crashes, errors>>
    PROVE  Inv'
<1> DEFINE u == [runner[r] EXCEPT !.pc = "terminal", !.verdict = v]
<1>1. runner[r] \in Runner
  BY RowOf DEF Typed
<1>2. u \in Runner
  BY <1>1, RunnerFields
<1>3. u.verdict = v /\ u.left = runner[r].left /\ runner[r].left \in Int
  BY <1>1 DEF Runner
<1>4. v # "none"
  BY DEF Verdict
<1>5. Coming(u, pipe[r]) <= Coming(runner[r], pipe[r])
  BY <1>3 DEF Coming
<1>6. pipe' = [pipe EXCEPT ![r] = pipe[r]] /\ pipe[r] \in {<<>>} \union {<<e>> : e \in Sent}
  BY RowOf, Same DEF Typed
<1>7. runner' = [runner EXCEPT ![r] = u]
  BY DEF Stopped
<1> HIDE DEF u
<1> QED
  BY <1>2, <1>3, <1>4, <1>5, <1>6, <1>7, RunnerStep

LEMMA Producing ==
    ASSUME Inv, NEW r \in Runs, Produce(r) \/ RunTimeout(r)
    PROVE  Inv'
<1> DEFINE u == runner[r]
           p == pipe[r]
<1>1. /\ u \in Runner /\ p \in {<<>>} \union {<<e>> : e \in Sent}
      /\ u.left \in 0 .. MaxChunks /\ u.notices \in 0 .. MaxNotices
      /\ MaxChunks \in Nat /\ MaxNotices \in Nat
      /\ Streams(log[r], exec[r], u, p)
  BY RowOf, ChatAssumption DEF Typed, Runner, ChatAssumption
<1>2. "text.delta" \in Sent /\ "run.status" \in Sent
  BY DEF Sent
<1>3. runner = [runner EXCEPT ![r] = u] /\ pipe = [pipe EXCEPT ![r] = p]
  BY RowOf, Same
<1>4. CASE EmitChunk(r)
  <2> DEFINE v == [u EXCEPT !.left = @ - 1]
  <2>1. v \in Runner
    <3>1. u.left - 1 \in 0 .. MaxChunks
      BY <1>1, <1>4 DEF EmitChunk
    <3> QED
      BY <1>1, <3>1, RunnerFields
  <2>2. v.pc = "emit" /\ v.left = u.left - 1 /\ u.pc = "emit" /\ p = <<>>
    BY <1>1, <1>4 DEF EmitChunk, Runner
  <2>3. Coming(v, <<"text.delta">>) <= Coming(u, p)
    BY <1>1, <2>2 DEF Coming
  <2>4. /\ runner' = [runner EXCEPT ![r] = v]
        /\ pipe' = [pipe EXCEPT ![r] = <<"text.delta">>]
        /\ UNCHANGED <<table, exec, handlers, up, crashes, errors>>
    BY <1>4 DEF EmitChunk
  <2> HIDE DEF v
  <2> QED
    BY <1>2, <2>1, <2>2, <2>3, <2>4, RunnerStep
<1>5. CASE EmitNotice(r)
  <2> DEFINE v == [u EXCEPT !.notices = @ - 1]
  <2>1. v \in Runner
    <3>1. u.notices - 1 \in 0 .. MaxNotices
      BY <1>1, <1>5 DEF EmitNotice
    <3> QED
      BY <1>1, <3>1, RunnerFields
  <2>2. v.pc = "emit" /\ v.left = u.left /\ u.pc = "emit"
    BY <1>1, <1>5 DEF EmitNotice, Runner
  <2>3. /\ runner' = [runner EXCEPT ![r] = v]
        /\ UNCHANGED <<table, exec, handlers, up, crashes, errors>>
    BY <1>5 DEF EmitNotice
  <2> HIDE DEF v
  <2>4. CASE p = <<>> /\ pipe' = [pipe EXCEPT ![r] = <<"run.status">>]
    <3>1. Coming(v, <<"run.status">>) <= Coming(u, p)
      BY <1>1, <2>2 DEF Coming
    <3> QED
      BY <1>2, <2>1, <2>2, <2>3, <2>4, <3>1, RunnerStep
  <2>5. CASE UNCHANGED pipe
    <3>1. Coming(v, p) <= Coming(u, p)
      BY <1>1, <2>2 DEF Coming
    <3> QED
      BY <1>1, <1>3, <2>1, <2>2, <2>3, <2>5, <3>1, RunnerStep
  <2> QED
    BY <1>5, <2>4, <2>5 DEF EmitNotice
<1>6. CASE DropChunk(r)
  <2>1. CASE runner' = [runner EXCEPT ![r].left = @ - 1]
    <3> DEFINE v == [u EXCEPT !.left = @ - 1]
    <3>1. v \in Runner
      <4>1. u.left - 1 \in 0 .. MaxChunks
        BY <1>1, <1>6 DEF DropChunk
      <4> QED
        BY <1>1, <4>1, RunnerFields
    <3>2. v.pc = "emit" /\ v.left = u.left - 1 /\ u.pc = "emit"
      BY <1>1, <1>6 DEF DropChunk, Runner
    <3>3. Coming(v, p) <= Coming(u, p)
      BY <1>1, <3>2 DEF Coming
    <3>4. /\ runner' = [runner EXCEPT ![r] = v]
          /\ UNCHANGED <<table, exec, pipe, handlers, up, crashes, errors>>
      BY <1>6, <2>1 DEF DropChunk
    <3> HIDE DEF v
    <3> QED
      BY <1>1, <1>3, <3>1, <3>2, <3>3, <3>4, RunnerStep
  <2>2. CASE \E v \in Cause(r) : Stopped(r, v)
    <3>1. Cause(r) \subseteq Verdict
      BY DEF Cause, Verdict
    <3> QED
      BY <1>6, <2>2, <3>1, Stops DEF DropChunk
  <2> QED
    BY <1>6, <2>1, <2>2 DEF DropChunk
<1>7. CASE ModelFails(r)
  <2>1. Cause(r) \union {"error"} \subseteq Verdict
    BY DEF Cause, Verdict
  <2> QED
    BY <1>7, <2>1, Stops DEF ModelFails
<1>8. CASE AnswerEnds(r)
  <2>1. "completed" \in Verdict
    BY DEF Verdict
  <2> QED
    BY <1>8, <2>1, Stops DEF AnswerEnds
<1>9. CASE EmitTerminal(r)
  <2> DEFINE v == [NoRunner EXCEPT !.pc = "done"]
  <2>1. v \in Runner /\ v.pc = "done" /\ v.left = 0
    BY <1>1, RunnerFields DEF NoRunner
  <2>2. u.pc = "terminal" /\ u.verdict \in Verdict
    BY <1>1, <1>9 DEF EmitTerminal, Streams, Runner
  <2>3. u.verdict \in Sent /\ u.verdict # "text.delta"
    BY <2>2 DEF Sent, Verdict
  <2>4. Coming(v, <<u.verdict>>) <= Coming(u, p)
    BY <1>1, <2>1, <2>3 DEF Coming
  <2>5. /\ runner' = [runner EXCEPT ![r] = v]
        /\ pipe' = [pipe EXCEPT ![r] = <<u.verdict>>]
        /\ UNCHANGED <<table, exec, handlers, up, crashes, errors>>
    BY <1>9 DEF EmitTerminal
  <2> HIDE DEF v
  <2> QED
    BY <2>1, <2>2, <2>3, <2>4, <2>5, RunnerStep
<1>10. CASE RunTimeout(r)
  <2> DEFINE v == [u EXCEPT !.late = TRUE]
  <2>1. v \in Runner
    BY <1>1, RunnerFields
  <2>2. v.pc = "emit" /\ v.left = u.left /\ u.pc = "emit"
    BY <1>1, <1>10 DEF RunTimeout, Runner
  <2>3. Coming(v, p) <= Coming(u, p)
    BY <1>1, <2>2 DEF Coming
  <2>4. /\ runner' = [runner EXCEPT ![r] = v]
        /\ UNCHANGED <<table, exec, pipe, handlers, up, crashes, errors>>
    BY <1>10 DEF RunTimeout
  <2> HIDE DEF v
  <2> QED
    BY <1>1, <1>3, <2>1, <2>2, <2>3, <2>4, RunnerStep
<1> QED
  BY <1>4, <1>5, <1>6, <1>7, <1>8, <1>9, <1>10 DEF Produce

-----------------------------------------------------------------------------
(* The steps of the goroutine *)

\* A step of the goroutine that adds no message; the channel may be emptied.
LEMMA GoroutineStep ==
    ASSUME Inv, NEW r \in Runs,
           NEW s, NEW l, NEW x, NEW u, NEW p,
           Row(s, l, x, u, p, cancelling[r], cancelled[r]),
           status' = [status EXCEPT ![r] = s], log' = [log EXCEPT ![r] = l],
           exec' = [exec EXCEPT ![r] = x],
           runner' = [runner EXCEPT ![r] = u], pipe' = [pipe EXCEPT ![r] = p],
           s = "completed" <=> status[r] = "completed",
           s = "completed" => l = log[r],
           s \in Active => status[r] \in Active,
           UNCHANGED <<messages, handlers, up, crashes>>, errors' \in 0 .. MaxErrors
    PROVE  Inv'
<1>1. Becomes(r, s, l, x, u, p, cancelling[r], cancelled[r])
  BY RowOf, Same DEF Becomes, handlers
<1> QED
  BY <1>1, Silent

\* An ordinary event joins the log of a run that has not ended.
LEMMA Ordinary ==
    ASSUME Inv, NEW r \in Runs, status[r] \notin Terminal, exec[r].pc # "off",
           NEW e \in EventType \ TerminalEvent
    PROVE  /\ LogFits(status[r], Append(log[r], e))
           /\ Append(log[r], e) \in Seq(EventType)
           /\ Cardinality(Deltas(Append(log[r], e))) =
                 Cardinality(Deltas(log[r])) + (IF e = "text.delta" THEN 1 ELSE 0)
<1>1. status[r] \in Statuses /\ log[r] \in Seq(EventType) /\ status[r] # "none"
  BY RowOf DEF Typed, Cancels, NoExec
<1>2. LogFits(status[r], Append(log[r], e))
  BY <1>1, RowOf, LogGrows
<1> QED
  BY <1>1, <1>2, DeltasOfAppend

\* The goroutine ends without a trace, the channel emptied or not.
LEMMA Exits ==
    ASSUME Inv, NEW r \in Runs, exec[r].pc # "off", Exit(r),
           NEW p, p = <<>> \/ p = pipe[r], pipe' = [pipe EXCEPT ![r] = p],
           UNCHANGED <<table, runner, handlers, up, crashes>>, errors' \in 0 .. MaxErrors
    PROVE  Inv'
<1> DEFINE x == Ended(exec[r])
<1>1. status[r] # "none" /\ status[r] \in Statuses /\ log[r] \in Seq(EventType)
  BY RowOf DEF Typed, Cancels, NoExec
<1>2. Row(status[r], log[r], x, runner[r], p, cancelling[r], cancelled[r])
  <2>1. /\ Row(status[r], log[r], exec[r], runner[r], pipe[r], cancelling[r], cancelled[r])
        /\ LogFits(status[r], log[r])
    BY RowOf
  <2> QED
    BY <1>1, <2>1, ExitRow, Zenon
<1>3. /\ status' = [status EXCEPT ![r] = status[r]] /\ log' = [log EXCEPT ![r] = log[r]]
      /\ runner' = [runner EXCEPT ![r] = runner[r]] /\ exec' = [exec EXCEPT ![r] = x]
      /\ UNCHANGED <<messages, handlers, up, crashes>>
  BY RowOf, Same DEF table, Exit, Ended
<1> HIDE DEF x
<1> QED
  BY <1>2, <1>3, GoroutineStep

\* The goroutine goes to fail.
LEMMA GivesUp ==
    ASSUME Inv, NEW r \in Runs, exec[r].pc \in {"load", "decide", "stream", "complete"},
           NEW v \in {"failed", "timed_out"}, GiveUp(r, v) \/ GiveUpAndCancel(r, v),
           NEW p, p = <<>> \/ p = pipe[r], pipe' = [pipe EXCEPT ![r] = p],
           UNCHANGED <<table, runner, handlers, up, crashes>>, errors' \in 0 .. MaxErrors
    PROVE  Inv'
<1> DEFINE y == Failing(exec[r], v)
           z == FailingCancelled(exec[r], v)
<1>1. /\ Row(status[r], log[r], y, runner[r], p, cancelling[r], cancelled[r])
      /\ Row(status[r], log[r], z, runner[r], p, cancelling[r], cancelled[r])
  <2>1. Row(status[r], log[r], exec[r], runner[r], pipe[r], cancelling[r], cancelled[r])
    BY RowOf
  <2> QED
    BY <2>1, GiveUpRow, Zenon
<1>2. /\ status' = [status EXCEPT ![r] = status[r]] /\ log' = [log EXCEPT ![r] = log[r]]
      /\ runner' = [runner EXCEPT ![r] = runner[r]]
      /\ UNCHANGED <<messages, handlers, up, crashes>>
  BY RowOf, Same DEF table
<1>3. exec' = [exec EXCEPT ![r] = y] \/ exec' = [exec EXCEPT ![r] = z]
  BY DEF GiveUp, GiveUpAndCancel, Failing, FailingCancelled
<1> HIDE DEF y, z
<1> QED
  BY <1>1, <1>2, <1>3, GoroutineStep

\* The goroutine goes on, and may have stored an event or started the runner.
LEMMA GoesOn ==
    ASSUME Inv, NEW r \in Runs,
           exec[r].pc \in {"load", "decide", "stream"},
           NEW x \in Exec, x.live => exec[r].live, x.at = exec[r].at,
           x.pc \in {"decide", "stream", "complete"},
           NEW e \in EventType \ TerminalEvent, NEW l \in Seq(EventType),
           l = log[r] \/ (status[r] \notin Terminal /\ l = Append(log[r], e)),
           NEW u \in Runner, NEW p, p = <<>> \/ p = pipe[r], Streams(l, x, u, p),
           log' = [log EXCEPT ![r] = l], exec' = [exec EXCEPT ![r] = x],
           runner' = [runner EXCEPT ![r] = u], pipe' = [pipe EXCEPT ![r] = p],
           UNCHANGED <<status, messages, handlers, up, crashes>>, errors' \in 0 .. MaxErrors
    PROVE  Inv'
<1>1. status[r] # "none" /\ (exec[r].at \in cancelled[r] => ~exec[r].live)
  BY RowOf DEF Cancels, NoExec
<1>2. LogFits(status[r], l)
  BY RowOf, Ordinary
<1>3. Typed(status[r], l, x, u, p, cancelling[r], cancelled[r])
  BY RowOf DEF Typed
<1>4. Cancels(status[r], x, u, p, cancelling[r], cancelled[r])
  BY <1>1, RowOf DEF Cancels
<1>5. Row(status[r], l, x, u, p, cancelling[r], cancelled[r])
  BY <1>2, <1>3, <1>4 DEF Row
<1>6. status' = [status EXCEPT ![r] = status[r]]
  BY RowOf, Same
<1>7. status[r] = "completed" => l = log[r]
  BY DEF Terminal
<1> QED
  BY <1>5, <1>6, <1>7, GoroutineStep

LEMMA RegisterStep ==
    ASSUME Inv, NEW r \in Runs, Register(r)
    PROVE  Inv'
<1> DEFINE x == [exec[r] EXCEPT !.pc = "start"]
<1>1. exec[r] \in Exec /\ exec[r].pc = "new"
  BY RowOf DEF Typed, Register
<1>2. x \in Exec
  BY <1>1, ExecFields
<1>3. x.pc = "start" /\ x.at = exec[r].at /\ x.live = exec[r].live /\ x.parts = exec[r].parts
  BY <1>1 DEF Exec
<1>4. exec' = [exec EXCEPT ![r] = x]
  BY DEF Register, Goto
<1>5. /\ status' = [status EXCEPT ![r] = status[r]] /\ log' = [log EXCEPT ![r] = log[r]]
      /\ runner' = [runner EXCEPT ![r] = runner[r]] /\ pipe' = [pipe EXCEPT ![r] = pipe[r]]
      /\ UNCHANGED <<messages, handlers, up, crashes, errors>>
  BY RowOf, Same DEF Register, table
<1>6. errors' \in 0 .. MaxErrors
  BY <1>5, Typing DEF Inv
<1> HIDE DEF x
<1>7. Typed(status[r], log[r], x, runner[r], pipe[r], cancelling[r], cancelled[r])
  BY <1>2, RowOf DEF Typed
<1>8. Streams(log[r], x, runner[r], pipe[r])
  BY <1>1, <1>3, RowOf DEF Streams
<1>9. Cancels(status[r], x, runner[r], pipe[r], cancelling[r], cancelled[r])
  BY <1>1, <1>3, RowOf DEF Cancels, NoExec
<1>10. Row(status[r], log[r], x, runner[r], pipe[r], cancelling[r], cancelled[r])
  BY <1>7, <1>8, <1>9, RowOf DEF Row
<1> QED
  BY <1>4, <1>5, <1>6, <1>10, GoroutineStep

LEMMA StartRunStep ==
    ASSUME Inv, NEW r \in Runs, StartRun(r)
    PROVE  Inv'
<1>1. errors' \in 0 .. MaxErrors
  BY Errors DEF StartRun
<1>2. exec[r] \in Exec /\ exec[r].pc = "start"
  BY RowOf DEF Typed, StartRun
<1>3. /\ runner' = [runner EXCEPT ![r] = runner[r]] /\ pipe' = [pipe EXCEPT ![r] = pipe[r]]
      /\ UNCHANGED <<messages, runner, handlers, up, crashes>>
  BY RowOf, Same DEF StartRun
<1>4. CASE Startable(r) /\ Recorded(r, "running", "run.started") /\ Goto(r, "load")
  <2> DEFINE x == [exec[r] EXCEPT !.pc = "load"]
             l == Append(log[r], "run.started")
  <2>1. x \in Exec
    BY <1>2, ExecFields
  <2>2. x.pc = "load" /\ x.at = exec[r].at /\ x.live = exec[r].live /\ x.parts = exec[r].parts
    BY <1>2 DEF Exec
  <2>3. exec' = [exec EXCEPT ![r] = x]
    BY <1>4 DEF Goto
  <2>4. status' = [status EXCEPT ![r] = "running"] /\ log' = [log EXCEPT ![r] = l]
    BY <1>4 DEF Recorded
  <2>5. /\ status[r] = "queued" /\ log[r] \in Seq(EventType)
        /\ "run.started" \in EventType \ TerminalEvent
        /\ "running" \in Statuses \ Terminal /\ "queued" \in Statuses \ Terminal
    BY <1>4, RowOf DEF Startable, Typed, EventType, TerminalEvent, Statuses, Active, Terminal
  <2>6. /\ l \in Seq(EventType) /\ LogFits("running", l)
        /\ Cardinality(Deltas(l)) = Cardinality(Deltas(log[r]))
    BY <2>5, RowOf, LogGrows, DeltasOfAppend
  <2> HIDE DEF x, l
  <2>7. Typed("running", l, x, runner[r], pipe[r], cancelling[r], cancelled[r])
    BY <2>1, <2>5, <2>6, RowOf DEF Typed
  <2>8. Streams(l, x, runner[r], pipe[r])
    BY <1>2, <2>2, <2>6, RowOf DEF Streams
  <2>9. Cancels("running", x, runner[r], pipe[r], cancelling[r], cancelled[r])
    BY <2>5, RowOf DEF Cancels, Terminal
  <2>10. Row("running", l, x, runner[r], pipe[r], cancelling[r], cancelled[r])
    BY <2>6, <2>7, <2>8, <2>9 DEF Row
  <2>11. status[r] \in Active
    BY <2>5 DEF Active
  <2> QED
    BY <1>1, <1>3, <2>3, <2>4, <2>5, <2>10, <2>11, GoroutineStep
<1>5. CASE Exit(r) /\ UNCHANGED <<status, log>>
  BY <1>1, <1>2, <1>3, <1>5, Exits DEF table
<1> QED
  BY <1>4, <1>5 DEF StartRun

LEMMA LoadContextStep ==
    ASSUME Inv, NEW r \in Runs, LoadContext(r)
    PROVE  Inv'
<1>1. errors' \in 0 .. MaxErrors
  BY Errors DEF LoadContext
<1>2. /\ exec[r] \in Exec /\ exec[r].pc = "load" /\ log[r] \in Seq(EventType)
      /\ runner[r] \in Runner
  BY RowOf DEF Typed, LoadContext
<1>3. /\ runner' = [runner EXCEPT ![r] = runner[r]] /\ pipe' = [pipe EXCEPT ![r] = pipe[r]]
      /\ UNCHANGED <<status, messages, handlers, up, crashes>>
  BY RowOf, Same DEF LoadContext
<1>4. CASE /\ Goto(r, "decide")
           /\ \/ UNCHANGED log
              \/ /\ status[r] \notin Terminal
                 /\ log' = [log EXCEPT ![r] = Append(@, "context.truncated")]
  <2> DEFINE x == [exec[r] EXCEPT !.pc = "decide"]
  <2>1. x \in Exec
    BY <1>2, ExecFields
  <2>2. x.pc = "decide" /\ x.at = exec[r].at /\ x.live = exec[r].live /\ x.parts = exec[r].parts
    BY <1>2 DEF Exec
  <2>3. exec' = [exec EXCEPT ![r] = x]
    BY <1>4 DEF Goto
  <2>4. "context.truncated" \in EventType \ TerminalEvent
    BY DEF EventType, TerminalEvent
  <2>5. PICK l \in Seq(EventType) :
            /\ l = log[r] \/ (status[r] \notin Terminal /\ l = Append(log[r], "context.truncated"))
            /\ log' = [log EXCEPT ![r] = l]
    <3>1. CASE UNCHANGED log
      <4>1. log' = [log EXCEPT ![r] = log[r]]
        BY <3>1, RowOf, Same
      <4> QED
        BY <1>2, <4>1
    <3>2. CASE /\ status[r] \notin Terminal
               /\ log' = [log EXCEPT ![r] = Append(@, "context.truncated")]
      <4>1. Append(log[r], "context.truncated") \in Seq(EventType)
        BY <1>2, <2>4, DeltasOfAppend
      <4> QED
        BY <3>2, <4>1
    <3> QED
      BY <1>4, <3>1, <3>2
  <2>6. Cardinality(Deltas(l)) = Cardinality(Deltas(log[r]))
    BY <1>2, <2>4, <2>5, DeltasOfAppend, ZenonT(30)
  <2> HIDE DEF x
  <2>7. Streams(l, x, runner[r], pipe[r])
    BY <1>2, <2>2, <2>6, RowOf DEF Streams
  <2> QED
    BY <1>1, <1>2, <1>3, <2>1, <2>2, <2>3, <2>4, <2>5, <2>7, GoesOn
<1>5. CASE GiveUp(r, "failed") /\ UNCHANGED log
  <2>1. UNCHANGED runner
    BY DEF LoadContext
  <2> QED
    BY <1>1, <1>2, <1>3, <1>5, <2>1, GivesUp DEF table
<1> QED
  BY <1>4, <1>5 DEF LoadContext

LEMMA DecideStep ==
    ASSUME Inv, NEW r \in Runs, DecideRetrieval(r)
    PROVE  Inv'
<1>1. errors' \in 0 .. MaxErrors
  BY Errors DEF DecideRetrieval
<1>2. exec[r] \in Exec /\ exec[r].pc = "decide" /\ log[r] \in Seq(EventType)
  BY RowOf DEF Typed, DecideRetrieval
<1>3. /\ pipe' = [pipe EXCEPT ![r] = pipe[r]]
      /\ UNCHANGED <<status, messages, handlers, up, crashes>>
  BY RowOf, Same DEF DecideRetrieval
<1>4. CASE /\ AppendEvent(r, "retrieval.decided") /\ Goto(r, "stream")
           /\ \E n \in 1 .. MaxChunks : \E b \in BOOLEAN :
                 runner' = [runner EXCEPT ![r] =
                    [NoRunner EXCEPT !.pc = "emit", !.left = n,
                                     !.notices = MaxNotices, !.whole = b]]
  <2>1. PICK n \in 1 .. MaxChunks, b \in BOOLEAN :
                 runner' = [runner EXCEPT ![r] =
                    [NoRunner EXCEPT !.pc = "emit", !.left = n,
                                     !.notices = MaxNotices, !.whole = b]]
    BY <1>4
  <2> DEFINE x == [exec[r] EXCEPT !.pc = "stream"]
             l == Append(log[r], "retrieval.decided")
             u == [NoRunner EXCEPT !.pc = "emit", !.left = n,
                                   !.notices = MaxNotices, !.whole = b]
  <2>2. x \in Exec
    BY <1>2, ExecFields
  <2>3. x.pc = "stream" /\ x.at = exec[r].at /\ x.live = exec[r].live /\ x.parts = exec[r].parts
    BY <1>2 DEF Exec
  <2>4. u.pc = "emit" /\ u.left = n
    BY DEF NoRunner
  <2>5. n \in 0 .. MaxChunks /\ n <= MaxChunks /\ n \in Nat
    BY ChatAssumption DEF ChatAssumption
  <2>6. u \in Runner
    BY <2>5, Empty, RunnerFields
  <2>7. exec' = [exec EXCEPT ![r] = x] /\ log' = [log EXCEPT ![r] = l] /\ status[r] \notin Terminal
    BY <1>4 DEF Goto, AppendEvent
  <2>8. "retrieval.decided" \in EventType \ TerminalEvent
    BY DEF EventType, TerminalEvent
  <2>9. l \in Seq(EventType) /\ Cardinality(Deltas(l)) = Cardinality(Deltas(log[r]))
    BY <1>2, <2>8, DeltasOfAppend
  <2>10. runner' = [runner EXCEPT ![r] = u]
    BY <2>1
  <2> HIDE DEF x, l, u
  <2>11. pipe[r] = <<>> /\ x.parts = 0 /\ x.parts = Cardinality(Deltas(l))
    BY <1>2, <2>3, <2>9, RowOf DEF Streams
  <2>12. Coming(u, pipe[r]) = n
    BY <2>4, <2>5, <2>11 DEF Coming
  <2>13. Streams(l, x, u, pipe[r])
    BY <2>3, <2>4, <2>5, <2>11, <2>12 DEF Streams
  <2>14. l = log[r] \/ (status[r] \notin Terminal /\ l = Append(log[r], "retrieval.decided"))
    BY <2>7 DEF l
  <2> QED
    BY <1>1, <1>2, <1>3, <2>2, <2>3, <2>6, <2>7, <2>8, <2>9, <2>10, <2>13, <2>14, GoesOn
<1>5. CASE GiveUp(r, "failed") /\ UNCHANGED <<log, runner>>
  BY <1>1, <1>2, <1>3, <1>5, GivesUp DEF table
<1> QED
  BY <1>4, <1>5 DEF DecideRetrieval

\* What the goroutine takes leaves the channel empty.
LEMMA Reception ==
    ASSUME Inv, NEW r \in Runs, NEW e, Received(r, e)
    PROVE  /\ exec[r] \in Exec /\ exec[r].pc = "stream" /\ pipe[r] = <<e>>
           /\ pipe' = [pipe EXCEPT ![r] = <<>>]
           /\ log[r] \in Seq(EventType) /\ runner[r] \in Runner
           /\ exec[r].parts \in Nat /\ runner[r].left \in Nat /\ MaxChunks \in Nat
           /\ exec[r].parts = Cardinality(Deltas(log[r]))
           /\ exec[r].parts + Coming(runner[r], pipe[r]) <= MaxChunks
<1>1. exec[r] \in Exec /\ log[r] \in Seq(EventType) /\ runner[r] \in Runner
  BY RowOf DEF Typed
<1>2. exec[r].pc = "stream" /\ pipe[r] = <<e>> /\ pipe' = [pipe EXCEPT ![r] = <<>>]
  BY DEF Received
<1>3. exec[r].parts \in Nat /\ runner[r].left \in Nat /\ MaxChunks \in Nat
  BY <1>1, ChatAssumption DEF ChatAssumption, Exec, Runner
<1> QED
  BY <1>1, <1>2, <1>3, RowOf DEF Streams

LEMMA ReceiveDeltaStep ==
    ASSUME Inv, NEW r \in Runs, ReceiveDelta(r)
    PROVE  Inv'
<1>1. errors' \in 0 .. MaxErrors
  BY Errors DEF ReceiveDelta
<1>2. /\ exec[r] \in Exec /\ exec[r].pc = "stream" /\ pipe[r] = <<"text.delta">>
      /\ pipe' = [pipe EXCEPT ![r] = <<>>]
      /\ log[r] \in Seq(EventType) /\ runner[r] \in Runner
      /\ exec[r].parts \in Nat /\ runner[r].left \in Nat /\ MaxChunks \in Nat
      /\ exec[r].parts = Cardinality(Deltas(log[r]))
      /\ exec[r].parts + Coming(runner[r], pipe[r]) <= MaxChunks
  BY Reception DEF ReceiveDelta
<1>3. /\ runner' = [runner EXCEPT ![r] = runner[r]]
      /\ UNCHANGED <<status, messages, handlers, up, crashes>>
  BY RowOf, Same DEF ReceiveDelta
<1>4. CASE /\ AppendEvent(r, "text.delta")
           /\ exec' = [exec EXCEPT ![r].parts = @ + 1]
  <2> DEFINE x == [exec[r] EXCEPT !.parts = @ + 1]
             l == Append(log[r], "text.delta")
  <2>1. exec[r].parts + runner[r].left + 1 <= MaxChunks
    BY <1>2 DEF Coming
  <2>2. exec[r].parts + 1 \in 0 .. MaxChunks /\ exec[r].parts + 1 + runner[r].left <= MaxChunks
    BY <1>2, <2>1
  <2>3. x \in Exec
    BY <1>2, <2>2, ExecFields
  <2>4. /\ x.pc = "stream" /\ x.at = exec[r].at /\ x.live = exec[r].live
        /\ x.parts = exec[r].parts + 1
    BY <1>2 DEF Exec
  <2>5. "text.delta" \in EventType \ TerminalEvent
    BY DEF EventType, TerminalEvent
  <2>6. l \in Seq(EventType) /\ Cardinality(Deltas(l)) = Cardinality(Deltas(log[r])) + 1
    BY <1>2, <2>5, DeltasOfAppend
  <2>7. /\ exec' = [exec EXCEPT ![r] = x] /\ log' = [log EXCEPT ![r] = l]
        /\ status[r] \notin Terminal
    BY <1>4 DEF AppendEvent
  <2> HIDE DEF x, l
  <2>8. Coming(runner[r], <<>>) = runner[r].left
    BY <1>2 DEF Coming
  <2>9. Streams(l, x, runner[r], <<>>)
    BY <1>2, <2>2, <2>4, <2>6, <2>8, RowOf DEF Streams
  <2>10. l = log[r] \/ (status[r] \notin Terminal /\ l = Append(log[r], "text.delta"))
    BY <2>7 DEF l
  <2> QED
    BY <1>1, <1>2, <1>3, <2>3, <2>4, <2>5, <2>6, <2>7, <2>9, <2>10, GoesOn
<1>5. CASE GiveUpAndCancel(r, "failed") /\ UNCHANGED log
  <2>1. UNCHANGED <<table, runner, handlers, up, crashes>>
    BY <1>5 DEF ReceiveDelta, table
  <2> QED
    BY <1>1, <1>2, <1>5, <2>1, GivesUp
<1> QED
  BY <1>4, <1>5 DEF ReceiveDelta

LEMMA ReceiveNoticeStep ==
    ASSUME Inv, NEW r \in Runs, ReceiveNotice(r)
    PROVE  Inv'
<1>1. errors' \in 0 .. MaxErrors
  BY Errors DEF ReceiveNotice
<1>2. /\ exec[r] \in Exec /\ exec[r].pc = "stream" /\ pipe[r] = <<"run.status">>
      /\ pipe' = [pipe EXCEPT ![r] = <<>>]
      /\ log[r] \in Seq(EventType) /\ runner[r] \in Runner
      /\ exec[r].parts = Cardinality(Deltas(log[r]))
      /\ exec[r].parts + Coming(runner[r], pipe[r]) <= MaxChunks
  BY Reception DEF ReceiveNotice
<1>3. /\ runner' = [runner EXCEPT ![r] = runner[r]]
      /\ UNCHANGED <<status, messages, handlers, up, crashes>>
  BY RowOf, Same DEF ReceiveNotice
<1>4. CASE AppendEvent(r, "run.status") /\ UNCHANGED exec
  <2> DEFINE l == Append(log[r], "run.status")
  <2>1. "run.status" \in EventType \ TerminalEvent
    BY DEF EventType, TerminalEvent
  <2>2. l \in Seq(EventType) /\ Cardinality(Deltas(l)) = Cardinality(Deltas(log[r]))
    BY <1>2, <2>1, DeltasOfAppend
  <2>3. /\ exec' = [exec EXCEPT ![r] = exec[r]] /\ log' = [log EXCEPT ![r] = l]
        /\ status[r] \notin Terminal
    BY <1>4, RowOf, Same DEF AppendEvent
  <2> HIDE DEF l
  <2>4. Coming(runner[r], <<>>) = Coming(runner[r], pipe[r])
    BY <1>2 DEF Coming
  <2>5. Streams(l, exec[r], runner[r], <<>>)
    BY <1>2, <2>2, <2>4, RowOf DEF Streams
  <2>6. l = log[r] \/ (status[r] \notin Terminal /\ l = Append(log[r], "run.status"))
    BY <2>3 DEF l
  <2> QED
    BY <1>1, <1>2, <1>3, <2>1, <2>2, <2>3, <2>5, <2>6, GoesOn
<1>5. CASE GiveUp(r, "failed") /\ UNCHANGED log
  <2>1. UNCHANGED <<table, runner, handlers, up, crashes>>
    BY <1>5 DEF ReceiveNotice, table
  <2> QED
    BY <1>1, <1>2, <1>5, <2>1, GivesUp
<1> QED
  BY <1>4, <1>5 DEF ReceiveNotice

LEMMA ReceiveEndStep ==
    ASSUME Inv, NEW r \in Runs, ReceiveEnd(r)
    PROVE  Inv'
<1>1. errors' \in 0 .. MaxErrors
  BY Typing DEF Inv, ReceiveEnd
<1>2. UNCHANGED <<table, runner, handlers, up, crashes>>
  BY DEF ReceiveEnd
<1>3. CASE \E e \in {"canceled"} : Received(r, e) /\ Exit(r)
  <2>1. exec[r].pc = "stream" /\ pipe' = [pipe EXCEPT ![r] = <<>>]
    BY <1>3 DEF Received
  <2> QED
    BY <1>1, <1>2, <1>3, <2>1, Exits
<1>4. CASE \E v \in {"failed", "timed_out"} :
              GiveUp(r, v) /\ exec[r].pc = "stream" /\ pipe' = [pipe EXCEPT ![r] = <<>>]
  BY <1>1, <1>2, <1>4, GivesUp
<1>5. CASE Received(r, "completed") /\ Goto(r, "complete")
  <2> DEFINE x == [exec[r] EXCEPT !.pc = "complete"]
  <2>1. /\ exec[r] \in Exec /\ exec[r].pc = "stream"
        /\ pipe' = [pipe EXCEPT ![r] = <<>>]
        /\ log[r] \in Seq(EventType) /\ runner[r] \in Runner
        /\ exec[r].parts = Cardinality(Deltas(log[r]))
    BY <1>5, Reception
  <2>2. x \in Exec
    BY <2>1, ExecFields
  <2>3. /\ x.pc = "complete" /\ x.at = exec[r].at /\ x.live = exec[r].live
        /\ x.parts = exec[r].parts
    BY <2>1 DEF Exec
  <2>4. exec' = [exec EXCEPT ![r] = x]
    BY <1>5 DEF Goto
  <2>5. /\ log' = [log EXCEPT ![r] = log[r]] /\ runner' = [runner EXCEPT ![r] = runner[r]]
        /\ UNCHANGED <<status, messages, handlers, up, crashes>>
    BY <1>2, RowOf, Same DEF table
  <2> HIDE DEF x
  <2>6. Streams(log[r], x, runner[r], <<>>)
    BY <2>1, <2>3, RowOf DEF Streams
  <2>7. "run.status" \in EventType \ TerminalEvent
    BY DEF EventType, TerminalEvent
  <2> QED
    BY <1>1, <2>1, <2>2, <2>3, <2>4, <2>5, <2>6, <2>7, GoesOn
<1> QED
  BY <1>3, <1>4, <1>5 DEF ReceiveEnd, Received

LEMMA FailRunStep ==
    ASSUME Inv, NEW r \in Runs, FailRun(r)
    PROVE  Inv'
<1>1. errors' \in 0 .. MaxErrors
  BY Errors DEF FailRun
<1>2. /\ exec[r] \in Exec /\ exec[r].pc = "fail" /\ log[r] \in Seq(EventType)
      /\ status[r] \in Statuses /\ Exit(r)
  BY RowOf DEF Typed, FailRun
<1>3. /\ runner' = [runner EXCEPT ![r] = runner[r]] /\ pipe' = [pipe EXCEPT ![r] = pipe[r]]
      /\ UNCHANGED <<messages, runner, handlers, up, crashes>>
  BY RowOf, Same DEF FailRun
<1> DEFINE v == exec[r].verdict
           l == Append(log[r], EventOf(v))
<1>4. CASE status[r] \in Active /\ Recorded(r, v, EventOf(v))
  <2>1. v \in {"failed", "timed_out"}
    BY <1>2, RowOf DEF Streams, Exec
  <2>2. EventOf(v) \in EventType /\ v \in Terminal /\ v \in Statuses /\ v # "none" /\ v # "completed"
    BY <2>1 DEF EventOf, EventType, TerminalEvent, Terminal, Statuses
  <2>3. status[r] \notin Terminal /\ status[r] # "completed" /\ v \notin Active
    BY <1>4, <2>1 DEF Active, Terminal
  <2> HIDE DEF v
  <2>4. l \in Seq(EventType) /\ LogFits(v, l)
    BY <1>2, <2>2, <2>3, RowOf, LogGrows
  <2> HIDE DEF l
  <2>5. Row(v, l, Ended(exec[r]), runner[r], pipe[r], cancelling[r], cancelled[r])
    <3>1. Row(status[r], log[r], exec[r], runner[r], pipe[r], cancelling[r], cancelled[r])
      BY RowOf
    <3> QED
      BY <1>2, <2>2, <2>4, <3>1, ExitRow
  <2>6. /\ status' = [status EXCEPT ![r] = v] /\ log' = [log EXCEPT ![r] = l]
        /\ exec' = [exec EXCEPT ![r] = Ended(exec[r])]
    BY <1>2, <1>4 DEF Recorded, Exit, Ended, l
  <2> QED
    BY <1>1, <1>3, <2>2, <2>3, <2>5, <2>6, GoroutineStep
<1>5. CASE UNCHANGED <<status, log>>
  BY <1>1, <1>2, <1>3, <1>5, Exits DEF table
<1> QED
  BY <1>4, <1>5 DEF FailRun

-----------------------------------------------------------------------------
(* Cancellation *)

LEMMA CancelRunStep ==
    ASSUME Inv, NEW r \in Runs, NEW i \in Instances, CancelRun(i, r)
    PROVE  Inv'
<1> DEFINE l == Append(log[r], "run.cancelled")
<1>1. /\ log[r] \in Seq(EventType) /\ status[r] \in Statuses \ Terminal
      /\ status[r] # "none" /\ status[r] # "completed"
      /\ cancelled[r] = {}
  BY RowOf DEF CancelRun, Typed, Cancels, Active, Terminal
<1>2. /\ "run.cancelled" \in EventType /\ "run.cancelled" = EventOf("cancelled")
      /\ "cancelled" \in Terminal /\ "cancelled" \in Statuses /\ "cancelled" \notin Active
  BY DEF EventType, TerminalEvent, EventOf, Terminal, Statuses, Active
<1>3. /\ l \in Seq(EventType) /\ LogFits("cancelled", l)
      /\ Cardinality(Deltas(l)) = Cardinality(Deltas(log[r]))
  BY <1>1, <1>2, RowOf, LogGrows, DeltasOfAppend
<1>4. /\ status' = [status EXCEPT ![r] = "cancelled"] /\ log' = [log EXCEPT ![r] = l]
      /\ cancelling' = [cancelling EXCEPT ![r] = i]
  BY DEF CancelRun, Recorded
<1> HIDE DEF l
<1>5. Becomes(r, "cancelled", l, exec[r], runner[r], pipe[r], i, cancelled[r])
  BY <1>4, RowOf, Same DEF CancelRun, Becomes
<1>6. Typed("cancelled", l, exec[r], runner[r], pipe[r], i, cancelled[r])
  BY <1>2, <1>3, RowOf DEF Typed
<1>7. Streams(l, exec[r], runner[r], pipe[r])
  BY <1>3, RowOf DEF Streams
<1>8. Cancels("cancelled", exec[r], runner[r], pipe[r], i, cancelled[r])
  BY <1>1, <1>2 DEF Cancels
<1>9. Row("cancelled", l, exec[r], runner[r], pipe[r], i, cancelled[r])
  BY <1>3, <1>6, <1>7, <1>8 DEF Row
<1>10. UNCHANGED <<messages, up, crashes>> /\ errors' \in 0 .. MaxErrors
  BY Typing DEF CancelRun, Inv
<1> QED
  BY <1>1, <1>2, <1>5, <1>9, <1>10, Silent

\* The second half reaches a goroutine that is registered; one that is not finds
\* the run cancelled when it starts it.
LEMMA CancelContextStep ==
    ASSUME Inv, NEW r \in Runs, CancelContext(r)
    PROVE  Inv'
<1> DEFINE i == cancelling[r]
           x == IF Registered(r) /\ exec[r].at = i
                THEN [exec[r] EXCEPT !.live = FALSE] ELSE exec[r]
           d == cancelled[r] \union {i}
<1>1. /\ i \in Instances /\ status[r] \in Terminal /\ exec[r] \in Exec
      /\ cancelled[r] \in SUBSET Instances
  BY RowOf DEF CancelContext, Typed, Cancels
<1>2. x \in Exec
  BY <1>1, ExecFields
<1>3. /\ x.pc = exec[r].pc /\ x.at = exec[r].at /\ x.parts = exec[r].parts
      /\ x.verdict = exec[r].verdict /\ (x.live => exec[r].live)
      /\ x.at = i /\ x.live => x.pc \in {"off", "new"}
  BY <1>1 DEF Exec, Registered
<1>4. exec' = [exec EXCEPT ![r] = x]
  BY RowOf, Same DEF CancelContext
<1>5. /\ cancelling' = [cancelling EXCEPT ![r] = Nobody]
      /\ cancelled' = [cancelled EXCEPT ![r] = d]
  BY DEF CancelContext
<1> HIDE DEF x
<1>6. Becomes(r, status[r], log[r], x, runner[r], pipe[r], Nobody, d)
  BY <1>4, <1>5, RowOf, Same DEF CancelContext, Becomes, table
<1>7. Typed(status[r], log[r], x, runner[r], pipe[r], Nobody, d)
  BY <1>1, <1>2, RowOf DEF Typed
<1>8. Streams(log[r], x, runner[r], pipe[r])
  BY <1>3, RowOf DEF Streams
<1>9. Cancels(status[r], x, runner[r], pipe[r], Nobody, d)
  BY <1>1, <1>3, RowOf DEF Cancels, Streams, Terminal
<1>10. Row(status[r], log[r], x, runner[r], pipe[r], Nobody, d)
  BY <1>7, <1>8, <1>9, RowOf DEF Row
<1>11. UNCHANGED <<messages, up, crashes>> /\ errors' \in 0 .. MaxErrors
  BY Typing DEF CancelContext, Inv, table
<1> HIDE DEF d
<1> QED
  BY <1>6, <1>10, <1>11, Outside

\* A cancellation that cannot read the run back leaves the goroutine alone.
LEMMA RereadFailsStep ==
    ASSUME Inv, NEW r \in Runs, RereadFails(r)
    PROVE  Inv'
<1>1. Becomes(r, status[r], log[r], exec[r], runner[r], pipe[r], Nobody, cancelled[r])
  BY RowOf, Same DEF RereadFails, Becomes, table
<1>2. Typed(status[r], log[r], exec[r], runner[r], pipe[r], Nobody, cancelled[r])
  BY RowOf DEF Typed
<1>3. Cancels(status[r], exec[r], runner[r], pipe[r], Nobody, cancelled[r])
  BY RowOf DEF Cancels
<1>4. Row(status[r], log[r], exec[r], runner[r], pipe[r], Nobody, cancelled[r])
  BY <1>2, <1>3, RowOf DEF Row
<1>5. UNCHANGED <<messages, up, crashes>> /\ errors' \in 0 .. MaxErrors
  BY Errors DEF RereadFails, table
<1> QED
  BY <1>1, <1>4, <1>5, Outside

-----------------------------------------------------------------------------
(* The steps that add a message *)

\* A message at the end of a session answers its run only, and the messages
\* before it stay where they are.
LEMMA AppendedMessage ==
    ASSUME NEW ms \in Seq(Message), NEW m \in Message
    PROVE  /\ Append(ms, m) \in Seq(Message) /\ Append(ms, m) # <<>>
           /\ Len(Append(ms, m)) = Len(ms) + 1 /\ Len(ms) \in Nat
           /\ Append(ms, m)[Len(ms) + 1] = m
           /\ \A n \in 1 .. Len(ms) : Append(ms, m)[n] = ms[n]
           /\ \A q : m.run # q \/ m.role # "assistant" =>
                     Answers(Append(ms, m), q) = Answers(ms, q)
           /\ m.role = "assistant" =>
                 Answers(Append(ms, m), m.run) = Answers(ms, m.run) \union {Len(ms) + 1}
<1>1. /\ Append(ms, m) \in Seq(Message) /\ Append(ms, m) # <<>>
      /\ Len(Append(ms, m)) = Len(ms) + 1 /\ Len(ms) \in Nat
      /\ Append(ms, m)[Len(ms) + 1] = m
      /\ \A n \in 1 .. Len(ms) : Append(ms, m)[n] = ms[n]
  OBVIOUS
<1>2. 1 .. Len(Append(ms, m)) = (1 .. Len(ms)) \union {Len(ms) + 1}
  BY <1>1
<1>3. ASSUME NEW q, m.run # q \/ m.role # "assistant"
      PROVE  Answers(Append(ms, m), q) = Answers(ms, q)
  BY <1>1, <1>2, <1>3 DEF Answers
<1>4. ASSUME m.role = "assistant"
      PROVE  Answers(Append(ms, m), m.run) = Answers(ms, m.run) \union {Len(ms) + 1}
  BY <1>1, <1>2, <1>4 DEF Answers
<1> QED
  BY <1>1, <1>3, <1>4

\* A turn is added where no other run of the session is active.
LEMMA Speaks ==
    ASSUME Inv, NEW r \in Runs,
           NEW s, NEW l, NEW x, NEW u, NEW p, NEW c, NEW d,
           Row(s, l, x, u, p, c, d), Becomes(r, s, l, x, u, p, c, d),
           \A q \in Runs \ {r} : q[1] = r[1] => status[q] \notin Active,
           NEW m \in Message, m.run = r,
           m.role = "assistant" =>
              messages[r[1]] # <<>> /\ messages[r[1]][Len(messages[r[1]])] = Question(r),
           messages' = [messages EXCEPT ![r[1]] = Append(@, m)],
           Answered(s, l, Append(messages[r[1]], m), r),
           Asked(s, Append(messages[r[1]], m), r),
           UNCHANGED <<up, crashes>>, errors' \in 0 .. MaxErrors
    PROVE  Inv'
<1>1. Tables /\ Rows /\ messages \in [Sessions -> Seq(Message)] /\ r[1] \in Sessions
  BY Typing DEF Inv, Runs
<1>2. Tables' /\ Rows'
  BY <1>1, OneRow
<1> DEFINE ms == messages[r[1]]
           ms2 == Append(ms, m)
<1>3. ms \in Seq(Message)
  BY <1>1
<1>4. /\ ms2 \in Seq(Message) /\ Len(ms2) = Len(ms) + 1 /\ Len(ms) \in Nat
      /\ ms2[Len(ms) + 1] = m /\ \A n \in 1 .. Len(ms) : ms2[n] = ms[n]
  BY <1>3, AppendedMessage
<1>5. \A q \in Runs \ {r} : Answers(ms2, q) = Answers(ms, q)
  BY <1>3, AppendedMessage
<1>6. /\ messages' \in [Sessions -> Seq(Message)] /\ messages'[r[1]] = ms2
      /\ \A z \in Sessions \ {r[1]} : messages'[z] = messages[z]
  BY <1>1, <1>4
<1> HIDE DEF ms2
<1>7. TypeOK'
  <2>1. up' \subseteq Instances /\ crashes' \in 0 .. MaxCrashes
    BY Typing DEF Inv
  <2> QED
    BY <1>2, <1>6, <2>1 DEF TypeOK, Tables, Statuses
<1>8. /\ status'[r] = s /\ log'[r] = l
      /\ \A q \in Runs \ {r} : status'[q] = status[q] /\ log'[q] = log[q]
  BY <1>1 DEF Becomes, Tables
<1>9. ASSUME NEW q \in Runs
      PROVE  /\ Answered(status'[q], log'[q], messages'[q[1]], q)
             /\ Asked(status'[q], messages'[q[1]], q)
  <2>1. /\ Answered(status[q], log[q], messages[q[1]], q)
        /\ Asked(status[q], messages[q[1]], q)
    BY DEF Inv, Talks
  <2>2. q[1] \in Sessions
    BY DEF Runs
  <2>3. CASE q = r
    BY <1>6, <1>8, <2>3 DEF ms2
  <2>4. CASE q # r /\ q[1] # r[1]
    BY <1>6, <1>8, <2>1, <2>2, <2>4
  <2>5. CASE q # r /\ q[1] = r[1]
    <3>1. status'[q] = status[q] /\ log'[q] = log[q] /\ messages'[q[1]] = ms2
          /\ status[q] \notin Active
      BY <1>6, <1>8, <2>5
    <3>2. Answered(status[q], log[q], ms2, q)
      <4>1. Answered(status[q], log[q], ms, q)
        BY <2>1, <2>5
      <4>2. Answers(ms2, q) = Answers(ms, q)
        BY <1>5, <2>5
      <4>3. \A n \in 1 .. Len(ms) : n \in 1 .. Len(ms2) /\ ms2[n] = ms[n]
        BY <1>4
      <4> HIDE DEF ms
      <4> QED
        BY <4>1, <4>2, <4>3 DEF Answered
    <3> QED
      BY <3>1, <3>2 DEF Asked
  <2> QED
    BY <2>3, <2>4, <2>5
<1>10. ASSUME NEW z \in Sessions
       PROVE  Follows(messages'[z])
  <2>1. Follows(messages[z])
    BY DEF Inv, TurnsDoNotInterleave, Follows
  <2>2. CASE z # r[1]
    BY <1>6, <2>1, <2>2
  <2>3. CASE z = r[1]
    <3>1. ASSUME NEW n \in 1 .. Len(ms2), ms2[n].role = "assistant"
          PROVE  n > 1 /\ ms2[n - 1] = Question(ms2[n].run)
      <4>1. CASE n \in 1 .. Len(ms)
        <5>1. ms2[n] = ms[n] /\ n > 1 /\ ms[n - 1] = Question(ms[n].run)
          BY <1>4, <2>1, <2>3, <3>1, <4>1 DEF Follows
        <5>2. n - 1 \in 1 .. Len(ms)
          BY <1>4, <4>1, <5>1
        <5> QED
          BY <1>4, <5>1, <5>2
      <4>2. CASE n = Len(ms) + 1
        <5>1. m.role = "assistant" /\ m.run = r
          BY <1>4, <3>1, <4>2
        <5>2. ms # <<>> /\ ms[Len(ms)] = Question(r)
          BY <5>1
        <5>3. Len(ms) \in 1 .. Len(ms)
          BY <1>3, <5>2
        <5>4. ms2[Len(ms)] = Question(r)
          BY <1>4, <5>2, <5>3
        <5> QED
          BY <1>4, <4>2, <5>1, <5>3, <5>4
      <4> QED
        BY <1>4, <4>1, <4>2
    <3> QED
      BY <1>6, <2>3, <3>1 DEF Follows
  <2> QED
    BY <2>2, <2>3
<1>11. TurnsDoNotInterleave'
  BY <1>10 DEF TurnsDoNotInterleave, Follows
<1> QED
  BY <1>2, <1>7, <1>9, <1>11, Zenon DEF Inv, Talks

LEMMA CreateRunStep ==
    ASSUME Inv, NEW r \in Runs, NEW i \in Instances, CreateRun(i, r)
    PROVE  Inv'
<1> DEFINE x == [NoExec EXCEPT !.pc = "new", !.at = i, !.live = TRUE]
           l == Append(log[r], "run.queued")
           ms == messages[r[1]]
<1>1. status[r] = "none" /\ NoneActive(r[1]) /\ Insert(r)
  BY DEF CreateRun, CanCreate
<1>2. /\ exec[r] = NoExec /\ runner[r] = NoRunner /\ pipe[r] = <<>>
      /\ cancelling[r] = Nobody /\ cancelled[r] = {} /\ log[r] = <<>>
      /\ log[r] \in Seq(EventType)
  BY <1>1, RowOf DEF Cancels, LogFits, Typed
<1>3. /\ "run.queued" \in EventType \ TerminalEvent /\ "queued" \in Statuses \ Terminal
      /\ "none" \in Statuses \ Terminal /\ "queued" \in Active /\ "none" \notin Active
  BY DEF EventType, TerminalEvent, Statuses, Active, Terminal
<1>4. x \in Exec /\ x.pc = "new" /\ x.parts = 0
  BY Empty, ExecFields DEF NoExec
<1>5. l \in Seq(EventType) /\ LogFits("queued", l)
  <2>1. LogFits("none", log[r]) /\ log[r] \in Seq(EventType)
    BY <1>1, RowOf DEF Typed
  <2>2. l \in Seq(EventType)
    BY <1>3, <2>1
  <2>3. LogFits("queued", l)
    BY <1>3, <2>1, LogGrows
  <2> QED
    BY <2>2, <2>3
<1>6. Cardinality(Deltas(l)) = 0
  <2>1. Deltas(log[r]) = {}
    BY <1>2 DEF Deltas
  <2>2. Deltas(l) = Deltas(log[r])
    BY <1>2, <1>3, DeltasOfAppend
  <2> QED
    BY <2>1, <2>2, FS_EmptySet
<1>7. /\ status' = [status EXCEPT ![r] = "queued"] /\ log' = [log EXCEPT ![r] = l]
      /\ exec' = [exec EXCEPT ![r] = x]
      /\ messages' = [messages EXCEPT ![r[1]] = Append(@, Question(r))]
      /\ UNCHANGED <<runner, pipe, handlers, up, crashes, errors>>
  BY <1>1 DEF CreateRun, Insert, Recorded
<1> HIDE DEF x, l
<1>8. Becomes(r, "queued", l, x, runner[r], pipe[r], cancelling[r], cancelled[r])
  BY <1>7, RowOf, Same DEF Becomes, handlers
<1>9. Typed("queued", l, x, runner[r], pipe[r], cancelling[r], cancelled[r])
  BY <1>3, <1>4, <1>5, RowOf DEF Typed
<1>10. Streams(l, x, runner[r], pipe[r])
  BY <1>2, <1>4, <1>6 DEF Streams, NoRunner
<1>11. Cancels("queued", x, runner[r], pipe[r], cancelling[r], cancelled[r])
  BY <1>2 DEF Cancels
<1>12. Row("queued", l, x, runner[r], pipe[r], cancelling[r], cancelled[r])
  BY <1>5, <1>9, <1>10, <1>11 DEF Row
<1>13. ASSUME NEW q \in Runs, q[1] = r[1]
       PROVE  status[q] \notin Active
  <2>1. q = <<r[1], q[2]>> /\ q[2] \in Keys
    BY <1>13 DEF Runs
  <2> QED
    BY <1>1, <2>1 DEF NoneActive
<1>14. Question(r) \in Message /\ Question(r).run = r /\ Question(r).role = "user"
  BY DEF Question, Message
<1>15. ms \in Seq(Message)
  BY Typing DEF Inv, Runs
<1>16. Answered("queued", l, Append(ms, Question(r)), r)
  <2>1. Answers(ms, r) = {}
    BY <1>1 DEF Inv, Talks, Answered
  <2>2. Answers(Append(ms, Question(r)), r) = Answers(ms, r)
    BY <1>14, <1>15, AppendedMessage
  <2> QED
    BY <2>1, <2>2 DEF Answered
<1>17. Asked("queued", Append(ms, Question(r)), r)
  BY <1>14, <1>15, AppendedMessage DEF Asked
<1>18. errors' \in 0 .. MaxErrors
  BY <1>7, Typing DEF Inv
<1> QED
  BY <1>7, <1>8, <1>12, <1>13, <1>14, <1>16, <1>17, <1>18, Speaks

LEMMA CompleteRunStep ==
    ASSUME Inv, NEW r \in Runs, CompleteRun(r)
    PROVE  Inv'
<1>1. errors' \in 0 .. MaxErrors
  BY Errors DEF CompleteRun
<1>2. /\ exec[r] \in Exec /\ exec[r].pc = "complete" /\ log[r] \in Seq(EventType)
      /\ exec[r].parts = Cardinality(Deltas(log[r])) /\ exec[r].parts \in Nat
  BY RowOf, ChatAssumption DEF Typed, Streams, CompleteRun, Exec, ChatAssumption
<1>3. /\ runner' = [runner EXCEPT ![r] = runner[r]] /\ pipe' = [pipe EXCEPT ![r] = pipe[r]]
      /\ UNCHANGED <<runner, handlers, up, crashes>>
  BY RowOf, Same DEF CompleteRun
<1> DEFINE m == [run |-> r, role |-> "assistant", parts |-> exec[r].parts]
           l == Append(log[r], "run.completed")
           ms == messages[r[1]]
<1>4. CASE /\ Completable(r) /\ Recorded(r, "completed", "run.completed")
           /\ messages' = [messages EXCEPT ![r[1]] = Append(@, m)]
           /\ Exit(r)
  <2>1. status[r] = "running" /\ status[r] \in Active
    BY <1>4 DEF Completable, Active
  <2>2. /\ "run.completed" \in EventType /\ "run.completed" = EventOf("completed")
        /\ "completed" \in Terminal /\ "completed" \in Statuses
        /\ "running" \in Statuses \ Terminal
    BY DEF EventType, TerminalEvent, EventOf, Terminal, Statuses, Active
  <2>3. l \in Seq(EventType) /\ LogFits("completed", l) /\ Deltas(l) = Deltas(log[r])
    BY <1>2, <2>1, <2>2, RowOf, LogGrows, DeltasOfAppend
  <2>4. /\ status' = [status EXCEPT ![r] = "completed"] /\ log' = [log EXCEPT ![r] = l]
        /\ exec' = [exec EXCEPT ![r] = Ended(exec[r])]
    BY <1>4 DEF Recorded, Exit, Ended
  <2> HIDE DEF l
  <2>5. Row("completed", l, Ended(exec[r]), runner[r], pipe[r], cancelling[r], cancelled[r])
    <3>1. Row(status[r], log[r], exec[r], runner[r], pipe[r], cancelling[r], cancelled[r])
      BY RowOf
    <3> QED
      BY <1>2, <2>2, <2>3, <3>1, ExitRow
  <2>6. Becomes(r, "completed", l, Ended(exec[r]), runner[r], pipe[r],
                cancelling[r], cancelled[r])
    BY <1>3, <2>4, RowOf, Same DEF Becomes, handlers
  <2>7. ms # <<>> /\ ms[Len(ms)] = Question(r)
    BY <2>1 DEF Inv, Talks, Asked
  <2>8. ASSUME NEW q \in Runs \ {r}, q[1] = r[1]
        PROVE  status[q] \notin Active
    <3>1. status[q] \in Active => ms[Len(ms)] = Question(q)
      BY <2>8 DEF Inv, Talks, Asked
    <3>2. Question(q) # Question(r)
      <4>1. Question(q).run = q /\ Question(r).run = r
        BY DEF Question
      <4> QED
        BY <4>1
    <3> QED
      BY <2>7, <3>1, <3>2
  <2>9. m \in Message /\ m.run = r /\ m.role = "assistant" /\ m.parts = exec[r].parts
    BY <1>2 DEF Message
  <2>10. messages' = [messages EXCEPT ![r[1]] = Append(@, m)]
    BY <1>4
  <2> HIDE DEF m
  <2>11. ms \in Seq(Message)
    BY Typing DEF Inv, Runs
  <2>12. Answered("completed", l, Append(ms, m), r)
    <3>1. Answers(ms, r) = {}
      BY <2>1 DEF Inv, Talks, Answered
    <3>2. Answers(Append(ms, m), r) = {Len(ms) + 1}
      <4> HIDE DEF ms
      <4>1. Answers(Append(ms, m), r) = Answers(ms, r) \union {Len(ms) + 1}
        BY <2>9, <2>11, AppendedMessage
      <4> QED
        BY <3>1, <4>1
    <3>3. /\ Len(ms) + 1 \in 1 .. Len(Append(ms, m))
          /\ Append(ms, m)[Len(ms) + 1] = m
      BY <2>9, <2>11, AppendedMessage
    <3> QED
      BY <1>2, <2>3, <2>9, <3>2, <3>3 DEF Answered
  <2>13. Asked("completed", Append(ms, m), r)
    BY DEF Asked, Active
  <2> QED
    BY <1>1, <1>3, <2>5, <2>6, <2>7, <2>8, <2>9, <2>10, <2>12, <2>13, Speaks
<1>5. CASE GiveUp(r, "failed") /\ UNCHANGED table
  BY <1>1, <1>2, <1>3, <1>5, GivesUp
<1> QED
  BY <1>4, <1>5 DEF CompleteRun

-----------------------------------------------------------------------------
(* Processes *)

\* The goroutines, runners and channels of a process that dies vanish; the tables
\* stay.
LEMMA CrashStep ==
    ASSUME Inv, NEW i \in Instances, Crash(i)
    PROVE  Inv'
<1>1. UNCHANGED <<status, log, messages, cancelled, errors>>
  BY DEF Crash, table
<1>2. ASSUME NEW r \in Runs
      PROVE  Row(status[r], log[r], exec'[r], runner'[r], pipe'[r], cancelling'[r], cancelled[r])
  <2>1. \/ exec'[r] = NoExec /\ runner'[r] = NoRunner /\ pipe'[r] = <<>>
        \/ exec'[r] = exec[r] /\ runner'[r] = runner[r] /\ pipe'[r] = pipe[r]
    BY DEF Crash
  <2>2. cancelling'[r] = Nobody \/ cancelling'[r] = cancelling[r]
    BY DEF Crash
  <2>3. Typed(status[r], log[r], exec'[r], runner'[r], pipe'[r], cancelling'[r], cancelled[r])
    BY <2>1, <2>2, RowOf, Empty DEF Typed
  <2>4. Streams(log[r], exec'[r], runner'[r], pipe'[r])
    BY <2>1, RowOf DEF Streams, NoExec, NoRunner
  <2>5. Cancels(status[r], exec'[r], runner'[r], pipe'[r], cancelling'[r], cancelled[r])
    <3>1. Cancels(status[r], exec[r], runner[r], pipe[r], cancelling[r], cancelled[r])
      BY RowOf
    <3>2. ~NoExec.live
      BY DEF NoExec
    <3> QED
      BY <2>1, <2>2, <3>1, <3>2 DEF Cancels
  <2> QED
    BY <2>3, <2>4, <2>5, RowOf DEF Row
<1>3. Rows'
  BY <1>1, <1>2, Zenon DEF Rows
<1>4. TypeOK'
  <2>1. \A r \in Runs : Typed(status[r], log[r], exec'[r], runner'[r], pipe'[r],
                              cancelling'[r], cancelled[r])
    BY <1>2 DEF Row
  <2>2. exec' \in [Runs -> Exec] /\ runner' \in [Runs -> Runner]
    BY <2>1 DEF Typed, Crash
  <2>3. /\ pipe' \in [Runs -> {<<>>} \union {<<e>> : e \in Sent}]
        /\ cancelling' \in [Runs -> Instances \union {Nobody}]
    BY <2>1 DEF Typed, Crash
  <2>4. up' \subseteq Instances /\ crashes' \in 0 .. MaxCrashes
    BY Typing, ChatAssumption DEF Inv, Crash, ChatAssumption
  <2> QED
    BY <1>1, <2>2, <2>3, <2>4 DEF Inv, TypeOK
<1>5. Talks' /\ TurnsDoNotInterleave'
  BY <1>1 DEF Inv, Talks, TurnsDoNotInterleave
<1> QED
  BY <1>3, <1>4, <1>5 DEF Inv

\* InterruptRunning ends every run that has not ended, whoever executes it.
LEMMA StartStep ==
    ASSUME Inv, NEW i \in Instances, Start(i)
    PROVE  Inv'
<1>1. UNCHANGED <<messages, exec, runner, pipe, cancelling, cancelled, crashes, errors>>
  BY DEF Start, handlers
<1>2. /\ "run.interrupted" \in EventType /\ "run.interrupted" = EventOf("interrupted")
      /\ "interrupted" \in Terminal /\ "interrupted" \in Statuses
      /\ "interrupted" # "completed" /\ "interrupted" \notin Active
  BY DEF EventType, TerminalEvent, EventOf, Terminal, Statuses, Active
<1>3. ASSUME NEW r \in Runs
      PROVE  /\ Row(status'[r], log'[r], exec[r], runner[r], pipe[r], cancelling[r], cancelled[r])
             /\ Answered(status'[r], log'[r], messages[r[1]], r)
             /\ Asked(status'[r], messages[r[1]], r)
  <2>1. /\ Answered(status[r], log[r], messages[r[1]], r)
        /\ Asked(status[r], messages[r[1]], r)
    BY DEF Inv, Talks
  <2>2. CASE status[r] \in Active
    <3> DEFINE l == Append(log[r], "run.interrupted")
    <3>1. status'[r] = "interrupted" /\ log'[r] = l
      BY <2>2 DEF Start, LeftOver
    <3>2. /\ status[r] \in Statuses \ Terminal /\ status[r] # "completed"
          /\ log[r] \in Seq(EventType)
      BY <2>2, RowOf DEF Typed, Active, Terminal
    <3>3. /\ l \in Seq(EventType) /\ LogFits("interrupted", l)
          /\ Deltas(l) = Deltas(log[r])
      BY <1>2, <3>2, RowOf, LogGrows, DeltasOfAppend
    <3> HIDE DEF l
    <3>4. Typed("interrupted", l, exec[r], runner[r], pipe[r], cancelling[r], cancelled[r])
      BY <1>2, <3>3, RowOf DEF Typed
    <3>5. Streams(l, exec[r], runner[r], pipe[r])
      BY <3>3, RowOf DEF Streams
    <3>6. Cancels("interrupted", exec[r], runner[r], pipe[r], cancelling[r], cancelled[r])
      BY <1>2, RowOf DEF Cancels
    <3>7. Row("interrupted", l, exec[r], runner[r], pipe[r], cancelling[r], cancelled[r])
      BY <3>3, <3>4, <3>5, <3>6 DEF Row
    <3>8. Answered("interrupted", l, messages[r[1]], r)
      BY <1>2, <2>1, <3>2 DEF Answered
    <3>9. Asked("interrupted", messages[r[1]], r)
      BY <1>2 DEF Asked
    <3> QED
      BY <3>1, <3>7, <3>8, <3>9
  <2>3. CASE status[r] \notin Active
    <3>1. status'[r] = status[r] /\ log'[r] = log[r]
      BY <2>3 DEF Start, LeftOver
    <3> QED
      BY <2>1, <3>1, RowOf
  <2> QED
    BY <2>2, <2>3
<1>4. Rows' /\ Talks'
  BY <1>1, <1>3, Zenon DEF Rows, Talks
<1>5. TypeOK'
  <2>1. \A r \in Runs : status'[r] \in Statuses /\ log'[r] \in Seq(EventType)
    BY <1>3 DEF Row, Typed
  <2>2. status' \in [Runs -> Statuses] /\ log' \in [Runs -> Seq(EventType)]
    BY <2>1 DEF Start
  <2>3. up' \subseteq Instances
    BY Typing DEF Inv, Start
  <2> QED
    BY <1>1, <2>2, <2>3 DEF Inv, TypeOK, Statuses
<1>6. TurnsDoNotInterleave'
  BY <1>1 DEF Inv, TurnsDoNotInterleave
<1> QED
  BY <1>4, <1>5, <1>6 DEF Inv

-----------------------------------------------------------------------------
(* The invariant holds *)

LEMMA InitInv == Init => Inv
<1> SUFFICES ASSUME Init PROVE Inv
  OBVIOUS
<1>1. \A r \in Runs : r[1] \in Sessions
  BY DEF Runs
<1>2. "none" \in Statuses /\ "none" \notin Terminal /\ "none" \notin Active
  BY DEF Statuses, Active, Terminal
<1>3. TypeOK
  <2>1. Tables
    BY <1>2, Empty DEF Init, Tables
  <2>2. /\ messages \in [Sessions -> Seq(Message)] /\ up \subseteq Instances
        /\ crashes \in 0 .. MaxCrashes /\ errors \in 0 .. MaxErrors
    BY ChatAssumption DEF Init, ChatAssumption
  <2> QED
    BY <2>1, <2>2, Typing
<1>4. ASSUME NEW r \in Runs
      PROVE  /\ Row(status[r], log[r], exec[r], runner[r], pipe[r], cancelling[r], cancelled[r])
             /\ Answered(status[r], log[r], messages[r[1]], r)
             /\ Asked(status[r], messages[r[1]], r)
  <2>1. /\ status[r] = "none" /\ log[r] = <<>> /\ exec[r] = NoExec /\ runner[r] = NoRunner
        /\ pipe[r] = <<>> /\ cancelling[r] = Nobody /\ cancelled[r] = {}
        /\ messages[r[1]] = <<>>
    BY <1>1 DEF Init
  <2>2. Typed(status[r], log[r], exec[r], runner[r], pipe[r], cancelling[r], cancelled[r])
    BY <1>2, <2>1, Empty DEF Typed
  <2>3. LogFits(status[r], log[r])
    BY <1>2, <2>1 DEF LogFits
  <2>4. Streams(log[r], exec[r], runner[r], pipe[r])
    BY <2>1 DEF Streams, NoExec, NoRunner
  <2>5. Cancels(status[r], exec[r], runner[r], pipe[r], cancelling[r], cancelled[r])
    BY <2>1 DEF Cancels, NoExec
  <2>6. Answered(status[r], log[r], messages[r[1]], r)
    BY <2>1 DEF Answered, Answers
  <2>7. Asked(status[r], messages[r[1]], r)
    BY <1>2, <2>1 DEF Asked
  <2> QED
    BY <2>2, <2>3, <2>4, <2>5, <2>6, <2>7 DEF Row
<1>5. TurnsDoNotInterleave
  BY DEF Init, TurnsDoNotInterleave
<1> QED
  BY <1>3, <1>4, <1>5 DEF Inv, Rows, Talks

LEMMA Step == Inv /\ [Next]_vars => Inv'
<1> SUFFICES ASSUME Inv, [Next]_vars PROVE Inv'
  OBVIOUS
<1>1. CASE UNCHANGED vars
  BY <1>1 DEF vars, Inv, TypeOK, Rows, Talks, TurnsDoNotInterleave
<1>2. ASSUME NEW r \in Runs, NEW i \in Instances, CreateRun(i, r) \/ CancelRun(i, r)
      PROVE  Inv'
  BY <1>2, CreateRunStep, CancelRunStep
<1>3. ASSUME NEW r \in Runs,
             CancelContext(r) \/ RereadFails(r) \/ Produce(r) \/ RunTimeout(r)
      PROVE  Inv'
  BY <1>3, CancelContextStep, RereadFailsStep, Producing
<1>4. ASSUME NEW r \in Runs, Execute(r)
      PROVE  Inv'
  BY <1>4, RegisterStep, StartRunStep, LoadContextStep, DecideStep, ReceiveDeltaStep,
     ReceiveNoticeStep, ReceiveEndStep, CompleteRunStep, FailRunStep DEF Execute
<1>5. ASSUME NEW i \in Instances, Crash(i) \/ Start(i)
      PROVE  Inv'
  BY <1>5, CrashStep, StartStep
<1> QED
  BY <1>1, <1>2, <1>3, <1>4, <1>5 DEF Next

\* The invariant of chat runs: rows fit together and sessions are turns.
THEOREM Invariance == Spec => []Inv
BY InitInv, Step, PTL DEF Spec

-----------------------------------------------------------------------------
(* What it says *)

\* Every variable keeps its type: the goroutine and the runner hold no more text
\* than the answer has, and the channel never holds two events.
THEOREM TypeCorrect == Spec => []TypeOK
<1>1. Inv => TypeOK
  BY DEF Inv
<1> QED
  BY <1>1, Invariance, PTL

\* Turns never interleave, whichever process interrupts, cancels or completes.
THEOREM TurnsAreKept == Spec => []TurnsDoNotInterleave
<1>1. Inv => TurnsDoNotInterleave
  BY DEF Inv
<1> QED
  BY <1>1, Invariance, PTL

\* Every log has one terminal event, the last, and it names the status.
THEOREM LogsEnd == Spec => []LogEndsWithStatus
<1>1. ASSUME Inv, NEW r \in Runs
      PROVE  /\ \A n \in 1 .. Len(log[r]) : log[r][n] \in TerminalEvent => n = Len(log[r])
             /\ status[r] \in Terminal => log[r][Len(log[r])] = EventOf(status[r])
             /\ status[r] \in Active => log[r][Len(log[r])] \notin TerminalEvent
  <2>1. LogFits(status[r], log[r]) /\ log[r] \in Seq(EventType)
    BY <1>1, RowOf DEF Typed
  <2>2. ASSUME status[r] \in Active
        PROVE  log[r][Len(log[r])] \notin TerminalEvent
    <3>1. status[r] # "none" /\ status[r] \notin Terminal
      BY <2>2 DEF Active, Terminal
    <3>2. Len(log[r]) \in 1 .. Len(log[r])
      BY <2>1, <3>1 DEF LogFits
    <3> QED
      BY <2>1, <3>1, <3>2 DEF LogFits
  <2> QED
    BY <2>1, <2>2 DEF LogFits
<1>2. Inv => LogEndsWithStatus
  BY <1>1 DEF LogEndsWithStatus
<1> QED
  BY <1>2, Invariance, PTL

\* A completed run has one stored answer, the text that its subscribers saw; a
\* run that ended otherwise has none.
THEOREM AnswersMatch == Spec => []AnswerMatchesEvents
<1>1. ASSUME Inv, NEW r \in Runs
      PROVE  /\ Cardinality(Answers(messages[r[1]], r)) = IF status[r] = "completed" THEN 1 ELSE 0
             /\ \A n \in Answers(messages[r[1]], r) :
                   messages[r[1]][n].parts = Cardinality(Deltas(log[r]))
  <2>1. Answered(status[r], log[r], messages[r[1]], r)
    BY <1>1 DEF Inv, Talks
  <2>2. CASE status[r] = "completed"
    <3>1. PICK n \in 1 .. Len(messages[r[1]]) :
              /\ Answers(messages[r[1]], r) = {n}
              /\ messages[r[1]][n].parts = Cardinality(Deltas(log[r]))
      BY <2>1, <2>2 DEF Answered
    <3>2. Cardinality({n}) = 1
      BY FS_Singleton
    <3> QED
      BY <2>2, <3>1, <3>2
  <2>3. CASE status[r] # "completed"
    <3>1. Answers(messages[r[1]], r) = {}
      BY <2>1, <2>3 DEF Answered
    <3> QED
      BY <2>3, <3>1, FS_EmptySet
  <2> QED
    BY <2>2, <2>3
<1>2. Inv => AnswerMatchesEvents
  BY <1>1 DEF AnswerMatchesEvents
<1> QED
  BY <1>2, Invariance, PTL

\* A cancellation that returned the run, rather than an error, on the run's own
\* instance stops the model: either it found the goroutine, or the goroutine finds
\* the run cancelled.
THEOREM CancellationArrives == Spec => []CancelReachesModel
<1>1. ASSUME Inv, NEW r \in Runs, exec[r].at \in cancelled[r],
             runner[r].pc \in {"emit", "terminal"}
      PROVE  ~exec[r].live
  BY <1>1, RowOf DEF Cancels, Streams
<1>2. Inv => CancelReachesModel
  BY <1>1 DEF CancelReachesModel
<1> QED
  BY <1>2, Invariance, PTL

=============================================================================
