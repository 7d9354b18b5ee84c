----------------------- MODULE ReminderCommandProofs -----------------------
(***************************************************************************)
(* Machine-checked proofs about ReminderCommand, for every set of runs,    *)
(* workers, memories and plans and any number of calls and crashes.        *)
(***************************************************************************)
EXTENDS ReminderCommand, FiniteSetTheorems, TLAPS

-----------------------------------------------------------------------------
(* The inductive invariant.  Its parts take the events and approvals they   *)
(* speak of as arguments: both only ever grow.                              *)

\* What can be put on display: a plan and, unless it asks for clarification,
\* the reminder it is to change.
Shown(d) ==
    /\ d.cand.plan \in Plans
    /\ d.cand.plan.action # "create" /\ ~d.cand.unclear => d.cand.target # NoRef

\* What an approved, completed command owes.
Kept(r, d, evs) ==
    d.decision = "approved" =>
        \E e \in evs : e.run = r /\ e.id = d.committed /\ e.hash = InputHash(d.cand)

\* A worker about to do s in the segment j.
Ready(s, j, evs, aps) ==
    /\ s # "idle" => j.run \in Runs
    /\ s \in {"recall", "conflict"} => j.data.cand.plan \in Plans
    /\ s \in {"pins", "commit"} =>
          /\ Shown(j.data) /\ ~j.data.cand.unclear
          /\ [run |-> j.run, cand |-> j.data.cand] \in aps
    /\ s = "save" =>
          /\ j.exit # "none"
          /\ j.exit = "suspended" => Shown(j.data)
          /\ j.exit = "completed" => Kept(j.run, j.data, evs)

\* The checkpoint c of the run r.
Settled(r, c, evs) ==
    /\ c.status = "suspended" => Shown(c.data)
    /\ c.status = "completed" => Kept(r, c.data, evs)

\* The events: one key per run, never used twice, each change approved.
Ledger(evs, aps) ==
    /\ \A e \in evs : /\ e.key = <<e.run, "reminder-commit", 1>>
                      /\ \E a \in aps : a.run = e.run /\ Describes(a.cand, e)
    /\ \A e, f \in evs : e.run = f.run => e = f

Inv ==
    /\ TypeOK
    /\ Ledger(events, approvals)
    /\ \A w \in Workers : Ready(at[w], job[w], events, approvals)
    /\ \A r \in Runs : Settled(r, ctl[r], events)

-----------------------------------------------------------------------------
(* Records *)

LEMMA Constants ==
    /\ 0 \in Instants /\ Instants \subseteq Nat
    /\ NoRef \in Reference /\ NoCandidate \in Candidate /\ NoData \in Data /\ NoJob \in Job
    /\ Absent \in Reminder
<1>1. 0 \in Instants /\ Instants \subseteq Nat
  BY CommandAssumption DEF CommandAssumption, Instants
<1>2. NoRef \in Reference
  BY DEF Reference
<1>3. NoCandidate \in Candidate
  BY <1>2 DEF NoCandidate, Candidate
<1>4. NoData \in Data
  BY <1>1, <1>2, <1>3 DEF NoData, Data
<1>5. NoJob \in Job
  BY <1>1, <1>4 DEF NoJob, Job
<1>6. Absent \in Reminder
  <2>1. /\ {} \in SUBSET Memories /\ "absent" \in Statuses \union {"absent"}
        /\ 0 \in Nat /\ 0 \in Instants
    BY <1>1
  <2> QED
    BY <2>1, Zenon DEF Absent, Reminder
<1> QED
  BY <1>1, <1>2, <1>3, <1>4, <1>5, <1>6

\* The candidate of a fresh plan.
LEMMA FreshCandidate ==
    ASSUME NEW p \in Plans
    PROVE  LET c == [NoCandidate EXCEPT !.plan = p, !.unclear = p.unclear]
           IN  c \in Candidate /\ c.plan = p
BY Constants, CommandAssumption DEF CommandAssumption, WellFormed, NoCandidate, Candidate

\* The assignments of the steps to a candidate, to a checkpoint's data, to a job.
LEMMA CandidateFields ==
    ASSUME NEW c \in Candidate
    PROVE  /\ \A x \in SUBSET Memories : [c EXCEPT !.refs = x] \in Candidate
           /\ \A x \in BOOLEAN : [c EXCEPT !.unclear = x] \in Candidate
           /\ \A x \in Reference : [c EXCEPT !.target = x] \in Candidate
BY ZenonT(30) DEF Candidate

LEMMA DataFields ==
    ASSUME NEW d \in Data
    PROVE  /\ \A x \in Candidate : [d EXCEPT !.cand = x] \in Data
           /\ \A x \in Nat : [d EXCEPT !.version = x] \in Data
           /\ \A x \in {"approved", "rejected"} : [d EXCEPT !.decision = x] \in Data
           /\ \A x \in Ids : [d EXCEPT !.committed = x] \in Data
BY ZenonT(30) DEF Data

LEMMA JobFields ==
    ASSUME NEW j \in Job
    PROVE  /\ \A x \in Data : [j EXCEPT !.data = x] \in Job
           /\ \A x \in {"suspended", "completed", "failed"} : [j EXCEPT !.exit = x] \in Job
           /\ \A r \in Runs : [j EXCEPT !.run = r] \in Job
           /\ \A t \in Instants : [j EXCEPT !.entered = t] \in Job
BY ZenonT(30) DEF Job

-----------------------------------------------------------------------------
(* Frames *)

\* What is owed stays paid when events and approvals are added.
LEMMA Grows ==
    ASSUME NEW evs, NEW aps, NEW evs2, NEW aps2, evs \subseteq evs2, aps \subseteq aps2
    PROVE  /\ \A r, d : Kept(r, d, evs) => Kept(r, d, evs2)
           /\ \A s, j : Ready(s, j, evs, aps) => Ready(s, j, evs2, aps2)
           /\ \A r, c : Settled(r, c, evs) => Settled(r, c, evs2)
<1>1. \A r, d : Kept(r, d, evs) => Kept(r, d, evs2)
  BY Zenon DEF Kept
<1>2. \A s, j : Ready(s, j, evs, aps) => Ready(s, j, evs2, aps2)
  BY <1>1, Zenon DEF Ready
<1>3. \A r, c : Settled(r, c, evs) => Settled(r, c, evs2)
  BY <1>1, Zenon DEF Settled
<1> QED
  BY <1>1, <1>2, <1>3

\* One worker moves on, to a step it is ready for; the others stay ready.
LEMMA WorkerMoves ==
    ASSUME Inv, NEW w \in Workers, NEW s \in Steps, NEW j \in Job, GoTo(w, s, j),
           events \subseteq events', approvals \subseteq approvals',
           Ready(s, j, events', approvals')
    PROVE  /\ at' \in [Workers -> Steps] /\ job' \in [Workers -> Job]
           /\ \A v \in Workers : Ready(at'[v], job'[v], events', approvals')
<1>1. at \in [Workers -> Steps] /\ job \in [Workers -> Job]
  BY DEF Inv, TypeOK
<1>2. at' \in [Workers -> Steps] /\ job' \in [Workers -> Job]
  BY <1>1 DEF GoTo
<1>3. at'[w] = s /\ job'[w] = j
  BY <1>1 DEF GoTo
<1>4. \A v \in Workers \ {w} : at'[v] = at[v] /\ job'[v] = job[v]
  BY <1>1 DEF GoTo
<1>5. ASSUME NEW v \in Workers \ {w}
      PROVE  Ready(at'[v], job'[v], events', approvals')
  <2>1. Ready(at[v], job[v], events, approvals)
    BY DEF Inv
  <2>2. Ready(at[v], job[v], events', approvals')
    BY <2>1, Grows, Zenon
  <2> QED
    BY <1>4, <2>2, Zenon
<1>6. Ready(at'[w], job'[w], events', approvals')
  BY <1>3, Zenon
<1> QED
  BY <1>2, <1>5, <1>6, Zenon

\* A step inside a segment, which touches nothing else.
LEMMA Inside ==
    ASSUME Inv, NEW w \in Workers, NEW s \in Steps, NEW j \in Job, GoTo(w, s, j),
           Quiet, UNCHANGED store, Ready(s, j, events, approvals)
    PROVE  Inv'
<1>1. /\ UNCHANGED <<now, active, reminders, events>>
      /\ UNCHANGED <<ctl, holder, waits, calls, approvals>>
  BY DEF Quiet, store, world
<1>2. Ready(s, j, events', approvals')
  BY <1>1, Zenon
<1>3. /\ at' \in [Workers -> Steps] /\ job' \in [Workers -> Job]
      /\ \A v \in Workers : Ready(at'[v], job'[v], events', approvals')
  BY <1>1, <1>2, WorkerMoves
<1>4. TypeOK'
  BY <1>1, <1>3 DEF Inv, TypeOK
<1>5. Ledger(events', approvals') /\ \A r \in Runs : Settled(r, ctl'[r], events')
  BY <1>1, Zenon DEF Inv
<1> QED
  BY <1>3, <1>4, <1>5 DEF Inv

\* The segment of a busy worker and the checkpoint of its run.
LEMMA Segment ==
    ASSUME Inv, NEW w \in Workers, at[w] # "idle"
    PROVE  /\ job[w] \in Job /\ job[w].run \in Runs /\ job[w].data \in Data
           /\ job[w].data.cand \in Candidate /\ ctl[job[w].run] \in Checkpoint
           /\ Ready(at[w], job[w], events, approvals)
<1>1. job[w] \in Job /\ Ready(at[w], job[w], events, approvals)
  BY DEF Inv, TypeOK
<1>2. job[w].run \in Runs
  BY <1>1 DEF Ready
<1>3. job[w].data \in Data /\ job[w].data.cand \in Candidate
  BY <1>1 DEF Job, Data
<1> QED
  BY <1>1, <1>2, <1>3 DEF Inv, TypeOK

\* A refused segment ends with the checkpoint's data or with its own.
LEMMA Refusal ==
    ASSUME Inv, NEW w \in Workers, at[w] # "idle", Refuse(w), Quiet, UNCHANGED store
    PROVE  Inv'
<1> DEFINE j == job[w]
           d == IF j.action = "edit" THEN ctl[j.run].data ELSE j.data
<1>1. d \in Data
  BY Segment DEF Checkpoint
<1>2. Failed(j) = [[j EXCEPT !.exit = "failed"] EXCEPT !.data = d]
  BY Segment DEF Failed, Job
<1>3. Failed(j) \in Job
  <2>1. [j EXCEPT !.exit = "failed"] \in Job
    BY Segment, JobFields
  <2>2. \A m \in Job, x \in Data : [m EXCEPT !.data = x] \in Job
    BY JobFields
  <2> HIDE DEF d, j
  <2> QED
    BY <1>1, <1>2, <2>1, <2>2, Zenon
<1>4. Failed(j).exit = "failed" /\ Failed(j).run = j.run
  BY Segment DEF Failed, Job
<1>5. Ready("save", Failed(j), events, approvals)
  BY <1>4, Segment DEF Ready
<1>6. GoTo(w, "save", Failed(j)) /\ "save" \in Steps
  BY DEF Refuse, Steps
<1> HIDE DEF j, d
<1> QED
  BY <1>3, <1>5, <1>6, Inside

-----------------------------------------------------------------------------
(* Planning, resolving and display *)

\* A job whose candidate is replaced.
LEMMA NewCandidate ==
    ASSUME NEW j \in Job, NEW c \in Candidate
    PROVE  LET k == [j EXCEPT !.data = [j.data EXCEPT !.cand = c]]
           IN  k \in Job /\ k.run = j.run /\ k.data.cand = c /\ k.exit = j.exit
<1>1. [j.data EXCEPT !.cand = c] \in Data /\ [j.data EXCEPT !.cand = c].cand = c
  BY DataFields DEF Job, Data
<1>2. [j EXCEPT !.data = [j.data EXCEPT !.cand = c]] \in Job
  BY <1>1, JobFields
<1> QED
  BY <1>1, <1>2 DEF Job

LEMMA Planning ==
    ASSUME NEW w \in Workers, NEW j \in Job, j.run \in Runs, Plan(w, j)
    PROVE  \E s \in Steps, k \in Job :
              GoTo(w, s, k) /\ \A evs, aps : Ready(s, k, evs, aps)
<1>1. CASE \E p \in Proposed(j.data.received) :
              GoTo(w, AfterParse(p),
                   [j EXCEPT !.data.cand = [NoCandidate EXCEPT !.plan = p, !.unclear = p.unclear]])
  <2>1. PICK p \in Plans :
            GoTo(w, AfterParse(p),
                 [j EXCEPT !.data.cand = [NoCandidate EXCEPT !.plan = p, !.unclear = p.unclear]])
    BY <1>1 DEF Proposed
  <2> DEFINE c == [NoCandidate EXCEPT !.plan = p, !.unclear = p.unclear]
             k == [j EXCEPT !.data = [j.data EXCEPT !.cand = c]]
  <2>2. c \in Candidate /\ c.plan = p
    BY FreshCandidate
  <2>3. k \in Job /\ k.run = j.run /\ k.data.cand = c
    BY <2>2, NewCandidate
  <2>4. AfterParse(p) \in {"conflict", "recall"} /\ AfterParse(p) \in Steps
    BY DEF AfterParse, Steps
  <2>5. GoTo(w, AfterParse(p), k)
    BY <2>1
  <2>6. \A evs, aps : Ready(AfterParse(p), k, evs, aps)
    <3> HIDE DEF c, k
    <3> QED
      BY <2>2, <2>3, <2>4 DEF Ready
  <2> QED
    BY <2>3, <2>4, <2>5, <2>6
<1>2. CASE GoTo(w, "save", [j EXCEPT !.exit = "failed"])
  <2>1. [j EXCEPT !.exit = "failed"] \in Job
    BY JobFields
  <2>2. \A evs, aps : Ready("save", [j EXCEPT !.exit = "failed"], evs, aps)
    BY DEF Ready, Job
  <2> QED
    BY <1>2, <2>1, <2>2 DEF Steps
<1> QED
  BY <1>1, <1>2 DEF Plan

LEMMA Displaying ==
    ASSUME Inv, NEW w \in Workers, NEW j \in Job, j.run \in Runs, Shown(j.data),
           Display(w, j), Quiet, UNCHANGED store
    PROVE  Inv'
<1> DEFINE d == [j.data EXCEPT !.version = @ + 1]
           k == [[j EXCEPT !.exit = "suspended"] EXCEPT !.data = d]
<1>1. j.data \in Data /\ j.data.version + 1 \in Nat
  BY DEF Job, Data
<1>2. d \in Data /\ d.cand = j.data.cand
  BY <1>1, DataFields DEF Data
<1>3. [j EXCEPT !.exit = "suspended"] \in Job
  BY JobFields
<1>4. k \in Job
  <2> HIDE DEF d
  <2> QED
    BY <1>2, <1>3, JobFields
<1>5. k.run = j.run /\ k.data = d /\ k.exit = "suspended"
  <2> HIDE DEF d
  <2> QED
    BY DEF Job
<1>6. Ready("save", k, events, approvals)
  <2> HIDE DEF d, k
  <2> QED
    BY <1>2, <1>5 DEF Ready, Shown
<1>7. GoTo(w, "save", k) /\ "save" \in Steps
  BY DEF Display, Steps, Job
<1> HIDE DEF d, k
<1> QED
  BY <1>4, <1>6, <1>7, Inside

-----------------------------------------------------------------------------
(* The steps of a segment *)

LEMMA RecallStep ==
    ASSUME Inv, NEW w \in Workers, Recall(w)
    PROVE  Inv'
<1> DEFINE j == job[w]
           cand == j.data.cand
           wanted == cand.plan.selects
           c == IF wanted \subseteq active THEN [cand EXCEPT !.refs = wanted]
                ELSE [cand EXCEPT !.unclear = TRUE]
           k == [j EXCEPT !.data = [j.data EXCEPT !.cand = c]]
<1>1. at[w] = "recall" /\ Quiet /\ UNCHANGED store
  BY DEF Recall
<1>2. j \in Job /\ j.run \in Runs /\ cand \in Candidate /\ cand.plan \in Plans
  BY <1>1, Segment DEF Ready
<1>3. wanted \in SUBSET Memories
  BY <1>2, CommandAssumption DEF CommandAssumption, WellFormed
<1>4. c \in Candidate /\ c.plan = cand.plan
  <2> HIDE DEF cand, wanted
  <2>1. c \in Candidate
    BY <1>2, <1>3, CandidateFields
  <2> QED
    BY <1>2, <2>1 DEF Candidate
<1>5. k \in Job /\ k.run = j.run /\ k.data.cand = c
  BY <1>2, <1>4, NewCandidate
<1>6. IF cand.plan.action = "create" THEN Display(w, k) ELSE GoTo(w, "conflict", k)
  BY DEF Recall
<1>7. CASE cand.plan.action = "create"
  <2>1. Shown(k.data) /\ Display(w, k)
    <3> HIDE DEF k, c, j
    <3> QED
      BY <1>2, <1>4, <1>5, <1>6, <1>7 DEF Shown
  <2> QED
    <3> HIDE DEF k, c, j
    <3> QED
      BY <1>1, <1>2, <1>5, <2>1, Displaying
<1>8. CASE cand.plan.action # "create"
  <2> HIDE DEF k, c, j, cand
  <2>1. GoTo(w, "conflict", k) /\ "conflict" \in Steps
    BY <1>6, <1>8 DEF Steps
  <2>2. k.run \in Runs /\ k.data.cand.plan \in Plans
    BY <1>2, <1>4, <1>5
  <2>3. Ready("conflict", k, events, approvals)
    BY <2>2 DEF Ready
  <2> QED
    BY <1>1, <1>5, <2>1, <2>3, Inside
<1> QED
  BY <1>7, <1>8

LEMMA ConflictStep ==
    ASSUME Inv, NEW w \in Workers, Conflict(w)
    PROVE  Inv'
<1> DEFINE j == job[w]
           cand == j.data.cand
           t == j.data.trusted
           on(c) == [j EXCEPT !.data = [j.data EXCEPT !.cand = c]]
<1>1. at[w] = "conflict" /\ Quiet /\ UNCHANGED store
  BY DEF Conflict
<1>2. /\ j \in Job /\ j.run \in Runs /\ cand \in Candidate /\ cand.plan \in Plans
      /\ t \in Reference
  BY <1>1, Segment DEF Ready, Data
<1>3. ASSUME NEW x \in Reference, x # NoRef, Display(w, on([cand EXCEPT !.target = x]))
      PROVE  Inv'
  <2>1. [cand EXCEPT !.target = x] \in Candidate /\ [cand EXCEPT !.target = x].target = x
        /\ [cand EXCEPT !.target = x].plan = cand.plan
    BY <1>2, CandidateFields DEF Candidate
  <2> DEFINE c == [cand EXCEPT !.target = x]
  <2>2. on(c) \in Job /\ on(c).run = j.run /\ on(c).data.cand = c
    BY <1>2, <2>1, NewCandidate
  <2>3. Display(w, on(c))
    BY <1>3
  <2> HIDE DEF on, c, j, cand
  <2>4. Shown(on(c).data)
    BY <1>2, <1>3, <2>1, <2>2 DEF Shown, c
  <2> QED
    BY <1>1, <1>2, <2>2, <2>3, <2>4, Displaying
<1>4. CASE t # NoRef /\ Ref(t.id) = t /\ Display(w, on([cand EXCEPT !.target = t]))
  BY <1>2, <1>3, <1>4
<1>5. CASE Refuse(w)
  BY <1>1, <1>5, Refusal
<1>6. CASE Display(w, on([cand EXCEPT !.unclear = TRUE]))
  <2> DEFINE c == [cand EXCEPT !.unclear = TRUE]
  <2>1. c \in Candidate /\ c.unclear = TRUE /\ c.plan = cand.plan
    BY <1>2, CandidateFields DEF Candidate
  <2>2. on(c) \in Job /\ on(c).run = j.run /\ on(c).data.cand = c
    BY <1>2, <2>1, NewCandidate
  <2>3. Display(w, on(c))
    BY <1>6
  <2> HIDE DEF on, c, j, cand
  <2>4. Shown(on(c).data)
    BY <1>2, <2>1, <2>2 DEF Shown
  <2> QED
    BY <1>1, <1>2, <2>2, <2>3, <2>4, Displaying
<1>7. CASE \E id \in List(cand.plan.selector) : Display(w, on([cand EXCEPT !.target = Ref(id)]))
  <2>1. PICK id \in Ids : Display(w, on([cand EXCEPT !.target = Ref(id)]))
    BY <1>7 DEF List
  <2>2. reminders[id].rver \in Nat
    BY DEF Inv, TypeOK, Reminder
  <2>3. Ref(id) \in Reference
    BY <2>2 DEF Ref, Reference
  <2>4. Ref(id) # NoRef
    BY CommandAssumption DEF CommandAssumption, Ref, NoRef
  <2> QED
    BY <1>3, <2>1, <2>3, <2>4
<1> QED
  BY <1>4, <1>5, <1>6, <1>7 DEF Conflict

LEMMA LoadEditStep ==
    ASSUME Inv, NEW w \in Workers, LoadEdit(w)
    PROVE  Inv'
<1> DEFINE j == job[w]
           c(p) == [NoCandidate EXCEPT !.plan = p, !.unclear = p.unclear]
           fresh(p) == [NoData EXCEPT !.trusted = j.data.trusted, !.received = now,
                           !.version = j.data.version, !.cand = c(p)]
           k(p) == [j EXCEPT !.data = fresh(p)]
<1>1. at[w] = "load" /\ Quiet /\ UNCHANGED store
  BY DEF LoadEdit
<1>2. j \in Job /\ j.run \in Runs /\ j.data \in Data
  BY <1>1, Segment
<1>3. CASE \E p \in Proposed(now) : GoTo(w, AfterParse(p), k(p))
  <2>1. PICK p \in Plans : GoTo(w, AfterParse(p), k(p))
    BY <1>3 DEF Proposed
  <2>2. c(p) \in Candidate /\ c(p).plan = p
    BY FreshCandidate
  <2>3. fresh(p) \in Data /\ fresh(p).cand = c(p)
    <3>1. /\ j.data.trusted \in Reference /\ j.data.version \in Nat /\ now \in Instants
      BY <1>2 DEF Data, Inv, TypeOK
    <3> HIDE DEF c
    <3> QED
      BY <2>2, <3>1 DEF NoData, Data
  <2> HIDE DEF fresh, c
  <2>4. k(p) \in Job /\ k(p).run = j.run /\ k(p).data = fresh(p)
    BY <1>2, <2>3, JobFields DEF Job
  <2>5. AfterParse(p) \in {"conflict", "recall"} /\ AfterParse(p) \in Steps
    BY DEF AfterParse, Steps
  <2> HIDE DEF k, j
  <2>6. Ready(AfterParse(p), k(p), events, approvals)
    BY <1>2, <2>2, <2>3, <2>4, <2>5 DEF Ready
  <2> QED
    BY <1>1, <2>1, <2>4, <2>5, <2>6, Inside
<1>4. CASE Refuse(w)
  BY <1>1, <1>4, Refusal
<1> QED
  BY <1>3, <1>4 DEF LoadEdit

LEMMA ValidatePinsStep ==
    ASSUME Inv, NEW w \in Workers, ValidatePins(w)
    PROVE  Inv'
<1>1. at[w] = "pins" /\ Quiet /\ UNCHANGED store
  BY DEF ValidatePins
<1>2. job[w] \in Job /\ Ready("pins", job[w], events, approvals)
  BY <1>1, Segment
<1>3. CASE GoTo(w, "commit", job[w])
  <2>1. Ready("commit", job[w], events, approvals)
    BY <1>2 DEF Ready
  <2> QED
    BY <1>1, <1>2, <1>3, <2>1, Inside DEF Steps
<1>4. CASE Refuse(w)
  BY <1>1, <1>4, Refusal
<1> QED
  BY <1>3, <1>4 DEF ValidatePins

-----------------------------------------------------------------------------
(* The commit *)

LEMMA ReminderFields ==
    ASSUME NEW m \in Reminder
    PROVE  /\ [m EXCEPT !.status = "cancelled", !.rver = @ + 1, !.claim = 0] \in Reminder
           /\ [m EXCEPT !.status = "processing", !.rver = @ + 1, !.claim = 0] \in Reminder
           /\ [m EXCEPT !.rver = @ + 1, !.claim = m.rver + 1] \in Reminder
           /\ \A x \in Texts, n \in Instants, refs \in SUBSET Memories :
                 Updated(m, x, n, refs) \in Reminder
<1>1. m.rver + 1 \in Nat
  BY DEF Reminder
<1>2. [m EXCEPT !.status = "cancelled", !.rver = @ + 1, !.claim = 0] \in Reminder
  BY <1>1 DEF Reminder, Statuses
<1>3. [m EXCEPT !.status = "processing", !.rver = @ + 1, !.claim = 0] \in Reminder
  BY <1>1 DEF Reminder, Statuses
<1>4. [m EXCEPT !.rver = @ + 1, !.claim = m.rver + 1] \in Reminder
  BY <1>1 DEF Reminder
<1>5. ASSUME NEW x \in Texts, NEW n \in Instants, NEW refs \in SUBSET Memories
      PROVE  Updated(m, x, n, refs) \in Reminder
  BY <1>1 DEF Reminder, Updated
<1> QED
  BY <1>2, <1>3, <1>4, <1>5

\* A worker whose commit is done reports it.
LEMMA Reporting ==
    ASSUME Inv, NEW w \in Workers, at[w] = "commit", NEW id \in Ids,
           GoTo(w, "save", [job[w] EXCEPT !.data.committed = id, !.exit = "completed"]),
           Quiet, reminders' \in [Ids -> Reminder], events \subseteq events',
           \A e \in events' : e.run \in Runs /\ e.id \in Ids,
           Ledger(events', approvals'),
           \E e \in events' : /\ e.run = job[w].run /\ e.id = id
                              /\ e.hash = InputHash(job[w].data.cand)
    PROVE  Inv'
<1> DEFINE j == job[w]
           d == [j.data EXCEPT !.committed = id]
           k == [[j EXCEPT !.exit = "completed"] EXCEPT !.data = d]
<1>1. j \in Job /\ j.run \in Runs /\ j.data \in Data
  BY Segment
<1>2. d \in Data /\ d.committed = id /\ d.cand = j.data.cand
  BY <1>1, DataFields DEF Data
<1>3. k \in Job /\ k.run = j.run /\ k.data = d /\ k.exit = "completed"
  <2> HIDE DEF d
  <2>1. [j EXCEPT !.exit = "completed"] \in Job
    BY <1>1, JobFields
  <2> HIDE DEF j
  <2> QED
    BY <1>1, <1>2, <2>1, JobFields DEF Job
<1>4. GoTo(w, "save", k) /\ "save" \in Steps
  BY <1>1 DEF Steps, Job
<1>5. Kept(k.run, k.data, events')
  <2> HIDE DEF d, k, j
  <2> QED
    BY <1>2, <1>3 DEF Kept, j
<1> HIDE DEF d, k
<1>6. Ready("save", k, events', approvals')
  BY <1>1, <1>3, <1>5 DEF Ready
<1>7. UNCHANGED <<now, active, ctl, holder, waits, calls, approvals>>
  BY DEF Quiet, world
<1>8. /\ at' \in [Workers -> Steps] /\ job' \in [Workers -> Job]
      /\ \A v \in Workers : Ready(at'[v], job'[v], events', approvals')
  BY <1>3, <1>4, <1>6, <1>7, WorkerMoves
<1>9. TypeOK'
  BY <1>7, <1>8 DEF Inv, TypeOK
<1>10. ASSUME NEW r \in Runs PROVE Settled(r, ctl'[r], events')
  BY <1>7, Grows, Zenon DEF Inv
<1> QED
  BY <1>8, <1>9, <1>10 DEF Inv

\* The first commit of a run's key writes one event, of an approved change.
LEMMA Writing ==
    ASSUME Inv, NEW w \in Workers, at[w] = "commit", NEW id \in Ids, NEW row \in Reminder,
           ~KeyUsed(CommitKey(job[w])), Write(job[w], id, row), Quiet,
           job[w].data.cand.plan.action # "create" => Ref(id) = job[w].data.cand.target,
           GoTo(w, "save", [job[w] EXCEPT !.data.committed = id, !.exit = "completed"])
    PROVE  Inv'
<1> DEFINE j == job[w]
           c == j.data.cand
           new == [key |-> CommitKey(j), run |-> j.run, id |-> id,
                   from |-> reminders[id].rver, action |-> c.plan.action, hash |-> InputHash(c)]
<1>1. /\ j.run \in Runs /\ ~c.unclear
      /\ [run |-> j.run, cand |-> c] \in approvals
  BY Segment DEF Ready
<1>2. reminders' = [reminders EXCEPT ![id] = row] /\ events' = events \union {new}
  BY DEF Write
<1>3. reminders' \in [Ids -> Reminder]
  BY <1>2 DEF Inv, TypeOK
<1>4. \A e \in events' : e.run \in Runs /\ e.id \in Ids
  BY <1>1, <1>2 DEF Inv, TypeOK
<1>5. approvals' = approvals
  BY DEF Quiet
<1>6. Describes(c, new)
  <2> HIDE DEF j
  <2>1. new.action # "create" => c.target = [id |-> new.id, rver |-> new.from]
    BY DEF Ref, j
  <2> QED
    BY <1>1, <2>1 DEF Describes
<1>7. \A e \in events : e.run # j.run
  BY DEF KeyUsed, CommitKey, Inv, Ledger
<1>8. Ledger(events', approvals')
  <2>1. new.key = <<new.run, "reminder-commit", 1>> /\ new.run = j.run
    BY DEF CommitKey
  <2>2. \E a \in approvals : a.run = new.run /\ Describes(a.cand, new)
    <3> HIDE DEF c, j
    <3>1. [run |-> j.run, cand |-> c].run = new.run /\ [run |-> j.run, cand |-> c].cand = c
      OBVIOUS
    <3> HIDE DEF new
    <3> QED
      BY <1>1, <1>6, <3>1
  <2> HIDE DEF new, c, j
  <2>3. \A e \in events' : /\ e.key = <<e.run, "reminder-commit", 1>>
                           /\ \E a \in approvals : a.run = e.run /\ Describes(a.cand, e)
    BY <1>2, <2>1, <2>2, Zenon DEF Inv, Ledger
  <2>4. \A e, f \in events' : e.run = f.run => e = f
    BY <1>2, <1>7, <2>1 DEF Inv, Ledger
  <2> QED
    BY <1>5, <2>3, <2>4, Zenon DEF Ledger
<1>9. \E e \in events' : e.run = j.run /\ e.id = id /\ e.hash = InputHash(c)
  <2>1. new \in events'
    BY <1>2
  <2>2. new.run = j.run /\ new.id = id /\ new.hash = InputHash(c)
    OBVIOUS
  <2> HIDE DEF new
  <2> QED
    BY <2>1, <2>2
<1> HIDE DEF new, c
<1> QED
  BY <1>2, <1>3, <1>4, <1>8, <1>9, Reporting DEF c

LEMMA CommitStep ==
    ASSUME Inv, NEW w \in Workers, Commit(w)
    PROVE  Inv'
<1> DEFINE j == job[w]
           c == j.data.cand
           k == CommitKey(j)
           done(id) == GoTo(w, "save", [j EXCEPT !.data.committed = id, !.exit = "completed"])
<1>1. at[w] = "commit" /\ Quiet
  BY DEF Commit
<1>2. /\ j.run \in Runs /\ c \in Candidate /\ c.plan \in Plans /\ ~c.unclear
      /\ c.plan.action # "create" => c.target # NoRef
  BY <1>1, Segment DEF Ready, Shown
<1>3. WellFormed(c.plan)
  BY <1>2, CommandAssumption DEF CommandAssumption
<1>4. CASE ~KeyUsed(k) /\ c.plan.action = "create" /\ Create(j) /\ done(j.run)
  <2>1. Scheduled(c.plan.content, c.plan.when, c.refs) \in Reminder
    BY <1>2, <1>3, <1>4 DEF WellFormed, Scheduled, Reminder, Statuses, Candidate
  <2>2. j.run \in Ids
    BY <1>2 DEF Ids
  <2> QED
    BY <1>1, <1>4, <2>1, <2>2, Writing DEF Create
<1>5. CASE /\ ~KeyUsed(k) /\ c.plan.action # "create" /\ CanMutate(c, j.entered)
           /\ Mutate(j) /\ done(c.target.id)
  <2> DEFINE id == c.target.id
             old == reminders[id]
             row == IF c.plan.action = "cancel"
                    THEN [old EXCEPT !.status = "cancelled", !.rver = @ + 1, !.claim = 0]
                    ELSE Updated(old, c.plan.content, c.plan.when, c.refs)
  <2>1. id \in Ids
    BY <1>2, <1>5 DEF Candidate, Reference
  <2>2. old \in Reminder
    BY <2>1 DEF Inv, TypeOK
  <2>3. row \in Reminder
    <3>1. CASE c.plan.action = "cancel"
      BY <2>2, <3>1, ReminderFields
    <3>2. CASE c.plan.action # "cancel"
      <4>1. c.plan.content \in Texts /\ c.plan.when \in Instants /\ c.refs \in SUBSET Memories
        BY <1>2, <1>3, <1>5, <3>2 DEF WellFormed, Candidate
      <4> QED
        BY <2>2, <3>2, <4>1, ReminderFields
    <3> QED
      BY <3>1, <3>2
  <2>4. Write(j, id, row) /\ Ref(id) = c.target /\ done(id)
    BY <1>5 DEF Mutate, CanMutate
  <2> HIDE DEF row
  <2> QED
    BY <1>1, <1>5, <2>1, <2>3, <2>4, Writing
<1>6. CASE Replays(k, InputHash(c)) /\ done(ReplayedId(k)) /\ UNCHANGED store
  <2>1. PICK e \in events : e.key = k /\ e.hash = InputHash(c)
    BY <1>6 DEF Replays
  <2>2. e.run = j.run /\ \A f \in events : f.key = k => f = e
    BY <2>1 DEF CommitKey, Inv, Ledger
  <2>3. ReplayedId(k) = e.id
    <3>1. (CHOOSE f \in events : f.key = k) = e
      BY <2>1, <2>2
    <3> QED
      BY <3>1 DEF ReplayedId
  <2>4. /\ reminders' = reminders /\ events' = events /\ approvals' = approvals
    BY <1>1, <1>6 DEF store, Quiet
  <2>5. e.id \in Ids
    BY DEF Inv, TypeOK
  <2>6. /\ reminders' \in [Ids -> Reminder] /\ Ledger(events', approvals')
        /\ \A f \in events' : f.run \in Runs /\ f.id \in Ids
    BY <2>4 DEF Inv, TypeOK
  <2>7. \E f \in events' : f.run = j.run /\ f.id = e.id /\ f.hash = InputHash(c)
    BY <2>1, <2>2, <2>4
  <2>8. done(e.id)
    BY <1>6, <2>3
  <2> QED
    BY <1>1, <2>4, <2>5, <2>6, <2>7, <2>8, Reporting
<1>7. CASE Refuse(w) /\ UNCHANGED store
  BY <1>1, <1>7, Refusal
<1> QED
  BY <1>4, <1>5, <1>6, <1>7 DEF Commit

-----------------------------------------------------------------------------
(* Calls, the end of a segment, and the world *)

\* An accepted call puts a worker to work on a run whose checkpoint settles.
LEMMA Accepting ==
    ASSUME Inv, NEW w \in Workers, NEW r \in Runs, Accept(w, r),
           NEW s \in Steps, NEW j \in Job, GoTo(w, s, j), NEW c \in Checkpoint,
           holder' = [holder EXCEPT ![r] = w], ctl' = [ctl EXCEPT ![r] = c],
           Settled(r, c, events), approvals \subseteq approvals',
           Ready(s, j, events, approvals')
    PROVE  Inv'
<1>1. UNCHANGED <<now, active, reminders, events, waits>> /\ calls' = calls + 1
  BY DEF Accept, world, store
<1>2. Ready(s, j, events', approvals')
  BY <1>1, Zenon
<1>3. /\ at' \in [Workers -> Steps] /\ job' \in [Workers -> Job]
      /\ \A v \in Workers : Ready(at'[v], job'[v], events', approvals')
  BY <1>1, <1>2, WorkerMoves
<1>4. ctl' \in [Runs -> Checkpoint] /\ holder' \in [Runs -> Workers \union {None}]
  BY DEF Inv, TypeOK
<1>5. TypeOK'
  BY <1>1, <1>3, <1>4 DEF Inv, TypeOK
<1>6. Ledger(events', approvals')
  BY <1>1 DEF Inv, Ledger
<1>7. ASSUME NEW q \in Runs PROVE Settled(q, ctl'[q], events')
  <2>1. CASE q = r
    BY <1>1, <2>1, Zenon DEF Inv, TypeOK
  <2>2. CASE q # r
    <3>1. ctl'[q] = ctl[q]
      BY <2>2 DEF Inv, TypeOK
    <3> QED
      BY <1>1, <3>1, Zenon DEF Inv
  <2> QED
    BY <2>1, <2>2
<1> QED
  BY <1>3, <1>5, <1>6, <1>7 DEF Inv

LEMMA StartStep ==
    ASSUME Inv, NEW w \in Workers, NEW r \in Runs, NEW t \in Reference, Start(w, r, t)
    PROVE  Inv'
<1> DEFINE d == IF ctl[r].status = "pending" THEN ctl[r].data
                ELSE [NoData EXCEPT !.trusted = t, !.received = now]
           j == [NoJob EXCEPT !.run = r, !.data = d]
           c == [ctl[r] EXCEPT !.status = "pending", !.data = d]
<1>1. Accept(w, r) /\ holder' = [holder EXCEPT ![r] = w] /\ UNCHANGED approvals
  BY DEF Start
<1>2. ctl' = [ctl EXCEPT ![r] = c] /\ Plan(w, j)
  BY DEF Start, Inv, TypeOK
<1>3. ctl[r] \in Checkpoint /\ now \in Instants
  BY DEF Inv, TypeOK
<1>4. d \in Data
  <2>1. [NoData EXCEPT !.trusted = t, !.received = now] \in Data
    BY <1>3, Constants DEF Data
  <2> QED
    BY <1>3, <2>1 DEF Checkpoint
<1> HIDE DEF d
<1>5. j \in Job /\ j.run = r
  BY <1>4, Constants DEF Job
<1>6. c \in Checkpoint /\ c.status = "pending"
  BY <1>3, <1>4 DEF Checkpoint
<1> HIDE DEF c, j
<1>7. PICK s \in Steps, k \in Job : GoTo(w, s, k) /\ \A evs, aps : Ready(s, k, evs, aps)
  BY <1>2, <1>5, Planning
<1>8. Settled(r, c, events)
  BY <1>6 DEF Settled
<1> QED
  BY <1>1, <1>2, <1>6, <1>7, <1>8, Accepting

\* The same when the checkpoint is left as it is.
LEMMA Resuming ==
    ASSUME Inv, NEW w \in Workers, NEW r \in Runs, Accept(w, r),
           NEW s \in Steps, NEW j \in Job, GoTo(w, s, j), UNCHANGED ctl,
           holder' = [holder EXCEPT ![r] = w], approvals \subseteq approvals',
           Ready(s, j, events, approvals')
    PROVE  Inv'
<1> DEFINE c == ctl[r]
<1>1. c \in Checkpoint /\ Settled(r, c, events) /\ ctl' = [ctl EXCEPT ![r] = c]
  BY DEF Inv, TypeOK
<1> HIDE DEF c
<1> QED
  BY <1>1, Accepting

LEMMA ResumeStep ==
    ASSUME Inv, NEW w \in Workers, NEW r \in Runs, NEW a \in {"approve", "reject", "edit"},
           NEW i \in DOMAIN waits[r], Resume(w, r, a, i)
    PROVE  Inv'
<1> DEFINE d == ctl[r].data
           j == [NoJob EXCEPT !.run = r, !.action = a, !.base = ctl[r].attempt, !.data = d]
           decided(x) == [j EXCEPT !.data = [d EXCEPT !.decision = x]]
<1>1. /\ Accept(w, r) /\ holder' = [holder EXCEPT ![r] = w] /\ UNCHANGED ctl
      /\ ctl[r].status = "suspended" /\ waits[r][i] = d.cand /\ Allowed(d.cand, a)
  BY DEF Resume, MatchesWait, candidateHash
<1>2. ctl[r] \in Checkpoint /\ d \in Data /\ Settled(r, ctl[r], events) /\ Shown(d)
  BY <1>1 DEF Inv, TypeOK, Checkpoint, Settled
<1>3. /\ approvals \subseteq approvals'
      /\ a = "approve" => [run |-> r, cand |-> d.cand] \in approvals'
  BY <1>1 DEF Resume
<1>4. j \in Job /\ j.run = r /\ j.data = d
  BY <1>2, Constants DEF Job, Checkpoint, NoJob
<1>5. ASSUME NEW x \in {"approved", "rejected"}
      PROVE  /\ decided(x) \in Job /\ decided(x).run = r
             /\ decided(x).data.cand = d.cand /\ decided(x).data.decision = x
  <2>1. [d EXCEPT !.decision = x] \in Data /\ [d EXCEPT !.decision = x].cand = d.cand
        /\ [d EXCEPT !.decision = x].decision = x
    BY <1>2, DataFields DEF Data
  <2> HIDE DEF j, d
  <2> QED
    BY <1>4, <2>1, JobFields DEF Job
<1>6. CASE a = "edit"
  <2>1. GoTo(w, "load", j)
    BY <1>6 DEF Resume
  <2> HIDE DEF j
  <2>2. Ready("load", j, events, approvals') /\ "load" \in Steps
    BY <1>4 DEF Ready, Steps
  <2> QED
    BY <1>1, <1>3, <1>4, <2>1, <2>2, Resuming
<1>7. CASE a = "reject"
  <2> DEFINE k == [decided("rejected") EXCEPT !.exit = "completed"]
  <2>1. GoTo(w, "save", k)
    BY <1>7, <1>4 DEF Resume, Job
  <2>2. decided("rejected") \in Job /\ decided("rejected").run = r
        /\ decided("rejected").data.decision = "rejected"
    BY <1>5
  <2> HIDE DEF decided
  <2>3. k \in Job /\ k.run = r /\ k.exit = "completed" /\ k.data.decision = "rejected"
    BY <2>2, JobFields DEF Job
  <2> HIDE DEF k
  <2>4. Ready("save", k, events, approvals') /\ "save" \in Steps
    BY <2>3 DEF Ready, Kept, Steps
  <2> QED
    BY <1>1, <1>3, <2>1, <2>3, <2>4, Resuming
<1>8. CASE a = "approve"
  <2> DEFINE k == [decided("approved") EXCEPT !.entered = now]
             s == IF d.cand.refs = {} THEN "commit" ELSE "pins"
  <2>1. GoTo(w, s, k)
    BY <1>8, <1>4 DEF Resume, Job
  <2>2. k \in Job /\ k.run = r /\ k.data.cand = d.cand
    <3>1. decided("approved") \in Job /\ decided("approved").run = r
          /\ decided("approved").data.cand = d.cand /\ now \in Instants
      BY <1>5 DEF Inv, TypeOK
    <3> HIDE DEF decided
    <3> QED
      BY <3>1, JobFields DEF Job
  <2>3. ~d.cand.unclear /\ [run |-> r, cand |-> d.cand] \in approvals'
    <3>1. ~d.cand.unclear
      BY <1>1, <1>8, Zenon DEF Allowed
    <3> QED
      BY <1>3, <1>8, <3>1, Zenon
  <2>4. s \in {"pins", "commit"} /\ s \in Steps
    BY DEF Steps
  <2> HIDE DEF k, s, d
  <2>5. Shown(k.data) /\ ~k.data.cand.unclear /\ [run |-> k.run, cand |-> k.data.cand] \in approvals'
    BY <1>2, <2>2, <2>3 DEF Shown
  <2>6. Ready(s, k, events, approvals')
    BY <2>2, <2>4, <2>5 DEF Ready
  <2> QED
    BY <1>1, <1>3, <2>1, <2>2, <2>4, <2>6, Resuming
<1> QED
  BY <1>6, <1>7, <1>8

LEMMA IdleReady ==
    "idle" \in Steps /\ \A j, evs, aps : Ready("idle", j, evs, aps)
BY DEF Steps, Ready

LEMMA SaveStep ==
    ASSUME Inv, NEW w \in Workers, Save(w)
    PROVE  Inv'
<1> DEFINE j == job[w]
           r == j.run
           c == [status |-> j.exit, attempt |-> j.base + 1, data |-> j.data]
<1>1. at[w] = "save" /\ GoTo(w, "idle", NoJob)
      /\ UNCHANGED <<now, active, reminders, events, calls, approvals>>
  BY DEF Save, world, store
<1>2. j \in Job /\ r \in Runs /\ Ready("save", j, events, approvals)
  BY <1>1, Segment
<1>3. /\ at' \in [Workers -> Steps] /\ job' \in [Workers -> Job]
      /\ \A v \in Workers : Ready(at'[v], job'[v], events', approvals')
  BY <1>1, Constants, IdleReady, WorkerMoves
<1>4. c \in Checkpoint /\ Settled(r, c, events)
  <2> HIDE DEF j
  <2>1. j.exit \in {"suspended", "completed", "failed"} /\ j.base + 1 \in Nat /\ j.data \in Data
    BY <1>2 DEF Ready, Job
  <2> QED
    BY <1>2, <2>1 DEF Checkpoint, Ready, Settled
<1>5. /\ ctl' \in [Runs -> Checkpoint]
      /\ \A q \in Runs : ctl'[q] = ctl[q] \/ (q = r /\ ctl'[q] = c)
  <2>1. ctl' = ctl \/ ctl' = [ctl EXCEPT ![r] = c]
    BY DEF Save
  <2> HIDE DEF c, j
  <2> QED
    BY <1>2, <1>4, <2>1 DEF Inv, TypeOK
<1>6. holder' \in [Runs -> Workers \union {None}]
  BY <1>2 DEF Save, Inv, TypeOK
<1>7. waits' \in [Runs -> Seq(Candidate)]
  <2>1. j.data.cand \in Candidate /\ waits \in [Runs -> Seq(Candidate)]
    BY <1>2 DEF Job, Data, Inv, TypeOK
  <2>2. waits' = waits \/ waits' = [waits EXCEPT ![r] = Append(@, j.data.cand)]
    BY DEF Save, candidateHash
  <2> HIDE DEF j
  <2>3. Append(waits[r], j.data.cand) \in Seq(Candidate)
    BY <1>2, <2>1
  <2> QED
    BY <1>2, <2>1, <2>2, <2>3, Zenon
<1>8. TypeOK'
  BY <1>1, <1>3, <1>5, <1>6, <1>7 DEF Inv, TypeOK
<1>9. Ledger(events', approvals')
  BY <1>1, Zenon DEF Inv
<1>10. ASSUME NEW q \in Runs PROVE Settled(q, ctl'[q], events')
  <2> HIDE DEF c, j
  <2> QED
    BY <1>1, <1>4, <1>5, Zenon DEF Inv
<1> QED
  BY <1>3, <1>8, <1>9, <1>10 DEF Inv

LEMMA CrashStep ==
    ASSUME Inv, NEW w \in Workers, Crash(w)
    PROVE  Inv'
<1>1. GoTo(w, "idle", NoJob) /\ UNCHANGED store /\ Quiet
  BY DEF Crash, Quiet
<1> QED
  BY <1>1, Constants, IdleReady, Inside

\* Time passes, a reminder fires or is updated, a memory is revoked.
LEMMA WorldStep ==
    ASSUME Inv, UNCHANGED <<events, flow>>, now' \in Instants, active' \subseteq Memories,
           reminders' \in [Ids -> Reminder]
    PROVE  Inv'
<1>1. UNCHANGED <<events, ctl, holder, waits, at, job, calls, approvals>>
  BY DEF flow
<1>2. TypeOK'
  BY <1>1 DEF Inv, TypeOK
<1> QED
  BY <1>1, <1>2, Zenon DEF Inv

LEMMA RowStep ==
    ASSUME Inv, NEW id \in Ids, NEW row \in Reminder, reminders' = [reminders EXCEPT ![id] = row],
           UNCHANGED <<world, events, flow>>
    PROVE  Inv'
<1>1. reminders' \in [Ids -> Reminder]
  BY DEF Inv, TypeOK
<1>2. UNCHANGED <<now, active, events, flow>>
  BY DEF world
<1> QED
  BY <1>1, <1>2, WorldStep DEF Inv, TypeOK

-----------------------------------------------------------------------------
(* The theorems *)

LEMMA InitInv == Init => Inv
<1> SUFFICES ASSUME Init PROVE Inv
  OBVIOUS
<1>1. [status |-> "absent", attempt |-> 0, data |-> NoData] \in Checkpoint
  BY Constants DEF Checkpoint
<1>2. ASSUME NEW id \in Ids
      PROVE  (IF id \in Runs THEN Absent
              ELSE Scheduled(Existing[id].content, Existing[id].when, Existing[id].refs))
             \in Reminder
  <2>1. CASE id \in Runs
    BY <2>1, Constants
  <2>2. CASE id \notin Runs
    <3>1. id \in DOMAIN Existing
      BY <2>2 DEF Ids
    <3>2. /\ Existing[id].content \in Texts /\ Existing[id].when \in Instants
          /\ Existing[id].refs \in SUBSET Memories
      BY <3>1, CommandAssumption DEF CommandAssumption
    <3> QED
      BY <2>2, <3>2 DEF Scheduled, Reminder, Statuses
  <2> QED
    BY <2>1, <2>2
<1>3. reminders \in [Ids -> Reminder]
  <2> HIDE DEF Ids, Reminder
  <2> QED
    BY <1>2 DEF Init
<1>4. TypeOK
  BY <1>1, <1>3, Constants DEF Init, TypeOK, Steps
<1>5. Ledger(events, approvals)
  BY DEF Init, Ledger
<1>6. \A w \in Workers : Ready(at[w], job[w], events, approvals)
  BY IdleReady DEF Init
<1>7. \A r \in Runs : Settled(r, ctl[r], events)
  BY DEF Init, Settled
<1> QED
  BY <1>4, <1>5, <1>6, <1>7 DEF Inv

LEMMA NextInv == Inv /\ [Next]_vars => Inv'
<1> SUFFICES ASSUME Inv, [Next]_vars PROVE Inv'
  OBVIOUS
<1>1. ASSUME NEW w \in Workers, NEW r \in Runs,
             NEW t \in {NoRef} \union {Ref(id) : id \in DOMAIN Existing}, Start(w, r, t)
      PROVE  Inv'
  <2>1. t \in Reference
    BY DEF Ref, Reference, Ids, Inv, TypeOK, Reminder
  <2> QED
    BY <1>1, <2>1, StartStep
<1>2. ASSUME NEW w \in Workers, NEW r \in Runs, NEW a \in {"approve", "reject", "edit"},
             NEW i \in DOMAIN waits[r], Resume(w, r, a, i)
      PROVE  Inv'
  BY <1>2, ResumeStep
<1>3. ASSUME NEW w \in Workers, Step(w) PROVE Inv'
  BY <1>3, RecallStep, ConflictStep, LoadEditStep, ValidatePinsStep, CommitStep, SaveStep DEF Step
<1>4. ASSUME NEW w \in Workers, Crash(w) PROVE Inv'
  BY <1>4, CrashStep
<1>5. CASE Tick
  <2>1. now' \in Instants
    BY <1>5, CommandAssumption DEF CommandAssumption, Tick, Instants, Inv, TypeOK
  <2> QED
    BY <1>5, <2>1, WorldStep DEF Tick, store, Inv, TypeOK
<1>6. ASSUME NEW id \in Ids, ClaimDue(id) \/ CommitOccurrence(id) \/ UpdateElsewhere(id)
      PROVE  Inv'
  <2> DEFINE m == reminders[id]
  <2>1. m \in Reminder
    BY DEF Inv, TypeOK
  <2>2. CASE ClaimDue(id)
    <3>1. reminders' = [reminders EXCEPT ![id] = [m EXCEPT !.rver = @ + 1, !.claim = m.rver + 1]]
      BY <2>2 DEF ClaimDue, Inv, TypeOK
    <3> QED
      BY <2>1, <2>2, <3>1, ReminderFields, RowStep DEF ClaimDue
  <2>3. CASE CommitOccurrence(id)
    <3>1. reminders' = [reminders EXCEPT ![id] =
                           [m EXCEPT !.status = "processing", !.rver = @ + 1, !.claim = 0]]
      BY <2>3 DEF CommitOccurrence, Inv, TypeOK
    <3> QED
      BY <2>1, <2>3, <3>1, ReminderFields, RowStep DEF CommitOccurrence
  <2>4. CASE UpdateElsewhere(id)
    <3>1. PICK p \in Plans :
             /\ p.action = "update"
             /\ reminders' = [reminders EXCEPT ![id] =
                                 Updated(m, p.content, p.when, p.selects)]
      BY <2>4, Zenon DEF UpdateElsewhere
    <3>2. p.content \in Texts /\ p.when \in Instants /\ p.selects \in SUBSET Memories
      BY <3>1, CommandAssumption DEF CommandAssumption, WellFormed
    <3>3. Updated(m, p.content, p.when, p.selects) \in Reminder
      BY <2>1, <3>2, ReminderFields
    <3> QED
      BY <2>4, <3>1, <3>3, RowStep DEF UpdateElsewhere
  <2> QED
    BY <1>6, <2>2, <2>3, <2>4
<1>7. ASSUME NEW m \in Memories, Revoke(m) PROVE Inv'
  BY <1>7, WorldStep DEF Revoke, store, Inv, TypeOK
<1>8. CASE UNCHANGED vars
  <2>1. UNCHANGED <<now, active, reminders, events, flow>>
    BY <1>8 DEF vars, flow
  <2> QED
    BY <2>1, WorldStep DEF Inv, TypeOK
<1> QED
  BY <1>1, <1>2, <1>3, <1>4, <1>5, <1>6, <1>7, <1>8 DEF Next

\* The invariant holds of every behaviour of the reminder command workflow.
THEOREM Invariance == Spec => []Inv
<1> QED
  BY InitInv, NextInv, PTL DEF Spec

\* reminderworkflow: rows, checkpoints, waits and segments keep their types; what
\* is displayed always has a plan and a target of the right kind.
THEOREM TypeCorrect == Spec => []TypeOK
<1>1. Inv => TypeOK
  BY DEF Inv
<1> QED
  BY <1>1, Invariance, PTL

\* CommitNode and the events' unique key: a command changes at most one reminder,
\* once, with any number of segments, crashes, edits and repeated approvals.
THEOREM ChangesOnce == Spec => []OneChangePerRun
<1>1. Inv => OneChangePerRun
  <2> SUFFICES ASSUME Inv, NEW r \in Runs PROVE Cardinality(EventsOf(r)) <= 1
    BY DEF OneChangePerRun
  <2>1. CASE EventsOf(r) = {}
    BY <2>1, FS_EmptySet
  <2>2. CASE EventsOf(r) # {}
    <3>1. PICK e : e \in EventsOf(r)
      BY <2>2
    <3>2. EventsOf(r) = {e}
      <4>1. \A f \in EventsOf(r) : f = e
        BY <3>1 DEF EventsOf, Inv, Ledger
      <4> QED
        BY <3>1, <4>1
    <3>3. Cardinality(EventsOf(r)) = 1
      BY <3>2, FS_Singleton, Zenon
    <3> QED
      BY <3>3
  <2> QED
    BY <2>1, <2>2
<1> QED
  BY <1>1, Invariance, PTL

\* ReviewNode and CommitNode: every change of a reminder is one that a human
\* approved on display, made to the row version that was displayed.
THEOREM OnlyApprovedChanges == Spec => []ChangesWereApproved
<1>1. Inv => ChangesWereApproved
  BY DEF Inv, Ledger, ChangesWereApproved, EventsOf
<1> QED
  BY <1>1, Invariance, PTL

\* CommitNode and loadReminderIdempotency: what a run reports as approved and
\* completed, an event of the run recorded for the reminder it names, and the change
\* is the displayed one or another approved candidate's with the same input hash.
THEOREM ReportsAreTrue == Spec => []CompletedIsCommitted
<1>1. Inv => CompletedIsCommitted
  <2> SUFFICES ASSUME Inv, NEW r \in Runs, ctl[r].status = "completed",
                      ctl[r].data.decision = "approved"
               PROVE  \E e \in EventsOf(r) :
                         /\ e.id = ctl[r].data.committed /\ e.hash = InputHash(ctl[r].data.cand)
                         /\ ctl[r].data.cand.plan.action = "cancel" =>
                                e.action = "cancel" /\ e.id = ctl[r].data.cand.target.id
                         /\ \/ Describes(ctl[r].data.cand, e)
                            \/ \E a \in approvals : /\ a.run = r /\ a.cand # ctl[r].data.cand
                                                    /\ Describes(a.cand, e)
    BY DEF CompletedIsCommitted
  <2> DEFINE c == ctl[r].data.cand
  <2>1. PICK e \in events : /\ e.run = r /\ e.id = ctl[r].data.committed
                            /\ e.hash = InputHash(c)
    BY DEF Inv, Settled, Kept
  <2>2. e \in EventsOf(r)
    BY <2>1 DEF EventsOf
  <2>3. PICK a \in approvals : a.run = r /\ Describes(a.cand, e)
    BY <2>1 DEF Inv, Ledger
  <2> HIDE DEF c
  <2>4. c.plan.action = "cancel" => e.action = "cancel" /\ e.id = c.target.id
    <3> SUFFICES ASSUME c.plan.action = "cancel"
                 PROVE  e.action = "cancel" /\ e.id = c.target.id
      OBVIOUS
    <3>1. e.hash = <<"cancel", c.target.id>> /\ e.hash[1] = "cancel" /\ e.hash[2] = c.target.id
      BY <2>1 DEF InputHash
    <3>2. a.cand.plan.action = "cancel"
      <4>1. CASE a.cand.plan.action # "cancel"
        <5>1. e.hash = <<"content", a.cand.plan.content, a.cand.plan.when, a.cand.refs>>
          BY <2>3, <4>1 DEF Describes, InputHash
        <5>2. e.hash[1] = "content"
          BY <5>1
        <5> QED
          BY <3>1, <5>2
      <4> QED
        BY <4>1
    <3>3. e.hash = <<"cancel", a.cand.target.id>> /\ e.hash[2] = a.cand.target.id
      BY <2>3, <3>2 DEF Describes, InputHash
    <3>4. e.action = "cancel" /\ a.cand.target.id = e.id
      BY <2>3, <3>2 DEF Describes
    <3> QED
      BY <3>1, <3>3, <3>4
  <2>5. Describes(c, e) \/ a.cand # c
    BY <2>3
  <2> QED
    BY <2>1, <2>2, <2>3, <2>4, <2>5 DEF c
<1> QED
  BY <1>1, Invariance, PTL
=============================================================================
