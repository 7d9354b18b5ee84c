---------------------------- MODULE MemoryProofs ----------------------------
(***************************************************************************)
(* Machine-checked proofs about the two components that share MemoryStore.  *)
(*                                                                          *)
(* MemoryCapture, for any runs, workers, drafts, slots and texts and every  *)
(* bound on calls and crashes.  The invariant relates four things that are  *)
(* written at different times: the memory rows, the audit table, the        *)
(* checkpoint of a run and the segments that work from a copy of it.  The   *)
(* proof goes through them in this order: what a segment writes into its    *)
(* job, what a transaction does to the rows, what it records, what it means *)
(* to the other runs and segments (Aged rows only ever lose the status of a *)
(* candidate), and then one lemma per action.                               *)
(*                                                                          *)
(* MemoryRecall, for any readers, projectors, plans and drafts and every    *)
(* limit of the configuration.  A recall reads the rows at several times:   *)
(* its invariant says what was found by then (Finding), and what an answer  *)
(* says for good (Answering); the owner's transactions are those of the     *)
(* store above, of which a recall relies on little (Carried).               *)
(***************************************************************************)
EXTENDS MemoryCapture, MemoryRecall, FiniteSetTheorems, SequenceTheorems, TLAPS

-----------------------------------------------------------------------------
(* Types, up to the number n of memories.                                    *)

Found(n) == [id : 1 .. n, lver : Nat \ {0}, text : Texts]
Policy(n) == [action : {"none", "review"}, target : 0 .. n]
             \union [action : {"noop", "supersede"}, target : 1 .. n]
Shown(n) == {NoReview} \union [id : 1 .. n, rver : Nat, decision : {"none", "approve", "reject"}]
Data(n) == [intent : Intents \union {None}, draft : Drafts \union {None}, cands : SUBSET Found(n),
            policy : Policy(n), review : Shown(n), committed : 0 .. n]
Job(n) == [run : Runs \union {None}, action : {"none", "approve", "reject", "edit"}, payload : Nat,
           base : Nat, data : Data(n), draft : Drafts \union {None}, cands : SUBSET Found(n),
           policy : Policy(n), target : Nat,
           exit : {"none", "failed", "suspended", "completed"}]
Payload == [draft : Drafts, pending : BOOLEAN]
Checkpoint(n) == [status : {"absent", "pending", "suspended", "completed", "failed"},
                  attempt : Nat, data : Data(n)]

FirstPass == {"lookup", "conflict", "review", "create"}
Resumed == {"pins", "check", "load", "reconflict", "retarget", "recreate", "supersede"}
Editing == {"load", "reconflict", "retarget", "recreate"}
Places == {"idle", "commit", "save"} \union FirstPass \union Resumed

StoreTyped ==
    /\ records \in Seq(Record)
    /\ outbox \in Seq(Row) /\ Len(outbox) = Len(records)
    /\ version \in Nat

FlowTyped ==
    /\ ctl \in [Runs -> Checkpoint(Len(records))]
    /\ holder \in [Runs -> Workers \union {None}]
    /\ payloads \in Seq(Payload)
    /\ at \in [Workers -> Places]
    /\ job \in [Workers -> Job(Len(records))]

-----------------------------------------------------------------------------
(* The audit table, and what it says of a run.                               *)

Commits(r) == {e \in audit : e.key = <<r, "commit", 1, 0>>}
Edited(r, n) == KeyUsed(<<r, "review", n, 1>>)

\* A review key names the insertion of a candidate, a commit key the decision on
\* one of its run's candidates.
EventFits(e) ==
    /\ e.key[2] \in {"review", "commit", "target", "expiry"}
    /\ e.key[2] = "review" =>
          /\ e.memory \in Ids /\ e.result = e.memory /\ e.new = "candidate"
          /\ e.key[1] \in Runs
          /\ e.key[3] \in 1 .. ctl[e.key[1]].attempt + 1
    /\ e.key[2] = "commit" =>
          /\ e.key = <<e.key[1], "commit", 1, 0>>
          /\ e.key[1] \in Runs
          /\ e.memory \in CandidatesOf(e.key[1]) /\ e.result = e.memory
    /\ e.new = "active" => e.key[2] = "commit" /\ <<e.key[1], e.memory>> \in approvals

\* A memory is the candidate of one run, and a run decides once.
Audited ==
    /\ \A e \in audit : EventFits(e)
    /\ \A e, f \in audit :
          e.key[2] = "review" /\ f.key[2] = "review" /\ e.memory = f.memory => e.key[1] = f.key[1]
    /\ \A e, f \in audit : e.key[2] = "commit" /\ e.key = f.key => e.memory = f.memory

IsOpen(id) == records[id].status = "candidate"

-----------------------------------------------------------------------------
(* A run: at most one of its candidates is undecided, none after its commit. *)
(* While it is suspended, c is the review on display.                        *)

Pending(r, c, n) ==
    /\ c.id \in CandidatesOf(r) /\ c.decision = "none"
    /\ \A e \in Commits(r) : e.memory = c.id
    /\ Edited(r, n + 1) => records[c.id].status = "rejected" /\ Commits(r) = {}

Settled(r, d) ==
    IF d.review = NoReview THEN CandidatesOf(r) = {}
    ELSE /\ d.committed = d.review.id /\ d.committed \in CandidatesOf(r)
         /\ Commits(r) # {}

RunFits(r) ==
    /\ \A i, k \in CandidatesOf(r) : IsOpen(i) /\ IsOpen(k) => i = k
    /\ Commits(r) # {} => \A i \in CandidatesOf(r) : ~IsOpen(i)
    /\ ctl[r].status = "absent" => CandidatesOf(r) = {}
    /\ ctl[r].status \in {"absent", "pending"} => ctl[r].attempt = 0 /\ Commits(r) = {}
    /\ ctl[r].status = "suspended" => Pending(r, ctl[r].data.review, ctl[r].attempt)
    /\ ctl[r].status = "completed" => Settled(r, ctl[r].data)

-----------------------------------------------------------------------------
(* A segment j that is at s.  It may still save while its run is suspended   *)
(* at the attempt it began with.                                             *)

MaySucceed(j) == ctl[j.run].status = "suspended" /\ ctl[j.run].attempt = j.base

FirstFits(s, j) ==
    /\ ctl[j.run].status = "pending" /\ j.base = 0
    /\ s \in FirstPass \union {"commit", "save"}
    /\ s \in FirstPass => j.data.draft \in Drafts
    /\ s # "save" \/ j.exit = "completed" => CandidatesOf(j.run) = {} /\ j.data.review = NoReview
    /\ s = "save" /\ j.exit = "suspended" =>
          j.data.review.id \in CandidatesOf(j.run) /\ j.data.review.decision = "none"

\* Before its last step a resumed segment holds the review it was shown.  If that
\* is still open, it is the one on display now.
ResumedFits(s, j) ==
    LET c == j.data.review
    IN  /\ s \in Resumed \union {"commit"}
        /\ c.id \in CandidatesOf(j.run)
        /\ MaySucceed(j) => c.id = ctl[j.run].data.review.id
        /\ ctl[j.run].status = "suspended" /\ IsOpen(c.id) => c.id = ctl[j.run].data.review.id
        /\ j.action = "approve" => <<j.run, c.id>> \in approvals
        /\ s \in {"pins", "check"} => c.decision = "none"
        /\ s \in {"commit", "supersede"} => c.decision = j.action
        /\ s = "supersede" => c.decision = "approve"
        /\ s \in Editing => j.action = "edit"
        /\ s \in Editing \ {"load"} => j.draft \in Drafts
        /\ j.action = "edit" => j.payload \in 1 .. Len(payloads)

SavingFits(j) ==
    LET c == j.data.review
    IN  /\ j.exit = "suspended" =>
              /\ c.id \in CandidatesOf(j.run) /\ c.decision = "none"
              /\ MaySucceed(j) => Edited(j.run, j.base + 1)
        /\ j.exit = "completed" =>
              /\ c.id \in CandidatesOf(j.run) /\ Commits(j.run) # {}
              /\ MaySucceed(j) => j.data.committed = c.id

JobFits(s, j) ==
    s # "idle" =>
        /\ j.run \in Runs
        /\ s = "save" => j.exit # "none"
        /\ IF j.action = "none" THEN FirstFits(s, j)
           ELSE /\ ctl[j.run].status \in {"suspended", "completed", "failed"}
                /\ j.base \in 0 .. ctl[j.run].attempt
                /\ IF s = "save" THEN SavingFits(j) ELSE ResumedFits(s, j)

OneFirst ==
    \A v, w \in Workers :
        /\ at[v] # "idle" /\ at[w] # "idle" /\ job[v].run = job[w].run
        /\ job[v].action = "none" /\ job[w].action = "none"
        => v = w

Flowing ==
    /\ \A r \in Runs : RunFits(r)
    /\ \A w \in Workers : JobFits(at[w], job[w])
    /\ OneFirst

Inv == StoreTyped /\ FlowTyped /\ FactsAreConsistent /\ Audited /\ Flowing

-----------------------------------------------------------------------------
(* What a segment writes into its job keeps the job's type.                  *)

\* What a segment never changes of its job.
Alike(j, k) == j.run = k.run /\ j.action = k.action /\ j.payload = k.payload /\ j.base = k.base

LEMMA NoJobTyped == \A n \in Nat : NoJob \in Job(n)
  <1>1. \A n \in Nat : NoPolicy \in Policy(n) BY SMT DEF NoPolicy, Policy
  <1>2. \A n \in Nat : NoReview \in Shown(n) BY SMT DEF Shown
  <1>3. \A n \in Nat : NoData \in Data(n) BY <1>1, <1>2, SMT DEF NoData, Data
  <1>. QED BY <1>1, <1>3, SMT DEF NoJob, Job

LEMMA Larger ==
  ASSUME NEW n \in Nat, NEW m \in Nat, n <= m
  PROVE  /\ Found(n) \subseteq Found(m) /\ Policy(n) \subseteq Policy(m)
         /\ Shown(n) \subseteq Shown(m) /\ Data(n) \subseteq Data(m)
         /\ Job(n) \subseteq Job(m) /\ Checkpoint(n) \subseteq Checkpoint(m)
  <1>0. 1 .. n \subseteq 1 .. m /\ 0 .. n \subseteq 0 .. m BY SMT
  <1>1. Found(n) \subseteq Found(m) BY <1>0, Zenon DEF Found
  <1>2. Policy(n) \subseteq Policy(m) BY <1>0, Zenon DEF Policy
  <1>3. Shown(n) \subseteq Shown(m) BY <1>0, Zenon DEF Shown
  <1>4. Data(n) \subseteq Data(m) BY <1>0, <1>1, <1>2, <1>3, SMT DEF Data
  <1>5. Job(n) \subseteq Job(m) BY <1>1, <1>2, <1>4, SMT DEF Job
  <1>6. Checkpoint(n) \subseteq Checkpoint(m) BY <1>4, SMT DEF Checkpoint
  <1>. QED BY <1>1, <1>2, <1>3, <1>4, <1>5, <1>6

\* A job with other data.
LEMMA WithData ==
  ASSUME NEW n \in Nat, NEW j \in Job(n), NEW d \in Data(n)
  PROVE  LET k == [j EXCEPT !.data = d]
         IN  k \in Job(n) /\ Alike(j, k) /\ k.data = d /\ k.exit = j.exit /\ k.draft = j.draft
             /\ k.cands = j.cands /\ k.policy = j.policy /\ k.target = j.target
  BY SMT DEF Job, Alike

LEMMA WithExit ==
  ASSUME NEW n \in Nat, NEW j \in Job(n), NEW x \in {"none", "failed", "suspended", "completed"}
  PROVE  LET k == [j EXCEPT !.exit = x]
         IN  k \in Job(n) /\ Alike(j, k) /\ k.data = j.data /\ k.exit = x
  BY SMT DEF Job, Alike

WithCands(j, c) == [j EXCEPT !.data.cands = c]
WithDecision(j, a) == [j EXCEPT !.data.review.decision = a]
WithEdit(j, d, c) == [j EXCEPT !.draft = d, !.cands = c]

LEMMA SetCands ==
  ASSUME NEW n \in Nat, NEW j \in Job(n), NEW c \in SUBSET Found(n)
  PROVE  LET k == WithCands(j, c)
         IN  k \in Job(n) /\ Alike(j, k) /\ k.data.draft = j.data.draft /\ k.data.cands = c
             /\ k.data.review = j.data.review
  BY SMT DEF Job, Data, Alike, WithCands

LEMMA SetPolicy ==
  ASSUME NEW n \in Nat, NEW j \in Job(n), NEW p \in Policy(n)
  PROVE  LET k == [j EXCEPT !.data.policy = p]
         IN  k \in Job(n) /\ Alike(j, k) /\ k.data.draft = j.data.draft
             /\ k.data.review = j.data.review
  BY SMT DEF Job, Data, Alike

LEMMA SetCommitted ==
  ASSUME NEW n \in Nat, NEW j \in Job(n), NEW i \in 0 .. n
  PROVE  LET k == [j EXCEPT !.data.committed = i]
         IN  k \in Job(n) /\ Alike(j, k) /\ k.data.review = j.data.review
  BY SMT DEF Job, Data, Alike

LEMMA SetDecision ==
  ASSUME NEW n \in Nat, NEW j \in Job(n), j.data.review # NoReview,
         NEW a \in {"none", "approve", "reject"}
  PROVE  LET k == WithDecision(j, a)
         IN  k \in Job(n) /\ Alike(j, k) /\ k.data.review.id = j.data.review.id
             /\ k.data.review.decision = a
  <1>. DEFINE c == j.data.review
              e == [c EXCEPT !.decision = a]
              d == [j.data EXCEPT !.review = e]
  <1>0. j.data \in Data(n) /\ c \in Shown(n) BY SMT DEF Job, Data
  <1>1. e \in Shown(n) /\ e.id = c.id /\ e.decision = a BY <1>0, SMT DEF Shown
  <1>. HIDE DEF e
  <1>2. d \in Data(n) /\ d.review = e BY <1>0, <1>1, SMT DEF Data
  <1>. HIDE DEF d
  <1>3. WithDecision(j, a) = [j EXCEPT !.data = d] BY DEF d, e, WithDecision
  <1>. DEFINE k == [j EXCEPT !.data = d]
  <1>4. k \in Job(n) /\ Alike(j, k) /\ k.data = d BY <1>2, WithData
  <1>. HIDE DEF k
  <1>5. WithDecision(j, a) = k BY <1>3 DEF k
  <1>. QED BY <1>1, <1>2, <1>4, <1>5

LEMMA SetTarget ==
  ASSUME NEW n \in Nat, NEW j \in Job(n), NEW v \in Nat
  PROVE  LET k == [j EXCEPT !.target = v]
         IN  k \in Job(n) /\ Alike(j, k) /\ k.data = j.data
  BY SMT DEF Job, Alike

LEMMA SetEdit ==
  ASSUME NEW n \in Nat, NEW j \in Job(n), NEW d \in Drafts, NEW c \in SUBSET Found(n)
  PROVE  LET k == WithEdit(j, d, c)
         IN  k \in Job(n) /\ Alike(j, k) /\ k.data = j.data /\ k.draft = d
  <1>1. [j EXCEPT !.draft = d] \in Job(n) BY SMT DEF Job
  <1>2. \A k \in Job(n) : [k EXCEPT !.cands = c] \in Job(n) BY SMT DEF Job
  <1>3. [j EXCEPT !.draft = d, !.cands = c] = [[j EXCEPT !.draft = d] EXCEPT !.cands = c] OBVIOUS
  <1>. DEFINE k == [j EXCEPT !.draft = d, !.cands = c]
  <1>4. k.run = j.run /\ k.action = j.action /\ k.payload = j.payload /\ k.base = j.base BY SMT DEF Job
  <1>5. k.data = j.data /\ k.draft = d BY SMT DEF Job
  <1>6. WithEdit(j, d, c) = k BY DEF WithEdit
  <1>. QED BY <1>1, <1>2, <1>3, <1>4, <1>5, <1>6 DEF Alike

LEMMA SetEditPolicy ==
  ASSUME NEW n \in Nat, NEW j \in Job(n), NEW p \in Policy(n)
  PROVE  LET k == [j EXCEPT !.policy = p]
         IN  k \in Job(n) /\ Alike(j, k) /\ k.data = j.data /\ k.draft = j.draft
  BY SMT DEF Job, Alike

\* The end of a commit, and of a pass that shows a candidate.
LEMMA CompletedTyped ==
  ASSUME NEW n \in Nat, NEW j \in Job(n), NEW i \in 0 .. n
  PROVE  LET k == Completed(j, i)
         IN  k \in Job(n) /\ Alike(j, k) /\ k.data.review = j.data.review
             /\ k.data.committed = i /\ k.exit = "completed"
  <1>. DEFINE k == [j EXCEPT !.data.committed = i]
  <1>0. j.data \in Data(n) BY SMT DEF Job
  <1>1. k \in Job(n) /\ Alike(j, k) /\ k.data.review = j.data.review /\ k.data.committed = i
    BY <1>0, SMT DEF Job, Data, Alike
  <1>2. Completed(j, i) = [k EXCEPT !.exit = "completed"] BY DEF Completed
  <1>. HIDE DEF k
  <1>3. LET m == [k EXCEPT !.exit = "completed"]
        IN  m \in Job(n) /\ Alike(k, m) /\ m.data = k.data /\ m.exit = "completed"
    BY <1>1, SMT DEF Job, Alike
  <1>. QED BY <1>1, <1>2, <1>3 DEF Alike

Displaying(j, d, refs, p, c) ==
    [j EXCEPT !.exit = "suspended", !.data.draft = d, !.data.cands = refs, !.data.policy = p,
              !.data.review = c]

LEMMA DisplayingTyped ==
  ASSUME NEW n \in Nat, NEW j \in Job(n), NEW d \in Drafts \union {None},
         NEW refs \in SUBSET Found(n), NEW p \in Policy(n), NEW c \in Shown(n)
  PROVE  LET k == Displaying(j, d, refs, p, c)
         IN  k \in Job(n) /\ Alike(j, k) /\ k.data.review = c /\ k.exit = "suspended"
  <1>. DEFINE k1 == [j EXCEPT !.exit = "suspended"]
              k2 == [k1 EXCEPT !.data.draft = d]
              k3 == [k2 EXCEPT !.data.cands = refs]
              k4 == [k3 EXCEPT !.data.policy = p]
              k5 == [k4 EXCEPT !.data.review = c]
  <1>1. k1 \in Job(n) /\ Alike(j, k1) /\ k1.exit = "suspended" BY SMT DEF Job, Alike
  <1>0. Displaying(j, d, refs, p, c) = k5 BY DEF Displaying
  <1>. HIDE DEF k1
  <1>2. k2 \in Job(n) /\ Alike(k1, k2) /\ k2.exit = k1.exit BY <1>1, SMT DEF Job, Data, Alike
  <1>. HIDE DEF k2
  <1>3. k3 \in Job(n) /\ Alike(k2, k3) /\ k3.exit = k2.exit BY <1>2, SMT DEF Job, Data, Alike
  <1>. HIDE DEF k3
  <1>4. k4 \in Job(n) /\ Alike(k3, k4) /\ k4.exit = k3.exit BY <1>3, SMT DEF Job, Data, Alike
  <1>. HIDE DEF k4
  <1>5. k5 \in Job(n) /\ Alike(k4, k5) /\ k5.exit = k4.exit /\ k5.data.review = c
    BY <1>4, SMT DEF Job, Data, Alike
  <1>. HIDE DEF k5
  <1>. QED BY <1>0, <1>1, <1>2, <1>3, <1>4, <1>5 DEF Alike

\* A job that starts, and one that resumes a checkpoint.
StartingJob(r, i, d) == [NoJob EXCEPT !.run = r, !.data.intent = i, !.data.draft = d]
ResumingJob(r, a, b, i, d) ==
    [NoJob EXCEPT !.run = r, !.action = a, !.base = b, !.payload = i, !.data = d]

LEMMA NewJobTyped ==
  ASSUME NEW n \in Nat, NEW r \in Runs, NEW i \in Intents, NEW d \in Drafts
  PROVE  LET k == StartingJob(r, i, d)
         IN  k \in Job(n) /\ k.run = r /\ k.action = "none" /\ k.base = 0 /\ k.data.draft = d
             /\ k.data.review = NoReview
  <1>. DEFINE k1 == [NoJob EXCEPT !.run = r]
              k2 == [k1 EXCEPT !.data.intent = i]
              k3 == [k2 EXCEPT !.data.draft = d]
  <1>0. NoJob \in Job(n) BY NoJobTyped
  <1>a. NoJob.action = "none" /\ NoJob.base = 0 /\ NoJob.data = NoData BY DEF NoJob
  <1>1. k1 \in Job(n) /\ k1.run = r /\ k1.action = "none" /\ k1.base = 0 /\ k1.data.review = NoReview
    BY <1>0, <1>a, SMT DEF Job, NoData
  <1>9. StartingJob(r, i, d) = k3 BY DEF StartingJob
  <1>. HIDE DEF k1
  <1>2. /\ k2 \in Job(n) /\ k2.run = k1.run /\ k2.action = k1.action /\ k2.base = k1.base
        /\ k2.data.review = k1.data.review
    BY <1>1, SMT DEF Job, Data
  <1>. HIDE DEF k2
  <1>3. /\ k3 \in Job(n) /\ k3.run = k2.run /\ k3.action = k2.action /\ k3.base = k2.base
        /\ k3.data.review = k2.data.review /\ k3.data.draft = d
    BY <1>2, SMT DEF Job, Data
  <1>. HIDE DEF k3
  <1>. QED BY <1>1, <1>2, <1>3, <1>9

LEMMA ResumingTyped ==
  ASSUME NEW n \in Nat, NEW r \in Runs, NEW a \in {"approve", "reject", "edit"}, NEW b \in Nat,
         NEW i \in Nat, NEW d \in Data(n)
  PROVE  LET k == ResumingJob(r, a, b, i, d)
         IN  k \in Job(n) /\ k.run = r /\ k.action = a /\ k.base = b /\ k.payload = i /\ k.data = d
  <1>. DEFINE k1 == [NoJob EXCEPT !.run = r]
              k2 == [k1 EXCEPT !.action = a]
              k3 == [k2 EXCEPT !.base = b]
              k4 == [k3 EXCEPT !.payload = i]
              k5 == [k4 EXCEPT !.data = d]
  <1>0. NoJob \in Job(n) BY NoJobTyped
  <1>1. k1 \in Job(n) /\ k1.run = r BY <1>0, SMT DEF Job
  <1>9. ResumingJob(r, a, b, i, d) = k5 BY DEF ResumingJob
  <1>. HIDE DEF k1
  <1>2. k2 \in Job(n) /\ k2.run = k1.run /\ k2.action = a BY <1>1, SMT DEF Job
  <1>. HIDE DEF k2
  <1>3. k3 \in Job(n) /\ k3.run = k2.run /\ k3.action = k2.action /\ k3.base = b BY <1>2, SMT DEF Job
  <1>. HIDE DEF k3
  <1>4. /\ k4 \in Job(n) /\ k4.run = k3.run /\ k4.action = k3.action /\ k4.base = k3.base
        /\ k4.payload = i
    BY <1>3, SMT DEF Job
  <1>. HIDE DEF k4
  <1>5. /\ k5 \in Job(n) /\ k5.run = k4.run /\ k5.action = k4.action /\ k5.base = k4.base
        /\ k5.payload = k4.payload /\ k5.data = d
    BY <1>4, SMT DEF Job
  <1>. HIDE DEF k5
  <1>. QED BY <1>1, <1>2, <1>3, <1>4, <1>5, <1>9

-----------------------------------------------------------------------------
(* What the operations of the store do to its rows.                          *)

\* A decided memory is never open again, a rejected one stays rejected.
Aged ==
    /\ Len(records) <= Len(records')
    /\ \A id \in Ids : /\ records'[id].status = "candidate" => records[id].status = "candidate"
                       /\ records[id].status = "rejected" => records'[id].status = "rejected"

\* All of a row but its status and its versions, and who replaced it.
Steady(x, y) == /\ y.slot = x.slot /\ y.lineage = x.lineage /\ y.lver = x.lver
                /\ y.supersedes = x.supersedes

LEMMA MovedTyped ==
  ASSUME NEW x \in Record, NEW s \in Statuses
  PROVE  LET y == Moved(x, s)
         IN  y \in Record /\ y.status = s /\ Steady(x, y) /\ y.supersededBy = x.supersededBy
  <1>. DEFINE v == x.rver + 1
              y1 == [x EXCEPT !.status = s]
              y2 == [y1 EXCEPT !.rver = v]
  <1>0. v \in Nat \ {0} BY SMT DEF Record
  <1>. HIDE DEF v
  <1>1. y1 \in Record BY SMT DEF Record, Statuses
  <1>2. Steady(x, y1) /\ y1.status = s /\ y1.supersededBy = x.supersededBy
    BY SMT DEF Record, Statuses, Steady
  <1>3. Moved(x, s) = y2 BY DEF Moved, v
  <1>. HIDE DEF y1
  <1>4. y2 \in Record BY <1>0, <1>1, SMT DEF Record
  <1>5. Steady(y1, y2) /\ y2.status = y1.status /\ y2.supersededBy = y1.supersededBy
    BY <1>1, SMT DEF Record, Steady
  <1>. HIDE DEF y2
  <1>. QED BY <1>2, <1>3, <1>4, <1>5 DEF Steady

LEMMA ReplacedTyped ==
  ASSUME NEW x \in Record, NEW c \in Nat
  PROVE  LET y == [x EXCEPT !.supersededBy = c]
         IN  y \in Record /\ y.status = x.status /\ Steady(x, y) /\ y.supersededBy = c
  BY SMT DEF Record, Steady

LEMMA NewRecordTyped ==
  ASSUME NEW d \in Draft, NEW id \in Nat
  PROVE  LET y == NewRecord(d, id)
         IN  y \in Record /\ y.status = "candidate"
  <1>1. d.slot \in Slots \union {NoSlot} /\ d.text \in Texts /\ d.expires \in BOOLEAN
    BY SMT DEF Draft
  <1>. QED BY <1>1, SMT DEF NewRecord, Record, Statuses

Continuing(x, l, v, t) == [x EXCEPT !.lineage = l, !.lver = v, !.supersedes = t]

LEMMA ContinuedTyped ==
  ASSUME NEW x \in Record, NEW l \in Nat, NEW v \in Nat \ {0}, NEW t \in Nat
  PROVE  LET y == Continuing(x, l, v, t)
         IN  y \in Record /\ y.status = x.status
  <1>. DEFINE y1 == [x EXCEPT !.lineage = l]
              y2 == [y1 EXCEPT !.lver = v]
              y3 == [y2 EXCEPT !.supersedes = t]
  <1>0. Continuing(x, l, v, t) = y3 BY DEF Continuing
  <1>1. y1 \in Record /\ y1.status = x.status BY SMT DEF Record
  <1>. HIDE DEF y1
  <1>2. y2 \in Record /\ y2.status = y1.status BY <1>1, SMT DEF Record
  <1>. HIDE DEF y2
  <1>3. y3 \in Record /\ y3.status = y2.status BY <1>2, SMT DEF Record
  <1>. HIDE DEF y3
  <1>. QED BY <1>0, <1>1, <1>2, <1>3

LEMMA NextVersion ==
  ASSUME NEW x \in Record
  PROVE  x.lineage \in Nat /\ x.lver + 1 \in Nat \ {0} /\ x.rver \in Nat
  <1>1. x.lineage \in Nat /\ x.lver \in Nat \ {0} /\ x.rver \in Nat BY SMT DEF Record
  <1>. QED BY <1>1, SMT

LEMMA Rows ==
  ASSUME records \in Seq(Record)
  PROVE  /\ Len(records) \in Nat /\ Ids = 1 .. Len(records)
         /\ \A id \in Ids : records[id] \in Record /\ id \in Nat
  BY SMT DEF Ids

\* Facts stay consistent when at most one memory becomes active, in a free slot,
\* none is superseded, and what is added is a candidate.
LEMMA StaysConsistent ==
  ASSUME records \in Seq(Record), records' \in Seq(Record), FactsAreConsistent,
         Len(records) <= Len(records'),
         \A id \in Ids :
            /\ Steady(records[id], records'[id])
            /\ records'[id].supersededBy = records[id].supersededBy
            /\ \/ records'[id].status = records[id].status
               \/ /\ CanTransition(records[id].status, records'[id].status)
                  /\ records'[id].status # "superseded",
         \A id \in Ids' \ Ids : records'[id].status = "candidate",
         \A i \in Ids : records'[i].status = "active" /\ records[i].status # "active" =>
            /\ SlotFreeFor(i, records[i].slot, {})
            /\ \A k \in Ids : records'[k].status = "active" /\ records[k].status # "active" => k = i
  PROVE  FactsAreConsistent' /\ Aged
  <1>0. /\ Len(records) \in Nat /\ Len(records') \in Nat
        /\ Ids = 1 .. Len(records) /\ Ids' = 1 .. Len(records')
    BY SMT DEF Ids
  <1>1. Ids \subseteq Ids' BY <1>0, SMT
  <1>2. Aged BY DEF Aged, CanTransition
  <1>3. OneActivePerSlot'
    <2>. SUFFICES ASSUME NEW i \in Ids', NEW k \in Ids',
                         records'[i].status = "active", records'[k].status = "active",
                         records'[i].slot = records'[k].slot, records'[i].slot # NoSlot
                  PROVE  i = k
      BY DEF OneActivePerSlot
    <2>1. i \in Ids /\ k \in Ids OBVIOUS
    <2>2. records[i].slot = records[k].slot /\ records[i].slot # NoSlot BY <2>1 DEF Steady
    <2>3. CASE records[i].status = "active" /\ records[k].status = "active"
      BY <2>1, <2>2, <2>3 DEF FactsAreConsistent, OneActivePerSlot
    <2>4. CASE records[i].status # "active"
      BY <2>1, <2>2, <2>4 DEF SlotFreeFor
    <2>5. CASE records[k].status # "active"
      BY <2>1, <2>2, <2>5 DEF SlotFreeFor
    <2>. QED BY <2>3, <2>4, <2>5
  <1>4. SupersessionIsMutual'
    <2>. SUFFICES ASSUME NEW t \in Ids', records'[t].status = "superseded"
                  PROVE  LET c == records'[t].supersededBy
                         IN  /\ c \in Ids'
                             /\ records'[c].supersedes = t
                             /\ records'[c].lineage = records'[t].lineage
                             /\ records'[c].lver > records'[t].lver
                             /\ records'[c].status \notin {"candidate", "rejected"}
      BY DEF SupersessionIsMutual
    <2>1. t \in Ids /\ records[t].status = "superseded" OBVIOUS
    <2>. DEFINE c == records[t].supersededBy
    <2>2. /\ c \in Ids /\ records[c].supersedes = t
          /\ records[c].lineage = records[t].lineage /\ records[c].lver > records[t].lver
          /\ records[c].status \notin {"candidate", "rejected"}
      BY <2>1 DEF FactsAreConsistent, SupersessionIsMutual
    <2>3. records'[t].supersededBy = c BY <2>1
    <2>. HIDE DEF c
    <2>4. records'[c].status \notin {"candidate", "rejected"} BY <2>2 DEF CanTransition
    <2>. QED BY <1>1, <2>1, <2>2, <2>3, <2>4 DEF Steady
  <1>. QED BY <1>2, <1>3, <1>4 DEF FactsAreConsistent

LEMMA Put ==
  ASSUME NEW S, NEW s \in Seq(S), NEW i \in 1 .. Len(s), NEW x \in S
  PROVE  LET z == [s EXCEPT ![i] = x]
         IN  /\ z \in Seq(S) /\ Len(z) = Len(s) /\ z[i] = x
             /\ \A k \in 1 .. Len(s) : k # i => z[k] = s[k]
  BY SMT

LEMMA Queued == NoRow \in Row /\ [NoRow EXCEPT !.status = "pending"] \in Row
  BY SMT DEF NoRow, Row

\* Inserting a candidate, which may replace others that are still open.
LEMMA Inserting ==
  ASSUME StoreTyped, FactsAreConsistent, NEW new \in Record, new.status = "candidate",
         NEW targets, \A t \in targets : t.to = "rejected", NEW key,
         CommitMutation(new, targets, key)
  PROVE  /\ StoreTyped' /\ FactsAreConsistent' /\ Aged
         /\ Len(records') = Len(records) + 1 /\ records'[NextId] = new
         /\ \A t \in targets : /\ t.id \in Ids /\ records[t.id].status = "candidate"
                               /\ records'[t.id].status = "rejected"
         /\ ~KeyUsed(key)
         /\ \E old : audit' = audit \union
               {EventRow(key, NextId, old, "candidate", new.text, NextId)}
  <1>. DEFINE n == Len(records)
              moved == [id \in Ids |-> MovedBy(id, targets)]
  <1>0. /\ records \in Seq(Record) /\ n \in Nat /\ Ids = 1 .. n /\ NextId = n + 1
        /\ \A id \in Ids : records[id] \in Record /\ id \in Nat
    BY Rows DEF StoreTyped, NextId
  <1>1. \A id \in Ids :
           \/ MovedBy(id, targets) = records[id]
           \/ /\ \E t \in targets : t.id = id /\ CanTransition(records[id].status, t.to)
              /\ MovedBy(id, targets) \in Record /\ MovedBy(id, targets).status = "rejected"
              /\ Steady(records[id], MovedBy(id, targets))
              /\ MovedBy(id, targets).supersededBy = records[id].supersededBy
    <2>. TAKE id \in Ids
    <2>1. CASE ~\E t \in targets : t.id = id BY <2>1 DEF MovedBy
    <2>2. CASE \E t \in targets : t.id = id
      <3>. DEFINE t == CHOOSE t \in targets : t.id = id
                  y == Moved(records[id], "rejected")
                  b == IF t.to = "superseded" THEN NextId ELSE y.supersededBy
      <3>1. t \in targets /\ t.id = id BY <2>2
      <3>2. t.to = "rejected" BY <3>1
      <3>3. CanTransition(records[id].status, t.to)
        BY <3>1 DEF CommitMutation, CanCommitMutation, TargetPinned
      <3>4. MovedBy(id, targets) = [y EXCEPT !.supersededBy = b]
        BY <2>2, <3>2 DEF MovedBy
      <3>5. /\ y \in Record /\ y.status = "rejected" /\ Steady(records[id], y)
            /\ y.supersededBy = records[id].supersededBy
        BY <1>0, MovedTyped DEF Statuses
      <3>. HIDE DEF t, y
      <3>6. b = y.supersededBy BY <3>2
      <3>7. y.supersededBy \in Nat BY <3>5, SMT DEF Record
      <3>. HIDE DEF b
      <3>8. LET z == [y EXCEPT !.supersededBy = b]
            IN  z \in Record /\ z.status = y.status /\ Steady(y, z) /\ z.supersededBy = b
        BY <3>5, <3>6, <3>7, ReplacedTyped
      <3>. QED BY <3>1, <3>3, <3>4, <3>5, <3>6, <3>8 DEF Steady
    <2>. QED BY <2>1, <2>2
  <1>2. \A id \in Ids : MovedBy(id, targets) \in Record BY <1>0, <1>1
  <1>3. moved \in Seq(Record) /\ Len(moved) = n
    <2>1. moved \in [1 .. n -> Record] BY <1>0, <1>2
    <2>. QED BY <1>0, <2>1, SMT
  <1>4. records' = Append(moved, new) BY DEF CommitMutation
  <1>. HIDE DEF moved
  <1>5. records' \in Seq(Record) /\ Len(records') = n + 1 /\ records'[n + 1] = new
        /\ \A id \in 1 .. n : records'[id] = moved[id]
    BY <1>0, <1>3, <1>4, SMT
  <1>6. \A id \in Ids : records'[id] = MovedBy(id, targets) BY <1>0, <1>5 DEF moved
  <1>. HIDE DEF n
  <1>7. FactsAreConsistent' /\ Aged
    <2>1. \A id \in Ids :
            /\ Steady(records[id], records'[id])
            /\ records'[id].supersededBy = records[id].supersededBy
            /\ \/ records'[id].status = records[id].status
               \/ /\ CanTransition(records[id].status, records'[id].status)
                  /\ records'[id].status = "rejected"
      <3>. TAKE id \in Ids
      <3>1. CASE MovedBy(id, targets) = records[id] BY <1>6, <3>1 DEF Steady
      <3>2. CASE MovedBy(id, targets) # records[id] BY <1>1, <1>6, <3>2
      <3>. QED BY <3>1, <3>2
    <2>2. \A id \in Ids' \ Ids : records'[id].status = "candidate"
      <3>1. \A id \in Ids' \ Ids : id = n + 1 BY <1>0, <1>5, SMT DEF Ids
      <3>. QED BY <1>5, <3>1
    <2>3. \A i \in Ids : ~(records'[i].status = "active" /\ records[i].status # "active")
      BY <2>1
    <2>4. Len(records) <= Len(records') BY <1>0, <1>5, SMT DEF n
    <2>5. \A id \in Ids : records'[id].status = "rejected" => records'[id].status # "superseded"
      OBVIOUS
    <2>. QED BY <1>0, <1>5, <2>1, <2>2, <2>3, <2>4, <2>5, StaysConsistent
  <1>8. StoreTyped'
    <2>2. outbox' = Append(outbox, NoRow) BY DEF CommitMutation
    <2>3. outbox' \in Seq(Row) /\ Len(outbox') = Len(outbox) + 1
      BY Queued, <2>2, SMT DEF StoreTyped
    <2>4. version' \in Nat BY SMT DEF CommitMutation, BumpVersion, StoreTyped
    <2>. QED BY <1>5, <2>3, <2>4 DEF StoreTyped, n
  <1>9. \A t \in targets : /\ t.id \in Ids /\ records[t.id].status = "candidate"
                           /\ records'[t.id].status = "rejected"
    <2>. SUFFICES ASSUME NEW t \in targets
                  PROVE  /\ t.id \in Ids /\ records[t.id].status = "candidate"
                         /\ records'[t.id].status = "rejected"
      OBVIOUS
    <2>1. t.id \in Ids /\ CanTransition(records[t.id].status, "rejected")
      BY DEF CommitMutation, CanCommitMutation, TargetPinned
    <2>2. records[t.id].status = "candidate" BY <2>1 DEF CanTransition
    <2>3. MovedBy(t.id, targets).status = "rejected"
      <3>. DEFINE id == t.id
                  u == CHOOSE u \in targets : u.id = id
      <3>1. u \in targets /\ u.to = "rejected" OBVIOUS
      <3>2. MovedBy(id, targets) = [Moved(records[id], "rejected") EXCEPT
                 !.supersededBy = IF u.to = "superseded" THEN NextId ELSE @]
        BY <3>1 DEF MovedBy
      <3>. HIDE DEF u
      <3>3. Moved(records[id], "rejected") \in Record
            /\ Moved(records[id], "rejected").status = "rejected"
        BY <1>0, <2>1, MovedTyped DEF Statuses
      <3>. QED BY <3>2, <3>3, SMT DEF Record
    <2>. QED BY <1>6, <2>1, <2>2, <2>3
  <1>10. ~KeyUsed(key) /\ \E old : audit' = audit \union
               {EventRow(key, NextId, old, "candidate", new.text, NextId)}
    BY DEF CommitMutation
  <1>. QED BY <1>0, <1>5, <1>7, <1>8, <1>9, <1>10 DEF n

\* Approving or rejecting a candidate.
LEMMA Transiting ==
  ASSUME StoreTyped, FactsAreConsistent, NEW id, NEW rver, NEW to \in {"active", "rejected"},
         NEW key, TransitionMemory(id, rver, to, key)
  PROVE  /\ StoreTyped' /\ FactsAreConsistent' /\ Aged /\ Len(records') = Len(records)
         /\ id \in Ids /\ records[id].status = "candidate" /\ records'[id].status = to
         /\ ~KeyUsed(key)
         /\ audit' = audit \union
               {EventRow(key, id, records[id].status, to, records[id].text, id)}
  <1>. DEFINE n == Len(records)
  <1>0. /\ records \in Seq(Record) /\ n \in Nat /\ Ids = 1 .. n
        /\ \A k \in Ids : records[k] \in Record /\ k \in Nat
    BY Rows DEF StoreTyped
  <1>1. /\ id \in Ids /\ CanTransition(records[id].status, to)
        /\ to = "active" => SlotFreeFor(id, records[id].slot, {})
    BY DEF TransitionMemory, CanTransitionMemory
  <1>2. records[id].status = "candidate" BY <1>1 DEF CanTransition
  <1>. DEFINE y == Moved(records[id], to)
  <1>3. /\ y \in Record /\ y.status = to /\ Steady(records[id], y)
        /\ y.supersededBy = records[id].supersededBy
    BY <1>0, <1>1, MovedTyped DEF Statuses
  <1>4. records' = [records EXCEPT ![id] = y] BY DEF TransitionMemory
  <1>. HIDE DEF y
  <1>5. /\ records' \in Seq(Record) /\ Len(records') = n /\ records'[id] = y
        /\ \A k \in Ids : k # id => records'[k] = records[k]
    BY <1>0, <1>1, <1>3, <1>4, SMT
  <1>6. FactsAreConsistent' /\ Aged
    <2>1. \A k \in Ids :
            /\ Steady(records[k], records'[k])
            /\ records'[k].supersededBy = records[k].supersededBy
            /\ \/ records'[k].status = records[k].status
               \/ /\ CanTransition(records[k].status, records'[k].status)
                  /\ records'[k].status # "superseded"
      BY <1>1, <1>3, <1>5 DEF Steady
    <2>2. Ids' = Ids BY <1>5 DEF Ids
    <2>3. \A i \in Ids : records'[i].status = "active" /\ records[i].status # "active" =>
            /\ SlotFreeFor(i, records[i].slot, {})
            /\ \A k \in Ids : records'[k].status = "active" /\ records[k].status # "active" => k = i
      BY <1>1, <1>3, <1>5
    <2>4. Len(records) <= Len(records') BY <1>0, <1>5, SMT
    <2>. QED BY <1>0, <1>5, <2>1, <2>2, <2>3, <2>4, StaysConsistent
  <1>7. StoreTyped'
    <2>1. id \in 1 .. Len(outbox) BY <1>0, <1>1 DEF StoreTyped
    <2>2. outbox' = outbox \/ outbox' = [outbox EXCEPT ![id] = [NoRow EXCEPT !.status = "pending"]]
      BY DEF TransitionMemory, Enqueued
    <2>3. outbox' \in Seq(Row) /\ Len(outbox') = Len(outbox)
      BY <2>1, <2>2, Queued, Put, SMTT(20) DEF StoreTyped
    <2>4. version' \in Nat BY SMT DEF TransitionMemory, BumpVersion, StoreTyped
    <2>. QED BY <1>5, <2>3, <2>4 DEF StoreTyped
  <1>. QED BY <1>1, <1>2, <1>3, <1>5, <1>6, <1>7 DEF TransitionMemory

\* Approving a candidate that replaces an active memory.
LEMMA Superseded ==
  ASSUME StoreTyped, FactsAreConsistent, NEW c, NEW cver, NEW t, NEW tver, NEW key,
         ActivateCandidateSuperseding(c, cver, t, tver, key)
  PROVE  /\ StoreTyped' /\ FactsAreConsistent' /\ Aged /\ Len(records') = Len(records)
         /\ c \in Ids /\ t \in Ids /\ records[c].status = "candidate"
         /\ records'[c].status = "active"
         /\ ~KeyUsed(key)
         /\ audit' = audit \union
              {EventRow(key, c, "candidate", "active", records[c].text, c),
               EventRow(<<key, "target">>, t, "active", "superseded", records[c].text, c)}
  <1>. DEFINE n == Len(records)
              x == Moved(records[t], "superseded")
              old == [x EXCEPT !.supersededBy = c]
              new == Moved(records[c], "active")
              mid == [records EXCEPT ![t] = old]
  <1>0. /\ records \in Seq(Record) /\ n \in Nat /\ Ids = 1 .. n
        /\ \A k \in Ids : records[k] \in Record /\ k \in Nat
    BY Rows DEF StoreTyped
  <1>1. CanSupersede(c, cver, t, tver) BY DEF ActivateCandidateSuperseding
  <1>2. c \in Ids /\ t \in Ids /\ c # t /\ SlotFreeFor(c, records[c].slot, {t})
    BY <1>1 DEF CanSupersede
  <1>3. /\ records[c].status = "candidate" /\ records[t].status = "active"
        /\ records[c].supersedes = t /\ records[c].lineage = records[t].lineage
        /\ records[c].lver > records[t].lver
    BY <1>1 DEF CanSupersede
  <1>4. x \in Record /\ x.status = "superseded" /\ Steady(records[t], x)
    BY <1>0, <1>2, MovedTyped DEF Statuses
  <1>5. new \in Record /\ new.status = "active" /\ Steady(records[c], new)
        /\ new.supersededBy = records[c].supersededBy
    BY <1>0, <1>2, MovedTyped DEF Statuses
  <1>6. old \in Record /\ old.status = "superseded" /\ Steady(records[t], old)
        /\ old.supersededBy = c
    <2>. HIDE DEF x
    <2>1. c \in Nat BY <1>0, <1>2
    <2>. QED BY <1>4, <2>1, ReplacedTyped DEF Steady
  <1>7. records' = [mid EXCEPT ![c] = new]
    BY <1>2 DEF ActivateCandidateSuperseding
  <1>. HIDE DEF x, old, new
  <1>8. /\ mid \in Seq(Record) /\ Len(mid) = n /\ mid[t] = old
        /\ \A k \in Ids : k # t => mid[k] = records[k]
    BY <1>0, <1>2, <1>6, Put
  <1>. HIDE DEF mid
  <1>9. /\ records' \in Seq(Record) /\ Len(records') = n /\ records'[c] = new
        /\ \A k \in Ids : k # c => records'[k] = mid[k]
    BY <1>0, <1>2, <1>5, <1>7, <1>8, Put
  <1>10. records'[t] = old /\ \A k \in Ids : k \notin {c, t} => records'[k] = records[k]
    BY <1>2, <1>8, <1>9
  <1>11. Ids' = Ids BY <1>9 DEF Ids
  <1>12. \A k \in Ids : Steady(records[k], records'[k])
    BY <1>5, <1>6, <1>9, <1>10 DEF Steady
  <1>13. Aged
    <2>1. Len(records) <= Len(records') BY <1>0, <1>9, SMT
    <2>. QED BY <1>3, <1>5, <1>6, <1>9, <1>10, <2>1 DEF Aged
  <1>14. OneActivePerSlot'
    <2>. SUFFICES ASSUME NEW i \in Ids, NEW k \in Ids,
                         records'[i].status = "active", records'[k].status = "active",
                         records'[i].slot = records'[k].slot, records'[i].slot # NoSlot
                  PROVE  i = k
      BY <1>11 DEF OneActivePerSlot
    <2>1. i # t /\ k # t BY <1>6, <1>10
    <2>2. records[i].slot = records[k].slot /\ records[i].slot # NoSlot
      BY <1>12 DEF Steady
    <2>3. CASE i # c /\ k # c
      BY <1>10, <2>1, <2>2, <2>3 DEF FactsAreConsistent, OneActivePerSlot
    <2>4. CASE i = c /\ k # c
      BY <1>2, <1>10, <2>1, <2>2, <2>4 DEF SlotFreeFor
    <2>5. CASE i # c /\ k = c
      BY <1>2, <1>10, <2>1, <2>2, <2>5 DEF SlotFreeFor
    <2>. QED BY <2>3, <2>4, <2>5
  <1>15. SupersessionIsMutual'
    <2>. SUFFICES ASSUME NEW u \in Ids, records'[u].status = "superseded"
                  PROVE  LET d == records'[u].supersededBy
                         IN  /\ d \in Ids
                             /\ records'[d].supersedes = u
                             /\ records'[d].lineage = records'[u].lineage
                             /\ records'[d].lver > records'[u].lver
                             /\ records'[d].status \notin {"candidate", "rejected"}
      BY <1>11 DEF SupersessionIsMutual
    <2>1. CASE u = t
      BY <1>2, <1>3, <1>5, <1>6, <1>9, <1>10, <1>12, <2>1 DEF Steady
    <2>2. CASE u # t
      <3>1. u # c /\ records'[u] = records[u] /\ records[u].status = "superseded"
        BY <1>5, <1>9, <1>10, <2>2
      <3>. DEFINE d == records[u].supersededBy
      <3>2. /\ d \in Ids /\ records[d].supersedes = u
            /\ records[d].lineage = records[u].lineage /\ records[d].lver > records[u].lver
            /\ records[d].status \notin {"candidate", "rejected"}
        BY <3>1 DEF FactsAreConsistent, SupersessionIsMutual
      <3>. HIDE DEF d
      <3>3. records'[d].status \notin {"candidate", "rejected"}
        BY <1>5, <1>6, <1>9, <1>10, <3>2
      <3>4. Steady(records[d], records'[d]) BY <1>12, <3>2
      <3>. QED BY <3>1, <3>2, <3>3, <3>4 DEF Steady, d
    <2>. QED BY <2>1, <2>2
  <1>16. StoreTyped'
    <2>1. c \in 1 .. Len(outbox) BY <1>0, <1>2 DEF StoreTyped
    <2>2. outbox' = [outbox EXCEPT ![c] = [NoRow EXCEPT !.status = "pending"]]
      BY DEF ActivateCandidateSuperseding, Enqueued
    <2>3. outbox' \in Seq(Row) /\ Len(outbox') = Len(outbox)
      BY <2>1, <2>2, Queued, Put DEF StoreTyped
    <2>4. version' \in Nat BY SMT DEF ActivateCandidateSuperseding, BumpVersion, StoreTyped
    <2>. QED BY <1>9, <2>3, <2>4 DEF StoreTyped
  <1>. QED
    BY <1>2, <1>3, <1>5, <1>9, <1>13, <1>14, <1>15, <1>16
    DEF ActivateCandidateSuperseding, FactsAreConsistent

\* Expiry, and time.
LEMMA Expiring ==
  ASSUME StoreTyped, FactsAreConsistent, Expire
  PROVE  StoreTyped' /\ FactsAreConsistent' /\ Aged /\ Len(records') = Len(records)
  <1>. DEFINE n == Len(records)
  <1>0. /\ records \in Seq(Record) /\ n \in Nat /\ Ids = 1 .. n
        /\ \A k \in Ids : records[k] \in Record /\ k \in Nat
    BY Rows DEF StoreTyped
  <1>1. records' = [id \in 1 .. n |-> IF Due(id) THEN Moved(records[id], "expired") ELSE records[id]]
    BY <1>0 DEF Expire
  <1>2. \A id \in Ids :
           LET y == Moved(records[id], "expired")
           IN  y \in Record /\ y.status = "expired" /\ Steady(records[id], y)
               /\ y.supersededBy = records[id].supersededBy
    BY <1>0, MovedTyped DEF Statuses
  <1>3. \A id \in Ids :
           /\ records'[id] \in Record /\ Steady(records[id], records'[id])
           /\ records'[id].supersededBy = records[id].supersededBy
           /\ \/ records'[id].status = records[id].status
              \/ /\ CanTransition(records[id].status, records'[id].status)
                 /\ records'[id].status = "expired"
    <2>. TAKE id \in Ids
    <2>1. CASE Due(id) BY <1>0, <1>1, <1>2, <2>1 DEF Due, CanTransition
    <2>2. CASE ~Due(id)
      <3>1. records'[id] = records[id] BY <1>0, <1>1, <2>2
      <3>. QED BY <1>0, <3>1 DEF Steady
    <2>. QED BY <2>1, <2>2
  <1>4. records' \in Seq(Record) /\ Len(records') = n
    <2>1. records' \in [1 .. n -> Record] BY <1>0, <1>1, <1>3
    <2>. QED BY <1>0, <2>1, SMT
  <1>5. FactsAreConsistent' /\ Aged
    <2>1. Ids' = Ids BY <1>4 DEF Ids
    <2>2. Len(records) <= Len(records') BY <1>0, <1>4, SMT
    <2>. QED BY <1>0, <1>3, <1>4, <2>1, <2>2, StaysConsistent
  <1>6. version' \in Nat BY SMT DEF Expire, BumpVersion, StoreTyped
  <1>. QED BY <1>4, <1>5, <1>6 DEF StoreTyped, Expire

LEMMA Elapsing ==
  ASSUME StoreTyped, FactsAreConsistent, NEW id \in Ids, Elapse(id)
  PROVE  StoreTyped' /\ FactsAreConsistent' /\ Aged /\ Len(records') = Len(records)
  <1>. DEFINE n == Len(records)
              y == [records[id] EXCEPT !.elapsed = TRUE]
  <1>0. /\ records \in Seq(Record) /\ n \in Nat /\ Ids = 1 .. n
        /\ \A k \in Ids : records[k] \in Record /\ k \in Nat
    BY Rows DEF StoreTyped
  <1>1. records' = [records EXCEPT ![id] = y] BY DEF Elapse
  <1>2. /\ y \in Record /\ Steady(records[id], y) /\ y.status = records[id].status
        /\ y.supersededBy = records[id].supersededBy
    <2>1. \A x \in Record, b \in BOOLEAN : [x EXCEPT !.elapsed = b] \in Record
      BY ZenonT(30) DEF Record
    <2>2. \A x \in Record : LET z == [x EXCEPT !.elapsed = TRUE]
             IN  Steady(x, z) /\ z.status = x.status /\ z.supersededBy = x.supersededBy
      BY SMT DEF Record, Steady
    <2>. QED BY <1>0, <2>1, <2>2
  <1>. HIDE DEF y
  <1>3. /\ records' \in Seq(Record) /\ Len(records') = n /\ records'[id] = y
        /\ \A k \in Ids : k # id => records'[k] = records[k]
    BY <1>0, <1>1, <1>2, Put
  <1>4. \A k \in Ids : /\ Steady(records[k], records'[k])
                       /\ records'[k].status = records[k].status
                       /\ records'[k].supersededBy = records[k].supersededBy
    BY <1>2, <1>3 DEF Steady
  <1>5. FactsAreConsistent' /\ Aged
    <2>1. Ids' = Ids BY <1>3 DEF Ids
    <2>2. Len(records) <= Len(records') BY <1>0, <1>3, SMT
    <2>. QED BY <1>0, <1>3, <1>4, <2>1, <2>2, StaysConsistent
  <1>. QED BY <1>3, <1>5 DEF StoreTyped, Elapse

-----------------------------------------------------------------------------
(* What the audit table says after a step.                                   *)

\* Events of no run.
Plain(e) == e.key[2] \in {"target", "expiry"} /\ e.new # "active"

LEMMA CandidateRows ==
  ASSUME Audited, NEW r
  PROVE  CandidatesOf(r) \subseteq Ids
  BY DEF Audited, EventFits, CandidatesOf

LEMMA EventKept ==
  ASSUME NEW e \in audit, EventFits(e), Ids \subseteq Ids', approvals \subseteq approvals',
         \A r \in Runs : /\ ctl[r].attempt \in Nat /\ ctl'[r].attempt \in Nat
                         /\ ctl[r].attempt <= ctl'[r].attempt
                         /\ CandidatesOf(r) \subseteq CandidatesOf(r)'
  PROVE  EventFits(e)'
  <1>1. ASSUME e.key[2] = "review"
        PROVE  e.key[1] \in Runs /\ e.key[3] \in 1 .. ctl'[e.key[1]].attempt + 1
    <2>1. e.key[1] \in Runs /\ e.key[3] \in 1 .. ctl[e.key[1]].attempt + 1
      BY <1>1 DEF EventFits
    <2>. DEFINE a == ctl[e.key[1]].attempt
                b == ctl'[e.key[1]].attempt
                k == e.key[3]
    <2>2. a \in Nat /\ b \in Nat /\ a <= b BY <2>1
    <2>3. k \in 1 .. a + 1 BY <2>1
    <2>. HIDE DEF a, b, k
    <2>4. k \in 1 .. b + 1 BY <2>2, <2>3, SMT
    <2>. QED BY <2>1, <2>4 DEF b, k
  <1>. QED BY <1>1 DEF EventFits

\* A step that records nothing.
LEMMA NothingRecorded ==
  ASSUME Audited, audit' = audit, Ids \subseteq Ids', approvals \subseteq approvals',
         \A r \in Runs : /\ ctl[r].attempt \in Nat /\ ctl'[r].attempt \in Nat
                         /\ ctl[r].attempt <= ctl'[r].attempt
  PROVE  /\ Audited'
         /\ \A q : CandidatesOf(q)' = CandidatesOf(q) /\ Commits(q)' = Commits(q)
         /\ \A q, n : Edited(q, n)' <=> Edited(q, n)
  <1>1. \A q : CandidatesOf(q)' = CandidatesOf(q) /\ Commits(q)' = Commits(q)
    BY DEF CandidatesOf, Commits
  <1>2. \A q, n : Edited(q, n)' <=> Edited(q, n) BY DEF Edited, KeyUsed
  <1>3. \A e \in audit : EventFits(e)' BY <1>1, EventKept DEF Audited
  <1>. QED BY <1>1, <1>2, <1>3 DEF Audited

LEMMA PlainRecorded ==
  ASSUME Audited, NEW S, audit' = audit \union S, \A e \in S : Plain(e),
         Ids \subseteq Ids', UNCHANGED <<ctl, approvals>>,
         \A r \in Runs : ctl[r].attempt \in Nat
  PROVE  /\ Audited'
         /\ \A q : CandidatesOf(q)' = CandidatesOf(q) /\ Commits(q)' = Commits(q)
         /\ \A q, n : Edited(q, n)' <=> Edited(q, n)
  <1>1. \A q : CandidatesOf(q)' = CandidatesOf(q) BY DEF CandidatesOf, Plain
  <1>2. \A q : Commits(q)' = Commits(q)
    <2>1. \A q : <<q, "commit", 1, 0>>[2] = "commit" OBVIOUS
    <2>. QED BY <2>1 DEF Commits, Plain
  <1>3. \A q, n : Edited(q, n)' <=> Edited(q, n)
    <2>1. \A q, n : <<q, "review", n, 1>>[2] = "review" OBVIOUS
    <2>. QED BY <2>1 DEF Edited, KeyUsed, Plain
  <1>4. \A r \in Runs : /\ ctl'[r].attempt \in Nat /\ ctl[r].attempt <= ctl'[r].attempt
    BY SMT
  <1>5. \A e \in audit : EventFits(e)' BY <1>1, <1>4, EventKept DEF Audited
  <1>6. \A e \in S : EventFits(e)' BY DEF EventFits, Plain
  <1>7. \A e \in audit' :
          e.key[2] \in {"review", "commit"} => e \in audit
    BY DEF Plain
  <1>. QED BY <1>1, <1>2, <1>3, <1>5, <1>6, <1>7 DEF Audited

\* A candidate is inserted for run r.
LEMMA CandidateRecorded ==
  ASSUME Audited, NEW r \in Runs, NEW m, NEW i, NEW id, NEW e,
         e.key = <<r, "review", m, i>>, e.memory = id, e.result = id, e.new = "candidate",
         audit' = audit \union {e}, id \notin Ids, id \in Ids', Ids \subseteq Ids',
         UNCHANGED <<ctl, approvals>>, \A q \in Runs : ctl[q].attempt \in Nat,
         m \in 1 .. ctl[r].attempt + 1
  PROVE  /\ Audited'
         /\ CandidatesOf(r)' = CandidatesOf(r) \union {id}
         /\ \A q : q # r => CandidatesOf(q)' = CandidatesOf(q)
         /\ \A q : Commits(q)' = Commits(q)
         /\ \A q, n : Edited(q, n)' <=> Edited(q, n) \/ (q = r /\ n = m /\ i = 1)
  <1>0. e.key[1] = r /\ e.key[2] = "review" /\ e.key[3] = m OBVIOUS
  <1>1. CandidatesOf(r)' = CandidatesOf(r) \union {id} BY <1>0 DEF CandidatesOf
  <1>2. \A q : q # r => CandidatesOf(q)' = CandidatesOf(q) BY <1>0 DEF CandidatesOf
  <1>3. \A q : Commits(q)' = Commits(q)
    <2>1. \A q : <<q, "commit", 1, 0>>[2] = "commit" OBVIOUS
    <2>. QED BY <1>0, <2>1 DEF Commits
  <1>4. \A q, n : Edited(q, n)' <=> Edited(q, n) \/ (q = r /\ n = m /\ i = 1)
    <2>1. \A q, n : <<q, "review", n, 1>> = <<r, "review", m, i>> <=> q = r /\ n = m /\ i = 1
      BY SMT
    <2>. QED BY <2>1 DEF Edited, KeyUsed
  <1>5. \A q \in Runs : /\ ctl'[q].attempt \in Nat /\ ctl[q].attempt <= ctl'[q].attempt
                        /\ CandidatesOf(q) \subseteq CandidatesOf(q)'
    BY <1>1, <1>2, SMT
  <1>6. \A f \in audit : EventFits(f)' BY <1>5, EventKept DEF Audited
  <1>7. EventFits(e)' BY <1>0 DEF EventFits
  <1>8. \A f \in audit : f.key[2] = "review" => f.memory # id BY DEF Audited, EventFits
  <1>. QED BY <1>0, <1>1, <1>2, <1>3, <1>4, <1>6, <1>7, <1>8 DEF Audited

\* Run r decides on its candidate id.
LEMMA DecisionRecorded ==
  ASSUME Audited, NEW r \in Runs, NEW id \in CandidatesOf(r), NEW e, NEW S,
         e.key = <<r, "commit", 1, 0>>, e.memory = id, e.result = id,
         e.new = "active" => <<r, id>> \in approvals,
         ~KeyUsed(<<r, "commit", 1, 0>>),
         audit' = audit \union S, e \in S, \A f \in S : f = e \/ Plain(f),
         Ids \subseteq Ids', UNCHANGED <<ctl, approvals>>,
         \A q \in Runs : ctl[q].attempt \in Nat
  PROVE  /\ Audited'
         /\ \A q : CandidatesOf(q)' = CandidatesOf(q)
         /\ Commits(r) = {} /\ Commits(r)' = {e}
         /\ \A q : q # r => Commits(q)' = Commits(q)
         /\ \A q, n : Edited(q, n)' <=> Edited(q, n)
  <1>0. e.key[1] = r /\ e.key[2] = "commit" OBVIOUS
  <1>1. \A q : CandidatesOf(q)' = CandidatesOf(q) BY <1>0 DEF CandidatesOf, Plain
  <1>2. Commits(r) = {} BY DEF Commits, KeyUsed
  <1>3. \A q : <<q, "commit", 1, 0>>[2] = "commit" /\ <<q, "commit", 1, 0>>[1] = q OBVIOUS
  <1>4. Commits(r)' = {e} BY <1>2, <1>3 DEF Commits, Plain
  <1>5. \A q : q # r => Commits(q)' = Commits(q) BY <1>0, <1>3 DEF Commits, Plain
  <1>6. \A q, n : Edited(q, n)' <=> Edited(q, n)
    <2>1. \A q, n : <<q, "review", n, 1>>[2] = "review" OBVIOUS
    <2>. QED BY <1>0, <2>1 DEF Edited, KeyUsed, Plain
  <1>7. \A q \in Runs : /\ ctl'[q].attempt \in Nat /\ ctl[q].attempt <= ctl'[q].attempt
    BY SMT
  <1>8. \A f \in audit : EventFits(f)' BY <1>1, <1>7, EventKept DEF Audited
  <1>9. EventFits(e)' BY <1>0, <1>1 DEF EventFits
  <1>10. \A f \in S : f # e => EventFits(f)' BY DEF EventFits, Plain
  <1>11. \A f \in audit : f.key # e.key BY DEF KeyUsed
  <1>12. \A f \in audit' : f.key[2] = "review" => f \in audit BY <1>0 DEF Plain
  <1>13. \A f \in audit' : f.key[2] = "commit" => f \in audit \/ f = e BY DEF Plain
  <1>. QED
    BY <1>1, <1>2, <1>4, <1>5, <1>6, <1>8, <1>9, <1>10, <1>11, <1>12, <1>13 DEF Audited

-----------------------------------------------------------------------------
(* Runs and segments a step does not touch.                                  *)

LEMMA RunKept ==
  ASSUME NEW q \in Runs, RunFits(q), Audited, Aged, ctl'[q] = ctl[q],
         CandidatesOf(q)' = CandidatesOf(q), Commits(q)' = Commits(q),
         \A n : Edited(q, n)' <=> Edited(q, n)
  PROVE  RunFits(q)'
  <1>1. CandidatesOf(q) \subseteq Ids BY CandidateRows
  <1>2. \A i \in CandidatesOf(q) : IsOpen(i)' => IsOpen(i) BY <1>1 DEF IsOpen, Aged
  <1>3. ctl[q].status = "suspended" => Pending(q, ctl[q].data.review, ctl[q].attempt)'
    BY <1>1 DEF RunFits, Pending, Aged
  <1>4. ctl[q].status = "completed" => Settled(q, ctl[q].data)' BY DEF RunFits, Settled
  <1>. QED BY <1>2, <1>3, <1>4 DEF RunFits

LEMMA JobKept ==
  ASSUME NEW w \in Workers, JobFits(at[w], job[w]), at'[w] = at[w], job'[w] = job[w],
         Audited, Aged, at[w] # "idle" => ctl'[job[w].run] = ctl[job[w].run],
         CandidatesOf(job[w].run) \subseteq CandidatesOf(job[w].run)',
         at[w] # "idle" /\ job[w].action = "none" =>
            CandidatesOf(job[w].run)' = CandidatesOf(job[w].run),
         Commits(job[w].run) \subseteq Commits(job[w].run)',
         \A n : Edited(job[w].run, n) => Edited(job[w].run, n)',
         approvals \subseteq approvals', 1 .. Len(payloads) \subseteq 1 .. Len(payloads')
  PROVE  JobFits(at[w], job[w])'
  <1>. DEFINE s == at[w]
              j == job[w]
  <1>. SUFFICES ASSUME s # "idle" PROVE JobFits(at[w], job[w])'
    BY DEF JobFits
  <1>1. j.run \in Runs /\ (s = "save" => j.exit # "none") BY DEF JobFits
  <1>2. CandidatesOf(j.run) \subseteq Ids BY CandidateRows
  <1>3. CASE j.action = "none"
    <2>1. FirstFits(s, j) BY <1>3 DEF JobFits
    <2>2. FirstFits(at[w], job[w])' BY <1>3, <2>1 DEF FirstFits
    <2>. QED BY <1>1, <1>3, <2>2 DEF JobFits
  <1>4. CASE j.action # "none" /\ s = "save"
    <2>1. SavingFits(j) BY <1>4 DEF JobFits
    <2>2. SavingFits(job[w])' BY <1>4, <2>1 DEF SavingFits, MaySucceed
    <2>. QED BY <1>1, <1>4, <2>2 DEF JobFits
  <1>5. CASE j.action # "none" /\ s # "save"
    <2>1. ResumedFits(s, j) BY <1>5 DEF JobFits
    <2>2. j.data.review.id \in Ids BY <1>2, <2>1 DEF ResumedFits
    <2>3. IsOpen(j.data.review.id)' => IsOpen(j.data.review.id)
      BY <2>2 DEF IsOpen, Aged
    <2>4. MaySucceed(job[w])' <=> MaySucceed(job[w]) BY DEF MaySucceed
    <2>5. ResumedFits(at[w], job[w])' BY <1>5, <2>1, <2>3, <2>4 DEF ResumedFits
    <2>. QED BY <1>1, <1>5, <2>5 DEF JobFits
  <1>. QED BY <1>3, <1>4, <1>5

\* Typing of a step that gives w another job.
LEMMA FlowKept ==
  ASSUME FlowTyped, Len(records) \in Nat, Len(records') \in Nat, Len(records) <= Len(records'),
         NEW w \in Workers, NEW s \in Places, NEW j \in Job(Len(records')),
         at' = [at EXCEPT ![w] = s], job' = [job EXCEPT ![w] = j]
  PROVE  /\ at' \in [Workers -> Places] /\ job' \in [Workers -> Job(Len(records'))]
         /\ at'[w] = s /\ job'[w] = j
         /\ \A v \in Workers : v # w => at'[v] = at[v] /\ job'[v] = job[v]
         /\ ctl \in [Runs -> Checkpoint(Len(records'))]
  <1>1. Job(Len(records)) \subseteq Job(Len(records'))
        /\ Checkpoint(Len(records)) \subseteq Checkpoint(Len(records'))
    BY Larger
  <1>. QED BY <1>1, SMT DEF FlowTyped

\* A step of w that shows nothing to the others.
LEMMA Silent ==
  ASSUME Inv, UNCHANGED <<records, audit, outbox, version, ctl, holder, approvals>>,
         payloads' \in Seq(Payload), Len(payloads') = Len(payloads),
         NEW w \in Workers, NEW s \in Places, NEW j \in Job(Len(records)),
         at[w] # "idle", Alike(job[w], j), JobFits(s, j),
         at' = [at EXCEPT ![w] = s], job' = [job EXCEPT ![w] = j]
  PROVE  Inv'
  <1>0. Len(records) \in Nat BY Rows DEF Inv, StoreTyped
  <1>1. /\ at' \in [Workers -> Places] /\ job' \in [Workers -> Job(Len(records'))]
        /\ at'[w] = s /\ job'[w] = j
        /\ \A v \in Workers : v # w => at'[v] = at[v] /\ job'[v] = job[v]
        /\ ctl \in [Runs -> Checkpoint(Len(records'))]
    <2>1. Len(records') = Len(records) /\ Len(records) <= Len(records') BY <1>0, SMT
    <2>2. j \in Job(Len(records')) OBVIOUS
    <2>. QED BY <1>0, <2>1, <2>2, FlowKept DEF Inv
  <1>2. FlowTyped' BY <1>1 DEF FlowTyped, Inv
  <1>3. StoreTyped' BY DEF Inv, StoreTyped
  <1>4. FactsAreConsistent'
    BY DEF Inv, FactsAreConsistent, OneActivePerSlot, SupersessionIsMutual, Ids
  <1>5. Aged BY <1>0, SMT DEF Aged
  <1>6. \A r \in Runs : ctl[r].attempt \in Nat /\ ctl[r].attempt <= ctl'[r].attempt
    BY SMT DEF Inv, FlowTyped, Checkpoint
  <1>7. /\ Audited' /\ \A q : CandidatesOf(q)' = CandidatesOf(q) /\ Commits(q)' = Commits(q)
        /\ \A q, n : Edited(q, n)' <=> Edited(q, n)
    <2>1. Ids \subseteq Ids' BY DEF Ids
    <2>. QED BY <1>6, <2>1, NothingRecorded DEF Inv
  <1>8. \A r \in Runs : RunFits(r)'
    BY <1>5, <1>7, RunKept DEF Inv, Flowing
  <1>9. \A v \in Workers : JobFits(at[v], job[v])'
    <2>. TAKE v \in Workers
    <2>1. CASE v # w BY <1>1, <1>5, <1>7, <2>1, JobKept DEF Inv, Flowing
    <2>2. CASE v = w
      <3>1. FirstFits(s, j) => FirstFits(s, j)' BY <1>7 DEF FirstFits
      <3>2. MaySucceed(j)' <=> MaySucceed(j) BY DEF MaySucceed
      <3>3. SavingFits(j) => SavingFits(j)' BY <1>7, <3>2 DEF SavingFits
      <3>4. ResumedFits(s, j) => ResumedFits(s, j)' BY <1>7, <3>2 DEF ResumedFits, IsOpen
      <3>5. JobFits(s, j)' BY <3>1, <3>3, <3>4 DEF JobFits
      <3>. QED BY <1>1, <2>2, <3>5
    <2>. QED BY <2>1, <2>2
  <1>10. OneFirst'
    <2>1. \A v \in Workers : /\ at'[v] # "idle" => at[v] # "idle"
                             /\ job'[v].run = job[v].run /\ job'[v].action = job[v].action
      BY <1>1 DEF Alike
    <2>. QED BY <2>1 DEF Inv, Flowing, OneFirst
  <1>. QED BY <1>2, <1>3, <1>4, <1>7, <1>8, <1>9, <1>10 DEF Inv, Flowing

-----------------------------------------------------------------------------
(* The steps that only read the store.                                       *)

LEMMA WorkerTyped ==
  ASSUME Inv, NEW w \in Workers
  PROVE  /\ Len(records) \in Nat /\ Ids = 1 .. Len(records) /\ at[w] \in Places
         /\ job[w] \in Job(Len(records)) /\ JobFits(at[w], job[w])
         /\ at[w] # "idle" => job[w].run \in Runs
         /\ payloads \in Seq(Payload)
  <1>1. Len(records) \in Nat /\ Ids = 1 .. Len(records) BY Rows DEF Inv, StoreTyped
  <1>2. at[w] \in Places /\ job[w] \in Job(Len(records)) /\ payloads \in Seq(Payload)
    BY DEF Inv, FlowTyped
  <1>3. JobFits(at[w], job[w]) BY DEF Inv, Flowing
  <1>. QED BY <1>1, <1>2, <1>3 DEF JobFits

LEMMA RefsTyped ==
  ASSUME records \in Seq(Record), NEW d
  PROVE  {Ref(id) : id \in FindExact(d)} \in SUBSET Found(Len(records))
  <1>1. \A id \in FindExact(d) : id \in 1 .. Len(records) BY DEF FindExact, Ids
  <1>2. \A id \in 1 .. Len(records) : Ref(id) \in Found(Len(records))
    <2>. TAKE id \in 1 .. Len(records)
    <2>1. records[id] \in Record BY SMT
    <2>2. records[id].lver \in Nat \ {0} /\ records[id].text \in Texts BY <2>1, SMTT(20) DEF Record
    <2>. QED BY <2>2, SMT DEF Ref, Found
  <1>. QED BY <1>1, <1>2

LEMMA ResolutionsTyped ==
  ASSUME NEW n \in Nat, NEW d, NEW refs \in SUBSET Found(n), NEW i
  PROVE  Resolutions(d, {ref.id : ref \in refs}, i) \subseteq Policy(n)
  <1>1. \A ref \in refs : ref.id \in 1 .. n BY SMT DEF Found
  <1>2. ToReviewer \in Policy(n) BY SMT DEF ToReviewer, Policy
  <1>3. \A id \in 1 .. n, p \in Proposals : DecidePolicy(d, id, i, p) \in Policy(n)
    <2>. TAKE id \in 1 .. n, p \in Proposals
    <2>1. [action |-> "noop", target |-> id] \in Policy(n)
          /\ [action |-> "supersede", target |-> id] \in Policy(n)
      BY SMT DEF Policy
    <2>. QED BY <1>2, <2>1 DEF DecidePolicy
  <1>. QED BY <1>1, <1>2, <1>3 DEF Resolutions

\* A segment that ends in failure claims nothing.
LEMMA FailingFits ==
  ASSUME Inv, NEW w \in Workers, at[w] # "idle", NEW k, Alike(job[w], k), k.exit = "failed"
  PROVE  JobFits("save", k)
  <1>1. JobFits(at[w], job[w]) BY WorkerTyped
  <1>2. "save" \notin FirstPass BY DEF FirstPass
  <1>3. job[w].action = "none" => FirstFits("save", k)
    BY <1>1, <1>2 DEF JobFits, FirstFits, Alike
  <1>4. SavingFits(k) BY DEF SavingFits
  <1>. QED BY <1>1, <1>3, <1>4 DEF JobFits, Alike

LEMMA Refused ==
  ASSUME Inv, NEW w \in Workers, at[w] # "idle", Refuse(w), UNCHANGED store
  PROVE  Inv'
  <1>. DEFINE k == [job[w] EXCEPT !.exit = "failed"]
  <1>1. k \in Job(Len(records)) /\ Alike(job[w], k) /\ k.exit = "failed"
    BY WorkerTyped, WithExit
  <1>2. job' = [job EXCEPT ![w] = k] /\ at' = [at EXCEPT ![w] = "save"] BY DEF Refuse, GoTo
  <1>. HIDE DEF k
  <1>3. JobFits("save", k) BY <1>1, FailingFits
  <1>4. UNCHANGED <<records, audit, outbox, version, ctl, holder, approvals, payloads>>
    BY DEF Refuse, Quiet, store
  <1>5. "save" \in Places BY DEF Places
  <1>6. payloads' \in Seq(Payload) /\ Len(payloads') = Len(payloads) BY <1>4, WorkerTyped
  <1>. QED BY <1>1, <1>2, <1>3, <1>4, <1>5, <1>6, Silent

LEMMA Reading ==
  ASSUME Inv, NEW w \in Workers, at[w] # "idle", NEW s \in Places,
         NEW k \in Job(Len(records)), Alike(job[w], k), JobFits(s, k), Read(w, s, k)
  PROVE  Inv'
  <1>1. job' = [job EXCEPT ![w] = k] /\ at' = [at EXCEPT ![w] = s] BY DEF Read, GoTo
  <1>2. UNCHANGED <<records, audit, outbox, version, ctl, holder, approvals, payloads>>
    BY DEF Read, Quiet, store
  <1>3. payloads' \in Seq(Payload) /\ Len(payloads') = Len(payloads) BY <1>2, WorkerTyped
  <1>. QED BY <1>1, <1>2, <1>3, Silent

\* The first pass goes on with the draft it extracted.
LEMMA FirstGoesOn ==
  ASSUME Inv, NEW w \in Workers, at[w] \in FirstPass, NEW s \in FirstPass \union {"commit"},
         NEW k, Alike(job[w], k), k.data.review = job[w].data.review,
         s \in FirstPass => k.data.draft = job[w].data.draft
  PROVE  JobFits(s, k)
  <1>1. JobFits(at[w], job[w]) /\ job[w].run \in Runs BY WorkerTyped DEF FirstPass
  <1>2. at[w] # "save" /\ at[w] # "idle" /\ at[w] \notin Resumed \union {"commit"}
    BY DEF FirstPass, Resumed
  <1>3. job[w].action = "none" /\ FirstFits(at[w], job[w])
    BY <1>1, <1>2 DEF JobFits, ResumedFits
  <1>4. s # "save" /\ s # "idle" BY DEF FirstPass
  <1>5. FirstFits(s, k) BY <1>2, <1>3, <1>4 DEF FirstFits, Alike
  <1>. QED BY <1>1, <1>3, <1>4, <1>5 DEF JobFits, Alike

LEMMA LookupInv ==
  ASSUME Inv, NEW w \in Workers, ExactCandidateLookup(w)
  PROVE  Inv'
  <1>. DEFINE refs == {Ref(id) : id \in FindExact(job[w].data.draft)}
              k == WithCands(job[w], refs)
  <1>1. at[w] = "lookup" /\ Read(w, "conflict", k) BY DEF ExactCandidateLookup, WithCands
  <1>2. refs \in SUBSET Found(Len(records)) BY RefsTyped DEF Inv, StoreTyped
  <1>. HIDE DEF refs
  <1>0. Len(records) \in Nat /\ job[w] \in Job(Len(records)) BY WorkerTyped
  <1>3. /\ k \in Job(Len(records)) /\ Alike(job[w], k)
        /\ k.data.draft = job[w].data.draft /\ k.data.review = job[w].data.review
    BY <1>0, <1>2, SetCands
  <1>. HIDE DEF k
  <1>4. JobFits("conflict", k) BY <1>1, <1>3, FirstGoesOn DEF FirstPass
  <1>5. "conflict" \in Places BY DEF Places, FirstPass
  <1>. QED BY <1>1, <1>3, <1>4, <1>5, Reading

LEMMA ConflictInv ==
  ASSUME Inv, NEW w \in Workers, Conflict(w)
  PROVE  Inv'
  <1>. DEFINE d == job[w].data
  <1>1. at[w] = "conflict" BY DEF Conflict
  <1>2. CASE Unchanged(d.cands)
    <2>1. PICK p \in Resolutions(d.draft, {ref.id : ref \in d.cands}, d.intent) :
             Read(w, "review", [job[w] EXCEPT !.data.policy = p])
      BY <1>2 DEF Conflict
    <2>2. Len(records) \in Nat /\ job[w] \in Job(Len(records)) BY WorkerTyped
    <2>3. d.cands \in SUBSET Found(Len(records)) BY <2>2, SMT DEF Job, Data
    <2>4. p \in Policy(Len(records)) BY <2>1, <2>2, <2>3, ResolutionsTyped
    <2>. DEFINE k == [job[w] EXCEPT !.data.policy = p]
    <2>5. /\ k \in Job(Len(records)) /\ Alike(job[w], k)
          /\ k.data.draft = job[w].data.draft /\ k.data.review = job[w].data.review
      BY <2>2, <2>4, SetPolicy
    <2>6. Read(w, "review", k) BY <2>1
    <2>. HIDE DEF k
    <2>7. JobFits("review", k) BY <1>1, <2>5, FirstGoesOn DEF FirstPass
    <2>8. "review" \in Places BY DEF Places, FirstPass
    <2>. QED BY <1>1, <2>5, <2>6, <2>7, <2>8, Reading
  <1>3. CASE ~Unchanged(d.cands)
    <2>1. Refuse(w) /\ UNCHANGED store BY <1>3 DEF Conflict
    <2>. QED BY <1>1, <2>1, Refused
  <1>. QED BY <1>2, <1>3

LEMMA ReviewInv ==
  ASSUME Inv, NEW w \in Workers, Review(w)
  PROVE  Inv'
  <1>. DEFINE p == job[w].data.policy
  <1>1. at[w] = "review" BY DEF Review
  <1>2. job[w] \in Job(Len(records)) /\ Len(records) \in Nat BY WorkerTyped
  <1>3. CASE p.action \in {"noop", "supersede"} /\ ~IsActiveAt(p.target)
    <2>1. Refuse(w) /\ UNCHANGED store BY <1>3 DEF Review
    <2>. QED BY <1>1, <2>1, Refused
  <1>4. CASE ~(p.action \in {"noop", "supersede"} /\ ~IsActiveAt(p.target)) /\ p.action = "noop"
    <2>. DEFINE k == [job[w] EXCEPT !.data.committed = p.target]
    <2>1. Read(w, "commit", k) BY <1>4 DEF Review
    <2>2. p.target \in 0 .. Len(records)
      <3>1. p \in Policy(Len(records)) BY <1>2, SMT DEF Job, Data
      <3>. QED BY <1>2, <3>1, SMT DEF Policy
    <2>3. /\ k \in Job(Len(records)) /\ Alike(job[w], k)
          /\ k.data.review = job[w].data.review
      BY <1>2, <2>2, SetCommitted
    <2>. HIDE DEF k
    <2>4. JobFits("commit", k) BY <1>1, <2>3, FirstGoesOn DEF FirstPass
    <2>5. "commit" \in Places BY DEF Places
    <2>. QED BY <1>1, <2>1, <2>3, <2>4, <2>5, Reading
  <1>5. CASE ~(p.action \in {"noop", "supersede"} /\ ~IsActiveAt(p.target)) /\ p.action # "noop"
    <2>1. Read(w, "create", job[w]) BY <1>5 DEF Review
    <2>2. Alike(job[w], job[w]) BY DEF Alike
    <2>3. JobFits("create", job[w]) BY <1>1, <2>2, FirstGoesOn DEF FirstPass
    <2>4. "create" \in Places BY DEF Places, FirstPass
    <2>. QED BY <1>1, <1>2, <2>1, <2>2, <2>3, <2>4, Reading
  <1>. QED BY <1>3, <1>4, <1>5

\* A resumed segment goes on with the review it was shown.
LEMMA ResumedHolds ==
  ASSUME Inv, NEW w \in Workers, at[w] \in Resumed
  PROVE  /\ at[w] # "idle" /\ job[w].action # "none" /\ ResumedFits(at[w], job[w])
         /\ job[w].run \in Runs /\ ctl[job[w].run].status \in {"suspended", "completed", "failed"}
         /\ job[w].base \in 0 .. ctl[job[w].run].attempt
         /\ job[w].data.review.id \in Ids /\ job[w].data.review # NoReview
  <1>1. at[w] \notin FirstPass \union {"commit", "save", "idle"} BY DEF Resumed, FirstPass
  <1>2. JobFits(at[w], job[w]) /\ Ids = 1 .. Len(records) /\ Len(records) \in Nat BY WorkerTyped
  <1>3. job[w].action # "none" BY <1>1, <1>2 DEF JobFits, FirstFits
  <1>4. /\ ResumedFits(at[w], job[w]) /\ job[w].run \in Runs
        /\ ctl[job[w].run].status \in {"suspended", "completed", "failed"}
        /\ job[w].base \in 0 .. ctl[job[w].run].attempt
    BY <1>1, <1>2, <1>3 DEF JobFits
  <1>5. job[w].data.review.id \in Ids BY <1>4, CandidateRows DEF ResumedFits, Inv
  <1>6. NoReview.id = 0 BY DEF NoReview
  <1>7. job[w].data.review # NoReview BY <1>2, <1>5, <1>6, SMT
  <1>. QED BY <1>1, <1>3, <1>4, <1>5, <1>7

LEMMA ResumedGoesOn ==
  ASSUME Inv, NEW w \in Workers, at[w] \in Resumed, NEW s \in Resumed \union {"commit"},
         s # "supersede", NEW k, Alike(job[w], k), k.data.review.id = job[w].data.review.id,
         s \in {"pins", "check"} => k.data.review.decision = "none",
         s \in {"commit", "supersede"} => k.data.review.decision = k.action,
         s \in Editing => k.action = "edit",
         s \in Editing \ {"load"} => k.draft \in Drafts
  PROVE  JobFits(s, k)
  <1>1. /\ job[w].action # "none" /\ ResumedFits(at[w], job[w])
        /\ job[w].run \in Runs /\ ctl[job[w].run].status \in {"suspended", "completed", "failed"}
        /\ job[w].base \in 0 .. ctl[job[w].run].attempt
    BY ResumedHolds
  <1>2. s # "idle" /\ s # "save" BY DEF Resumed
  <1>3. ResumedFits(s, k)
    <2>1. MaySucceed(k) <=> MaySucceed(job[w]) BY DEF MaySucceed, Alike
    <2>. QED BY <1>1, <2>1 DEF ResumedFits, Alike
  <1>. QED BY <1>1, <1>2, <1>3 DEF JobFits, Alike

LEMMA ReloadInv ==
  ASSUME Inv, NEW w \in Workers, Reload(w)
  PROVE  Inv'
  <1>1. at[w] = "pins" /\ at[w] # "idle" /\ at[w] \in Resumed BY DEF Reload, Resumed
  <1>2. CASE Unchanged(job[w].data.cands)
    <2>1. Read(w, "check", job[w]) BY <1>2 DEF Reload
    <2>2. job[w].data.review.decision = "none" BY <1>1, ResumedHolds DEF ResumedFits
    <2>3. Alike(job[w], job[w]) BY DEF Alike
    <2>4. JobFits("check", job[w])
      <3>1. "check" \in Resumed /\ "check" \notin Editing /\ "check" \notin {"commit", "supersede"}
        BY DEF Resumed, Editing
      <3>. QED BY <1>1, <2>2, <2>3, <3>1, ResumedGoesOn
    <2>5. "check" \in Places BY DEF Places, Resumed
    <2>. QED BY <1>1, <2>1, <2>3, <2>4, <2>5, WorkerTyped, Reading
  <1>3. CASE ~Unchanged(job[w].data.cands)
    <2>1. Refuse(w) /\ UNCHANGED store BY <1>3 DEF Reload
    <2>. QED BY <1>1, <2>1, Refused
  <1>. QED BY <1>2, <1>3

LEMMA CheckInv ==
  ASSUME Inv, NEW w \in Workers, Check(w)
  PROVE  Inv'
  <1>. DEFINE j == job[w]
  <1>1. at[w] = "check" /\ at[w] # "idle" /\ at[w] \in Resumed BY DEF Check, Resumed
  <1>2. Len(records) \in Nat /\ j \in Job(Len(records)) BY WorkerTyped
  <1>3. j.action # "none" /\ j.data.review # NoReview BY <1>1, ResumedHolds
  <1>4. CASE ~StillReviewable(j.action, j.data.review)
    <2>1. Refuse(w) /\ UNCHANGED store BY <1>4 DEF Check
    <2>. QED BY <1>1, <2>1, Refused
  <1>5. CASE StillReviewable(j.action, j.data.review) /\ j.action = "edit"
    <2>1. Read(w, "load", j) BY <1>5 DEF Check
    <2>2. Alike(j, j) BY DEF Alike
    <2>3. JobFits("load", j)
      <3>1. "load" \in Resumed /\ "load" \notin {"pins", "check", "commit", "supersede"}
        BY DEF Resumed
      <3>. QED BY <1>1, <1>5, <2>2, <3>1, ResumedGoesOn
    <2>4. "load" \in Places BY DEF Places, Resumed
    <2>. QED BY <1>1, <1>2, <2>1, <2>2, <2>3, <2>4, Reading
  <1>6. CASE StillReviewable(j.action, j.data.review) /\ j.action # "edit"
    <2>. DEFINE k == WithDecision(j, j.action)
    <2>1. Read(w, "commit", k) BY <1>6 DEF Check, WithDecision
    <2>2. j.action \in {"none", "approve", "reject"}
      <3>1. j.action \in {"none", "approve", "reject", "edit"} BY <1>2, SMT DEF Job
      <3>. QED BY <1>6, <3>1
    <2>3. /\ k \in Job(Len(records)) /\ Alike(j, k) /\ k.data.review.id = j.data.review.id
          /\ k.data.review.decision = j.action
      BY <1>2, <1>3, <2>2, SetDecision
    <2>. HIDE DEF k
    <2>4. JobFits("commit", k)
      <3>1. "commit" \notin {"pins", "check"} /\ "commit" \notin Editing BY DEF Editing
      <3>2. k.action = j.action BY <2>3 DEF Alike
      <3>. QED BY <1>1, <2>3, <3>1, <3>2, ResumedGoesOn
    <2>5. "commit" \in Places BY DEF Places
    <2>. QED BY <1>1, <2>1, <2>3, <2>4, <2>5, Reading
  <1>. QED BY <1>4, <1>5, <1>6

LEMMA LoadInv ==
  ASSUME Inv, NEW w \in Workers, LoadEdited(w)
  PROVE  Inv'
  <1>. DEFINE i == job[w].payload
              d == payloads[i].draft
              refs == {Ref(id) : id \in FindExact(d)}
              k == WithEdit(job[w], d, refs)
  <1>1. at[w] = "load" /\ at[w] # "idle" /\ at[w] \in Resumed BY DEF LoadEdited, Resumed
  <1>2. Len(records) \in Nat /\ job[w] \in Job(Len(records)) /\ payloads \in Seq(Payload)
    BY WorkerTyped
  <1>3. job[w].action = "edit" /\ i \in 1 .. Len(payloads)
    BY <1>1, ResumedHolds DEF ResumedFits, Editing
  <1>4. payloads[i] \in Payload BY <1>2, <1>3, SMT
  <1>5. d \in Drafts BY <1>4, SMT DEF Payload
  <1>6. refs \in SUBSET Found(Len(records)) BY RefsTyped DEF Inv, StoreTyped
  <1>7. at' = [at EXCEPT ![w] = "reconflict"] /\ job' = [job EXCEPT ![w] = k]
    BY DEF LoadEdited, GoTo, WithEdit
  <1>8. UNCHANGED <<records, audit, outbox, version, ctl, holder, approvals>> BY DEF LoadEdited
  <1>9. payloads' \in Seq(Payload) /\ Len(payloads') = Len(payloads)
    <2>. DEFINE y == [payloads[i] EXCEPT !.pending = FALSE]
    <2>1. \A x \in Payload, b \in BOOLEAN : [x EXCEPT !.pending = b] \in Payload
      BY ZenonT(30) DEF Payload
    <2>2. y \in Payload BY <1>4, <2>1
    <2>3. payloads' = [payloads EXCEPT ![i] = y] BY DEF LoadEdited, ConsumePayload
    <2>. HIDE DEF y
    <2>. QED BY <1>2, <1>3, <2>2, <2>3, Put
  <1>. HIDE DEF i, d, refs
  <1>10. k \in Job(Len(records)) /\ Alike(job[w], k) /\ k.data = job[w].data /\ k.draft = d
    BY <1>2, <1>5, <1>6, SetEdit
  <1>. HIDE DEF k
  <1>11. JobFits("reconflict", k)
    <2>1. /\ "reconflict" \in Resumed
          /\ "reconflict" \notin {"pins", "check", "commit", "supersede"}
      BY DEF Resumed
    <2>2. k.action = "edit" BY <1>3, <1>10 DEF Alike
    <2>. QED BY <1>1, <1>5, <1>10, <2>1, <2>2, ResumedGoesOn
  <1>12. "reconflict" \in Places BY DEF Places, Resumed
  <1>. QED BY <1>1, <1>7, <1>8, <1>9, <1>10, <1>11, <1>12, Silent

LEMMA ResolveInv ==
  ASSUME Inv, NEW w \in Workers, ResolveEdited(w)
  PROVE  Inv'
  <1>. DEFINE j == job[w]
  <1>1. at[w] = "reconflict" /\ at[w] # "idle" /\ at[w] \in Resumed
    BY DEF ResolveEdited, Resumed
  <1>2. CASE Unchanged(j.cands)
    <2>1. PICK p \in Resolutions(j.draft, {ref.id : ref \in j.cands}, j.data.intent) :
             Read(w, "retarget", [j EXCEPT !.policy = p])
      BY <1>2 DEF ResolveEdited
    <2>2. Len(records) \in Nat /\ j \in Job(Len(records)) BY WorkerTyped
    <2>3. j.cands \in SUBSET Found(Len(records)) BY <2>2, SMT DEF Job
    <2>4. p \in Policy(Len(records)) BY <2>1, <2>2, <2>3, ResolutionsTyped
    <2>. DEFINE k == [j EXCEPT !.policy = p]
    <2>5. k \in Job(Len(records)) /\ Alike(j, k) /\ k.data = j.data /\ k.draft = j.draft
      BY <2>2, <2>4, SetEditPolicy
    <2>6. Read(w, "retarget", k) BY <2>1
    <2>. HIDE DEF k
    <2>7. JobFits("retarget", k)
      <3>1. /\ "retarget" \in Resumed
            /\ "retarget" \notin {"pins", "check", "commit", "supersede"}
        BY DEF Resumed
      <3>2. k.action = "edit" /\ k.draft \in Drafts
        BY <1>1, <2>5, ResumedHolds DEF Alike, ResumedFits, Editing
      <3>. QED BY <1>1, <2>5, <3>1, <3>2, ResumedGoesOn
    <2>8. "retarget" \in Places BY DEF Places, Resumed
    <2>. QED BY <1>1, <2>5, <2>6, <2>7, <2>8, Reading
  <1>3. CASE ~Unchanged(j.cands)
    <2>1. Refuse(w) /\ UNCHANGED store BY <1>3 DEF ResolveEdited
    <2>. QED BY <1>1, <2>1, Refused
  <1>. QED BY <1>2, <1>3

LEMMA RetargetInv ==
  ASSUME Inv, NEW w \in Workers, RetargetEdited(w)
  PROVE  Inv'
  <1>. DEFINE p == job[w].data.policy
  <1>1. at[w] = "retarget" /\ at[w] # "idle" /\ at[w] \in Resumed
    BY DEF RetargetEdited, Resumed
  <1>2. CASE p.action = "supersede" /\ ~IsActiveAt(p.target)
    <2>1. Refuse(w) /\ UNCHANGED store BY <1>2 DEF RetargetEdited
    <2>. QED BY <1>1, <2>1, Refused
  <1>3. CASE ~(p.action = "supersede" /\ ~IsActiveAt(p.target))
    <2>1. Read(w, "recreate", job[w]) BY <1>3 DEF RetargetEdited
    <2>2. Alike(job[w], job[w]) BY DEF Alike
    <2>3. JobFits("recreate", job[w])
      <3>1. /\ "recreate" \in Resumed
            /\ "recreate" \notin {"pins", "check", "commit", "supersede"}
        BY DEF Resumed
      <3>2. job[w].action = "edit" /\ job[w].draft \in Drafts
        BY <1>1, ResumedHolds DEF ResumedFits, Editing
      <3>. QED BY <1>1, <2>2, <3>1, <3>2, ResumedGoesOn
    <2>4. "recreate" \in Places BY DEF Places, Resumed
    <2>. QED BY <1>1, <2>1, <2>2, <2>3, <2>4, WorkerTyped, Reading
  <1>. QED BY <1>2, <1>3

-----------------------------------------------------------------------------
(* The steps that write to the store.                                        *)

\* A step of w that changes what the store says of w's run only.
LEMMA Storing ==
  ASSUME Inv, UNCHANGED <<ctl, holder, approvals, payloads>>,
         StoreTyped', FactsAreConsistent', Aged, Audited',
         NEW w \in Workers, NEW r \in Runs, r = job[w].run, NEW j \in Job(Len(records')), at[w] # "idle", Alike(job[w], j),
         at' = [at EXCEPT ![w] = "save"], job' = [job EXCEPT ![w] = j],
         \A q \in Runs \ {r} :
            CandidatesOf(q)' = CandidatesOf(q) /\ Commits(q)' = Commits(q),
         \A q \in Runs \ {r} : \A n : Edited(q, n)' <=> Edited(q, n),
         CandidatesOf(r) \subseteq CandidatesOf(r)',
         Commits(r) \subseteq Commits(r)',
         \A n : Edited(r, n) => Edited(r, n)',
         RunFits(r)', JobFits(at[w], job[w])'
  PROVE  Inv'
  <1>0. Len(records) \in Nat /\ Len(records') \in Nat /\ Len(records) <= Len(records')
    BY Rows, SMT DEF Inv, StoreTyped, Aged
  <1>1. /\ at' \in [Workers -> Places] /\ job' \in [Workers -> Job(Len(records'))]
        /\ at'[w] = "save" /\ job'[w] = j
        /\ \A v \in Workers : v # w => at'[v] = at[v] /\ job'[v] = job[v]
        /\ ctl \in [Runs -> Checkpoint(Len(records'))]
    <2>1. "save" \in Places BY DEF Places
    <2>. QED BY <1>0, <2>1, FlowKept DEF Inv
  <1>2. FlowTyped' BY <1>1 DEF FlowTyped, Inv
  <1>4. \A q \in Runs : RunFits(q)'
    <2>. TAKE q \in Runs
    <2>1. CASE q = r BY <2>1
    <2>2. CASE q # r BY <2>2, RunKept DEF Inv, Flowing
    <2>. QED BY <2>1, <2>2
  <1>5. \A v \in Workers : JobFits(at[v], job[v])'
    <2>. TAKE v \in Workers
    <2>1. CASE v = w BY <2>1
    <2>2. CASE v # w /\ at[v] = "idle" BY <1>1, <2>2 DEF JobFits
    <2>3. CASE v # w /\ at[v] # "idle"
      <3>1. job[v].run \in Runs BY <2>3, WorkerTyped
      <3>2. job[v].action = "none" => job[v].run # r
        <4>1. JobFits(at[v], job[v]) /\ JobFits(at[w], job[w]) BY WorkerTyped
        <4>. SUFFICES ASSUME job[v].action = "none", job[v].run = r PROVE FALSE
          OBVIOUS
        <4>2. ctl[r].status = "pending" BY <2>3, <4>1 DEF JobFits, FirstFits
        <4>3. job[w].action = "none" BY <4>1, <4>2 DEF JobFits
        <4>. QED BY <2>3, <4>3 DEF Inv, Flowing, OneFirst
      <3>3. /\ CandidatesOf(job[v].run) \subseteq CandidatesOf(job[v].run)'
            /\ job[v].action = "none" =>
                  CandidatesOf(job[v].run)' = CandidatesOf(job[v].run)
            /\ Commits(job[v].run) \subseteq Commits(job[v].run)'
            /\ \A n : Edited(job[v].run, n) => Edited(job[v].run, n)'
        <4>0. job'[v].run = job[v].run BY <1>1, <2>3
        <4>1. CASE job[v].run = r BY <3>2, <4>0, <4>1
        <4>2. CASE job[v].run # r BY <3>1, <4>0, <4>2
        <4>. QED BY <4>1, <4>2
      <3>4. JobFits(at[v], job[v]) BY WorkerTyped
      <3>. QED BY <1>1, <2>3, <3>3, <3>4, JobKept DEF Inv
    <2>. QED BY <2>1, <2>2, <2>3
  <1>6. OneFirst'
    <2>1. \A v \in Workers : /\ at'[v] # "idle" => at[v] # "idle"
                             /\ job'[v].run = job[v].run /\ job'[v].action = job[v].action
      BY <1>1 DEF Alike
    <2>. QED BY <2>1 DEF Inv, Flowing, OneFirst
  <1>. QED BY <1>2, <1>4, <1>5, <1>6 DEF Inv, Flowing

LEMMA FirstCandidateTyped ==
  ASSUME records \in Seq(Record), NEW j \in Job(Len(records)), j.data.draft \in Drafts
  PROVE  FirstCandidate(j) \in Record /\ FirstCandidate(j).status = "candidate"
  <1>. DEFINE p == j.data.policy
              x == NewRecord(j.data.draft, NextId)
  <1>1. Len(records) \in Nat /\ NextId \in Nat BY SMT DEF NextId
  <1>2. x \in Record /\ x.status = "candidate"
    BY <1>1, NewRecordTyped, CaptureAssumption DEF CaptureAssumption
  <1>3. CASE p.action = "supersede"
    <2>. DEFINE t == p.target
                l == records[t].lineage
                v == records[t].lver + 1
    <2>1. t \in 1 .. Len(records)
      <3>1. p \in Policy(Len(records)) BY SMT DEF Job, Data
      <3>. QED BY <1>3, <3>1, SMT DEF Policy
    <2>2. records[t] \in Record BY <2>1, SMT
    <2>3. l \in Nat /\ v \in Nat \ {0} /\ t \in Nat BY <2>1, <2>2, NextVersion
    <2>4. FirstCandidate(j) = Continuing(x, l, v, t)
      BY <1>3 DEF FirstCandidate, Continuing
    <2>. HIDE DEF l, v, t, x
    <2>. QED BY <1>2, <2>3, <2>4, ContinuedTyped, ZenonT(30)
  <1>4. CASE p.action # "supersede" BY <1>2, <1>4 DEF FirstCandidate
  <1>. QED BY <1>3, <1>4

LEMMA EditedCandidateTyped ==
  ASSUME records \in Seq(Record), NEW j \in Job(Len(records)), j.draft \in Drafts,
         j.data.review.id \in Ids
  PROVE  EditedCandidate(j) \in Record /\ EditedCandidate(j).status = "candidate"
  <1>. DEFINE x == NewRecord(j.draft, NextId)
              i == j.data.review.id
              l == records[i].lineage
              v == records[i].lver + 1
              t == IF j.data.policy.action = "supersede" THEN j.data.policy.target ELSE i
  <1>1. Len(records) \in Nat /\ NextId \in Nat BY SMT DEF NextId
  <1>2. x \in Record /\ x.status = "candidate"
    BY <1>1, NewRecordTyped, CaptureAssumption DEF CaptureAssumption
  <1>3. records[i] \in Record /\ i \in Nat BY Rows
  <1>4. l \in Nat /\ v \in Nat \ {0} BY <1>3, NextVersion
  <1>5. t \in Nat
    <2>1. j.data.policy \in Policy(Len(records)) BY SMT DEF Job, Data
    <2>2. j.data.policy.target \in 0 .. Len(records) BY <1>1, <2>1, SMT DEF Policy
    <2>. QED BY <1>1, <1>3, <2>2, SMT
  <1>6. EditedCandidate(j) = Continuing(x, l, v, t) BY DEF EditedCandidate, Continuing
  <1>. HIDE DEF l, v, t, x
  <1>. QED BY <1>2, <1>4, <1>5, <1>6, ContinuedTyped, ZenonT(30)

OnDisplay(id, rver) == [id |-> id, rver |-> rver, decision |-> "none"]

LEMMA Suspending ==
  ASSUME NEW w, NEW new, NEW targets, NEW key, NEW d, NEW refs, NEW p,
         Suspend(w, new, targets, key, d, refs, p)
  PROVE  \/ /\ CommitMutation(new, targets, key)
            /\ GoTo(w, "save", Displaying(job[w], d, refs, p, OnDisplay(NextId, 1)))
         \/ /\ KeyUsed(key) /\ UNCHANGED store
            /\ GoTo(w, "save", Displaying(job[w], d, refs, p,
                       OnDisplay(ReplayedId(key), records[ReplayedId(key)].rver)))
         \/ /\ UNCHANGED store
            /\ GoTo(w, "save", [job[w] EXCEPT !.exit = "failed"])
  BY DEF Suspend, Displaying, OnDisplay, Replays, KeyUsed

LEMMA CreateInv ==
  ASSUME Inv, NEW w \in Workers, CreateCandidate(w)
  PROVE  Inv'
  <1>. DEFINE j == job[w]
              key == ReviewKey(j, 0)
              new == FirstCandidate(j)
              n == Len(records)
  <1>1. at[w] = "create" /\ at[w] # "idle" /\ at[w] # "save" /\ at[w] \in FirstPass
        /\ at[w] \notin Resumed \union {"commit"}
    BY DEF CreateCandidate, FirstPass, Resumed
  <1>2. n \in Nat /\ Ids = 1 .. n /\ j \in Job(n) /\ j.run \in Runs /\ JobFits(at[w], j)
    BY <1>1, WorkerTyped
  <1>0. PICK r \in Runs : r = job[w].run BY <1>2
  <1>3. j.action = "none" /\ FirstFits(at[w], j) BY <1>1, <1>2 DEF JobFits, ResumedFits
  <1>4. /\ ctl[r].status = "pending" /\ j.base = 0 /\ j.data.draft \in Drafts
        /\ CandidatesOf(r) = {}
    BY <1>0, <1>1, <1>3 DEF FirstFits
  <1>5. key = <<r, "review", 1, 0>>
    <2>1. j.base + 1 = 1 BY <1>4, SMT
    <2>. QED BY <1>0, <2>1 DEF ReviewKey
  <1>6. Quiet /\ Suspend(w, new, {}, key, j.data.draft, j.data.cands, j.data.policy)
    BY DEF CreateCandidate
  <1>7. CASE UNCHANGED store /\ GoTo(w, "save", [j EXCEPT !.exit = "failed"])
    BY <1>1, <1>6, <1>7, Refused DEF Refuse
  <1>8. ~KeyUsed(key)
    <2>1. \A e \in audit : e.key = key => e.key[1] = r /\ e.key[2] = "review" BY <1>5
    <2>. QED BY <1>4, <2>1 DEF KeyUsed, CandidatesOf
  <1>9. ASSUME CommitMutation(new, {}, key),
               GoTo(w, "save", Displaying(j, j.data.draft, j.data.cands, j.data.policy,
                                          OnDisplay(NextId, 1)))
        PROVE  Inv'
    <2>. DEFINE k == Displaying(j, j.data.draft, j.data.cands, j.data.policy, OnDisplay(NextId, 1))
    <2>1. new \in Record /\ new.status = "candidate"
      BY <1>2, <1>4, FirstCandidateTyped DEF Inv, StoreTyped
    <2>. HIDE DEF new, key
    <2>2. /\ StoreTyped' /\ FactsAreConsistent' /\ Aged
          /\ Len(records') = n + 1
          /\ \E old : audit' = audit \union
               {EventRow(key, NextId, old, "candidate", new.text, NextId)}
      BY <1>9, <2>1, Inserting DEF Inv
    <2>3. PICK old : audit' = audit \union
               {EventRow(key, NextId, old, "candidate", new.text, NextId)}
      BY <2>2
    <2>. DEFINE e == EventRow(key, NextId, old, "candidate", new.text, NextId)
    <2>4. /\ e.key = <<r, "review", 1, 0>> /\ e.memory = NextId /\ e.result = NextId
          /\ e.new = "candidate"
      BY <1>5 DEF EventRow
    <2>5. audit' = audit \union {e} BY <2>3
    <2>. HIDE DEF e
    <2>6. NextId = n + 1 /\ NextId \notin Ids /\ NextId \in Ids' /\ Ids \subseteq Ids'
          /\ NextId \in 1 .. Len(records')
      BY <1>2, <2>2, SMT DEF NextId, Ids
    <2>7. UNCHANGED <<ctl, holder, approvals, payloads>> BY <1>6 DEF Quiet
    <2>8. \A q \in Runs : ctl[q].attempt \in Nat BY SMT DEF Inv, FlowTyped, Checkpoint
    <2>9. 1 \in 1 .. ctl[r].attempt + 1 BY <1>2, <2>8, SMT
    <2>10. /\ Audited'
           /\ CandidatesOf(r)' = CandidatesOf(r) \union {NextId}
           /\ \A q : q # r => CandidatesOf(q)' = CandidatesOf(q)
           /\ \A q : Commits(q)' = Commits(q)
           /\ \A q, m : Edited(q, m)' <=> Edited(q, m) \/ (q = r /\ m = 1 /\ 0 = 1)
      BY <2>4, <2>5, <2>6, <2>7, <2>8, <2>9, CandidateRecorded DEF Inv
    <2>11. \A q, m : Edited(q, m)' <=> Edited(q, m) BY <2>10
    <2>12. k \in Job(Len(records')) /\ Alike(j, k) /\ k.data.review = OnDisplay(NextId, 1)
           /\ k.exit = "suspended"
      <3>1. Len(records') \in Nat /\ n <= Len(records') BY <1>2, <2>2, SMT
      <3>2. j \in Job(Len(records')) BY <1>2, <3>1, Larger
      <3>3. OnDisplay(NextId, 1) \in Shown(Len(records')) BY <2>6, SMT DEF Shown, OnDisplay
      <3>4. /\ j.data.draft \in Drafts \union {None} /\ j.data.cands \in SUBSET Found(Len(records'))
            /\ j.data.policy \in Policy(Len(records'))
        BY <3>2, SMT DEF Job, Data
      <3>. HIDE DEF n, k
      <3>. QED BY <3>1, <3>2, <3>3, <3>4, DisplayingTyped DEF k
    <2>13. job' = [job EXCEPT ![w] = k] /\ at' = [at EXCEPT ![w] = "save"] BY <1>9 DEF GoTo
    <2>. HIDE DEF k
    <2>14. at'[w] = "save" /\ job'[w] = k
      BY <2>13 DEF Inv, FlowTyped
    <2>15. CandidatesOf(r)' = {NextId} /\ r = k.run /\ r = job'[w].run /\ job'[w].action = "none"
           /\ job'[w].base = 0 /\ ctl' = ctl
      BY <1>0, <1>3, <1>4, <2>7, <2>10, <2>12, <2>14 DEF Alike
    <2>16. RunFits(r)'
      <3>1. RunFits(r) BY DEF Inv, Flowing
      <3>. QED BY <1>4, <2>10, <2>15, <3>1 DEF RunFits
    <2>17. JobFits(at[w], job[w])'
      <3>1. OnDisplay(NextId, 1).id = NextId /\ OnDisplay(NextId, 1).decision = "none"
        BY DEF OnDisplay
      <3>2. "save" \notin FirstPass BY DEF FirstPass
      <3>3. FirstFits("save", job[w])'
        BY <1>4, <2>12, <2>14, <2>15, <3>1, <3>2 DEF FirstFits
      <3>. QED BY <2>12, <2>14, <2>15, <3>3 DEF JobFits
    <2>. QED
      BY <1>0, <1>1, <2>2, <2>7, <2>10, <2>11, <2>12, <2>13, <2>16, <2>17, Storing
  <1>. QED BY <1>6, <1>7, <1>8, <1>9, Suspending

LEMMA ReplaceInv ==
  ASSUME Inv, NEW w \in Workers, ReplaceCandidate(w)
  PROVE  Inv'
  <1>. DEFINE j == job[w]
              n == Len(records)
              old == [id |-> j.data.review.id, rver |-> j.data.review.rver, to |-> "rejected"]
              new == EditedCandidate(j)
              key == ReviewKey(j, 1)
  <1>1. at[w] = "recreate" /\ at[w] # "idle" /\ at[w] \in Resumed
    BY DEF ReplaceCandidate, Resumed
  <1>2. n \in Nat /\ Ids = 1 .. n /\ j \in Job(n) /\ j.run \in Runs BY <1>1, WorkerTyped
  <1>0. PICK r \in Runs : r = job[w].run BY <1>2
  <1>00. PICK c : c = job[w].data.review.id OBVIOUS
  <1>000. PICK m : m = job[w].base + 1 OBVIOUS
  <1>3. /\ j.action # "none" /\ ResumedFits(at[w], j) /\ c \in Ids
        /\ ctl[r].status \in {"suspended", "completed", "failed"}
        /\ j.base \in 0 .. ctl[r].attempt
    BY <1>0, <1>00, <1>1, ResumedHolds
  <1>4. /\ c \in CandidatesOf(r) /\ j.draft \in Drafts
        /\ ctl[r].status = "suspended" /\ IsOpen(c) => c = ctl[r].data.review.id
    BY <1>0, <1>00, <1>1, <1>3 DEF ResumedFits, Editing
  <1>5. key = <<r, "review", j.base + 1, 1>> BY <1>0 DEF ReviewKey
  <1>6. Quiet /\ Suspend(w, new, {old}, key, j.draft, j.cands, j.policy)
    BY DEF ReplaceCandidate
  <1>7. /\ j.draft \in Drafts \union {None} /\ j.cands \in SUBSET Found(n)
        /\ j.policy \in Policy(n) /\ j.base \in Nat
    BY <1>2, <1>4, SMT DEF Job
  <1>8. CASE UNCHANGED store /\ GoTo(w, "save", [j EXCEPT !.exit = "failed"])
    BY <1>1, <1>6, <1>8, Refused DEF Refuse
  <1>9. ASSUME KeyUsed(key), UNCHANGED store,
               GoTo(w, "save", Displaying(j, j.draft, j.cands, j.policy,
                          OnDisplay(ReplayedId(key), records[ReplayedId(key)].rver)))
        PROVE  Inv'
    <2>1. PICK e \in audit : e.key = key /\ ReplayedId(key) = e.result
      BY <1>9 DEF KeyUsed, ReplayedId
    <2>2. e.key[1] = r /\ e.key[2] = "review" BY <1>5, <2>1
    <2>3. e.memory \in CandidatesOf(r) /\ e.memory \in Ids /\ e.result = e.memory
      BY <2>2 DEF CandidatesOf, Inv, Audited, EventFits
    <2>4. PICK i : i = e.memory OBVIOUS
    <2>5. i \in Ids /\ i \in CandidatesOf(r) /\ ReplayedId(key) = i BY <2>1, <2>3, <2>4
    <2>. DEFINE s == OnDisplay(i, records[i].rver)
                k == Displaying(j, j.draft, j.cands, j.policy, s)
    <2>6. s \in Shown(n)
      <3>1. records[i] \in Record BY <2>5, Rows DEF Inv, StoreTyped
      <3>2. records[i].rver \in Nat BY <3>1, NextVersion
      <3>. QED BY <1>2, <2>5, <3>2, SMT DEF Shown, OnDisplay
    <2>7. s.id = i /\ s.decision = "none" BY DEF OnDisplay
    <2>. HIDE DEF s
    <2>8. k \in Job(n) /\ Alike(j, k) /\ k.data.review = s /\ k.exit = "suspended"
      BY <1>2, <1>7, <2>6, DisplayingTyped
    <2>9. GoTo(w, "save", k) BY <1>9, <2>5 DEF s
    <2>. HIDE DEF k
    <2>10. Edited(r, j.base + 1) BY <1>5, <1>9 DEF Edited
    <2>11. JobFits("save", k)
      <3>1. SavingFits(k)
        BY <1>0, <2>5, <2>7, <2>8, <2>10 DEF SavingFits, Alike
      <3>. QED BY <1>0, <1>3, <2>8, <3>1 DEF JobFits, Alike
    <2>12. "save" \in Places BY DEF Places
    <2>. QED BY <1>1, <1>6, <1>9, <2>8, <2>9, <2>11, <2>12, Reading DEF Read
  <1>10. ASSUME CommitMutation(new, {old}, key),
                GoTo(w, "save", Displaying(j, j.draft, j.cands, j.policy, OnDisplay(NextId, 1)))
         PROVE  Inv'
    <2>. DEFINE s == OnDisplay(NextId, 1)
                k == Displaying(j, j.draft, j.cands, j.policy, s)
    <2>1. new \in Record /\ new.status = "candidate"
      BY <1>00, <1>2, <1>3, <1>4, EditedCandidateTyped DEF Inv, StoreTyped
    <2>2. \A t \in {old} : t.to = "rejected" /\ t.id = c BY <1>00
    <2>. HIDE DEF new, key, old
    <2>3. /\ StoreTyped' /\ FactsAreConsistent' /\ Aged
          /\ Len(records') = n + 1
          /\ \A t \in {old} : /\ t.id \in Ids /\ records[t.id].status = "candidate"
                              /\ records'[t.id].status = "rejected"
          /\ \E b : audit' = audit \union {EventRow(key, NextId, b, "candidate", new.text, NextId)}
      BY <1>10, <2>1, <2>2, Inserting DEF Inv
    <2>4. PICK b : audit' = audit \union {EventRow(key, NextId, b, "candidate", new.text, NextId)}
      BY <2>3
    <2>5. records[c].status = "candidate" /\ records'[c].status = "rejected" BY <2>2, <2>3
    <2>. DEFINE e == EventRow(key, NextId, b, "candidate", new.text, NextId)
    <2>6. /\ e.key = <<r, "review", j.base + 1, 1>> /\ e.memory = NextId /\ e.result = NextId
          /\ e.new = "candidate"
      BY <1>5 DEF EventRow
    <2>7. audit' = audit \union {e} BY <2>4
    <2>. HIDE DEF e
    <2>8. NextId = n + 1 /\ NextId \notin Ids /\ NextId \in Ids' /\ Ids \subseteq Ids'
          /\ NextId \in 1 .. Len(records')
      BY <1>2, <2>3, SMT DEF NextId, Ids
    <2>9. UNCHANGED <<ctl, holder, approvals, payloads>> BY <1>6 DEF Quiet
    <2>10. \A q \in Runs : ctl[q].attempt \in Nat BY SMT DEF Inv, FlowTyped, Checkpoint
    <2>11. j.base + 1 \in 1 .. ctl[r].attempt + 1
      <3>1. \A x, a \in Nat : x \in 0 .. a => x + 1 \in 1 .. a + 1 BY SMT
      <3>. QED BY <1>3, <1>7, <2>10, <3>1
    <2>12. /\ Audited'
           /\ CandidatesOf(r)' = CandidatesOf(r) \union {NextId}
           /\ \A q : q # r => CandidatesOf(q)' = CandidatesOf(q)
           /\ \A q : Commits(q)' = Commits(q)
           /\ \A q, l : Edited(q, l)' <=> Edited(q, l) \/ (q = r /\ l = j.base + 1 /\ 1 = 1)
      BY <2>6, <2>7, <2>8, <2>9, <2>10, <2>11, CandidateRecorded DEF Inv
    <2>13. /\ \A q \in Runs \ {r} : \A l : Edited(q, l)' <=> Edited(q, l)
           /\ \A l : Edited(r, l) => Edited(r, l)'
           /\ Edited(r, m)'
    <3>1. \A q, l : Edited(q, l)' <=> Edited(q, l) \/ (q = r /\ l = m)
      BY <1>000, <2>12
    <3>. QED BY <3>1
    <2>14. k \in Job(Len(records')) /\ Alike(j, k) /\ k.data.review = s /\ k.exit = "suspended"
      <3>1. Len(records') \in Nat /\ n <= Len(records') BY <1>2, <2>3, SMT
      <3>2. j \in Job(Len(records')) BY <1>2, <3>1, Larger
      <3>3. s \in Shown(Len(records')) BY <2>8, SMT DEF Shown, OnDisplay
      <3>4. /\ j.cands \in SUBSET Found(Len(records')) /\ j.policy \in Policy(Len(records'))
        BY <3>2, SMT DEF Job
      <3>. HIDE DEF s, n
      <3>. QED BY <1>7, <3>1, <3>2, <3>3, <3>4, DisplayingTyped
    <2>15. s.id = NextId /\ s.decision = "none" BY DEF OnDisplay
    <2>16. job' = [job EXCEPT ![w] = k] /\ at' = [at EXCEPT ![w] = "save"] BY <1>10 DEF GoTo
    <2>. HIDE DEF k, s
    <2>17. at'[w] = "save" /\ job'[w] = k BY <2>16 DEF Inv, FlowTyped
    <2>18. /\ job'[w].run = r /\ job'[w].action # "none" /\ job'[w].base = j.base
           /\ job'[w].exit = "suspended" /\ job'[w].data.review = s /\ ctl' = ctl
      BY <1>0, <1>3, <2>9, <2>14, <2>17 DEF Alike
    <2>19. RunFits(r)'
      <3>1. RunFits(r) BY DEF Inv, Flowing
      <3>2. CandidatesOf(r) \subseteq Ids BY CandidateRows DEF Inv
      <3>3. Commits(r) = {} /\ Commits(r)' = {} BY <1>4, <2>5, <2>12, <3>1 DEF RunFits, IsOpen
      <3>4. \A i \in CandidatesOf(r) : ~IsOpen(i)'
        <4>. TAKE i \in CandidatesOf(r)
        <4>1. CASE i = c BY <2>5, <4>1 DEF IsOpen
        <4>2. CASE i # c
          <5>1. ~IsOpen(i) BY <1>4, <2>5, <3>1, <4>2 DEF RunFits, IsOpen
          <5>. QED BY <2>3, <3>2, <5>1 DEF Aged, IsOpen
        <4>. QED BY <4>1, <4>2
      <3>5. \A i, o \in CandidatesOf(r)' : IsOpen(i)' /\ IsOpen(o)' => i = o
        BY <2>12, <3>4
      <3>6. ctl[r].status = "suspended" => Pending(r, ctl[r].data.review, ctl[r].attempt)'
        <4>. SUFFICES ASSUME ctl[r].status = "suspended"
                      PROVE  Pending(r, ctl[r].data.review, ctl[r].attempt)'
          OBVIOUS
        <4>1. Pending(r, ctl[r].data.review, ctl[r].attempt) BY <3>1 DEF RunFits
        <4>2. records'[ctl[r].data.review.id].status = "rejected" BY <1>4, <2>5 DEF IsOpen
        <4>. QED BY <2>12, <2>18, <3>3, <4>1, <4>2 DEF Pending
      <3>7. ctl[r].status # "completed" BY <1>4, <3>1, <3>3 DEF RunFits, Settled
      <3>. QED BY <1>3, <2>18, <3>3, <3>5, <3>6, <3>7 DEF RunFits
    <2>20. JobFits(at[w], job[w])'
      <3>1. NextId \in CandidatesOf(r)' BY <2>12
      <3>2. job'[w].base + 1 = m BY <1>000, <2>18
      <3>3. SavingFits(job[w])' BY <2>13, <2>15, <2>18, <3>1, <3>2 DEF SavingFits
      <3>. QED BY <1>3, <2>17, <2>18, <3>3 DEF JobFits
    <2>. QED
      BY <1>0, <1>1, <2>3, <2>9, <2>12, <2>13, <2>14, <2>16, <2>19, <2>20, Storing
  <1>. QED BY <1>6, <1>8, <1>9, <1>10, Suspending

\* A segment about to decide.
LEMMA DecidingHolds ==
  ASSUME Inv, NEW w \in Workers, at[w] \in {"commit", "supersede"},
         at[w] = "supersede" \/ job[w].data.review # NoReview
  PROVE  /\ job[w].action # "none" /\ ResumedFits(at[w], job[w]) /\ job[w].run \in Runs
         /\ ctl[job[w].run].status \in {"suspended", "completed", "failed"}
         /\ job[w].base \in 0 .. ctl[job[w].run].attempt
         /\ job[w].data.review.id \in Ids
         /\ job[w].data.review.decision = job[w].action
  <1>1. at[w] # "idle" /\ at[w] # "save" OBVIOUS
  <1>2. JobFits(at[w], job[w]) BY WorkerTyped
  <1>3. job[w].action # "none"
    <2>1. "supersede" \notin FirstPass \union {"commit", "save"} BY DEF FirstPass
    <2>. QED BY <1>1, <1>2, <2>1 DEF JobFits, FirstFits
  <1>4. /\ ResumedFits(at[w], job[w]) /\ job[w].run \in Runs
        /\ ctl[job[w].run].status \in {"suspended", "completed", "failed"}
        /\ job[w].base \in 0 .. ctl[job[w].run].attempt
    BY <1>1, <1>2, <1>3 DEF JobFits
  <1>5. job[w].data.review.id \in Ids BY <1>4, CandidateRows DEF ResumedFits, Inv
  <1>6. job[w].data.review.decision = job[w].action BY <1>4 DEF ResumedFits
  <1>. QED BY <1>3, <1>4, <1>5, <1>6

\* A decision takes effect: e is the event of candidate c.
LEMMA Deciding ==
  ASSUME Inv, NEW w \in Workers, at[w] \in {"commit", "supersede"},
         at[w] = "supersede" \/ job[w].data.review # NoReview,
         Quiet, GoTo(w, "save", Completed(job[w], job[w].data.review.id)),
         StoreTyped', FactsAreConsistent', Aged, Len(records') = Len(records),
         NEW c, c = job[w].data.review.id, IsOpen(c), records'[c].status # "candidate",
         NEW e, NEW S, audit' = audit \union S, e \in S, \A f \in S : f = e \/ Plain(f),
         ~KeyUsed(CommitKey(job[w])), e.key = CommitKey(job[w]), e.memory = c, e.result = c,
         e.new = "active" => job[w].data.review.decision = "approve"
  PROVE  Inv'
  <1>. DEFINE j == job[w]
              n == Len(records)
              k == Completed(j, c)
  <1>1. n \in Nat /\ Ids = 1 .. n /\ j \in Job(n) /\ j.run \in Runs
    BY WorkerTyped
  <1>2. PICK r \in Runs : r = job[w].run BY <1>1
  <1>3. /\ j.action # "none" /\ ResumedFits(at[w], j) /\ c \in Ids
        /\ ctl[r].status \in {"suspended", "completed", "failed"}
        /\ j.base \in 0 .. ctl[r].attempt /\ j.data.review.decision = j.action
    BY <1>2, DecidingHolds
  <1>4. /\ c \in CandidatesOf(r) /\ (j.action = "approve" => <<r, c>> \in approvals)
        /\ ctl[r].status = "suspended" => c = ctl[r].data.review.id
    BY <1>2, <1>3 DEF ResumedFits
  <1>5. UNCHANGED <<ctl, holder, approvals, payloads>> BY DEF Quiet
  <1>6. Ids' = Ids BY DEF Ids
  <1>7. CommitKey(j) = <<r, "commit", 1, 0>> BY <1>2 DEF CommitKey
  <1>8. /\ Audited'
        /\ \A q : CandidatesOf(q)' = CandidatesOf(q)
        /\ Commits(r) = {} /\ Commits(r)' = {e}
        /\ \A q : q # r => Commits(q)' = Commits(q)
        /\ \A q, m : Edited(q, m)' <=> Edited(q, m)
    <2>1. \A q \in Runs : ctl[q].attempt \in Nat BY SMT DEF Inv, FlowTyped, Checkpoint
    <2>2. e.new = "active" => <<r, c>> \in approvals BY <1>3, <1>4
    <2>. QED BY <1>4, <1>5, <1>6, <1>7, <2>1, <2>2, DecisionRecorded DEF Inv
  <1>9. k \in Job(Len(records')) /\ Alike(j, k) /\ k.data.review = j.data.review
        /\ k.data.committed = c /\ k.exit = "completed"
    <2>1. c \in 0 .. n BY <1>1, <1>3, SMT
    <2>. QED BY <1>1, <2>1, CompletedTyped
  <1>10. job' = [job EXCEPT ![w] = k] /\ at' = [at EXCEPT ![w] = "save"] BY DEF GoTo
  <1>. HIDE DEF k
  <1>11. at'[w] = "save" /\ job'[w] = k BY <1>10 DEF Inv, FlowTyped
  <1>12. /\ job'[w].run = r /\ job'[w].action # "none" /\ job'[w].base = j.base
         /\ job'[w].exit = "completed" /\ job'[w].data.committed = c
         /\ job'[w].data.review.id = c /\ ctl' = ctl
    BY <1>2, <1>3, <1>5, <1>9, <1>11 DEF Alike
  <1>13. RunFits(r)'
    <2>1. RunFits(r) BY DEF Inv, Flowing
    <2>2. CandidatesOf(r) \subseteq Ids BY CandidateRows DEF Inv
    <2>3. \A i \in CandidatesOf(r) : ~IsOpen(i)'
      <3>. TAKE i \in CandidatesOf(r)
      <3>1. CASE i = c BY <3>1 DEF IsOpen
      <3>2. CASE i # c
        <4>1. ~IsOpen(i) BY <1>4, <2>1, <3>2 DEF RunFits
        <4>. QED BY <2>2, <4>1 DEF Aged, IsOpen
      <3>. QED BY <3>1, <3>2
    <2>4. ctl[r].status = "suspended" => Pending(r, ctl[r].data.review, ctl[r].attempt)'
      <3>. SUFFICES ASSUME ctl[r].status = "suspended"
                    PROVE  Pending(r, ctl[r].data.review, ctl[r].attempt)'
        OBVIOUS
      <3>1. Pending(r, ctl[r].data.review, ctl[r].attempt) BY <2>1 DEF RunFits
      <3>2. ~Edited(r, ctl[r].attempt + 1) BY <1>4, <3>1 DEF Pending, IsOpen
      <3>3. PICK a : a = ctl[r].attempt + 1 OBVIOUS
      <3>4. ~Edited(r, a)' /\ ctl'[r].attempt + 1 = a BY <1>8, <1>12, <3>2, <3>3
      <3>5. ~Edited(r, ctl[r].attempt + 1)' BY <3>4
      <3>. QED BY <1>4, <1>8, <1>12, <3>1, <3>5 DEF Pending
    <2>5. ctl[r].status # "completed" BY <1>4, <1>8, <2>1 DEF RunFits, Settled
    <2>. QED BY <1>3, <1>8, <1>12, <2>3, <2>4, <2>5 DEF RunFits
  <1>14. JobFits(at[w], job[w])'
    <2>1. c \in CandidatesOf(r)' /\ Commits(r)' # {} BY <1>4, <1>8
    <2>2. SavingFits(job[w])' BY <1>12, <2>1 DEF SavingFits
    <2>. QED BY <1>3, <1>11, <1>12, <2>2 DEF JobFits
  <1>15. /\ CandidatesOf(r) \subseteq CandidatesOf(r)' /\ Commits(r) \subseteq Commits(r)'
         /\ \A m : Edited(r, m) => Edited(r, m)'
    BY <1>8
  <1>16. at[w] # "idle" OBVIOUS
  <1>. QED
    BY <1>2, <1>5, <1>8, <1>9, <1>10, <1>13, <1>14, <1>15, <1>16, Storing

\* The decision was applied before: the call answers with its event.
LEMMA Replaying ==
  ASSUME Inv, NEW w \in Workers, at[w] \in {"commit", "supersede"},
         at[w] = "supersede" \/ job[w].data.review # NoReview,
         Quiet, UNCHANGED store, KeyUsed(CommitKey(job[w])),
         GoTo(w, "save", Completed(job[w], ReplayedId(CommitKey(job[w]))))
  PROVE  Inv'
  <1>. DEFINE j == job[w]
              r == j.run
              n == Len(records)
              key == CommitKey(j)
              k == Completed(j, ReplayedId(key))
              c == j.data.review
  <1>1. n \in Nat /\ Ids = 1 .. n /\ j \in Job(n) BY WorkerTyped
  <1>2. /\ j.action # "none" /\ ResumedFits(at[w], j) /\ r \in Runs
        /\ ctl[r].status \in {"suspended", "completed", "failed"}
        /\ j.base \in 0 .. ctl[r].attempt /\ c.id \in Ids
    BY DecidingHolds
  <1>3. PICK e \in audit : e.key = key /\ ReplayedId(key) = e.result
    BY DEF KeyUsed, ReplayedId
  <1>4. key = <<r, "commit", 1, 0>> BY DEF CommitKey
  <1>5. e \in Commits(r) BY <1>3, <1>4 DEF Commits
  <1>6. e.memory = e.result /\ e.memory \in CandidatesOf(r)
    <2>1. e.key[1] = r /\ e.key[2] = "commit" BY <1>3, <1>4
    <2>. QED BY <2>1 DEF Inv, Audited, EventFits
  <1>7. e.result \in 0 .. n
    <2>1. e.result \in Ids BY <1>6, CandidateRows DEF Inv
    <2>. QED BY <1>1, <2>1, SMT
  <1>8. MaySucceed(j) => e.result = c.id
    <2>. SUFFICES ASSUME MaySucceed(j) PROVE e.result = c.id
      OBVIOUS
    <2>1. c.id = ctl[r].data.review.id BY <1>2 DEF ResumedFits
    <2>2. Pending(r, ctl[r].data.review, ctl[r].attempt)
      BY <1>2 DEF Inv, Flowing, RunFits, MaySucceed
    <2>. QED BY <1>5, <1>6, <2>1, <2>2 DEF Pending
  <1>9. k \in Job(n) /\ Alike(j, k) /\ k.data.review = c
        /\ k.data.committed = e.result /\ k.exit = "completed"
    BY <1>1, <1>3, <1>7, CompletedTyped
  <1>. HIDE DEF k
  <1>10. JobFits("save", k)
    <2>1. MaySucceed(k) <=> MaySucceed(j) BY <1>9 DEF MaySucceed, Alike
    <2>2. c.id \in CandidatesOf(r) BY <1>2 DEF ResumedFits
    <2>3. SavingFits(k) BY <1>5, <1>8, <1>9, <2>1, <2>2 DEF SavingFits, Alike
    <2>. QED BY <1>2, <1>9, <2>3 DEF JobFits, Alike
  <1>11. "save" \in Places /\ at[w] # "idle" BY DEF Places
  <1>12. Read(w, "save", k) BY DEF Read, k
  <1>. QED BY <1>9, <1>10, <1>11, <1>12, Reading

LEMMA CommitInv ==
  ASSUME Inv, NEW w \in Workers, Commit(w)
  PROVE  Inv'
  <1>. DEFINE j == job[w]
              p == j.data.policy
              c == j.data.review
              to == IF c.decision = "approve" THEN "active" ELSE "rejected"
              n == Len(records)
  <1>1. at[w] = "commit" /\ at[w] # "idle" /\ Quiet BY DEF Commit
  <1>2. n \in Nat /\ Ids = 1 .. n /\ j \in Job(n) /\ JobFits(at[w], j) BY WorkerTyped
  <1>3. CASE /\ c = NoReview /\ UNCHANGED store
             /\ GoTo(w, "save", [j EXCEPT !.exit = "completed"])
    <2>. DEFINE k == [j EXCEPT !.exit = "completed"]
    <2>1. j.action = "none"
      <3>1. NoReview.id = 0 BY DEF NoReview
      <3>. SUFFICES ASSUME j.action # "none" PROVE FALSE
        OBVIOUS
      <3>2. ResumedFits(at[w], j) BY <1>1, <1>2 DEF JobFits
      <3>3. c.id \in Ids BY <3>2, CandidateRows DEF ResumedFits, Inv
      <3>. QED BY <1>2, <1>3, <3>1, <3>3, SMT
    <2>2. k \in Job(n) /\ Alike(j, k) /\ k.data = j.data /\ k.exit = "completed"
      BY <1>2, WithExit
    <2>3. Read(w, "save", k) BY <1>1, <1>3 DEF Read
    <2>. HIDE DEF k
    <2>4. JobFits("save", k)
      <3>1. FirstFits(at[w], j) /\ j.run \in Runs BY <1>1, <1>2, <2>1 DEF JobFits
      <3>2. "save" \notin FirstPass BY DEF FirstPass
      <3>3. FirstFits("save", k) BY <1>1, <2>2, <3>1, <3>2 DEF FirstFits, Alike
      <3>. QED BY <2>1, <2>2, <3>1, <3>3 DEF JobFits, Alike
    <2>5. "save" \in Places BY DEF Places
    <2>. QED BY <1>1, <2>2, <2>3, <2>4, <2>5, Reading
  <1>4. CASE UNCHANGED store /\ GoTo(w, "save", [j EXCEPT !.exit = "failed"])
    BY <1>1, <1>4, Refused DEF Refuse
  <1>5. CASE /\ c # NoReview /\ Superseding(j) /\ IsActiveAt(p.target) /\ UNCHANGED store
             /\ GoTo(w, "supersede", [j EXCEPT !.target = records[p.target].rver])
    <2>. DEFINE v == records[p.target].rver
                k == [j EXCEPT !.target = v]
    <2>1. v \in Nat
      <3>1. p \in Policy(n) BY <1>2, SMT DEF Job, Data
      <3>2. p.action = "supersede" BY <1>5 DEF Superseding
      <3>3. p.target \in Ids BY <1>2, <3>1, <3>2, SMT DEF Policy
      <3>4. records[p.target] \in Record BY <3>3, Rows DEF Inv, StoreTyped
      <3>. QED BY <3>4, NextVersion
    <2>. HIDE DEF v
    <2>2. k \in Job(n) /\ Alike(j, k) /\ k.data = j.data BY <1>2, <2>1, SetTarget
    <2>3. Read(w, "supersede", k) BY <1>1, <1>5 DEF Read, v
    <2>. HIDE DEF k
    <2>4. JobFits("supersede", k)
      <3>1. /\ j.action # "none" /\ ResumedFits(at[w], j) /\ j.run \in Runs
            /\ ctl[j.run].status \in {"suspended", "completed", "failed"}
            /\ j.base \in 0 .. ctl[j.run].attempt /\ c.decision = j.action
        BY <1>1, <1>5, DecidingHolds
      <3>2. "supersede" \in Resumed /\ "supersede" \notin Editing BY DEF Resumed, Editing
      <3>3. MaySucceed(k) <=> MaySucceed(j) BY <2>2 DEF MaySucceed, Alike
      <3>4. c.decision = "approve" BY <1>5 DEF Superseding
      <3>5. ResumedFits("supersede", k)
        BY <1>1, <2>2, <3>1, <3>2, <3>3, <3>4 DEF ResumedFits, Alike
      <3>. QED BY <2>2, <3>1, <3>5 DEF JobFits, Alike
    <2>5. "supersede" \in Places BY DEF Places, Resumed
    <2>. QED BY <1>1, <2>2, <2>3, <2>4, <2>5, Reading
  <1>6. CASE /\ c # NoReview /\ TransitionMemory(c.id, c.rver, to, CommitKey(j))
             /\ GoTo(w, "save", Completed(j, c.id))
    <2>1. to \in {"active", "rejected"} OBVIOUS
    <2>2. to = "active" => c.decision = "approve" OBVIOUS
    <2>3. PICK i, t : i = c.id /\ t = to OBVIOUS
    <2>. HIDE DEF to
    <2>4. /\ StoreTyped' /\ FactsAreConsistent' /\ Aged /\ Len(records') = Len(records)
          /\ i \in Ids /\ records[i].status = "candidate" /\ records'[i].status = t
          /\ ~KeyUsed(CommitKey(j))
          /\ audit' = audit \union
               {EventRow(CommitKey(j), i, records[i].status, t, records[i].text, i)}
      <3>1. TransitionMemory(i, c.rver, t, CommitKey(j)) /\ t \in {"active", "rejected"}
        BY <1>6, <2>1, <2>3
      <3>. QED BY <3>1, Transiting DEF Inv
    <2>. DEFINE e == EventRow(CommitKey(j), i, records[i].status, t, records[i].text, i)
    <2>5. e.key = CommitKey(j) /\ e.memory = i /\ e.result = i /\ e.new = t BY DEF EventRow
    <2>6. \A f \in {e} : f = e \/ Plain(f) OBVIOUS
    <2>7. audit' = audit \union {e} /\ e \in {e} BY <2>4
    <2>. HIDE DEF e
    <2>8. IsOpen(i) /\ records'[i].status # "candidate" BY <2>1, <2>3, <2>4 DEF IsOpen
    <2>9. PICK S : S = {e} OBVIOUS
    <2>10. audit' = audit \union S /\ e \in S /\ \A f \in S : f = e \/ Plain(f) BY <2>6, <2>7, <2>9
    <2>11. e.new = "active" => job[w].data.review.decision = "approve" BY <2>2, <2>3, <2>5
    <2>12. at[w] \in {"commit", "supersede"} /\ (at[w] = "supersede" \/ job[w].data.review # NoReview)
      BY <1>1, <1>6
    <2>13. Quiet /\ GoTo(w, "save", Completed(job[w], job[w].data.review.id)) BY <1>1, <1>6
    <2>14. i = job[w].data.review.id /\ ~KeyUsed(CommitKey(job[w])) /\ e.key = CommitKey(job[w])
      BY <2>3, <2>4, <2>5
    <2>. QED BY <2>4, <2>5, <2>8, <2>10, <2>11, <2>12, <2>13, <2>14, Deciding
  <1>7. CASE /\ c # NoReview /\ Replays(CommitKey(j), records[c.id].text) /\ UNCHANGED store
             /\ GoTo(w, "save", Completed(j, ReplayedId(CommitKey(j))))
    <2>1. KeyUsed(CommitKey(j)) BY <1>7 DEF Replays, KeyUsed
    <2>. QED BY <1>1, <1>7, <2>1, Replaying
  <1>. QED BY <1>3, <1>4, <1>5, <1>6, <1>7 DEF Commit

LEMMA SupersedeInv ==
  ASSUME Inv, NEW w \in Workers, Supersede(w)
  PROVE  Inv'
  <1>. DEFINE j == job[w]
              c == j.data.review
              t == j.data.policy.target
              key == CommitKey(j)
  <1>1. at[w] = "supersede" /\ at[w] # "idle" /\ Quiet BY DEF Supersede
  <1>2. CASE /\ ActivateCandidateSuperseding(c.id, c.rver, t, j.target, key)
             /\ GoTo(w, "save", Completed(j, c.id))
    <2>1. PICK i : i = c.id OBVIOUS
    <2>2. ActivateCandidateSuperseding(i, c.rver, t, j.target, key) BY <1>2, <2>1
    <2>. DEFINE e == EventRow(key, i, "candidate", "active", records[i].text, i)
                f == EventRow(<<key, "target">>, t, "active", "superseded", records[i].text, i)
    <2>3. /\ StoreTyped' /\ FactsAreConsistent' /\ Aged /\ Len(records') = Len(records)
          /\ records[i].status = "candidate" /\ records'[i].status = "active"
          /\ ~KeyUsed(key) /\ audit' = audit \union {e, f}
      <3>. HIDE DEF key, t
      <3>. QED BY <2>2, Superseded DEF Inv
    <2>4. e.key = key /\ e.memory = i /\ e.result = i BY DEF EventRow
    <2>5. Plain(f)
      <3>1. f.key = <<key, "target">> /\ f.new = "superseded" BY DEF EventRow
      <3>2. <<key, "target">>[2] = "target" OBVIOUS
      <3>. QED BY <3>1, <3>2 DEF Plain
    <2>. HIDE DEF e, f
    <2>6. e \in {e, f} /\ \A g \in {e, f} : g = e \/ Plain(g) BY <2>5
    <2>7. c.decision = "approve" BY <1>1, DecidingHolds DEF ResumedFits
    <2>8. IsOpen(i) /\ records'[i].status # "candidate" BY <2>3 DEF IsOpen
    <2>9. PICK S : S = {e, f} OBVIOUS
    <2>10. audit' = audit \union S /\ e \in S /\ \A g \in S : g = e \/ Plain(g) BY <2>3, <2>6, <2>9
    <2>11. at[w] \in {"commit", "supersede"} /\ (at[w] = "supersede" \/ job[w].data.review # NoReview)
      BY <1>1
    <2>12. Quiet /\ GoTo(w, "save", Completed(job[w], job[w].data.review.id)) BY <1>1, <1>2
    <2>13. /\ i = job[w].data.review.id /\ ~KeyUsed(CommitKey(job[w])) /\ e.key = CommitKey(job[w])
           /\ job[w].data.review.decision = "approve"
      BY <2>1, <2>3, <2>4, <2>7
    <2>. QED BY <2>3, <2>4, <2>8, <2>10, <2>11, <2>12, <2>13, Deciding
  <1>3. CASE /\ Replays(key, records[c.id].text) /\ UNCHANGED store
             /\ GoTo(w, "save", Completed(j, ReplayedId(key)))
    <2>1. KeyUsed(key) BY <1>3 DEF Replays, KeyUsed
    <2>. QED BY <1>1, <1>3, <2>1, Replaying
  <1>4. CASE UNCHANGED store /\ GoTo(w, "save", [j EXCEPT !.exit = "failed"])
    BY <1>1, <1>4, Refused DEF Refuse
  <1>. QED BY <1>2, <1>3, <1>4 DEF Supersede

-----------------------------------------------------------------------------
(* The ends of a segment.                                                    *)

\* No worker but w runs a first segment of q.
OnlyFirst(w, q) ==
    \A v \in Workers \ {w} : ~(at[v] # "idle" /\ job[v].run = q /\ job[v].action = "none")

\* A step of w, outside the store, that changes at most the checkpoint of run r
\* and leaves no other segment of that run in doubt.
LEMMA Routing ==
  ASSUME Inv, UNCHANGED <<records, audit, outbox, version>>, approvals \subseteq approvals',
         payloads' \in Seq(Payload), Len(payloads) <= Len(payloads'),
         holder' \in [Runs -> Workers \union {None}],
         NEW w \in Workers, NEW r \in Runs, NEW s \in Places, NEW j \in Job(Len(records)),
         at' = [at EXCEPT ![w] = s], job' = [job EXCEPT ![w] = j],
         NEW x \in Checkpoint(Len(records)), ctl' = [ctl EXCEPT ![r] = x],
         ctl[r].attempt <= x.attempt,
         RunFits(r)', JobFits(at[w], job[w])',
         \A v \in Workers \ {w} :
            at[v] # "idle" /\ job[v].run = r /\ ctl' # ctl => JobFits(at[v], job[v])',
         s # "idle" /\ j.action = "none" => OnlyFirst(w, j.run)
  PROVE  Inv'
  <1>0. Len(records) \in Nat /\ Len(records') = Len(records) /\ Ids = 1 .. Len(records)
    BY Rows DEF Inv, StoreTyped
  <1>1. /\ at' \in [Workers -> Places] /\ job' \in [Workers -> Job(Len(records'))]
        /\ at'[w] = s /\ job'[w] = j
        /\ \A v \in Workers : v # w => at'[v] = at[v] /\ job'[v] = job[v]
    <2>1. j \in Job(Len(records')) /\ Len(records) <= Len(records') BY <1>0, SMT
    <2>. QED BY <1>0, <2>1, FlowKept DEF Inv
  <1>2. /\ ctl' \in [Runs -> Checkpoint(Len(records'))] /\ ctl'[r] = x
        /\ \A q \in Runs : q # r => ctl'[q] = ctl[q]
    BY <1>0 DEF Inv, FlowTyped
  <1>3. FlowTyped' BY <1>1, <1>2 DEF FlowTyped
  <1>4. StoreTyped' BY DEF Inv, StoreTyped
  <1>5. FactsAreConsistent'
    BY DEF Inv, FactsAreConsistent, OneActivePerSlot, SupersessionIsMutual, Ids
  <1>6. Aged BY <1>0, SMT DEF Aged
  <1>7. \A q \in Runs : /\ ctl[q].attempt \in Nat /\ ctl'[q].attempt \in Nat
                        /\ ctl[q].attempt <= ctl'[q].attempt
    <2>. TAKE q \in Runs
    <2>1. ctl[q].attempt \in Nat /\ ctl'[q].attempt \in Nat
      BY <1>2, SMT DEF Inv, FlowTyped, Checkpoint
    <2>2. CASE q = r BY <1>2, <2>1, <2>2
    <2>3. CASE q # r BY <1>2, <2>1, <2>3, SMT
    <2>. QED BY <2>1, <2>2, <2>3
  <1>8. /\ Audited' /\ \A q : CandidatesOf(q)' = CandidatesOf(q) /\ Commits(q)' = Commits(q)
        /\ \A q, n : Edited(q, n)' <=> Edited(q, n)
    <2>1. Ids \subseteq Ids' BY DEF Ids
    <2>. QED BY <1>7, <2>1, NothingRecorded DEF Inv
  <1>9. \A q \in Runs : RunFits(q)'
    <2>. TAKE q \in Runs
    <2>1. CASE q = r BY <2>1
    <2>2. CASE q # r BY <1>2, <1>6, <1>8, <2>2, RunKept DEF Inv, Flowing
    <2>. QED BY <2>1, <2>2
  <1>10. \A v \in Workers : JobFits(at[v], job[v])'
    <2>. TAKE v \in Workers
    <2>1. CASE v = w BY <2>1
    <2>2. CASE v # w /\ at[v] = "idle" BY <1>1, <2>2 DEF JobFits
    <2>3. CASE v # w /\ at[v] # "idle" /\ job[v].run = r /\ ctl' # ctl BY <2>3
    <2>4. CASE v # w /\ at[v] # "idle" /\ (job[v].run # r \/ ctl' = ctl)
      <3>1. JobFits(at[v], job[v]) /\ job[v].run \in Runs BY <2>4, WorkerTyped
      <3>2. ctl'[job[v].run] = ctl[job[v].run] BY <1>2, <2>4, <3>1
      <3>3. 1 .. Len(payloads) \subseteq 1 .. Len(payloads')
        <4>1. payloads \in Seq(Payload) BY DEF Inv, FlowTyped
        <4>. QED BY <4>1, SMT
      <3>. QED BY <1>1, <1>6, <1>8, <2>4, <3>1, <3>2, <3>3, JobKept DEF Inv
    <2>. QED BY <2>1, <2>2, <2>3, <2>4
  <1>11. OneFirst'
    <2>. SUFFICES ASSUME NEW u \in Workers, NEW v \in Workers,
                         at'[u] # "idle", at'[v] # "idle", job'[u].run = job'[v].run,
                         job'[u].action = "none", job'[v].action = "none", u # v
                  PROVE  FALSE
      BY DEF OneFirst
    <2>1. CASE u # w /\ v # w BY <1>1, <2>1 DEF Inv, Flowing, OneFirst
    <2>2. CASE u = w BY <1>1, <2>2 DEF OnlyFirst
    <2>3. CASE v = w BY <1>1, <2>3 DEF OnlyFirst
    <2>. QED BY <2>1, <2>2, <2>3
  <1>. QED BY <1>3, <1>4, <1>5, <1>8, <1>9, <1>10, <1>11 DEF Inv, Flowing

\* A segment ends without saving.
LEMMA Dropping ==
  ASSUME Inv, NEW w \in Workers, at[w] # "idle",
         UNCHANGED <<records, audit, outbox, version, ctl, holder, payloads, approvals>>,
         GoTo(w, "idle", NoJob)
  PROVE  Inv'
  <1>0. PICK r \in Runs : r = job[w].run BY WorkerTyped
  <1>1. Len(records) \in Nat BY WorkerTyped
  <1>2. NoJob \in Job(Len(records)) /\ "idle" \in Places BY <1>1, NoJobTyped DEF Places
  <1>3. at' = [at EXCEPT ![w] = "idle"] /\ job' = [job EXCEPT ![w] = NoJob] BY DEF GoTo
  <1>4. PICK x : x = ctl[r] OBVIOUS
  <1>5. x \in Checkpoint(Len(records)) /\ ctl' = [ctl EXCEPT ![r] = x] /\ ctl[r].attempt <= x.attempt
    <2>1. x \in Checkpoint(Len(records)) /\ ctl' = [ctl EXCEPT ![r] = x]
      BY <1>4 DEF Inv, FlowTyped
    <2>2. x.attempt \in Nat BY <2>1, SMT DEF Checkpoint
    <2>3. ctl[r].attempt <= x.attempt BY <1>4, <2>2, SMT
    <2>. QED BY <2>1, <2>3
  <1>6. RunFits(r)'
    <2>1. RunFits(r) /\ Audited BY DEF Inv, Flowing
    <2>2. Aged BY <1>1, SMT DEF Aged
    <2>3. CandidatesOf(r)' = CandidatesOf(r) /\ Commits(r)' = Commits(r)
          /\ \A n : Edited(r, n)' <=> Edited(r, n)
      BY DEF CandidatesOf, Commits, Edited, KeyUsed
    <2>. QED BY <2>1, <2>2, <2>3, RunKept
  <1>7. at'[w] = "idle" BY <1>3 DEF Inv, FlowTyped
  <1>8. JobFits(at[w], job[w])' BY <1>7 DEF JobFits
  <1>9. /\ payloads' \in Seq(Payload) /\ Len(payloads) <= Len(payloads')
        /\ holder' \in [Runs -> Workers \union {None}]
    <2>1. payloads \in Seq(Payload) /\ holder \in [Runs -> Workers \union {None}]
      BY DEF Inv, FlowTyped
    <2>. QED BY <2>1, SMT
  <1>. QED BY <1>2, <1>3, <1>5, <1>6, <1>8, <1>9, Routing

LEMMA CrashInv ==
  ASSUME Inv, NEW w \in Workers, Crash(w)
  PROVE  Inv'
  BY Dropping DEF Crash

LEMMA SaveInv ==
  ASSUME Inv, NEW w \in Workers, Save(w)
  PROVE  Inv'
  <1>. DEFINE j == job[w]
              n == Len(records)
  <1>1. at[w] = "save" /\ at[w] # "idle" /\ GoTo(w, "idle", NoJob)
        /\ UNCHANGED <<records, audit, outbox, version, payloads, calls, crashes, approvals>>
    BY DEF Save
  <1>2. CASE ~MaySave(w)
    <2>1. UNCHANGED <<ctl, holder>> BY <1>2 DEF Save
    <2>. QED BY <1>1, <2>1, Dropping
  <1>3. CASE MaySave(w)
    <2>1. n \in Nat /\ Ids = 1 .. n /\ j \in Job(n) /\ JobFits(at[w], j) /\ j.run \in Runs
      BY <1>1, WorkerTyped
    <2>2. PICK r \in Runs : r = job[w].run BY <2>1
    <2>3. PICK x : x = [status |-> j.exit, attempt |-> j.base + 1, data |-> j.data] OBVIOUS
    <2>4. ctl' = [ctl EXCEPT ![r] = x] /\ holder' = [holder EXCEPT ![r] = None]
      BY <1>3, <2>2, <2>3 DEF Save
    <2>5. j.exit \in {"failed", "suspended", "completed"} /\ j.base \in Nat /\ j.data \in Data(n)
      <3>1. j.exit \in {"none", "failed", "suspended", "completed"} /\ j.base \in Nat
            /\ j.data \in Data(n)
        BY <2>1, SMT DEF Job
      <3>2. j.exit # "none" BY <1>1, <2>1 DEF JobFits
      <3>. QED BY <3>1, <3>2
    <2>6. x \in Checkpoint(n)
      <3>1. j.base + 1 \in Nat BY <2>5, SMT
      <3>. QED BY <2>3, <2>5, <3>1, SMT DEF Checkpoint
    <2>7. x.status = j.exit /\ x.attempt = j.base + 1 /\ x.data = j.data BY <2>3
    <2>8. ctl[r].attempt = j.base /\ (j.action = "none" => ctl[r].status = "pending")
          /\ (j.action # "none" => ctl[r].status = "suspended")
      BY <1>3, <2>2 DEF MaySave
    <2>9. ctl[r].attempt <= x.attempt BY <2>5, <2>7, <2>8, SMT
    <2>10. /\ CandidatesOf(r)' = CandidatesOf(r) /\ Commits(r)' = Commits(r)
           /\ \A m : Edited(r, m)' <=> Edited(r, m)
      BY <1>1 DEF CandidatesOf, Commits, Edited, KeyUsed
    <2>11. ctl'[r] = x BY <2>4 DEF Inv, FlowTyped
    <2>12. RunFits(r) /\ Audited BY DEF Inv, Flowing
    <2>13. PICK m : m = j.base + 2 OBVIOUS
    <2>14. ~Edited(r, m)
      <3>. SUFFICES ASSUME NEW e \in audit, e.key = <<r, "review", m, 1>> PROVE FALSE
        BY DEF Edited, KeyUsed
      <3>1. e.key[1] = r /\ e.key[2] = "review" /\ e.key[3] = m OBVIOUS
      <3>2. m \in 1 .. ctl[r].attempt + 1 BY <2>12, <3>1 DEF Audited, EventFits
      <3>. QED BY <2>5, <2>8, <2>13, <3>2, SMT
    <2>15. x.attempt + 1 = m BY <2>5, <2>7, <2>13, SMT
    <2>16. j.action # "none" =>
             /\ SavingFits(j) /\ MaySucceed(j)
             /\ Pending(r, ctl[r].data.review, ctl[r].attempt)
      BY <1>1, <2>1, <2>2, <2>8, <2>12 DEF JobFits, MaySucceed, RunFits
    <2>17. j.action = "none" => FirstFits("save", j) /\ Commits(r) = {}
      BY <1>1, <2>1, <2>8, <2>12 DEF JobFits, RunFits
    <2>18. j.exit = "suspended" =>
             /\ j.data.review.id \in CandidatesOf(r) /\ j.data.review.decision = "none"
             /\ Commits(r) = {}
             /\ j.action # "none" => records[ctl[r].data.review.id].status = "rejected"
      <3>1. CASE j.action = "none" BY <2>2, <2>17, <3>1 DEF FirstFits
      <3>2. CASE j.action # "none"
        BY <2>2, <2>8, <2>16, <3>2 DEF SavingFits, Pending
      <3>. QED BY <3>1, <3>2
    <2>19. j.exit = "completed" => Settled(r, j.data)
      <3>1. CASE j.action = "none" BY <2>2, <2>17, <3>1 DEF FirstFits, Settled
      <3>2. CASE j.action # "none" /\ j.exit = "completed"
        <4>1. /\ j.data.review.id \in CandidatesOf(r) /\ Commits(r) # {}
              /\ j.data.committed = j.data.review.id
          BY <2>2, <2>16, <3>2 DEF SavingFits
        <4>2. j.data.review.id \in Ids BY <2>12, <4>1, CandidateRows
        <4>3. j.data.review # NoReview BY <2>1, <4>2, SMT DEF NoReview
        <4>. QED BY <4>1, <4>3 DEF Settled
      <3>. QED BY <3>1, <3>2
    <2>20. RunFits(r)'
      <3>1. \A i : IsOpen(i)' <=> IsOpen(i) BY <1>1 DEF IsOpen
      <3>2. j.exit = "suspended" => Pending(r, ctl[r].data.review, ctl[r].attempt)'
        <4>. SUFFICES ASSUME j.exit = "suspended"
                      PROVE  Pending(r, ctl[r].data.review, ctl[r].attempt)'
          OBVIOUS
        <4>1. ctl'[r].attempt + 1 = m /\ ctl'[r].data.review = j.data.review
          BY <2>7, <2>11, <2>15
        <4>2. ~Edited(r, m)' BY <2>10, <2>14
        <4>3. ~Edited(r, ctl[r].attempt + 1)' BY <4>1, <4>2
        <4>. QED BY <2>10, <2>18, <4>1, <4>3 DEF Pending
      <3>3. j.exit = "completed" => Settled(r, ctl[r].data)'
        BY <2>7, <2>10, <2>11, <2>19 DEF Settled
      <3>. QED BY <2>5, <2>7, <2>10, <2>11, <2>12, <3>1, <3>2, <3>3 DEF RunFits
    <2>21. at' = [at EXCEPT ![w] = "idle"] /\ job' = [job EXCEPT ![w] = NoJob] BY <1>1 DEF GoTo
    <2>22. /\ at'[w] = "idle"
           /\ \A v \in Workers : v # w => at'[v] = at[v] /\ job'[v] = job[v]
      BY <2>21 DEF Inv, FlowTyped
    <2>23. JobFits(at[w], job[w])' BY <2>22 DEF JobFits
    <2>24. ASSUME NEW v \in Workers \ {w}, at[v] # "idle", job[v].run = r
           PROVE  JobFits(at[v], job[v])'
      <3>. DEFINE k == job[v]
      <3>1. JobFits(at[v], k) BY WorkerTyped
      <3>2. k.action # "none"
        <4>. SUFFICES ASSUME k.action = "none" PROVE FALSE
          OBVIOUS
        <4>1. ctl[r].status = "pending" BY <2>24, <3>1 DEF JobFits, FirstFits
        <4>2. j.action = "none" BY <2>8, <4>1
        <4>. QED BY <1>1, <2>2, <2>24, <4>2 DEF Inv, Flowing, OneFirst
      <3>3. /\ ctl[r].status \in {"suspended", "completed", "failed"}
            /\ k.base \in 0 .. ctl[r].attempt
            /\ IF at[v] = "save" THEN SavingFits(k) ELSE ResumedFits(at[v], k)
        BY <2>24, <3>1, <3>2 DEF JobFits
      <3>4. j.action # "none" BY <2>8, <3>3
      <3>5. at'[v] = at[v] /\ job'[v] = k BY <2>22, <2>24
      <3>6. k.base \in 0 .. x.attempt /\ k.base # x.attempt
        BY <2>5, <2>7, <2>8, <3>3, SMT
      <3>7. ~MaySucceed(k)' BY <2>11, <2>24, <3>5, <3>6 DEF MaySucceed
      <3>8. CASE at[v] = "save"
        <4>1. SavingFits(job[v])' BY <2>10, <2>24, <3>3, <3>5, <3>7, <3>8 DEF SavingFits
        <4>. QED BY <2>5, <2>7, <2>11, <2>24, <3>1, <3>2, <3>5, <3>6, <3>8, <4>1 DEF JobFits
      <3>9. CASE at[v] # "save"
        <4>1. ResumedFits(at[v], k) BY <3>3, <3>9
        <4>2. x.status = "suspended" => ~IsOpen(k.data.review.id)
          <5>. SUFFICES ASSUME x.status = "suspended", IsOpen(k.data.review.id) PROVE FALSE
            OBVIOUS
          <5>1. k.data.review.id = ctl[r].data.review.id
            BY <2>8, <2>24, <3>4, <4>1 DEF ResumedFits
          <5>2. records[ctl[r].data.review.id].status = "rejected" BY <2>7, <2>18, <3>4
          <5>. QED BY <5>1, <5>2 DEF IsOpen
        <4>3. ResumedFits(at[v], job[v])'
          <5>1. IsOpen(job[v].data.review.id)' <=> IsOpen(k.data.review.id)
            BY <1>1, <3>5 DEF IsOpen
          <5>. QED
            BY <1>1, <2>10, <2>11, <2>24, <3>5, <3>7, <4>1, <4>2, <5>1 DEF ResumedFits
        <4>. QED BY <2>5, <2>7, <2>11, <2>24, <3>1, <3>2, <3>5, <3>6, <3>9, <4>3 DEF JobFits
      <3>. QED BY <3>8, <3>9
    <2>25. /\ payloads' \in Seq(Payload) /\ Len(payloads) <= Len(payloads')
           /\ holder' \in [Runs -> Workers \union {None}]
      <3>1. payloads \in Seq(Payload) /\ holder \in [Runs -> Workers \union {None}]
        BY DEF Inv, FlowTyped
      <3>. QED BY <1>1, <2>4, <3>1, SMT
    <2>26. NoJob \in Job(n) /\ "idle" \in Places BY <2>1, NoJobTyped DEF Places
    <2>. QED
      BY <1>1, <2>4, <2>6, <2>9, <2>20, <2>21, <2>23, <2>24, <2>25, <2>26, Routing
  <1>. QED BY <1>2, <1>3

-----------------------------------------------------------------------------
(* The calls, and time.                                                      *)

LEMMA Begun ==
  ASSUME NEW n \in Nat, NEW x \in Checkpoint(n), NEW i \in Intents
  PROVE  LET y == [x EXCEPT !.status = "pending", !.data.intent = i]
         IN  y \in Checkpoint(n) /\ y.status = "pending" /\ y.attempt = x.attempt
  <1>. DEFINE y1 == [x EXCEPT !.status = "pending"]
              y2 == [y1 EXCEPT !.data.intent = i]
  <1>1. y1 \in Checkpoint(n) /\ y1.status = "pending" /\ y1.attempt = x.attempt
    BY SMT DEF Checkpoint
  <1>2. [x EXCEPT !.status = "pending", !.data.intent = i] = y2 OBVIOUS
  <1>. HIDE DEF y1
  <1>3. y2 \in Checkpoint(n) /\ y2.status = y1.status /\ y2.attempt = y1.attempt
    BY <1>1, SMT DEF Checkpoint, Data
  <1>. HIDE DEF y2
  <1>. QED BY <1>1, <1>2, <1>3

LEMMA StartInv ==
  ASSUME Inv, NEW w \in Workers, NEW r \in Runs, NEW i \in Intents, NEW d \in Drafts,
         Start(w, r, i, d)
  PROVE  Inv'
  <1>. DEFINE n == Len(records)
              k == StartingJob(r, i, d)
  <1>1. /\ ctl[r].status = "absent" /\ at[w] = "idle"
        /\ at' = [at EXCEPT ![w] = "lookup"] /\ job' = [job EXCEPT ![w] = k]
        /\ holder' = [holder EXCEPT ![r] = w]
        /\ UNCHANGED <<records, audit, outbox, version, payloads, approvals>>
    BY DEF Start, Accept, GoTo, StartingJob
  <1>2. n \in Nat BY WorkerTyped
  <1>3. /\ k \in Job(n) /\ k.run = r /\ k.action = "none" /\ k.base = 0 /\ k.data.draft = d
        /\ k.data.review = NoReview
    BY <1>2, NewJobTyped
  <1>. HIDE DEF k
  <1>4. PICK x : x = [ctl[r] EXCEPT !.status = "pending", !.data.intent = i] OBVIOUS
  <1>5. ctl' = [ctl EXCEPT ![r] = x] BY <1>4 DEF Start
  <1>6. ctl[r] \in Checkpoint(n) BY DEF Inv, FlowTyped
  <1>7. x \in Checkpoint(n) /\ x.status = "pending" /\ x.attempt = ctl[r].attempt
    BY <1>2, <1>4, <1>6, Begun, ZenonT(30)
  <1>8. ctl[r].attempt <= x.attempt
    <2>1. x.attempt \in Nat BY <1>7, SMT DEF Checkpoint
    <2>. QED BY <1>7, <2>1, SMT
  <1>9. RunFits(r) /\ CandidatesOf(r) = {} /\ Commits(r) = {} /\ ctl[r].attempt = 0
    BY <1>1 DEF Inv, Flowing, RunFits
  <1>10. ctl'[r] = x /\ at'[w] = "lookup" /\ job'[w] = k
    BY <1>1, <1>5 DEF Inv, FlowTyped
  <1>11. CandidatesOf(r)' = {} /\ Commits(r)' = {} BY <1>1, <1>9 DEF CandidatesOf, Commits
  <1>12. RunFits(r)' BY <1>7, <1>9, <1>10, <1>11 DEF RunFits
  <1>13. JobFits(at[w], job[w])'
    <2>1. "lookup" \in FirstPass BY DEF FirstPass
    <2>2. job'[w].run = r /\ job'[w].action = "none" /\ job'[w].base = 0
          /\ job'[w].data.draft \in Drafts /\ job'[w].data.review = NoReview
      BY <1>3, <1>10
    <2>3. FirstFits(at[w], job[w])' BY <1>7, <1>10, <1>11, <2>1, <2>2 DEF FirstFits
    <2>. QED BY <1>10, <2>2, <2>3 DEF JobFits
  <1>14. \A v \in Workers : ~(at[v] # "idle" /\ job[v].run = r)
    <2>. TAKE v \in Workers
    <2>1. JobFits(at[v], job[v]) BY WorkerTyped
    <2>. QED BY <1>1, <2>1 DEF JobFits, FirstFits
  <1>15. /\ payloads' \in Seq(Payload) /\ Len(payloads) <= Len(payloads')
         /\ holder' \in [Runs -> Workers \union {None}]
    <2>1. payloads \in Seq(Payload) /\ holder \in [Runs -> Workers \union {None}]
      BY DEF Inv, FlowTyped
    <2>. QED BY <1>1, <2>1, SMT
  <1>16. "lookup" \in Places BY DEF Places, FirstPass
  <1>17. UNCHANGED <<records, audit, outbox, version>> /\ approvals \subseteq approvals'
    BY <1>1
  <1>18. \A v \in Workers \ {w} :
            at[v] # "idle" /\ job[v].run = r /\ ctl' # ctl => JobFits(at[v], job[v])'
    BY <1>14
  <1>19. OnlyFirst(w, k.run) BY <1>3, <1>14 DEF OnlyFirst
  <1>20. at' = [at EXCEPT ![w] = "lookup"] /\ job' = [job EXCEPT ![w] = k] BY <1>1
  <1>21. k \in Job(n) BY <1>3
  <1>22. holder' \in [Runs -> Workers \union {None}] BY <1>15
  <1>23. x \in Checkpoint(n) BY <1>7
  <1>. QED
    BY <1>21, <1>22, <1>23, <1>5, <1>8, <1>12, <1>13, <1>15, <1>16, <1>17, <1>18, <1>19, <1>20, Routing

LEMMA ResumeInv ==
  ASSUME Inv, NEW w \in Workers, NEW r \in Runs, NEW a \in {"approve", "reject", "edit"},
         NEW d, a = "edit" => d \in Drafts, Resume(w, r, a, d)
  PROVE  Inv'
  <1>. DEFINE n == Len(records)
  <1>4. PICK x : x = ctl[r] OBVIOUS
  <1>a. PICK p : p = Len(payloads') OBVIOUS
  <1>. DEFINE k == ResumingJob(r, a, x.attempt, p, x.data)
  <1>1. /\ ctl[r].status = "suspended" /\ at[w] = "idle"
        /\ at' = [at EXCEPT ![w] = "pins"] /\ job' = [job EXCEPT ![w] = k]
        /\ holder' = [holder EXCEPT ![r] = w]
        /\ UNCHANGED <<records, audit, outbox, version, ctl>>
    BY <1>4, <1>a DEF Resume, Accept, GoTo, ResumingJob
  <1>2. n \in Nat /\ payloads \in Seq(Payload) BY WorkerTyped
  <1>3. /\ payloads' \in Seq(Payload) /\ Len(payloads') \in Nat /\ Len(payloads) <= Len(payloads')
        /\ a = "edit" => Len(payloads') \in 1 .. Len(payloads')
    <2>1. CASE a = "edit"
      <3>. DEFINE y == [draft |-> d, pending |-> TRUE]
      <3>1. y \in Payload
        <4>1. \A b \in BOOLEAN : [draft |-> d, pending |-> b] \in Payload
          BY <2>1, Zenon DEF Payload
        <4>. QED BY <4>1
      <3>2. payloads' = Append(payloads, y) BY <2>1 DEF Resume, PutPayload
      <3>. HIDE DEF y
      <3>. QED BY <1>2, <3>1, <3>2, SMT
    <2>2. CASE a # "edit"
      <3>1. payloads' = payloads BY <2>2 DEF Resume
      <3>. QED BY <1>2, <2>2, <3>1, SMT
    <2>. QED BY <2>1, <2>2
  <1>5. x \in Checkpoint(n) /\ ctl' = [ctl EXCEPT ![r] = x] BY <1>1, <1>4 DEF Inv, FlowTyped
  <1>6. x.attempt \in Nat /\ x.data \in Data(n) BY <1>5, SMT DEF Checkpoint
  <1>7. ctl[r].attempt <= x.attempt BY <1>4, <1>6, SMT
  <1>8. /\ k \in Job(n) /\ k.run = r /\ k.action = a /\ k.base = x.attempt
        /\ k.payload = p /\ k.data = x.data
    BY <1>2, <1>3, <1>a, <1>6, ResumingTyped
  <1>. HIDE DEF k
  <1>9. RunFits(r) /\ Audited BY DEF Inv, Flowing
  <1>10. CandidatesOf(r)' = CandidatesOf(r) /\ Commits(r)' = Commits(r)
         /\ \A m : Edited(r, m)' <=> Edited(r, m)
    BY <1>1 DEF CandidatesOf, Commits, Edited, KeyUsed
  <1>11. Aged BY <1>1, <1>2, SMT DEF Aged
  <1>12. RunFits(r)' BY <1>1, <1>9, <1>10, <1>11, RunKept
  <1>13. at'[w] = "pins" /\ job'[w] = k BY <1>1 DEF Inv, FlowTyped
  <1>14. Pending(r, x.data.review, x.attempt) BY <1>1, <1>4, <1>9 DEF RunFits
  <1>15. approvals \subseteq approvals' /\ (a = "approve" => <<r, x.data.review.id>> \in approvals')
    BY <1>4 DEF Resume
  <1>16. JobFits(at[w], job[w])'
    <2>1. "pins" \in Resumed /\ "pins" \notin Editing /\ "pins" \notin {"commit", "supersede", "idle", "save"}
      BY DEF Resumed, Editing
    <2>2. /\ job'[w].run = r /\ job'[w].action = a /\ job'[w].base = x.attempt
          /\ job'[w].payload = Len(payloads') /\ job'[w].data = x.data /\ ctl'[r] = x
      BY <1>1, <1>4, <1>a, <1>8, <1>13
    <2>3. x.data.review.id \in CandidatesOf(r)' /\ x.data.review.decision = "none"
      BY <1>10, <1>14 DEF Pending
    <2>4. ResumedFits(at[w], job[w])'
      BY <1>3, <1>13, <1>15, <2>1, <2>2, <2>3 DEF ResumedFits
    <2>5. x.attempt \in 0 .. x.attempt BY <1>6, SMT
    <2>6. x.status = "suspended" /\ a # "none" BY <1>1, <1>4
    <2>. QED BY <1>13, <2>1, <2>2, <2>4, <2>5, <2>6 DEF JobFits
  <1>17. holder' \in [Runs -> Workers \union {None}]
    <2>1. holder \in [Runs -> Workers \union {None}] BY DEF Inv, FlowTyped
    <2>. QED BY <1>1, <2>1
  <1>18. "pins" \in Places BY DEF Places, Resumed
  <1>19. k.action # "none" BY <1>8
  <1>20. UNCHANGED <<records, audit, outbox, version>> BY <1>1
  <1>21. \A v \in Workers \ {w} :
            at[v] # "idle" /\ job[v].run = r /\ ctl' # ctl => JobFits(at[v], job[v])'
    BY <1>1
  <1>22. at' = [at EXCEPT ![w] = "pins"] /\ job' = [job EXCEPT ![w] = k] BY <1>1
  <1>. QED
    BY <1>3, <1>5, <1>7, <1>8, <1>12, <1>15, <1>16, <1>17, <1>18, <1>19, <1>20, <1>21, <1>22,
       Routing

\* Time passes, in the store alone.
LEMMA TimeInv ==
  ASSUME Inv, UNCHANGED flow, StoreTyped', FactsAreConsistent', Aged,
         Len(records') = Len(records), NEW S, audit' = audit \union S, \A e \in S : Plain(e)
  PROVE  Inv'
  <1>1. UNCHANGED <<ctl, holder, payloads, at, job, approvals>> BY DEF flow
  <1>2. FlowTyped' BY <1>1 DEF Inv, FlowTyped
  <1>3. \A r \in Runs : ctl[r].attempt \in Nat BY SMT DEF Inv, FlowTyped, Checkpoint
  <1>4. Ids' = Ids BY DEF Ids
  <1>5. /\ Audited' /\ \A q : CandidatesOf(q)' = CandidatesOf(q) /\ Commits(q)' = Commits(q)
        /\ \A q, n : Edited(q, n)' <=> Edited(q, n)
    BY <1>1, <1>3, <1>4, PlainRecorded DEF Inv
  <1>6. \A r \in Runs : RunFits(r)' BY <1>1, <1>5, RunKept DEF Inv, Flowing
  <1>7. \A v \in Workers : JobFits(at[v], job[v])'
    BY <1>1, <1>5, JobKept DEF Inv, Flowing
  <1>8. OneFirst' BY <1>1 DEF Inv, Flowing, OneFirst
  <1>. QED BY <1>2, <1>5, <1>6, <1>7, <1>8 DEF Inv, Flowing

LEMMA PassingInv ==
  ASSUME Inv, NEW id \in Ids, Passing(id)
  PROVE  Inv'
  <1>1. Elapse(id) /\ UNCHANGED flow BY DEF Passing
  <1>2. StoreTyped' /\ FactsAreConsistent' /\ Aged /\ Len(records') = Len(records)
    BY <1>1, Elapsing DEF Inv
  <1>3. PICK S : S = {} OBVIOUS
  <1>4. audit' = audit \union S /\ \A e \in S : Plain(e) BY <1>1, <1>3 DEF Elapse
  <1>. QED BY <1>1, <1>2, <1>4, TimeInv

LEMMA SweepInv ==
  ASSUME Inv, Sweep
  PROVE  Inv'
  <1>1. Expire /\ UNCHANGED flow BY DEF Sweep
  <1>2. StoreTyped' /\ FactsAreConsistent' /\ Aged /\ Len(records') = Len(records)
    BY <1>1, Expiring DEF Inv
  <1>. DEFINE S == {EventRow(<<id, "expiry", records[id].rver>>, id, records[id].status, "expired",
                             records[id].text, id) : id \in {k \in Ids : Due(k)}}
  <1>3. audit' = audit \union S BY <1>1 DEF Expire
  <1>4. \A e \in S : Plain(e)
    <2>1. \A id, a, b : <<id, "expiry", a>>[2] = "expiry" OBVIOUS
    <2>. QED BY <2>1 DEF Plain, EventRow
  <1>. HIDE DEF S
  <1>. QED BY <1>1, <1>2, <1>3, <1>4, TimeInv

-----------------------------------------------------------------------------
(* The invariant is inductive.                                               *)

LEMMA InitialStore ==
  ASSUME Init
  PROVE  StoreTyped /\ FactsAreConsistent /\ Len(records) = 1
  <1>. DEFINE x == NewRecord(Known, 1)
              y == [x EXCEPT !.status = "active"]
              z == [y EXCEPT !.rver = 2]
              row == [NoRow EXCEPT !.status = "completed"]
  <1>1. x \in Record BY CaptureAssumption, NewRecordTyped
  <1>2. records = <<z>>
    <2>1. z = [x EXCEPT !.status = "active", !.rver = 2] OBVIOUS
    <2>. QED BY <2>1 DEF Init
  <1>. HIDE DEF x
  <1>3. y \in Record /\ y.status = "active" BY <1>1, SMT DEF Record, Statuses
  <1>. HIDE DEF y
  <1>4. z \in Record /\ z.status = "active" BY <1>3, SMT DEF Record
  <1>. HIDE DEF z
  <1>5. records \in Seq(Record) /\ Len(records) = 1 /\ Ids = {1} /\ records[1] = z
    BY <1>2, <1>4, SMT DEF Ids
  <1>6. row \in Row BY SMT DEF Row, NoRow
  <1>7. outbox = <<row>> /\ version = 2 BY DEF Init
  <1>. HIDE DEF row
  <1>8. outbox \in Seq(Row) /\ Len(outbox) = 1 BY <1>6, <1>7, SMT
  <1>9. version \in Nat BY <1>7, SMT
  <1>10. OneActivePerSlot BY <1>5 DEF OneActivePerSlot
  <1>11. SupersessionIsMutual BY <1>4, <1>5 DEF SupersessionIsMutual
  <1>. QED BY <1>5, <1>8, <1>9, <1>10, <1>11 DEF StoreTyped, FactsAreConsistent

LEMMA InitInv ==
  ASSUME Init
  PROVE  Inv
  <1>. DEFINE n == Len(records)
              x == [status |-> "absent", attempt |-> 0, data |-> NoData]
  <1>1. StoreTyped /\ FactsAreConsistent /\ n = 1 BY InitialStore
  <1>2. n \in Nat BY <1>1, SMT
  <1>3. NoData \in Data(n) /\ NoJob \in Job(n)
    <2>1. NoJob \in Job(n) BY <1>2, NoJobTyped
    <2>2. NoJob.data \in Data(n) BY <2>1, SMT DEF Job
    <2>. QED BY <2>1, <2>2 DEF NoJob
  <1>4. x \in Checkpoint(n) BY <1>3, SMT DEF Checkpoint
  <1>5. ctl = [r \in Runs |-> x] /\ job = [w \in Workers |-> NoJob] BY DEF Init
  <1>6. x.status = "absent" /\ x.attempt = 0 OBVIOUS
  <1>. HIDE DEF x
  <1>7. \A r \in Runs : ctl[r] = x BY <1>5
  <1>8. \A w \in Workers : at[w] = "idle" BY DEF Init
  <1>9. FlowTyped
    <2>1. payloads \in Seq(Payload) BY SMT DEF Init
    <2>2. at \in [Workers -> Places] BY DEF Init, Places
    <2>3. holder \in [Runs -> Workers \union {None}] BY DEF Init
    <2>4. ctl \in [Runs -> Checkpoint(n)] /\ job \in [Workers -> Job(n)] BY <1>3, <1>4, <1>5
    <2>. QED BY <2>1, <2>2, <2>3, <2>4 DEF FlowTyped
  <1>10. audit = {} BY DEF Init
  <1>11. Audited BY <1>10 DEF Audited
  <1>12. \A r \in Runs : CandidatesOf(r) = {} /\ Commits(r) = {}
    BY <1>10 DEF CandidatesOf, Commits
  <1>13. \A r \in Runs : RunFits(r) BY <1>6, <1>7, <1>12 DEF RunFits
  <1>14. \A w \in Workers : JobFits(at[w], job[w]) BY <1>8 DEF JobFits
  <1>15. OneFirst BY <1>8 DEF OneFirst
  <1>. QED BY <1>1, <1>9, <1>11, <1>13, <1>14, <1>15 DEF Inv, Flowing

LEMMA StillInv ==
  ASSUME Inv, UNCHANGED vars
  PROVE  Inv'
  <1>1. UNCHANGED flow BY DEF vars, flow
  <1>2. UNCHANGED <<records, audit, outbox, version>> BY DEF vars
  <1>3. StoreTyped' BY <1>2 DEF Inv, StoreTyped
  <1>4. FactsAreConsistent'
    BY <1>2 DEF Inv, FactsAreConsistent, OneActivePerSlot, SupersessionIsMutual, Ids
  <1>5. Len(records) \in Nat /\ Ids = 1 .. Len(records) BY Rows DEF Inv, StoreTyped
  <1>6. Aged /\ Len(records') = Len(records) BY <1>2, <1>5, SMT DEF Aged
  <1>7. PICK S : S = {} OBVIOUS
  <1>8. audit' = audit \union S /\ \A e \in S : Plain(e) BY <1>2, <1>7
  <1>. QED BY <1>1, <1>3, <1>4, <1>6, <1>8, TimeInv

LEMMA StepInv ==
  ASSUME Inv, NEW w \in Workers, Step(w)
  PROVE  Inv'
  <1>1. CASE ExactCandidateLookup(w) BY <1>1, LookupInv
  <1>2. CASE Conflict(w) BY <1>2, ConflictInv
  <1>3. CASE Review(w) BY <1>3, ReviewInv
  <1>4. CASE CreateCandidate(w) BY <1>4, CreateInv
  <1>5. CASE Reload(w) BY <1>5, ReloadInv
  <1>6. CASE Check(w) BY <1>6, CheckInv
  <1>7. CASE LoadEdited(w) BY <1>7, LoadInv
  <1>8. CASE ResolveEdited(w) BY <1>8, ResolveInv
  <1>9. CASE RetargetEdited(w) BY <1>9, RetargetInv
  <1>10. CASE ReplaceCandidate(w) BY <1>10, ReplaceInv
  <1>11. CASE Commit(w) BY <1>11, CommitInv
  <1>12. CASE Supersede(w) BY <1>12, SupersedeInv
  <1>13. CASE Save(w) BY <1>13, SaveInv
  <1>. QED
    BY <1>1, <1>2, <1>3, <1>4, <1>5, <1>6, <1>7, <1>8, <1>9, <1>10, <1>11, <1>12, <1>13 DEF Step

\* The invariant of the store, the audit table, the checkpoints and the segments
\* at work: every step of the workflow, of its workers' deaths and of time keeps it.
THEOREM Invariance == Spec => []Inv
  <1>1. Init => Inv BY InitInv
  <1>2. ASSUME Inv, [Next]_vars
        PROVE  Inv'
    <2>1. CASE UNCHANGED vars BY <1>2, <2>1, StillInv
    <2>2. ASSUME NEW w \in Workers, NEW r \in Runs, NEW i \in Intents, NEW d \in Drafts,
                 Start(w, r, i, d)
          PROVE  Inv'
      BY <1>2, <2>2, StartInv
    <2>3. ASSUME NEW w \in Workers, NEW r \in Runs, NEW a \in {"approve", "reject"},
                 Resume(w, r, a, None)
          PROVE  Inv'
      <3>1. a \in {"approve", "reject", "edit"} /\ a # "edit" BY <2>3
      <3>. QED BY <1>2, <2>3, <3>1, ResumeInv
    <2>4. ASSUME NEW w \in Workers, NEW r \in Runs, NEW d \in Drafts, Resume(w, r, "edit", d)
          PROVE  Inv'
      <3>1. "edit" \in {"approve", "reject", "edit"} OBVIOUS
      <3>. QED BY <1>2, <2>4, <3>1, ResumeInv
    <2>5. ASSUME NEW w \in Workers, Step(w) \/ Crash(w) PROVE Inv'
      BY <1>2, <2>5, StepInv, CrashInv
    <2>6. ASSUME NEW id \in Ids, Passing(id) PROVE Inv' BY <1>2, <2>6, PassingInv
    <2>7. CASE Sweep BY <1>2, <2>7, SweepInv
    <2>. QED BY <1>2, <2>1, <2>2, <2>3, <2>4, <2>5, <2>6, <2>7 DEF Next
  <1>. QED BY <1>1, <1>2, PTL DEF Spec

-----------------------------------------------------------------------------
(* What follows.                                                             *)

\* The memory rows, the outbox rows, the checkpoints and the workers' segments
\* have their types in every reachable state.
THEOREM TypeCorrect == Spec => []TypeOK
  <1>1. Inv => TypeOK
    <2>. SUFFICES ASSUME Inv PROVE TypeOK
      OBVIOUS
    <2>1. StoreTypeOK BY DEF Inv, StoreTyped, StoreTypeOK
    <2>2. \A r \in Runs : ctl[r].status \in {"absent", "pending", "suspended", "completed", "failed"}
      BY SMT DEF Inv, FlowTyped, Checkpoint
    <2>3. \A r \in Runs : holder[r] \in Workers \union {None} BY DEF Inv, FlowTyped
    <2>4. \A w \in Workers : job[w].run \in Runs \union {None} BY SMT DEF Inv, FlowTyped, Job
    <2>. QED BY <2>1, <2>2, <2>3, <2>4 DEF TypeOK
  <1>. QED BY <1>1, Invariance, PTL

\* The unique keys and the pinned versions of the store's transactions hold
\* against every interleaving of captures, reviews, deaths and expiries: a slot
\* has one current fact, and a superseded fact and its successor name each other.
THEOREM FactsStayConsistent == Spec => []FactsAreConsistent
  <1>1. Inv => FactsAreConsistent BY DEF Inv
  <1>. QED BY <1>1, Invariance, PTL

\* A memory becomes active in a commit only, under the key that CommitNode's
\* decision has once per run, and for the candidate the approval was given on.
LEMMA OneActivation ==
  ASSUME Inv, NEW r \in Runs, NEW id \in CandidatesOf(r), Activated(id)
  PROVE  <<r, id>> \in approvals /\ \E e \in Commits(r) : e.memory = id
  <1>1. PICK e \in audit : e.memory = id /\ e.new = "active" BY DEF Activated
  <1>2. PICK q : q = e.key[1] OBVIOUS
  <1>3. /\ e.key = <<q, "commit", 1, 0>> /\ id \in CandidatesOf(q)
        /\ <<q, id>> \in approvals
    BY <1>1, <1>2 DEF Inv, Audited, EventFits
  <1>4. q = r
    <2>1. PICK f \in audit : f.key[1] = r /\ f.key[2] = "review" /\ f.memory = id
      BY DEF CandidatesOf
    <2>2. PICK g \in audit : g.key[1] = q /\ g.key[2] = "review" /\ g.memory = id
      BY <1>3 DEF CandidatesOf
    <2>. QED BY <2>1, <2>2 DEF Inv, Audited
  <1>. QED BY <1>1, <1>3, <1>4 DEF Commits

\* Only an approved candidate that was on display becomes active, and at most one
\* of a run's, whatever edits, approvals and dead segments raced for the commit.
THEOREM ActivationsApproved == Spec => []ActivatedWasApproved
  <1>1. Inv => ActivatedWasApproved
    <2>. SUFFICES ASSUME Inv, NEW r \in Runs
                  PROVE  /\ \A id \in CandidatesOf(r) : Activated(id) => <<r, id>> \in approvals
                         /\ Cardinality({id \in CandidatesOf(r) : Activated(id)}) <= 1
      BY DEF ActivatedWasApproved
    <2>. DEFINE A == {id \in CandidatesOf(r) : Activated(id)}
    <2>1. \A id \in A : <<r, id>> \in approvals /\ \E e \in Commits(r) : e.memory = id
      BY OneActivation
    <2>2. \A e, f \in Commits(r) : e.memory = f.memory
      <3>1. PICK key : key = <<r, "commit", 1, 0>> OBVIOUS
      <3>2. key[2] = "commit" BY <3>1
      <3>. QED BY <3>1, <3>2 DEF Commits, Inv, Audited
    <2>3. \A i, k \in A : i = k BY <2>1, <2>2
    <2>4. Cardinality(A) <= 1
      <3>. HIDE DEF A
      <3>1. CASE A = {} BY <3>1, FS_EmptySet, SMT
      <3>2. CASE A # {}
        <4>1. PICK a : A = {a} BY <2>3, <3>2
        <4>2. Cardinality({a}) = 1 BY FS_Singleton, Zenon
        <4>. QED BY <4>1, <4>2, SMT
      <3>. QED BY <3>1, <3>2
    <2>. QED BY <2>1, <2>4
  <1>. QED BY <1>1, Invariance, PTL

\* A run whose checkpoint says completed has no undecided candidate, and reports
\* the candidate that was on display, or the duplicate it found without review.
THEOREM CompletionsSettled == Spec => []CompletedIsSettled
  <1>1. Inv => CompletedIsSettled
    <2>. SUFFICES ASSUME Inv, NEW r \in Runs, ctl[r].status = "completed"
                  PROVE  /\ \A id \in CandidatesOf(r) : records[id].status # "candidate"
                         /\ ctl[r].data.review = NoReview => CandidatesOf(r) = {}
                         /\ ctl[r].data.review # NoReview =>
                               /\ ctl[r].data.committed = ctl[r].data.review.id
                               /\ ctl[r].data.committed \in CandidatesOf(r)
      BY DEF CompletedIsSettled
    <2>1. RunFits(r) BY DEF Inv, Flowing
    <2>2. Settled(r, ctl[r].data) BY <2>1 DEF RunFits
    <2>3. \A id \in CandidatesOf(r) : ~IsOpen(id)
      <3>1. CASE ctl[r].data.review = NoReview BY <2>2, <3>1 DEF Settled
      <3>2. CASE ctl[r].data.review # NoReview BY <2>1, <2>2, <3>2 DEF Settled, RunFits
      <3>. QED BY <3>1, <3>2
    <2>. QED BY <2>2, <2>3 DEF Settled, IsOpen
  <1>. QED BY <1>1, Invariance, PTL

-----------------------------------------------------------------------------
(* Recall: the inductive invariant.                                          *)

Sources == {"pinned", "slot", "content_hash", "semantic"}
Selectors == Slots \union Texts
Pin == [id : Nat, lver : Nat \ {0}, text : Texts]
Item == [id : Nat, source : Sources]
RequestOf(P, S, M, I, K, B) ==
    [pinned : P, asked : S, plan : S, lapsed : M, found : I, batch : K, scanned : K, looked : M,
     more : B, stopped : B, items : M, dropped : B, full : B]
Request == RequestOf(SUBSET Pin, Seq(Selectors), SUBSET Nat, SUBSET Item, Nat, BOOLEAN)
Steps == {"claim", "load", "index"}
Batch(n) == {b \in [rows : Seq(1 .. n), step : Steps] : b.step # "claim" => b.rows # <<>>}

RecallTyped ==
    /\ index \subseteq Ids
    /\ proj \in [Projectors -> Batch(Len(records))]
    /\ stage \in [Readers -> {"idle", "exact", "search", "answered"}]
    /\ call \in [Readers -> Request]
    /\ steady \in [Readers -> SUBSET Ids] /\ seen \in [Readers -> SUBSET Ids]

FoundIds(c) == {f.id : f \in c.found}
\* What an exact selector is compared with; no step of the owner changes it.
Suits(id, sel) == records[id].slot = sel \/ records[id].text = sel

\* Everything a request has found was active during the call and not expired when
\* it began, and it has found all that pins and executed selectors ask for.
Finding(q) ==
    LET c == call[q]
    IN  /\ \A f \in c.found : f.id \in seen[q] \ c.lapsed
        /\ stage[q] = "search" => c.plan = <<>>
        /\ stage[q] = "exact" => c.plan # <<>>
        /\ Calling(q) =>
              /\ steady[q] \subseteq Active /\ Active \subseteq seen[q]
              /\ \A id \in steady[q] \ c.lapsed :
                    /\ Ref(id) \in c.pinned => id \in FoundIds(c)
                    /\ \A i \in 1 .. Len(c.asked) : Suits(id, c.asked[i]) =>
                          \/ c.full \/ id \in FoundIds(c)
                          \/ \E k \in 1 .. Len(c.plan) : c.plan[k] = c.asked[i]

\* The same of an answer, which no later change of a memory can spoil.
Answering(q) ==
    LET c == call[q]
    IN  stage[q] = "answered" =>
           /\ c.items \subseteq seen[q] \ c.lapsed
           /\ ~c.dropped => \A id \in steady[q] \ c.lapsed :
                 \/ id \in c.items
                 \/ /\ Ref(id) \notin c.pinned
                    /\ c.full \/ \A i \in 1 .. Len(c.asked) : ~Suits(id, c.asked[i])

Recalling ==
    /\ StoreTyped /\ FactsAreConsistent /\ RecallTyped
    /\ CompletedMeansIndexed
    /\ \A q \in Readers : Finding(q) /\ Answering(q)

-----------------------------------------------------------------------------
(* Recall: the owner's memories change.                                      *)

\* What a recall relies on of the rows between two reads: contents stay, time does
\* not run back, and a row of the outbox that is completed was so before.
Carried ==
    /\ Ids \subseteq Ids'
    /\ \A id \in Ids : /\ records'[id].slot = records[id].slot
                       /\ records'[id].text = records[id].text
                       /\ records'[id].lver = records[id].lver
    /\ \A id \in Ids' : outbox'[id].status = "completed" /\ IsActiveAt(id)' =>
          id \in Ids /\ outbox[id].status = "completed" /\ IsActiveAt(id)

LEMMA BatchesGrow ==
  ASSUME NEW n \in Nat, NEW m \in Nat, n <= m
  PROVE  Batch(n) \subseteq Batch(m)
  <1>1. 1 .. n \subseteq 1 .. m BY SMT
  <1>2. Seq(1 .. n) \subseteq Seq(1 .. m) BY <1>1, SMT
  <1>. QED BY <1>2, SMT DEF Batch

LEMMA Written ==
  ASSUME Recalling, StoreTyped', FactsAreConsistent', Carried, Observe
  PROVE  Recalling'
  <1>0. /\ Len(records) \in Nat /\ Len(records') \in Nat
        /\ Ids = 1 .. Len(records) /\ Ids' = 1 .. Len(records')
    BY SMT DEF Recalling, StoreTyped, Ids
  <1>1. Ids \subseteq Ids' /\ Len(records) <= Len(records')
    <2>1. Ids \subseteq Ids' BY DEF Carried
    <2>. QED BY <1>0, <2>1, SMT
  <1>2. /\ index' = index /\ proj' = proj /\ stage' = stage /\ call' = call
        /\ \A q \in Readers :
              /\ steady'[q] = IF Calling(q) THEN steady[q] \intersect Active' ELSE steady[q]
              /\ seen'[q] = IF Calling(q) THEN seen[q] \union Active' ELSE seen[q]
    BY DEF Observe
  <1>3. RecallTyped'
    <2>1. index' \subseteq Ids' BY <1>1, <1>2 DEF Recalling, RecallTyped
    <2>2. proj' \in [Projectors -> Batch(Len(records'))]
      BY <1>0, <1>1, <1>2, BatchesGrow DEF Recalling, RecallTyped
    <2>3. Active' \subseteq Ids' BY DEF Active
    <2>4. steady' \in [Readers -> SUBSET Ids'] /\ seen' \in [Readers -> SUBSET Ids']
      <3>1. \A q \in Readers : steady[q] \subseteq Ids /\ seen[q] \subseteq Ids
        BY DEF Recalling, RecallTyped
      <3>2. \A q \in Readers : steady'[q] \subseteq Ids' /\ seen'[q] \subseteq Ids'
        BY <1>1, <1>2, <2>3, <3>1
      <3>3. steady' = [q \in Readers |-> steady'[q]] /\ seen' = [q \in Readers |-> seen'[q]]
        BY DEF Observe
      <3>. QED BY <3>2, <3>3
    <2>. QED BY <1>2, <2>1, <2>2, <2>4 DEF Recalling, RecallTyped
  <1>4. CompletedMeansIndexed'
    BY <1>2 DEF Carried, Recalling, CompletedMeansIndexed
  <1>5. ASSUME NEW q \in Readers PROVE Finding(q)' /\ Answering(q)'
    <2>. DEFINE c == call[q]
    <2>1. /\ call'[q] = c /\ stage'[q] = stage[q] /\ (Calling(q)' <=> Calling(q))
          /\ FoundIds(c)' = FoundIds(c)
      BY <1>2 DEF Calling, FoundIds
    <2>2. steady[q] \subseteq Ids /\ \A id \in Ids : Ref(id)' = Ref(id) /\
             \A sel : Suits(id, sel)' <=> Suits(id, sel)
      BY DEF Recalling, RecallTyped, Carried, Ref, Suits
    <2>3. Finding(q) /\ Answering(q) BY DEF Recalling
    <2>4. Finding(q)'
      <3>1. \A f \in c.found : f.id \in seen'[q] \ c.lapsed BY <1>2, <2>3 DEF Finding
      <3>2. /\ stage'[q] = "search" => c.plan = <<>>
            /\ stage'[q] = "exact" => c.plan # <<>>
        BY <2>1, <2>3 DEF Finding
      <3>3. ASSUME Calling(q)
            PROVE  /\ steady'[q] \subseteq Active' /\ Active' \subseteq seen'[q]
                   /\ \A id \in steady'[q] \ c.lapsed :
                        /\ Ref(id)' \in c.pinned => id \in FoundIds(c)
                        /\ \A i \in 1 .. Len(c.asked) : Suits(id, c.asked[i])' =>
                             \/ c.full \/ id \in FoundIds(c)
                             \/ \E k \in 1 .. Len(c.plan) : c.plan[k] = c.asked[i]
        <4>1. steady'[q] \subseteq steady[q] BY <1>2, <3>3
        <4>. QED BY <1>2, <2>2, <2>3, <3>3, <4>1 DEF Finding
      <3>. QED BY <2>1, <3>1, <3>2, <3>3 DEF Finding
    <2>5. Answering(q)'
      <3>1. stage[q] = "answered" => steady'[q] = steady[q] /\ seen'[q] = seen[q]
        BY <1>2 DEF Calling
      <3>. QED BY <2>1, <2>2, <2>3, <3>1 DEF Answering
    <2>. QED BY <2>4, <2>5
  <1>. QED BY <1>3, <1>4, <1>5 DEF Recalling

\* A candidate is added: nothing else changes.
LEMMA Added ==
  ASSUME StoreTyped, FactsAreConsistent, NEW new \in Record, new.status = "candidate", NEW key,
         CommitMutation(new, {}, key)
  PROVE  StoreTyped' /\ FactsAreConsistent' /\ Carried
  <1>0. /\ records \in Seq(Record) /\ outbox \in Seq(Row)
        /\ Len(records) \in Nat /\ Len(outbox) = Len(records) /\ Ids = 1 .. Len(records)
    BY Rows DEF StoreTyped
  <1>1. StoreTyped' /\ FactsAreConsistent' /\ Len(records') = Len(records) + 1
    BY Inserting
  <1>2. \A id \in Ids : MovedBy(id, {}) = records[id] BY DEF MovedBy
  <1>3. records' = Append([id \in 1 .. Len(records) |-> MovedBy(id, {})], new)
    BY <1>0 DEF CommitMutation
  <1>. DEFINE old == [id \in 1 .. Len(records) |-> MovedBy(id, {})]
  <1>4. old = records BY <1>0, <1>2
  <1>5. \A id \in Ids : records'[id] = records[id] BY <1>0, <1>3, <1>4, SMT
  <1>6. outbox' = Append(outbox, NoRow) BY DEF CommitMutation
  <1>7. NoRow \in Row BY Queued
  <1>8. /\ \A id \in Ids : outbox'[id] = outbox[id]
        /\ outbox'[Len(records) + 1] = NoRow
    BY <1>0, <1>6, <1>7, SMT
  <1>9. Ids \subseteq Ids' /\ \A id \in Ids' : id \in Ids \/ id = Len(records) + 1
    BY <1>0, <1>1, SMT DEF Ids
  <1>10. ASSUME NEW id \in Ids', outbox'[id].status = "completed", IsActiveAt(id)'
         PROVE  id \in Ids /\ outbox[id].status = "completed" /\ IsActiveAt(id)
    <2>1. id \in Ids BY <1>8, <1>9, <1>10 DEF NoRow
    <2>. QED BY <1>5, <1>8, <1>10, <2>1 DEF IsActiveAt
  <1>. QED BY <1>1, <1>5, <1>9, <1>10 DEF Carried

\* What a status change leaves of a row.
LEMMA MovedKeeps ==
  ASSUME NEW x \in Record, NEW s \in Statuses
  PROVE  LET y == Moved(x, s)
         IN  y.slot = x.slot /\ y.text = x.text /\ y.lver = x.lver /\ y.elapsed = x.elapsed
             /\ y.status = s
  BY SMT DEF Record, Moved

\* A memory that is decided, or replaced, is asked to be indexed when it becomes
\* active; the others are no more active than they were.
LEMMA Moving ==
  ASSUME StoreTyped, Len(records') = Len(records), Len(outbox') = Len(outbox),
         \A id \in Ids :
            /\ records'[id].slot = records[id].slot /\ records'[id].text = records[id].text
            /\ records'[id].lver = records[id].lver
            /\ \/ outbox'[id].status = "pending"
               \/ records'[id].status # "active"
               \/ records'[id].elapsed
               \/ outbox'[id] = outbox[id] /\ records'[id] = records[id]
  PROVE  Carried
  <1>1. Ids' = Ids BY DEF Ids
  <1>. QED BY <1>1 DEF Carried, IsActiveAt

LEMMA Enqueuing ==
  ASSUME StoreTyped, NEW id \in Ids
  PROVE  LET z == Enqueued(id)
         IN  Len(z) = Len(outbox) /\ z[id].status = "pending"
             /\ \A k \in Ids : k # id => z[k] = outbox[k]
  <1>. DEFINE row == [NoRow EXCEPT !.status = "pending"]
  <1>1. row \in Row /\ row.status = "pending" BY Queued, SMT DEF NoRow
  <1>2. outbox \in Seq(Row) /\ id \in 1 .. Len(outbox) /\ Ids = 1 .. Len(outbox)
    BY DEF StoreTyped, Ids
  <1>3. Enqueued(id) = [outbox EXCEPT ![id] = row] BY DEF Enqueued
  <1>. HIDE DEF row
  <1>. QED BY <1>1, <1>2, <1>3, Put

LEMMA Decided ==
  ASSUME StoreTyped, FactsAreConsistent, NEW id, NEW rver, NEW to \in {"active", "rejected"},
         NEW key, TransitionMemory(id, rver, to, key)
  PROVE  StoreTyped' /\ FactsAreConsistent' /\ Carried
  <1>0. /\ records \in Seq(Record) /\ outbox \in Seq(Row) /\ Len(outbox) = Len(records)
        /\ Len(records) \in Nat /\ Ids = 1 .. Len(records)
        /\ \A k \in Ids : records[k] \in Record
    BY Rows DEF StoreTyped
  <1>1. StoreTyped' /\ FactsAreConsistent' /\ Len(records') = Len(records) /\ id \in Ids
    BY Transiting
  <1>. DEFINE y == Moved(records[id], to)
  <1>2. /\ y.slot = records[id].slot /\ y.text = records[id].text /\ y.lver = records[id].lver
        /\ y.status = to
    BY <1>0, <1>1, MovedKeeps DEF Statuses
  <1>3. records' = [records EXCEPT ![id] = y] BY DEF TransitionMemory
  <1>. HIDE DEF y
  <1>4. records'[id] = y /\ \A k \in Ids : k # id => records'[k] = records[k]
    BY <1>0, <1>1, <1>3
  <1>5. CASE to = "active"
    <2>1. outbox' = Enqueued(id) BY <1>5 DEF TransitionMemory
    <2>2. outbox'[id].status = "pending" /\ \A k \in Ids : k # id => outbox'[k] = outbox[k]
      BY <1>1, <2>1, Enqueuing
    <2>3. Len(outbox') = Len(outbox) BY <1>1, <2>1, Enqueuing
    <2>. QED BY <1>1, <1>2, <1>4, <2>2, <2>3, Moving
  <1>6. CASE to = "rejected"
    <2>1. outbox' = outbox BY <1>6 DEF TransitionMemory
    <2>. QED BY <1>1, <1>2, <1>4, <1>6, <2>1, Moving
  <1>. QED BY <1>5, <1>6

LEMMA Replaced ==
  ASSUME StoreTyped, FactsAreConsistent, NEW c, NEW cver, NEW t, NEW tver, NEW key,
         ActivateCandidateSuperseding(c, cver, t, tver, key)
  PROVE  StoreTyped' /\ FactsAreConsistent' /\ Carried
  <1>0. /\ records \in Seq(Record) /\ outbox \in Seq(Row) /\ Len(outbox) = Len(records)
        /\ Len(records) \in Nat /\ Ids = 1 .. Len(records)
        /\ \A k \in Ids : records[k] \in Record /\ k \in Nat
    BY Rows DEF StoreTyped
  <1>1. /\ StoreTyped' /\ FactsAreConsistent' /\ Len(records') = Len(records)
        /\ c \in Ids /\ t \in Ids
    BY Superseded
  <1>2. c # t BY DEF ActivateCandidateSuperseding, CanSupersede
  <1>. DEFINE x == Moved(records[t], "superseded")
              old == [x EXCEPT !.supersededBy = c]
              new == Moved(records[c], "active")
  <1>3. /\ x \in Record
        /\ x.slot = records[t].slot /\ x.text = records[t].text /\ x.lver = records[t].lver
        /\ x.status = "superseded"
    BY <1>0, <1>1, MovedTyped, MovedKeeps DEF Statuses
  <1>4. new.slot = records[c].slot /\ new.text = records[c].text /\ new.lver = records[c].lver
    BY <1>0, <1>1, MovedKeeps DEF Statuses
  <1>5. records' = [records EXCEPT ![t] = old, ![c] = new]
    BY DEF ActivateCandidateSuperseding
  <1>. HIDE DEF x, new
  <1>6. /\ old.slot = x.slot /\ old.text = x.text /\ old.lver = x.lver
        /\ old.status = "superseded"
    BY <1>3, SMT DEF Record
  <1>. HIDE DEF old
  <1>7. /\ records'[t] = old /\ records'[c] = new
        /\ \A k \in Ids : k # t /\ k # c => records'[k] = records[k]
    BY <1>0, <1>1, <1>2, <1>5
  <1>8. outbox' = Enqueued(c) BY DEF ActivateCandidateSuperseding
  <1>9. outbox'[c].status = "pending" /\ \A k \in Ids : k # c => outbox'[k] = outbox[k]
    BY <1>1, <1>8, Enqueuing
  <1>10. Len(outbox') = Len(outbox) BY <1>1, <1>8, Enqueuing
  <1>. QED BY <1>1, <1>3, <1>4, <1>6, <1>7, <1>9, <1>10, Moving

LEMMA Passed ==
  ASSUME StoreTyped, FactsAreConsistent, NEW id \in Ids, Elapse(id)
  PROVE  StoreTyped' /\ FactsAreConsistent' /\ Carried
  <1>0. /\ records \in Seq(Record) /\ Len(records) \in Nat /\ Ids = 1 .. Len(records)
        /\ \A k \in Ids : records[k] \in Record
    BY Rows DEF StoreTyped
  <1>1. StoreTyped' /\ FactsAreConsistent' /\ Len(records') = Len(records)
    BY Elapsing
  <1>. DEFINE y == [records[id] EXCEPT !.elapsed = TRUE]
  <1>2. /\ y.slot = records[id].slot /\ y.text = records[id].text /\ y.lver = records[id].lver
        /\ y.elapsed
    BY <1>0, SMT DEF Record
  <1>3. records' = [records EXCEPT ![id] = y] /\ outbox' = outbox BY DEF Elapse
  <1>. HIDE DEF y
  <1>4. records'[id] = y /\ \A k \in Ids : k # id => records'[k] = records[k]
    BY <1>0, <1>3
  <1>. QED BY <1>1, <1>2, <1>3, <1>4, Moving

\* Every step of the owner.
LEMMA OwnerStep ==
  ASSUME Recalling,
         \/ \E d \in Additions : Add(d) \/ \E t \in Ids : AddVersion(d, t)
         \/ \E id \in Ids : Decide(id) \/ TimePasses(id)
  PROVE  Recalling'
  <1>0. /\ StoreTyped /\ FactsAreConsistent /\ Len(records) \in Nat
        /\ Ids = 1 .. Len(records) /\ NextId \in Nat
        /\ \A k \in Ids : records[k] \in Record /\ k \in Nat
    <2>1. StoreTyped /\ FactsAreConsistent BY DEF Recalling
    <2>2. Len(records) \in Nat /\ Ids = 1 .. Len(records) /\ \A k \in Ids : records[k] \in Record /\ k \in Nat
      BY <2>1, Rows DEF StoreTyped
    <2>. QED BY <2>1, <2>2, SMT DEF NextId
  <1>1. \A d \in Additions : NewRecord(d, NextId) \in Record /\ NewRecord(d, NextId).status = "candidate"
    BY <1>0, RecallAssumption, NewRecordTyped DEF RecallAssumption
  <1>2. ASSUME NEW d \in Additions, Add(d) PROVE Recalling'
    <2>1. CommitMutation(NewRecord(d, NextId), {}, OpKey(NextId)) /\ Observe BY <1>2 DEF Add
    <2>2. StoreTyped' /\ FactsAreConsistent' /\ Carried BY <1>0, <1>1, <2>1, Added
    <2>. QED BY <2>1, <2>2, Written
  <1>3. ASSUME NEW d \in Additions, NEW t \in Ids, AddVersion(d, t) PROVE Recalling'
    <2>. DEFINE x == NewRecord(d, NextId)
                l == records[t].lineage
                v == records[t].lver + 1
                new == Continuing(x, l, v, t)
    <2>1. CommitMutation(new, {}, OpKey(NextId)) /\ Observe BY <1>3 DEF AddVersion, Continuing
    <2>2. l \in Nat /\ v \in Nat \ {0} /\ t \in Nat BY <1>0, NextVersion
    <2>3. x \in Record /\ x.status = "candidate" BY <1>1
    <2>. HIDE DEF x, l, v
    <2>4. new \in Record /\ new.status = "candidate" BY <2>2, <2>3, ContinuedTyped
    <2>. HIDE DEF new
    <2>5. StoreTyped' /\ FactsAreConsistent' /\ Carried BY <1>0, <2>1, <2>4, Added
    <2>. QED BY <2>1, <2>5, Written
  <1>4. ASSUME NEW id \in Ids, Decide(id) PROVE Recalling'
    <2>1. CASE \E to \in {"active", "rejected"} :
                  TransitionMemory(id, records[id].rver, to, OpKey(id))
      <3>1. StoreTyped' /\ FactsAreConsistent' /\ Carried BY <1>0, <2>1, Decided
      <3>. QED BY <1>4, <3>1, Written DEF Decide
    <2>2. CASE LET t == records[id].supersedes
               IN  ActivateCandidateSuperseding(id, records[id].rver, t, records[t].rver, OpKey(id))
      <3>1. StoreTyped' /\ FactsAreConsistent' /\ Carried BY <1>0, <2>2, Replaced
      <3>. QED BY <1>4, <3>1, Written DEF Decide
    <2>. QED BY <1>4, <2>1, <2>2 DEF Decide
  <1>5. ASSUME NEW id \in Ids, TimePasses(id) PROVE Recalling'
    <2>1. Elapse(id) /\ Observe BY <1>5 DEF TimePasses
    <2>2. StoreTyped' /\ FactsAreConsistent' /\ Carried BY <1>0, <2>1, Passed
    <2>. QED BY <2>1, <2>2, Written
  <1>. QED BY <1>2, <1>3, <1>4, <1>5

-----------------------------------------------------------------------------
(* Recall: batches of the projector.                                         *)

\* A request that no step touches, while the memories stay as they are.
LEMMA Untouched ==
  ASSUME NEW q \in Readers, Finding(q), Answering(q), records' = records,
         stage'[q] = stage[q], call'[q] = call[q], steady'[q] = steady[q], seen'[q] = seen[q]
  PROVE  Finding(q)' /\ Answering(q)'
  <1>. DEFINE c == call[q]
  <1>1. /\ Active' = Active /\ (Calling(q)' <=> Calling(q)) /\ call'[q] = c
        /\ \A id : Ref(id)' = Ref(id) /\ \A s : Suits(id, s)' <=> Suits(id, s)
    BY DEF Active, Ids, Calling, Ref, Suits
  <1>2. Finding(q)'
    <2>1. \A f \in c.found : f.id \in seen'[q] \ c.lapsed BY DEF Finding
    <2>2. /\ stage'[q] = "search" => c.plan = <<>>
          /\ stage'[q] = "exact" => c.plan # <<>>
      BY DEF Finding
    <2>3. ASSUME Calling(q)
          PROVE  /\ steady'[q] \subseteq Active /\ Active \subseteq seen'[q]
                 /\ \A id \in steady'[q] \ c.lapsed :
                       /\ Ref(id) \in c.pinned => id \in FoundIds(c)
                       /\ \A i \in 1 .. Len(c.asked) : Suits(id, c.asked[i]) =>
                             \/ c.full \/ id \in FoundIds(c)
                             \/ \E k \in 1 .. Len(c.plan) : c.plan[k] = c.asked[i]
      BY <2>3 DEF Finding
    <2>. QED BY <1>1, <2>1, <2>2, <2>3 DEF Finding, FoundIds
  <1>3. Answering(q)' BY <1>1 DEF Answering
  <1>. QED BY <1>2, <1>3

\* Requests do not notice what a batch does.
LEMMA BatchStep ==
  ASSUME Recalling, NEW p \in Projectors, NEW b \in Batch(Len(records)), Outbox(p, b),
         index' \subseteq Ids, outbox' \in Seq(Row), Len(outbox') = Len(outbox),
         \A id \in Ids : outbox'[id].status = "completed" /\ IsActiveAt(id) => id \in index'
  PROVE  Recalling'
  <1>1. /\ records' = records /\ version' = version /\ stage' = stage /\ call' = call
        /\ steady' = steady /\ seen' = seen /\ proj' = [proj EXCEPT ![p] = b]
    BY DEF Outbox
  <1>2. Ids' = Ids /\ Active' = Active BY <1>1 DEF Ids, Active
  <1>3. StoreTyped' BY <1>1 DEF Recalling, StoreTyped
  <1>4. FactsAreConsistent'
    BY <1>1, <1>2 DEF Recalling, FactsAreConsistent, OneActivePerSlot, SupersessionIsMutual
  <1>5. RecallTyped'
    <2>1. proj' \in [Projectors -> Batch(Len(records))] BY <1>1 DEF Recalling, RecallTyped
    <2>. QED BY <1>1, <1>2, <2>1 DEF Recalling, RecallTyped
  <1>6. CompletedMeansIndexed' BY <1>1, <1>2 DEF CompletedMeansIndexed, IsActiveAt
  <1>7. ASSUME NEW q \in Readers PROVE Finding(q)' /\ Answering(q)'
    <2>1. Finding(q) /\ Answering(q) BY DEF Recalling
    <2>. QED BY <1>1, <2>1, Untouched
  <1>. QED BY <1>3, <1>4, <1>5, <1>6, <1>7 DEF Recalling

LEMMA NoBatchTyped == \A n \in Nat : NoBatch \in Batch(n)
  BY SMT DEF NoBatch, Batch, Steps

\* The row in work and the rest of its batch.
LEMMA InWork ==
  ASSUME Recalling, NEW p \in Projectors, proj[p].step # "claim"
  PROVE  /\ Row1(p) \in Ids /\ Row1(p) \in 1 .. Len(outbox) /\ outbox[Row1(p)] \in Row
         /\ NextRow(p) \in Batch(Len(records)) /\ NoBatch \in Batch(Len(records))
         /\ [proj[p] EXCEPT !.step = "index"] \in Batch(Len(records))
  <1>. DEFINE n == Len(records)
  <1>0. /\ n \in Nat /\ Ids = 1 .. n /\ proj[p] \in Batch(n)
        /\ outbox \in Seq(Row) /\ Len(outbox) = n
    BY Rows DEF Recalling, StoreTyped, RecallTyped
  <1>. HIDE DEF n
  <1>1. /\ proj[p] \in [rows : Seq(1 .. n), step : Steps]
        /\ proj[p].rows \in Seq(1 .. n) /\ proj[p].rows # <<>>
    BY <1>0, SMT DEF Batch
  <1>2. Row1(p) \in 1 .. n /\ Tail(proj[p].rows) \in Seq(1 .. n)
    BY <1>1, HeadTailProperties, Zenon DEF Row1
  <1>3. \A s \in Seq(1 .. n) : s # <<>> => [rows |-> s, step |-> "load"] \in Batch(n)
    BY SMT DEF Batch, Steps
  <1>4. NextRow(p) \in Batch(n) BY <1>0, <1>2, <1>3, NoBatchTyped DEF NextRow
  <1>5. [proj[p] EXCEPT !.step = "index"] \in Batch(n)
    <2>1. [proj[p] EXCEPT !.step = "index"] \in [rows : Seq(1 .. n), step : Steps]
      BY <1>1, SMT DEF Steps
    <2>2. [proj[p] EXCEPT !.step = "index"].rows = proj[p].rows BY <1>1, SMT
    <2>. QED BY <1>1, <2>1, <2>2, SMT DEF Batch
  <1>. QED BY <1>0, <1>2, <1>4, <1>5, NoBatchTyped DEF n

\* A row is completed only for a memory that is indexed, or is not active.
LEMMA Settling ==
  ASSUME Recalling, NEW p \in Projectors, proj[p].step # "claim",
         NEW s \in {"failed", "permanent_failed", "completed"}, Settle(p, s),
         index \subseteq index', index' \subseteq Ids,
         s = "completed" => Row1(p) \in index' \/ ~IsActiveAt(Row1(p))
  PROVE  Recalling'
  <1>. DEFINE i == Row1(p)
              row == [outbox[i] EXCEPT !.status = s]
  <1>0. /\ i \in 1 .. Len(outbox) /\ outbox[i] \in Row /\ outbox \in Seq(Row)
        /\ NextRow(p) \in Batch(Len(records)) /\ NoBatch \in Batch(Len(records))
        /\ Ids = 1 .. Len(outbox)
    BY InWork, Rows DEF Recalling, StoreTyped
  <1>1. \A id \in Ids : outbox[id].status = "completed" /\ IsActiveAt(id) => id \in index
    BY DEF Recalling, CompletedMeansIndexed
  <1>2. row \in Row /\ row.status = s BY <1>0, SMT DEF Row
  <1>3. CASE outbox[i].status = "processing"
    <2>1. outbox' = [outbox EXCEPT ![i] = row] /\ Outbox(p, NextRow(p)) BY <1>3 DEF Settle
    <2>. HIDE DEF row, i
    <2>2. /\ outbox' \in Seq(Row) /\ Len(outbox') = Len(outbox) /\ outbox'[i] = row
          /\ \A k \in 1 .. Len(outbox) : k # i => outbox'[k] = outbox[k]
      BY <1>0, <1>2, <2>1, Put
    <2>3. s = "completed" => i \in index' \/ ~IsActiveAt(i) BY DEF i
    <2>4. \A id \in Ids : outbox'[id].status = "completed" /\ IsActiveAt(id) => id \in index'
      BY <1>0, <1>1, <1>2, <2>2, <2>3
    <2>. QED BY <1>0, <2>1, <2>2, <2>4, BatchStep
  <1>4. CASE outbox[i].status # "processing"
    <2>1. outbox' = outbox /\ Outbox(p, NoBatch) BY <1>4 DEF Settle
    <2>2. \A id \in Ids : outbox'[id].status = "completed" /\ IsActiveAt(id) => id \in index'
      BY <1>1, <2>1
    <2>. QED BY <1>0, <2>1, <2>2, BatchStep
  <1>. QED BY <1>3, <1>4

LEMMA ClaimStep ==
  ASSUME Recalling, NEW p \in Projectors, Claim(p)
  PROVE  Recalling'
  <1>. DEFINE free == {id \in Ids : Claimable(id)}
  <1>0. /\ Len(records) \in Nat /\ Ids = 1 .. Len(records) /\ outbox \in Seq(Row)
        /\ Len(outbox) = Len(records) /\ index \subseteq Ids
    BY Rows DEF Recalling, StoreTyped, RecallTyped
  <1>1. PICK n \in 1 .. BatchSize : \E rows \in [1 .. n -> free] :
          /\ outbox' = [id \in Ids |-> IF id \in Range1(rows)
                          THEN [status |-> "processing", attempt |-> outbox[id].attempt + 1]
                          ELSE outbox[id]]
          /\ Outbox(p, [rows |-> rows, step |-> "load"])
    BY DEF Claim
  <1>2. PICK rows \in [1 .. n -> free] :
          /\ outbox' = [id \in Ids |-> IF id \in Range1(rows)
                          THEN [status |-> "processing", attempt |-> outbox[id].attempt + 1]
                          ELSE outbox[id]]
          /\ Outbox(p, [rows |-> rows, step |-> "load"])
    BY <1>1
  <1>3. n \in Nat /\ n # 0 BY RecallAssumption, SMT DEF RecallAssumption
  <1>4. rows \in Seq(1 .. Len(records)) /\ rows # <<>>
    <2>1. rows \in [1 .. n -> 1 .. Len(records)] BY <1>0
    <2>2. rows \in Seq(1 .. Len(records)) /\ Len(rows) = n BY <1>3, <2>1, SMT
    <2>. QED BY <1>3, <2>2, SMT
  <1>5. [rows |-> rows, step |-> "load"] \in Batch(Len(records))
    BY <1>4, SMT DEF Batch, Steps
  <1>6. \A id \in Ids : outbox[id] \in Row /\ [status |-> "processing", attempt |-> outbox[id].attempt + 1] \in Row
    <2>1. \A id \in Ids : outbox[id] \in Row BY <1>0, SMT
    <2>2. \A row \in Row : row.attempt + 1 \in Nat BY SMT DEF Row
    <2>3. \A a \in Nat : [status |-> "processing", attempt |-> a] \in Row BY SMT DEF Row
    <2>. QED BY <2>1, <2>2, <2>3
  <1>7. \A id \in Ids : /\ outbox'[id] \in Row
                        /\ outbox'[id].status = "completed" => outbox'[id] = outbox[id]
    BY <1>2, <1>6
  <1>8. outbox' \in Seq(Row) /\ Len(outbox') = Len(outbox)
    <2>. DEFINE len == Len(records)
    <2>1. outbox' \in [1 .. len -> Row] /\ len \in Nat /\ Len(outbox) = len BY <1>0, <1>2, <1>7
    <2>. HIDE DEF len
    <2>. QED BY <2>1, SMTT(20)
  <1>9. index' = index BY DEF Claim
  <1>10. \A id \in Ids : outbox'[id].status = "completed" /\ IsActiveAt(id) => id \in index'
    BY <1>7, <1>9 DEF Recalling, CompletedMeansIndexed
  <1>. QED BY <1>0, <1>2, <1>5, <1>8, <1>9, <1>10, BatchStep

LEMMA LoadStep ==
  ASSUME Recalling, NEW p \in Projectors, Load(p)
  PROVE  Recalling'
  <1>0. /\ proj[p].step # "claim" /\ index' = index /\ index \subseteq Ids
    BY DEF Load, Recalling, RecallTyped
  <1>1. CASE Settle(p, Failed(p, TRUE))
    <2>1. Failed(p, TRUE) \in {"failed", "permanent_failed"} BY DEF Failed
    <2>. QED BY <1>0, <1>1, <2>1, Settling
  <1>2. CASE NotProjectable(Row1(p)) /\ Settle(p, "completed")
    <2>1. ~IsActiveAt(Row1(p)) BY <1>2 DEF NotProjectable
    <2>. QED BY <1>0, <1>2, <2>1, Settling
  <1>3. CASE UNCHANGED outbox /\ Outbox(p, [proj[p] EXCEPT !.step = "index"])
    <2>1. outbox' \in Seq(Row) /\ Len(outbox') = Len(outbox)
      BY <1>3 DEF Recalling, StoreTyped
    <2>2. \A id \in Ids : outbox'[id].status = "completed" /\ IsActiveAt(id) => id \in index'
      BY <1>0, <1>3 DEF Recalling, CompletedMeansIndexed
    <2>. QED BY <1>0, <1>3, <2>1, <2>2, InWork, BatchStep
  <1>. QED BY <1>1, <1>2, <1>3 DEF Load

LEMMA IndexStep ==
  ASSUME Recalling, NEW p \in Projectors, IndexMemory(p)
  PROVE  Recalling'
  <1>1. proj[p].step # "claim" /\ Row1(p) \in Ids /\ index \subseteq Ids
    BY InWork DEF IndexMemory, Recalling, RecallTyped
  <1>2. PICK stored \in BOOLEAN : \E reply \in {"ok", "temporary", "permanent"} :
          /\ reply = "ok" => stored
          /\ index' = IF stored THEN index \union {Row1(p)} ELSE index
          /\ Settle(p, IF reply = "ok" THEN "completed" ELSE Failed(p, reply = "temporary"))
    BY DEF IndexMemory
  <1>3. index \subseteq index' /\ index' \subseteq Ids BY <1>1, <1>2
  <1>4. CASE Row1(p) \in index' /\ Settle(p, "completed")
    BY <1>1, <1>3, <1>4, Settling
  <1>5. CASE \E temporary \in BOOLEAN : Settle(p, Failed(p, temporary))
    <2>1. \A temporary \in BOOLEAN : Failed(p, temporary) \in {"failed", "permanent_failed"}
      BY DEF Failed
    <2>2. PICK s \in {"failed", "permanent_failed"} : Settle(p, s) BY <1>5, <2>1
    <2>. QED BY <1>1, <1>3, <2>2, Settling
  <1>6. PICK reply \in {"ok", "temporary", "permanent"} :
          /\ reply = "ok" => stored
          /\ index' = IF stored THEN index \union {Row1(p)} ELSE index
          /\ Settle(p, IF reply = "ok" THEN "completed" ELSE Failed(p, reply = "temporary"))
    BY <1>2
  <1>7. CASE reply = "ok" BY <1>4, <1>6, <1>7
  <1>8. CASE reply # "ok"
    <2>1. Settle(p, Failed(p, reply = "temporary")) BY <1>6, <1>8
    <2>2. (reply = "temporary") \in BOOLEAN OBVIOUS
    <2>. QED BY <1>5, <2>1, <2>2
  <1>. QED BY <1>7, <1>8

LEMMA AbandonStep ==
  ASSUME Recalling, NEW p \in Projectors, Abandon(p)
  PROVE  Recalling'
  <1>1. proj[p].step # "claim" /\ outbox' = outbox /\ Outbox(p, NoBatch) BY DEF Abandon
  <1>2. Row1(p) \in Ids /\ NoBatch \in Batch(Len(records)) /\ index \subseteq Ids
    BY <1>1, InWork DEF Recalling, RecallTyped
  <1>3. index' = index \/ index' = index \union {Row1(p)} BY DEF Abandon
  <1>4. outbox' \in Seq(Row) /\ Len(outbox') = Len(outbox)
    BY <1>1 DEF Recalling, StoreTyped
  <1>5. \A id \in Ids : outbox'[id].status = "completed" /\ IsActiveAt(id) => id \in index'
    BY <1>1, <1>3 DEF Recalling, CompletedMeansIndexed
  <1>. QED BY <1>1, <1>2, <1>3, <1>4, <1>5, BatchStep

-----------------------------------------------------------------------------
(* Recall: requests.                                                         *)

\* Merging the hits of a source neither loses nor invents a memory.
LEMMA Merging ==
  ASSUME NEW found \in SUBSET Item, NEW ids \in SUBSET Nat, NEW source \in Sources
  PROVE  LET w == WithItems(found, ids, source)
         IN  w \in SUBSET Item /\ {f.id : f \in w} = {f.id : f \in found} \union ids
  <1>. DEFINE kept == {f \in found : f.id \notin ids \/ Priority(f.source) >= Priority(source)}
              new == {i \in ids : \A f \in found : f.id = i => Priority(f.source) < Priority(source)}
              items == {[id |-> id, source |-> source] : id \in new}
              w == WithItems(found, ids, source)
  <1>0. w = kept \union items BY DEF WithItems
  <1>1. \A f \in found : f.id \in Nat /\ f.source \in Sources BY SMT DEF Item
  <1>2. \A s \in Sources : Priority(s) \in Nat BY SMT DEF Sources, Priority
  <1>3. \A id \in Nat : [id |-> id, source |-> source] \in Item BY SMT DEF Item
  <1>. HIDE DEF w
  <1>4. w \in SUBSET Item BY <1>0, <1>3
  <1>5. ASSUME NEW x \in {f.id : f \in w} PROVE x \in {f.id : f \in found} \union ids
    BY <1>0
  <1>6. ASSUME NEW f \in found PROVE \E g \in w : g.id = f.id
    <2>1. CASE f \in kept BY <1>0, <2>1
    <2>2. CASE f \notin kept /\ \E g \in kept : g.id = f.id BY <1>0, <2>2
    <2>3. CASE f \notin kept /\ ~\E g \in kept : g.id = f.id
      <3>1. f.id \in ids BY <2>3
      <3>2. \A g \in found : g.id = f.id => Priority(g.source) < Priority(source)
        <4>. TAKE g \in found
        <4>. HAVE g.id = f.id
        <4>1. g \notin kept BY <2>3
        <4>2. ~(Priority(g.source) >= Priority(source)) BY <4>1
        <4>. QED BY <1>1, <1>2, <4>2, SMT
      <3>3. [id |-> f.id, source |-> source] \in w BY <1>0, <3>1, <3>2
      <3>. QED BY <3>3
    <2>. QED BY <2>1, <2>2, <2>3
  <1>7. ASSUME NEW i \in ids PROVE \E g \in w : g.id = i
    <2>1. CASE i \in new
      <3>1. [id |-> i, source |-> source] \in w BY <1>0, <2>1
      <3>. QED BY <3>1
    <2>2. CASE i \notin new
      <3>1. PICK f \in found : f.id = i BY <2>2
      <3>. QED BY <1>6, <3>1
    <2>. QED BY <2>1, <2>2
  <1>8. ASSUME NEW x \in {f.id : f \in found} \union ids PROVE x \in {f.id : f \in w}
    <2>1. CASE x \in ids
      <3>1. PICK g \in w : g.id = x BY <1>7, <2>1
      <3>. QED BY <3>1
    <2>2. CASE x \in {f.id : f \in found}
      <3>1. PICK f \in found : f.id = x BY <2>2
      <3>2. PICK g \in w : g.id = x BY <1>6, <3>1
      <3>. QED BY <3>2
    <2>. QED BY <2>1, <2>2
  <1>9. {f.id : f \in w} = {f.id : f \in found} \union ids BY <1>5, <1>8, Zenon
  <1>. QED BY <1>4, <1>9 DEF w

\* A request goes on: the rows and the other requests stay as they are.
LEMMA ReaderStep ==
  ASSUME Recalling, NEW q \in Readers,
         UNCHANGED <<records, outbox, version>>, UNCHANGED <<index, proj>>,
         NEW s \in {"idle", "exact", "search", "answered"}, stage' = [stage EXCEPT ![q] = s],
         NEW c \in Request, call' = [call EXCEPT ![q] = c],
         NEW old \in SUBSET Ids, steady' = [steady EXCEPT ![q] = old],
         NEW all \in SUBSET Ids, seen' = [seen EXCEPT ![q] = all],
         Finding(q)', Answering(q)'
  PROVE  Recalling'
  <1>1. Ids' = Ids /\ Active' = Active BY DEF Ids, Active
  <1>2. StoreTyped' BY DEF Recalling, StoreTyped
  <1>3. FactsAreConsistent'
    BY <1>1 DEF Recalling, FactsAreConsistent, OneActivePerSlot, SupersessionIsMutual
  <1>4. RecallTyped'
    <2>1. /\ stage' \in [Readers -> {"idle", "exact", "search", "answered"}]
          /\ call' \in [Readers -> Request]
      BY DEF Recalling, RecallTyped
    <2>2. /\ steady' \in [Readers -> SUBSET Ids] /\ seen' \in [Readers -> SUBSET Ids]
      BY DEF Recalling, RecallTyped
    <2>. QED BY <1>1, <2>1, <2>2 DEF Recalling, RecallTyped
  <1>5. CompletedMeansIndexed'
    BY <1>1 DEF Recalling, CompletedMeansIndexed, IsActiveAt
  <1>6. ASSUME NEW r \in Readers PROVE Finding(r)' /\ Answering(r)'
    <2>1. CASE r = q BY <2>1
    <2>2. CASE r # q
      <3>1. Finding(r) /\ Answering(r) BY DEF Recalling
      <3>2. /\ stage'[r] = stage[r] /\ call'[r] = call[r]
            /\ steady'[r] = steady[r] /\ seen'[r] = seen[r]
        BY <2>2 DEF Recalling, RecallTyped
      <3>. QED BY <3>1, <3>2, Untouched
    <2>. QED BY <2>1, <2>2
  <1>. QED BY <1>2, <1>3, <1>4, <1>5, <1>6 DEF Recalling

LEMMA NoCallTyped ==
  /\ NoCall \in Request /\ NoCall.found = {} /\ NoCall.items = {}
  /\ [NoCall EXCEPT !.dropped = TRUE] \in Request
  /\ [NoCall EXCEPT !.dropped = TRUE].found = {}
  /\ [NoCall EXCEPT !.dropped = TRUE].items = {}
  /\ [NoCall EXCEPT !.dropped = TRUE].dropped
  <1>1. <<>> \in Seq(Selectors) BY SMT
  <1>2. {} \in SUBSET Pin /\ {} \in SUBSET Nat /\ {} \in SUBSET Item OBVIOUS
  <1>3. NoCall \in Request BY <1>1, <1>2, SMT DEF NoCall, Request, RequestOf
  <1>4. NoCall.found = {} /\ NoCall.items = {} BY SMT DEF NoCall
  <1>. DEFINE c == NoCall
              b == TRUE
              k == [c EXCEPT !.dropped = b]
              P == SUBSET Pin
              S == Seq(Selectors)
              M == SUBSET Nat
              I == SUBSET Item
              B == BOOLEAN
  <1>5. RequestOf(P, S, M, I, Nat, B) = Request /\ b \in B BY DEF Request
  <1>6. /\ c \in RequestOf(P, S, M, I, Nat, B)
        /\ c.found = {} /\ c.items = {}
    BY <1>3, <1>4, <1>5
  <1>. HIDE DEF b, c, P, S, M, I, B
  <1>7. /\ k \in RequestOf(P, S, M, I, Nat, B)
        /\ k.dropped = b /\ k.found = c.found /\ k.items = c.items
    BY <1>5, <1>6, SMT DEF RequestOf
  <1>. QED BY <1>3, <1>4, <1>5, <1>6, <1>7 DEF b, c

\* The request Recall makes, and what the steps after it make of one.
Asking(c, p, s, l, f) ==
    [c EXCEPT !.pinned = p, !.asked = s, !.plan = s, !.lapsed = l, !.found = f]

LEMMA AskingTyped ==
  ASSUME NEW c \in Request,
         NEW p \in SUBSET Pin, NEW s \in Seq(Selectors), NEW l \in SUBSET Nat, NEW f \in SUBSET Item
  PROVE  LET k == Asking(c, p, s, l, f)
         IN  /\ k \in Request
             /\ k.pinned = p /\ k.asked = s /\ k.plan = s
             /\ k.lapsed = l /\ k.found = f /\ k.full = c.full
  <1>. DEFINE P == SUBSET Pin
              S == Seq(Selectors)
              M == SUBSET Nat
              I == SUBSET Item
              K == Nat
              B == BOOLEAN
  <1>0. /\ RequestOf(P, S, M, I, K, B) = Request /\ c \in RequestOf(P, S, M, I, K, B)
        /\ p \in P /\ s \in S /\ l \in M /\ f \in I
    BY DEF Request
  <1>. HIDE DEF P, S, M, I, K, B
  <1>. DEFINE k1 == [c EXCEPT !.pinned = p]
              k2 == [k1 EXCEPT !.asked = s]
              k3 == [k2 EXCEPT !.plan = s]
              k4 == [k3 EXCEPT !.lapsed = l]
              k5 == [k4 EXCEPT !.found = f]
  <1>1. /\ k1 \in RequestOf(P, S, M, I, K, B)
        /\ k1.pinned = p /\ k1.asked = c.asked /\ k1.plan = c.plan
        /\ k1.lapsed = c.lapsed /\ k1.found = c.found /\ k1.full = c.full
    BY <1>0, SMT DEF RequestOf
  <1>. HIDE DEF k1
  <1>2. /\ k2 \in RequestOf(P, S, M, I, K, B)
        /\ k2.pinned = k1.pinned /\ k2.asked = s /\ k2.plan = k1.plan
        /\ k2.lapsed = k1.lapsed /\ k2.found = k1.found /\ k2.full = k1.full
    BY <1>0, <1>1, SMT DEF RequestOf
  <1>. HIDE DEF k2
  <1>3. /\ k3 \in RequestOf(P, S, M, I, K, B)
        /\ k3.pinned = k2.pinned /\ k3.asked = k2.asked /\ k3.plan = s
        /\ k3.lapsed = k2.lapsed /\ k3.found = k2.found /\ k3.full = k2.full
    BY <1>0, <1>2, SMT DEF RequestOf
  <1>. HIDE DEF k3
  <1>4. /\ k4 \in RequestOf(P, S, M, I, K, B)
        /\ k4.pinned = k3.pinned /\ k4.asked = k3.asked /\ k4.plan = k3.plan
        /\ k4.lapsed = l /\ k4.found = k3.found /\ k4.full = k3.full
    BY <1>0, <1>3, SMT DEF RequestOf
  <1>. HIDE DEF k4
  <1>5. /\ k5 \in RequestOf(P, S, M, I, K, B)
        /\ k5.pinned = k4.pinned /\ k5.asked = k4.asked /\ k5.plan = k4.plan
        /\ k5.lapsed = k4.lapsed /\ k5.found = f /\ k5.full = k4.full
    BY <1>0, <1>4, SMT DEF RequestOf
  <1>6. Asking(c, p, s, l, f) = k5 BY DEF Asking, k1, k2, k3, k4
  <1>. HIDE DEF k5
  <1>. QED BY <1>0, <1>1, <1>2, <1>3, <1>4, <1>5, <1>6

\* A selector is executed.
Loaded(c, f, s, b) ==
    [c EXCEPT !.found = f, !.plan = s, !.full = b]

LEMMA LoadedTyped ==
  ASSUME NEW c \in Request,
         NEW f \in SUBSET Item, NEW s \in Seq(Selectors), NEW b \in BOOLEAN
  PROVE  LET k == Loaded(c, f, s, b)
         IN  /\ k \in Request
             /\ k.pinned = c.pinned /\ k.asked = c.asked /\ k.plan = s
             /\ k.lapsed = c.lapsed /\ k.found = f /\ k.full = b
  <1>. DEFINE P == SUBSET Pin
              S == Seq(Selectors)
              M == SUBSET Nat
              I == SUBSET Item
              K == Nat
              B == BOOLEAN
  <1>0. /\ RequestOf(P, S, M, I, K, B) = Request /\ c \in RequestOf(P, S, M, I, K, B)
        /\ f \in I /\ s \in S /\ b \in B
    BY DEF Request
  <1>. HIDE DEF P, S, M, I, K, B
  <1>. DEFINE k1 == [c EXCEPT !.found = f]
              k2 == [k1 EXCEPT !.plan = s]
              k3 == [k2 EXCEPT !.full = b]
  <1>1. /\ k1 \in RequestOf(P, S, M, I, K, B)
        /\ k1.pinned = c.pinned /\ k1.asked = c.asked /\ k1.plan = c.plan
        /\ k1.lapsed = c.lapsed /\ k1.found = f /\ k1.full = c.full
    BY <1>0, SMT DEF RequestOf
  <1>. HIDE DEF k1
  <1>2. /\ k2 \in RequestOf(P, S, M, I, K, B)
        /\ k2.pinned = k1.pinned /\ k2.asked = k1.asked /\ k2.plan = s
        /\ k2.lapsed = k1.lapsed /\ k2.found = k1.found /\ k2.full = k1.full
    BY <1>0, <1>1, SMT DEF RequestOf
  <1>. HIDE DEF k2
  <1>3. /\ k3 \in RequestOf(P, S, M, I, K, B)
        /\ k3.pinned = k2.pinned /\ k3.asked = k2.asked /\ k3.plan = k2.plan
        /\ k3.lapsed = k2.lapsed /\ k3.found = k2.found /\ k3.full = b
    BY <1>0, <1>2, SMT DEF RequestOf
  <1>4. Loaded(c, f, s, b) = k3 BY DEF Loaded, k1, k2
  <1>. HIDE DEF k3
  <1>. QED BY <1>0, <1>1, <1>2, <1>3, <1>4

\* A page is read.
Searched(c, b, l, m, n, f) ==
    [c EXCEPT !.more = b, !.looked = l, !.batch = m, !.scanned = n, !.found = f]

LEMMA SearchedTyped ==
  ASSUME NEW c \in Request,
         NEW b \in BOOLEAN, NEW l \in SUBSET Nat, NEW m \in Nat, NEW n \in Nat, NEW f \in SUBSET Item
  PROVE  LET k == Searched(c, b, l, m, n, f)
         IN  /\ k \in Request
             /\ k.pinned = c.pinned /\ k.asked = c.asked /\ k.plan = c.plan
             /\ k.lapsed = c.lapsed /\ k.found = f /\ k.full = c.full
  <1>. DEFINE P == SUBSET Pin
              S == Seq(Selectors)
              M == SUBSET Nat
              I == SUBSET Item
              K == Nat
              B == BOOLEAN
  <1>0. /\ RequestOf(P, S, M, I, K, B) = Request /\ c \in RequestOf(P, S, M, I, K, B)
        /\ b \in B /\ l \in M /\ m \in K /\ n \in K /\ f \in I
    BY DEF Request
  <1>. HIDE DEF P, S, M, I, K, B
  <1>. DEFINE k1 == [c EXCEPT !.more = b]
              k2 == [k1 EXCEPT !.looked = l]
              k3 == [k2 EXCEPT !.batch = m]
              k4 == [k3 EXCEPT !.scanned = n]
              k5 == [k4 EXCEPT !.found = f]
  <1>1. /\ k1 \in RequestOf(P, S, M, I, K, B)
        /\ k1.pinned = c.pinned /\ k1.asked = c.asked /\ k1.plan = c.plan
        /\ k1.lapsed = c.lapsed /\ k1.found = c.found /\ k1.full = c.full
    BY <1>0, SMT DEF RequestOf
  <1>. HIDE DEF k1
  <1>2. /\ k2 \in RequestOf(P, S, M, I, K, B)
        /\ k2.pinned = k1.pinned /\ k2.asked = k1.asked /\ k2.plan = k1.plan
        /\ k2.lapsed = k1.lapsed /\ k2.found = k1.found /\ k2.full = k1.full
    BY <1>0, <1>1, SMT DEF RequestOf
  <1>. HIDE DEF k2
  <1>3. /\ k3 \in RequestOf(P, S, M, I, K, B)
        /\ k3.pinned = k2.pinned /\ k3.asked = k2.asked /\ k3.plan = k2.plan
        /\ k3.lapsed = k2.lapsed /\ k3.found = k2.found /\ k3.full = k2.full
    BY <1>0, <1>2, SMT DEF RequestOf
  <1>. HIDE DEF k3
  <1>4. /\ k4 \in RequestOf(P, S, M, I, K, B)
        /\ k4.pinned = k3.pinned /\ k4.asked = k3.asked /\ k4.plan = k3.plan
        /\ k4.lapsed = k3.lapsed /\ k4.found = k3.found /\ k4.full = k3.full
    BY <1>0, <1>3, SMT DEF RequestOf
  <1>. HIDE DEF k4
  <1>5. /\ k5 \in RequestOf(P, S, M, I, K, B)
        /\ k5.pinned = k4.pinned /\ k5.asked = k4.asked /\ k5.plan = k4.plan
        /\ k5.lapsed = k4.lapsed /\ k5.found = f /\ k5.full = k4.full
    BY <1>0, <1>4, SMT DEF RequestOf
  <1>6. Searched(c, b, l, m, n, f) = k5 BY DEF Searched, k1, k2, k3, k4
  <1>. HIDE DEF k5
  <1>. QED BY <1>0, <1>1, <1>2, <1>3, <1>4, <1>5, <1>6

\* The search is over.
Stopped(c, b) ==
    [c EXCEPT !.stopped = b]

LEMMA StoppedTyped ==
  ASSUME NEW c \in Request,
         NEW b \in BOOLEAN
  PROVE  LET k == Stopped(c, b)
         IN  /\ k \in Request
             /\ k.pinned = c.pinned /\ k.asked = c.asked /\ k.plan = c.plan
             /\ k.lapsed = c.lapsed /\ k.found = c.found /\ k.full = c.full
  <1>. DEFINE P == SUBSET Pin
              S == Seq(Selectors)
              M == SUBSET Nat
              I == SUBSET Item
              K == Nat
              B == BOOLEAN
  <1>0. /\ RequestOf(P, S, M, I, K, B) = Request /\ c \in RequestOf(P, S, M, I, K, B)
        /\ b \in B
    BY DEF Request
  <1>. HIDE DEF P, S, M, I, K, B
  <1>. DEFINE k1 == [c EXCEPT !.stopped = b]
  <1>1. /\ k1 \in RequestOf(P, S, M, I, K, B)
        /\ k1.pinned = c.pinned /\ k1.asked = c.asked /\ k1.plan = c.plan
        /\ k1.lapsed = c.lapsed /\ k1.found = c.found /\ k1.full = c.full
    BY <1>0, SMT DEF RequestOf
  <1>2. Stopped(c, b) = k1 BY DEF Stopped
  <1>. HIDE DEF k1
  <1>. QED BY <1>0, <1>1, <1>2

\* The answer.
Ranked(c, p, s, l, i, b, d) ==
    [c EXCEPT !.pinned = p, !.asked = s, !.lapsed = l, !.items = i, !.dropped = b, !.full = d]

LEMMA RankedTyped ==
  ASSUME NEW c \in Request,
         NEW p \in SUBSET Pin, NEW s \in Seq(Selectors), NEW l \in SUBSET Nat, NEW i \in SUBSET Nat, NEW b \in BOOLEAN, NEW d \in BOOLEAN
  PROVE  LET k == Ranked(c, p, s, l, i, b, d)
         IN  /\ k \in Request
             /\ k.pinned = p /\ k.asked = s /\ k.plan = c.plan
             /\ k.lapsed = l /\ k.found = c.found /\ k.full = d
             /\ k.items = i /\ k.dropped = b
  <1>. DEFINE P == SUBSET Pin
              S == Seq(Selectors)
              M == SUBSET Nat
              I == SUBSET Item
              K == Nat
              B == BOOLEAN
  <1>0. /\ RequestOf(P, S, M, I, K, B) = Request /\ c \in RequestOf(P, S, M, I, K, B)
        /\ p \in P /\ s \in S /\ l \in M /\ i \in M /\ b \in B /\ d \in B
    BY DEF Request
  <1>. HIDE DEF P, S, M, I, K, B
  <1>. DEFINE k1 == [c EXCEPT !.pinned = p]
              k2 == [k1 EXCEPT !.asked = s]
              k3 == [k2 EXCEPT !.lapsed = l]
              k4 == [k3 EXCEPT !.items = i]
              k5 == [k4 EXCEPT !.dropped = b]
              k6 == [k5 EXCEPT !.full = d]
  <1>1. /\ k1 \in RequestOf(P, S, M, I, K, B)
        /\ k1.pinned = p /\ k1.asked = c.asked /\ k1.plan = c.plan
        /\ k1.lapsed = c.lapsed /\ k1.found = c.found /\ k1.full = c.full
        /\ k1.items = c.items /\ k1.dropped = c.dropped
    BY <1>0, SMT DEF RequestOf
  <1>. HIDE DEF k1
  <1>2. /\ k2 \in RequestOf(P, S, M, I, K, B)
        /\ k2.pinned = k1.pinned /\ k2.asked = s /\ k2.plan = k1.plan
        /\ k2.lapsed = k1.lapsed /\ k2.found = k1.found /\ k2.full = k1.full
        /\ k2.items = k1.items /\ k2.dropped = k1.dropped
    BY <1>0, <1>1, SMT DEF RequestOf
  <1>. HIDE DEF k2
  <1>3. /\ k3 \in RequestOf(P, S, M, I, K, B)
        /\ k3.pinned = k2.pinned /\ k3.asked = k2.asked /\ k3.plan = k2.plan
        /\ k3.lapsed = l /\ k3.found = k2.found /\ k3.full = k2.full
        /\ k3.items = k2.items /\ k3.dropped = k2.dropped
    BY <1>0, <1>2, SMT DEF RequestOf
  <1>. HIDE DEF k3
  <1>4. /\ k4 \in RequestOf(P, S, M, I, K, B)
        /\ k4.pinned = k3.pinned /\ k4.asked = k3.asked /\ k4.plan = k3.plan
        /\ k4.lapsed = k3.lapsed /\ k4.found = k3.found /\ k4.full = k3.full
        /\ k4.items = i /\ k4.dropped = k3.dropped
    BY <1>0, <1>3, SMT DEF RequestOf
  <1>. HIDE DEF k4
  <1>5. /\ k5 \in RequestOf(P, S, M, I, K, B)
        /\ k5.pinned = k4.pinned /\ k5.asked = k4.asked /\ k5.plan = k4.plan
        /\ k5.lapsed = k4.lapsed /\ k5.found = k4.found /\ k5.full = k4.full
        /\ k5.items = k4.items /\ k5.dropped = b
    BY <1>0, <1>4, SMT DEF RequestOf
  <1>. HIDE DEF k5
  <1>6. /\ k6 \in RequestOf(P, S, M, I, K, B)
        /\ k6.pinned = k5.pinned /\ k6.asked = k5.asked /\ k6.plan = k5.plan
        /\ k6.lapsed = k5.lapsed /\ k6.found = k5.found /\ k6.full = d
        /\ k6.items = k5.items /\ k6.dropped = k5.dropped
    BY <1>0, <1>5, SMT DEF RequestOf
  <1>7. Ranked(c, p, s, l, i, b, d) = k6 BY DEF Ranked, k1, k2, k3, k4, k5
  <1>. HIDE DEF k6
  <1>. QED BY <1>0, <1>1, <1>2, <1>3, <1>4, <1>5, <1>6, <1>7

\* Active memories as the type invariant sees them.
LEMMA ActiveRows ==
  ASSUME Recalling
  PROVE  /\ Active \subseteq Ids /\ Ids \subseteq Nat
         /\ \A id \in Ids : records[id] \in Record /\ Ref(id) \in Pin
         /\ \A id \in Ids : Ref(id).id = id
  <1>1. \A id \in Ids : records[id] \in Record /\ id \in Nat
    BY Rows DEF Recalling, StoreTyped
  <1>2. \A id \in Ids : Ref(id) \in Pin BY <1>1, SMT DEF Ref, Pin, Record
  <1>. QED BY <1>1, <1>2 DEF Active, Ref

LEMMA RecallStep ==
  ASSUME Recalling, NEW q \in Readers, NEW pinned \in {{Ref(id)} : id \in Ids} \union {{}},
         NEW plan \in Plans, Recall(q, pinned, plan)
  PROVE  Recalling'
  <1>. DEFINE lapsed == {id \in Ids : records[id].elapsed}
              c0 == [NoCall EXCEPT !.pinned = pinned, !.asked = plan, !.plan = plan, !.lapsed = lapsed]
              ids == {ref.id : ref \in {r \in pinned : StillPinned(c0, r)}}
              found == WithItems({}, ids, "pinned")
              c == Asking(NoCall, pinned, plan, lapsed, found)
  <1>0. /\ Active \subseteq Ids /\ Ids \subseteq Nat /\ \A id \in Ids : Ref(id) \in Pin
        /\ \A id \in Ids : Ref(id).id = id
    BY ActiveRows
  <1>1. pinned \in SUBSET Pin /\ plan \in Seq(Selectors) /\ lapsed \in SUBSET Nat
    <2>1. pinned \in SUBSET Pin BY <1>0
    <2>2. plan \in Seq(Selectors) BY RecallAssumption DEF RecallAssumption, Selectors
    <2>3. lapsed \in SUBSET Nat BY <1>0
    <2>. QED BY <2>1, <2>2, <2>3
  <1>2. c0.lapsed = lapsed BY SMT DEF NoCall
  <1>. HIDE DEF c0
  <1>3. \A ref \in pinned : StillPinned(c0, ref) <=>
           Ref(ref.id) = ref /\ ref.id \in Active /\ ref.id \notin lapsed
    BY <1>2 DEF StillPinned, Visible
  <1>4. ids \subseteq Active \ lapsed BY <1>3
  <1>5. \A id \in Active \ lapsed : Ref(id) \in pinned => id \in ids
    <2>. TAKE id \in Active \ lapsed
    <2>. HAVE Ref(id) \in pinned
    <2>1. Ref(id).id = id BY <1>0
    <2>2. StillPinned(c0, Ref(id)) BY <1>3, <2>1
    <2>. QED BY <2>1, <2>2
  <1>. HIDE DEF ids
  <1>6. found \in SUBSET Item /\ {f.id : f \in found} = ids
    <2>1. ids \in SUBSET Nat /\ {} \in SUBSET Item /\ "pinned" \in Sources
      BY <1>0, <1>4 DEF Sources
    <2>2. {f.id : f \in {}} = {} OBVIOUS
    <2>. QED BY <2>1, <2>2, Merging
  <1>. HIDE DEF found, lapsed
  <1>7. /\ c \in Request /\ c.pinned = pinned /\ c.asked = plan /\ c.plan = plan
        /\ c.lapsed = lapsed /\ c.found = found
    BY <1>1, <1>6, NoCallTyped, AskingTyped
  <1>8. /\ UNCHANGED <<records, outbox, version>> /\ UNCHANGED <<index, proj>>
        /\ stage' = [stage EXCEPT ![q] = AfterPlan(plan)]
        /\ steady' = [steady EXCEPT ![q] = Active] /\ seen' = [seen EXCEPT ![q] = Active]
    BY DEF Recall
  <1>9. call' = [call EXCEPT ![q] = c] BY DEF Recall, Asking, c0, found, ids, lapsed
  <1>10. /\ AfterPlan(plan) \in {"exact", "search"}
         /\ AfterPlan(plan) = "search" <=> plan = <<>>
    BY DEF AfterPlan
  <1>. HIDE DEF c
  <1>11. /\ stage'[q] = AfterPlan(plan) /\ call'[q] = c /\ steady'[q] = Active /\ seen'[q] = Active
    BY <1>8, <1>9 DEF Recalling, RecallTyped
  <1>12. Active' = Active /\ \A id \in Ids : Ref(id)' = Ref(id) /\ \A sel : Suits(id, sel)' = Suits(id, sel)
    BY <1>8 DEF Active, Ids, Ref, Suits
  <1>13. FoundIds(c) = ids BY <1>6, <1>7 DEF FoundIds
  <1>14. Finding(q)'
    <2>1. \A f \in c.found : f.id \in Active \ lapsed BY <1>4, <1>6, <1>7
    <2>2. \A id \in Active \ lapsed : Ref(id)' \in c.pinned => id \in FoundIds(c)
      BY <1>0, <1>5, <1>7, <1>12, <1>13
    <2>3. \A i \in 1 .. Len(c.asked) : \E k \in 1 .. Len(c.plan) : c.plan[k] = c.asked[i]
      BY <1>7
    <2>4. FoundIds(call'[q]) = FoundIds(c) BY <1>11 DEF FoundIds
    <2>. QED BY <1>7, <1>10, <1>11, <1>12, <2>1, <2>2, <2>3 DEF Finding, FoundIds
  <1>15. Answering(q)' BY <1>10, <1>11 DEF Answering
  <1>. QED BY <1>0, <1>7, <1>8, <1>9, <1>10, <1>14, <1>15, ReaderStep

LEMMA ClarifyStep ==
  ASSUME Recalling, NEW q \in Readers, Clarify(q)
  PROVE  Recalling'
  <1>. DEFINE c == [NoCall EXCEPT !.dropped = TRUE]
  <1>1. c \in Request /\ c.found = {} /\ c.items = {} /\ c.dropped BY NoCallTyped
  <1>2. /\ UNCHANGED <<records, outbox, version>> /\ UNCHANGED <<index, proj>>
        /\ stage' = [stage EXCEPT ![q] = "answered"] /\ call' = [call EXCEPT ![q] = c]
        /\ steady' = steady /\ seen' = seen
    BY DEF Clarify, Reader
  <1>. HIDE DEF c
  <1>3. stage'[q] = "answered" /\ call'[q] = c BY <1>2 DEF Recalling, RecallTyped
  <1>4. Finding(q)' /\ Answering(q)' BY <1>1, <1>3 DEF Finding, Calling, Answering
  <1>5. /\ steady[q] \in SUBSET Ids /\ seen[q] \in SUBSET Ids
        /\ steady' = [steady EXCEPT ![q] = steady[q]] /\ seen' = [seen EXCEPT ![q] = seen[q]]
    BY <1>2 DEF Recalling, RecallTyped
  <1>. QED BY <1>1, <1>2, <1>4, <1>5, ReaderStep

LEMMA ReturnStep ==
  ASSUME Recalling, NEW q \in Readers, Return(q)
  PROVE  Recalling'
  <1>1. /\ UNCHANGED <<records, outbox, version>> /\ UNCHANGED <<index, proj>>
        /\ stage' = [stage EXCEPT ![q] = "idle"] /\ call' = [call EXCEPT ![q] = NoCall]
        /\ steady' = [steady EXCEPT ![q] = {}] /\ seen' = [seen EXCEPT ![q] = {}]
    BY DEF Return
  <1>2. stage'[q] = "idle" /\ call'[q] = NoCall BY <1>1 DEF Recalling, RecallTyped
  <1>3. Finding(q)' /\ Answering(q)'
    BY <1>2, NoCallTyped DEF Finding, Calling, Answering
  <1>. QED BY <1>1, <1>3, NoCallTyped, ReaderStep

\* A step of a request that leaves its history alone.
LEMMA RequestStep ==
  ASSUME Recalling, NEW q \in Readers, NEW s \in {"exact", "search", "answered"},
         NEW c \in Request, Reader(q, s, c), Finding(q)', Answering(q)'
  PROVE  Recalling'
  <1>1. /\ UNCHANGED <<records, outbox, version>> /\ UNCHANGED <<index, proj>>
        /\ stage' = [stage EXCEPT ![q] = s] /\ call' = [call EXCEPT ![q] = c]
        /\ steady' = steady /\ seen' = seen
    BY DEF Reader
  <1>2. /\ steady[q] \in SUBSET Ids /\ seen[q] \in SUBSET Ids
        /\ steady' = [steady EXCEPT ![q] = steady[q]] /\ seen' = [seen EXCEPT ![q] = seen[q]]
    BY <1>1 DEF Recalling, RecallTyped
  <1>. QED BY <1>1, <1>2, ReaderStep

LEMMA LoadExactStep ==
  ASSUME Recalling, NEW q \in Readers, LoadExact(q)
  PROVE  Recalling'
  <1>. DEFINE c == call[q]
              sel == Head(c.plan)
              matches == Matches(c, sel)
              hits == Newest(matches)
              source == IF sel \in Slots THEN "slot" ELSE "content_hash"
              found == WithItems(c.found, hits, source)
              rest == IF Cardinality(found) >= MaxExact THEN <<>> ELSE Tail(c.plan)
              full == c.full \/ hits # matches \/ rest # Tail(c.plan)
              k == Loaded(c, found, rest, full)
  <1>0. /\ c \in Request /\ stage[q] = "exact" /\ Finding(q)
        /\ Active \subseteq Ids /\ Ids \subseteq Nat
    BY ActiveRows DEF Recalling, RecallTyped, LoadExact
  <1>1. Calling(q) /\ c.plan # <<>> BY <1>0 DEF Calling, Finding
  <1>2. c.plan \in Seq(Selectors) /\ c.found \in SUBSET Item
    BY <1>0, SMT DEF Request, RequestOf
  <1>3. Reader(q, AfterPlan(rest), k) BY DEF LoadExact, Loaded
  <1>4. /\ Tail(c.plan) \in Seq(Selectors) /\ Len(c.plan) \in Nat
        /\ Len(Tail(c.plan)) = Len(c.plan) - 1
        /\ \A i \in 1 .. Len(Tail(c.plan)) : Tail(c.plan)[i] = c.plan[i + 1]
    BY <1>1, <1>2, HeadTailProperties, EmptySeq
  <1>5. matches \subseteq Active /\ matches \intersect c.lapsed = {}
    BY DEF Matches, Visible
  <1>6. \A id \in Active \ c.lapsed : Suits(id, sel) => id \in matches
    BY <1>0 DEF Matches, Visible, Suits
  <1>7. hits \subseteq matches BY DEF Newest
  <1>8. sel = c.plan[1] BY <1>1, <1>2
  <1>. HIDE DEF sel, matches, hits
  <1>9. found \in SUBSET Item /\ {f.id : f \in found} = FoundIds(c) \union hits
    <2>1. source \in Sources /\ hits \in SUBSET Nat BY <1>0, <1>5, <1>7 DEF Sources
    <2>. HIDE DEF source
    <2>. QED BY <1>2, <2>1, Merging DEF FoundIds
  <1>. HIDE DEF source, found
  <1>10. rest \in Seq(Selectors) /\ (rest = <<>> \/ rest = Tail(c.plan))
    BY <1>4, EmptySeq
  <1>11. full \in BOOLEAN OBVIOUS
  <1>12. /\ c.full => full
         /\ ~full => hits = matches /\ rest = Tail(c.plan)
    OBVIOUS
  <1>. HIDE DEF rest, full
  <1>13. /\ k \in Request /\ k.pinned = c.pinned /\ k.asked = c.asked /\ k.plan = rest
         /\ k.lapsed = c.lapsed /\ k.found = found /\ k.full = full
    BY <1>0, <1>9, <1>10, <1>11, LoadedTyped
  <1>. HIDE DEF k
  <1>14. /\ stage'[q] = AfterPlan(rest) /\ call'[q] = k
         /\ steady'[q] = steady[q] /\ seen'[q] = seen[q] /\ records' = records
    BY <1>3 DEF Reader, Recalling, RecallTyped
  <1>15. /\ AfterPlan(rest) \in {"exact", "search"}
         /\ AfterPlan(rest) = "search" <=> rest = <<>>
    BY DEF AfterPlan
  <1>16. Active' = Active /\ \A id : Ref(id)' = Ref(id) /\ \A s : Suits(id, s)' <=> Suits(id, s)
    BY <1>14 DEF Active, Ids, Ref, Suits
  <1>17. FoundIds(k) = FoundIds(c) \union hits BY <1>9, <1>13 DEF FoundIds
  <1>18. steady[q] \subseteq Active /\ Active \subseteq seen[q] BY <1>0, <1>1 DEF Finding
  <1>19. \A f \in found : f.id \in seen[q] \ c.lapsed
    <2>1. \A x \in FoundIds(c) : x \in seen[q] \ c.lapsed BY <1>0 DEF Finding, FoundIds
    <2>2. \A x \in hits : x \in seen[q] \ c.lapsed BY <1>5, <1>7, <1>18
    <2>. QED BY <1>9, <2>1, <2>2
  <1>20. ASSUME NEW id \in steady[q] \ c.lapsed
         PROVE  /\ Ref(id) \in c.pinned => id \in FoundIds(k)
                /\ \A i \in 1 .. Len(c.asked) : Suits(id, c.asked[i]) =>
                      \/ full \/ id \in FoundIds(k)
                      \/ \E n \in 1 .. Len(rest) : rest[n] = c.asked[i]
    <2>1. Ref(id) \in c.pinned => id \in FoundIds(k) BY <1>0, <1>1, <1>17 DEF Finding
    <2>2. ASSUME NEW i \in 1 .. Len(c.asked), Suits(id, c.asked[i]), ~full, id \notin FoundIds(k)
          PROVE  \E n \in 1 .. Len(rest) : rest[n] = c.asked[i]
      <3>1. PICK n \in 1 .. Len(c.plan) : c.plan[n] = c.asked[i]
        BY <1>0, <1>1, <1>12, <1>17, <2>2 DEF Finding
      <3>2. n # 1
        <4>1. ~Suits(id, sel) BY <1>6, <1>12, <1>17, <1>18, <2>2
        <4>. QED BY <1>8, <2>2, <3>1, <4>1
      <3>3. n - 1 \in 1 .. Len(Tail(c.plan)) /\ (n - 1) + 1 = n BY <1>4, <3>2, SMT
      <3>4. Tail(c.plan)[n - 1] = c.plan[n] BY <1>4, <3>3
      <3>. QED BY <1>12, <2>2, <3>1, <3>3, <3>4
    <2>. QED BY <2>1, <2>2
  <1>21. Finding(q)'
    BY <1>13, <1>14, <1>15, <1>16, <1>18, <1>19, <1>20 DEF Finding, FoundIds
  <1>22. Answering(q)' BY <1>14, <1>15 DEF Answering
  <1>. QED BY <1>3, <1>13, <1>15, <1>21, <1>22, RequestStep

LEMMA SearchStep ==
  ASSUME Recalling, NEW q \in Readers, Search(q)
  PROVE  Recalling'
  <1>. DEFINE c == call[q]
  <1>0. /\ c \in Request /\ stage[q] = "search" /\ Finding(q)
        /\ Active \subseteq Ids /\ Ids \subseteq Nat /\ index \subseteq Ids /\ IsFiniteSet(Ids)
    <2>1. Len(records) \in Nat /\ Ids = 1 .. Len(records) BY Rows DEF Recalling, StoreTyped
    <2>2. IsFiniteSet(Ids) BY <2>1, FS_Interval, SMT
    <2>. QED BY <2>2, ActiveRows DEF Recalling, RecallTyped, Search
  <1>1. Calling(q) /\ c.plan = <<>> BY <1>0 DEF Calling, Finding
  <1>2. /\ c.found \in SUBSET Item /\ c.looked \in SUBSET Nat /\ c.batch \in Nat /\ c.scanned \in Nat
    BY <1>0, SMT DEF Request, RequestOf
  <1>3. steady[q] \subseteq Active /\ Active \subseteq seen[q] BY <1>0, <1>1 DEF Finding
  \* Whatever the page adds was active when it was read.
  <1>4. ASSUME NEW k \in Request, Reader(q, "search", k),
               k.pinned = c.pinned, k.asked = c.asked, k.plan = c.plan, k.lapsed = c.lapsed,
               k.full = c.full, FoundIds(c) \subseteq FoundIds(k),
               FoundIds(k) \subseteq FoundIds(c) \union (Active \ c.lapsed)
        PROVE  Recalling'
    <2>1. /\ stage'[q] = "search" /\ call'[q] = k
          /\ steady'[q] = steady[q] /\ seen'[q] = seen[q] /\ records' = records
      BY <1>4 DEF Reader, Recalling, RecallTyped
    <2>2. Active' = Active /\ \A id : Ref(id)' = Ref(id) /\ \A s : Suits(id, s)' <=> Suits(id, s)
      BY <2>1 DEF Active, Ids, Ref, Suits
    <2>3. \A f \in k.found : f.id \in seen[q] \ c.lapsed
      <3>1. \A x \in FoundIds(c) : x \in seen[q] \ c.lapsed BY <1>0 DEF Finding, FoundIds
      <3>2. \A f \in k.found : f.id \in FoundIds(k) BY DEF FoundIds
      <3>. QED BY <1>3, <1>4, <3>1, <3>2
    <2>4. \A id \in steady[q] \ c.lapsed :
             /\ Ref(id) \in c.pinned => id \in FoundIds(k)
             /\ \A i \in 1 .. Len(c.asked) : Suits(id, c.asked[i]) =>
                   \/ c.full \/ id \in FoundIds(k)
                   \/ \E n \in 1 .. Len(c.plan) : c.plan[n] = c.asked[i]
      BY <1>0, <1>1, <1>4 DEF Finding
    <2>5. Finding(q)'
      BY <1>1, <1>3, <1>4, <2>1, <2>2, <2>3, <2>4 DEF Finding, FoundIds
    <2>6. Answering(q)' BY <2>1 DEF Answering
    <2>. QED BY <1>4, <2>5, <2>6, RequestStep
  <1>5. ASSUME NEW hits \in SUBSET index, NEW more \in BOOLEAN,
               Reader(q, "search", [c EXCEPT !.more = more,
                       !.looked = @ \union hits, !.batch = @ + 1, !.scanned = @ + Cardinality(hits),
                       !.found = WithItems(@, {id \in hits \ c.looked : StillActive(c, id)},
                                           "semantic")])
        PROVE  Recalling'
    <2>. DEFINE ids == {id \in hits \ c.looked : StillActive(c, id)}
                found == WithItems(c.found, ids, "semantic")
                looked == c.looked \union hits
                batch == c.batch + 1
                scanned == c.scanned + Cardinality(hits)
                k == Searched(c, more, looked, batch, scanned, found)
    <2>1. Reader(q, "search", k) BY <1>5 DEF Searched
    <2>2. ids \subseteq Active \ c.lapsed BY DEF StillActive, Visible
    <2>3. IsFiniteSet(hits) BY <1>0, FS_Subset
    <2>4. Cardinality(hits) \in Nat BY <2>3, FS_CardinalityType
    <2>5. looked \in SUBSET Nat /\ batch \in Nat /\ scanned \in Nat
      <3>1. looked \in SUBSET Nat BY <1>0, <1>2
      <3>2. batch \in Nat BY <1>2, SMT
      <3>3. scanned \in Nat BY <1>2, <2>4, SMT
      <3>. QED BY <3>1, <3>2, <3>3
    <2>. HIDE DEF ids, looked, batch, scanned
    <2>6. found \in SUBSET Item /\ {f.id : f \in found} = FoundIds(c) \union ids
      <3>1. ids \in SUBSET Nat /\ "semantic" \in Sources BY <1>0, <2>2 DEF Sources
      <3>. QED BY <1>2, <3>1, Merging DEF FoundIds
    <2>. HIDE DEF found
    <2>7. /\ k \in Request /\ k.pinned = c.pinned /\ k.asked = c.asked /\ k.plan = c.plan
          /\ k.lapsed = c.lapsed /\ k.found = found /\ k.full = c.full
      <3>1. c \in Request /\ found \in SUBSET Item /\ more \in BOOLEAN BY <1>0, <2>6
      <3>. HIDE DEF c
      <3>. QED BY <2>5, <3>1, SearchedTyped
    <2>. HIDE DEF k
    <2>8. FoundIds(k) = FoundIds(c) \union ids BY <2>6, <2>7 DEF FoundIds
    <2>. QED BY <1>4, <2>1, <2>2, <2>7, <2>8
  <1>6. ASSUME Reader(q, "search", [c EXCEPT !.stopped = TRUE]) PROVE Recalling'
    <2>. DEFINE k == Stopped(c, TRUE)
    <2>1. Reader(q, "search", k) BY <1>6 DEF Stopped
    <2>2. /\ k \in Request /\ k.pinned = c.pinned /\ k.asked = c.asked /\ k.plan = c.plan
          /\ k.lapsed = c.lapsed /\ k.found = c.found /\ k.full = c.full
      BY <1>0, StoppedTyped
    <2>. HIDE DEF k
    <2>3. FoundIds(k) = FoundIds(c) BY <2>2 DEF FoundIds
    <2>. QED BY <1>4, <2>1, <2>2, <2>3
  <1>. QED BY <1>5, <1>6 DEF Search

LEMMA RankStep ==
  ASSUME Recalling, NEW q \in Readers, Rank(q)
  PROVE  Recalling'
  <1>. DEFINE c == call[q]
  <1>0. /\ c \in Request /\ stage[q] = "search" /\ Finding(q)
    BY DEF Recalling, RecallTyped, Rank
  <1>1. Calling(q) /\ c.plan = <<>> BY <1>0 DEF Calling, Finding
  <1>2. PICK kept \in SUBSET c.found :
           Reader(q, "answered", [NoCall EXCEPT !.pinned = c.pinned, !.asked = c.asked,
                    !.lapsed = c.lapsed, !.items = {f.id : f \in kept},
                    !.dropped = kept # c.found, !.full = c.full])
    BY DEF Rank
  <1>. DEFINE items == {f.id : f \in kept}
              dropped == kept # c.found
              k == Ranked(NoCall, c.pinned, c.asked, c.lapsed, items, dropped, c.full)
  <1>3. Reader(q, "answered", k) BY <1>2 DEF Ranked
  <1>4. /\ c.pinned \in SUBSET Pin /\ c.asked \in Seq(Selectors) /\ c.lapsed \in SUBSET Nat
        /\ c.found \in SUBSET Item /\ c.full \in BOOLEAN
    BY <1>0, SMT DEF Request, RequestOf
  <1>5. items \in SUBSET Nat
    <2>1. \A f \in Item : f.id \in Nat BY SMT DEF Item
    <2>. QED BY <1>4, <2>1
  <1>6. items \subseteq seen[q] \ c.lapsed BY <1>0 DEF Finding
  <1>7. ~dropped => items = FoundIds(c) BY DEF FoundIds
  <1>8. dropped \in BOOLEAN OBVIOUS
  <1>. HIDE DEF items, dropped
  <1>9. /\ k \in Request /\ k.pinned = c.pinned /\ k.asked = c.asked /\ k.lapsed = c.lapsed
        /\ k.found = NoCall.found /\ k.items = items /\ k.dropped = dropped /\ k.full = c.full
    BY <1>4, <1>5, <1>8, NoCallTyped, RankedTyped
  <1>. HIDE DEF k
  <1>10. /\ stage'[q] = "answered" /\ call'[q] = k
         /\ steady'[q] = steady[q] /\ seen'[q] = seen[q] /\ records' = records
    BY <1>3 DEF Reader, Recalling, RecallTyped
  <1>11. \A id : Ref(id)' = Ref(id) /\ \A s : Suits(id, s)' <=> Suits(id, s)
    BY <1>10 DEF Ref, Suits
  <1>12. ~dropped => \A id \in steady[q] \ c.lapsed :
            \/ id \in items
            \/ /\ Ref(id) \notin c.pinned
               /\ c.full \/ \A i \in 1 .. Len(c.asked) : ~Suits(id, c.asked[i])
    <2>. SUFFICES ASSUME ~dropped, NEW id \in steady[q] \ c.lapsed, id \notin items
                  PROVE  /\ Ref(id) \notin c.pinned
                         /\ c.full \/ \A i \in 1 .. Len(c.asked) : ~Suits(id, c.asked[i])
      OBVIOUS
    <2>1. id \notin FoundIds(c) BY <1>7
    <2>2. 1 .. Len(c.plan) = {} BY <1>1, SMT
    <2>. QED BY <1>0, <1>1, <2>1, <2>2 DEF Finding
  <1>13. Finding(q)' BY <1>9, <1>10, NoCallTyped DEF Finding, Calling
  <1>14. Answering(q)' BY <1>6, <1>9, <1>10, <1>11, <1>12 DEF Answering
  <1>. QED BY <1>3, <1>9, <1>13, <1>14, RequestStep

-----------------------------------------------------------------------------
(* Recall: what the runs check.                                              *)

LEMMA RecallBegins == RecallInit => Recalling
  <1>. SUFFICES ASSUME RecallInit PROVE Recalling OBVIOUS
  <1>1. /\ records = <<>> /\ outbox = <<>> /\ version = 0 /\ index = {}
        /\ Ids = {} /\ Len(records) = 0
    BY SMT DEF RecallInit, InitStore, Ids
  <1>2. StoreTyped BY <1>1, EmptySeq, SMT DEF StoreTyped
  <1>3. FactsAreConsistent
    BY <1>1 DEF FactsAreConsistent, OneActivePerSlot, SupersessionIsMutual
  <1>4. RecallTyped
    <2>1. NoBatch \in Batch(Len(records)) BY <1>1, NoBatchTyped
    <2>. QED BY <1>1, <2>1, NoCallTyped DEF RecallTyped, RecallInit
  <1>5. CompletedMeansIndexed BY <1>1 DEF CompletedMeansIndexed
  <1>6. \A q \in Readers : Finding(q) /\ Answering(q)
    BY NoCallTyped DEF RecallInit, Finding, Answering, Calling
  <1>. QED BY <1>2, <1>3, <1>4, <1>5, <1>6 DEF Recalling

LEMMA RecallMoves ==
  ASSUME Recalling, [RecallNext]_recallVars
  PROVE  Recalling'
  <1>1. CASE UNCHANGED recallVars
    <2>1. Ids' = Ids BY <1>1 DEF recallVars, Ids
    <2>2. StoreTyped' /\ RecallTyped' /\ CompletedMeansIndexed'
      BY <1>1, <2>1 DEF recallVars, Recalling, StoreTyped, RecallTyped, CompletedMeansIndexed, IsActiveAt
    <2>3. FactsAreConsistent'
      BY <1>1, <2>1 DEF recallVars, Recalling, FactsAreConsistent, OneActivePerSlot, SupersessionIsMutual
    <2>4. \A q \in Readers : Finding(q)' /\ Answering(q)'
      BY <1>1, Untouched DEF recallVars, Recalling
    <2>. QED BY <2>2, <2>3, <2>4 DEF Recalling
  <1>2. CASE RecallNext
    BY <1>2, OwnerStep, ClaimStep, LoadStep, IndexStep, AbandonStep, RecallStep, ClarifyStep,
       LoadExactStep, SearchStep, RankStep, ReturnStep DEF RecallNext
  <1>. QED BY <1>1, <1>2

\* The invariant above holds of every reachable state: in particular the facts
\* stay consistent when candidates are decided while memories are recalled.
THEOREM RecallInvariance == RecallSpec => []Recalling
  BY RecallBegins, RecallMoves, PTL DEF RecallSpec

\* RecallService: an answer holds only memories that were active at some time
\* during the call and had not expired when it began, however stale the index is.
THEOREM RecallsActive == RecallSpec => []RecalledWasActive
  <1>1. Recalling => RecalledWasActive BY DEF Recalling, Answering, RecalledWasActive
  <1>. QED BY <1>1, RecallInvariance, PTL

\* An answer that reports no cut holds every pinned or matching memory that was
\* active throughout the call.
THEOREM RecallIsComplete == RecallSpec => []ExactIsComplete
  <1>1. Recalling => ExactIsComplete
    BY DEF Recalling, Answering, ExactIsComplete, Matches, Suits
  <1>. QED BY <1>1, RecallInvariance, PTL

\* Projector.RunBatch: a completed row of an active memory means that RAG holds it.
THEOREM ProjectsTruly == RecallSpec => []CompletedMeansIndexed
  <1>1. Recalling => CompletedMeansIndexed BY DEF Recalling
  <1>. QED BY <1>1, RecallInvariance, PTL

=============================================================================
