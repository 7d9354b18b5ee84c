--------------------------- MODULE MemoryCapture ---------------------------
(***************************************************************************)
(* The memory capture workflow (internal/memoryworkflow) over MemoryStore:  *)
(* extract a draft, look up exact candidates, decide, let a human review    *)
(* the candidate, commit.  Segments run on workers that may die or be taken *)
(* over anywhere; DurableWorkflow shows that a segment commits whole or not *)
(* at all, so here a segment reads the checkpoint, works in memory and      *)
(* saves.  What the nodes do to the store is not undone.                    *)
(***************************************************************************)
EXTENDS MemoryStore

CONSTANTS
    Runs, Workers,
    Drafts,       \* what the extractor may produce, of a query or of an edit
    Known,        \* draft of the memory the owner already has
    Intents,      \* memory.IntentAuthority of the requests
    None,
    MaxCalls,     \* bound: Start and Resume calls
    MaxCrashes    \* bound: segments that die

ASSUME CaptureAssumption ==
    /\ Drafts \subseteq Draft /\ Known \in Draft /\ None \notin Runs \union Draft
    /\ MaxCalls \in Nat /\ MaxCrashes \in Nat

VARIABLES
    ctl,          \* ctl[r]: the committed checkpoint of the run
    holder,       \* holder[r]: the worker that claimed the run last
    payloads,     \* rows of memory_edit_payloads
    at,           \* at[w]: what w does next
    job,          \* job[w]: the segment w executes
    calls, crashes,
    approvals     \* history: run and candidate of every approval

flow == <<ctl, holder, payloads, at, job, calls, crashes, approvals>>
vars == <<records, audit, outbox, version, ctl, holder, payloads, at, job, calls, crashes,
          approvals>>

-----------------------------------------------------------------------------
NoPolicy == [action |-> "none", target |-> 0]
NoReview == [id |-> 0, rver |-> 0, decision |-> "none"]
NoData == [intent |-> None, draft |-> None, cands |-> {}, policy |-> NoPolicy,
           review |-> NoReview, committed |-> 0]
NoJob == [run |-> None, action |-> "none", payload |-> 0, base |-> 0, data |-> NoData,
          draft |-> None, cands |-> {}, policy |-> NoPolicy, target |-> 0, exit |-> "none"]

\* memory.DecidePolicy: what one proposal of the model does to one existing
\* memory.  "review" stands for every action that leaves it to the reviewer
\* (review, independent, add_candidate): the nodes treat them alike.
ToReviewer == [action |-> "review", target |-> 0]
DecidePolicy(d, id, intent, p) ==
    IF records[id].text = d.text \/ (p.sure /\ p.relation = "duplicate")
    THEN [action |-> "noop", target |-> id]
    ELSE IF \/ intent = "user_correction" /\ p.relation \in {"correction", "temporal_change"}
            \/ p.sure /\ p.relation = "refinement"
    THEN [action |-> "supersede", target |-> id]
    ELSE ToReviewer

Proposals == [relation : {"duplicate", "refinement", "correction", "contradiction",
                          "temporal_change", "independent"}, sure : BOOLEAN]

\* Adapter.ResolveMemoryConflict: the model may leave candidates out, and the
\* strongest decision over its proposals wins, so any single one may.
Resolutions(d, ids, intent) ==
    {ToReviewer} \union {DecidePolicy(d, id, intent, p) : id \in ids, p \in Proposals}

\* reloadCandidates: every pinned candidate is still the active version it was.
Unchanged(refs) == \A ref \in refs : ref.id \in Ids /\ IsActiveAt(ref.id) /\ Ref(ref.id) = ref

\* ExecutionID run:node:attempt and the index of the write within the node.
ReviewKey(j, i) == <<j.run, "review", j.base + 1, i>>
CommitKey(j) == <<j.run, "commit", 1, 0>>

-----------------------------------------------------------------------------
Init ==
    /\ records = <<[NewRecord(Known, 1)
                      EXCEPT !.status = "active", !.rver = 2]>>
    /\ audit = {} /\ outbox = <<[NoRow EXCEPT !.status = "completed"]>> /\ version = 2
    /\ ctl = [r \in Runs |-> [status |-> "absent", attempt |-> 0, data |-> NoData]]
    /\ holder = [r \in Runs |-> None]
    /\ payloads = <<>>
    /\ at = [w \in Workers |-> "idle"]
    /\ job = [w \in Workers |-> NoJob]
    /\ calls = 0 /\ crashes = 0 /\ approvals = {}

Quiet == UNCHANGED <<ctl, holder, payloads, calls, crashes, approvals>>

GoTo(w, s, j) == at' = [at EXCEPT ![w] = s] /\ job' = [job EXCEPT ![w] = j]
\* A node failed: the segment ends with the data the node was entered with.
Refuse(w) == GoTo(w, "save", [job[w] EXCEPT !.exit = "failed"]) /\ Quiet
Read(w, s, j) == GoTo(w, s, j) /\ Quiet /\ UNCHANGED store

-----------------------------------------------------------------------------
(* Calls: CaptureService.Start and Resume *)

Accept(w, r) ==
    /\ at[w] = "idle" /\ calls < MaxCalls
    /\ calls' = calls + 1
    /\ holder' = [holder EXCEPT ![r] = w]
    /\ UNCHANGED <<records, audit, outbox, version, crashes>>

\* Start of an existing run only reads it: a first segment is never repeated.
\* The step goes on to the end of ExtractNode, which touches nothing shared.
Start(w, r, intent, d) ==
    /\ ctl[r].status = "absent"
    /\ Accept(w, r)
    /\ ctl' = [ctl EXCEPT ![r] = [@ EXCEPT !.status = "pending", !.data.intent = intent]]
    /\ GoTo(w, "lookup", [NoJob EXCEPT !.run = r, !.data.intent = intent, !.data.draft = d])
    /\ UNCHANGED <<payloads, approvals>>

\* Create: the edit is extracted and stored, PutMemoryEditPayload, as a row of its own.
PutPayload(d) == payloads' = Append(payloads, [draft |-> d, pending |-> TRUE])

\* LoadEditedMemoryDraft: a pending payload can be consumed once.
ConsumePayload(i) ==
    /\ payloads[i].pending
    /\ payloads' = [payloads EXCEPT ![i].pending = FALSE]

\* The edit is stored before the run is claimed.  A lease that
\* lapsed lets a second segment in while the first one is still at work.
Resume(w, r, a, d) ==
    /\ ctl[r].status = "suspended"
    /\ Accept(w, r)
    /\ IF a = "edit" THEN PutPayload(d) ELSE UNCHANGED payloads
    /\ approvals' = IF a = "approve" THEN approvals \union {<<r, ctl[r].data.review.id>>}
                    ELSE approvals
    /\ GoTo(w, "pins", [NoJob EXCEPT !.run = r, !.action = a, !.base = ctl[r].attempt,
                           !.payload = Len(payloads'), !.data = ctl[r].data])
    /\ UNCHANGED ctl

-----------------------------------------------------------------------------
(* Nodes of the first segment *)

ExactCandidateLookup(w) ==
    /\ at[w] = "lookup"
    /\ Read(w, "conflict", [job[w] EXCEPT
           !.data.cands = {Ref(id) : id \in FindExact(job[w].data.draft)}])

Conflict(w) ==
    LET d == job[w].data
    IN  /\ at[w] = "conflict"
        /\ IF Unchanged(d.cands)
           THEN \E p \in Resolutions(d.draft, {ref.id : ref \in d.cands}, d.intent) :
                   Read(w, "review", [job[w] EXCEPT !.data.policy = p])
           ELSE Refuse(w) /\ UNCHANGED store

\* ReviewNode, first pass, up to its write: a duplicate is taken as committed,
\* a superseded target must be active.
Review(w) ==
    LET p == job[w].data.policy
    IN  /\ at[w] = "review"
        /\ IF p.action \in {"noop", "supersede"} /\ ~IsActiveAt(p.target)
           THEN Refuse(w) /\ UNCHANGED store
           ELSE IF p.action = "noop"
           THEN Read(w, "commit", [job[w] EXCEPT !.data.committed = p.target])
           ELSE Read(w, "create", job[w])

\* The candidate of the first pass continues the lineage it would supersede.
FirstCandidate(j) ==
    LET p == j.data.policy
    IN  IF p.action = "supersede"
        THEN [NewRecord(j.data.draft, NextId) EXCEPT !.lineage = records[p.target].lineage,
                 !.lver = records[p.target].lver + 1, !.supersedes = p.target]
        ELSE NewRecord(j.data.draft, NextId)

\* An edit continues the lineage of the candidate it replaces; the policy
\* looked at is still the one of the draft before the edit.
EditedCandidate(j) ==
    LET old == records[j.data.review.id]
    IN  [NewRecord(j.draft, NextId) EXCEPT !.lineage = old.lineage, !.lver = old.lver + 1,
            !.supersedes = IF j.data.policy.action = "supersede" THEN j.data.policy.target
                           ELSE j.data.review.id]

\* createCandidate and the suspension that follows; d, refs and p are what the
\* checkpoint will hold.
Suspend(w, new, targets, key, d, refs, p) ==
    LET shown(id, rver) == [job[w] EXCEPT !.exit = "suspended", !.data.draft = d,
            !.data.cands = refs, !.data.policy = p,
            !.data.review = [id |-> id, rver |-> rver, decision |-> "none"]]
    IN  \/ /\ CommitMutation(new, targets, key)
           /\ GoTo(w, "save", shown(NextId, 1))
        \/ /\ Replays(key, new.text)
           /\ GoTo(w, "save", shown(ReplayedId(key), records[ReplayedId(key)].rver))
           /\ UNCHANGED store
        \/ /\ IF KeyUsed(key) THEN ~Replays(key, new.text) ELSE ~CanCommitMutation(new, targets)
           /\ GoTo(w, "save", [job[w] EXCEPT !.exit = "failed"])
           /\ UNCHANGED store

CreateCandidate(w) ==
    LET j == job[w]
    IN  /\ at[w] = "create"
        /\ Suspend(w, FirstCandidate(j), {}, ReviewKey(j, 0), j.data.draft, j.data.cands,
                   j.data.policy)
        /\ Quiet

-----------------------------------------------------------------------------
(* ReviewNode, resumed *)

Reload(w) ==
    /\ at[w] = "pins"
    /\ IF Unchanged(job[w].data.cands) THEN Read(w, "check", job[w])
       ELSE Refuse(w) /\ UNCHANGED store

\* The candidate is as it was shown, or this very decision was applied to it.
StillReviewable(a, review) ==
    LET c == records[review.id]
    IN  \/ c.status = "candidate" /\ c.rver = review.rver
        \/ /\ \/ a = "approve" /\ c.status = "active"
              \/ a = "reject" /\ c.status = "rejected"
           /\ c.rver = review.rver + 1

Check(w) ==
    LET j == job[w]
    IN  /\ at[w] = "check"
        /\ IF ~StillReviewable(j.action, j.data.review) THEN Refuse(w) /\ UNCHANGED store
           ELSE IF j.action = "edit" THEN Read(w, "load", j)
           ELSE Read(w, "commit", [j EXCEPT !.data.review.decision = j.action])

\* The payload, which no other call knows of, is consumed; then candidates are
\* looked up for the edited draft.
LoadEdited(w) ==
    LET i == job[w].payload
        d == payloads[i].draft
    IN  /\ at[w] = "load"
        /\ ConsumePayload(i)
        /\ GoTo(w, "reconflict", [job[w] EXCEPT !.draft = d,
                                                !.cands = {Ref(id) : id \in FindExact(d)}])
        /\ UNCHANGED <<records, audit, outbox, version, ctl, holder, calls, crashes, approvals>>

ResolveEdited(w) ==
    LET j == job[w]
    IN  /\ at[w] = "reconflict"
        /\ IF Unchanged(j.cands)
           THEN \E p \in Resolutions(j.draft, {ref.id : ref \in j.cands}, j.data.intent) :
                   Read(w, "retarget", [j EXCEPT !.policy = p])
           ELSE Refuse(w) /\ UNCHANGED store

RetargetEdited(w) ==
    LET p == job[w].data.policy
    IN  /\ at[w] = "retarget"
        /\ IF p.action = "supersede" /\ ~IsActiveAt(p.target) THEN Refuse(w) /\ UNCHANGED store
           ELSE Read(w, "recreate", job[w])

ReplaceCandidate(w) ==
    LET j == job[w]
        old == [id |-> j.data.review.id, rver |-> j.data.review.rver, to |-> "rejected"]
    IN  /\ at[w] = "recreate"
        /\ Suspend(w, EditedCandidate(j), {old}, ReviewKey(j, 1), j.draft, j.cands, j.policy)
        /\ Quiet

-----------------------------------------------------------------------------
(* CommitNode *)

SupersedesAnyway(j) == j.data.policy.action = "supersede" \* mutant: the decision is ignored
Superseding(j) == j.data.review.decision = "approve" /\ j.data.policy.action = "supersede"
Completed(j, id) == [j EXCEPT !.data.committed = id, !.exit = "completed"]

\* The target is read, and must be active, before the idempotent call.
Commit(w) ==
    LET j == job[w]
        p == j.data.policy
        c == j.data.review
        to == IF c.decision = "approve" THEN "active" ELSE "rejected"
    IN  /\ at[w] = "commit"
        /\ Quiet
        /\ \/ /\ c = NoReview \* a duplicate
              /\ GoTo(w, "save", [j EXCEPT !.exit = "completed"])
              /\ UNCHANGED store
           \/ /\ c # NoReview /\ Superseding(j)
              /\ IF IsActiveAt(p.target)
                 THEN GoTo(w, "supersede", [j EXCEPT !.target = records[p.target].rver])
                 ELSE GoTo(w, "save", [j EXCEPT !.exit = "failed"])
              /\ UNCHANGED store
           \/ /\ c # NoReview /\ ~Superseding(j)
              /\ TransitionMemory(c.id, c.rver, to, CommitKey(j))
              /\ GoTo(w, "save", Completed(j, c.id))
           \/ /\ c # NoReview /\ ~Superseding(j)
              /\ Replays(CommitKey(j), records[c.id].text)
              /\ GoTo(w, "save", Completed(j, ReplayedId(CommitKey(j))))
              /\ UNCHANGED store
           \/ /\ c # NoReview /\ ~Superseding(j)
              /\ IF KeyUsed(CommitKey(j)) THEN ~Replays(CommitKey(j), records[c.id].text)
                 ELSE ~CanTransitionMemory(c.id, c.rver, to)
              /\ GoTo(w, "save", [j EXCEPT !.exit = "failed"])
              /\ UNCHANGED store

Supersede(w) ==
    LET j == job[w]
        c == j.data.review
        t == j.data.policy.target
    IN  /\ at[w] = "supersede"
        /\ Quiet
        /\ \/ /\ ActivateCandidateSuperseding(c.id, c.rver, t, j.target, CommitKey(j))
              /\ GoTo(w, "save", Completed(j, c.id))
           \/ /\ Replays(CommitKey(j), records[c.id].text)
              /\ GoTo(w, "save", Completed(j, ReplayedId(CommitKey(j))))
              /\ UNCHANGED store
           \/ /\ IF KeyUsed(CommitKey(j)) THEN ~Replays(CommitKey(j), records[c.id].text)
                 ELSE ~CanSupersede(c.id, c.rver, t, j.target)
              /\ GoTo(w, "save", [j EXCEPT !.exit = "failed"])
              /\ UNCHANGED store

-----------------------------------------------------------------------------
(* The end of a segment *)

UnfencedSave(w) == TRUE \* mutant: neither claim nor state version is checked
MaySave(w) ==
    LET j == job[w]
    IN  /\ holder[j.run] = w
        /\ ctl[j.run].attempt = j.base
        /\ ctl[j.run].status = IF j.action = "none" THEN "pending" ELSE "suspended"

Save(w) ==
    LET j == job[w]
    IN  /\ at[w] = "save"
        /\ IF MaySave(w)
           THEN /\ ctl' = [ctl EXCEPT ![j.run] =
                     [status |-> j.exit, attempt |-> j.base + 1, data |-> j.data]]
                /\ holder' = [holder EXCEPT ![j.run] = None]
           ELSE UNCHANGED <<ctl, holder>>
        /\ GoTo(w, "idle", NoJob)
        /\ UNCHANGED <<records, audit, outbox, version, payloads, calls, crashes, approvals>>

\* The process dies, or the segment ends without reaching the store again.
Crash(w) ==
    /\ at[w] # "idle" /\ crashes < MaxCrashes
    /\ crashes' = crashes + 1
    /\ GoTo(w, "idle", NoJob)
    /\ UNCHANGED <<records, audit, outbox, version, ctl, holder, payloads, calls, approvals>>

Passing(id) == Elapse(id) /\ UNCHANGED flow
\* Expire belongs to the store's interface; nothing in the program calls it yet.
Sweep == Expire /\ UNCHANGED flow

Step(w) ==
    \/ ExactCandidateLookup(w) \/ Conflict(w) \/ Review(w) \/ CreateCandidate(w)
    \/ Reload(w) \/ Check(w) \/ LoadEdited(w) \/ ResolveEdited(w)
    \/ RetargetEdited(w) \/ ReplaceCandidate(w)
    \/ Commit(w) \/ Supersede(w) \/ Save(w)

Next ==
    \/ \E w \in Workers :
          \/ \E r \in Runs : \/ \E i \in Intents, d \in Drafts : Start(w, r, i, d)
                             \/ \E a \in {"approve", "reject"} : Resume(w, r, a, None)
                             \/ \E d \in Drafts : Resume(w, r, "edit", d)
          \/ Step(w) \/ Crash(w)
    \/ \E id \in Ids : Passing(id)
    \/ Sweep

Spec == Init /\ [][Next]_vars

-----------------------------------------------------------------------------
(* Properties *)

TypeOK ==
    /\ StoreTypeOK
    /\ \A r \in Runs : ctl[r].status \in {"absent", "pending", "suspended", "completed", "failed"}
    /\ \A r \in Runs : holder[r] \in Workers \union {None}
    /\ \A w \in Workers : job[w].run \in Runs \union {None}

Activated(id) == \E e \in audit : e.memory = id /\ e.new = "active"

\* The memories a run created: candidates are inserted under its review keys.
CandidatesOf(r) == {e.memory : e \in {x \in audit : x.key[1] = r /\ x.key[2] = "review"}}

\* Nothing becomes active but a candidate a human approved while it was the one
\* on display, and a run activates at most one of its candidates, whatever
\* edits, approvals and dead segments raced for it.
ActivatedWasApproved ==
    \A r \in Runs :
        /\ \A id \in CandidatesOf(r) : Activated(id) => <<r, id>> \in approvals
        /\ Cardinality({id \in CandidatesOf(r) : Activated(id)}) <= 1

\* A run that ends well leaves nothing behind: all its candidates are decided,
\* and the memory it reports is one of them, or the duplicate it found.
CompletedIsSettled ==
    \A r \in Runs : ctl[r].status = "completed" =>
        LET d == ctl[r].data
        IN  /\ \A id \in CandidatesOf(r) : records[id].status # "candidate"
            /\ d.review = NoReview => CandidatesOf(r) = {}
            /\ d.review # NoReview => d.committed = d.review.id /\ d.committed \in CandidatesOf(r)

\* The decision in the checkpoint is the one that was applied to the memory.
DecisionIsApplied ==
    \A r \in Runs : ctl[r].status = "completed" /\ ctl[r].data.review # NoReview =>
        (Activated(ctl[r].data.committed) <=> ctl[r].data.review.decision = "approve")

=============================================================================
