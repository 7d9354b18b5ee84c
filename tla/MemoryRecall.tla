---------------------------- MODULE MemoryRecall ----------------------------
(***************************************************************************)
(* The reading side of memory: RecallService (internal/memory/recall.go)    *)
(* answers from pinned references, exact selectors and pages of semantic    *)
(* hits, each checked against MySQL when it is read, while the owner's      *)
(* memories change; Projector batches move the outbox to the RAG index.     *)
(***************************************************************************)
EXTENDS MemoryStore

CONSTANTS
    Readers, Projectors,
    Additions,     \* what the owner may add
    Plans,         \* exact selectors of a request, in order: slots and texts
    Target,        \* how many memories a request wants
    PageSize, MaxBatches, MaxScanned, MaxExact, \* RecallConfig
    BatchSize, MaxAttempts,                     \* ProjectorConfig
    MaxMemories, MaxRequests, MaxLosses         \* bounds

ASSUME RecallAssumption ==
    /\ Additions \subseteq Draft /\ Plans \subseteq Seq(Slots \union Texts)
    /\ Target \in Nat \ {0} /\ PageSize \in Nat \ {0} /\ MaxBatches \in Nat \ {0}
    /\ MaxScanned \in Nat \ {0} /\ MaxExact \in Nat \ {0}
    /\ BatchSize \in Nat \ {0} /\ MaxAttempts \in Nat \ {0}
    /\ MaxMemories \in Nat /\ MaxRequests \in Nat /\ MaxLosses \in Nat

VARIABLES
    index,         \* memory ids the RAG index holds
    proj,          \* proj[p]: rows of the batch p works on, and where it stands
    stage, call,   \* stage[q], call[q]: where reader q stands, and its request
    steady, seen,  \* history: memories active during the whole call; at some time in it
    requests, losses

recallVars == <<records, audit, outbox, version, index, proj, stage, call, steady, seen,
                requests, losses>>

Range1(s) == {s[i] : i \in 1 .. Len(s)}
Priority(source) == CASE source = "pinned" -> 4 [] source = "slot" -> 2
                      [] source = "content_hash" -> 1 [] source = "semantic" -> 0

NoCall == [pinned |-> {}, asked |-> <<>>, plan |-> <<>>, lapsed |-> {}, found |-> {},
           batch |-> 0, scanned |-> 0, looked |-> {}, more |-> FALSE, stopped |-> FALSE,
           items |-> {}, dropped |-> FALSE, full |-> FALSE]
NoBatch == [rows |-> <<>>, step |-> "claim"]

RecallInit ==
    /\ InitStore
    /\ index = {}
    /\ proj = [p \in Projectors |-> NoBatch]
    /\ stage = [q \in Readers |-> "idle"] /\ call = [q \in Readers |-> NoCall]
    /\ steady = [q \in Readers |-> {}] /\ seen = [q \in Readers |-> {}]
    /\ requests = 0 /\ losses = 0

-----------------------------------------------------------------------------
(* The owner's memories change: candidates are added and decided.           *)

OpKey(id) == <<"op", id, IF id \in Ids THEN records[id].rver ELSE 0>>
Active == {id \in Ids : records[id].status = "active"}

Calling(q) == stage[q] \notin {"idle", "answered"}
Observe ==
    /\ steady' = [q \in Readers |-> IF Calling(q) THEN steady[q] \intersect Active' ELSE steady[q]]
    /\ seen' = [q \in Readers |-> IF Calling(q) THEN seen[q] \union Active' ELSE seen[q]]
    /\ UNCHANGED <<index, proj, stage, call, requests, losses>>

Add(d) ==
    /\ Len(records) < MaxMemories
    /\ CommitMutation(NewRecord(d, NextId), {}, OpKey(NextId))
    /\ Observe

AddVersion(d, t) ==
    /\ Len(records) < MaxMemories /\ t \in Active
    /\ CommitMutation([NewRecord(d, NextId) EXCEPT !.lineage = records[t].lineage,
                          !.lver = records[t].lver + 1, !.supersedes = t], {}, OpKey(NextId))
    /\ Observe

Decide(id) ==
    /\ \/ records[id].supersedes = 0 /\ \E to \in {"active", "rejected"} :
             TransitionMemory(id, records[id].rver, to, OpKey(id))
       \/ LET t == records[id].supersedes
          IN  t # 0 /\ ActivateCandidateSuperseding(id, records[id].rver, t, records[t].rver, OpKey(id))
    /\ Observe

\* The end of a memory's time is computed when it is read: no program code calls
\* the store's Expire, which would write it down (MemoryCapture has it).
TimePasses(id) == Elapse(id) /\ Observe

-----------------------------------------------------------------------------
(* Projector.RunBatch *)

Outbox(p, b) ==
    /\ proj' = [proj EXCEPT ![p] = b]
    /\ UNCHANGED <<records, audit, version, stage, call, steady, seen, requests>>

Claimable(id) == outbox[id].status \in {"pending", "failed"}

\* ClaimProjections takes up to BatchSize rows in the order they were written in,
\* which is not that of the memories, and leaves no lease or token on them.
\* Backoffs (available_at) are over at any time.
Claim(p) ==
    LET free == {id \in Ids : Claimable(id)}
    IN  /\ proj[p].step = "claim" /\ free # {}
        /\ \E n \in 1 .. BatchSize : \E rows \in [1 .. n -> free] :
              /\ \A i, k \in 1 .. n : rows[i] = rows[k] => i = k
              /\ outbox' = [id \in Ids |-> IF id \in Range1(rows)
                              THEN [status |-> "processing", attempt |-> outbox[id].attempt + 1]
                              ELSE outbox[id]]
              /\ Outbox(p, [rows |-> rows, step |-> "load"])
        /\ UNCHANGED <<index, losses>>

Row1(p) == Head(proj[p].rows)
NextRow(p) == LET rest == Tail(proj[p].rows)
              IN  IF rest = <<>> THEN NoBatch ELSE [rows |-> rest, step |-> "load"]
\* CompleteProjection, FailProjection: only from processing, else not found,
\* which ends the batch and leaves its later rows as they are.
Settle(p, s) ==
    IF outbox[Row1(p)].status = "processing"
    THEN /\ outbox' = [outbox EXCEPT ![Row1(p)].status = s]
         /\ Outbox(p, NextRow(p))
    ELSE UNCHANGED outbox /\ Outbox(p, NoBatch)

Failed(p, temporary) ==
    IF outbox[Row1(p)].attempt >= MaxAttempts \/ ~temporary THEN "permanent_failed" ELSE "failed"

SkipRetried(id) == outbox[id].attempt > 1 \* mutant: a second attempt is taken for done
NotProjectable(id) == ~IsActiveAt(id)

\* The row's memory is reloaded; one that is not active any more is done.
Load(p) ==
    /\ proj[p].step = "load"
    /\ \/ Settle(p, Failed(p, TRUE)) \* the reload failed
       \/ /\ NotProjectable(Row1(p)) /\ Settle(p, "completed")
       \/ /\ ~NotProjectable(Row1(p))
          /\ UNCHANGED outbox /\ Outbox(p, [proj[p] EXCEPT !.step = "index"])
    /\ UNCHANGED <<index, losses>>

\* RAG stores the vector, or not; its answer may be lost, which is temporary.
IndexMemory(p) ==
    /\ proj[p].step = "index"
    /\ \E stored \in BOOLEAN, reply \in {"ok", "temporary", "permanent"} :
          /\ reply = "ok" => stored
          /\ index' = IF stored THEN index \union {Row1(p)} ELSE index
          /\ Settle(p, IF reply = "ok" THEN "completed" ELSE Failed(p, reply = "temporary"))
    /\ UNCHANGED losses

\* The process dies or a store call fails: the batch is given up.
Abandon(p) ==
    /\ proj[p].step # "claim" /\ losses < MaxLosses
    /\ losses' = losses + 1
    /\ index' \in IF proj[p].step = "index" THEN {index, index \union {Row1(p)}} ELSE {index}
    /\ Outbox(p, NoBatch)
    /\ UNCHANGED outbox

-----------------------------------------------------------------------------
(* RecallService.Recall *)

Reader(q, s, c) ==
    /\ stage' = [stage EXCEPT ![q] = s] /\ call' = [call EXCEPT ![q] = c]
    /\ UNCHANGED <<records, audit, outbox, version, index, proj, steady, seen, losses>>

\* `now' is that of the request: what elapses later is not noticed.
Visible(c, id) == id \in Active /\ id \notin c.lapsed

\* mutant: the candidates of one selector replace those found before
ForgetsFound(found, ids, source) == {[id |-> id, source |-> source] : id \in ids}

\* addRecallCandidate: one item per memory, under its strongest source.
WithItems(found, ids, source) ==
    {f \in found : f.id \notin ids \/ Priority(f.source) >= Priority(source)} \union
    {[id |-> id, source |-> source] : id \in
        {i \in ids : \A f \in found : f.id = i => Priority(f.source) < Priority(source)}}

AfterPlan(rest) == IF rest = <<>> THEN "search" ELSE "exact"

StillPinned(c, ref) == Ref(ref.id) = ref /\ Visible(c, ref.id)

\* The request is taken and its pinned references are loaded (loadPinned).
Recall(q, pinned, plan) ==
    LET c == [NoCall EXCEPT !.pinned = pinned, !.asked = plan, !.plan = plan,
                 !.lapsed = {id \in Ids : records[id].elapsed}]
        ids == {ref.id : ref \in {r \in pinned : StillPinned(c, r)}}
    IN  /\ stage[q] = "idle" /\ requests < MaxRequests
        /\ stage' = [stage EXCEPT ![q] = AfterPlan(plan)]
        /\ call' = [call EXCEPT ![q] = [c EXCEPT !.found = WithItems({}, ids, "pinned")]]
        /\ steady' = [steady EXCEPT ![q] = Active] /\ seen' = [seen EXCEPT ![q] = Active]
        /\ requests' = requests + 1
        /\ UNCHANGED <<records, audit, outbox, version, index, proj, losses>>

\* A plan without confidence or selectors, or about several entities, is not
\* executed: nothing is read, and the answer asks for clarification.
Clarify(q) ==
    /\ stage[q] = "idle" /\ requests < MaxRequests
    /\ Reader(q, "answered", [NoCall EXCEPT !.dropped = TRUE])
    /\ requests' = requests + 1

\* One FindExact per selector of the plan, newest MaxExact rows; no further
\* selector once MaxExact candidates are found.
Matches(c, sel) == {id \in Ids : Visible(c, id) /\ (records[id].slot = sel \/ records[id].text = sel)}
Newest(ids) == {id \in ids : Cardinality({k \in ids : k > id}) < MaxExact}
LoadExact(q) ==
    LET c == call[q]
        sel == Head(c.plan)
        hits == Newest(Matches(c, sel))
        found == WithItems(c.found, hits, IF sel \in Slots THEN "slot" ELSE "content_hash")
        rest == IF Cardinality(found) >= MaxExact THEN <<>> ELSE Tail(c.plan)
    IN  /\ stage[q] = "exact"
        /\ Reader(q, AfterPlan(rest), [c EXCEPT !.found = found, !.plan = rest,
              !.full = @ \/ hits # Matches(c, sel) \/ rest # Tail(c.plan)])
        /\ UNCHANGED requests

Wanting(c) ==
    /\ ~c.stopped /\ c.batch < MaxBatches /\ Cardinality(c.found) < Target /\ c.scanned < MaxScanned
    /\ c.batch = 0 \/ c.more

ShownAnyway(c, id) == TRUE \* mutant: semantic hits are not checked against MySQL
StillActive(c, id) == Visible(c, id)

\* One page of the RAG index, whose hits of earlier pages are skipped, and the
\* hits' memories read from MySQL: gone and obsolete ones drop out.  The index
\* only grows, so that the page is as if it was asked for just before the read.
Search(q) ==
    LET c == call[q]
        limit == IF PageSize > MaxScanned - c.scanned THEN MaxScanned - c.scanned ELSE PageSize
    IN  /\ stage[q] = "search" /\ Wanting(c)
        /\ \/ \E hits \in SUBSET index, more \in BOOLEAN :
                 /\ Cardinality(hits) <= limit
                 /\ Reader(q, "search", [c EXCEPT !.more = more,
                       !.looked = @ \union hits, !.batch = @ + 1, !.scanned = @ + Cardinality(hits),
                       !.found = WithItems(@, {id \in hits \ c.looked : StillActive(c, id)},
                                           "semantic")])
           \/ Reader(q, "search", [c EXCEPT !.stopped = TRUE]) \* no time left, or RAG or MySQL is down
        /\ UNCHANGED requests

\* Ranking and the cut at Target; then any item may be too long for the rest
\* of the character budget, and shorter ones after it are still taken.
Cut(found, top) ==
    /\ top \subseteq found
    /\ Cardinality(top) = IF Cardinality(found) > Target THEN Target ELSE Cardinality(found)
    /\ \A f \in top, g \in found \ top : Priority(f.source) >= Priority(g.source)

Rank(q) ==
    LET c == call[q]
    IN  /\ stage[q] = "search" /\ ~Wanting(c)
        /\ \E kept \in SUBSET c.found :
              /\ \E top \in SUBSET c.found : Cut(c.found, top) /\ kept \subseteq top
              /\ Reader(q, "answered", [NoCall EXCEPT !.pinned = c.pinned, !.asked = c.asked,
                    !.lapsed = c.lapsed, !.items = {f.id : f \in kept},
                    !.dropped = kept # c.found, !.full = c.full])
        /\ UNCHANGED requests

Return(q) ==
    /\ stage[q] = "answered"
    /\ stage' = [stage EXCEPT ![q] = "idle"] /\ call' = [call EXCEPT ![q] = NoCall]
    /\ steady' = [steady EXCEPT ![q] = {}] /\ seen' = [seen EXCEPT ![q] = {}]
    /\ UNCHANGED <<records, audit, outbox, version, index, proj, losses, requests>>

-----------------------------------------------------------------------------
RecallNext ==
    \/ \E d \in Additions : Add(d) \/ \E t \in Ids : AddVersion(d, t)
    \/ \E id \in Ids : Decide(id) \/ TimePasses(id)
    \/ \E p \in Projectors : Claim(p) \/ Load(p) \/ IndexMemory(p) \/ Abandon(p)
    \/ \E q \in Readers :
          \/ \E pinned \in {{Ref(id)} : id \in Ids} \union {{}}, plan \in Plans : Recall(q, pinned, plan)
          \/ Clarify(q) \/ LoadExact(q) \/ Search(q) \/ Rank(q) \/ Return(q)

RecallSpec == RecallInit /\ [][RecallNext]_recallVars

-----------------------------------------------------------------------------
(* Properties *)

\* Whatever the index still holds and however long the call takes, an answer
\* contains only memories that were active at some time during the call, and
\* none whose expiry had passed when it began.
RecalledWasActive ==
    \A q \in Readers : stage[q] = "answered" =>
        \A id \in call[q].items : id \in seen[q] /\ id \notin call[q].lapsed

\* An answer that does not report a cut holds every memory that stayed active
\* throughout the call and is pinned by it, or matches one of its selectors
\* (unless a selector matched more rows than MaxExact, which is not reported).
ExactIsComplete ==
    \A q \in Readers : stage[q] = "answered" /\ ~call[q].dropped =>
        \A id \in steady[q] \ call[q].lapsed :
            \/ id \in call[q].items
            \/ /\ Ref(id) \notin call[q].pinned
               /\ \/ call[q].full
                  \/ \A i \in 1 .. Len(call[q].asked) : id \notin Matches(call[q], call[q].asked[i])

\* A projection row that says completed speaks the truth about a memory that is
\* still active: retries, lost answers and memories that were obsolete when the
\* batch reached them never leave one out of the index.
CompletedMeansIndexed ==
    \A id \in Ids : outbox[id].status = "completed" /\ IsActiveAt(id) => id \in index
=============================================================================
