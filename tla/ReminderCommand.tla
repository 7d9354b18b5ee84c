-------------------------- MODULE ReminderCommand --------------------------
(***************************************************************************)
(* The reminder command workflow (internal/reminderworkflow): a model plans *)
(* a create, update or cancel, the plan's memories and target are resolved, *)
(* a human reviews the candidate, the commit node changes the reminder.     *)
(* The wait that is resumed is the one the human looked at; meanwhile time  *)
(* passes, reminders fire, memories are revoked, workers die and a lapsed   *)
(* lease lets a second segment of the run in.  As in MemoryCapture a        *)
(* segment reads the checkpoint, works in memory and saves.                 *)
(***************************************************************************)
EXTENDS Integers, Sequences, FiniteSets

CONSTANTS
    Runs, Workers, Memories,
    Existing,     \* Existing[id]: content, when, refs of the reminders there already
    Texts,        \* what a reminder may say
    Plans,        \* command plans the model may return
    None,
    MaxClock,     \* bound: instants
    MaxCalls,     \* bound: Start and Resume calls
    MaxVersion    \* bound: row versions that others bring about

Ids == DOMAIN Existing \union Runs \* a created reminder's id is derived from its run
Instants == 0..MaxClock
Statuses == {"scheduled", "processing", "cancelled"}
Selector == [label : Texts \union {""}, statuses : SUBSET Statuses]

\* CommandPlan.Normalize: which fields go with which action; a query is refused.
WellFormed(p) ==
    /\ p.content \in Texts /\ p.selects \subseteq Memories /\ p.unclear \in BOOLEAN
    /\ \/ p.action = "create" /\ p.when \in Instants /\ p.selector = None
       \/ p.action = "update" /\ p.when \in Instants /\ p.selector \in Selector
       \/ p.action = "cancel" /\ p.when = None /\ p.selector \in Selector /\ p.selects = {}

ASSUME CommandAssumption ==
    /\ {MaxClock, MaxCalls, MaxVersion} \subseteq Nat
    /\ DOMAIN Existing \cap Runs = {} /\ None \notin Ids \union Plans \union Workers
    /\ \A p \in Plans : WellFormed(p)
    /\ \A id \in DOMAIN Existing : /\ Existing[id].content \in Texts
                                   /\ Existing[id].when \in Instants
                                   /\ Existing[id].refs \subseteq Memories

VARIABLES
    now,
    reminders,    \* rows of reminders
    events,       \* rows of reminder_events; a run's own key is unique among them
    active,       \* memories that are active
    ctl,          \* ctl[r]: the committed checkpoint of the run
    holder,       \* holder[r]: the worker that claimed the run last
    waits,        \* waits[r]: every candidate the run has put on display
    at, job,      \* at[w], job[w]: what w does next, of which segment
    calls,
    approvals     \* history: run and displayed candidate of every approval

store == <<reminders, events>>
world == <<now, active>>
vars == <<now, reminders, events, active, ctl, holder, waits, at, job, calls, approvals>>

-----------------------------------------------------------------------------
NoRef == [id |-> None, rver |-> 0]
NoCandidate == [plan |-> None, target |-> NoRef, refs |-> {}, unclear |-> FALSE]
NoData == [trusted |-> NoRef, received |-> 0, cand |-> NoCandidate, version |-> 0,
           decision |-> "none", committed |-> None]
NoJob == [run |-> None, action |-> "none", base |-> 0, data |-> NoData, entered |-> 0,
          exit |-> "none"]
Absent == [status |-> "absent", rver |-> 0, claim |-> 0, content |-> None, when |-> 0,
           refs |-> {}]

Scheduled(content, when, refs) ==
    [status |-> "scheduled", rver |-> 1, claim |-> 0, content |-> content, when |-> when,
     refs |-> refs]

\* InputHash of the commit: what is written, not to which reminder; a cancel's
\* names the reminder.
InputHash(c) ==
    IF c.plan.action = "cancel" THEN <<"cancel", c.target.id>>
    ELSE <<"content", c.plan.content, c.plan.when, c.refs>>

Ref(id) == [id |-> id, rver |-> reminders[id].rver]

\* Repository.List of the owner's reminders: label and, when given, statuses.
List(s) == {id \in Ids : /\ reminders[id].status # "absent"
                         /\ s.label = "" \/ reminders[id].content = s.label
                         /\ s.statuses = {} \/ reminders[id].status \in s.statuses}

-----------------------------------------------------------------------------
Init ==
    /\ now = 0
    /\ reminders = [id \in Ids |-> IF id \in Runs THEN Absent
          ELSE Scheduled(Existing[id].content, Existing[id].when, Existing[id].refs)]
    /\ events = {} /\ active = Memories
    /\ ctl = [r \in Runs |-> [status |-> "absent", attempt |-> 0, data |-> NoData]]
    /\ holder = [r \in Runs |-> None]
    /\ waits = [r \in Runs |-> <<>>]
    /\ at = [w \in Workers |-> "idle"]
    /\ job = [w \in Workers |-> NoJob]
    /\ calls = 0 /\ approvals = {}

GoTo(w, s, j) == at' = [at EXCEPT ![w] = s] /\ job' = [job EXCEPT ![w] = j]
\* A node failed: the segment ends with the data the node was entered with; an
\* edit is all inside ReviewNode.
Failed(j) == [j EXCEPT !.exit = "failed",
                       !.data = IF j.action = "edit" THEN ctl[j.run].data ELSE @]
Refuse(w) == GoTo(w, "save", Failed(job[w]))
Quiet == UNCHANGED <<world, ctl, holder, waits, calls, approvals>>

Accept(w, r) ==
    /\ at[w] = "idle" /\ calls < MaxCalls
    /\ calls' = calls + 1
    /\ UNCHANGED <<world, store, waits>>

-----------------------------------------------------------------------------
(* ParseNode and ResolveNode.  The plan's time must lie after the instant   *)
(* the request was received, which a repeated Start does not renew.         *)

\* ResolveTrigger: the time lies after the anchor.
Future(p, anchor) == p.action # "cancel" => p.when > anchor

\* Adapter.Plan: what the model may come to, repairs included; it may fail, too.
Proposed(anchor) == {p \in Plans : Future(p, anchor)}

AfterParse(p) == IF p.selects = {} /\ p.action # "create" THEN "conflict" ELSE "recall"

Plan(w, j) ==
    \/ \E p \in Proposed(j.data.received) :
          GoTo(w, AfterParse(p),
               [j EXCEPT !.data.cand = [NoCandidate EXCEPT !.plan = p, !.unclear = p.unclear]])
    \/ GoTo(w, "save", [j EXCEPT !.exit = "failed"])

\* Start: the same request again finds its run, and starts it again only while
\* it is pending.
Start(w, r, trusted) ==
    LET found == ctl[r].status = "pending"
        d == IF found THEN ctl[r].data
             ELSE [NoData EXCEPT !.trusted = trusted, !.received = now]
    IN  /\ ctl[r].status \in {"absent", "pending"}
        /\ found => trusted = ctl[r].data.trusted
        /\ Accept(w, r)
        /\ holder' = [holder EXCEPT ![r] = w]
        /\ ctl' = [ctl EXCEPT ![r] = [@ EXCEPT !.status = "pending", !.data = d]]
        /\ Plan(w, [NoJob EXCEPT !.run = r, !.data = d])
        /\ UNCHANGED approvals

\* ReviewNode puts the candidate on display; an edit's is one version further on.
Display(w, j) == GoTo(w, "save", [j EXCEPT !.exit = "suspended", !.data.version = @ + 1])

\* ResolveMemoryAssociation: all of the selected memories or a clarification.
Recall(w) ==
    LET j == job[w]
        wanted == j.data.cand.plan.selects
        next == IF wanted \subseteq active THEN [j EXCEPT !.data.cand.refs = wanted]
                ELSE [j EXCEPT !.data.cand.unclear = TRUE]
    IN  /\ at[w] = "recall"
        /\ IF j.data.cand.plan.action = "create" THEN Display(w, next)
           ELSE GoTo(w, "conflict", next)
        /\ Quiet /\ UNCHANGED store

\* ConflictNode of an update or a cancel: the trusted target as it was given,
\* or the only reminder the selector finds.
Conflict(w) ==
    LET j == job[w]
        t == j.data.trusted
        found == List(j.data.cand.plan.selector)
    IN  /\ at[w] = "conflict"
        /\ \/ /\ t # NoRef /\ Ref(t.id) = t
              /\ Display(w, [j EXCEPT !.data.cand.target = t])
           \/ /\ t # NoRef /\ Ref(t.id) # t
              /\ Refuse(w)
           \/ /\ t = NoRef /\ Cardinality(found) # 1
              /\ Display(w, [j EXCEPT !.data.cand.unclear = TRUE])
           \/ /\ t = NoRef
              /\ \E id \in found :
                    /\ found = {id}
                    /\ Display(w, [j EXCEPT !.data.cand.target = Ref(id)])
        /\ Quiet /\ UNCHANGED store

-----------------------------------------------------------------------------
(* Resume *)

\* The content hash of a wait: plan, time, target, memories and clarification,
\* not the request or the trusted target they came from.
candidateHash(d) == d.cand

AnyWait(r, i) == TRUE \* mutant: version and content hash are not compared
\* The wait named by the call is the pending one, by version and content hash.
MatchesWait(r, i) ==
    i = ctl[r].data.version /\ waits[r][i] = candidateHash(ctl[r].data)

Allowed(c, a) == c.unclear => a # "approve"

\* A call that names another wait is refused.  The text of an edit travels in a
\* payload row of this call's own, which its own segment consumes.
Resume(w, r, a, i) ==
    LET c == ctl[r].data.cand
        j == [NoJob EXCEPT !.run = r, !.action = a, !.base = ctl[r].attempt,
                 !.data = ctl[r].data]
    IN  /\ ctl[r].status = "suspended" /\ MatchesWait(r, i) /\ Allowed(c, a)
        /\ Accept(w, r)
        /\ holder' = [holder EXCEPT ![r] = w]
        /\ approvals' = IF a = "approve"
                        THEN approvals \union {[run |-> r, cand |-> waits[r][i]]}
                        ELSE approvals
        /\ CASE a = "edit" -> GoTo(w, "load", j)
             [] a = "reject" ->
                  GoTo(w, "save", [j EXCEPT !.data.decision = "rejected", !.exit = "completed"])
             [] a = "approve" ->
                  GoTo(w, IF c.refs = {} THEN "commit" ELSE "pins",
                       [j EXCEPT !.data.decision = "approved", !.entered = now])
        /\ UNCHANGED ctl

\* The edited text is planned anew, with nothing of the data before it but the
\* trusted target and the wait version.
LoadEdit(w) ==
    LET j == job[w]
        fresh(p) == [NoData EXCEPT !.trusted = j.data.trusted, !.received = now,
                        !.version = j.data.version,
                        !.cand = [NoCandidate EXCEPT !.plan = p, !.unclear = p.unclear]]
    IN  /\ at[w] = "load"
        /\ \/ \E p \in Proposed(now) : GoTo(w, AfterParse(p), [j EXCEPT !.data = fresh(p)])
           \/ Refuse(w)
        /\ Quiet /\ UNCHANGED store

-----------------------------------------------------------------------------
(* CommitNode of an approved candidate.  It reads the time once, on entry.   *)

\* ValidatePinnedMemoryRefs, a read of its own.
ValidatePins(w) ==
    LET j == job[w]
    IN  /\ at[w] = "pins"
        /\ IF j.data.cand.refs \subseteq active THEN GoTo(w, "commit", j) ELSE Refuse(w)
        /\ Quiet /\ UNCHANGED store

AttemptKey(j) == <<j.run, "reminder-commit", j.base>> \* mutant: a key per attempt
CommitKey(j) == <<j.run, "reminder-commit", 1>>

\* loadReminderIdempotency
KeyUsed(k) == \E e \in events : e.key = k
AnyReplays(k, hash) == KeyUsed(k) \* mutant: the input hash is not compared
Replays(k, hash) == \E e \in events : e.key = k /\ e.hash = hash
ReplayedId(k) == (CHOOSE e \in events : e.key = k).id

Write(j, id, row) ==
    LET c == j.data.cand
    IN  /\ reminders' = [reminders EXCEPT ![id] = row]
        /\ events' = events \union
              {[key |-> CommitKey(j), run |-> j.run, id |-> id, from |-> reminders[id].rver,
                action |-> c.plan.action, hash |-> InputHash(c)]}

\* Create: the row is validated before the replay is looked for.
CanCreate(c, entered) == c.plan.when > entered
Create(j) ==
    LET c == j.data.cand
    IN  Write(j, j.run, Scheduled(c.plan.content, c.plan.when, c.refs))

\* Update and Cancel: the version the human saw, and not yet taken to be sent.
CanMutate(c, entered) ==
    /\ Ref(c.target.id) = c.target
    /\ reminders[c.target.id].status = "scheduled"
    /\ c.plan.action = "update" => c.plan.when > entered
Updated(old, content, when, refs) ==
    [old EXCEPT !.content = content, !.when = when, !.refs = refs, !.rver = @ + 1]
Mutate(j) ==
    LET c == j.data.cand
        old == reminders[c.target.id]
    IN  Write(j, c.target.id,
              IF c.plan.action = "cancel"
              THEN [old EXCEPT !.status = "cancelled", !.rver = @ + 1, !.claim = 0]
              ELSE Updated(old, c.plan.content, c.plan.when, c.refs))

Commit(w) ==
    LET j == job[w]
        c == j.data.cand
        k == CommitKey(j)
        creating == c.plan.action = "create"
        done(id) == GoTo(w, "save", [j EXCEPT !.data.committed = id, !.exit = "completed"])
        possible == IF creating THEN CanCreate(c, j.entered) ELSE CanMutate(c, j.entered)
        replayed == Replays(k, InputHash(c)) /\ (creating => CanCreate(c, j.entered))
    IN  /\ at[w] = "commit"
        /\ Quiet
        /\ \/ /\ ~KeyUsed(k) /\ possible
              /\ IF creating THEN Create(j) /\ done(j.run) ELSE Mutate(j) /\ done(c.target.id)
           \/ /\ replayed
              /\ done(ReplayedId(k))
              /\ UNCHANGED store
           \/ /\ IF KeyUsed(k) THEN ~replayed ELSE ~possible
              /\ Refuse(w)
              /\ UNCHANGED store

-----------------------------------------------------------------------------
(* The end of a segment *)

MaySave(w) ==
    LET j == job[w]
    IN  /\ holder[j.run] = w
        /\ ctl[j.run].attempt = j.base
        /\ ctl[j.run].status = IF j.action = "none" THEN "pending" ELSE "suspended"

Save(w) ==
    LET j == job[w]
        r == j.run
    IN  /\ at[w] = "save"
        /\ IF MaySave(w)
           THEN /\ ctl' = [ctl EXCEPT ![r] =
                     [status |-> j.exit, attempt |-> j.base + 1, data |-> j.data]]
                /\ holder' = [holder EXCEPT ![r] = None]
                /\ waits' = IF j.exit = "suspended"
                            THEN [waits EXCEPT ![r] = Append(@, candidateHash(j.data))] ELSE waits
           ELSE UNCHANGED <<ctl, holder, waits>>
        /\ GoTo(w, "idle", NoJob)
        /\ UNCHANGED <<world, store, calls, approvals>>

\* The process dies, or the segment ends without reaching the store again: the
\* store answers an error, or the checkpoint does not encode (secrets, size).
Crash(w) ==
    /\ at[w] # "idle"
    /\ GoTo(w, "idle", NoJob)
    /\ UNCHANGED <<world, store, ctl, holder, waits, calls, approvals>>

flow == <<ctl, holder, waits, at, job, calls, approvals>>

Tick == now < MaxClock /\ now' = now + 1 /\ UNCHANGED <<active, store, flow>>

\* The dispatcher, whose ticks ReminderDelivery has: ClaimDue leases a due reminder
\* (anew once the lease lapsed) and CommitOccurrence takes it while that version stands.
Due(id) == reminders[id].status = "scheduled" /\ reminders[id].when <= now

ClaimDue(id) ==
    /\ Due(id) /\ reminders[id].rver < MaxVersion
    /\ reminders' = [reminders EXCEPT ![id].rver = @ + 1, ![id].claim = reminders[id].rver + 1]
    /\ UNCHANGED <<world, events, flow>>

CommitOccurrence(id) ==
    /\ Due(id) /\ reminders[id].claim = reminders[id].rver
    /\ reminders' = [reminders EXCEPT ![id].status = "processing", ![id].rver = @ + 1,
                                      ![id].claim = 0]
    /\ UNCHANGED <<world, events, flow>>

\* A command outside Runs updates the reminder; its event has a key of its own.
UpdateElsewhere(id) ==
    /\ reminders[id].status = "scheduled" /\ reminders[id].rver < MaxVersion
    /\ \E p \in Plans :
          /\ p.action = "update" /\ p.when > now
          /\ reminders' = [reminders EXCEPT ![id] = Updated(@, p.content, p.when, p.selects)]
    /\ UNCHANGED <<world, events, flow>>

Revoke(m) == m \in active /\ active' = active \ {m} /\ UNCHANGED <<now, store, flow>>

Step(w) ==
    \/ Recall(w) \/ Conflict(w) \/ LoadEdit(w)
    \/ ValidatePins(w) \/ Commit(w) \/ Save(w)

Next ==
    \/ \E w \in Workers :
          \/ \E r \in Runs :
                \/ \E t \in {NoRef} \union {Ref(id) : id \in DOMAIN Existing} : Start(w, r, t)
                \/ \E a \in {"approve", "reject", "edit"}, i \in DOMAIN waits[r] :
                      Resume(w, r, a, i)
          \/ Step(w) \/ Crash(w)
    \/ Tick
    \/ \E id \in Ids : ClaimDue(id) \/ CommitOccurrence(id) \/ UpdateElsewhere(id)
    \/ \E m \in Memories : Revoke(m)

Spec == Init /\ [][Next]_vars

-----------------------------------------------------------------------------
(* Properties *)

Reference == {NoRef} \union [id : Ids, rver : Nat]
Candidate == [plan : Plans \union {None}, target : Reference, refs : SUBSET Memories,
              unclear : BOOLEAN]
Data == [trusted : Reference, received : Instants, cand : Candidate, version : Nat,
         decision : {"none", "approved", "rejected"}, committed : Ids \union {None}]
Job == [run : Runs \union {None}, action : {"none", "approve", "reject", "edit"}, base : Nat,
        data : Data, entered : Instants, exit : {"none", "suspended", "completed", "failed"}]
Steps == {"idle", "load", "recall", "conflict", "pins", "commit", "save"}
Checkpoint == [status : {"absent", "pending", "suspended", "completed", "failed"},
               attempt : Nat, data : Data]
Reminder == [status : Statuses \union {"absent"}, rver : Nat, claim : Nat,
             content : Texts \union {None}, when : Instants, refs : SUBSET Memories]

TypeOK ==
    /\ now \in Instants /\ active \subseteq Memories
    /\ reminders \in [Ids -> Reminder]
    /\ \A e \in events : e.run \in Runs /\ e.id \in Ids
    /\ ctl \in [Runs -> Checkpoint]
    /\ holder \in [Runs -> Workers \union {None}]
    /\ waits \in [Runs -> Seq(Candidate)]
    /\ at \in [Workers -> Steps]
    /\ job \in [Workers -> Job]
    /\ calls \in Nat

EventsOf(r) == {e \in events : e.run = r}

\* The approved candidate c is the change e records.
Describes(c, e) ==
    /\ c.plan.action = e.action /\ InputHash(c) = e.hash /\ ~c.unclear
    /\ e.action # "create" => c.target = [id |-> e.id, rver |-> e.from]

\* reminderworkflow.CommitNode: whatever raced, no reminder is changed but as a
\* human approved it on display: that action, text, time and memories, of that
\* reminder, at the row version that was displayed.
ChangesWereApproved ==
    \A r \in Runs : \A e \in EventsOf(r) :
        \E a \in approvals : a.run = r /\ Describes(a.cand, e)

\* The commit key: one command changes at most one reminder, once, however many
\* segments commit, die before saving, or are edited and approved again.
OneChangePerRun == \A r \in Runs : Cardinality(EventsOf(r)) <= 1

\* What an approved and completed run reports was done by this run: an event of the
\* run recorded that text, time and memories for the reminder it names, and a
\* reported cancel has cancelled the reminder it names.  The change is the one that
\* was displayed, unless another candidate of the run with the same input hash was
\* approved before it and committed: then the commit is answered with that one.
CompletedIsCommitted ==
    \A r \in Runs :
        LET d == ctl[r].data
        IN  ctl[r].status = "completed" /\ d.decision = "approved" =>
                \E e \in EventsOf(r) :
                    /\ e.id = d.committed /\ e.hash = InputHash(d.cand)
                    /\ d.cand.plan.action = "cancel" =>
                           e.action = "cancel" /\ e.id = d.cand.target.id
                    /\ \/ Describes(d.cand, e)
                       \/ \E a \in approvals :
                             a.run = r /\ a.cand # d.cand /\ Describes(a.cand, e)

\* That it was done to the reminder that was displayed does not hold: a create whose
\* checkpoint is lost, edited to an update with the same text, is such a case.
ReportedIsMade ==
    \A r \in Runs :
        LET d == ctl[r].data
        IN  ctl[r].status = "completed" /\ d.decision = "approved" =>
                \E e \in EventsOf(r) :
                    /\ e.action = d.cand.plan.action
                    /\ e.action # "create" => e.id = d.cand.target.id
=============================================================================
