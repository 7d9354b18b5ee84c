---------------------------- MODULE DailyReview ----------------------------
(***************************************************************************)
(* The daily review workflow (internal/dailyreview) and its result cache.   *)
(* Concurrent requests for the review of one day take a snapshot of what    *)
(* the day's sources look like, share a cached report made from the same    *)
(* snapshot, or claim the making of it: load the pinned evidence, recall    *)
(* memories, have the model write, check that nothing changed meanwhile and *)
(* commit.  Messages, notes, memories and the clock go on all the while.    *)
(***************************************************************************)
EXTENDS Integers, Sequences, FiniteSets

CONSTANTS
    Calls,        \* requests, all of one owner, for one day and one set of options
    Memories,
    Expiry,       \* Expiry[m]: expires_at
    WindowEnd,    \* end of the day under review
    TTL, Lease, Wait,
    ChatLimit, NoteLimit,
    MaxClock, MaxChanges, MaxFaults \* bounds of time, source changes and faults

ASSUME ReviewAssumption ==
    /\ Expiry \in [Memories -> Nat]
    /\ {WindowEnd, ChatLimit, NoteLimit, MaxClock, MaxChanges, MaxFaults} \subseteq Nat
    /\ {TTL, Lease, Wait} \subseteq Nat \ {0}

VARIABLES
    clock,
    chat,         \* messages of the day
    notes,        \* changes made to the notes of the day
    memory,       \* memory[m]: "future", "active" or "gone"
    ver,          \* memory mutation version: every change counts, see MemoryStore
    log,          \* history: what the sources were after each change
    rows,         \* daily_review_cache rows of the owner and day, by source fingerprint
    at, call,     \* at[q]: what request q does next; call[q]: its DailyReviewState
    faults

sources == <<chat, notes, memory, ver, log>>
vars == <<clock, chat, notes, memory, ver, log, rows, at, call, faults>>

-----------------------------------------------------------------------------
NoSnap == [chat |-> 0, more |-> FALSE, notes |-> 0, ver |-> 0, first |-> "chat"]
NoReport == [src |-> NoSnap, cited |-> {}, by |-> <<>>, until |-> 0,
             made |-> 0] \* history: the clock when it was committed
NoRow == [status |-> "absent", token |-> <<>>, lease |-> 0, until |-> 0, report |-> NoReport]
NoCall == [now |-> 0, round |-> 1, from |-> 0, snap |-> NoSnap, owns |-> FALSE, mems |-> {},
           cited |-> {}, deadline |-> 0, since |-> 0, outcome |-> "none", report |-> NoReport]

Active == {m \in Memories : memory[m] = "active"}

\* SnapshotChat: the oldest messages up to the limit; a further one only shows
\* that there are more.
View(c, n, v) == [NoSnap EXCEPT !.chat = IF c > ChatLimit THEN ChatLimit ELSE c,
                                !.more = c > ChatLimit, !.notes = n, !.ver = v]

\* The coverage warnings enter the digest in the order the reads came back.
Orders(snap) == IF snap.more /\ snap.notes > NoteLimit THEN {"chat", "note"} ELSE {"chat"}

\* Snapshot: three concurrent reads, each at some time since they were started.
Joined(c, n, v) == [c EXCEPT !.notes = n.notes, !.ver = v.ver]
Digests(snap) == {[snap EXCEPT !.first = f] : f \in Orders(snap)}
Snapshots(q) ==
    LET seen == {log[i].src : i \in call[q].from .. Len(log)}
    IN  UNION {Digests(Joined(t[1], t[2], t[3])) : t \in seen \X seen \X seen}

NoActivity(snap) == snap.chat = 0 /\ snap.notes = 0

RowOf(snap) == IF snap \in DOMAIN rows THEN rows[snap] ELSE NoRow
PutRow(snap, row) ==
    rows' = [k \in DOMAIN rows \union {snap} |-> IF k = snap THEN row ELSE rows[k]]

\* Claim and Lookup compare with the time they are given, which is that of the
\* request except when a waiting request polls.
Valid(row, now) == row.status = "ready" /\ now < row.until
MayClaim(row, now) == ~Valid(row, now) /\ ~(row.status = "generating" /\ now < row.lease)
Token(q) == <<q, call[q].round>>

AnyClaim(row, q) == row.status # "absent" \* mutant: neither status nor token is compared
OwnsClaim(row, q) ==
    row.status = "generating" /\ row.token = Token(q) /\ call[q].now <= row.lease

\* ComputeValidUntil: the earliest of the TTL and the memories' expiry.
ComputeValidUntil(now, mems) ==
    CHOOSE t \in {now + TTL} \union {Expiry[m] : m \in mems} :
        \A u \in {now + TTL} \union {Expiry[m] : m \in mems} : t <= u

\* A fact that cites anything but what was recalled is dropped.
ValidateEvidence(cited, mems) == cited \intersect mems

Blindly(q, latest) == TRUE \* mutant: the second snapshot is not compared
Unchanged(q, latest) == latest = call[q].snap

-----------------------------------------------------------------------------
Init ==
    /\ clock = 0
    /\ chat \in 0 .. 1 /\ notes = chat \* an empty day, or one with a message and a note
    /\ memory = [m \in Memories |-> "active"] /\ ver = 1
    /\ log = <<[src |-> View(chat, notes, ver), active |-> Memories]>>
    /\ rows = [k \in {} |-> NoRow]
    /\ at = [q \in Calls |-> "idle"] /\ call = [q \in Calls |-> NoCall]
    /\ faults = 0

-----------------------------------------------------------------------------
(* The sources and the clock *)

Record == log' = Append(log, [src |-> View(chat', notes', ver'),
                              active |-> {m \in Memories : memory'[m] = "active"}])

\* Bound: what happens after the last request has ended is not looked at.
Running == \E q \in Calls : at[q] # "done"
Changing == Running /\ Len(log) <= MaxChanges /\ UNCHANGED <<clock, rows, at, call, faults>>

NewMessage ==
    /\ clock < WindowEnd
    /\ chat' = chat + 1 /\ UNCHANGED <<notes, memory, ver>>
    /\ Record /\ Changing

ChangeNote ==
    /\ notes' = notes + 1 /\ UNCHANGED <<chat, memory, ver>>
    /\ Record /\ Changing

ChangeMemory(m) ==
    /\ memory[m] # "gone"
    /\ memory' = [memory EXCEPT ![m] = IF @ = "future" THEN "active" ELSE "gone"]
    /\ ver' = ver + 1 /\ UNCHANGED <<chat, notes>>
    /\ Record /\ Changing

Tick ==
    /\ Running /\ clock < MaxClock
    /\ clock' = clock + 1 /\ UNCHANGED <<sources, rows, at, call, faults>>

-----------------------------------------------------------------------------
(* A request *)

Quiet == UNCHANGED <<clock, sources, faults>>
GoTo(q, s, c) == at' = [at EXCEPT ![q] = s] /\ call' = [call EXCEPT ![q] = c]
End(q, outcome) == GoTo(q, "done", [NoCall EXCEPT !.outcome = outcome, !.since = call[q].since])
Serve(q, report) == GoTo(q, "done", [NoCall EXCEPT !.now = call[q].now, !.since = call[q].since,
                                                   !.outcome = "served", !.report = report])

FailClaim(q) ==
    LET row == RowOf(call[q].snap)
    IN  IF row.status = "generating" /\ row.token = Token(q)
        THEN PutRow(call[q].snap, [NoRow EXCEPT !.status = "failed"])
        ELSE UNCHANGED rows

\* Run: the time of the request is taken once, for both rounds.
Ask(q) ==
    /\ at[q] = "idle"
    /\ GoTo(q, "snapshot", [NoCall EXCEPT !.now = clock, !.from = Len(log), !.since = Len(log)])
    /\ UNCHANGED rows /\ Quiet

\* errSourceChanged: the claim is failed, and the review is rebuilt once.
Rebuild(q) ==
    /\ FailClaim(q)
    /\ IF call[q].round = 1
       THEN GoTo(q, "snapshot", [call[q] EXCEPT !.round = 2, !.from = Len(log), !.owns = FALSE,
                                               !.mems = {}, !.cited = {}])
       ELSE End(q, "changing")

\* A request that finds somebody else at work waits; it never takes over.
LookupOrClaim(q) ==
    /\ at[q] = "snapshot"
    /\ \E snap \in Snapshots(q) :
          LET c == [call[q] EXCEPT !.snap = snap]
              row == RowOf(snap)
          IN  IF Valid(row, c.now) THEN Serve(q, row.report) /\ UNCHANGED rows
              ELSE IF MayClaim(row, c.now)
              THEN /\ PutRow(snap, [NoRow EXCEPT !.status = "generating", !.token = Token(q),
                                                 !.lease = c.now + Lease])
                   /\ IF NoActivity(snap)
                      THEN GoTo(q, "recheck", [c EXCEPT !.owns = TRUE, !.from = Len(log)])
                      ELSE GoTo(q, "load", [c EXCEPT !.owns = TRUE])
              ELSE GoTo(q, "wait", [c EXCEPT !.deadline = clock + Wait]) /\ UNCHANGED rows
    /\ Quiet

Poll(q) ==
    LET row == RowOf(call[q].snap)
    IN  /\ at[q] = "wait" /\ clock < call[q].deadline /\ Valid(row, clock)
        /\ Serve(q, row.report)
        /\ UNCHANGED rows /\ Quiet

GiveUp(q) ==
    /\ at[q] = "wait" /\ clock >= call[q].deadline
    /\ End(q, "failed") /\ UNCHANGED rows /\ Quiet

\* LoadNotesPinned: a row is not the version that was pinned.
MayBeStale(snap) == notes # snap.notes

\* LoadPinned: messages never change; a note that did ends the request, there
\* is no rebuild.  A change may also be of a note that is not pinned.
LoadPinned(q) ==
    /\ at[q] = "load"
    /\ \/ GoTo(q, "recall", call[q]) /\ UNCHANGED rows
       \/ MayBeStale(call[q].snap) /\ FailClaim(q) /\ End(q, "failed")
    /\ Quiet

\* Memories are looked up as of the end of the day; the model may cite any.
RecallAndGenerate(q) ==
    /\ at[q] = "recall"
    /\ LET mems == {m \in Active : Expiry[m] > WindowEnd}
       IN  \E cited \in SUBSET Memories :
              GoTo(q, "pinned", [call[q] EXCEPT !.mems = mems,
                                               !.cited = ValidateEvidence(cited, mems)])
    /\ UNCHANGED rows /\ Quiet

\* ValidatePinned looks them up again, as of the request.
ValidatePinned(q) ==
    /\ at[q] = "pinned"
    /\ IF \A m \in call[q].mems : m \in Active /\ Expiry[m] > call[q].now
       THEN GoTo(q, "recheck", [call[q] EXCEPT !.from = Len(log)]) /\ UNCHANGED rows
       ELSE Rebuild(q)
    /\ Quiet

\* The second snapshot.
SourceChanged(q) ==
    /\ at[q] = "recheck"
    /\ \E latest \in Snapshots(q) : ~Unchanged(q, latest)
    /\ Rebuild(q) /\ Quiet

CommitReady(q) ==
    LET c == call[q]
        until == ComputeValidUntil(c.now, c.mems)
        report == [src |-> c.snap, cited |-> c.cited, by |-> Token(q), until |-> until,
                   made |-> clock]
    IN  /\ at[q] = "recheck"
        /\ \E latest \in Snapshots(q) : Unchanged(q, latest)
        /\ IF OwnsClaim(RowOf(c.snap), q)
           THEN /\ PutRow(c.snap, [NoRow EXCEPT !.status = "ready", !.until = until,
                                                !.report = report])
                /\ Serve(q, report)
           ELSE End(q, "failed") /\ UNCHANGED rows
        /\ Quiet

-----------------------------------------------------------------------------
(* Faults: a read, the model or a budget fails in a node *)

Faulty(q) ==
    /\ at[q] \notin {"idle", "done"} /\ faults < MaxFaults
    /\ faults' = faults + 1
    /\ End(q, "failed")
    /\ UNCHANGED <<clock, sources>>

\* releaseFailedClaim
Fail(q) == Faulty(q) /\ IF call[q].owns THEN FailClaim(q) ELSE UNCHANGED rows
\* The release fails too, the deadline is noticed on the way out of the node
\* that claimed, or the process dies: the claim stays until its lease ends.
Abandon(q) == Faulty(q) /\ UNCHANGED rows

Step(q) ==
    \/ Ask(q) \/ LookupOrClaim(q) \/ Poll(q) \/ GiveUp(q)
    \/ LoadPinned(q) \/ RecallAndGenerate(q) \/ ValidatePinned(q)
    \/ SourceChanged(q) \/ CommitReady(q)
    \/ Fail(q) \/ Abandon(q)

Next ==
    \/ \E q \in Calls : Step(q)
    \/ NewMessage \/ ChangeNote \/ \E m \in Memories : ChangeMemory(m)
    \/ Tick

Spec == Init /\ [][Next]_vars

-----------------------------------------------------------------------------
(* Properties *)

Served == {q \in Calls : call[q].outcome = "served"}

\* Whoever made it, a report that is served was made of messages, notes and
\* memories that were all current at one instant after it was asked for, though
\* the three are read apart and a cached report was made for somebody else,
\* and no memory it rests on had expired when it was asked for.
ServedIsCurrent ==
    \A q \in Served :
        /\ \E i \in call[q].since .. Len(log) :
               /\ log[i].src = [call[q].report.src EXCEPT !.first = NoSnap.first]
               /\ call[q].report.cited \subseteq log[i].active
        /\ \A m \in call[q].report.cited : Expiry[m] > call[q].now

\* Two different reports on the same sources are never both valid: when the
\* later is committed the earlier has expired, even when a generator overran its
\* lease, lost its claim and finished all the same.  It need not have expired
\* when the later was asked for: a claim that fails leaves no trace of the report
\* it replaced, and the next request may have been asked for long before.
OneResultAtATime ==
    \A p, q \in Served :
        LET r == call[p].report
            s == call[q].report
        IN  r.src = s.src /\ r.by # s.by => r.until <= s.made \/ s.until <= r.made

\* A request is told that its sources keep changing only if one did change.
ChangingMeansChanged ==
    \A q \in Calls : call[q].outcome = "changing" => call[q].since < Len(log)
=============================================================================
