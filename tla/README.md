# HarnessLoopAgent in TLA+

The repository is a Go server (`src/cmd/note-agent-server`) for a personal note
assistant: chat runs streamed to a browser, notes projected to a RAG service,
reminders, long-term memories, durable workflows with human review, and a daily
review. Several server processes may share one MySQL database. This directory
models the parts whose correctness depends on the order of things: which call
happens before which, which process dies where, which answer arrives late.

1. [The system](#the-system): components, state, operations, interaction
2. [Modules](#modules): how each module corresponds to the code
3. [Runs](#runs): what TLC checks, with which bounds
4. [Fairness](#fairness)
5. [Theorems](#theorems)
6. [What the models show about the code](#what-the-models-show-about-the-code)
7. [What is not modelled](#what-is-not-modelled)
8. [What is left](#what-is-left)

Paths below are relative to `src/internal/` unless they start with another
directory of `src/`.

## The system

| component | code | state | operations | hard behaviour |
|---|---|---|---|---|
| durable workflow runtime | `workflow`, `platform/mysqlstore/workflow_store.go` | `workflow_runs` (checkpoint, state version, claim token, lease), `workflow_waits`, `workflow_node_events`, and a copy of the run in each worker | `Start`, `Resume`, `Get`; claim, run nodes in memory, `CommitExecution`, `RenewClaim` | leases that lapse under a live worker, skewed clocks, crashes between claim and commit, a decision submitted twice |
| reminder delivery | `reminderdelivery`, `reminder`, `platform/mysqlstore/reminder_store.go` | `reminders`, `reminder_events`, `reminder_delivery_outbox`; a batch in each dispatcher and worker | `Create`, `Update`, `Cancel`, `ClaimDue`, `CommitOccurrence`, `ClaimDeliveries`, `CompleteDelivery`, `FailDelivery` | user commands racing dispatch, lapsed leases, redelivery, partial failure of a batch |
| chat runs | `chat/service.go`, `platform/mysqlstore/store.go`, `agent/eino/runner.go` | `agent_runs`, `agent_run_events`, `chat_messages`; one goroutine per run, one per model stream, a channel of one slot | `CreateRun`, `CancelRun`, `StartRun`, `AppendEvent`, `CompleteRun`, `FailRun`, `InterruptRunning` | cancel racing completion, two processes, a start-up that interrupts runs, a consumer that stops reading |
| event stream | `platform/httpserver/server.go`, `chat/notifier.go`, `web/src/ChatWorkspace.tsx` | a cursor per connection, wait sets per run, the browser's last event id | `ListEvents`, `Subscribe`, `Notify`, heartbeat, reconnect, status check | lost wake-ups, writers in another process, connections that break anywhere |
| notes and RAG projection | `note`, `platform/mysqlstore/auth_note_store.go`, `platform/httpserver/auth_note.go` | `agent_notes`, the outbox, RAG documents; a goroutine per request | `Create`, `Delete`, `ProjectPending`, `RefreshStatus` | two outbox events of one note in flight, lost answers, processing rows without lease |
| resilience and run budget | `resilience`, `agent/eino/resilient_model.go`, `runtime/runtime.go`, `ragclient/resilient.go` | bulkhead slots, breaker, counters of a run | `Generate`, `Stream`, `Retrieve` with retry | slots held by streams, a probe that never reports, retry after a budget |
| memory store | `memory`, `platform/mysqlstore/memory_store.go` | memory records with row versions, events (which are the idempotency table), projection outbox, mutation version | `CommitMutation`, `TransitionMemory`, `ActivateCandidateSuperseding`, `Expire`, `BatchGet`, `FindExact` | one active memory per slot, replay of a committed mutation |
| memory capture | `memoryworkflow` | a `CaptureData` in a workflow run, one-shot edit payloads | the nodes extract, lookup, conflict, review, commit; `Resume` with approve, reject, edit | a commit whose checkpoint is lost, overlapping segments of one run, an edit payload consumed by a segment that dies |
| memory recall and projection | `memory/recall.go`, `memory/projector.go` | nothing but the request; a batch in each projector; the RAG index | `Recall`; `ClaimProjections`, `Load`, index, `CompleteProjection`, `FailProjection` | memories that change between any two reads, an index that is behind |
| reminder command | `reminderworkflow`, `reminderllm` | a `CommandData` in a workflow run | parse, resolve, recall, conflict, review, commit; `Resume` | stale approvals, edits, a reminder that fires meanwhile, commits repeated after a crash |
| daily review | `dailyreview`, `platform/mysqlstore/daily_review_cache_store.go` | cache rows with status, claim token and lease | snapshot, `Lookup`, `Claim`, load, recall, write, recheck, `CommitReady`, `FailClaim`, one rebuild | single flight, a generator that overruns its lease, sources that change meanwhile |
| answer stream | `agent/eino/runner.go`, `routing/executor.go`, `skill/executor.go`, `chat/service.go` | two channels, three nested contexts, up to three goroutines per answer | produce, relay under a time or output bound, validate, record | one terminal event whatever the source does, a reader that leaves early |
| sessions | `auth` | `auth_sessions` with the tokens of RAG | `Login`, `Resolve`, `Refresh`, `Logout` | concurrent refresh of a rotating token |
| skills, routing, intents | `skill`, `routing`, `intentexecutor` | immutable registries | `Execute`, `Decide` | their streams are the answer stream's |
| the rest | `notedraft`, `knowledgebase`, `ragclient`, `mcpfacade`, `grounding`, `config`, `evals`, `tools`, `web`, `cmd` | little or none | | see [What is not modelled](#what-is-not-modelled) |

How they interact: a chat request creates a chat run; the runner's events travel
over channels to the chat service, which stores them; storing notifies the
streams. Handlers for memories and reminders start durable workflows, whose
commit nodes write the memory store and the reminder tables. Recall, the daily
review and the reminder workflow read the memory store. Reminder dispatchers and
workers, note and memory projectors and the interruption of left-over runs at
start-up work on the same tables from other goroutines or processes. Model and
RAG calls of all of them go through the resilience wrappers. There is no message
bus: everything but the in-process notifier and channels goes through MySQL rows,
so a repository call (one SQL transaction) is one step in every model.

At this commit `cmd/` wires `chat.Service` to the Eino runner directly: the
routing facade, `ConversationHandler` (`NewComplexHandler`) and the skill executor
are built and tested but not yet in the path of a request. `StreamProtocol` models
them as they are written, as further routes beside the plain conversation.

What makes each component correct:

- *workflow*: no two segments of a run are committed from the same checkpoint,
  a human decision is consumed once and only by the wait it was made for, a
  terminal run never changes, the event log is a legal history, budgets hold;
- *reminders*: one outbox row per occurrence, never early, a cancelled reminder
  is never sent, attempts bounded, a due reminder ends up sent or given up as long
  as the loops run;
- *chat*: one active run per session, the log ends with the event of the final
  status and has one terminal event, the stored answer is the text of the
  events, turns of a session do not interleave, a cancel reaches the model, a
  run ends;
- *stream*: events arrive in order and once, no stored event stays unnoticed, a
  client ends up showing the final status;
- *notes*: no document is forgotten, a status has grounds in what RAG did, a
  deletion is carried out when the user's requests go on;
- *resilience*: slots equal holders, a probe that is out reports, no retry beyond
  the budget or after a stream was handed out, an open breaker recovers;
- *memory*: one active value per slot, replacement recorded at both ends, nothing
  active that no human approved, a finished capture leaves no candidate open;
- *recall*: only what was active during the call, everything that matches
  exactly, and an outbox whose completed rows are true of the index;
- *reminder command*: one change per command, an approved one, and the report names
  the reminder it changed;
- *daily review*: a report served was current at one instant and is the only
  valid one for its sources;
- *answer stream*: one terminal event and nothing after it, no unvalidated text
  where the runner was told to hold it back, no goroutine left behind.

## Modules

| module | what it is |
|---|---|
| `WorkflowRun` | abstract: what a durable workflow promises its callers |
| `DurableWorkflow` | `DurableRuntime` + `Runner` + MySQL `WorkflowStore`; implements `WorkflowRun` |
| `ReminderLifecycle` | abstract: what reminder delivery promises the owner |
| `ReminderDelivery` | dispatchers, workers, users and the reminder tables; implements `ReminderLifecycle` |
| `ChatRun` | chat service, model runner goroutine, store, process crashes and start-ups |
| `EventStream` | stream handler, notifier, browser |
| `StreamProtocol` | the goroutines and channels between the producer of an answer and the chat run |
| `NoteProjection` | note service, outbox, projectors, pollers and the RAG service |
| `ResilientCalls` | retry, run budget, bulkhead, breaker around one remote service |
| `MemoryStore` | the memory tables and their transactions; extended by the next two |
| `MemoryCapture` | the capture workflow: segments, review, commit |
| `MemoryRecall` | recall requests and projector batches |
| `ReminderCommand` | the reminder command workflow |
| `DailyReview` | requests for a review, the cache and the sources |
| `ChatRunProofs`, `DailyReviewProofs`, `DurableWorkflowProofs`, `ReminderCommandProofs`, `ReminderDeliveryProofs` | theorems about the module of that name |
| `StreamProofs` | theorems about `StreamProtocol` and `EventStream` |
| `ServiceCallsProofs` | theorems about `ResilientCalls` and `NoteProjection` |
| `MemoryProofs` | theorems about `MemoryStore`, `MemoryCapture` and `MemoryRecall` |
| `MC…` | instances for TLC: model values, symmetry, clock skews |

The two workflows over the runtime (`MemoryCapture`, `ReminderCommand`) do not
instantiate `DurableWorkflow`. They use what is proved of it: a segment commits
whole or not at all, from the checkpoint it started with. So there a segment
reads the checkpoint, works in memory and saves, or dies; what its nodes did to
the tables on the way is not undone.

Where two components share a proof module they share no names: the second one's
specification is `FollowSpec` (`EventStream`), `NotesSpec` (`NoteProjection`) and
`RecallSpec` (`MemoryRecall`), its parts are named alike.

Conventions: a comment `\* mutant` marks an operator that changes the one below
it the way a plausible bug would; it is used by no specification. A line with
`bound` in the `CONSTANTS` section names a constant that exists only to make the
state space finite.

### DurableWorkflow

`ctl`, `claim`, `waits` and `events` are the rows of `workflow_runs` (checkpoint;
claim token and lease), `workflow_waits` and `workflow_node_events`. A worker is a goroutine in
`DurableRuntime.Start` or `Resume`: `job` holds what it was called with, `base`
the checkpoint it loaded, `mem` the `ControlState` it changes in memory. `Call`
to `ClaimWait` are `Start`/`Resume` up to `ClaimRun`/`ClaimWait`, with `now`
read before the transaction and possibly stale in it; `Reload` is the load under
the claim; `RunBegin` … `RunCompletes` are one iteration each of
`Runner.run`; `CommitExecution` is the fenced commit, with state, wait rows and
events in one transaction. `Touch`, `Transition`, `Emitted` reproduce which
changes bump `StateVersion` and the event sequence. `Crash` may happen to a
worker at any point after its claim. Node bodies are abstracted to their
outcomes (continue, suspend at a gate node, fail, cancel); of the payload the
model keeps the human decision applied last, which is what `AuditMatchesData`
compares with the audit columns of the wait.

### ReminderDelivery

A reminder row is a record with `status`, `version`, `token` and Booleans for the
time conditions the SQL tests (`next_fire_at <= now`, `lease_until > now`,
`available_at <= now`). Time passes by flipping one Boolean, so all clock skews
between processes are covered. `ClaimDue`, `CommitOccurrence`, `ClaimDeliveries`,
`CompleteDelivery`, `FailDelivery` are the store's transactions, `Deliver` is the
call to the external sender, whose outcome the process may misjudge (accepted,
but the answer is lost). `dispatcher[d].todo` and `worker[w].todo` are the rest of
a batch; when one item fails with a store error the loop of that process returns
(`reminderdelivery/runtime.go:78`, `:197`), the rest of its batch is abandoned with
its claims (`DispatcherExit`, `WorkerExit`), and nothing starts the loop again before the server itself is
restarted: `RestartDispatcher` and `RestartWorker` may happen and are never owed.

### ChatRun

`status`, `log` and `messages` are the tables; the sequence number of an event
is its place in `log[r]`. `exec[r]` is the goroutine in `Service.execute`, with
a step per repository call; `runner[r]` is the goroutine in `Runner.run`, and
`pipe[r]` the channel of capacity one between them. `CancelRun` is two steps
(`CancelRun` in the store, then the context through the in-process registry,
`CancelContext`), since `Registered` goroutines of another process are out of
reach. Between the two the run is read back; when that fails (`RereadFails`) the
call returns the error without looking for the goroutine, and since the row is
terminal no later `CancelRun` will. `Start(i)` is `InterruptRunning` at start-up: it hits the runs of every
process. `MaxErrors` statements fail, at any place where the code handles a
failure.

### EventStream

Events are their sequence numbers. `owing` holds writers between commit and
`Notify`. `handler[c]` follows `streamEvents`: subscribe, list a batch, write it,
read the run, wait. A notification is a step on the whole wait set at once
(`Notifier.Notify` closes a channel under its mutex). `home` says whether the
handler lives in the writer's process; a handler elsewhere hears of an event by
its heartbeat only. `client[c]` is the reducer of the browser: connecting, open,
asking for the status, settled, stopped.

### NoteProjection

The outbox is a sequence in creation order; `due` says that the back-off of a
failed row is over. Every create, delete or status request may start a goroutine
(`Dispatch`), and nothing else does. `projector[p]` claims what is due and walks
its batch by `Load`, `CallRAG`, `Complete` or `Fail`; `blind` is history, the notes
of which a delete found no document to erase. `Store`, `Erase`, `Index` are
the RAG service, external. Losses are failures nothing records (the process
dies, the thirty seconds of `dispatchProjection` end), faults are failures that
`FailNoteProjection` records.

### ResilientCalls

One instance of the module is one remote service. `Try` … `Settle` is one pass of
the retry loop; the budget is consumed per attempt, the slot is taken before the
breaker is asked, released before the outcome is recorded for a stream and after
it otherwise, as in `resilient_model.go`. `aged` stands for "the pause since the
breaker opened is over".

### StreamProtocol

`src` is the goroutine that produces an answer (the conversation runner with its
grounding gate, a deterministic handler, a skill, the stream a skill returns),
`relay` the one that forwards it (`ConversationHandler`'s, which bounds it in time,
or the skill executor's, which bounds its output), `reader` the loop of
`chat.Service`. `chan` holds the two channels, `ended` says of each of the nested
contexts why it has ended. A send under a context gives up when the context has
ended; the runner's terminal event is sent under none (`runner.go:372`). What a
model, a handler or a skill sends is arbitrary, more than a channel holds included;
they report "canceled" only when their own context has ended, which is the one
thing assumed of them. `required` is what the request asks for, `Enforced` what the
runner is told of it: on the bounded route nothing (`routing/executor.go:177`).

### MemoryStore, MemoryCapture

`records`, `audit`, `outbox` and `version` are the tables of one owner.
`CommitMutation`, `TransitionMemory` and `ActivateCandidateSuperseding` first look
for their idempotency key in `audit`, then check unique keys and row versions,
then write rows, events and projection rows together. A text or a slot is a model
value; equal texts have equal hashes, and `About` says which texts name one entity. `elapsed` says that `expires_at` has passed.
In `MemoryCapture`, `ctl[r]` is the checkpoint, `job[w]` a segment: `Start`,
`Resume`, one action per node and per store call of a node, `Save`, `Crash`. What
the model extracts and proposes is nondeterministic within the code's checks.

### MemoryRecall

A reader walks pinned references, the plan's selectors and the pages of semantic
hits in the order of `RecallService.Recall`, one read of MySQL per step; `steady`
and `seen` record which memories were active throughout the call, or at some time
in it. A projector walks `RunBatch`. `index` is what RAG holds, external.

### ReminderCommand

`reminders` and `events` are the tables, `waits[r]` every candidate the run has
put on display: a client may answer any of them at any time. `Plan` to
`Conflict` are the nodes up to the review, `Resume` the answer, `LoadEdit` the
replanning of an edited text, `ValidatePins` and `Commit` the commit node with
its two reads and its transaction, all by the time it was entered at (`entered`). `ClaimDue` and `CommitOccurrence` are the
dispatcher's two transactions on a due reminder, `UpdateElsewhere` another
command's update, `Revoke` a memory that goes.

### DailyReview

`chat`, `notes`, `memory` are counters and states of the day's sources, `log`
everything they have been; a snapshot is three reads, each of some state since
they were started, which is what makes a torn snapshot possible. `rows` is the
cache by fingerprint, `call[q]` a request with the time it took at its start,
which the code goes on using (`CommitReady`, `ValidatePinned`). `made` is history:
the instant a report was committed, by which `OneResultAtATime` compares reports.

## Runs

One run per question. A property is an invariant, an action property or a
liveness property as its definition says; its comment names the code it is about.

| run | shows | bounds and why they are enough |
|---|---|---|
| `durable_workflow` | wait rows match the checkpoint, the event log is legal (execution ids are distinct), the audit names the decision the surviving run applied, no update is lost; refinement of `WorkflowRun` | one run (runs share nothing), two workers with skewed clocks, two nodes of which one is a gate, two actions, three claims: a takeover of a lapsed lease while the first worker still computes, in both orders of commit; three steps and two resumes, so that both budgets are spent |
| `reminder_delivery` | outbox matches status, one occurrence per reminder, nothing early, the audit explains the status; refinement of `ReminderLifecycle`; a due reminder ends as long as a dispatcher and a worker run | two reminders claimed in one batch, so that the rest of a batch is abandoned, one dispatcher, two workers, one user command, two attempts, one crash or stall; restarts possible, never owed. Two dispatchers racing for one reminder are left to the theorems, which hold for any number |
| `chat_runs` | turns of a session do not interleave | two keys of one session on two processes, one chunk, no failure: every interleaving of two runs |
| `chat_faults` | the log ends with the status, the stored answer is the text of the events, a cancel reaches the model, a run ends | one key, two chunks, a notice, a crash, two failing statements, the read after a cancellation among them |
| `event_stream` | events arrive in order and once, no lost wake-up, events arrive and a client settles | one client, batches of two of five events (full, partial and empty batches), two cuts, a refusal |
| `stream_protocol` | one terminal event and nothing after it, no silent end, no unvalidated text where the runner holds it back, a completed answer is whole, goroutines end | every route; two messages, answers of two chunks on channels of the code's capacities, so that every send can block |
| `note_projection` | a document the note does not know of is still being worked on, a status has grounds, a deletion is carried out if requests go on | one note under two delete keys, two projectors, batches of two, a poller, two recorded failures and a loss |
| `resilient_calls` | slots, probe and budget do not leak, the breaker recovers | two callers on one slot, streams (the longest kind of call), threshold one, two attempts, budget two: an attempt that waits, one that is refused and one retried beyond the budget |
| `memory_capture` | one value per slot with replacement recorded at both ends, only approved candidates become active, a completed run leaves no candidate undecided | two captures about a slot that has a value, two texts about one entity of which one can expire, two workers, four calls and a crash: start, edit, approve and a repeated approve, or two runs that race |
| `memory_recall` | what is returned was active, exact matches are complete, completed rows are indexed | two memories, the second new or a new version of the first, one reader with a pin, a slot and a text selector and two pages of one, two attempts, one lost answer |
| `reminder_command` | changes were approved on display, one change per run, a completed run reports what one of its changes did | a command that creates, updates or cancels around one reminder, which others update once or the dispatcher takes; two workers, so that segments of the command overlap, one memory, four calls (start, approve, edit, approve again), two instants, crashes without bound. Several commands at once are left to the theorems |
| `daily_review` | what is served was current at one instant; of the reports committed so far at most one on the same sources is valid | two requests, a memory that expires, limits of one so that a source is truncated, three ticks (a claim and a result can both lapse), two changes, one failing node |

Counters that the code leaves unbounded (versions, attempts of a waiting client,
claims, the clock) are capped by the constants named above, always in a guard of
the action that increments them.

Every property has a mutant in `PROJECT.json`: the module contains the operator a
plausible bug would put in the place of a definition, and TLC finds the property
violated with it. So each property is known to fail when the code is wrong, on
the very instance it is checked on.

`CHECK_DEADLOCK FALSE` stands where the modelled part really stops: all runs are
terminal, the bounded faults are spent and nothing is left to do. The resilience
run checks deadlock: callers start new runs for ever.

## Fairness

- `DurableWorkflow` is checked for safety only. The repository has no loop that
  takes up abandoned runs: a run whose worker died advances when its user calls
  again, so nothing must happen. For the same reason an expired wait leaves its
  run suspended until somebody calls. `RenewClaim` is modelled because the store
  implements it; no production code calls it.
- `ReminderDelivery!Progress`: time passes, and every loop that runs goes on (weak
  fairness of `Tick` and `Work`). That a loop which returned is started again is
  not assumed: nothing in the process does it
  (`cmd/note-agent-server/reminder_runtime.go:97`). `DueSettles` therefore promises
  an end only while a dispatcher and a worker run.
- `ChatRun!FairSpec`: a goroutine that can take a step takes it (`Execute`,
  `CancelContext`, the end of the runner's answer and its terminal send), the
  run's timeout fires, a process that is down is started. The model owes
  nothing: that it emits anything is not assumed, the timeout carries the proof.
- `NoteProjection!FairNotesSpec`: a goroutine that was started goes on and a
  back-off ends. That one is started is not assumed: the web client asks at most
  twelve times and stops at the first error (`web/src/App.tsx:242`), and there is
  no background loop. `DeletionIsRetried` has the requests as its premise.
- `EventStream!FairFollowSpec`: writers notify after they commit, handlers take their
  steps, heartbeats tick, the browser reconnects and reads. The run owes no
  progress.
- `StreamProtocol!FairSpec`: a goroutine that can take a step takes it, the
  library calls return once their context has ended, the run's timeout fires.
- `ResilientCalls!FairSpec`: weak fairness of the steps of an attempt and of the
  pause; strong fairness of taking a slot, since a Go channel hands its slots to
  the waiting senders first come, first served.
- `MemoryCapture`, `MemoryRecall`, `ReminderCommand` and `DailyReview` are checked
  for safety only: an abandoned run advances when its user calls again, and
  abandoned projection rows are never taken up (below).

## Theorems

Proved for every value of the constants that satisfies the modules' assumptions
(`RuntimeAssumption`, `DeliveryAssumption`, `ChatAssumption`, `StreamAssumption`,
`ProtocolAssumption`, `CallsAssumption`, `NoteAssumption`, `StoreAssumption`,
`CaptureAssumption`, `RecallAssumption`, `CommandAssumption`, `ReviewAssumption`:
sets of actors of any size, natural or positive numbers for limits and bounds, a
placeholder that is none of the values it stands beside).

- **DurableWorkflow** (`DurableWorkflowProofs`). The inductive invariant `IInv`
  says for each worker what it knows: the checkpoint it loaded was stored at some
  time, and since every commit strictly increases `StateVersion`, `base.ver =
  ctl.ver` implies that `base` still *is* the stored checkpoint. That is why the
  version check in `CommitExecution` is enough even when the claim token alone
  would not be: from it follow that no update is lost and that a terminal run is
  frozen. The second half is about waits: at most one wait row of a run is open,
  and it is the one the checkpoint names, hence a decision resolves that row and
  no other. `Implements` is the refinement of `WorkflowRun`. `LogsAreLegal` needs
  that a worker's unsaved events are themselves a legal continuation of the
  checkpoint it loaded (`Opens`, `Chained`): they reach the table only when that
  checkpoint is still the stored one, so the stored log and the new events meet
  at the same node and attempt.
- **ReminderDelivery** (`ReminderDeliveryProofs`). Three facts carry the proof:
  a dispatcher's claim is never ahead of the row's version and equals it only
  while its token is in the row (`ClaimsBehind`); a delivery token names the
  attempt it was issued for, so an older attempt never matches
  (`TokenNamesAttempt`); and each status of a reminder has exactly the outbox rows
  that account for it (`Accounted`). From them: at most one occurrence per
  reminder, nothing early, bounded retries, and the refinement of
  `ReminderLifecycle` (initial states and every step).
- **ChatRun** (`ChatRunProofs`). A cancellation, a process start-up and the run's
  own goroutine all write the row, so the invariant says what each of them may
  still rely on. The log fits the status (`LogFits`); the goroutine holds the text
  that is in the log, and with the chunks still to come it stays within the answer
  (`Streams`); a cancellation is committed before it looks for the goroutine, and
  a run whose goroutine it missed can no longer start (`Cancels`); a call whose
  read in between failed never looks, and the property promises nothing of it;
  the question of an active run is the last message of its session (`Asked`),
  which is why the next turn cannot slip in before the answer. The four safety
  properties follow for any number of sessions, instances and crashes.
- **EventStream** (`StreamProofs`). `ReceivedInOrder` needs `Link`: what a
  client received, what is on the wire and where the handler stands are three
  adjacent pieces of one interval. `NoLostWakeup` needs `Watch`: the subscription
  precedes the read, so an event that the read missed finds the handler in the
  wait set or finds a writer that still owes the notification.
- **ResilientCalls** (`ServiceCallsProofs`). `NothingLeaks` is nearly inductive.
  What it lacks is where a call stands relative to the budget: a call between
  `acquire` and `ask` has paid for an attempt it has not made (`Pending`), so what
  was asked plus what is pending is what was spent (`Paid`). The slot count is
  carried through a step by `CountFollows`: the counter moves as the one moving
  call's hold does. `NoSecondStream` needs that a streaming call is past its last
  attempt (`PastAsking`).
- **MemoryCapture** (`MemoryProofs`, with the transactions of
  `MemoryStore`). Memory rows, the audit table, the checkpoint and the copies in
  overlapping segments are written at different times; the invariant ties them
  together. A review key names the run that made a candidate, and the commit key
  names one decision of the run, which makes the audit table the record of who
  approved what (`Audited`). At most one candidate of a run is undecided, and none
  after its commit (`RunFits`). A segment that could still save holds the review
  now on display; a late one may hold an older review, but that one is no longer a
  candidate (`ResumedFits`, `SavingFits`). The steps of other segments keep this
  because a row, once decided, never becomes a candidate again.
- **MemoryRecall** (`MemoryProofs`). A recall reads MySQL many times while memories
  are approved, replaced and expire. The invariant says of each request what it
  may rely on between two reads: what it has found was active at some time of the
  call, and a memory active throughout is already found, or its selector is still
  in the plan (`Finding`); an answer keeps both, whatever happens to the memories
  afterwards (`Answering`). Every transaction of the owner leaves contents and
  versions of rows alone, and no row becomes active with its projection already
  completed (`Carried`); this is shown once per transaction, on the lemmas about
  `MemoryStore` that `MemoryCapture` rests on too. `CompletedMeansIndexed` is then
  inductive: a row is completed only by a projector after its call to the index,
  and an activation asks for a new projection.
- **NoteProjection** (`ServiceCallsProofs`). A create is completed in the transaction
  that gives the note its document, so a document the note does not know of has a
  create event that is not completed (`Tracking`). A projector or poller that holds
  "completed" was told so by RAG, where a completed job stays completed, and a
  poller asks only about a note with a document (`Confirming`): a note that becomes
  indexed by a late answer is still right about the job. `Claimed` adds that a row
  in processing belongs to one projector, hence each event is worked on by one at a
  time (`WorkedOnce`). On top of these, `Held` says that a row in processing is in
  some batch as long as every failure was recorded; with it the event of `Tracking`
  can be claimed or is worked on (`Tracked`). `Erasing` says that only delete events
  erase, and that a delete about to be recorded has erased the document or found
  none; it gives the statuses their grounds (`Grounded`). All of it for any number
  of losses, failures and repeated deletions.
- **DailyReview** (`DailyReviewProofs`). A snapshot is torn: its parts are read at
  different times. Each source only grows, so the first snapshot lies between two
  states of the log (`Older`), and when the second reads the same, nothing
  changed in between and all of it was so at the instant the second began
  (`Fits`). A ready row keeps the report some request was served with (`Stands`);
  a report leaves the cache only when it has expired (`Kept`), so the
  next on the same sources is committed after its end (`Disjoint`), also by a
  request that lost its claim and went on.
- **ReminderCommand** (`ReminderCommandProofs`). The invariant follows a segment to
  its commit: what can be displayed has a plan and, unless it asks for
  clarification, a target (`Shown`); a segment that stands before the commit
  carries the candidate of a recorded approval (`Ready`); an event's key is its
  run's, and no two events have one run (`Ledger`); and whatever reports an
  approved change, in a segment about to save or in a checkpoint, has its event
  (`Kept`). `Ready`, `Settled` and `Ledger` take the events and approvals as
  arguments because both only grow (`Grows`), which is what makes the steps of
  other workers harmless. The three properties follow, with any number of
  overlapping segments, crashes, edits and repeated approvals. What a run reports
  is tied to an event by its input hash; whose approved candidate that event
  describes follows from the ledger (`ReportsAreTrue`).
- **StreamProtocol** (`StreamProofs`). The properties speak of what the
  reader was sent; the invariant carries them back along the stream, to what the
  relay holds, what waits in the inner channel and what the source may still send
  from where it is. One terminal event: after the terminal event was sent nothing
  upstream can send, and a stream that closed under a live context had one
  (`SourceEnds`, `RelayEnds`, `InnerEnds`). Telling the reader: a failure
  "canceled" anywhere on the way means that the reader left or somebody cancelled
  (`Cancellation`). The whole answer: until the run's context ends, the chunks
  sent and the chunks on the way add up to the answer (`Adds`).

The row `theorems` of `PROJECT.json` lists them by name. The invariants behind
them were first checked by TLC on the instances of the runs.

Every safety property of a run is a theorem. So is `NoSecondStream`, which is about
one call alone and is in no run. Only model-checked is what must
eventually happen: `DueSettles`, `RunsEnd`, `StreamDelivers`, `DeletionIsRetried`,
`BreakerRecovers` and `GoroutinesEnd`. The prover does not reach liveness under
fairness, nor `ENABLED`, nor induction over data. Where a definition needs such an
induction it is stated by what it yields: a projector's batch is the `Oldest` of the
due rows (`NoteProjection`), the earliest of a set of times exists because the
natural numbers are well-founded (`DailyReview`).

## What the models show about the code

Six configurations that belong to no run end in a counterexample to a sentence
of the repository, and a seventh to what a report suggests. `tlc -config X.cfg M`
reproduces each in a few seconds (the review takes half a minute).

| configuration | property | what happens | what the repository says |
|---|---|---|---|
| `MCDurableTakeover.cfg`, `MCDurableWorkflow` | `OnlyClaimantCommits` | the run is read again after the claim has committed (`workflow_store.go:79`, `:125`); a call that stalls in between past its lease adopts the token of the call that took the run over, commits under it, and the rightful claimant is refused | `workflow/durable_test.go:281`: the execution that was taken over is the one refused |
| `MCReminderUnsupervised.cfg`, `MCReminderDelivery` | `AtLeastOnce` | a user cancels a claimed reminder, `CommitOccurrence` answers `ErrLeaseLost`, `Dispatcher.Run` returns (`reminderdelivery/runtime.go:78`) and nothing starts it again | `docs/api/agent-reminder-api.md:38`: at-least-once delivery |
| `MCNoteDeleted.cfg`, `MCNoteProjection` | `DeletedMeansGone` | a delete projected while the create is in flight completes without a call to RAG, and the document stays | `docs/api/agent-note-api.md:61`: the status becomes `deleted` only after RAG has deleted the document |
| `MCStreamBounded.cfg`, `MCStreamProtocol` | `NeverUnvalidated` | `ConversationHandler` passes the messages alone (`routing/executor.go:177`), so on that route the runner does not know that the request requires retrieval and sends the model's text as it comes; the route is in no request's path yet | `docs/adr/0003-harness-runtime-grounding.md:42`: unvalidated content is never sent |
| `MCDecisionApplied.cfg`, `MCMemoryCapture` | `DecisionIsApplied` | an approve and a reject of one wait overlap; the commit's key `run:commit:1:0` and its input hash omit the decision (`capture.go:470`), so the reject is answered with the approval's result: the run reports "reject", the memory is active | `openspec/specs/workflow-memory-integration/spec.md:97`: a rejected candidate must not enter recall or projection |
| `MCReviewExpired.cfg`, `MCDailyReview` | `ChangingMeansChanged` | a past day's memory, active at the window's end, has expired since: recalled as of then and checked as of now (`dailyreview/workflow.go:343`), it makes every request fail with `ErrSourceChanging` though nothing changes | `openspec/specs/daily-review-generation/spec.md:42`: an expired memory is excluded and the review made without it |
| `MCCommandReported.cfg`, `MCReminderCommand` | `ReportedIsMade` | a create is committed and its checkpoint lost; the command is edited to an update of another reminder with the same text, time and memories and approved: the commit finds its key with the same input hash (`reminderworkflow/workflow.go:374`) and completes as the approved update, though that reminder never changed | no sentence; the report names the created reminder as committed beside the update's target |

Other behaviour of the code that the models contain and a reader should know of.
Where a property would fail because of it, the property names the exception.

Workflow and memory:

- an expired wait leaves its run suspended: no code writes the expired status;
  a capture or command whose first segment died stays pending for ever unless the
  same request is sent again;
- a superseding approval whose checkpoint was lost is replayed with its target
  read anew, finds the target superseded by itself and fails the run with
  `ErrPinnedMemoryChanged`, although the memory is active (`capture.go:467`);
  `CompletedIsSettled` speaks of completed runs only. The workflow-memory
  specification asks for a replay of the first result;
- an edit whose segment died after consuming its payload fails when repeated;
- an edit after which the policy is no longer to supersede can leave two active
  versions of one lineage when the slot differs or is empty; `OneActivePerSlot`
  is about slots;
- `Store.Expire` and the status "revoked" are used by no program code: expiry is
  computed when a memory is read;
- the cut at `MaxExactCandidates` is not reported: `ExactIsComplete` exempts it;
- a memory projector or a note projector that dies leaves its rows in
  `processing`, which have no lease and are never claimed again.

Reminder commands:

- the input hash of a create or an update names neither target nor action. After
  a commit whose checkpoint was lost, an edit to another action or target with the
  same text, time and memories is answered as a replay with the first reminder:
  `CompletedIsCommitted` exempts exactly this replay, `ReportedIsMade` does not;
- a reject after a dead approved commit completes as "rejected" with the reminder
  changed: `CompletedIsCommitted` is about approved runs;
- a replay after the time has passed, or after a pinned memory went, fails the run
  though its change stands; a memory may go between `ValidatePins` and the commit.

Daily review:

- with both chat and notes truncated the warnings enter the digest in the order
  the reads came back (`activity.go:221`), so unchanged sources can be refused as
  changing;
- a waiting request never takes over a claim that failed or was abandoned, it
  waits until its time is over (`workflow.go:229`); lease and pinned memories are
  checked against the time the request started; a deadline at the claim node
  leaves the claim until its lease ends; `CleanupExpired` is called by nothing;
- a claim over an expired report that then fails leaves no trace of it. A request
  that was asked for before the expiry makes a report dated back to its own
  start, so the validity of the two overlaps on paper. `OneResultAtATime` therefore
  counts from the instant a report was committed.

Chat and streams:

- when the cancelled run cannot be read back (`store.go:234`, `service.go:155`),
  `CancelRun` returns the error without cancelling the run's context, and a second
  one is refused because the run is over: the model goes on until an event of its
  answer is refused. `CancelReachesModel` promises nothing of such a call;
- once a cancelled run's reader has left, a runner whose slot is full blocks for
  ever in its terminal send (`runner.go:372`), although the comment at
  `runner.go:99` speaks of a reserved slot: `GoroutinesEnd` exempts that send;
- `RunTimeout` may end while a validated answer is emitted, its last chunks are
  dropped and the run completes with the text sent so far (`runner.go:187`):
  `AnswerWhole` names the case;
- the status is read after the last batch, so a stream may end before the terminal
  event; the client learns the status from its own request. The handler of a full
  batch waits for its heartbeat although events are left;
- an EventSource whose reconnect is answered with an HTTP error closes for good:
  `StreamDelivers` exempts such a client (`refusals > 0`);
- a failing `StartRun` or `FailRun` leaves the chat run active until a process
  starts: `RunsEnd` exempts histories with a failed statement (`errors > 0`).

Notes, resilience, reminders:

- a late create, a failed create or a poll overwrites `delete_pending` or `deleted`.
  A deletion still queued is carried out all the same; after it the note may say
  indexed of a document that is gone. `StatusHasGrounds` names the delete event as
  the explanation;
- a delete projected before the note knows of its document completes without a
  call, and the document stays: `StatusHasGrounds` exempts such notes (`blind`),
  `DeletedMeansGone` does not;
- the web client gives up polling after twelve requests or at the first error, so
  a deletion that failed waits in `delete_pending` for the user's next request:
  `DeletionIsRetried` assumes the requests; one whose goroutine died in between is
  never carried out (`losses > 0`);
- a call admitted before the breaker opened may fail late and clear the mark of
  the probe that is out, so a second probe can run beside it after the next
  pause; a mark without a probe, which would refuse calls for ever, does not
  occur (`ProbeIsOut`);
- `RenewClaim` of both stores is called by no program code.

## What is not modelled

`PROJECT.json` lists every component with its reason. In short: pure I/O and
wiring (`config`, `cmd`, `mcpfacade`, most HTTP routes, `web` layout), text
matching and prompts (`routing` rules, `grounding` wording, context assembly),
test doubles, migrations, evaluation. The Eino agent loop is a library.
Encryption of tokens is out of scope. Two small stateful components are read but
not modelled: sessions, where two requests near the access token's end both spend
the stored refresh token and the slower write wins (`auth/service.go:172`; what
the RAG service answers to the second is not in the repository), and the
knowledge base binding, where two first requests may each create one and the last
upsert wins (`knowledgebase/service.go:67`).

## What is left

In this order of value:

1. an abstract append-only log with one terminal event that `StreamProtocol`
   produces, `ChatRun` stores and `EventStream` reads;
2. sessions and the knowledge base binding, once the RAG service's answers are
   documented; several owners and scopes in `MemoryStore`.
