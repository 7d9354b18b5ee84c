------------------------- MODULE ReminderDelivery -------------------------
(***************************************************************************)
(* Delivery of due reminders: dispatchers turn due reminders into outbox   *)
(* rows, workers hand the rows to an external provider, and users update   *)
(* and cancel reminders meanwhile.  The processes share the MySQL tables   *)
(* reminders, reminder_events and reminder_delivery_outbox; a store call   *)
(* is one transaction and one step here.                                   *)
(*                                                                         *)
(* Time appears only through the conditions the SQL tests: next_fire_at    *)
(* reached (due), lease_until not reached (leased), available_at and       *)
(* lease_until of a row both reached (ready).  Each changes in a step of   *)
(* its own, which covers every clock skew between the database and the     *)
(* processes.  A claim token is a fresh uuid per batch; two tokens on one  *)
(* row are equal exactly when claimer and version (or attempt) are.        *)
(***************************************************************************)
EXTENDS Integers, Sequences, FiniteSets

CONSTANTS
    Reminders,
    Dispatchers,    \* goroutines in Dispatcher.Run
    Workers,        \* goroutines in Worker.Run
    Commands,       \* user mutations, each with its idempotency key
    BatchSize,      \* DispatcherConfig.BatchSize, WorkerConfig.BatchSize
    MaxAttempts,    \* WorkerConfig.MaxAttempts
    MaxFaults       \* bound: crashes, and leases that lapse under their holder

ASSUME DeliveryAssumption ==
    /\ BatchSize \in Nat \ {0}
    /\ MaxAttempts \in Nat \ {0}
    /\ MaxFaults \in Nat

VARIABLES
    reminders,      \* reminders[r]: the row of r
    outbox,         \* outbox[k]: delivery row of occurrence k = <<id, version>>
    audit,          \* audit[r]: new_status of the events of r, oldest first
    dispatcher,     \* dispatcher[d]: claimed reminders not yet committed
    worker,         \* worker[w]: claimed deliveries and the result in hand
    command,        \* command[c]: the mutation c, once its target was read
    delivered,      \* delivery keys the provider has accepted
    faults

vars == <<reminders, outbox, audit, dispatcher, worker, command, delivered, faults>>

-----------------------------------------------------------------------------
(* Rows *)

Status == {"none", "scheduled", "processing", "fired", "cancelled", "failed"}
DeliveryStatus == {"pending", "processing", "completed", "permanent_failed"}
Outcome == {"ok", "retryable", "permanent"}

NoToken == <<>>
NoCommand == [kind |-> "none"]
NoResult == [outcome |-> "none"]
Absent == [status |-> "none", due |-> FALSE, version |-> 0, token |-> NoToken,
           leased |-> FALSE]

Key == Reminders \X Nat
Reminder == [status : Status, due : BOOLEAN, version : Nat,
             token : (Dispatchers \X Nat) \union {NoToken}, leased : BOOLEAN]
Delivery == [status : DeliveryStatus, attempt : Nat, ready : BOOLEAN,
             token : (Workers \X Nat) \union {NoToken}]
Claimed == [id : Reminders, version : Nat]
Item == [key : Key, attempt : Nat]
Result == [item : Item, outcome : Outcome]
Command == [kind : {"update", "cancel"}, id : Reminders, version : Nat]

\* Status.CanTransition, and Create
CanTransition(s, t) ==
    \/ s = "none" /\ t = "scheduled"
    \/ s = "scheduled" /\ t \in {"processing", "cancelled"}
    \/ s = "processing" /\ t \in {"fired", "failed"}

Idle == [up |-> TRUE, todo |-> {}]
IdleWorker == [up |-> TRUE, todo |-> {}, result |-> NoResult]

\* The row after a transition of the reminder: every writer bumps the version.
Moved(m, s) == [m EXCEPT !.status = s, !.version = @ + 1]
Logged(r, s) == [audit EXCEPT ![r] = Append(@, s)]

Init ==
    /\ reminders = [r \in Reminders |-> Absent]
    /\ outbox = <<>>
    /\ audit = [r \in Reminders |-> <<>>]
    /\ dispatcher = [d \in Dispatchers |-> Idle]
    /\ worker = [w \in Workers |-> IdleWorker]
    /\ command = [c \in Commands |-> NoCommand]
    /\ delivered = {}
    /\ faults = 0

-----------------------------------------------------------------------------
(* Users: Create, Update and Cancel.  A command re-executed after it took   *)
(* effect finds its event and returns the stored result; one whose target   *)
(* moved is refused.  Neither changes the store.                            *)

Create(r) ==
    /\ reminders[r].status = "none"
    /\ reminders' = [reminders EXCEPT ![r] = Moved(@, "scheduled")]
    /\ audit' = Logged(r, "scheduled")
    /\ UNCHANGED <<outbox, dispatcher, worker, command, delivered, faults>>

\* The command is reviewed against the row its target names.
ReadTarget(c, r) ==
    /\ command[c] = NoCommand
    /\ reminders[r].status = "scheduled"
    /\ \E kind \in {"update", "cancel"} :
          command' = [command EXCEPT ![c] =
              [kind |-> kind, id |-> r, version |-> reminders[r].version]]
    /\ UNCHANGED <<reminders, outbox, audit, dispatcher, worker, delivered, faults>>

CancelLate(c) == \* mutant
    /\ command[c] # NoCommand
    /\ reminders[command[c].id].status \in {"scheduled", "processing"}
TargetUnchanged(c) ==
    /\ command[c] # NoCommand
    /\ LET m == reminders[command[c].id]
       IN  m.status = "scheduled" /\ m.version = command[c].version

\* An update moves next_fire_at into the future and leaves the claim alone;
\* a cancellation clears the claim.
Mutate(c) ==
    /\ TargetUnchanged(c)
    /\ LET r == command[c].id
           m == reminders[r]
           new == IF command[c].kind = "cancel"
                  THEN [Moved(m, "cancelled") EXCEPT !.token = NoToken, !.leased = FALSE]
                  ELSE [Moved(m, "scheduled") EXCEPT !.due = FALSE]
       IN  /\ reminders' = [reminders EXCEPT ![r] = new]
           /\ audit' = Logged(r, new.status)
    /\ UNCHANGED <<outbox, dispatcher, worker, command, delivered, faults>>

-----------------------------------------------------------------------------
(* Dispatcher.Tick.  A batch holds the claimed rows in claim order; rows    *)
(* locked by another transaction are skipped, so any due row may be missing *)
(* from it.  A further batch of the same tick is a claim like the first.    *)

DueUnclaimed == {r \in Reminders :
    reminders[r].status = "scheduled" /\ reminders[r].due /\ reminders[r].token = NoToken} \* mutant
DueRows == {r \in Reminders :
    reminders[r].status = "scheduled" /\ reminders[r].due /\ ~reminders[r].leased}

Leased(d, m) == [m EXCEPT !.version = @ + 1, !.token = <<d, m.version + 1>>,
                          !.leased = TRUE]

ClaimDue(d) ==
    /\ dispatcher[d].up /\ dispatcher[d].todo = {}
    /\ \E S \in SUBSET DueRows :
          /\ S # {} /\ Cardinality(S) <= BatchSize
          /\ reminders' = [r \in Reminders |->
                 IF r \in S THEN Leased(d, reminders[r]) ELSE reminders[r]]
          /\ dispatcher' = [dispatcher EXCEPT ![d].todo =
                 {[id |-> r, version |-> Leased(d, reminders[r]).version] : r \in S}]
    /\ UNCHANGED <<outbox, audit, worker, command, delivered, faults>>

HoldsToken(d, i) == \* mutant
    LET m == reminders[i.id]
    IN  m.status = "scheduled" /\ m.token = <<d, i.version>> /\ m.leased
HoldsDue(d, i) ==
    LET m == reminders[i.id]
    IN  /\ m.status = "scheduled" /\ m.version = i.version
        /\ m.token = <<d, i.version>> /\ m.leased

CommitOnly(d, i) == \* mutant
    /\ i \in dispatcher[d].todo
    /\ HoldsDue(d, i)
    /\ LET k == <<i.id, i.version>>
           row == [status |-> "pending", attempt |-> 0, ready |-> FALSE, token |-> NoToken]
       IN  outbox' = [x \in DOMAIN outbox \union {k} |-> IF x = k THEN row ELSE outbox[x]]
    /\ dispatcher' = [dispatcher EXCEPT ![d].todo = @ \ {i}]
    /\ UNCHANGED <<reminders, audit, worker, command, delivered, faults>>

\* The occurrence id is the claimed version, so no row has it yet (NewOccurrence
\* below) and the replay branch of CommitOccurrence is never taken.
CommitOccurrence(d, i) ==
    /\ i \in dispatcher[d].todo
    /\ HoldsDue(d, i)
    /\ LET k == <<i.id, i.version>>
           row == [status |-> "pending", attempt |-> 0, ready |-> FALSE, token |-> NoToken]
       IN  outbox' = [x \in DOMAIN outbox \union {k} |-> IF x = k THEN row ELSE outbox[x]]
    /\ reminders' = [reminders EXCEPT ![i.id] =
           [Moved(@, "processing") EXCEPT !.token = NoToken, !.leased = FALSE]]
    /\ audit' = Logged(i.id, "processing")
    /\ dispatcher' = [dispatcher EXCEPT ![d].todo = @ \ {i}]
    /\ UNCHANGED <<worker, command, delivered, faults>>

\* ErrLeaseLost: Tick returns it, Run returns, and the goroutine Start spawned
\* ends; the rest of the batch keeps its lease.
DispatcherExit(d) ==
    /\ \E i \in dispatcher[d].todo : ~HoldsDue(d, i)
    /\ dispatcher' = [dispatcher EXCEPT ![d] = [up |-> FALSE, todo |-> {}]]
    /\ UNCHANGED <<reminders, outbox, audit, worker, command, delivered, faults>>

-----------------------------------------------------------------------------
(* Worker.Tick *)

ReadyRows == {k \in DOMAIN outbox :
    outbox[k].status \in {"pending", "processing"} /\ outbox[k].ready}

ClaimDeliveries(w) ==
    /\ worker[w].up /\ worker[w].todo = {} /\ worker[w].result = NoResult
    /\ \E S \in SUBSET ReadyRows :
          /\ S # {} /\ Cardinality(S) <= BatchSize
          /\ outbox' = [k \in DOMAIN outbox |->
                 IF k \in S
                 THEN [status |-> "processing", attempt |-> outbox[k].attempt + 1,
                       ready |-> FALSE, token |-> <<w, outbox[k].attempt + 1>>]
                 ELSE outbox[k]]
          /\ worker' = [worker EXCEPT ![w].todo =
                 {[key |-> k, attempt |-> outbox[k].attempt + 1] : k \in S}]
    /\ UNCHANGED <<reminders, audit, dispatcher, command, delivered, faults>>

\* What the provider may have done when the call returned o: success means it
\* accepted the key; after an error it may have accepted it all the same.
MayAccept(o) == IF o = "ok" THEN {TRUE} ELSE BOOLEAN

Deliver(w, i) ==
    /\ worker[w].result = NoResult
    /\ i \in worker[w].todo
    /\ \E o \in Outcome :
          /\ worker' = [worker EXCEPT ![w] =
                 [up |-> TRUE, todo |-> @.todo \ {i}, result |-> [item |-> i, outcome |-> o]]]
          /\ \E accepts \in MayAccept(o) :
                delivered' = IF accepts THEN delivered \union {i.key} ELSE delivered
    /\ UNCHANGED <<reminders, outbox, audit, dispatcher, command, faults>>

\* The row is still in the claim of w: CompleteDelivery and FailDelivery
\* compare status and token, not the lease.
Owns(w) ==
    LET i == worker[w].result.item
        row == outbox[i.key]
    IN  row.status = "processing" /\ row.token = <<w, i.attempt>>

ReminderProcessing(w) == reminders[worker[w].result.item.key[1]].status = "processing"

Closed(row, s) == [row EXCEPT !.status = s, !.token = NoToken, !.ready = TRUE]

\* The rest of both transactions: close the delivery, move its reminder on.
Close(w, deliveryStatus, s) ==
    LET k == worker[w].result.item.key
    IN  /\ ReminderProcessing(w)
        /\ outbox' = [outbox EXCEPT ![k] = Closed(@, deliveryStatus)]
        /\ reminders' = [reminders EXCEPT ![k[1]] = Moved(@, s)]
        /\ audit' = Logged(k[1], s)

Continue(w) == worker' = [worker EXCEPT ![w].result = NoResult]

FiresAnyway(w) == worker[w].result # NoResult \* mutant
Succeeded(w) == worker[w].result # NoResult /\ worker[w].result.outcome = "ok"
Failed(w) == worker[w].result # NoResult /\ worker[w].result.outcome # "ok"
Completed(w) == outbox[worker[w].result.item.key].status = "completed"

CompleteDelivery(w) ==
    /\ Succeeded(w)
    /\ \/ Completed(w) /\ UNCHANGED <<reminders, outbox, audit>>
       \/ Owns(w) /\ Close(w, "completed", "fired")
    /\ Continue(w)
    /\ UNCHANGED <<dispatcher, command, delivered, faults>>

GivesUp(w) ==
    LET res == worker[w].result
    IN  res.outcome = "permanent" \/ res.item.attempt >= MaxAttempts

FailDelivery(w) ==
    /\ Failed(w) /\ GivesUp(w) /\ Owns(w)
    /\ Close(w, "permanent_failed", "failed")
    /\ Continue(w)
    /\ UNCHANGED <<dispatcher, command, delivered, faults>>

RetryLater(w) ==
    /\ Failed(w) /\ ~GivesUp(w) /\ Owns(w)
    /\ outbox' = [outbox EXCEPT ![worker[w].result.item.key] =
           [@ EXCEPT !.status = "pending", !.token = NoToken, !.ready = FALSE]]
    /\ Continue(w)
    /\ UNCHANGED <<reminders, audit, dispatcher, command, delivered, faults>>

\* ErrLeaseLost or ErrStateConflict: Worker.Run returns, as Dispatcher.Run does.
WorkerExit(w) ==
    /\ worker[w].result # NoResult
    /\ ~(Succeeded(w) /\ Completed(w))
    /\ ~(Owns(w) /\ (ReminderProcessing(w) \/ (Failed(w) /\ ~GivesUp(w))))
    /\ worker' = [worker EXCEPT ![w] = [up |-> FALSE, todo |-> {}, result |-> NoResult]]
    /\ UNCHANGED <<reminders, outbox, audit, dispatcher, command, delivered, faults>>

-----------------------------------------------------------------------------
(* Time and faults *)

FallDue(r) ==
    /\ reminders[r].status = "scheduled" /\ ~reminders[r].due
    /\ reminders' = [reminders EXCEPT ![r].due = TRUE]
    /\ UNCHANGED <<outbox, audit, dispatcher, worker, command, delivered, faults>>

\* A deadline that passes while its holder is still at work is a stall of the
\* holder: it uses up one of the MaxFaults faults.
Passes(stall) ==
    /\ stall => faults < MaxFaults
    /\ faults' = IF stall THEN faults + 1 ELSE faults

DueLeaseLapses(r) ==
    /\ reminders[r].leased
    /\ Passes(\E d \in Dispatchers : [id |-> r, version |-> reminders[r].version]
                                       \in dispatcher[d].todo)
    /\ reminders' = [reminders EXCEPT ![r].leased = FALSE]
    /\ UNCHANGED <<outbox, audit, dispatcher, worker, command, delivered>>

HasInHand(w, i) ==
    \/ i \in worker[w].todo
    \/ worker[w].result # NoResult /\ worker[w].result.item = i

\* available_at of a pending row or lease_until of a claimed one is reached.
BecomesReady(k) ==
    /\ ~outbox[k].ready
    /\ Passes(\E w \in Workers :
                 /\ outbox[k].token = <<w, outbox[k].attempt>>
                 /\ HasInHand(w, [key |-> k, attempt |-> outbox[k].attempt]))
    /\ outbox' = [outbox EXCEPT ![k].ready = TRUE]
    /\ UNCHANGED <<reminders, audit, dispatcher, worker, command, delivered>>

\* The process dies, or a statement fails and the error ends the goroutine.
StopDispatcher(d) ==
    /\ dispatcher[d].up
    /\ Passes(TRUE)
    /\ dispatcher' = [dispatcher EXCEPT ![d] = [up |-> FALSE, todo |-> {}]]
    /\ UNCHANGED <<reminders, outbox, audit, worker, command, delivered>>

StopWorker(w) ==
    /\ worker[w].up
    /\ Passes(TRUE)
    /\ worker' = [worker EXCEPT ![w] = [up |-> FALSE, todo |-> {}, result |-> NoResult]]
    /\ UNCHANGED <<reminders, outbox, audit, dispatcher, command, delivered>>

\* A new process starts both goroutines again.
RestartDispatcher(d) ==
    /\ ~dispatcher[d].up
    /\ dispatcher' = [dispatcher EXCEPT ![d] = Idle]
    /\ UNCHANGED <<reminders, outbox, audit, worker, command, delivered, faults>>

RestartWorker(w) ==
    /\ ~worker[w].up
    /\ worker' = [worker EXCEPT ![w] = IdleWorker]
    /\ UNCHANGED <<reminders, outbox, audit, dispatcher, command, delivered, faults>>

-----------------------------------------------------------------------------
Tick(d) ==
    ClaimDue(d) \/ DispatcherExit(d) \/ \E i \in dispatcher[d].todo : CommitOccurrence(d, i)

Work(w) ==
    \/ ClaimDeliveries(w) \/ CompleteDelivery(w) \/ FailDelivery(w) \/ RetryLater(w)
    \/ WorkerExit(w) \/ \E i \in worker[w].todo : Deliver(w, i)

Next ==
    \/ \E r \in Reminders : Create(r) \/ FallDue(r) \/ DueLeaseLapses(r)
    \/ \E c \in Commands : Mutate(c) \/ \E r \in Reminders : ReadTarget(c, r)
    \/ \E d \in Dispatchers : Tick(d) \/ StopDispatcher(d) \/ RestartDispatcher(d)
    \/ \E w \in Workers : Work(w) \/ StopWorker(w) \/ RestartWorker(w)
    \/ \E k \in DOMAIN outbox : BecomesReady(k)

Spec == Init /\ [][Next]_vars

\* Time passes, and a goroutine that is up keeps ticking.
Progress ==
    /\ \A r \in Reminders : WF_vars(FallDue(r)) /\ WF_vars(DueLeaseLapses(r))
    /\ WF_vars(\E k \in DOMAIN outbox : BecomesReady(k))
    /\ \A d \in Dispatchers : WF_vars(Tick(d))
    /\ \A w \in Workers : WF_vars(Work(w))

\* A restart is possible and never owed: Dispatcher.Run and Worker.Run return on
\* an error, and nothing in the process starts them again.
FairSpec == Spec /\ Progress

-----------------------------------------------------------------------------
(* Properties *)

TypeOK ==
    /\ reminders \in [Reminders -> Reminder]
    /\ DOMAIN outbox \subseteq Key
    /\ \A k \in DOMAIN outbox : outbox[k] \in Delivery
    /\ audit \in [Reminders -> Seq(Status)]
    /\ dispatcher \in [Dispatchers -> [up : BOOLEAN, todo : SUBSET Claimed]]
    /\ worker \in [Workers -> [up : BOOLEAN, todo : SUBSET Item,
                               result : Result \union {NoResult}]]
    /\ command \in [Commands -> Command \union {NoCommand}]
    /\ delivered \subseteq Key
    /\ faults \in Nat

\* A reminder and its delivery move together: none before the trigger or after
\* a cancellation, then open, completed or failed as the reminder is.
Agree(s, t) ==
    \/ s = "processing" /\ t \in {"pending", "processing"}
    \/ s = "fired" /\ t = "completed"
    \/ s = "failed" /\ t = "permanent_failed"

OutboxMatchesStatus ==
    \A r \in Reminders :
        /\ \A k \in DOMAIN outbox : k[1] = r => Agree(reminders[r].status, outbox[k].status)
        /\ reminders[r].status \in {"processing", "fired", "failed"} =>
               \E k \in DOMAIN outbox : k[1] = r

\* A reminder has one occurrence, so the provider sees one key for it and its
\* idempotency makes every repeated call the same notification.
OneOccurrence ==
    \A j, k \in DOMAIN outbox \union delivered : j[1] = k[1] => j = k

\* An update that moves the trigger time also defeats a claim taken before it:
\* nothing is triggered before the time the row names.
NeverEarly ==
    \A r \in Reminders : reminders[r].status \in {"processing", "fired", "failed"} =>
                             reminders[r].due

\* A claimed version has no occurrence yet: CommitOccurrence creates one and
\* never returns the row of another claim.
NewOccurrence ==
    \A d \in Dispatchers : \A i \in dispatcher[d].todo : <<i.id, i.version>> \notin DOMAIN outbox

\* A row that waits for a retry has an attempt left: exhausted rows are closed
\* by the worker that used the last attempt, never parked.
RetriesAreBounded ==
    \A k \in DOMAIN outbox : outbox[k].status = "pending" => outbox[k].attempt < MaxAttempts

\* The event log explains the status: it is a legal path that ends there.
AuditExplainsStatus ==
    \A r \in Reminders :
        LET log == audit[r]
        IN  /\ reminders[r].status = IF log = <<>> THEN "none" ELSE log[Len(log)]
            /\ \A n \in 1 .. Len(log) :
                  LET old == IF n = 1 THEN "none" ELSE log[n - 1]
                  IN  CanTransition(old, log[n]) \/ (old = "scheduled" /\ log[n] = "scheduled")

\* What the properties above rest on.
\* A version is claimed once, and is current only while its claim is due.
ClaimsBehind ==
    /\ \A d \in Dispatchers : \A i \in dispatcher[d].todo :
          /\ i.version <= reminders[i.id].version
          /\ i.version = reminders[i.id].version => reminders[i.id].due
    /\ \A d, e \in Dispatchers : \A i \in dispatcher[d].todo \intersect dispatcher[e].todo : d = e
    /\ \A k \in DOMAIN outbox : k[2] < reminders[k[1]].version

\* A claimed row names its claimer and its attempt.
TokenNamesAttempt ==
    \A k \in DOMAIN outbox : outbox[k].status = "processing" =>
        \E w \in Workers : outbox[k].token = <<w, outbox[k].attempt>>

\* Workers hold rows that exist; a success in hand was accepted, and so was a
\* reminder reported as fired.
Accounted ==
    /\ \A w \in Workers :
          /\ \A i \in worker[w].todo : i.key \in DOMAIN outbox
          /\ worker[w].result # NoResult =>
                /\ worker[w].result.item.key \in DOMAIN outbox
                /\ worker[w].result.outcome = "ok" => worker[w].result.item.key \in delivered
    /\ delivered \subseteq DOMAIN outbox
    /\ \A k \in DOMAIN outbox : outbox[k].status = "completed" => k \in delivered

IInv ==
    /\ TypeOK
    /\ OutboxMatchesStatus
    /\ OneOccurrence
    /\ NeverEarly
    /\ NewOccurrence
    /\ RetriesAreBounded
    /\ AuditExplainsStatus
    /\ ClaimsBehind
    /\ TokenNamesAttempt
    /\ Accounted

Ended(r) ==
    \/ reminders[r].status \in {"fired", "failed", "cancelled"}
    \/ reminders[r].status = "scheduled" /\ ~reminders[r].due

\* A due reminder ends as long as some dispatcher and some worker run: it is
\* fired, or reported as failed, unless the user moves or cancels it first.
\* Lapsed claims, the batch a dead dispatcher left behind, deliveries taken over
\* or abandoned and a failing provider only delay it. A loop that ends on a lost
\* race takes the promise with it until somebody starts it again.
DueSettles ==
    \A r \in Reminders :
        reminders[r].status = "processing" \/ (reminders[r].status = "scheduled" /\ reminders[r].due) ~>
            \/ Ended(r)
            \/ \A d \in Dispatchers : ~dispatcher[d].up
            \/ \A w \in Workers : ~worker[w].up

\* What docs/api/agent-reminder-api.md:38 promises: a due reminder is delivered at
\* least once, or reported, whatever the loops meet.
AtLeastOnce ==
    \A r \in Reminders : reminders[r].status = "scheduled" /\ reminders[r].due ~> Ended(r)

\* The tables implement the life cycle a user sees.
Lifecycle == INSTANCE ReminderLifecycle WITH
    status <- [r \in Reminders |-> reminders[r].status],
    sent <- {k[1] : k \in delivered}
LifecycleSpec == Lifecycle!Spec
=============================================================================
