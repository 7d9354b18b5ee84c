---------------------- MODULE ReminderDeliveryProofs ----------------------
(***************************************************************************)
(* Machine-checked proofs about ReminderDelivery, for every number of      *)
(* reminders, dispatchers, workers and commands, every batch size, every   *)
(* number of attempts and any number of crashes and lapsed leases.         *)
(***************************************************************************)
EXTENDS ReminderDelivery, TLAPS

-----------------------------------------------------------------------------
(* What the row operators do, field by field *)

\* Moved sets the status and bumps the version, and nothing else.
LEMMA MovedFields ==
    ASSUME NEW m \in Reminder, NEW s \in Status
    PROVE  /\ Moved(m, s) \in Reminder
           /\ Moved(m, s).status = s /\ Moved(m, s).version = m.version + 1
           /\ Moved(m, s).due = m.due /\ Moved(m, s).token = m.token
           /\ Moved(m, s).leased = m.leased
<1>1. m.version + 1 \in Nat
  BY DEF Reminder
<1>2. \A n \in Nat : [m EXCEPT !.status = s, !.version = n] \in Reminder
  BY DEF Reminder
<1>3. Moved(m, s) \in Reminder
  BY <1>1, <1>2, Zenon DEF Moved
<1> QED
  BY <1>3 DEF Moved, Reminder

\* Leased takes the row for d under a version of its own.
LEMMA LeasedFields ==
    ASSUME NEW m \in Reminder, NEW d \in Dispatchers
    PROVE  /\ Leased(d, m) \in Reminder
           /\ Leased(d, m).status = m.status /\ Leased(d, m).version = m.version + 1
           /\ Leased(d, m).due = m.due
<1>1. m.version + 1 \in Nat
  BY DEF Reminder
<1>2. \A n \in Nat : [m EXCEPT !.version = n, !.token = <<d, n>>, !.leased = TRUE] \in Reminder
  BY DEF Reminder
<1>3. Leased(d, m) \in Reminder
  BY <1>1, <1>2, Zenon DEF Leased
<1> QED
  BY <1>3 DEF Leased, Reminder

\* Closed sets a final delivery status and keeps the attempt.
LEMMA ClosedFields ==
    ASSUME NEW row \in Delivery, NEW s \in DeliveryStatus
    PROVE  /\ Closed(row, s) \in Delivery
           /\ Closed(row, s).status = s /\ Closed(row, s).attempt = row.attempt
BY DEF Closed, Delivery

\* Writing one event extends the log of its reminder and no other.
LEMMA LoggedFields ==
    ASSUME TypeOK, NEW r \in Reminders, NEW s \in Status
    PROVE  /\ Logged(r, s) \in [Reminders -> Seq(Status)]
           /\ Logged(r, s)[r] = Append(audit[r], s)
           /\ \A q \in Reminders \ {r} : Logged(r, s)[q] = audit[q]
BY DEF TypeOK, Logged

-----------------------------------------------------------------------------
(* The event log *)

LegalLog(status, log) ==
    /\ status = IF log = <<>> THEN "none" ELSE log[Len(log)]
    /\ \A n \in 1 .. Len(log) :
          LET old == IF n = 1 THEN "none" ELSE log[n - 1]
          IN  CanTransition(old, log[n]) \/ (old = "scheduled" /\ log[n] = "scheduled")

\* A legal log stays legal when an event for a legal transition is appended.
LEMMA LogExtends ==
    ASSUME NEW log \in Seq(Status), NEW status, NEW s \in Status,
           LegalLog(status, log),
           CanTransition(status, s) \/ (status = "scheduled" /\ s = "scheduled")
    PROVE  LegalLog(s, Append(log, s))
<1> DEFINE new == Append(log, s)
<1>1. /\ Len(log) \in Nat /\ Len(new) = Len(log) + 1 /\ new[Len(new)] = s /\ new # <<>>
      /\ \A n \in 1 .. Len(log) : new[n] = log[n]
  OBVIOUS
<1>2. ASSUME NEW n \in 1 .. Len(new)
      PROVE  LET old == IF n = 1 THEN "none" ELSE new[n - 1]
             IN  CanTransition(old, new[n]) \/ (old = "scheduled" /\ new[n] = "scheduled")
  <2>1. CASE n = Len(new)
    <3>1. CASE log = <<>>
      BY <1>1, <2>1, <3>1 DEF LegalLog
    <3>2. CASE log # <<>>
      <4>1. Len(log) \in 1 .. Len(log) /\ n # 1 /\ n - 1 = Len(log)
        BY <1>1, <2>1, <3>2
      <4> QED
        BY <1>1, <2>1, <3>2, <4>1 DEF LegalLog
    <3> QED
      BY <3>1, <3>2
  <2>2. CASE n # Len(new)
    <3>1. n \in 1 .. Len(log) /\ (n # 1 => n - 1 \in 1 .. Len(log))
      BY <1>1, <2>2
    <3> QED
      BY <1>1, <3>1 DEF LegalLog
  <2> QED
    BY <2>1, <2>2
<1> HIDE DEF new
<1> QED
  BY <1>1, <1>2 DEF LegalLog, new

\* The audit property, read reminder by reminder.
LEMMA AuditByReminder ==
    AuditExplainsStatus <=> \A r \in Reminders : LegalLog(reminders[r].status, audit[r])
BY DEF AuditExplainsStatus, LegalLog

\* The same of the next state.
LEMMA AuditByReminderNext ==
    AuditExplainsStatus' <=> \A r \in Reminders : LegalLog(reminders'[r].status, audit'[r])
BY DEF AuditExplainsStatus, LegalLog

-----------------------------------------------------------------------------
(* Steps that give up claims *)

Triggered == {"processing", "fired", "failed"}

\* A dispatcher that only drops claims, or comes back without any, disturbs nothing.
LEMMA DispatcherDrops ==
    ASSUME IInv, UNCHANGED <<reminders, outbox, audit, worker, command, delivered>>,
           faults' \in Nat,
           dispatcher' \in [Dispatchers -> [up : BOOLEAN, todo : SUBSET Claimed]],
           \A d \in Dispatchers : dispatcher'[d].todo \subseteq dispatcher[d].todo
    PROVE  IInv'
<1>1. TypeOK'
  BY DEF IInv, TypeOK
<1>2. /\ OutboxMatchesStatus' /\ OneOccurrence' /\ NeverEarly' /\ RetriesAreBounded'
      /\ AuditExplainsStatus' /\ TokenNamesAttempt' /\ Accounted'
  BY DEF IInv, OutboxMatchesStatus, OneOccurrence, NeverEarly, RetriesAreBounded,
         AuditExplainsStatus, TokenNamesAttempt, Accounted
<1>3. NewOccurrence' /\ ClaimsBehind'
  BY DEF IInv, NewOccurrence, ClaimsBehind
<1> QED
  BY <1>1, <1>2, <1>3 DEF IInv

\* The same for a worker that drops claims and results.
LEMMA WorkerDrops ==
    ASSUME IInv, UNCHANGED <<reminders, outbox, audit, dispatcher, command, delivered>>,
           faults' \in Nat,
           worker' \in [Workers -> [up : BOOLEAN, todo : SUBSET Item,
                                    result : Result \union {NoResult}]],
           \A w \in Workers : /\ worker'[w].todo \subseteq worker[w].todo
                              /\ worker'[w].result \in {worker[w].result, NoResult}
    PROVE  IInv'
<1>1. TypeOK'
  BY DEF IInv, TypeOK
<1>2. /\ OutboxMatchesStatus' /\ OneOccurrence' /\ NeverEarly' /\ RetriesAreBounded'
      /\ AuditExplainsStatus' /\ TokenNamesAttempt' /\ NewOccurrence' /\ ClaimsBehind'
  BY DEF IInv, OutboxMatchesStatus, OneOccurrence, NeverEarly, RetriesAreBounded,
         AuditExplainsStatus, TokenNamesAttempt, NewOccurrence, ClaimsBehind
<1>3. Accounted'
  BY DEF IInv, Accounted
<1> QED
  BY <1>1, <1>2, <1>3 DEF IInv

\* Writing one reminder row, as users and the clock do, keeps every property
\* provided the row has no delivery or keeps its status, and a claim of it that
\* stays current stays due.
LEMMA RowWritten ==
    ASSUME IInv, NEW r \in Reminders, NEW m \in Reminder,
           reminders' = [reminders EXCEPT ![r] = m],
           UNCHANGED <<outbox, dispatcher, worker, command, delivered>>,
           faults' \in Nat,
           audit' \in [Reminders -> Seq(Status)],
           \A q \in Reminders \ {r} : audit'[q] = audit[q],
           LegalLog(m.status, audit'[r]),
           \/ m.status = reminders[r].status
           \/ {m.status, reminders[r].status} \intersect Triggered = {},
           m.status \in Triggered => m.due,
           \/ m.version = reminders[r].version /\ (reminders[r].due => m.due)
           \/ m.version = reminders[r].version + 1
    PROVE  IInv'
<1>1. /\ reminders'[r] = m
      /\ \A q \in Reminders \ {r} : reminders'[q] = reminders[q]
      /\ reminders' \in [Reminders -> Reminder]
      /\ \A q \in Reminders : reminders[q] \in Reminder /\ reminders[q].version \in Nat
  BY DEF IInv, TypeOK, Reminder
<1>2. TypeOK'
  BY <1>1 DEF IInv, TypeOK
<1>3. OutboxMatchesStatus'
  <2>1. \A k \in DOMAIN outbox : k \in Key
    BY DEF IInv, TypeOK
  <2>2. SUFFICES ASSUME NEW q \in Reminders
                 PROVE  /\ \A k \in DOMAIN outbox : k[1] = q =>
                               Agree(reminders'[q].status, outbox[k].status)
                        /\ reminders'[q].status \in Triggered =>
                               \E k \in DOMAIN outbox : k[1] = q
    BY DEF OutboxMatchesStatus, Triggered
  <2>3. /\ \A k \in DOMAIN outbox : k[1] = q =>
               Agree(reminders[q].status, outbox[k].status)
        /\ reminders[q].status \in Triggered => \E k \in DOMAIN outbox : k[1] = q
    BY DEF IInv, OutboxMatchesStatus, Triggered
  <2>4. CASE reminders'[q].status = reminders[q].status
    BY <2>3, <2>4
  <2>5. CASE q = r /\ {m.status, reminders[r].status} \intersect Triggered = {}
    BY <1>1, <2>3, <2>5 DEF Agree, Triggered
  <2> QED
    BY <1>1, <2>4, <2>5
<1>4. OneOccurrence' /\ NewOccurrence' /\ RetriesAreBounded' /\ TokenNamesAttempt' /\ Accounted'
  BY DEF IInv, OneOccurrence, NewOccurrence, RetriesAreBounded, TokenNamesAttempt, Accounted
<1>5. NeverEarly'
  BY <1>1 DEF IInv, NeverEarly, Triggered
<1>6. AuditExplainsStatus'
  BY <1>1, AuditByReminder, AuditByReminderNext DEF IInv
<1>7. ClaimsBehind'
  <2>1. \A d \in Dispatchers : \A i \in dispatcher[d].todo :
           i.id \in Reminders /\ i.version \in Nat
    BY DEF IInv, TypeOK, Claimed
  <2>2. \A k \in DOMAIN outbox : k[1] \in Reminders /\ k[2] \in Nat
    BY DEF IInv, TypeOK, Key
  <2>3. \A d \in Dispatchers : \A i \in dispatcher[d].todo :
           /\ i.version <= reminders'[i.id].version
           /\ i.version = reminders'[i.id].version => reminders'[i.id].due
    BY <1>1, <2>1 DEF IInv, ClaimsBehind
  <2>4. \A k \in DOMAIN outbox : k[2] < reminders'[k[1]].version
    BY <1>1, <2>2 DEF IInv, ClaimsBehind
  <2> QED
    BY <2>3, <2>4 DEF IInv, ClaimsBehind
<1> QED
  BY <1>2, <1>3, <1>4, <1>5, <1>6, <1>7 DEF IInv


-----------------------------------------------------------------------------
(* Users and time *)

\* A new reminder starts its log and has no delivery.
LEMMA CreateStep == ASSUME IInv, NEW r \in Reminders, Create(r) PROVE IInv'
<1> DEFINE m == Moved(reminders[r], "scheduled")
<1>1. reminders[r] \in Reminder /\ "scheduled" \in Status /\ TypeOK
  BY DEF IInv, TypeOK, Status
<1>2. /\ m \in Reminder /\ m.status = "scheduled"
      /\ m.version = reminders[r].version + 1
  BY <1>1, MovedFields
<1>3. /\ reminders' = [reminders EXCEPT ![r] = m] /\ audit' = Logged(r, "scheduled")
      /\ reminders[r].status = "none" /\ faults' \in Nat
  BY DEF Create, IInv, TypeOK
<1>4. /\ audit' \in [Reminders -> Seq(Status)] /\ audit'[r] = Append(audit[r], "scheduled")
      /\ \A q \in Reminders \ {r} : audit'[q] = audit[q]
  BY <1>1, <1>3, LoggedFields
<1>5. LegalLog(m.status, audit'[r])
  <2>1. audit[r] \in Seq(Status) /\ LegalLog(reminders[r].status, audit[r])
    BY <1>1, AuditByReminder DEF IInv, TypeOK
  <2> QED
    BY <1>1, <1>2, <1>3, <1>4, <2>1, LogExtends DEF CanTransition
<1>6. UNCHANGED <<outbox, dispatcher, worker, command, delivered>>
      /\ {m.status, reminders[r].status} \intersect Triggered = {}
  BY <1>2, <1>3 DEF Create, Triggered
<1>7. m.status \notin Triggered
  BY <1>6
<1> HIDE DEF m
<1> QED
  BY <1>2, <1>3, <1>4, <1>5, <1>6, <1>7, RowWritten

\* Reading a target only records the command.
LEMMA ReadTargetStep ==
    ASSUME IInv, NEW c \in Commands, NEW r \in Reminders, ReadTarget(c, r)
    PROVE  IInv'
<1>1. TypeOK'
  <2>1. reminders[r].version \in Nat
    BY DEF IInv, TypeOK, Reminder
  <2> QED
    BY <2>1 DEF ReadTarget, IInv, TypeOK, Command
<1> QED
  BY <1>1 DEF ReadTarget, IInv, OutboxMatchesStatus, OneOccurrence, NeverEarly, NewOccurrence,
         RetriesAreBounded, AuditExplainsStatus, ClaimsBehind, TokenNamesAttempt, Accounted

\* An update or a cancellation bumps the version of a row without delivery.
LEMMA MutateStep == ASSUME IInv, NEW c \in Commands, Mutate(c) PROVE IInv'
<1>0. command[c] \in Command /\ TypeOK
  BY DEF IInv, TypeOK, Mutate, TargetUnchanged
<1> DEFINE r == command[c].id
           cancels == [Moved(reminders[r], "cancelled") EXCEPT !.token = NoToken, !.leased = FALSE]
           moves == [Moved(reminders[r], "scheduled") EXCEPT !.due = FALSE]
           new == IF command[c].kind = "cancel" THEN cancels ELSE moves
<1>1. /\ r \in Reminders /\ reminders[r] \in Reminder /\ reminders[r].status = "scheduled"
      /\ faults' \in Nat
  BY <1>0 DEF Command, TypeOK, Mutate, TargetUnchanged
<1>2. /\ reminders' = [reminders EXCEPT ![r] = new] /\ audit' = Logged(r, new.status)
      /\ UNCHANGED <<outbox, dispatcher, worker, command, delivered>>
  BY DEF Mutate
<1>3. /\ cancels \in Reminder /\ cancels.status = "cancelled"
      /\ cancels.version = reminders[r].version + 1
  <2>1. \A m \in Reminder : LET n == [m EXCEPT !.token = NoToken, !.leased = FALSE]
                             IN  n \in Reminder /\ n.status = m.status /\ n.version = m.version
    BY DEF Reminder
  <2>2. "cancelled" \in Status
    BY DEF Status
  <2>3. LET m == Moved(reminders[r], "cancelled")
        IN  m \in Reminder /\ m.status = "cancelled" /\ m.version = reminders[r].version + 1
    BY <1>1, <2>2, MovedFields
  <2> QED
    BY <2>1, <2>3, Zenon
<1>4. /\ moves \in Reminder /\ moves.status = "scheduled"
      /\ moves.version = reminders[r].version + 1
  <2>1. \A m \in Reminder : LET n == [m EXCEPT !.due = FALSE]
                             IN  n \in Reminder /\ n.status = m.status /\ n.version = m.version
    BY DEF Reminder
  <2>2. "scheduled" \in Status
    BY DEF Status
  <2> QED
    BY <1>1, <2>1, <2>2, MovedFields
<1>5. /\ new \in Reminder /\ new.status \in {"cancelled", "scheduled"} /\ new.status \in Status
      /\ new.version = reminders[r].version + 1
  BY <1>3, <1>4 DEF Status
<1>6. /\ audit' \in [Reminders -> Seq(Status)] /\ audit'[r] = Append(audit[r], new.status)
      /\ \A q \in Reminders \ {r} : audit'[q] = audit[q]
  <2> HIDE DEF r, new
  <2> QED
    BY <1>0, <1>1, <1>2, <1>5, LoggedFields
<1>7. LegalLog(new.status, audit'[r])
  <2>1. audit[r] \in Seq(Status) /\ LegalLog(reminders[r].status, audit[r])
    BY <1>0, <1>1, AuditByReminder DEF IInv, TypeOK
  <2>2. CanTransition("scheduled", new.status) \/ new.status = "scheduled"
    BY <1>5 DEF CanTransition
  <2> HIDE DEF r, new
  <2> QED
    BY <1>1, <1>5, <1>6, <2>1, <2>2, LogExtends
<1> HIDE DEF r, new
<1> QED
  BY <1>1, <1>2, <1>5, <1>6, <1>7, RowWritten DEF Triggered

\* Time passes: a trigger time is reached.
LEMMA FallDueStep == ASSUME IInv, NEW r \in Reminders, FallDue(r) PROVE IInv'
<1> DEFINE m == [reminders[r] EXCEPT !.due = TRUE]
<1>1. reminders[r] \in Reminder /\ faults' \in Nat
  BY DEF IInv, TypeOK, FallDue
<1>2. /\ m \in Reminder /\ m.status = reminders[r].status /\ m.version = reminders[r].version
      /\ m.due
  BY <1>1 DEF Reminder
<1>3. reminders' = [reminders EXCEPT ![r] = m]
  BY DEF FallDue
<1>4. audit' = audit /\ audit \in [Reminders -> Seq(Status)]
      /\ LegalLog(reminders[r].status, audit[r])
  BY AuditByReminder DEF FallDue, IInv, TypeOK
<1>5. UNCHANGED <<outbox, dispatcher, worker, command, delivered>>
  BY DEF FallDue
<1> HIDE DEF m
<1>6. LegalLog(m.status, audit'[r]) /\ audit' \in [Reminders -> Seq(Status)]
      /\ \A q \in Reminders \ {r} : audit'[q] = audit[q]
  BY <1>2, <1>4
<1>7. m.version = reminders[r].version /\ (reminders[r].due => m.due)
  BY <1>2
<1> QED
  BY <1>1, <1>2, <1>3, <1>5, <1>6, <1>7, RowWritten

\* Time passes: the lease of a claimed reminder lapses.
LEMMA DueLeaseLapsesStep == ASSUME IInv, NEW r \in Reminders, DueLeaseLapses(r) PROVE IInv'
<1> DEFINE m == [reminders[r] EXCEPT !.leased = FALSE]
<1>1. reminders[r] \in Reminder /\ faults' \in Nat
  BY DEF IInv, TypeOK, DueLeaseLapses, Passes
<1>2. /\ m \in Reminder /\ m.status = reminders[r].status /\ m.version = reminders[r].version
      /\ m.due = reminders[r].due
  BY <1>1 DEF Reminder
<1>3. reminders' = [reminders EXCEPT ![r] = m]
  BY DEF DueLeaseLapses
<1>4. audit' = audit /\ audit \in [Reminders -> Seq(Status)]
      /\ LegalLog(reminders[r].status, audit[r])
  BY AuditByReminder DEF DueLeaseLapses, IInv, TypeOK
<1>5. m.status \in Triggered => m.due
  BY <1>2 DEF IInv, NeverEarly, Triggered
<1>6. UNCHANGED <<outbox, dispatcher, worker, command, delivered>>
  BY DEF DueLeaseLapses
<1> HIDE DEF m
<1>7. LegalLog(m.status, audit'[r]) /\ audit' \in [Reminders -> Seq(Status)]
      /\ \A q \in Reminders \ {r} : audit'[q] = audit[q]
  BY <1>2, <1>4
<1>8. m.version = reminders[r].version /\ (reminders[r].due => m.due)
  BY <1>2
<1> QED
  BY <1>1, <1>2, <1>3, <1>5, <1>6, <1>7, <1>8, RowWritten

\* Time passes: a backoff ends or a lease on a delivery lapses.
LEMMA BecomesReadyStep == ASSUME IInv, NEW k \in DOMAIN outbox, BecomesReady(k) PROVE IInv'
<1>1. /\ DOMAIN outbox' = DOMAIN outbox /\ outbox[k] \in Delivery
      /\ \A x \in DOMAIN outbox : /\ outbox'[x] \in Delivery
                                  /\ outbox'[x].status = outbox[x].status
                                  /\ outbox'[x].attempt = outbox[x].attempt
                                  /\ outbox'[x].token = outbox[x].token
  BY DEF BecomesReady, IInv, TypeOK, Delivery
<1>2. TypeOK'
  <2>1. faults' \in Nat
    BY DEF BecomesReady, Passes, IInv, TypeOK
  <2>2. UNCHANGED <<reminders, audit, dispatcher, worker, command, delivered>>
    BY DEF BecomesReady
  <2> QED
    BY <1>1, <2>1, <2>2 DEF IInv, TypeOK
<1>3. OutboxMatchesStatus' /\ OneOccurrence' /\ RetriesAreBounded' /\ TokenNamesAttempt'
  BY <1>1 DEF BecomesReady, IInv, OutboxMatchesStatus, OneOccurrence, RetriesAreBounded,
              TokenNamesAttempt
<1>4. NeverEarly' /\ NewOccurrence' /\ AuditExplainsStatus' /\ ClaimsBehind' /\ Accounted'
  BY <1>1 DEF BecomesReady, IInv, NeverEarly, NewOccurrence, AuditExplainsStatus, ClaimsBehind,
              Accounted
<1> QED
  BY <1>2, <1>3, <1>4 DEF IInv


-----------------------------------------------------------------------------
(* Dispatchers *)

\* A batch is claimed: each row gets a version nobody has seen.
LEMMA ClaimDueStep == ASSUME IInv, NEW d \in Dispatchers, ClaimDue(d) PROVE IInv'
<1>1. PICK S \in SUBSET DueRows :
         /\ reminders' = [r \in Reminders |->
                IF r \in S THEN Leased(d, reminders[r]) ELSE reminders[r]]
         /\ dispatcher' = [dispatcher EXCEPT ![d].todo =
                {[id |-> r, version |-> Leased(d, reminders[r]).version] : r \in S}]
  BY DEF ClaimDue
<1>2. UNCHANGED <<outbox, audit, worker, command, delivered, faults>>
  BY DEF ClaimDue
<1>3. \A r \in Reminders : reminders[r] \in Reminder /\ reminders[r].version \in Nat
  BY DEF IInv, TypeOK, Reminder
<1>4. \A r \in S : r \in Reminders /\ reminders[r].due
  BY DEF DueRows
<1>5. \A r \in Reminders :
         /\ reminders'[r] \in Reminder
         /\ reminders'[r].status = reminders[r].status /\ reminders'[r].due = reminders[r].due
         /\ r \in S => reminders'[r].version = reminders[r].version + 1
         /\ r \notin S => reminders'[r].version = reminders[r].version
  <2> SUFFICES ASSUME NEW r \in Reminders
               PROVE  /\ reminders'[r] \in Reminder
                      /\ reminders'[r].status = reminders[r].status
                      /\ reminders'[r].due = reminders[r].due
                      /\ r \in S => reminders'[r].version = reminders[r].version + 1
                      /\ r \notin S => reminders'[r].version = reminders[r].version
    OBVIOUS
  <2>1. reminders'[r] = IF r \in S THEN Leased(d, reminders[r]) ELSE reminders[r]
    BY <1>1
  <2>2. /\ Leased(d, reminders[r]) \in Reminder
        /\ Leased(d, reminders[r]).status = reminders[r].status
        /\ Leased(d, reminders[r]).version = reminders[r].version + 1
        /\ Leased(d, reminders[r]).due = reminders[r].due
    BY <1>3, LeasedFields
  <2> QED
    BY <1>3, <2>1, <2>2
<1> DEFINE new == {[id |-> r, version |-> reminders[r].version + 1] : r \in S}
<1>6. /\ dispatcher'[d].todo = new
      /\ dispatcher'[d].up = dispatcher[d].up
      /\ \A e \in Dispatchers \ {d} : dispatcher'[e] = dispatcher[e]
      /\ DOMAIN dispatcher' = Dispatchers
  <2>1. \A r \in S : Leased(d, reminders[r]).version = reminders[r].version + 1
    BY <1>3, <1>4, LeasedFields
  <2>2. new = {[id |-> r, version |-> Leased(d, reminders[r]).version] : r \in S}
    BY <2>1
  <2> HIDE DEF new
  <2> QED
    BY <1>1, <2>2 DEF IInv, TypeOK
<1>7. \A i \in new : /\ i.id \in S /\ i.id \in Reminders /\ i.version \in Nat
                     /\ i \in Claimed
                     /\ i.version = reminders[i.id].version + 1
  BY <1>3, <1>4 DEF Claimed
<1>8. \A e \in Dispatchers : \A i \in dispatcher[e].todo :
         /\ i.id \in Reminders /\ i.version \in Nat
         /\ i.version <= reminders[i.id].version
         /\ i.version = reminders[i.id].version => reminders[i.id].due
  BY DEF IInv, TypeOK, Claimed, ClaimsBehind
<1>9. \A k \in DOMAIN outbox : k[1] \in Reminders /\ k[2] \in Nat /\ k[2] < reminders[k[1]].version
  BY DEF IInv, TypeOK, Key, ClaimsBehind
<1> HIDE DEF new
<1>10. TypeOK'
  <2>1. reminders' \in [Reminders -> Reminder]
    BY <1>1, <1>5
  <2>2. dispatcher'[d] \in [up : BOOLEAN, todo : SUBSET Claimed]
    <3>1. dispatcher[d] \in [up : BOOLEAN, todo : SUBSET Claimed]
      BY DEF IInv, TypeOK
    <3>2. dispatcher'[d] = [dispatcher[d] EXCEPT !.todo = new]
      BY <1>1, <1>6 DEF IInv, TypeOK
    <3> QED
      BY <1>7, <3>1, <3>2
  <2>3. dispatcher' \in [Dispatchers -> [up : BOOLEAN, todo : SUBSET Claimed]]
    <3>1. \A e \in Dispatchers : dispatcher'[e] \in [up : BOOLEAN, todo : SUBSET Claimed]
      BY <1>6, <2>2 DEF IInv, TypeOK
    <3>2. dispatcher' = [e \in Dispatchers |-> dispatcher'[e]]
      BY <1>1 DEF IInv, TypeOK
    <3> QED
      BY <3>1, <3>2
  <2> QED
    BY <1>2, <2>1, <2>3 DEF IInv, TypeOK
<1>11. /\ OutboxMatchesStatus' /\ OneOccurrence' /\ NeverEarly' /\ RetriesAreBounded'
       /\ TokenNamesAttempt' /\ Accounted'
  BY <1>2, <1>5 DEF IInv, OutboxMatchesStatus, OneOccurrence, NeverEarly, RetriesAreBounded,
                    TokenNamesAttempt, Accounted
<1>12. AuditExplainsStatus'
  BY <1>2, <1>5, AuditByReminder, AuditByReminderNext DEF IInv
<1>13. NewOccurrence'
  <2> SUFFICES ASSUME NEW e \in Dispatchers, NEW i \in dispatcher'[e].todo
               PROVE  <<i.id, i.version>> \notin DOMAIN outbox
    BY <1>2 DEF NewOccurrence
  <2>1. CASE e = d
    <3>1. i.version = reminders[i.id].version + 1 /\ i.id \in Reminders
      BY <1>6, <1>7, <2>1
    <3> QED
      BY <1>3, <1>9, <3>1
  <2>2. CASE e # d
    BY <1>6, <2>2 DEF IInv, NewOccurrence
  <2> QED
    BY <2>1, <2>2
<1>14. ClaimsBehind'
  <2>1. ASSUME NEW e \in Dispatchers, NEW i \in dispatcher'[e].todo
        PROVE  /\ i.version <= reminders'[i.id].version
               /\ i.version = reminders'[i.id].version => reminders'[i.id].due
    <3>1. CASE e = d
      BY <1>3, <1>4, <1>5, <1>6, <1>7, <3>1
    <3>2. CASE e # d
      <4>1. i \in dispatcher[e].todo
        BY <1>6, <3>2
      <4> QED
        BY <1>3, <1>5, <1>8, <4>1
    <3> QED
      BY <3>1, <3>2
  <2>2. ASSUME NEW e \in Dispatchers, NEW f \in Dispatchers,
               NEW i \in dispatcher'[e].todo \intersect dispatcher'[f].todo
        PROVE  e = f
    <3>1. ASSUME NEW g \in Dispatchers, g # d, i \in dispatcher'[g].todo, i \in new
          PROVE  FALSE
      <4>1. i \in dispatcher[g].todo
        BY <1>6, <3>1
      <4> QED
        BY <1>3, <1>7, <1>8, <3>1, <4>1
    <3>2. CASE e # d /\ f # d
      BY <1>6, <3>2 DEF IInv, ClaimsBehind
    <3> QED
      BY <1>6, <3>1, <3>2
  <2>3. \A k \in DOMAIN outbox : k[2] < reminders'[k[1]].version
    BY <1>3, <1>5, <1>9
  <2> QED
    BY <1>2, <2>1, <2>2, <2>3 DEF ClaimsBehind
<1> QED
  BY <1>10, <1>11, <1>12, <1>13, <1>14 DEF IInv

\* An occurrence is committed: the claim is current, so the reminder is due and
\* has no delivery yet.
LEMMA CommitOccurrenceStep ==
    ASSUME IInv, NEW d \in Dispatchers, NEW i \in dispatcher[d].todo, CommitOccurrence(d, i)
    PROVE  IInv'
<1> DEFINE r == i.id
           k == <<i.id, i.version>>
           row == [status |-> "pending", attempt |-> 0, ready |-> FALSE, token |-> NoToken]
           m == [Moved(reminders[r], "processing") EXCEPT !.token = NoToken, !.leased = FALSE]
<1>1. /\ r \in Reminders /\ i.version \in Nat /\ reminders[r] \in Reminder /\ k \in Key /\ TypeOK
  BY DEF IInv, TypeOK, Claimed, Key
<1>2. /\ reminders[r].status = "scheduled" /\ reminders[r].version = i.version
      /\ reminders[r].due
  BY DEF CommitOccurrence, HoldsDue, IInv, ClaimsBehind
<1>3. /\ reminders' = [reminders EXCEPT ![r] = m]
      /\ outbox' = [x \in DOMAIN outbox \union {k} |-> IF x = k THEN row ELSE outbox[x]]
      /\ audit' = Logged(r, "processing")
      /\ dispatcher' = [dispatcher EXCEPT ![d].todo = @ \ {i}]
      /\ UNCHANGED <<worker, command, delivered, faults>>
  BY DEF CommitOccurrence
<1>4. /\ m \in Reminder /\ m.status = "processing" /\ m.version = i.version + 1 /\ m.due
  <2>1. \A x \in Reminder : LET n == [x EXCEPT !.token = NoToken, !.leased = FALSE]
                             IN  /\ n \in Reminder /\ n.status = x.status
                                 /\ n.version = x.version /\ n.due = x.due
    BY DEF Reminder
  <2>2. "processing" \in Status
    BY DEF Status
  <2>3. LET x == Moved(reminders[r], "processing")
        IN  /\ x \in Reminder /\ x.status = "processing"
            /\ x.version = i.version + 1 /\ x.due
    BY <1>1, <1>2, <2>2, MovedFields
  <2> QED
    BY <2>1, <2>3, Zenon
<1>5. \A x \in DOMAIN outbox : x[1] # r
  BY <1>1, <1>2 DEF IInv, OutboxMatchesStatus, Agree
<1>6. /\ DOMAIN outbox' = DOMAIN outbox \union {k} /\ outbox'[k] = row
      /\ k[1] = r /\ k[2] = i.version /\ k \notin DOMAIN outbox
      /\ \A x \in DOMAIN outbox : outbox'[x] = outbox[x]
  BY <1>3, <1>5
<1> HIDE DEF m, k
<1>7. /\ reminders'[r] = m /\ \A q \in Reminders \ {r} : reminders'[q] = reminders[q]
      /\ reminders' \in [Reminders -> Reminder]
  BY <1>1, <1>3, <1>4 DEF TypeOK
<1>8. /\ audit' \in [Reminders -> Seq(Status)] /\ audit'[r] = Append(audit[r], "processing")
      /\ \A q \in Reminders \ {r} : audit'[q] = audit[q]
  <2>1. "processing" \in Status
    BY DEF Status
  <2> HIDE DEF r
  <2> QED
    BY <1>1, <1>3, <2>1, LoggedFields
<1>9. /\ dispatcher' \in [Dispatchers -> [up : BOOLEAN, todo : SUBSET Claimed]]
      /\ dispatcher'[d].todo = dispatcher[d].todo \ {i}
      /\ \A e \in Dispatchers \ {d} : dispatcher'[e] = dispatcher[e]
  BY <1>1, <1>3 DEF TypeOK
<1>10. /\ row \in Delivery /\ row.status = "pending" /\ row.attempt = 0
  BY DEF Delivery, DeliveryStatus
<1> HIDE DEF row
<1>11. TypeOK'
  <2>1. /\ DOMAIN outbox' \subseteq Key
        /\ \A x \in DOMAIN outbox' : outbox'[x] \in Delivery
    BY <1>1, <1>6, <1>10 DEF TypeOK
  <2> QED
    BY <1>1, <1>3, <1>7, <1>8, <1>9, <2>1 DEF TypeOK
<1>12. OutboxMatchesStatus'
  <2> SUFFICES ASSUME NEW q \in Reminders
               PROVE  /\ \A x \in DOMAIN outbox' : x[1] = q =>
                             Agree(reminders'[q].status, outbox'[x].status)
                      /\ reminders'[q].status \in {"processing", "fired", "failed"} =>
                             \E x \in DOMAIN outbox' : x[1] = q
    BY DEF OutboxMatchesStatus
  <2>1. CASE q = r
    BY <1>4, <1>5, <1>6, <1>7, <1>10, <2>1 DEF Agree
  <2>2. CASE q # r
    BY <1>6, <1>7, <2>2 DEF IInv, OutboxMatchesStatus
  <2> QED
    BY <2>1, <2>2
<1>13. OneOccurrence'
  <2>1. delivered \subseteq DOMAIN outbox
    BY DEF IInv, Accounted
  <2> QED
    BY <1>3, <1>5, <1>6, <2>1 DEF IInv, OneOccurrence
<1>14. NeverEarly'
  BY <1>4, <1>7 DEF IInv, NeverEarly
<1>15. NewOccurrence'
  <2> SUFFICES ASSUME NEW e \in Dispatchers, NEW j \in dispatcher'[e].todo
               PROVE  <<j.id, j.version>> \notin DOMAIN outbox'
    BY DEF NewOccurrence
  <2>1. j \in dispatcher[e].todo /\ (e = d => j # i)
    BY <1>9
  <2>2. j \in Claimed /\ i \in Claimed
    BY <1>1, <2>1 DEF TypeOK
  <2>3. j # i
    BY <2>1 DEF IInv, ClaimsBehind
  <2>4. <<j.id, j.version>> # k
    BY <2>2, <2>3 DEF Claimed, k
  <2>5. <<j.id, j.version>> \notin DOMAIN outbox
    BY <2>1 DEF IInv, NewOccurrence
  <2> QED
    BY <1>6, <2>4, <2>5
<1>16. RetriesAreBounded'
  BY <1>6, <1>10, DeliveryAssumption DEF IInv, RetriesAreBounded
<1>17. AuditExplainsStatus'
  <2>1. audit[r] \in Seq(Status) /\ LegalLog("scheduled", audit[r]) /\ "processing" \in Status
    BY <1>1, <1>2, AuditByReminder DEF IInv, TypeOK, Status
  <2>2. CanTransition("scheduled", "processing")
    BY DEF CanTransition
  <2>3. LegalLog("processing", audit'[r])
    BY <1>8, <2>1, <2>2, LogExtends
  <2>4. \A q \in Reminders : LegalLog(reminders'[q].status, audit'[q])
    BY <1>4, <1>7, <1>8, <2>3, AuditByReminder DEF IInv
  <2> QED
    BY <2>4, AuditByReminderNext
<1>18. ClaimsBehind'
  <2>0. \A q \in Reminders : reminders[q].version \in Nat
    BY <1>1 DEF TypeOK, Reminder
  <2>1. ASSUME NEW e \in Dispatchers, NEW j \in dispatcher'[e].todo
        PROVE  /\ j.version <= reminders'[j.id].version
               /\ j.version = reminders'[j.id].version => reminders'[j.id].due
    <3>0. j \in dispatcher[e].todo
      BY <1>9
    <3>1. j.id \in Reminders /\ j.version \in Nat
      BY <1>1, <3>0 DEF TypeOK, Claimed
    <3>2. /\ j.version <= reminders[j.id].version
          /\ j.version = reminders[j.id].version => reminders[j.id].due
      BY <3>0 DEF IInv, ClaimsBehind
    <3> QED
      BY <1>2, <1>4, <1>7, <2>0, <3>1, <3>2
  <2>2. \A e, f \in Dispatchers :
           \A j \in dispatcher'[e].todo \intersect dispatcher'[f].todo : e = f
    BY <1>9 DEF IInv, ClaimsBehind
  <2>3. ASSUME NEW x \in DOMAIN outbox' PROVE x[2] < reminders'[x[1]].version
    <3>1. CASE x = k
      BY <1>1, <1>4, <1>6, <1>7, <3>1
    <3>2. CASE x \in DOMAIN outbox
      <4>1. x[1] \in Reminders /\ x[2] \in Nat /\ x[1] # r
        BY <1>1, <1>5, <3>2 DEF TypeOK, Key
      <4> QED
        BY <1>7, <3>2, <4>1 DEF IInv, ClaimsBehind
    <3> QED
      BY <1>6, <3>1, <3>2
  <2> QED
    BY <2>1, <2>2, <2>3 DEF ClaimsBehind
<1>19. TokenNamesAttempt'
  BY <1>6, <1>10 DEF IInv, TokenNamesAttempt
<1>20. Accounted'
  BY <1>3, <1>6, <1>10 DEF IInv, Accounted
<1> QED
  BY <1>11, <1>12, <1>13, <1>14, <1>15, <1>16, <1>17, <1>18, <1>19, <1>20 DEF IInv

\* A dispatcher that loses a race, dies or comes back holds less than before.
LEMMA DispatcherStops ==
    ASSUME IInv, NEW d \in Dispatchers,
           DispatcherExit(d) \/ StopDispatcher(d) \/ RestartDispatcher(d)
    PROVE  IInv'
<1>1. /\ UNCHANGED <<reminders, outbox, audit, worker, command, delivered>>
      /\ faults' \in Nat
      /\ \E u \in BOOLEAN : dispatcher' = [dispatcher EXCEPT ![d] = [up |-> u, todo |-> {}]]
  <2>0. faults \in Nat
    BY DEF IInv, TypeOK
  <2>1. CASE DispatcherExit(d)
    BY <2>0, <2>1 DEF DispatcherExit
  <2>2. CASE StopDispatcher(d)
    <3>1. faults' \in Nat
      BY <2>0, <2>2 DEF StopDispatcher, Passes
    <3>2. dispatcher' = [dispatcher EXCEPT ![d] = [up |-> FALSE, todo |-> {}]]
      BY <2>2 DEF StopDispatcher
    <3> QED
      BY <2>2, <3>1, <3>2, Zenon DEF StopDispatcher
  <2>3. CASE RestartDispatcher(d)
    BY <2>0, <2>3 DEF RestartDispatcher, Idle
  <2> QED
    BY <2>1, <2>2, <2>3
<1>2. /\ dispatcher' \in [Dispatchers -> [up : BOOLEAN, todo : SUBSET Claimed]]
      /\ \A e \in Dispatchers : dispatcher'[e].todo \subseteq dispatcher[e].todo
  BY <1>1 DEF IInv, TypeOK
<1> QED
  BY <1>1, <1>2, DispatcherDrops


-----------------------------------------------------------------------------
(* Workers *)

\* A batch of deliveries is claimed: each row gets the next attempt.
LEMMA ClaimDeliveriesStep == ASSUME IInv, NEW w \in Workers, ClaimDeliveries(w) PROVE IInv'
<1>1. PICK S \in SUBSET ReadyRows :
         /\ outbox' = [k \in DOMAIN outbox |->
                IF k \in S
                THEN [status |-> "processing", attempt |-> outbox[k].attempt + 1,
                      ready |-> FALSE, token |-> <<w, outbox[k].attempt + 1>>]
                ELSE outbox[k]]
         /\ worker' = [worker EXCEPT ![w].todo =
                {[key |-> k, attempt |-> outbox[k].attempt + 1] : k \in S}]
  BY DEF ClaimDeliveries
<1>2. UNCHANGED <<reminders, audit, dispatcher, command, delivered, faults>>
  BY DEF ClaimDeliveries
<1>3. \A k \in S : k \in DOMAIN outbox /\ outbox[k].status \in {"pending", "processing"}
  BY DEF ReadyRows
<1>4. \A k \in DOMAIN outbox : /\ k \in Key /\ k[1] \in Reminders /\ outbox[k] \in Delivery
                               /\ outbox[k].attempt \in Nat
  BY DEF IInv, TypeOK, Key, Delivery
<1>5. /\ DOMAIN outbox' = DOMAIN outbox
      /\ \A k \in S : /\ outbox'[k].status = "processing"
                      /\ outbox'[k].attempt = outbox[k].attempt + 1
                      /\ outbox'[k].token = <<w, outbox[k].attempt + 1>>
                      /\ outbox'[k] \in Delivery
      /\ \A k \in DOMAIN outbox \ S : outbox'[k] = outbox[k]
  <2>1. \A k \in S : outbox'[k] = [status |-> "processing", attempt |-> outbox[k].attempt + 1,
                                   ready |-> FALSE, token |-> <<w, outbox[k].attempt + 1>>]
    BY <1>1, <1>3
  <2>2. \A n \in Nat : [status |-> "processing", attempt |-> n, ready |-> FALSE,
                        token |-> <<w, n>>] \in Delivery
    BY DEF Delivery, DeliveryStatus
  <2>3. \A k \in S : outbox[k].attempt + 1 \in Nat
    BY <1>3, <1>4
  <2>4. \A k \in S : outbox'[k] \in Delivery
    BY <2>1, <2>2, <2>3
  <2>5. DOMAIN outbox' = DOMAIN outbox /\ \A k \in DOMAIN outbox \ S : outbox'[k] = outbox[k]
    BY <1>1
  <2>6. ASSUME NEW k \in S
        PROVE  /\ outbox'[k].status = "processing"
               /\ outbox'[k].attempt = outbox[k].attempt + 1
               /\ outbox'[k].token = <<w, outbox[k].attempt + 1>>
    <3>1. \A n : LET row == [status |-> "processing", attempt |-> n, ready |-> FALSE,
                            token |-> <<w, n>>]
                 IN  row.status = "processing" /\ row.attempt = n /\ row.token = <<w, n>>
      OBVIOUS
    <3> DEFINE n == outbox[k].attempt + 1
    <3>2. outbox'[k] = [status |-> "processing", attempt |-> n, ready |-> FALSE,
                        token |-> <<w, n>>]
      BY <2>1
    <3> HIDE DEF n
    <3>3. outbox'[k].status = "processing" /\ outbox'[k].attempt = n
          /\ outbox'[k].token = <<w, n>>
      BY <3>1, <3>2
    <3> QED
      BY <3>3 DEF n
  <2> QED
    BY <2>4, <2>5, <2>6, Zenon
<1> DEFINE new == {[key |-> k, attempt |-> outbox[k].attempt + 1] : k \in S}
<1>6. \A i \in new : i \in Item /\ i.key \in DOMAIN outbox
  BY <1>3, <1>4 DEF Item
<1> HIDE DEF new
<1>7. /\ worker' \in [Workers -> [up : BOOLEAN, todo : SUBSET Item,
                                  result : Result \union {NoResult}]]
      /\ worker'[w].todo = new /\ worker'[w].result = worker[w].result
      /\ \A x \in Workers \ {w} : worker'[x] = worker[x]
  <2>1. worker \in [Workers -> [up : BOOLEAN, todo : SUBSET Item,
                                result : Result \union {NoResult}]]
    BY DEF IInv, TypeOK
  <2>2. worker' = [worker EXCEPT ![w].todo = new]
    BY <1>1 DEF new
  <2>3. new \in SUBSET Item
    BY <1>6
  <2> QED
    BY <2>1, <2>2, <2>3
<1>8. TypeOK'
  BY <1>2, <1>4, <1>5, <1>7 DEF IInv, TypeOK
<1>9. OutboxMatchesStatus'
  <2> SUFFICES ASSUME NEW r \in Reminders
               PROVE  /\ \A k \in DOMAIN outbox : k[1] = r =>
                             Agree(reminders[r].status, outbox'[k].status)
                      /\ reminders[r].status \in {"processing", "fired", "failed"} =>
                             \E k \in DOMAIN outbox : k[1] = r
    BY <1>2, <1>5 DEF OutboxMatchesStatus
  <2>1. \A k \in DOMAIN outbox : k[1] = r => Agree(reminders[r].status, outbox[k].status)
    BY DEF IInv, OutboxMatchesStatus
  <2>2. \A k \in DOMAIN outbox : k[1] = r => Agree(reminders[r].status, outbox'[k].status)
    BY <1>3, <1>5, <2>1 DEF Agree
  <2> QED
    BY <2>2 DEF IInv, OutboxMatchesStatus
<1>10. OneOccurrence' /\ NeverEarly' /\ NewOccurrence' /\ AuditExplainsStatus' /\ ClaimsBehind'
  BY <1>2, <1>5 DEF IInv, OneOccurrence, NeverEarly, NewOccurrence, AuditExplainsStatus, ClaimsBehind
<1>11. RetriesAreBounded' /\ TokenNamesAttempt'
  BY <1>3, <1>4, <1>5 DEF IInv, RetriesAreBounded, TokenNamesAttempt
<1>12. Accounted'
  BY <1>2, <1>3, <1>5, <1>6, <1>7 DEF IInv, Accounted
<1> QED
  BY <1>8, <1>9, <1>10, <1>11, <1>12 DEF IInv

\* The provider is called: a success means it has the key from now on.
LEMMA DeliverStep ==
    ASSUME IInv, NEW w \in Workers, NEW i \in worker[w].todo, Deliver(w, i)
    PROVE  IInv'
<1>1. PICK o \in Outcome :
         /\ worker' = [worker EXCEPT ![w] =
                [up |-> TRUE, todo |-> @.todo \ {i}, result |-> [item |-> i, outcome |-> o]]]
         /\ \E accepts \in MayAccept(o) :
               delivered' = IF accepts THEN delivered \union {i.key} ELSE delivered
  BY DEF Deliver
<1>2. UNCHANGED <<reminders, outbox, audit, dispatcher, command, faults>>
  BY DEF Deliver
<1>3. /\ i \in Item /\ i.key \in Key /\ i.key \in DOMAIN outbox
      /\ worker[w].todo \subseteq Item
  BY DEF IInv, TypeOK, Item, Accounted
<1>4. /\ worker'[w] = [up |-> TRUE, todo |-> worker[w].todo \ {i},
                       result |-> [item |-> i, outcome |-> o]]
      /\ \A x \in Workers \ {w} : worker'[x] = worker[x]
  BY <1>1 DEF IInv, TypeOK
<1>5. /\ delivered \subseteq delivered' /\ delivered' \subseteq delivered \union {i.key}
      /\ o = "ok" => i.key \in delivered'
  BY <1>1 DEF MayAccept
<1>6. TypeOK'
  <2>1. [item |-> i, outcome |-> o] \in Result
    BY <1>3 DEF Result
  <2>2. worker' \in [Workers -> [up : BOOLEAN, todo : SUBSET Item,
                                 result : Result \union {NoResult}]]
    BY <1>1, <1>3, <2>1 DEF IInv, TypeOK
  <2> QED
    BY <1>2, <1>3, <1>5, <2>2 DEF IInv, TypeOK
<1>7. /\ OutboxMatchesStatus' /\ NeverEarly' /\ NewOccurrence' /\ RetriesAreBounded'
      /\ AuditExplainsStatus' /\ ClaimsBehind' /\ TokenNamesAttempt'
  BY <1>2 DEF IInv, OutboxMatchesStatus, NeverEarly, NewOccurrence, RetriesAreBounded,
              AuditExplainsStatus, ClaimsBehind, TokenNamesAttempt
<1>8. OneOccurrence'
  BY <1>2, <1>3, <1>5 DEF IInv, OneOccurrence
<1>9. Accounted'
  <2>1. \A x \in Workers :
           /\ \A j \in worker'[x].todo : j.key \in DOMAIN outbox
           /\ worker'[x].result # NoResult =>
                 /\ worker'[x].result.item.key \in DOMAIN outbox
                 /\ worker'[x].result.outcome = "ok" => worker'[x].result.item.key \in delivered'
    BY <1>3, <1>4, <1>5 DEF IInv, Accounted
  <2>2. /\ delivered' \subseteq DOMAIN outbox
        /\ \A k \in DOMAIN outbox : outbox[k].status = "completed" => k \in delivered'
    BY <1>3, <1>5 DEF IInv, Accounted
  <2> QED
    BY <1>2, <2>1, <2>2 DEF Accounted
<1> QED
  BY <1>6, <1>7, <1>8, <1>9 DEF IInv

\* The item whose result a worker has in hand.
LEMMA InHand ==
    ASSUME IInv, NEW w \in Workers, worker[w].result # NoResult
    PROVE  /\ worker[w].result \in Result /\ worker[w].result.item \in Item
           /\ worker[w].result.item.key \in DOMAIN outbox
           /\ worker[w].result.item.key \in Key
           /\ worker[w].result.item.key[1] \in Reminders
           /\ worker[w].result.item.attempt \in Nat
<1>1. worker[w].result \in Result
  BY DEF IInv, TypeOK
<1>2. worker[w].result.item \in Item /\ worker[w].result.item.key \in DOMAIN outbox
  BY <1>1 DEF Result, IInv, Accounted
<1> QED
  BY <1>1, <1>2 DEF Item, Key

\* Dropping the result in hand.
LEMMA ContinueFields ==
    ASSUME TypeOK, NEW w \in Workers, Continue(w)
    PROVE  /\ worker' \in [Workers -> [up : BOOLEAN, todo : SUBSET Item,
                                       result : Result \union {NoResult}]]
           /\ \A x \in Workers : /\ worker'[x].todo = worker[x].todo
                                 /\ worker'[x].result \in {worker[x].result, NoResult}
BY DEF TypeOK, Continue

\* A delivery is closed together with its reminder.
LEMMA CloseStep ==
    ASSUME IInv, NEW w \in Workers, worker[w].result # NoResult,
           NEW t \in DeliveryStatus, NEW s \in Status,
           \/ t = "completed" /\ s = "fired" /\ worker[w].result.outcome = "ok"
           \/ t = "permanent_failed" /\ s = "failed",
           Owns(w), Close(w, t, s), Continue(w),
           UNCHANGED <<dispatcher, command, delivered, faults>>
    PROVE  IInv'
<1> DEFINE k == worker[w].result.item.key
           r == k[1]
           m == Moved(reminders[r], s)
<1>1. k \in DOMAIN outbox /\ r \in Reminders /\ k \in Key /\ TypeOK
  BY InHand DEF IInv
<1>2. /\ reminders[r].status = "processing" /\ reminders[r] \in Reminder
      /\ reminders' = [reminders EXCEPT ![r] = m]
      /\ audit' = Logged(r, s)
      /\ outbox' = [outbox EXCEPT ![k] = Closed(@, t)]
  BY <1>1 DEF Close, ReminderProcessing, TypeOK
<1>3. /\ m \in Reminder /\ m.status = s /\ m.version = reminders[r].version + 1
      /\ m.due = reminders[r].due /\ reminders[r].version \in Nat
  BY <1>2, MovedFields DEF Reminder
<1> HIDE DEF m
<1>4. /\ reminders'[r] = m /\ \A q \in Reminders \ {r} : reminders'[q] = reminders[q]
      /\ reminders' \in [Reminders -> Reminder]
      /\ \A q \in Reminders : reminders[q].version \in Nat
  BY <1>1, <1>2, <1>3 DEF TypeOK, Reminder
<1>5. /\ DOMAIN outbox' = DOMAIN outbox /\ outbox'[k] \in Delivery /\ outbox'[k].status = t
      /\ \A x \in DOMAIN outbox \ {k} : outbox'[x] = outbox[x]
  BY <1>1, <1>2, ClosedFields DEF TypeOK
<1>6. \A x \in DOMAIN outbox : x[1] = r => x = k
  BY <1>1 DEF IInv, OneOccurrence
<1>7. t = "completed" => k \in delivered
  BY <1>1 DEF IInv, Accounted
<1> HIDE DEF k, r
<1>8. /\ audit' \in [Reminders -> Seq(Status)] /\ audit'[r] = Append(audit[r], s)
      /\ \A q \in Reminders \ {r} : audit'[q] = audit[q]
  BY <1>1, <1>2, LoggedFields
<1>9. TypeOK'
  <2>1. \A x \in DOMAIN outbox' : outbox'[x] \in Delivery
    BY <1>1, <1>5 DEF TypeOK
  <2> QED
    BY <1>1, <1>4, <1>5, <1>8, <2>1, ContinueFields DEF TypeOK
<1>10. OutboxMatchesStatus'
  <2> SUFFICES ASSUME NEW q \in Reminders
               PROVE  /\ \A x \in DOMAIN outbox : x[1] = q =>
                             Agree(reminders'[q].status, outbox'[x].status)
                      /\ reminders'[q].status \in {"processing", "fired", "failed"} =>
                             \E x \in DOMAIN outbox : x[1] = q
    BY <1>5 DEF OutboxMatchesStatus
  <2>1. CASE q = r
    <3>1. Agree(s, t)
      BY DEF Agree
    <3>2. k[1] = r
      BY DEF r
    <3> QED
      BY <1>1, <1>3, <1>4, <1>5, <1>6, <2>1, <3>1, <3>2
  <2>2. CASE q # r
    <3>1. \A x \in DOMAIN outbox : x[1] = q => x # k
      BY <2>2 DEF r
    <3> QED
      BY <1>4, <1>5, <2>2, <3>1 DEF IInv, OutboxMatchesStatus
  <2> QED
    BY <2>1, <2>2
<1>11. OneOccurrence' /\ NewOccurrence'
  BY <1>5 DEF IInv, OneOccurrence, NewOccurrence
<1>12. NeverEarly'
  BY <1>2, <1>3, <1>4 DEF IInv, NeverEarly
<1>13. RetriesAreBounded' /\ TokenNamesAttempt'
  <2>1. t # "pending" /\ t # "processing"
    OBVIOUS
  <2> QED
    BY <1>5, <2>1 DEF IInv, RetriesAreBounded, TokenNamesAttempt
<1>14. AuditExplainsStatus'
  <2>1. audit[r] \in Seq(Status) /\ LegalLog("processing", audit[r])
    BY <1>1, <1>2, AuditByReminder DEF IInv, TypeOK
  <2>2. CanTransition("processing", s)
    BY DEF CanTransition
  <2>3. LegalLog(s, audit'[r])
    BY <1>8, <2>1, <2>2, LogExtends
  <2>4. \A q \in Reminders : LegalLog(reminders'[q].status, audit'[q])
    BY <1>3, <1>4, <1>8, <2>3, AuditByReminder DEF IInv
  <2> QED
    BY <2>4, AuditByReminderNext
<1>15. ClaimsBehind'
  <2>1. \A d \in Dispatchers : \A i \in dispatcher[d].todo :
           /\ i.id \in Reminders /\ i.version \in Nat
           /\ i.version <= reminders[i.id].version
           /\ i.version = reminders[i.id].version => reminders[i.id].due
    BY DEF IInv, TypeOK, Claimed, ClaimsBehind
  <2>2. \A x \in DOMAIN outbox : x[1] \in Reminders /\ x[2] \in Nat /\ x[2] < reminders[x[1]].version
    BY DEF IInv, TypeOK, Key, ClaimsBehind
  <2>3. \A d \in Dispatchers : \A i \in dispatcher[d].todo :
           /\ i.version <= reminders'[i.id].version
           /\ i.version = reminders'[i.id].version => reminders'[i.id].due
    BY <1>3, <1>4, <2>1
  <2>4. \A x \in DOMAIN outbox : x[2] < reminders'[x[1]].version
    BY <1>3, <1>4, <2>2
  <2> QED
    BY <1>5, <2>3, <2>4 DEF IInv, ClaimsBehind
<1>16. Accounted'
  <2>1. \A x \in Workers : /\ worker'[x].todo = worker[x].todo
                           /\ worker'[x].result \in {worker[x].result, NoResult}
    BY <1>1, ContinueFields
  <2>2. \A x \in DOMAIN outbox : outbox'[x].status = "completed" => x \in delivered
    BY <1>5, <1>7 DEF IInv, Accounted
  <2>3. \A x \in Workers :
           /\ \A j \in worker'[x].todo : j.key \in DOMAIN outbox
           /\ worker'[x].result # NoResult =>
                 /\ worker'[x].result.item.key \in DOMAIN outbox
                 /\ worker'[x].result.outcome = "ok" => worker'[x].result.item.key \in delivered
    BY <2>1 DEF IInv, Accounted
  <2>4. delivered \subseteq DOMAIN outbox
    BY DEF IInv, Accounted
  <2> QED
    BY <1>5, <2>2, <2>3, <2>4 DEF Accounted
<1> QED
  BY <1>9, <1>10, <1>11, <1>12, <1>13, <1>14, <1>15, <1>16 DEF IInv


\* A success is recorded, unless another worker has recorded it already.
LEMMA CompleteDeliveryStep ==
    ASSUME IInv, NEW w \in Workers, CompleteDelivery(w)
    PROVE  IInv'
<1>1. /\ worker[w].result # NoResult /\ worker[w].result.outcome = "ok" /\ Continue(w)
      /\ UNCHANGED <<dispatcher, command, delivered, faults>>
  BY DEF CompleteDelivery, Succeeded
<1>2. CASE UNCHANGED <<reminders, outbox, audit>>
  <2>1. TypeOK /\ faults' \in Nat
    BY <1>1 DEF IInv, TypeOK
  <2> QED
    BY <1>1, <1>2, <2>1, ContinueFields, WorkerDrops
<1>3. CASE Owns(w) /\ Close(w, "completed", "fired")
  <2>1. "completed" \in DeliveryStatus /\ "fired" \in Status
    BY DEF DeliveryStatus, Status
  <2> QED
    BY <1>1, <1>3, <2>1, CloseStep
<1> QED
  BY <1>2, <1>3 DEF CompleteDelivery

\* The last failure is recorded.
LEMMA FailDeliveryStep == ASSUME IInv, NEW w \in Workers, FailDelivery(w) PROVE IInv'
<1>1. /\ worker[w].result # NoResult /\ Owns(w) /\ Continue(w)
      /\ Close(w, "permanent_failed", "failed")
      /\ UNCHANGED <<dispatcher, command, delivered, faults>>
  BY DEF FailDelivery, Failed
<1>2. "permanent_failed" \in DeliveryStatus /\ "failed" \in Status
  BY DEF DeliveryStatus, Status
<1> QED
  BY <1>1, <1>2, CloseStep

\* A failure with attempts left: the token shows that the row is still at the
\* attempt the worker claimed.
LEMMA RetryLaterStep == ASSUME IInv, NEW w \in Workers, RetryLater(w) PROVE IInv'
<1> DEFINE i == worker[w].result.item
           k == i.key
           row == [outbox[k] EXCEPT !.status = "pending", !.token = NoToken, !.ready = FALSE]
<1>1. /\ worker[w].result # NoResult /\ ~GivesUp(w) /\ Owns(w) /\ Continue(w)
      /\ outbox' = [outbox EXCEPT ![k] = row]
      /\ UNCHANGED <<reminders, audit, dispatcher, command, delivered, faults>>
  BY DEF RetryLater, Failed
<1>2. k \in DOMAIN outbox /\ k[1] \in Reminders /\ i.attempt \in Nat /\ TypeOK
  BY <1>1, InHand DEF IInv
<1>3. outbox[k] \in Delivery /\ outbox[k].status = "processing"
      /\ outbox[k].token = <<w, i.attempt>>
  BY <1>1, <1>2 DEF Owns, TypeOK
<1>4. outbox[k].attempt = i.attempt
  <2>1. PICK x \in Workers : outbox[k].token = <<x, outbox[k].attempt>>
    BY <1>2, <1>3 DEF IInv, TokenNamesAttempt
  <2>2. <<w, i.attempt>> = <<x, outbox[k].attempt>>
    BY <1>3, <2>1, Zenon
  <2> HIDE DEF i, k
  <2> QED
    BY <2>2
<1>5. outbox[k].attempt < MaxAttempts
  BY <1>1, <1>2, <1>4, DeliveryAssumption DEF GivesUp
<1>6. row \in Delivery /\ row.status = "pending" /\ row.attempt = outbox[k].attempt
  BY <1>3 DEF Delivery, DeliveryStatus
<1> HIDE DEF row, k, i
<1>7. /\ DOMAIN outbox' = DOMAIN outbox /\ outbox'[k] = row
      /\ \A x \in DOMAIN outbox \ {k} : outbox'[x] = outbox[x]
  BY <1>1, <1>2
<1>8. TypeOK'
  <2>1. \A x \in DOMAIN outbox' : outbox'[x] \in Delivery
    BY <1>2, <1>6, <1>7 DEF TypeOK
  <2> QED
    BY <1>1, <1>2, <1>7, <2>1, ContinueFields DEF TypeOK
<1>9. OutboxMatchesStatus'
  <2> SUFFICES ASSUME NEW q \in Reminders
               PROVE  /\ \A x \in DOMAIN outbox : x[1] = q =>
                             Agree(reminders[q].status, outbox'[x].status)
                      /\ reminders[q].status \in {"processing", "fired", "failed"} =>
                             \E x \in DOMAIN outbox : x[1] = q
    BY <1>1, <1>7 DEF OutboxMatchesStatus
  <2>1. \A x \in DOMAIN outbox : x[1] = q => Agree(reminders[q].status, outbox[x].status)
    BY DEF IInv, OutboxMatchesStatus
  <2>2. \A x \in DOMAIN outbox : x[1] = q => Agree(reminders[q].status, outbox'[x].status)
    BY <1>3, <1>6, <1>7, <2>1 DEF Agree
  <2> QED
    BY <2>2 DEF IInv, OutboxMatchesStatus
<1>10. OneOccurrence' /\ NeverEarly' /\ NewOccurrence' /\ AuditExplainsStatus' /\ ClaimsBehind'
  BY <1>1, <1>7 DEF IInv, OneOccurrence, NeverEarly, NewOccurrence, AuditExplainsStatus, ClaimsBehind
<1>11. RetriesAreBounded' /\ TokenNamesAttempt'
  BY <1>5, <1>6, <1>7 DEF IInv, RetriesAreBounded, TokenNamesAttempt
<1>12. Accounted'
  <2>1. \A x \in Workers : /\ worker'[x].todo = worker[x].todo
                           /\ worker'[x].result \in {worker[x].result, NoResult}
    BY <1>1, <1>2, ContinueFields
  <2>2. \A x \in DOMAIN outbox : outbox'[x].status = "completed" => x \in delivered
    BY <1>6, <1>7 DEF IInv, Accounted
  <2>3. \A x \in Workers :
           /\ \A j \in worker'[x].todo : j.key \in DOMAIN outbox
           /\ worker'[x].result # NoResult =>
                 /\ worker'[x].result.item.key \in DOMAIN outbox
                 /\ worker'[x].result.outcome = "ok" => worker'[x].result.item.key \in delivered
    BY <2>1 DEF IInv, Accounted
  <2> QED
    BY <1>1, <1>7, <2>2, <2>3 DEF IInv, Accounted
<1> QED
  BY <1>8, <1>9, <1>10, <1>11, <1>12 DEF IInv

\* A worker that lost its claim, dies or comes back holds less than before.
LEMMA WorkerStops ==
    ASSUME IInv, NEW w \in Workers, WorkerExit(w) \/ StopWorker(w) \/ RestartWorker(w)
    PROVE  IInv'
<1>0. faults \in Nat
  BY DEF IInv, TypeOK
<1>1. /\ UNCHANGED <<reminders, outbox, audit, dispatcher, command, delivered>>
      /\ faults' \in Nat
      /\ \E u \in BOOLEAN : worker' = [worker EXCEPT ![w] =
                                          [up |-> u, todo |-> {}, result |-> NoResult]]
  <2>1. CASE WorkerExit(w)
    BY <1>0, <2>1 DEF WorkerExit
  <2>2. CASE StopWorker(w)
    <3>1. faults' \in Nat
      BY <1>0, <2>2 DEF StopWorker, Passes
    <3>2. worker' = [worker EXCEPT ![w] = [up |-> FALSE, todo |-> {}, result |-> NoResult]]
      BY <2>2 DEF StopWorker
    <3> QED
      BY <2>2, <3>1, <3>2, Zenon DEF StopWorker
  <2>3. CASE RestartWorker(w)
    BY <1>0, <2>3 DEF RestartWorker, IdleWorker
  <2> QED
    BY <2>1, <2>2, <2>3
<1>2. /\ worker' \in [Workers -> [up : BOOLEAN, todo : SUBSET Item,
                                  result : Result \union {NoResult}]]
      /\ \A x \in Workers : /\ worker'[x].todo \subseteq worker[x].todo
                            /\ worker'[x].result \in {worker[x].result, NoResult}
  BY <1>1 DEF IInv, TypeOK
<1> QED
  BY <1>1, <1>2, WorkerDrops

-----------------------------------------------------------------------------
(* The invariant *)

\* The empty tables satisfy the inductive invariant.
LEMMA InitInv == Init => IInv
<1> SUFFICES ASSUME Init PROVE IInv
  OBVIOUS
<1>1. /\ DOMAIN outbox = {} /\ delivered = {} /\ faults = 0
      /\ \A r \in Reminders : reminders[r] = Absent /\ audit[r] = <<>>
      /\ \A d \in Dispatchers : dispatcher[d] = [up |-> TRUE, todo |-> {}]
      /\ \A w \in Workers : worker[w] = [up |-> TRUE, todo |-> {}, result |-> NoResult]
  BY DEF Init, Idle, IdleWorker
<1>2. Absent \in Reminder /\ Absent.status = "none" /\ Absent.version = 0
  BY DEF Absent, Reminder, Status
<1>3. TypeOK
  BY <1>1, <1>2 DEF Init, TypeOK, Idle, IdleWorker
<1>4. OutboxMatchesStatus /\ OneOccurrence /\ NeverEarly /\ RetriesAreBounded
      /\ TokenNamesAttempt /\ NewOccurrence
  BY <1>1, <1>2 DEF OutboxMatchesStatus, OneOccurrence, NeverEarly, RetriesAreBounded,
                    TokenNamesAttempt, NewOccurrence
<1>5. AuditExplainsStatus
  <2>1. LegalLog("none", <<>>)
    BY DEF LegalLog
  <2> QED
    BY <1>1, <1>2, <2>1, AuditByReminder
<1>6. ClaimsBehind /\ Accounted
  BY <1>1 DEF ClaimsBehind, Accounted
<1> QED
  BY <1>3, <1>4, <1>5, <1>6 DEF IInv

\* Every step, and every stutter, preserves the inductive invariant.
LEMMA StepInv == IInv /\ [Next]_vars => IInv'
<1> SUFFICES ASSUME IInv, [Next]_vars PROVE IInv'
  OBVIOUS
<1>1. CASE UNCHANGED vars
  BY <1>1 DEF vars, IInv, TypeOK, OutboxMatchesStatus, OneOccurrence, NeverEarly, NewOccurrence,
              RetriesAreBounded, AuditExplainsStatus, ClaimsBehind, TokenNamesAttempt, Accounted
<1>2. ASSUME NEW r \in Reminders, Create(r) \/ FallDue(r) \/ DueLeaseLapses(r) PROVE IInv'
  BY <1>2, CreateStep, FallDueStep, DueLeaseLapsesStep
<1>3. ASSUME NEW c \in Commands, Mutate(c) \/ \E r \in Reminders : ReadTarget(c, r) PROVE IInv'
  BY <1>3, MutateStep, ReadTargetStep
<1>4. ASSUME NEW d \in Dispatchers, Tick(d) \/ StopDispatcher(d) \/ RestartDispatcher(d)
      PROVE  IInv'
  BY <1>4, ClaimDueStep, CommitOccurrenceStep, DispatcherStops DEF Tick
<1>5. ASSUME NEW w \in Workers, Work(w) \/ StopWorker(w) \/ RestartWorker(w) PROVE IInv'
  BY <1>5, ClaimDeliveriesStep, DeliverStep, CompleteDeliveryStep, FailDeliveryStep,
     RetryLaterStep, WorkerStops DEF Work
<1>6. ASSUME NEW k \in DOMAIN outbox, BecomesReady(k) PROVE IInv'
  BY <1>6, BecomesReadyStep
<1> QED
  BY <1>1, <1>2, <1>3, <1>4, <1>5, <1>6 DEF Next

\* Every reachable state satisfies the inductive invariant.
THEOREM Invariance == Spec => []IInv
BY InitInv, StepInv, PTL DEF Spec

\* The tables and the loops keep their types.
THEOREM TypeCorrect == Spec => []TypeOK
<1>1. IInv => TypeOK
  BY DEF IInv
<1> QED
  BY <1>1, Invariance, PTL

\* A reminder and its delivery row always agree: no step of a stale claimant
\* and no late cancellation separates them.
THEOREM StatusAgrees == Spec => []OutboxMatchesStatus
<1>1. IInv => OutboxMatchesStatus
  BY DEF IInv
<1> QED
  BY <1>1, Invariance, PTL

\* A reminder has at most one occurrence and one delivery key.
THEOREM OneKey == Spec => []OneOccurrence
<1>1. IInv => OneOccurrence
  BY DEF IInv
<1> QED
  BY <1>1, Invariance, PTL

\* A reminder is never triggered before the time its row names, even when the
\* row is updated while it is claimed.
THEOREM NotEarly == Spec => []NeverEarly
<1>1. IInv => NeverEarly
  BY DEF IInv
<1> QED
  BY <1>1, Invariance, PTL

\* A row waiting for a retry has an attempt left.
THEOREM RetryBound == Spec => []RetriesAreBounded
<1>1. IInv => RetriesAreBounded
  BY DEF IInv
<1> QED
  BY <1>1, Invariance, PTL

\* The event log of a reminder is a legal path to its status.
THEOREM AuditCorrect == Spec => []AuditExplainsStatus
<1>1. IInv => AuditExplainsStatus
  BY DEF IInv
<1> QED
  BY <1>1, Invariance, PTL

\* No claimed version has an occurrence, so the replay branch of
\* CommitOccurrence is dead code.
THEOREM ReplayUnreached == Spec => []NewOccurrence
<1>1. IInv => NewOccurrence
  BY DEF IInv
<1> QED
  BY <1>1, Invariance, PTL


-----------------------------------------------------------------------------
(* The life cycle a user sees *)

\* A step that moves the status of one reminder, with the providers' acceptances
\* unchanged, is a move of the life cycle.
LEMMA OneMoves ==
    ASSUME TypeOK, NEW r \in Reminders, NEW m, reminders' = [reminders EXCEPT ![r] = m],
           UNCHANGED delivered
    PROVE  Lifecycle!Move(r, reminders[r].status, m.status)
<1>1. reminders'[r] = m /\ \A q \in Reminders \ {r} : reminders'[q] = reminders[q]
  BY DEF TypeOK
<1>2. [q \in Reminders |-> reminders'[q].status]
         = [[q \in Reminders |-> reminders[q].status] EXCEPT ![r] = m.status]
  <2> DEFINE t == m.status
  <2>1. \A q \in Reminders :
           reminders'[q].status = IF q = r THEN t ELSE reminders[q].status
    BY <1>1
  <2> HIDE DEF t
  <2>2. [q \in Reminders |-> reminders'[q].status]
           = [[q \in Reminders |-> reminders[q].status] EXCEPT ![r] = t]
    BY <2>1
  <2> QED
    BY <2>2 DEF t
<1>3. {k[1] : k \in delivered'} = {k[1] : k \in delivered}
  OBVIOUS
<1>4. [q \in Reminders |-> reminders[q].status][r] = reminders[r].status
  OBVIOUS
<1> QED
  BY <1>2, <1>3, <1>4, Zenon DEF Lifecycle!Move

\* Closing a delivery fires its reminder, whose key the provider has accepted,
\* or gives it up.
LEMMA CloseMoves ==
    ASSUME IInv, NEW w \in Workers, worker[w].result # NoResult, NEW t, NEW s \in Status,
           (s = "fired" /\ worker[w].result.outcome = "ok") \/ s = "failed",
           Close(w, t, s), UNCHANGED delivered
    PROVE  Lifecycle!Next
<1> DEFINE k == worker[w].result.item.key
           r == k[1]
<1>1. TypeOK /\ k \in DOMAIN outbox /\ r \in Reminders
  BY InHand DEF IInv
<1>2. s = "fired" => k \in delivered
  BY DEF IInv, Accounted
<1>3. reminders[r].status = "processing" /\ reminders[r] \in Reminder
      /\ reminders' = [reminders EXCEPT ![r] = Moved(reminders[r], s)]
  BY <1>1 DEF Close, ReminderProcessing, TypeOK
<1>4. s = "fired" => r \in {x[1] : x \in delivered}
  BY <1>2
<1> HIDE DEF k, r
<1>5. Moved(reminders[r], s).status = s
  BY <1>3, MovedFields
<1>6. Lifecycle!Move(r, "processing", s)
  BY <1>1, <1>3, <1>5, OneMoves
<1> QED
  BY <1>1, <1>4, <1>6 DEF Lifecycle!Next, Lifecycle!Fire, Lifecycle!GiveUp

\* Steps that change neither a status nor what the provider accepted.
Unseen == /\ \A r \in Reminders : reminders'[r].status = reminders[r].status
          /\ UNCHANGED delivered

\* What a user can see of a step: a move of one reminder, an acceptance, or nothing.
LEMMA VisibleSteps ==
    ASSUME IInv, [Next]_vars
    PROVE  \/ Unseen
           \/ \E r \in Reminders : Create(r)
           \/ \E c \in Commands : Mutate(c)
           \/ \E d \in Dispatchers : \E i \in dispatcher[d].todo : CommitOccurrence(d, i)
           \/ \E w \in Workers : \/ CompleteDelivery(w) \/ FailDelivery(w)
                                 \/ \E i \in worker[w].todo : Deliver(w, i)
<1>0. TypeOK
  BY DEF IInv
<1>1. UNCHANGED <<reminders, delivered>> => Unseen
  BY DEF Unseen
<1>2. UNCHANGED vars => Unseen
  BY <1>1 DEF vars
<1>3. ASSUME NEW r \in Reminders, FallDue(r) \/ DueLeaseLapses(r) PROVE Unseen
  <2>1. \A m \in Reminder : /\ [m EXCEPT !.due = TRUE].status = m.status
                            /\ [m EXCEPT !.leased = FALSE].status = m.status
    BY DEF Reminder
  <2>2. reminders[r] \in Reminder /\ delivered' = delivered
    BY <1>0, <1>3 DEF TypeOK, FallDue, DueLeaseLapses
  <2>3. reminders' = [reminders EXCEPT ![r] = [reminders[r] EXCEPT !.due = TRUE]]
        \/ reminders' = [reminders EXCEPT ![r] = [reminders[r] EXCEPT !.leased = FALSE]]
    BY <1>0, <1>3 DEF TypeOK, FallDue, DueLeaseLapses
  <2> QED
    BY <1>0, <2>1, <2>2, <2>3 DEF Unseen, TypeOK
<1>4. ASSUME NEW d \in Dispatchers, ClaimDue(d) PROVE Unseen
  <2>1. PICK S \in SUBSET DueRows :
           reminders' = [r \in Reminders |->
                IF r \in S THEN Leased(d, reminders[r]) ELSE reminders[r]]
    BY <1>4 DEF ClaimDue
  <2>2. \A r \in Reminders : Leased(d, reminders[r]).status = reminders[r].status
    BY <1>0, LeasedFields DEF TypeOK
  <2> QED
    BY <1>4, <2>1, <2>2 DEF Unseen, ClaimDue
<1>5. ASSUME NEW d \in Dispatchers,
             DispatcherExit(d) \/ StopDispatcher(d) \/ RestartDispatcher(d)
      PROVE  Unseen
  BY <1>1, <1>5 DEF DispatcherExit, StopDispatcher, RestartDispatcher
<1>6. ASSUME NEW w \in Workers,
             \/ ClaimDeliveries(w) \/ RetryLater(w) \/ WorkerExit(w)
             \/ StopWorker(w) \/ RestartWorker(w)
      PROVE  Unseen
  BY <1>1, <1>6 DEF ClaimDeliveries, RetryLater, WorkerExit, StopWorker, RestartWorker
<1>7. ASSUME NEW c \in Commands, NEW r \in Reminders, ReadTarget(c, r) PROVE Unseen
  BY <1>1, <1>7 DEF ReadTarget
<1>8. ASSUME NEW k \in DOMAIN outbox, BecomesReady(k) PROVE Unseen
  BY <1>1, <1>8 DEF BecomesReady
<1> QED
  BY <1>2, <1>3, <1>4, <1>5, <1>6, <1>7, <1>8 DEF Next, Tick, Work

\* Rows, claims and retries implement the life cycle: created, then cancelled
\* or triggered, then fired, with a delivery the provider accepted, or given up.
THEOREM Implements == Spec => LifecycleSpec
<1> DEFINE S == [r \in Reminders |-> reminders[r].status]
           T == {k[1] : k \in delivered}
<1>1. Init => Lifecycle!Init
  BY DEF Init, Absent, Lifecycle!Init
<1>2. IInv /\ [Next]_vars => [Lifecycle!Next]_<<S, T>>
  <2> SUFFICES ASSUME IInv, [Next]_vars
               PROVE  Lifecycle!Next \/ (S' = S /\ T' = T)
    OBVIOUS
  <2>0. TypeOK
    BY DEF IInv
  <2>1. CASE Unseen
    BY <2>1 DEF Unseen
  <2>2. ASSUME NEW r \in Reminders, Create(r) PROVE Lifecycle!Next
    <3>1. /\ reminders[r].status = "none" /\ reminders[r] \in Reminder
          /\ reminders' = [reminders EXCEPT ![r] = Moved(reminders[r], "scheduled")]
          /\ UNCHANGED delivered
      BY <2>0, <2>2 DEF TypeOK, Create
    <3>2. Moved(reminders[r], "scheduled").status = "scheduled"
      BY <3>1, MovedFields DEF Status
    <3>3. Lifecycle!Move(r, "none", "scheduled")
      BY <2>0, <3>1, <3>2, OneMoves
    <3> QED
      BY <3>3 DEF Lifecycle!Next, Lifecycle!Create
  <2>3. ASSUME NEW c \in Commands, Mutate(c) PROVE Lifecycle!Next \/ (S' = S /\ T' = T)
    <3> DEFINE r == command[c].id
               cancelled == [Moved(reminders[r], "cancelled") EXCEPT !.token = NoToken,
                                                                     !.leased = FALSE]
               moved == [Moved(reminders[r], "scheduled") EXCEPT !.due = FALSE]
    <3>1. /\ command[c] # NoCommand
          /\ reminders[r].status = "scheduled"
          /\ \/ reminders' = [reminders EXCEPT ![r] = cancelled]
             \/ reminders' = [reminders EXCEPT ![r] = moved]
          /\ UNCHANGED delivered
      BY <2>3 DEF Mutate, TargetUnchanged
    <3>2. r \in Reminders /\ reminders[r] \in Reminder
      BY <2>0, <3>1 DEF TypeOK, Command
    <3> HIDE DEF r
    <3>3. \A m \in Reminder : /\ [m EXCEPT !.token = NoToken, !.leased = FALSE].status = m.status
                              /\ [m EXCEPT !.due = FALSE].status = m.status
      BY DEF Reminder
    <3>4. cancelled.status = "cancelled" /\ moved.status = "scheduled"
      BY <3>2, <3>3, MovedFields DEF Status
    <3> HIDE DEF cancelled, moved
    <3>5. CASE reminders' = [reminders EXCEPT ![r] = cancelled]
      <4>1. Lifecycle!Move(r, "scheduled", "cancelled")
        BY <2>0, <3>1, <3>2, <3>4, <3>5, OneMoves
      <4> QED
        BY <3>2, <4>1 DEF Lifecycle!Next, Lifecycle!Cancel
    <3>6. CASE reminders' = [reminders EXCEPT ![r] = moved]
      <4>1. \A q \in Reminders : reminders'[q].status = reminders[q].status
        BY <2>0, <3>1, <3>4, <3>6 DEF TypeOK
      <4> QED
        BY <3>1, <4>1
    <3> QED
      BY <3>1, <3>5, <3>6
  <2>4. ASSUME NEW d \in Dispatchers, NEW i \in dispatcher[d].todo, CommitOccurrence(d, i)
        PROVE  Lifecycle!Next
    <3> DEFINE r == i.id
               m == [Moved(reminders[r], "processing") EXCEPT !.token = NoToken, !.leased = FALSE]
    <3>1. r \in Reminders /\ reminders[r] \in Reminder
      BY <2>0 DEF TypeOK, Claimed
    <3>2. /\ reminders[r].status = "scheduled"
          /\ reminders' = [reminders EXCEPT ![r] = m]
          /\ UNCHANGED delivered
      BY <2>0, <2>4, <3>1 DEF CommitOccurrence, HoldsDue, TypeOK
    <3> HIDE DEF r
    <3>3. \A x \in Reminder : [x EXCEPT !.token = NoToken, !.leased = FALSE].status = x.status
      BY DEF Reminder
    <3>4. m.status = "processing"
      BY <3>1, <3>3, MovedFields DEF Status
    <3> HIDE DEF m
    <3>5. Lifecycle!Move(r, "scheduled", "processing")
      BY <2>0, <3>1, <3>2, <3>4, OneMoves
    <3> QED
      BY <3>1, <3>5 DEF Lifecycle!Next, Lifecycle!Trigger
  <2>5. ASSUME NEW w \in Workers, CompleteDelivery(w) \/ FailDelivery(w)
        PROVE  Lifecycle!Next \/ (S' = S /\ T' = T)
    <3>1. worker[w].result # NoResult /\ UNCHANGED delivered
      BY <2>5 DEF CompleteDelivery, FailDelivery, Succeeded, Failed
    <3>2. CASE FailDelivery(w)
      <4>1. Close(w, "permanent_failed", "failed") /\ "failed" \in Status
        BY <3>2 DEF FailDelivery, Status
      <4> QED
        BY <3>1, <4>1, CloseMoves
    <3>3. CASE CompleteDelivery(w)
      <4>1. worker[w].result.outcome = "ok" /\ "fired" \in Status
        BY <3>3 DEF CompleteDelivery, Succeeded, Status
      <4>2. CASE UNCHANGED <<reminders, outbox, audit>>
        BY <3>1, <4>2
      <4>3. CASE Close(w, "completed", "fired")
        BY <3>1, <4>1, <4>3, CloseMoves
      <4> QED
        BY <3>3, <4>2, <4>3 DEF CompleteDelivery
    <3> QED
      BY <2>5, <3>2, <3>3
  <2>6. ASSUME NEW w \in Workers, NEW i \in worker[w].todo, Deliver(w, i)
        PROVE  Lifecycle!Next \/ (S' = S /\ T' = T)
    <3> DEFINE k == i.key
               r == k[1]
    <3>1. k \in DOMAIN outbox /\ r \in Reminders
      BY <2>0 DEF IInv, TypeOK, Accounted, Item, Key
    <3>2. S' = S /\ (delivered' = delivered \/ delivered' = delivered \union {k})
      BY <2>6 DEF Deliver
    <3>3. CASE delivered' = delivered
      BY <3>2, <3>3
    <3>4. CASE delivered' = delivered \union {k}
      <4>1. T' = T \union {r}
        BY <3>4
      <4>2. Agree(reminders[r].status, outbox[k].status)
        BY <3>1 DEF IInv, OutboxMatchesStatus
      <4>3. CASE reminders[r].status \in {"processing", "failed"}
        <5>1. Lifecycle!Send(r)
          BY <3>1, <3>2, <4>1, <4>3 DEF Lifecycle!Send
        <5> QED
          BY <3>1, <5>1 DEF Lifecycle!Next
      <4>4. CASE reminders[r].status \notin {"processing", "failed"}
        <5>1. k \in delivered
          BY <3>1, <4>2, <4>4 DEF IInv, Accounted, Agree
        <5> QED
          BY <3>2, <3>4, <5>1
      <4> QED
        BY <4>3, <4>4
    <3> QED
      BY <3>2, <3>3, <3>4
  <2> QED
    BY <2>1, <2>2, <2>3, <2>4, <2>5, <2>6, VisibleSteps
<1> QED
  BY <1>1, <1>2, Invariance, PTL DEF Spec, LifecycleSpec, Lifecycle!Spec, Lifecycle!LifecycleVars

=============================================================================
