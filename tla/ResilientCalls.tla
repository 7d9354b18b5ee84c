--------------------------- MODULE ResilientCalls ---------------------------
(***************************************************************************)
(* Calls of one remote service, a chat model or the RAG retriever, by many *)
(* runs at once: a retry loop, a budget per run, a bulkhead with a fixed   *)
(* number of slots and a circuit breaker that lets one probe through after *)
(* a pause.  A model call may stream its answer: the call has returned     *)
(* then, and a goroutine holds the slot until the stream ends.  The model  *)
(* and the retriever have a bulkhead and a breaker each; one instance of   *)
(* this module is one of the two.                                          *)
(***************************************************************************)
EXTENDS Integers, FiniteSets

CONSTANTS
    Callers,            \* runs that are executing
    Kinds,              \* a subset of {"generate", "stream"}, or {"retrieve"}
    Limit,              \* slots of the bulkhead
    Threshold,          \* failures that open the breaker, 0 for never
    MaxAttempts,
    MaxModelCalls       \* budget of a run, 0 for none

ASSUME CallsAssumption ==
    /\ IsFiniteSet(Callers)
    /\ Kinds \subseteq {"generate", "stream", "retrieve"}
    /\ Limit \in Nat \ {0}
    /\ Threshold \in Nat
    /\ MaxAttempts \in Nat \ {0}
    /\ MaxModelCalls \in Nat

VARIABLES
    call,       \* call[c]: the call that c is executing
    spent,      \* spent[c]: State.modelCalls of the run
    asked,      \* asked[c]: requests of the run that reached the model
    cancelled,  \* runs whose context has ended
    used,       \* elements in the bulkhead's channel
    breaker,
    healthy     \* whether the service answers

vars == <<call, spent, asked, cancelled, used, breaker, healthy>>

Results == {"none", "ok", "transient", "permanent"}
Idle == [pc |-> "idle", kind |-> "none", attempt |-> 0, probe |-> FALSE, streaming |-> FALSE,
         result |-> "none"]
\* aged: openTimeout has passed since the breaker opened.
Closed == [failures |-> 0, open |-> FALSE, aged |-> FALSE, probe |-> FALSE]

Init ==
    /\ call = [c \in Callers |-> Idle]
    /\ spent = [c \in Callers |-> 0]
    /\ asked = [c \in Callers |-> 0]
    /\ cancelled = {}
    /\ used = 0
    /\ breaker = Closed
    /\ healthy = TRUE

-----------------------------------------------------------------------------
(* The breaker *)

Success == Closed

\* The count matters up to the threshold only, where the model stops counting.
FailureKeepsProbe == \* mutant
    LET n == IF breaker.failures < Threshold THEN breaker.failures + 1 ELSE Threshold
        opens == Threshold > 0 /\ n >= Threshold
    IN  [failures |-> n, open |-> breaker.open \/ opens,
         aged |-> breaker.aged /\ ~opens, probe |-> breaker.probe]
Failure ==
    LET n == IF breaker.failures < Threshold THEN breaker.failures + 1 ELSE Threshold
        opens == Threshold > 0 /\ n >= Threshold
    IN  [failures |-> n, open |-> breaker.open \/ opens,
         aged |-> breaker.aged /\ ~opens, probe |-> FALSE]

\* recordResult: what a retry would not mend counts as an answer of the service, and
\* so does a cancellation.
Recorded(result) == IF result = "transient" THEN Failure ELSE Success

-----------------------------------------------------------------------------
(* The retry loop *)

Goto(c, pc) == call' = [call EXCEPT ![c].pc = pc]
Return(c) == call' = [call EXCEPT ![c] = Idle]

\* The run asks the model or the retriever.
Begin(c, k) ==
    /\ call[c].pc = "idle"
    /\ c \notin cancelled
    /\ call' = [call EXCEPT ![c] = [Idle EXCEPT !.pc = "try", !.kind = k, !.attempt = 1]]
    /\ UNCHANGED <<spent, asked, cancelled, used, breaker, healthy>>

\* The run has ended and another takes its place.
NewRun(c) ==
    /\ call[c].pc = "idle"
    /\ cancelled' = cancelled \ {c}
    /\ spent' = [spent EXCEPT ![c] = 0]
    /\ asked' = [asked EXCEPT ![c] = 0]
    /\ UNCHANGED <<call, used, breaker, healthy>>

Metered(c) == call[c].kind # "retrieve" /\ MaxModelCalls > 0

ConsumeModelCall(c) ==
    /\ Metered(c) => spent[c] < MaxModelCalls
    /\ spent' = IF Metered(c) THEN [spent EXCEPT ![c] = @ + 1] ELSE spent

\* An attempt starts, unless the context has ended or the budget is spent.
Try(c) ==
    /\ call[c].pc = "try"
    /\ c \notin cancelled
    /\ ConsumeModelCall(c)
    /\ Goto(c, "acquire")
    /\ UNCHANGED <<asked, cancelled, used, breaker, healthy>>
TryEnds(c) ==
    /\ call[c].pc = "try"
    /\ c \in cancelled \/ (Metered(c) /\ spent[c] = MaxModelCalls)
    /\ Return(c)
    /\ UNCHANGED <<spent, asked, cancelled, used, breaker, healthy>>

Acquire(c) ==
    /\ call[c].pc = "acquire"
    /\ used < Limit
    /\ used' = used + 1
    /\ Goto(c, "allow")
    /\ UNCHANGED <<spent, asked, cancelled, breaker, healthy>>
AcquireEnds(c) ==
    /\ call[c].pc = "acquire"
    /\ c \in cancelled
    /\ Return(c)
    /\ UNCHANGED <<spent, asked, cancelled, used, breaker, healthy>>

Rejects == breaker.open /\ (~breaker.aged \/ breaker.probe)
Allow(c) ==
    /\ call[c].pc = "allow"
    /\ ~Rejects
    /\ call' = [call EXCEPT ![c].pc = "ask", ![c].probe = breaker.open]
    /\ breaker' = [breaker EXCEPT !.probe = breaker.open]
    /\ asked' = [asked EXCEPT ![c] = IF Metered(c) THEN @ + 1 ELSE @]
    /\ UNCHANGED <<spent, cancelled, used, healthy>>
RejectAndKeep(c) == \* mutant: the slot is not given back
    /\ call[c].pc = "allow"
    /\ Rejects
    /\ Return(c)
    /\ UNCHANGED <<spent, asked, cancelled, used, breaker, healthy>>

Reject(c) ==
    /\ call[c].pc = "allow"
    /\ Rejects
    /\ used' = used - 1
    /\ Return(c)
    /\ UNCHANGED <<spent, asked, cancelled, breaker, healthy>>

\* What the service may answer: a refusal at any time, the end of the context.
Answers == (IF healthy THEN {"ok"} ELSE {"transient"}) \union {"permanent"}

\* A model call gives its slot back before it records the result; a retrieval and
\* the goroutine of a stream record first, for their release is deferred.
Answer(c) ==
    \E result \in Answers :
        LET streams == call[c].kind = "stream" /\ result = "ok"
            next == IF streams THEN "stream"
                    ELSE IF call[c].kind = "retrieve" THEN "recordFirst" ELSE "release"
        IN  /\ call[c].pc = "ask"
            /\ call' = [call EXCEPT ![c].pc = next, ![c].result = result,
                                   ![c].streaming = streams]
            /\ UNCHANGED <<spent, asked, cancelled, used, breaker, healthy>>

\* The stream is at its end, fails, or the run stops reading it.
StreamEnds(c) ==
    /\ call[c].pc = "stream"
    /\ \E result \in Answers \union {"ok"} :
          call' = [call EXCEPT ![c].pc = "recordFirst", ![c].result = result]
    /\ UNCHANGED <<spent, asked, cancelled, used, breaker, healthy>>

Record(c) ==
    /\ call[c].pc \in {"record", "recordFirst"}
    /\ breaker' = Recorded(call[c].result)
    /\ Goto(c, IF call[c].pc = "record" THEN "settle" ELSE "releaseLast")
    /\ UNCHANGED <<spent, asked, cancelled, used, healthy>>

Release(c) ==
    /\ call[c].pc \in {"release", "releaseLast"}
    /\ used' = used - 1
    /\ Goto(c, IF call[c].pc = "release" THEN "record" ELSE "settle")
    /\ UNCHANGED <<spent, asked, cancelled, breaker, healthy>>

\* A transient failure is tried again, a stream that was established is not.
Retries(c) ==
    /\ call[c].result = "transient"
    /\ ~call[c].streaming
    /\ call[c].attempt < MaxAttempts

Settle(c) ==
    /\ call[c].pc = "settle"
    /\ IF Retries(c)
       THEN call' = [call EXCEPT ![c].pc = "try", ![c].attempt = @ + 1, ![c].probe = FALSE]
       ELSE Return(c)
    /\ UNCHANGED <<spent, asked, cancelled, used, breaker, healthy>>

-----------------------------------------------------------------------------
(* The environment *)

Cancel(c) ==
    /\ cancelled' = cancelled \union {c}
    /\ UNCHANGED <<call, spent, asked, used, breaker, healthy>>

\* openTimeout passes.
Elapse ==
    /\ breaker.open /\ ~breaker.aged
    /\ breaker' = [breaker EXCEPT !.aged = TRUE]
    /\ UNCHANGED <<call, spent, asked, cancelled, used, healthy>>

HealthChanges ==
    /\ healthy' = ~healthy
    /\ UNCHANGED <<call, spent, asked, cancelled, used, breaker>>

-----------------------------------------------------------------------------
Attempt(c) ==
    Try(c) \/ TryEnds(c) \/ Allow(c) \/ Reject(c) \/ Answer(c) \/ StreamEnds(c)
        \/ Record(c) \/ Release(c) \/ Settle(c)

Next ==
    \/ \E c \in Callers :
          \/ \E k \in Kinds : Begin(c, k)
          \/ NewRun(c) \/ Attempt(c) \/ Acquire(c) \/ AcquireEnds(c) \/ Cancel(c)
    \/ Elapse
    \/ HealthChanges

Spec == Init /\ [][Next]_vars

\* Calls go on, the service answers or the client's timeout does, time passes.
\* A channel of Go hands a free slot to the sender that waited longest, so a run
\* that waits for one gets it: strong fairness of Acquire.
FairSpec ==
    /\ Spec
    /\ WF_vars(Elapse)
    /\ \A c \in Callers : WF_vars(Attempt(c)) /\ SF_vars(Acquire(c))

-----------------------------------------------------------------------------
(* Properties *)

InFlight(c) == call[c].pc \in {"ask", "stream", "release", "record", "recordFirst"}
HasSlot(c) ==
    call[c].pc \in {"allow", "ask", "stream", "release", "recordFirst", "releaseLast"}

Call ==
    [pc : {"idle", "try", "acquire", "allow", "ask", "stream", "release", "record",
           "recordFirst", "releaseLast", "settle"},
     kind : Kinds \union {"none"}, attempt : 0 .. MaxAttempts, probe : BOOLEAN,
     streaming : BOOLEAN, result : Results]

TypeOK ==
    /\ call \in [Callers -> Call]
    /\ spent \in [Callers -> Nat]
    /\ asked \in [Callers -> Nat]
    /\ cancelled \subseteq Callers
    /\ used \in 0 .. Limit
    /\ breaker \in [failures : 0 .. Threshold, open : BOOLEAN, aged : BOOLEAN, probe : BOOLEAN]
    /\ healthy \in BOOLEAN

\* What a call takes it gives back once, and nothing else: a slot, rejected by the
\* breaker, failed before or in its stream or cancelled while it waited; the role of
\* the probe, without which the breaker would refuse calls for ever; and retries
\* count against the run's budget, however many attempts fail and interleave.
SlotsAreHeld == used = Cardinality({c \in Callers : HasSlot(c)})
ProbeIsOut == breaker.probe => \E c \in Callers : call[c].probe /\ InFlight(c)
BudgetHolds == \A c \in Callers : MaxModelCalls > 0 => asked[c] <= MaxModelCalls
NothingLeaks == SlotsAreHeld /\ ProbeIsOut /\ BudgetHolds

\* Once a stream is established the call is not tried again: nothing is generated
\* and shown twice. It is about one call alone and is proved, not checked by a run.
NoSecondStream ==
    [][\A c \in Callers : call[c].streaming /\ call'[c] # Idle =>
           call'[c].streaming /\ call'[c].attempt = call[c].attempt]_vars

\* When the service has recovered and calls keep coming, the breaker closes.
BreakerRecovers ==
    <>[]healthy /\ []<>(\E c \in Callers : call[c].pc = "allow") => []<>(~breaker.open)
=============================================================================
