------------------------- MODULE ServiceCallsProofs -------------------------
(***************************************************************************)
(* Machine-checked proofs about the two components that call services over *)
(* the network.                                                            *)
(*                                                                         *)
(* ResilientCalls, for every finite set of runs, every bulkhead,           *)
(* threshold, number of attempts and budget: slots are given back once, a  *)
(* probe reports, retries stay in the budget.                              *)
(*                                                                         *)
(* NoteProjection, for every set of notes, delete keys, projectors and     *)
(* pollers, every length of a claim and every bound on losses and          *)
(* failures: the note row, its outbox events and the document in RAG stay  *)
(* connected, and an event is worked on by one projector at a time.        *)
(***************************************************************************)
EXTENDS ResilientCalls, NoteProjection, FiniteSetTheorems, SequenceTheorems, TLAPS

-----------------------------------------------------------------------------
(* Resilient calls: the inductive invariant *)

\* What a run has asked for or is about to ask for is paid for.
Pending(c) == IF Metered(c) /\ call[c].pc \in {"acquire", "allow"} THEN 1 ELSE 0
Paid(c) == MaxModelCalls > 0 => asked[c] + Pending(c) <= spent[c] /\ spent[c] <= MaxModelCalls

\* A call whose stream was established is past its last attempt.
PastAsking(c) ==
    call[c].streaming => call[c].pc \in {"stream", "recordFirst", "releaseLast", "settle"}

Inv ==
    /\ TypeOK
    /\ SlotsAreHeld
    /\ ProbeIsOut
    /\ \A c \in Callers : Paid(c) /\ PastAsking(c)

-----------------------------------------------------------------------------
(* Slots *)

Holders == {c \in Callers : HasSlot(c)}

\* Only c moves: if the counter moves as c's hold on a slot does, it still
\* counts the holders.
LEMMA CountFollows ==
    ASSUME Inv, NEW c \in Callers, call' \in [Callers -> Call],
           \A d \in Callers \ {c} : call'[d] = call[d],
           used' = IF HasSlot(c)' THEN (IF HasSlot(c) THEN used ELSE used + 1)
                   ELSE (IF HasSlot(c) THEN used - 1 ELSE used)
    PROVE  SlotsAreHeld' /\ used' \in Nat
<1>1. IsFiniteSet(Holders) /\ Cardinality(Holders) = used
  BY FS_Subset, CallsAssumption DEF CallsAssumption, Inv, SlotsAreHeld, Holders
<1>2. Holders' = IF HasSlot(c)' THEN Holders \union {c} ELSE Holders \ {c}
  BY DEF Holders, HasSlot
<1>3. c \in Holders <=> HasSlot(c)
  BY DEF Holders
<1>4. /\ Cardinality(Holders \union {c}) = IF c \in Holders THEN used ELSE used + 1
      /\ Cardinality(Holders \ {c}) = IF c \in Holders THEN used - 1 ELSE used
      /\ IsFiniteSet(Holders \union {c}) /\ IsFiniteSet(Holders \ {c})
  BY <1>1, FS_AddElement, FS_RemoveElement
<1>5. used' = Cardinality(Holders') /\ IsFiniteSet(Holders')
  BY <1>2, <1>3, <1>4
<1>6. Cardinality(Holders') \in Nat
  BY <1>5, FS_CardinalityType
<1> QED
  BY <1>5, <1>6 DEF SlotsAreHeld, Holders

-----------------------------------------------------------------------------
(* Records *)

LEMMA IdleIsCall == Idle \in Call
BY CallsAssumption DEF CallsAssumption, Idle, Call, Results

Steps == {"idle", "try", "acquire", "allow", "ask", "stream", "release", "record", "recordFirst",
          "releaseLast", "settle"}

\* A call's record after the assignments of its steps is a call again.
LEMMA CallFields ==
    ASSUME NEW m \in Call, NEW p \in Steps
    PROVE  /\ [m EXCEPT !.pc = p] \in Call
           /\ \A b \in BOOLEAN : [m EXCEPT !.pc = p, !.probe = b] \in Call
           /\ \A r \in Results : [m EXCEPT !.pc = p, !.result = r] \in Call
           /\ \A r \in Results, b \in BOOLEAN :
                 [m EXCEPT !.pc = p, !.result = r, !.streaming = b] \in Call
           /\ \A n \in 0 .. MaxAttempts, b \in BOOLEAN :
                 [m EXCEPT !.pc = p, !.attempt = n, !.probe = b] \in Call
<1>1. [m EXCEPT !.pc = p] \in Call
  BY Zenon DEF Call, Steps
<1>2. ASSUME NEW b \in BOOLEAN PROVE [m EXCEPT !.pc = p, !.probe = b] \in Call
  BY Zenon DEF Call, Steps
<1>3. ASSUME NEW r \in Results PROVE [m EXCEPT !.pc = p, !.result = r] \in Call
  BY Zenon DEF Call, Steps
<1>4. ASSUME NEW r \in Results, NEW b \in BOOLEAN
      PROVE  [m EXCEPT !.pc = p, !.result = r, !.streaming = b] \in Call
  BY Zenon DEF Call, Steps
<1>5. ASSUME NEW n \in 0 .. MaxAttempts, NEW b \in BOOLEAN
      PROVE  [m EXCEPT !.pc = p, !.attempt = n, !.probe = b] \in Call
  BY Zenon DEF Call, Steps
<1> QED
  BY <1>1, <1>2, <1>3, <1>4, <1>5

LEMMA FreshCall ==
    ASSUME NEW k \in Kinds
    PROVE  [Idle EXCEPT !.pc = "try", !.kind = k, !.attempt = 1] \in Call
<1>1. 1 \in 0 .. MaxAttempts
  BY CallsAssumption DEF CallsAssumption
<1> QED
  BY <1>1 DEF Idle, Call, Results

LEMMA BreakerType ==
    ASSUME TypeOK
    PROVE  \A r \in Results : /\ Recorded(r) \in [failures : 0 .. Threshold, open : BOOLEAN,
                                                  aged : BOOLEAN, probe : BOOLEAN]
                              /\ ~Recorded(r).probe
BY CallsAssumption DEF CallsAssumption, TypeOK, Recorded, Success, Failure, Closed

-----------------------------------------------------------------------------
(* One call moves *)

Breakers == [failures : 0 .. Threshold, open : BOOLEAN, aged : BOOLEAN, probe : BOOLEAN]

Others(c) == \A d \in Callers \ {c} :
                call'[d] = call[d] /\ spent'[d] = spent[d] /\ asked'[d] = asked[d]

\* A step of c keeps the invariant if it keeps c's part of it: the counter of
\* slots, the probe and the budget of c.
LEMMA OneMoves ==
    ASSUME Inv, NEW c \in Callers, Others(c),
           call' \in [Callers -> Call],
           spent' \in [Callers -> Nat], asked' \in [Callers -> Nat],
           cancelled' \subseteq Callers, breaker' \in Breakers, UNCHANGED healthy,
           used' = IF HasSlot(c)' THEN (IF HasSlot(c) THEN used ELSE used + 1)
                   ELSE (IF HasSlot(c) THEN used - 1 ELSE used),
           used' <= Limit,
           breaker'.probe =>
               \/ call'[c].probe /\ InFlight(c)'
               \/ breaker.probe /\ ~(call[c].probe /\ InFlight(c)),
           Paid(c)', PastAsking(c)'
    PROVE  Inv'
<1>1. SlotsAreHeld' /\ used' \in Nat
  BY CountFollows DEF Others
<1>2. TypeOK'
  BY <1>1, CallsAssumption DEF CallsAssumption, TypeOK, Inv, Breakers
<1>3. ProbeIsOut'
  <2>1. CASE breaker'.probe /\ call'[c].probe /\ InFlight(c)'
    BY <2>1 DEF ProbeIsOut, InFlight
  <2>2. CASE breaker'.probe /\ breaker.probe /\ ~(call[c].probe /\ InFlight(c))
    <3>1. PICK d \in Callers : call[d].probe /\ InFlight(d)
      BY <2>2 DEF Inv, ProbeIsOut
    <3>2. d # c
      BY <2>2, <3>1
    <3>3. call'[d] = call[d]
      BY <3>2 DEF Others
    <3>4. call'[d].probe /\ InFlight(d)'
      BY <3>1, <3>3 DEF InFlight
    <3> QED
      BY <3>4 DEF ProbeIsOut, InFlight
  <2> QED
    BY <2>1, <2>2 DEF ProbeIsOut
<1>4. ASSUME NEW d \in Callers PROVE Paid(d)' /\ PastAsking(d)'
  <2>1. CASE d # c
    <3>1. call'[d] = call[d] /\ spent'[d] = spent[d] /\ asked'[d] = asked[d]
      BY <2>1 DEF Others
    <3>2. Paid(d) /\ PastAsking(d)
      BY DEF Inv
    <3> QED
      BY <3>1, <3>2 DEF Paid, Pending, Metered, PastAsking
  <2> QED
    BY <2>1
<1> QED
  BY <1>1, <1>2, <1>3, <1>4 DEF Inv

\* What Goto and Return do to c's record.
LEMMA GotoFields ==
    ASSUME TypeOK, NEW c \in Callers, Goto(c, "acquire") \/ Goto(c, "allow") \/ Goto(c, "record")
               \/ Goto(c, "settle") \/ Goto(c, "releaseLast")
    PROVE  /\ call' \in [Callers -> Call]
           /\ \A d \in Callers \ {c} : call'[d] = call[d]
           /\ \A p : Goto(c, p) => call'[c].pc = p
           /\ call'[c].kind = call[c].kind /\ call'[c].attempt = call[c].attempt
           /\ call'[c].probe = call[c].probe /\ call'[c].streaming = call[c].streaming
<1>1. call[c] \in Call
  BY DEF TypeOK
<1>2. PICK p \in {"acquire", "allow", "record", "settle", "releaseLast"} :
         call' = [call EXCEPT ![c].pc = p]
  BY DEF Goto
<1>3. [call[c] EXCEPT !.pc = p] \in Call
  BY <1>1, CallFields DEF Steps
<1>4. call' \in [Callers -> Call] /\ call'[c] = [call[c] EXCEPT !.pc = p]
  BY <1>2, <1>3 DEF TypeOK
<1>5. \A q : Goto(c, q) => call'[c].pc = q
  BY <1>1 DEF Goto, TypeOK, Call
<1> QED
  BY <1>1, <1>2, <1>4, <1>5 DEF TypeOK, Call

LEMMA ReturnFields ==
    ASSUME TypeOK, NEW c \in Callers, Return(c)
    PROVE  /\ call' \in [Callers -> Call]
           /\ \A d \in Callers \ {c} : call'[d] = call[d]
           /\ call'[c] = Idle /\ call'[c].pc = "idle" /\ ~call'[c].streaming /\ ~call'[c].probe
           /\ ~HasSlot(c)' /\ ~InFlight(c)' /\ Pending(c)' = 0 /\ PastAsking(c)'
<1>1. call' \in [Callers -> Call] /\ call'[c] = Idle
  BY IdleIsCall DEF Return, TypeOK
<1>2. \A d \in Callers \ {c} : call'[d] = call[d]
  BY DEF Return, TypeOK
<1>3. call'[c].pc = "idle" /\ ~call'[c].streaming /\ ~call'[c].probe
  BY <1>1 DEF Idle
<1> QED
  BY <1>1, <1>2, <1>3 DEF HasSlot, InFlight, Pending, PastAsking

-----------------------------------------------------------------------------
(* The steps of a call *)

LEMMA BeginStep == ASSUME Inv, NEW c \in Callers, NEW k \in Kinds, Begin(c, k) PROVE Inv'
<1>1. call'[c] = [Idle EXCEPT !.pc = "try", !.kind = k, !.attempt = 1] /\ Others(c)
  BY DEF Begin, Inv, TypeOK, Others
<1>2. call' \in [Callers -> Call]
  BY FreshCall DEF Begin, Inv, TypeOK
<1>3. call'[c].pc = "try" /\ ~call'[c].probe /\ ~call'[c].streaming
  BY <1>1 DEF Idle
<1>4. ~HasSlot(c) /\ ~HasSlot(c)' /\ ~InFlight(c) /\ Pending(c) = 0 /\ Pending(c)' = 0
  BY <1>3 DEF Begin, HasSlot, InFlight, Pending
<1>5. Paid(c)' /\ PastAsking(c)'
  BY <1>3, <1>4 DEF Begin, Inv, Paid, PastAsking
<1> QED
  BY <1>1, <1>2, <1>4, <1>5, OneMoves DEF Begin, Inv, TypeOK, Breakers

LEMMA NewRunStep == ASSUME Inv, NEW c \in Callers, NewRun(c) PROVE Inv'
<1>1. Others(c) /\ spent'[c] = 0 /\ asked'[c] = 0
  BY DEF NewRun, Inv, TypeOK, Others
<1>2. spent' \in [Callers -> Nat] /\ asked' \in [Callers -> Nat]
  BY DEF NewRun, Inv, TypeOK
<1>3. ~HasSlot(c) /\ ~HasSlot(c)' /\ ~InFlight(c) /\ Pending(c)' = 0
  BY DEF NewRun, HasSlot, InFlight, Pending
<1>4. Paid(c)' /\ PastAsking(c)'
  BY <1>1, <1>3, CallsAssumption DEF CallsAssumption, NewRun, Inv, Paid, PastAsking
<1> QED
  BY <1>1, <1>2, <1>3, <1>4, OneMoves DEF NewRun, Inv, TypeOK, Breakers

LEMMA TryStep == ASSUME Inv, NEW c \in Callers, Try(c) PROVE Inv'
<1>1. /\ call' \in [Callers -> Call]
      /\ \A d \in Callers \ {c} : call'[d] = call[d]
      /\ call'[c].pc = "acquire" /\ call'[c].kind = call[c].kind
      /\ call'[c].probe = call[c].probe /\ call'[c].streaming = call[c].streaming
  BY GotoFields DEF Try, Inv
<1>2. spent' \in [Callers -> Nat]
  BY DEF Try, ConsumeModelCall, Inv, TypeOK
<1>3. Others(c)
  BY <1>1 DEF Try, ConsumeModelCall, Inv, TypeOK, Others
<1>4. ~HasSlot(c) /\ ~HasSlot(c)' /\ ~InFlight(c) /\ Pending(c) = 0
  BY <1>1 DEF Try, HasSlot, InFlight, Pending
<1>5. Metered(c) <=> Metered(c)'
  BY <1>1 DEF Metered
<1>6. Paid(c)'
  <2>1. CASE Metered(c)
    <3>1. spent'[c] = spent[c] + 1 /\ spent[c] < MaxModelCalls
      BY <2>1 DEF Try, ConsumeModelCall, Inv, TypeOK
    <3>2. asked'[c] = asked[c] /\ Pending(c)' = 1
      BY <1>1, <1>5, <2>1 DEF Try, Pending
    <3>3. spent[c] \in Nat /\ asked[c] \in Nat /\ MaxModelCalls \in Nat
      BY CallsAssumption DEF CallsAssumption, Inv, TypeOK
    <3> QED
      BY <1>4, <3>1, <3>2, <3>3 DEF Inv, Paid
  <2>2. CASE ~Metered(c)
    <3>1. spent'[c] = spent[c] /\ asked'[c] = asked[c] /\ Pending(c)' = 0
      BY <1>5, <2>2 DEF Try, ConsumeModelCall, Pending
    <3> QED
      BY <1>4, <3>1 DEF Inv, Paid
  <2> QED
    BY <2>1, <2>2
<1>7. PastAsking(c)'
  BY <1>1 DEF Try, Inv, PastAsking
<1> QED
  BY <1>1, <1>2, <1>3, <1>4, <1>6, <1>7, OneMoves DEF Try, Inv, TypeOK, Breakers

LEMMA TryEndsStep == ASSUME Inv, NEW c \in Callers, TryEnds(c) PROVE Inv'
<1>1. /\ call' \in [Callers -> Call]
      /\ \A d \in Callers \ {c} : call'[d] = call[d]
      /\ ~HasSlot(c)' /\ ~InFlight(c)' /\ Pending(c)' = 0 /\ PastAsking(c)'
  BY ReturnFields DEF TryEnds, Inv
<1>2. Others(c)
  BY <1>1 DEF TryEnds, Others
<1>3. ~HasSlot(c) /\ ~InFlight(c)
  BY DEF TryEnds, HasSlot, InFlight
<1>4. Paid(c)'
  <2>1. asked[c] + Pending(c) <= spent[c] => asked[c] <= spent[c]
    BY DEF Inv, TypeOK, Pending
  <2> QED
    BY <1>1, <2>1 DEF TryEnds, Inv, TypeOK, Paid
<1> QED
  BY <1>1, <1>2, <1>3, <1>4, OneMoves DEF TryEnds, Inv, TypeOK, Breakers

LEMMA AcquireStep == ASSUME Inv, NEW c \in Callers, Acquire(c) PROVE Inv'
<1>1. /\ call' \in [Callers -> Call]
      /\ \A d \in Callers \ {c} : call'[d] = call[d]
      /\ call'[c].pc = "allow" /\ call'[c].kind = call[c].kind
      /\ call'[c].probe = call[c].probe /\ call'[c].streaming = call[c].streaming
  BY GotoFields DEF Acquire, Inv
<1>2. Others(c)
  BY <1>1 DEF Acquire, Others
<1>3. ~HasSlot(c) /\ HasSlot(c)' /\ ~InFlight(c)
  BY <1>1 DEF Acquire, HasSlot, InFlight
<1>4. used' <= Limit
  BY CallsAssumption DEF CallsAssumption, Acquire, Inv, TypeOK
<1>5. Pending(c)' = Pending(c)
  BY <1>1 DEF Acquire, Pending, Metered
<1>6. Paid(c)' /\ PastAsking(c)'
  BY <1>1, <1>5 DEF Acquire, Inv, Paid, PastAsking
<1> QED
  BY <1>1, <1>2, <1>3, <1>4, <1>6, OneMoves DEF Acquire, Inv, TypeOK, Breakers

LEMMA AcquireEndsStep == ASSUME Inv, NEW c \in Callers, AcquireEnds(c) PROVE Inv'
<1>1. /\ call' \in [Callers -> Call]
      /\ \A d \in Callers \ {c} : call'[d] = call[d]
      /\ ~HasSlot(c)' /\ ~InFlight(c)' /\ Pending(c)' = 0 /\ PastAsking(c)'
  BY ReturnFields DEF AcquireEnds, Inv
<1>2. Others(c)
  BY <1>1 DEF AcquireEnds, Others
<1>3. ~HasSlot(c) /\ ~InFlight(c)
  BY DEF AcquireEnds, HasSlot, InFlight
<1>4. Paid(c)'
  <2>1. asked[c] + Pending(c) <= spent[c] => asked[c] <= spent[c]
    BY DEF Inv, TypeOK, Pending
  <2> QED
    BY <1>1, <2>1 DEF AcquireEnds, Inv, TypeOK, Paid
<1> QED
  BY <1>1, <1>2, <1>3, <1>4, OneMoves DEF AcquireEnds, Inv, TypeOK, Breakers

\* The payment of Try is spent: the request goes out.
LEMMA AllowStep == ASSUME Inv, NEW c \in Callers, Allow(c) PROVE Inv'
<1>1. call[c] \in Call /\ breaker \in Breakers /\ breaker.open \in BOOLEAN
  BY DEF Inv, TypeOK, Breakers
<1>2. call'[c] = [call[c] EXCEPT !.pc = "ask", !.probe = breaker.open]
  BY DEF Allow, Inv, TypeOK
<1>3. \A d \in Callers \ {c} : call'[d] = call[d]
  BY DEF Allow, Inv, TypeOK
<1>4. [call[c] EXCEPT !.pc = "ask", !.probe = breaker.open] \in Call
  BY <1>1, CallFields DEF Steps
<1>5. call' \in [Callers -> Call]
  BY <1>2, <1>3, <1>4 DEF Allow, Inv, TypeOK
<1>6. /\ call'[c].pc = "ask" /\ call'[c].kind = call[c].kind
      /\ call'[c].probe = breaker.open /\ call'[c].streaming = call[c].streaming
  BY <1>1, <1>2 DEF Call
<1>7. HasSlot(c) /\ HasSlot(c)' /\ ~InFlight(c) /\ InFlight(c)'
  BY <1>6 DEF Allow, HasSlot, InFlight
<1>8. breaker' \in Breakers /\ breaker'.probe = breaker.open
  BY <1>1 DEF Allow, Breakers
<1>9. asked' \in [Callers -> Nat] /\ Others(c)
  BY <1>3 DEF Allow, Inv, TypeOK, Others
<1>10. asked'[c] = asked[c] + Pending(c) /\ Pending(c)' = 0
  BY <1>6 DEF Allow, Pending, Inv, TypeOK
<1>11. Paid(c)' /\ PastAsking(c)'
  BY <1>6, <1>10 DEF Allow, Inv, TypeOK, Paid, PastAsking
<1> QED
  BY <1>5, <1>6, <1>7, <1>8, <1>9, <1>11, OneMoves DEF Allow, Inv, TypeOK

LEMMA RejectStep == ASSUME Inv, NEW c \in Callers, Reject(c) PROVE Inv'
<1>1. /\ call' \in [Callers -> Call]
      /\ \A d \in Callers \ {c} : call'[d] = call[d]
      /\ ~HasSlot(c)' /\ ~InFlight(c)' /\ Pending(c)' = 0 /\ PastAsking(c)'
  BY ReturnFields DEF Reject, Inv
<1>2. Others(c)
  BY <1>1 DEF Reject, Others
<1>3. HasSlot(c) /\ ~InFlight(c)
  BY DEF Reject, HasSlot, InFlight
<1>4. Paid(c)'
  <2>1. asked[c] + Pending(c) <= spent[c] => asked[c] <= spent[c]
    BY DEF Inv, TypeOK, Pending
  <2> QED
    BY <1>1, <2>1 DEF Reject, Inv, TypeOK, Paid
<1>5. used' <= Limit
  BY CallsAssumption DEF CallsAssumption, Reject, Inv, TypeOK
<1> QED
  BY <1>1, <1>2, <1>3, <1>4, <1>5, OneMoves DEF Reject, Inv, TypeOK, Breakers

LEMMA AnswerStep == ASSUME Inv, NEW c \in Callers, Answer(c) PROVE Inv'
<1>1. PICK result \in Answers :
         LET streams == call[c].kind = "stream" /\ result = "ok"
             next == IF streams THEN "stream"
                     ELSE IF call[c].kind = "retrieve" THEN "recordFirst" ELSE "release"
         IN  call' = [call EXCEPT ![c].pc = next, ![c].result = result, ![c].streaming = streams]
  BY DEF Answer
<1> DEFINE streams == call[c].kind = "stream" /\ result = "ok"
           next == IF streams THEN "stream"
                   ELSE IF call[c].kind = "retrieve" THEN "recordFirst" ELSE "release"
<1>2. call[c] \in Call /\ result \in Results
  BY DEF Inv, TypeOK, Answers, Results
<1>3. next \in {"stream", "recordFirst", "release"} /\ streams \in BOOLEAN
  OBVIOUS
<1>4. streams => next = "stream"
  OBVIOUS
<1>5. /\ call'[c] = [call[c] EXCEPT !.pc = next, !.result = result, !.streaming = streams]
      /\ \A d \in Callers \ {c} : call'[d] = call[d]
      /\ DOMAIN call' = Callers
      /\ call' = [d \in Callers |-> call'[d]]
  BY <1>1 DEF Inv, TypeOK
<1> HIDE DEF streams, next
<1>6. call'[c] \in Call
  <2>1. next \in Steps
    BY <1>3 DEF Steps
  <2>2. \A p \in Steps, r \in Results, b \in BOOLEAN :
           [call[c] EXCEPT !.pc = p, !.result = r, !.streaming = b] \in Call
    BY <1>2, CallFields
  <2>3. [call[c] EXCEPT !.pc = next, !.result = result, !.streaming = streams] \in Call
    BY <1>2, <1>3, <2>1, <2>2, Zenon
  <2> QED
    BY <1>5, <2>3
<1>7. call' \in [Callers -> Call]
  <2>1. \A d \in Callers : call'[d] \in Call
    BY <1>5, <1>6 DEF Inv, TypeOK
  <2> QED
    BY <1>5, <2>1
<1>8. /\ call'[c].pc = next /\ call'[c].kind = call[c].kind
      /\ call'[c].probe = call[c].probe /\ call'[c].streaming = streams
  BY <1>2, <1>5 DEF Call
<1>9. HasSlot(c) /\ HasSlot(c)' /\ InFlight(c) /\ InFlight(c)'
  BY <1>3, <1>8 DEF Answer, HasSlot, InFlight
<1>10. Pending(c) = 0 /\ Pending(c)' = 0
  BY <1>3, <1>8 DEF Answer, Pending
<1>11. Paid(c)' /\ PastAsking(c)'
  BY <1>3, <1>4, <1>8, <1>10 DEF Answer, Inv, TypeOK, Paid, PastAsking
<1>12. Others(c)
  BY <1>5 DEF Answer, Others
<1> QED
  BY <1>7, <1>8, <1>9, <1>11, <1>12, OneMoves DEF Answer, Inv, TypeOK, Breakers

LEMMA StreamEndsStep == ASSUME Inv, NEW c \in Callers, StreamEnds(c) PROVE Inv'
<1>1. PICK result \in Results : call' = [call EXCEPT ![c].pc = "recordFirst", ![c].result = result]
  BY DEF StreamEnds, Answers, Results
<1>2. call[c] \in Call
  BY DEF Inv, TypeOK
<1>3. /\ call'[c] = [call[c] EXCEPT !.pc = "recordFirst", !.result = result]
      /\ \A d \in Callers \ {c} : call'[d] = call[d]
  BY <1>1 DEF Inv, TypeOK
<1>4. [call[c] EXCEPT !.pc = "recordFirst", !.result = result] \in Call
  BY <1>2, CallFields DEF Steps
<1>5. call' \in [Callers -> Call]
  <2>1. call' = [d \in Callers |-> call'[d]]
    BY <1>1 DEF Inv, TypeOK
  <2>2. \A d \in Callers : call'[d] \in Call
    BY <1>3, <1>4 DEF Inv, TypeOK
  <2> QED
    BY <2>1, <2>2
<1>6. /\ call'[c].pc = "recordFirst" /\ call'[c].kind = call[c].kind
      /\ call'[c].probe = call[c].probe /\ call'[c].streaming = call[c].streaming
  BY <1>2, <1>3 DEF Call
<1>7. HasSlot(c) /\ HasSlot(c)' /\ InFlight(c) /\ InFlight(c)' /\ Pending(c) = 0 /\ Pending(c)' = 0
  BY <1>6 DEF StreamEnds, HasSlot, InFlight, Pending
<1>8. Paid(c)' /\ PastAsking(c)'
  BY <1>6, <1>7 DEF StreamEnds, Inv, TypeOK, Paid, PastAsking
<1>9. Others(c)
  BY <1>3 DEF StreamEnds, Others
<1> QED
  BY <1>5, <1>6, <1>7, <1>8, <1>9, OneMoves DEF StreamEnds, Inv, TypeOK, Breakers

LEMMA RecordStep == ASSUME Inv, NEW c \in Callers, Record(c) PROVE Inv'
<1>1. /\ call' \in [Callers -> Call]
      /\ \A d \in Callers \ {c} : call'[d] = call[d]
      /\ call'[c].pc = IF call[c].pc = "record" THEN "settle" ELSE "releaseLast"
      /\ call'[c].kind = call[c].kind
      /\ call'[c].probe = call[c].probe /\ call'[c].streaming = call[c].streaming
  BY GotoFields DEF Record, Inv
<1>2. Others(c)
  BY <1>1 DEF Record, Others
<1>3. (HasSlot(c) <=> HasSlot(c)') /\ Pending(c) = 0 /\ Pending(c)' = 0
  BY <1>1 DEF Record, HasSlot, Pending
<1>4. call[c].result \in Results
  BY DEF Inv, TypeOK, Call
<1>5. breaker' \in Breakers /\ ~breaker'.probe
  BY <1>4, BreakerType DEF Record, Inv, Breakers
<1>6. Paid(c)' /\ PastAsking(c)'
  BY <1>1, <1>3 DEF Record, Inv, TypeOK, Paid, PastAsking
<1> QED
  BY <1>1, <1>2, <1>3, <1>5, <1>6, OneMoves DEF Record, Inv, TypeOK

LEMMA ReleaseStep == ASSUME Inv, NEW c \in Callers, Release(c) PROVE Inv'
<1>1. /\ call' \in [Callers -> Call]
      /\ \A d \in Callers \ {c} : call'[d] = call[d]
      /\ call'[c].pc = IF call[c].pc = "release" THEN "record" ELSE "settle"
      /\ call'[c].kind = call[c].kind
      /\ call'[c].probe = call[c].probe /\ call'[c].streaming = call[c].streaming
  BY GotoFields DEF Release, Inv
<1>2. Others(c)
  BY <1>1 DEF Release, Others
<1>3. HasSlot(c) /\ ~HasSlot(c)' /\ Pending(c) = 0 /\ Pending(c)' = 0 /\ (InFlight(c) <=> InFlight(c)')
  BY <1>1 DEF Release, HasSlot, Pending, InFlight
<1>4. used' <= Limit
  BY CallsAssumption DEF CallsAssumption, Release, Inv, TypeOK
<1>5. Paid(c)' /\ PastAsking(c)'
  BY <1>1, <1>3 DEF Release, Inv, TypeOK, Paid, PastAsking
<1> QED
  BY <1>1, <1>2, <1>3, <1>4, <1>5, OneMoves DEF Release, Inv, TypeOK, Breakers

LEMMA SettleStep == ASSUME Inv, NEW c \in Callers, Settle(c) PROVE Inv'
<1>1. ~HasSlot(c) /\ ~InFlight(c) /\ Pending(c) = 0
  BY DEF Settle, HasSlot, InFlight, Pending
<1>2. /\ call' \in [Callers -> Call]
      /\ \A d \in Callers \ {c} : call'[d] = call[d]
      /\ ~HasSlot(c)' /\ Pending(c)' = 0 /\ PastAsking(c)'
  <2>1. CASE Retries(c)
    <3>1. call' = [call EXCEPT ![c].pc = "try", ![c].attempt = @ + 1, ![c].probe = FALSE]
      BY <2>1 DEF Settle
    <3>2. call[c] \in Call /\ call[c].attempt + 1 \in 0 .. MaxAttempts
      BY <2>1, CallsAssumption DEF CallsAssumption, Retries, Inv, TypeOK, Call
    <3>3. /\ call'[c] = [call[c] EXCEPT !.pc = "try", !.attempt = call[c].attempt + 1,
                                        !.probe = FALSE]
          /\ \A d \in Callers \ {c} : call'[d] = call[d]
          /\ call' = [d \in Callers |-> call'[d]]
      BY <3>1, <3>2 DEF Inv, TypeOK, Call
    <3>4. call'[c] \in Call
      <4>1. \A n \in 0 .. MaxAttempts :
               [call[c] EXCEPT !.pc = "try", !.attempt = n, !.probe = FALSE] \in Call
        BY <3>2, CallFields DEF Steps
      <4> QED
        BY <3>2, <3>3, <4>1
    <3>5. \A d \in Callers : call'[d] \in Call
      BY <3>3, <3>4 DEF Inv, TypeOK
    <3>6. call'[c].pc = "try" /\ call'[c].streaming = call[c].streaming
      BY <3>2, <3>3 DEF Call
    <3> QED
      BY <2>1, <3>3, <3>5, <3>6 DEF Retries, HasSlot, Pending, PastAsking
  <2>2. CASE ~Retries(c)
    BY <2>2, ReturnFields DEF Settle, Inv
  <2> QED
    BY <2>1, <2>2
<1>3. Others(c)
  BY <1>2 DEF Settle, Others
<1>4. Paid(c)'
  BY <1>1, <1>2 DEF Settle, Inv, TypeOK, Paid
<1> QED
  BY <1>1, <1>2, <1>3, <1>4, OneMoves DEF Settle, Inv, TypeOK, Breakers

-----------------------------------------------------------------------------
(* The invariant *)

\* The environment moves nothing a call holds.
LEMMA EnvironmentStep ==
    ASSUME Inv, (\E c \in Callers : Cancel(c)) \/ Elapse \/ HealthChanges \/ UNCHANGED vars
    PROVE  Inv'
<1>1. UNCHANGED <<call, spent, asked, used>> /\ breaker'.probe = breaker.probe
  BY DEF Cancel, Elapse, HealthChanges, vars, Inv, TypeOK
<1>2. TypeOK'
  BY <1>1 DEF Cancel, Elapse, HealthChanges, vars, Inv, TypeOK
<1>3. SlotsAreHeld' /\ ProbeIsOut'
  BY <1>1 DEF Inv, SlotsAreHeld, HasSlot, ProbeIsOut, InFlight
<1>4. \A c \in Callers : Paid(c)' /\ PastAsking(c)'
  BY <1>1 DEF Inv, Paid, Pending, Metered, PastAsking
<1> QED
  BY <1>2, <1>3, <1>4 DEF Inv

LEMMA InitInv == Init => Inv
<1> SUFFICES ASSUME Init PROVE Inv
  OBVIOUS
<1>1. TypeOK
  BY IdleIsCall, CallsAssumption DEF CallsAssumption, Init, TypeOK, Closed
<1>2. \A c \in Callers : ~HasSlot(c) /\ Pending(c) = 0 /\ PastAsking(c) /\ Paid(c)
  BY CallsAssumption DEF CallsAssumption, Init, Idle, HasSlot, Pending, PastAsking, Paid
<1>3. SlotsAreHeld
  <2>1. {c \in Callers : HasSlot(c)} = {}
    BY <1>2
  <2> QED
    BY <2>1, FS_EmptySet DEF SlotsAreHeld, Init
<1> QED
  BY <1>1, <1>2, <1>3 DEF Inv, ProbeIsOut, Init, Closed

LEMMA InvStep == Inv /\ [Next]_vars => Inv'
<1> SUFFICES ASSUME Inv, [Next]_vars PROVE Inv'
  OBVIOUS
<1>1. ASSUME NEW c \in Callers, Attempt(c) PROVE Inv'
  BY <1>1, TryStep, TryEndsStep, AllowStep, RejectStep, AnswerStep, StreamEndsStep, RecordStep,
     ReleaseStep, SettleStep DEF Attempt
<1> QED
  BY <1>1, BeginStep, NewRunStep, AcquireStep, AcquireEndsStep, EnvironmentStep DEF Next

THEOREM Invariance == Spec => []Inv
BY InitInv, InvStep, PTL DEF Spec

-----------------------------------------------------------------------------
(* What the runs check *)

\* The variables keep their types; in particular no more than Limit slots are
\* ever taken.
THEOREM TypeCorrect == Spec => []TypeOK
<1>1. Inv => TypeOK
  BY DEF Inv
<1> QED
  BY <1>1, Invariance, PTL

\* Slots, the role of the probe and the budget are given back, however many runs
\* call, fail, are rejected, stream and are cancelled at once.
THEOREM LeakFree == Spec => []NothingLeaks
<1>1. ASSUME Inv, NEW c \in Callers, MaxModelCalls > 0 PROVE asked[c] <= MaxModelCalls
  <2>1. asked[c] + Pending(c) <= spent[c] /\ spent[c] <= MaxModelCalls
    BY <1>1 DEF Inv, Paid
  <2> QED
    BY <1>1, <2>1, CallsAssumption DEF CallsAssumption, Inv, TypeOK, Pending
<1>2. Inv => NothingLeaks
  BY <1>1 DEF Inv, NothingLeaks, BudgetHolds
<1> QED
  BY <1>2, Invariance, PTL

\* A call whose stream was established is never tried again.
THEOREM OneStream == Spec => NoSecondStream
<1> DEFINE Kept(c) == call[c].streaming /\ call'[c] # Idle =>
                         call'[c].streaming /\ call'[c].attempt = call[c].attempt
<1>1. ASSUME Inv, [Next]_vars, NEW c \in Callers, call[c].streaming PROVE Kept(c)
  <2>1. call[c].pc \in {"stream", "recordFirst", "releaseLast", "settle"} /\ call[c] \in Call
    BY <1>1 DEF Inv, PastAsking, TypeOK
  <2>2. CASE call'[c] = call[c]
    BY <2>2, <1>1
  <2>3. CASE StreamEnds(c)
    <3>1. PICK result : call'[c] = [call[c] EXCEPT !.pc = "recordFirst", !.result = result]
      BY <2>3, <1>1 DEF StreamEnds, Inv, TypeOK
    <3> QED
      BY <3>1, <2>1, <1>1 DEF Call
  <2>4. CASE Record(c) \/ Release(c)
    BY <2>4, <1>1, GotoFields DEF Record, Release, Inv
  <2>5. CASE Settle(c)
    BY <2>5, <1>1, ReturnFields DEF Settle, Retries, Inv
  <2>6. ASSUME NEW d \in Callers, d # c, Attempt(d) \/ Acquire(d) \/ AcquireEnds(d)
                  \/ (\E k \in Kinds : Begin(d, k)) \/ NewRun(d)
        PROVE  call'[c] = call[c]
    BY <2>6, <1>1 DEF Attempt, Try, TryEnds, Allow, Reject, Answer, StreamEnds, Record, Release,
       Settle, Acquire, AcquireEnds, Begin, NewRun, Goto, Return, Inv, TypeOK
  <2>7. ~(\/ Try(c) \/ TryEnds(c) \/ Allow(c) \/ Reject(c) \/ Answer(c) \/ Acquire(c)
          \/ AcquireEnds(c) \/ (\E k \in Kinds : Begin(c, k)))
    BY <2>1 DEF Try, TryEnds, Allow, Reject, Answer, Acquire, AcquireEnds, Begin
  <2>8. CASE (\E d \in Callers : Cancel(d)) \/ NewRun(c) \/ Elapse \/ HealthChanges \/ UNCHANGED vars
    BY <2>2, <2>8 DEF Cancel, NewRun, Elapse, HealthChanges, vars
  <2> QED
    BY <1>1, <2>2, <2>3, <2>4, <2>5, <2>6, <2>7, <2>8 DEF Next, Attempt
<1>2. Inv /\ [Next]_vars => [\A c \in Callers : Kept(c)]_vars
  BY <1>1
<1> QED
  BY <1>2, Invariance, PTL DEF Spec, NoSecondStream

-----------------------------------------------------------------------------
(* Note projection: the inductive invariant                                  *)

Open(i) == outbox[i].state # "completed"

\* A create event is completed when its document is written into the note.
CreateIsOpen ==
    \A n \in Notes : rag[n].document = "stored" /\ ~note[n].document =>
        \E i \in DOMAIN outbox : outbox[i].note = n /\ outbox[i].type = "create" /\ Open(i)
Tracking ==
    /\ \A i \in DOMAIN outbox :
          outbox[i].type = "create" /\ ~Open(i) => note[outbox[i].note].document
    /\ CreateIsOpen

Confirmed ==
    \A n \in Notes : note[n].status = "indexed" => rag[n].job = "completed" /\ note[n].document

\* Who knows that a job is completed was told so by RAG, where it stays completed.
Confirming ==
    /\ \A n \in Notes : rag[n].document = "absent" => rag[n].job = "none"
    /\ \A p \in Projectors : projector[p].job = "completed" =>
          /\ projector[p].pc \in {"complete", "fail"}
          /\ rag[outbox[At(p)].note].job = "completed"
    /\ \A q \in Pollers : poller[q].pc # "idle" => note[poller[q].note].document
    /\ \A q \in Pollers : poller[q].job = "completed" =>
          poller[q].pc = "save" /\ rag[poller[q].note].job = "completed"
    /\ Confirmed

\* A projector's rows are in processing, and no other projector has them.
Claimed ==
    /\ \A p \in Projectors : \A a \in DOMAIN projector[p].batch :
          outbox[projector[p].batch[a]].state = "processing"
    /\ \A p \in Projectors : \A a, b \in DOMAIN projector[p].batch :
          projector[p].batch[a] = projector[p].batch[b] => a = b
    /\ \A p, q \in Projectors : \A a \in DOMAIN projector[p].batch, b \in DOMAIN projector[q].batch :
          projector[p].batch[a] = projector[q].batch[b] => p = q

Projected == NotesTypeOK /\ Tracking /\ Confirming /\ Claimed


-----------------------------------------------------------------------------
(* Projectors                                                                *)

LEMMA Working ==
    ASSUME Projected, NEW p \in Projectors, projector[p].pc \notin {"idle", "claim"}
    PROVE  /\ projector[p] \in Projector /\ Len(projector[p].batch) \in Nat \ {0}
           /\ 1 \in DOMAIN projector[p].batch /\ At(p) = projector[p].batch[1]
           /\ At(p) \in DOMAIN outbox /\ outbox[At(p)] \in Event
           /\ outbox[At(p)].state = "processing"
           /\ outbox[At(p)].note \in Notes
<1>1. projector[p] \in Projector /\ projector[p].batch # <<>>
      /\ ToSet(projector[p].batch) \subseteq DOMAIN outbox /\ outbox \in Seq(Event)
  BY DEF Projected, NotesTypeOK
<1>2. projector[p].batch \in Seq(Nat)
  BY <1>1 DEF Projector
<1>3. Len(projector[p].batch) \in Nat \ {0} /\ 1 \in DOMAIN projector[p].batch
      /\ Head(projector[p].batch) = projector[p].batch[1]
  BY <1>1, <1>2
<1>4. projector[p].batch[1] \in DOMAIN outbox
  BY <1>1, <1>3 DEF ToSet
<1>5. outbox[At(p)] \in Event
  BY <1>1, <1>3, <1>4 DEF At
<1> QED
  BY <1>1, <1>3, <1>4, <1>5 DEF At, Event, Projected, Claimed

LEMMA Rows ==
    ASSUME Projected
    PROVE  /\ outbox \in Seq(Event)
           /\ \A i \in DOMAIN outbox : outbox[i] \in Event /\ outbox[i].note \in Notes
           /\ note \in [Notes -> [status : Status, document : BOOLEAN]]
           /\ rag \in [Notes -> [document : {"absent", "stored", "erased"}, job : Job]]
<1>1. outbox \in Seq(Event)
  BY DEF Projected, NotesTypeOK
<1>2. \A i \in DOMAIN outbox : outbox[i] \in Event
  BY <1>1
<1>3. \A e \in Event : e.note \in Notes
  BY DEF Event
<1> QED
  BY <1>1, <1>2, <1>3 DEF Projected, NotesTypeOK

\* Nothing happens to the events, the notes keep their documents and RAG its results.
LEMMA Undisturbed ==
    ASSUME Projected, UNCHANGED <<outbox, projector>>,
           \A n \in Notes : note[n].document => note'[n].document,
           \A n \in Notes : rag[n].job = "completed" => rag'[n].job = "completed"
    PROVE  /\ \A i \in DOMAIN outbox :
                 outbox[i].type = "create" /\ ~Open(i) => note'[outbox[i].note].document
           /\ \A p \in Projectors : projector[p].job = "completed" =>
                 /\ projector[p].pc \in {"complete", "fail"}
                 /\ rag'[outbox[At(p)].note].job = "completed"
           /\ Claimed'
<1>1. \A i \in DOMAIN outbox : outbox[i].note \in Notes
  BY Rows
<1>2. \A p \in Projectors : projector[p].job = "completed" => outbox[At(p)].note \in Notes
  BY Working DEF Projected, Confirming
<1>3. Claimed'
  BY DEF Projected, Claimed
<1>4. \A i \in DOMAIN outbox :
        outbox[i].type = "create" /\ ~Open(i) => note'[outbox[i].note].document
  BY <1>1 DEF Projected, Tracking
<1>5. \A p \in Projectors : projector[p].job = "completed" =>
         /\ projector[p].pc \in {"complete", "fail"}
         /\ rag'[outbox[At(p)].note].job = "completed"
  BY <1>2 DEF Projected, Confirming
<1> QED
  BY <1>3, <1>4, <1>5

\* The bounds are kept.
LEMMA Counts ==
    ASSUME Projected
    PROVE  /\ Fault \/ NoFault => faults' \in 0 .. MaxFaults
           /\ Loss \/ UNCHANGED losses => losses' \in 0 .. MaxLosses
BY NoteAssumption DEF Projected, NotesTypeOK, Fault, NoFault, Loss, NoteAssumption

-----------------------------------------------------------------------------
(* Requests                                                                  *)

LEMMA Appended ==
    ASSUME Projected, NEW e \in Event, e.state = "pending", outbox' = Append(outbox, e),
           note' \in [Notes -> [status : Status, document : BOOLEAN]],
           \A m \in Notes : note'[m].document = note[m].document,
           \A m \in Notes : note'[m].status = "indexed" => note[m].status = "indexed",
           UNCHANGED <<rag, projector, poller, blind, faults, losses>>
    PROVE  Projected'
<1>1. /\ outbox' \in Seq(Event) /\ DOMAIN outbox \subseteq DOMAIN outbox'
      /\ \A i \in DOMAIN outbox : outbox'[i] = outbox[i]
      /\ \A i \in DOMAIN outbox' : i \in DOMAIN outbox \/ outbox'[i] = e
  <2>1. outbox \in Seq(Event)
    BY Rows
  <2> QED
    BY <2>1
<1>2. NotesTypeOK'
  BY <1>1 DEF Projected, NotesTypeOK
<1>3. Tracking'
  <2>1. ASSUME NEW i \in DOMAIN outbox', outbox'[i].type = "create", ~Open(i)'
        PROVE  note'[outbox'[i].note].document
    <3>1. i \in DOMAIN outbox /\ ~Open(i) /\ outbox'[i] = outbox[i]
      BY <1>1, <2>1 DEF Open
    <3> QED
      BY <2>1, <3>1, Rows DEF Projected, Tracking
  <2>2. ASSUME NEW n \in Notes, rag[n].document = "stored", ~note'[n].document
        PROVE  \E i \in DOMAIN outbox' : outbox'[i].note = n /\ outbox'[i].type = "create" /\ Open(i)'
    <3>1. PICK i \in DOMAIN outbox : outbox[i].note = n /\ outbox[i].type = "create" /\ Open(i)
      BY <2>2 DEF Projected, Tracking, CreateIsOpen
    <3> QED
      BY <1>1, <3>1 DEF Open
  <2> QED
    BY <2>1, <2>2 DEF Tracking, CreateIsOpen
<1>4. Confirming'
  <2>1. \A p \in Projectors : projector[p].job = "completed" => At(p) \in DOMAIN outbox
    BY Working DEF Projected, Confirming
  <2> QED
    BY <1>1, <2>1 DEF Projected, Confirming, Confirmed, At, NotesTypeOK, Poller
<1>5. Claimed'
  BY <1>1 DEF Projected, Claimed, NotesTypeOK, ToSet
<1> QED
  BY <1>2, <1>3, <1>4, <1>5 DEF Projected

LEMMA Requested ==
    ASSUME Projected, NEW n \in Notes, Create(n) \/ \E k \in DeleteKeys : Delete(n, k)
    PROVE  Projected'
<1>1. PICK e \in Event, s \in {"indexing", "delete_pending"} :
          e.state = "pending" /\ outbox' = Append(outbox, e) /\ SetStatus(n, s)
  <2>1. CASE Create(n)
    BY <2>1 DEF Create, Event
  <2>2. ASSUME NEW k \in DeleteKeys, Delete(n, k)
        PROVE  \E e \in Event : e.state = "pending" /\ outbox' = Append(outbox, e)
                                /\ SetStatus(n, "delete_pending")
    <3> DEFINE e == [note |-> n, type |-> "delete", key |-> k, state |-> "pending", due |-> TRUE]
    <3>1. e \in Event /\ e.state = "pending"
      BY DEF Event
    <3>2. outbox' = Append(outbox, e) /\ SetStatus(n, "delete_pending")
      BY <2>2 DEF Delete
    <3> QED
      BY <3>1, <3>2
  <2> QED
    BY <2>1, <2>2
<1>2. /\ note' \in [Notes -> [status : Status, document : BOOLEAN]]
      /\ \A m \in Notes : note'[m].document = note[m].document
      /\ \A m \in Notes : note'[m].status = "indexed" => note[m].status = "indexed"
  BY <1>1, Rows DEF SetStatus, Status
<1>3. UNCHANGED <<rag, projector, poller, blind, faults, losses>>
  BY DEF Create, Delete
<1> QED
  BY <1>1, <1>2, <1>3, Appended

-----------------------------------------------------------------------------
(* RAG and RefreshStatus                                                     *)

LEMMA Indexes ==
    ASSUME Projected, NEW n \in Notes, Index(n)
    PROVE  Projected'
<1>1. PICK j \in {"completed", "failed"} : rag' = [rag EXCEPT ![n].job = j]
  BY DEF Index
<1>2. rag[n].job = "pending" /\ UNCHANGED <<note, outbox, projector, poller, blind, faults, losses>>
  BY DEF Index, tables
<1>3. /\ rag' \in [Notes -> [document : {"absent", "stored", "erased"}, job : Job]]
      /\ \A m \in Notes : rag'[m].document = rag[m].document
      /\ \A m \in Notes : m # n => rag'[m] = rag[m]
      /\ \A m \in Notes : rag[m].job = "completed" => rag'[m].job = "completed"
  BY <1>1, <1>2, Rows DEF Job
<1>4. NotesTypeOK'
  BY <1>2, <1>3 DEF Projected, NotesTypeOK
<1>5. Tracking'
  BY <1>2, <1>3 DEF Projected, Tracking, CreateIsOpen, Open
<1>6. \A p \in Projectors : projector[p].job = "completed" =>
         /\ projector[p].pc \in {"complete", "fail"}
         /\ rag'[outbox[At(p)].note].job = "completed"
  BY <1>2, <1>3, Undisturbed
<1>7. Confirming'
  <2>1. \A m \in Notes : rag'[m].document = "absent" => rag'[m].job = "none"
    BY <1>2, <1>3 DEF Projected, Confirming
  <2>2. \A q \in Pollers : poller[q].pc # "idle" => poller[q].note \in Notes
    BY DEF Projected, NotesTypeOK
  <2> QED
    BY <1>2, <1>3, <1>6, <2>1, <2>2 DEF Projected, Confirming, Confirmed, At
<1>8. Claimed'
  BY <1>2 DEF Projected, Claimed
<1> QED
  BY <1>4, <1>5, <1>7, <1>8 DEF Projected

LEMMA Polling ==
    ASSUME Projected, NEW q \in Pollers, NEW r \in Poller,
           poller' = [poller EXCEPT ![q] = r],
           r.pc # "idle" => r.note \in Notes /\ note[r.note].document,
           r.job = "completed" => r.pc = "save" /\ rag[r.note].job = "completed",
           UNCHANGED <<outbox, rag, projector, blind, faults, losses>>,
           note' \in [Notes -> [status : Status, document : BOOLEAN]],
           \A m \in Notes : note'[m].document = note[m].document,
           \A m \in Notes : note'[m].status = "indexed" =>
               note[m].status = "indexed" \/ (rag[m].job = "completed" /\ note[m].document)
    PROVE  Projected'
<1>1. poller \in [Pollers -> Poller]
  BY DEF Projected, NotesTypeOK
<1>2. /\ poller' \in [Pollers -> Poller] /\ poller'[q] = r
      /\ \A s \in Pollers : s # q => poller'[s] = poller[s]
  BY <1>1
<1>3. NotesTypeOK'
  BY <1>2 DEF Projected, NotesTypeOK
<1>4. Tracking'
  <2>1. \A i \in DOMAIN outbox : outbox[i].type = "create" /\ ~Open(i) => note'[outbox[i].note].document
    BY Undisturbed
  <2> QED
    BY <2>1 DEF Projected, Tracking, CreateIsOpen, Open
<1>5. Confirming'
  <2>1. \A s \in Pollers : poller[s].pc # "idle" => poller[s].note \in Notes
    BY DEF Projected, NotesTypeOK
  <2>2. \A s \in Pollers : poller'[s].pc # "idle" => note'[poller'[s].note].document
    BY <1>2, <2>1 DEF Projected, Confirming
  <2>3. \A s \in Pollers : poller'[s].job = "completed" =>
          poller'[s].pc = "save" /\ rag[poller'[s].note].job = "completed"
    BY <1>2 DEF Projected, Confirming
  <2>4. Confirmed'
    BY DEF Projected, Confirming, Confirmed
  <2> QED
    BY <2>2, <2>3, <2>4 DEF Projected, Confirming, At
<1>6. Claimed'
  BY DEF Projected, Claimed
<1> QED
  BY <1>3, <1>4, <1>5, <1>6 DEF Projected

LEMMA Refreshes ==
    ASSUME Projected, NEW q \in Pollers, Refresh(q) \/ GiveUpPoll(q)
    PROVE  Projected'
<1>1. Resting \in Poller /\ Resting.pc = "idle" /\ Resting.job = "none"
  BY DEF Resting, Poller, Job
<1>2. poller \in [Pollers -> Poller] /\ (poller[q].pc # "idle" => poller[q].note \in Notes)
  BY DEF Projected, NotesTypeOK
<1>3. /\ note \in [Notes -> [status : Status, document : BOOLEAN]]
      /\ rag \in [Notes -> [document : {"absent", "stored", "erased"}, job : Job]]
  BY Rows
<1>4. ASSUME NEW n \in Notes, Poll(q, n)
      PROVE  Projected'
  <2> DEFINE r == [pc |-> "ask", note |-> n, job |-> "none"]
  <2>1. r \in Poller /\ r.pc = "ask" /\ r.note = n /\ r.job = "none"
    BY DEF Poller, Job
  <2>2. poller' = [poller EXCEPT ![q] = r] /\ note[n].document
        /\ UNCHANGED note /\ UNCHANGED <<outbox, rag, projector, blind, faults, losses>>
    BY <1>4 DEF Poll, tables
  <2> HIDE DEF r
  <2> QED
    BY <1>3, <2>1, <2>2, Polling
<1>5. CASE GetNoteJob(q)
  <2> DEFINE r == [pc |-> "save", note |-> poller[q].note, job |-> rag[poller[q].note].job]
  <2>1. poller[q].pc = "ask" /\ poller' = [poller EXCEPT ![q] = r]
        /\ UNCHANGED note /\ UNCHANGED <<outbox, rag, projector, blind, faults, losses>>
    BY <1>2, <1>5 DEF GetNoteJob, tables
  <2>2. poller[q].note \in Notes /\ note[poller[q].note].document
    BY <1>2, <2>1 DEF Projected, Confirming
  <2>3. r \in Poller /\ r.pc = "save" /\ r.note = poller[q].note /\ r.job = rag[poller[q].note].job
    BY <1>3, <2>2 DEF Poller
  <2> HIDE DEF r
  <2> QED
    BY <1>3, <2>1, <2>2, <2>3, Polling
<1>6. CASE UpdateNoteJobStatus(q)
  <2>1. poller[q].pc = "save" /\ SetStatus(poller[q].note, Reported(poller[q].job))
        /\ poller' = [poller EXCEPT ![q] = Resting]
        /\ UNCHANGED <<outbox, rag, projector, blind, faults, losses>>
    BY <1>6 DEF UpdateNoteJobStatus
  <2>2. poller[q].note \in Notes /\ note[poller[q].note].document
        /\ (poller[q].job = "completed" => rag[poller[q].note].job = "completed")
    BY <1>2, <2>1 DEF Projected, Confirming
  <2>3. Reported(poller[q].job) \in Status
        /\ (Reported(poller[q].job) = "indexed" => poller[q].job = "completed")
    BY DEF Reported, Status
  <2>4. /\ note' \in [Notes -> [status : Status, document : BOOLEAN]]
        /\ \A m \in Notes : note'[m].document = note[m].document
        /\ \A m \in Notes : note'[m].status = "indexed" =>
               note[m].status = "indexed" \/ (rag[m].job = "completed" /\ note[m].document)
    BY <1>3, <2>1, <2>2, <2>3 DEF SetStatus
  <2> QED
    BY <1>1, <2>1, <2>4, Polling
<1>7. CASE GiveUpPoll(q)
  <2>1. poller' = [poller EXCEPT ![q] = Resting]
        /\ UNCHANGED note /\ UNCHANGED <<outbox, rag, projector, blind, faults, losses>>
    BY <1>7 DEF GiveUpPoll, tables
  <2> QED
    BY <1>1, <1>3, <2>1, Polling
<1> QED
  BY <1>4, <1>5, <1>6, <1>7 DEF Refresh

-----------------------------------------------------------------------------
(* ProjectPending                                                            *)

\* A projector goes on with what is left of its batch.
LEMMA Onwards ==
    ASSUME Projected, NEW p \in Projectors, NEW r \in Projector, NEW done \in Nat,
           projector' = [projector EXCEPT ![p] = r], r.pc \in {"idle", "claim"} <=> r.batch = <<>>,
           \A a \in DOMAIN r.batch : /\ a + done \in DOMAIN projector[p].batch
                                     /\ r.batch[a] = projector[p].batch[a + done],
           r.job = "completed" => /\ r.pc \in {"complete", "fail"}
                                  /\ rag'[outbox[Head(r.batch)].note].job = "completed",
           outbox' \in Seq(Event), DOMAIN outbox' = DOMAIN outbox,
           \A i \in DOMAIN outbox :
               /\ outbox'[i].note = outbox[i].note /\ outbox'[i].type = outbox[i].type
               /\ outbox'[i].state # outbox[i].state =>
                     i = projector[p].batch[1] /\ done >= 1 /\ projector[p].pc \notin {"idle", "claim"},
           note' \in [Notes -> [status : Status, document : BOOLEAN]],
           \A n \in Notes : note[n].document => note'[n].document,
           rag' \in [Notes -> [document : {"absent", "stored", "erased"}, job : Job]],
           \A n \in Notes : rag[n].job = "completed" => rag'[n].job = "completed",
           \A n \in Notes : rag'[n].document = "absent" => rag'[n].job = "none",
           faults' \in 0 .. MaxFaults, losses' \in 0 .. MaxLosses, UNCHANGED poller,
           blind' \subseteq Notes, Tracking', Confirmed'
    PROVE  Projected'
<1>1. projector \in [Projectors -> Projector]
  BY DEF Projected, NotesTypeOK
<1>2. /\ projector' \in [Projectors -> Projector] /\ projector'[p] = r
      /\ \A q \in Projectors : q # p => projector'[q] = projector[q]
  BY <1>1
<1>3. /\ r.batch \in Seq(Nat) /\ projector[p].batch \in Seq(Nat)
      /\ \A a \in DOMAIN r.batch : a \in Nat \ {0}
  <2>1. r.batch \in Seq(Nat) /\ projector[p].batch \in Seq(Nat)
    BY <1>1 DEF Projector
  <2>2. DOMAIN r.batch = 1 .. Len(r.batch) /\ Len(r.batch) \in Nat
    BY <2>1
  <2> QED
    BY <2>1, <2>2
<1>4. \A q \in Projectors : projector[q].batch \in Seq(Nat)
  BY <1>1 DEF Projector
<1>5. \A q \in Projectors : \A a \in DOMAIN projector[q].batch :
         /\ projector[q].batch[a] \in DOMAIN outbox
         /\ outbox[projector[q].batch[a]].state = "processing"
  BY DEF Projected, NotesTypeOK, ToSet, Claimed
<1>6. /\ \A q \in Projectors : \A a, b \in DOMAIN projector[q].batch :
            projector[q].batch[a] = projector[q].batch[b] => a = b
      /\ \A q1, q2 \in Projectors : \A a \in DOMAIN projector[q1].batch,
                                       b \in DOMAIN projector[q2].batch :
            projector[q1].batch[a] = projector[q2].batch[b] => q1 = q2
  BY DEF Projected, Claimed
<1>7. \A a \in DOMAIN r.batch :
         r.batch[a] \in DOMAIN outbox /\ outbox'[r.batch[a]].state = "processing"
  <2>1. ASSUME NEW a \in DOMAIN r.batch
        PROVE  r.batch[a] \in DOMAIN outbox /\ outbox'[r.batch[a]].state = "processing"
    <3>1. /\ a + done \in DOMAIN projector[p].batch
          /\ r.batch[a] = projector[p].batch[a + done]
      OBVIOUS
    <3>2. a \in Nat \ {0} /\ (done >= 1 => a + done # 1)
      BY <1>3
    <3>3. r.batch[a] \in DOMAIN outbox /\ outbox[r.batch[a]].state = "processing"
      BY <1>5, <3>1
    <3>4. 1 \in DOMAIN projector[p].batch
      BY <1>3, <3>1
    <3>5. done >= 1 => r.batch[a] # projector[p].batch[1]
      BY <1>6, <3>1, <3>2, <3>4
    <3> QED
      BY <3>3, <3>5
  <2> QED
    BY <2>1
<1>8. NotesTypeOK'
  <2>1. ToSet(r.batch) \subseteq DOMAIN outbox'
    BY <1>7 DEF ToSet
  <2> QED
    BY <1>2, <2>1 DEF Projected, NotesTypeOK
<1>9. Confirming'
  <2>1. \A q \in Projectors : projector'[q].job = "completed" =>
          /\ projector'[q].pc \in {"complete", "fail"}
          /\ rag'[outbox'[Head(projector'[q].batch)].note].job = "completed"
    <3>1. ASSUME NEW q \in Projectors, projector'[q].job = "completed", q # p
          PROVE  /\ projector'[q].pc \in {"complete", "fail"}
                 /\ rag'[outbox'[Head(projector'[q].batch)].note].job = "completed"
      <4>1. projector'[q] = projector[q] /\ projector[q].pc \in {"complete", "fail"}
            /\ rag[outbox[At(q)].note].job = "completed"
        BY <1>2, <3>1 DEF Projected, Confirming
      <4>2. At(q) \in DOMAIN outbox /\ outbox[At(q)].note \in Notes
        BY <4>1, Working
      <4> QED
        BY <4>1, <4>2 DEF At
    <3>2. ASSUME r.job = "completed"
          PROVE  /\ r.pc \in {"complete", "fail"}
                 /\ rag'[outbox'[Head(r.batch)].note].job = "completed"
      <4>1. r.pc \in {"complete", "fail"} /\ r.batch # <<>>
        BY <3>2
      <4>2. 1 \in DOMAIN r.batch /\ Head(r.batch) = r.batch[1]
        BY <1>3, <4>1
      <4>3. Head(r.batch) \in DOMAIN outbox
        BY <1>7, <4>2
      <4> QED
        BY <3>2, <4>1, <4>3
    <3> QED
      BY <1>2, <3>1, <3>2
  <2>2. \A q \in Pollers : poller[q].pc # "idle" => poller[q].note \in Notes
    BY DEF Projected, NotesTypeOK
  <2>3. \A q \in Pollers : poller[q].pc # "idle" => note'[poller[q].note].document
    BY <2>2 DEF Projected, Confirming
  <2>4. \A q \in Pollers : poller[q].job = "completed" =>
          poller[q].pc = "save" /\ rag'[poller[q].note].job = "completed"
    BY <2>2 DEF Projected, Confirming
  <2> QED
    BY <2>1, <2>3, <2>4 DEF Confirming, At
<1>10. Claimed'
  <2>1. ASSUME NEW q \in Projectors, NEW a \in DOMAIN projector'[q].batch
        PROVE  outbox'[projector'[q].batch[a]].state = "processing"
    <3>1. CASE q = p
      BY <1>2, <1>7, <2>1, <3>1
    <3>2. CASE q # p
      <4>1. projector'[q] = projector[q] /\ projector[q].batch[a] \in DOMAIN outbox
            /\ outbox[projector[q].batch[a]].state = "processing"
        BY <1>2, <1>5, <2>1, <3>2
      <4>2. CASE projector[p].batch = <<>>
        <5>1. projector[p].pc \in {"idle", "claim"}
          BY <4>2 DEF Projected, NotesTypeOK
        <5> QED
          BY <4>1, <5>1
      <4>3. CASE projector[p].batch # <<>>
        <5>1. 1 \in DOMAIN projector[p].batch
          BY <1>3, <4>3
        <5>2. projector[p].batch[1] # projector[q].batch[a]
          BY <1>6, <2>1, <3>2, <4>1, <5>1
        <5> QED
          BY <4>1, <5>2
      <4> QED
        BY <4>2, <4>3
    <3> QED
      BY <3>1, <3>2
  <2>2. ASSUME NEW q \in Projectors, NEW a \in DOMAIN projector'[q].batch,
               NEW b \in DOMAIN projector'[q].batch, projector'[q].batch[a] = projector'[q].batch[b]
        PROVE  a = b
    <3>1. CASE q = p
      <4>1. /\ a + done \in DOMAIN projector[p].batch /\ b + done \in DOMAIN projector[p].batch
            /\ projector[p].batch[a + done] = projector[p].batch[b + done]
        BY <1>2, <2>2, <3>1
      <4>2. a + done = b + done /\ a \in Nat /\ b \in Nat
        <5>1. a \in DOMAIN r.batch /\ b \in DOMAIN r.batch
          BY <1>2, <2>2, <3>1
        <5>2. a + done = b + done
          BY <1>6, <4>1
        <5> QED
          BY <1>3, <5>1, <5>2
      <4> QED
        BY <4>2
    <3>2. CASE q # p
      BY <1>2, <1>6, <2>2, <3>2
    <3> QED
      BY <3>1, <3>2
  <2>3. ASSUME NEW q1 \in Projectors, NEW a \in DOMAIN projector'[q1].batch
        PROVE  \E b \in DOMAIN projector[q1].batch : projector[q1].batch[b] = projector'[q1].batch[a]
    <3>1. CASE q1 = p
      BY <1>2, <2>3, <3>1
    <3>2. CASE q1 # p
      BY <1>2, <2>3, <3>2
    <3> QED
      BY <3>1, <3>2
  <2>4. ASSUME NEW q1 \in Projectors, NEW q2 \in Projectors,
               NEW a \in DOMAIN projector'[q1].batch, NEW b \in DOMAIN projector'[q2].batch,
               projector'[q1].batch[a] = projector'[q2].batch[b]
        PROVE  q1 = q2
    BY <1>6, <2>3, <2>4
  <2> QED
    BY <2>1, <2>2, <2>4 DEF Claimed
<1> QED
  BY <1>8, <1>9, <1>10 DEF Projected

\* A projector goes to its next step with the same event.
LEMMA Stays ==
    ASSUME Projected, NEW p \in Projectors, NEW r \in Projector, projector[p].pc \notin {"idle", "claim"},
           projector' = [projector EXCEPT ![p] = r], r.batch = projector[p].batch, r.pc \notin {"idle", "claim"},
           r.job = "completed" => /\ r.pc \in {"complete", "fail"}
                                  /\ rag'[outbox[At(p)].note].job = "completed",
           UNCHANGED outbox, UNCHANGED note, UNCHANGED poller,
           rag' \in [Notes -> [document : {"absent", "stored", "erased"}, job : Job]],
           \A n \in Notes : rag[n].job = "completed" => rag'[n].job = "completed",
           \A n \in Notes : rag'[n].document = "absent" => rag'[n].job = "none",
           \A n \in Notes : rag'[n].document = "stored" =>
               rag[n].document = "stored" \/ (n = outbox[At(p)].note /\ outbox[At(p)].type = "create"),
           faults' \in 0 .. MaxFaults, losses' \in 0 .. MaxLosses, blind' \subseteq Notes
    PROVE  Projected'
<1>1. /\ projector[p] \in Projector /\ projector[p].batch \in Seq(Nat) /\ projector[p].batch # <<>>
      /\ At(p) \in DOMAIN outbox /\ outbox[At(p)].state = "processing"
  BY Working DEF Projector, Projected, NotesTypeOK
<1>2. \A a \in DOMAIN r.batch : a + 0 \in DOMAIN projector[p].batch
                                /\ r.batch[a] = projector[p].batch[a + 0]
  BY <1>1
<1>3. Tracking'
  <2>1. ASSUME NEW n \in Notes, rag'[n].document = "stored", ~note[n].document
        PROVE  \E i \in DOMAIN outbox : outbox[i].note = n /\ outbox[i].type = "create" /\ Open(i)
    <3>1. CASE rag[n].document = "stored"
      BY <2>1, <3>1 DEF Projected, Tracking, CreateIsOpen
    <3>2. CASE n = outbox[At(p)].note /\ outbox[At(p)].type = "create"
      BY <1>1, <3>2 DEF Open
    <3> QED
      BY <2>1, <3>1, <3>2
  <2> QED
    BY <2>1 DEF Projected, Tracking, CreateIsOpen, Open
<1>4. Confirmed'
  BY DEF Projected, Confirming, Confirmed
<1>5. r.pc \in {"idle", "claim"} <=> r.batch = <<>>
  BY <1>1
<1>6. r.job = "completed" => /\ r.pc \in {"complete", "fail"}
                             /\ rag'[outbox[Head(r.batch)].note].job = "completed"
  BY DEF At
<1>7. outbox' \in Seq(Event) /\ note' \in [Notes -> [status : Status, document : BOOLEAN]]
      /\ DOMAIN outbox' = DOMAIN outbox /\ 0 \in Nat
  BY Rows
<1>8. /\ \A i \in DOMAIN outbox :
             /\ outbox'[i].note = outbox[i].note /\ outbox'[i].type = outbox[i].type
             /\ outbox'[i].state # outbox[i].state =>
                   i = projector[p].batch[1] /\ 0 >= 1 /\ projector[p].pc \notin {"idle", "claim"}
      /\ \A n \in Notes : note[n].document => note'[n].document
  OBVIOUS
<1> QED
  BY <1>2, <1>3, <1>4, <1>5, <1>6, <1>7, <1>8, Onwards

\* A projector leaves its event as it recorded it and takes the next.
LEMMA Advances ==
    ASSUME Projected, NEW p \in Projectors, projector[p].pc \notin {"idle", "claim"}, Advance(p),
           outbox' \in Seq(Event), DOMAIN outbox' = DOMAIN outbox,
           \A i \in DOMAIN outbox :
               /\ outbox'[i].note = outbox[i].note /\ outbox'[i].type = outbox[i].type
               /\ outbox'[i].state # outbox[i].state => i = At(p),
           note' \in [Notes -> [status : Status, document : BOOLEAN]],
           \A n \in Notes : note[n].document => note'[n].document,
           UNCHANGED rag, UNCHANGED poller, faults' \in 0 .. MaxFaults, losses' \in 0 .. MaxLosses,
           blind' \subseteq Notes, Tracking', Confirmed'
    PROVE  Projected'
<1> DEFINE b == projector[p].batch
           r == IF Len(b) = 1 THEN NoBatch
                ELSE [pc |-> "load", batch |-> Tail(b), job |-> "none"]
<1>1. b \in Seq(Nat) /\ Len(b) \in Nat \ {0} /\ At(p) = b[1]
  BY Working DEF Projector
<1>2. projector' = [projector EXCEPT ![p] = r]
  BY DEF Advance
<1>3. r \in Projector /\ r.job = "none" /\ (r.pc \in {"idle", "claim"} <=> r.batch = <<>>)
      /\ \A a \in DOMAIN r.batch : a + 1 \in DOMAIN b /\ r.batch[a] = b[a + 1]
  <2> HIDE DEF b
  <2>1. CASE Len(b) = 1
    <3>1. r = NoBatch
      BY <2>1
    <3>2. <<>> \in Seq(Nat) /\ DOMAIN <<>> = {}
      OBVIOUS
    <3> QED
      BY <3>1, <3>2 DEF NoBatch, Projector, Job
  <2>2. CASE Len(b) # 1
    <3>1. b # <<>>
      BY <1>1
    <3>2. /\ Tail(b) \in Seq(Nat) /\ Len(Tail(b)) = Len(b) - 1
          /\ \A a \in 1 .. Len(Tail(b)) : Tail(b)[a] = b[a + 1]
      BY <1>1, <3>1, HeadTailProperties
    <3>3. /\ Tail(b) # <<>>
          /\ \A a \in DOMAIN Tail(b) : a + 1 \in DOMAIN b /\ Tail(b)[a] = b[a + 1]
      <4>1. DOMAIN b = 1 .. Len(b) /\ DOMAIN Tail(b) = 1 .. Len(Tail(b)) /\ Len(Tail(b)) # 0
        BY <1>1, <2>2, <3>2
      <4>2. \A a \in 1 .. Len(Tail(b)) : a + 1 \in 1 .. Len(b)
        BY <1>1, <3>2
      <4>3. Tail(b) # <<>>
        BY <3>2, <4>1, EmptySeq
      <4>4. \A a \in 1 .. Len(Tail(b)) : a + 1 \in DOMAIN b /\ Tail(b)[a] = b[a + 1]
        BY <3>2, <4>1, <4>2
      <4> QED
        BY <4>1, <4>3, <4>4
    <3>4. r = [pc |-> "load", batch |-> Tail(b), job |-> "none"]
      BY <2>2
    <3>5. r.pc = "load" /\ r.batch = Tail(b) /\ r.job = "none"
      BY <3>4
    <3>6. r \in Projector
      <4> DEFINE t == Tail(b)
      <4>1. t \in Seq(Nat) /\ r = [pc |-> "load", batch |-> t, job |-> "none"]
        BY <3>2, <3>4
      <4> HIDE DEF t, r
      <4> QED
        BY <4>1 DEF Projector, Job
    <3> HIDE DEF r
    <3> QED
      BY <3>3, <3>5, <3>6
  <2> QED
    BY <2>1, <2>2
<1> HIDE DEF r
<1>4. /\ rag' \in [Notes -> [document : {"absent", "stored", "erased"}, job : Job]]
      /\ \A n \in Notes : rag[n].job = "completed" => rag'[n].job = "completed"
      /\ \A n \in Notes : rag'[n].document = "absent" => rag'[n].job = "none"
  BY Rows DEF Projected, Confirming
<1>5. \A i \in DOMAIN outbox :
        /\ outbox'[i].note = outbox[i].note /\ outbox'[i].type = outbox[i].type
        /\ outbox'[i].state # outbox[i].state =>
              i = projector[p].batch[1] /\ 1 >= 1 /\ projector[p].pc \notin {"idle", "claim"}
  BY <1>1
<1>6. r.job = "completed" => /\ r.pc \in {"complete", "fail"}
                             /\ rag'[outbox[Head(r.batch)].note].job = "completed"
  BY <1>3
<1> QED
  BY <1>2, <1>3, <1>4, <1>5, <1>6, Onwards

LEMMA Loading ==
    ASSUME Projected, NEW p \in Projectors, Load(p)
    PROVE  Projected'
<1>1. projector[p].pc = "load" /\ UNCHANGED outbox /\ UNCHANGED note /\ UNCHANGED rag
      /\ UNCHANGED poller /\ UNCHANGED losses /\ faults' \in 0 .. MaxFaults
  BY Counts DEF Load, tables
<1>2. PICK pc \in {"call", "complete", "fail"} : GoOn(p, pc)
  BY DEF Load
<1>7. blind' \subseteq Notes
  BY <1>1, Working DEF Load, Projected, NotesTypeOK
<1> DEFINE r == [projector[p] EXCEPT !.pc = pc]
<1>3. projector[p] \in Projector /\ projector[p].job # "completed"
  BY <1>1, Working DEF Projected, Confirming
<1>4. r \in Projector /\ r.batch = projector[p].batch /\ r.pc \notin {"idle", "claim"} /\ r.job # "completed"
  BY <1>3 DEF Projector
<1>5. projector' = [projector EXCEPT ![p] = r]
  BY <1>2 DEF GoOn, Projected, NotesTypeOK
<1> HIDE DEF r
<1>6. /\ rag' \in [Notes -> [document : {"absent", "stored", "erased"}, job : Job]]
      /\ \A n \in Notes : rag[n].job = "completed" => rag'[n].job = "completed"
      /\ \A n \in Notes : rag'[n].document = "absent" => rag'[n].job = "none"
      /\ losses' \in 0 .. MaxLosses
  BY <1>1, Rows DEF Projected, Confirming, NotesTypeOK
<1> QED
  BY <1>1, <1>4, <1>5, <1>6, <1>7, Stays

LEMMA Calling ==
    ASSUME Projected, NEW p \in Projectors, CallRAG(p)
    PROVE  Projected'
<1> DEFINE e == outbox[At(p)]
<1>1. projector[p].pc = "call" /\ UNCHANGED outbox /\ UNCHANGED note
      /\ UNCHANGED poller /\ UNCHANGED losses /\ faults' \in 0 .. MaxFaults
  BY Counts DEF CallRAG, tables
<1>2. /\ projector[p] \in Projector /\ projector[p].job # "completed"
      /\ e.note \in Notes /\ e \in Event
  BY <1>1, Working DEF Projected, Confirming
<1>3. /\ rag \in [Notes -> [document : {"absent", "stored", "erased"}, job : Job]]
      /\ \A n \in Notes : rag[n].document = "absent" => rag[n].job = "none"
  BY Rows DEF Projected, Confirming
<1>4. /\ rag' \in [Notes -> [document : {"absent", "stored", "erased"}, job : Job]]
      /\ \A n \in Notes : rag[n].job = "completed" => rag'[n].job = "completed"
      /\ \A n \in Notes : rag'[n].document = "absent" => rag'[n].job = "none"
      /\ \A n \in Notes : rag'[n].document = "stored" =>
             rag[n].document = "stored" \/ (n = e.note /\ e.type = "create")
  <2>1. CASE e.type = "create" /\ Store(e.note)
    BY <1>2, <1>3, <2>1 DEF Store, Job
  <2>2. CASE Erase(e.note)
    BY <1>2, <1>3, <2>2 DEF Erase
  <2>3. CASE UNCHANGED rag
    BY <1>3, <2>3
  <2> QED
    BY <2>1, <2>2, <2>3 DEF CallRAG
<1>5. losses' \in 0 .. MaxLosses /\ blind' \subseteq Notes
  BY <1>1 DEF CallRAG, Projected, NotesTypeOK
<1>6. CASE GoOn(p, "fail")
  <2> DEFINE r == [projector[p] EXCEPT !.pc = "fail"]
  <2>1. r \in Projector /\ r.batch = projector[p].batch /\ r.pc \notin {"idle", "claim"} /\ r.job # "completed"
    BY <1>2 DEF Projector
  <2>2. projector' = [projector EXCEPT ![p] = r]
    BY <1>6 DEF GoOn, Projected, NotesTypeOK
  <2> HIDE DEF r
  <2> QED
    BY <1>1, <1>4, <1>5, <2>1, <2>2, Stays
<1>7. CASE projector' = [projector EXCEPT ![p].pc = "complete", ![p].job = rag'[e.note].job]
  <2> DEFINE r == [projector[p] EXCEPT !.pc = "complete", !.job = rag'[e.note].job]
  <2>1. rag'[e.note].job \in Job
    BY <1>2, <1>4
  <2>2. r \in Projector /\ r.batch = projector[p].batch /\ r.pc = "complete"
        /\ r.job = rag'[e.note].job
    BY <1>2, <2>1 DEF Projector
  <2>3. projector' = [projector EXCEPT ![p] = r]
    BY <1>7 DEF Projected, NotesTypeOK
  <2> HIDE DEF r
  <2> QED
    BY <1>1, <1>4, <1>5, <2>2, <2>3, Stays
<1> QED
  BY <1>6, <1>7 DEF CallRAG

LEMMA FunctionIsSequence ==
    ASSUME NEW S, NEW n \in Nat, NEW f \in [1 .. n -> S]
    PROVE  f \in Seq(S)
OBVIOUS

\* What a projector writes about its event.
LEMMA RowRecorded ==
    ASSUME Projected, NEW p \in Projectors, projector[p].pc \notin {"idle", "claim"},
           NEW s \in {"completed", "failed"}, NEW d \in BOOLEAN,
           outbox' = [outbox EXCEPT ![At(p)].state = s, ![At(p)].due = d]
    PROVE  /\ outbox' \in Seq(Event) /\ DOMAIN outbox' = DOMAIN outbox
           /\ outbox'[At(p)].state = s
           /\ \A i \in DOMAIN outbox :
                 /\ outbox'[i].note = outbox[i].note /\ outbox'[i].type = outbox[i].type
                 /\ outbox'[i].state # outbox[i].state => i = At(p)
<1>1. outbox \in Seq(Event) /\ At(p) \in DOMAIN outbox
  BY Rows, Working
<1> DEFINE e == [outbox[At(p)] EXCEPT !.state = s, !.due = d]
<1>2. outbox[At(p)] \in Event
  BY <1>1
<1>3. e \in Event /\ e.note = outbox[At(p)].note /\ e.type = outbox[At(p)].type /\ e.state = s
  BY <1>2 DEF Event
<1>4. outbox' = [outbox EXCEPT ![At(p)] = e]
  BY <1>1
<1> HIDE DEF e
<1>5. DOMAIN outbox = 1 .. Len(outbox) /\ Len(outbox) \in Nat
  BY <1>1
<1>6. /\ DOMAIN outbox' = DOMAIN outbox /\ outbox'[At(p)] = e
      /\ \A i \in DOMAIN outbox : i # At(p) => outbox'[i] = outbox[i]
  BY <1>1, <1>4
<1>7. \A i \in DOMAIN outbox : outbox'[i] \in Event
  BY <1>1, <1>3, <1>6
<1>8. outbox' \in [1 .. Len(outbox) -> Event]
  BY <1>4, <1>5, <1>6, <1>7
<1>9. outbox' \in Seq(Event)
  BY <1>5, <1>8, FunctionIsSequence
<1> QED
  BY <1>3, <1>6, <1>9

\* CompleteNoteCreate and CompleteNoteDelete leave available_at as it is.
LEMMA RowCompleted ==
    ASSUME Projected, NEW p \in Projectors, projector[p].pc \notin {"idle", "claim"},
           SetState(At(p), "completed")
    PROVE  outbox' = [outbox EXCEPT ![At(p)].state = "completed", ![At(p)].due = outbox[At(p)].due]
           /\ outbox[At(p)].due \in BOOLEAN
<1>1. outbox \in Seq(Event) /\ At(p) \in DOMAIN outbox /\ outbox[At(p)] \in Event
  BY Rows, Working
<1> DEFINE e == [outbox[At(p)] EXCEPT !.state = "completed"]
           f == [outbox[At(p)] EXCEPT !.state = "completed", !.due = outbox[At(p)].due]
<1>2. e = f /\ outbox[At(p)].due \in BOOLEAN
  BY <1>1 DEF Event
<1>3. outbox' = [outbox EXCEPT ![At(p)] = e]
  BY <1>1 DEF SetState
<1>4. [outbox EXCEPT ![At(p)] = f]
          = [outbox EXCEPT ![At(p)].state = "completed", ![At(p)].due = outbox[At(p)].due]
  BY <1>1
<1> HIDE DEF e, f
<1> QED
  BY <1>2, <1>3, <1>4

LEMMA Completing ==
    ASSUME Projected, NEW p \in Projectors, Complete(p)
    PROVE  Projected'
<1> DEFINE e == outbox[At(p)]
<1>1. /\ projector[p].pc = "complete" /\ projector[p].pc \notin {"idle", "claim"}
      /\ UNCHANGED rag /\ UNCHANGED poller /\ UNCHANGED losses /\ blind' \subseteq Notes
      /\ faults' \in 0 .. MaxFaults /\ losses' \in 0 .. MaxLosses
  BY Counts DEF Complete, Projected, NotesTypeOK
<1>2. /\ projector[p] \in Projector /\ At(p) \in DOMAIN outbox
      /\ e.note \in Notes /\ e \in Event
  BY <1>1, Working
<1>3. note \in [Notes -> [status : Status, document : BOOLEAN]]
  BY Rows
<1>4. projector[p].job = "completed" => rag[e.note].job = "completed"
  BY DEF Projected, Confirming
<1>5. CASE GoOn(p, "fail") /\ UNCHANGED tables
  <2> DEFINE r == [projector[p] EXCEPT !.pc = "fail"]
  <2>1. r \in Projector /\ r.batch = projector[p].batch /\ r.pc = "fail"
        /\ r.job = projector[p].job
    BY <1>2 DEF Projector
  <2>2. projector' = [projector EXCEPT ![p] = r]
    BY <1>5 DEF GoOn, Projected, NotesTypeOK
  <2> HIDE DEF r
  <2>3. UNCHANGED outbox /\ UNCHANGED note
    BY <1>5 DEF tables
  <2>4. /\ rag' \in [Notes -> [document : {"absent", "stored", "erased"}, job : Job]]
        /\ \A n \in Notes : rag[n].job = "completed" => rag'[n].job = "completed"
        /\ \A n \in Notes : rag'[n].document = "absent" => rag'[n].job = "none"
    BY <1>1, Rows DEF Projected, Confirming
  <2> QED
    BY <1>1, <1>4, <2>1, <2>2, <2>3, <2>4, Stays
<1>6. CASE ~(GoOn(p, "fail") /\ UNCHANGED tables)
  <2>1. /\ IF e.type = "create" THEN CompletedCreate(p, e.note) ELSE SetStatus(e.note, "deleted")
        /\ SetState(At(p), "completed") /\ Advance(p)
    BY <1>6 DEF Complete
  <2>2. /\ outbox' \in Seq(Event) /\ DOMAIN outbox' = DOMAIN outbox
        /\ outbox'[At(p)].state = "completed"
        /\ \A i \in DOMAIN outbox :
              /\ outbox'[i].note = outbox[i].note /\ outbox'[i].type = outbox[i].type
              /\ outbox'[i].state # outbox[i].state => i = At(p)
    BY <1>1, <2>1, RowCompleted, RowRecorded
  <2>3. Answered(p) \in Status /\ (Answered(p) = "indexed" => projector[p].job = "completed")
    BY DEF Answered, Status
  <2>4. /\ note' \in [Notes -> [status : Status, document : BOOLEAN]]
        /\ \A n \in Notes : n # e.note => note'[n] = note[n]
        /\ note[e.note].document => note'[e.note].document
        /\ e.type = "create" => note'[e.note].document
        /\ note'[e.note].status = "indexed" => projector[p].job = "completed" /\ note'[e.note].document
    <3>1. CASE e.type = "create"
      <4>1. CompletedCreate(p, e.note)
        BY <2>1, <3>1
      <4> QED
        BY <1>2, <1>3, <2>3, <4>1 DEF CompletedCreate
    <3>2. CASE e.type # "create"
      <4>1. note' = [note EXCEPT ![e.note].status = "deleted"]
        BY <2>1, <3>2 DEF SetStatus
      <4> QED
        BY <1>2, <1>3, <3>2, <4>1 DEF Status
    <3> QED
      BY <3>1, <3>2
  <2>5. \A n \in Notes : note[n].document => note'[n].document
    BY <2>4
  <2>6. Tracking'
    <3>1. ASSUME NEW i \in DOMAIN outbox, outbox'[i].type = "create", outbox'[i].state = "completed"
          PROVE  note'[outbox'[i].note].document
      <4>1. CASE i = At(p)
        BY <2>2, <2>4, <3>1, <4>1
      <4>2. CASE i # At(p)
        <5>1. outbox[i].type = "create" /\ ~Open(i) /\ outbox[i].note \in Notes
          BY <2>2, <3>1, <4>2, Rows DEF Open
        <5> QED
          BY <2>2, <2>5, <5>1 DEF Projected, Tracking
      <4> QED
        BY <4>1, <4>2
    <3>2. ASSUME NEW n \in Notes, rag[n].document = "stored", ~note'[n].document
          PROVE  \E i \in DOMAIN outbox : outbox'[i].note = n /\ outbox'[i].type = "create"
                                          /\ outbox'[i].state # "completed"
      <4>1. PICK i \in DOMAIN outbox : outbox[i].note = n /\ outbox[i].type = "create" /\ Open(i)
        BY <2>5, <3>2 DEF Projected, Tracking, CreateIsOpen
      <4>2. i # At(p)
        BY <2>4, <3>2, <4>1
      <4> QED
        BY <2>2, <4>1, <4>2 DEF Open
    <3> QED
      BY <1>1, <2>2, <3>1, <3>2 DEF Tracking, CreateIsOpen, Open
  <2>7. Confirmed'
    BY <1>1, <1>4, <2>4 DEF Projected, Confirming, Confirmed
  <2> QED
    BY <1>1, <2>1, <2>2, <2>4, <2>5, <2>6, <2>7, Advances
<1> QED
  BY <1>5, <1>6

LEMMA Failing ==
    ASSUME Projected, NEW p \in Projectors, Fail(p)
    PROVE  Projected'
<1> DEFINE e == outbox[At(p)]
           s == IF e.type = "create" THEN "index_failed" ELSE "delete_pending"
<1>1. /\ projector[p].pc = "fail" /\ projector[p].pc \notin {"idle", "claim"} /\ Advance(p)
      /\ UNCHANGED rag /\ UNCHANGED poller /\ UNCHANGED faults /\ blind' \subseteq Notes
      /\ faults' \in 0 .. MaxFaults /\ losses' \in 0 .. MaxLosses
  BY Counts DEF Fail, NoFault, Projected, NotesTypeOK
<1>2. At(p) \in DOMAIN outbox /\ e.note \in Notes /\ e.state = "processing"
  BY <1>1, Working
<1>3. /\ note \in [Notes -> [status : Status, document : BOOLEAN]] /\ outbox \in Seq(Event)
      /\ \A i \in DOMAIN outbox : outbox[i].note \in Notes
  BY Rows
<1>4. /\ outbox' \in Seq(Event) /\ DOMAIN outbox' = DOMAIN outbox
      /\ \A i \in DOMAIN outbox :
            /\ outbox'[i].note = outbox[i].note /\ outbox'[i].type = outbox[i].type
            /\ outbox'[i].state # outbox[i].state => i = At(p) /\ outbox'[i].state = "failed"
  <2>1. CASE UNCHANGED outbox
    BY <1>3, <2>1
  <2>2. CASE outbox' = [outbox EXCEPT ![At(p)].state = "failed", ![At(p)].due = FALSE]
    BY <1>1, <2>2, RowRecorded
  <2> QED
    BY <2>1, <2>2 DEF Fail, tables
<1>5. /\ note' \in [Notes -> [status : Status, document : BOOLEAN]]
      /\ \A n \in Notes : note'[n].document = note[n].document
      /\ \A n \in Notes : note'[n].status = "indexed" => note[n].status = "indexed"
  <2>1. CASE UNCHANGED note
    BY <1>3, <2>1
  <2>2. CASE SetStatus(e.note, s)
    <3>1. s \in Status /\ s # "indexed"
      BY DEF Status
    <3> HIDE DEF s
    <3> QED
      BY <1>2, <1>3, <2>2, <3>1 DEF SetStatus
  <2> QED
    BY <2>1, <2>2 DEF Fail, tables
<1>6. Tracking'
  <2>1. ASSUME NEW i \in DOMAIN outbox
        PROVE  outbox'[i].state = "completed" <=> outbox[i].state = "completed"
    BY <1>2, <1>4
  <2>2. ASSUME NEW i \in DOMAIN outbox', outbox'[i].type = "create", ~Open(i)'
        PROVE  note'[outbox'[i].note].document
    <3>1. i \in DOMAIN outbox /\ outbox[i].type = "create" /\ ~Open(i)
      BY <1>4, <2>1, <2>2 DEF Open
    <3> QED
      BY <1>3, <1>4, <1>5, <3>1 DEF Projected, Tracking
  <2>3. ASSUME NEW n \in Notes, rag[n].document = "stored", ~note'[n].document
        PROVE  \E i \in DOMAIN outbox' : outbox'[i].note = n /\ outbox'[i].type = "create" /\ Open(i)'
    <3>1. PICK i \in DOMAIN outbox : outbox[i].note = n /\ outbox[i].type = "create" /\ Open(i)
      BY <1>5, <2>3 DEF Projected, Tracking, CreateIsOpen
    <3> QED
      BY <1>4, <2>1, <3>1 DEF Open
  <2> QED
    BY <1>1, <2>2, <2>3 DEF Tracking, CreateIsOpen
<1>7. Confirmed'
  BY <1>1, <1>5 DEF Projected, Confirming, Confirmed
<1> QED
  BY <1>1, <1>4, <1>5, <1>6, <1>7, Advances

LEMMA Abandoning ==
    ASSUME Projected, NEW p \in Projectors, Abandon(p)
    PROVE  Projected'
<1>1. /\ projector' = [projector EXCEPT ![p] = NoBatch]
      /\ UNCHANGED outbox /\ UNCHANGED note /\ UNCHANGED rag /\ UNCHANGED poller
      /\ faults' \in 0 .. MaxFaults /\ losses' \in 0 .. MaxLosses /\ blind' \subseteq Notes
  BY Counts DEF Abandon, tables, NoFault, Projected, NotesTypeOK
<1>2. /\ NoBatch \in Projector /\ NoBatch.job = "none" /\ NoBatch.pc = "idle"
      /\ NoBatch.batch = <<>> /\ DOMAIN NoBatch.batch = {}
  <2>1. <<>> \in Seq(Nat) /\ DOMAIN <<>> = {}
    OBVIOUS
  <2> QED
    BY <2>1 DEF NoBatch, Projector, Job
<1>3. Tracking' /\ Confirmed'
  BY <1>1 DEF Projected, Tracking, CreateIsOpen, Open, Confirming, Confirmed
<1>4. /\ outbox' \in Seq(Event) /\ DOMAIN outbox' = DOMAIN outbox
      /\ note' \in [Notes -> [status : Status, document : BOOLEAN]]
      /\ rag' \in [Notes -> [document : {"absent", "stored", "erased"}, job : Job]]
      /\ \A n \in Notes : rag[n].job = "completed" => rag'[n].job = "completed"
      /\ \A n \in Notes : rag'[n].document = "absent" => rag'[n].job = "none"
      /\ \A n \in Notes : note[n].document => note'[n].document
  BY <1>1, Rows DEF Projected, Confirming
<1>5. /\ \A i \in DOMAIN outbox :
             /\ outbox'[i].note = outbox[i].note /\ outbox'[i].type = outbox[i].type
             /\ outbox'[i].state # outbox[i].state =>
                   i = projector[p].batch[1] /\ 0 >= 1 /\ projector[p].pc \notin {"idle", "claim"}
      /\ \A a \in DOMAIN NoBatch.batch : /\ a + 0 \in DOMAIN projector[p].batch
                                         /\ NoBatch.batch[a] = projector[p].batch[a + 0]
      /\ NoBatch.job = "completed" =>
             /\ NoBatch.pc \in {"complete", "fail"}
             /\ rag'[outbox[Head(NoBatch.batch)].note].job = "completed"
      /\ NoBatch.pc \in {"idle", "claim"} <=> NoBatch.batch = <<>>
      /\ 0 \in Nat
  BY <1>1, <1>2
<1> QED
  BY <1>1, <1>2, <1>3, <1>4, <1>5, Onwards

\* What is due is in no projector's batch.
LEMMA Claiming ==
    ASSUME Projected, NEW p \in Projectors, NEW due, due = {i \in DOMAIN outbox : Claimable(i)},
           due # {}, NEW batch \in [1 .. UpToLimit(Cardinality(due)) -> due],
           Oldest(batch, due),
           outbox' = [i \in DOMAIN outbox |->
               IF i \in ToSet(batch) THEN [outbox[i] EXCEPT !.state = "processing"]
               ELSE outbox[i]],
           projector' = [projector EXCEPT ![p] = [pc |-> "load", batch |-> batch, job |-> "none"]],
           UNCHANGED <<note, rag, poller, blind, faults, losses>>
    PROVE  Projected'
<1>1. outbox' = [i \in DOMAIN outbox |->
               IF i \in ToSet(batch) THEN [outbox[i] EXCEPT !.state = "processing"]
               ELSE outbox[i]]
      /\ projector' = [projector EXCEPT ![p] = [pc |-> "load", batch |-> batch, job |-> "none"]]
      /\ Oldest(batch, due) /\ batch \in [1 .. UpToLimit(Cardinality(due)) -> due]
  OBVIOUS
<1>2. UNCHANGED note /\ UNCHANGED rag /\ UNCHANGED poller /\ UNCHANGED faults /\ UNCHANGED losses
      /\ UNCHANGED blind
  OBVIOUS
<1>3. /\ due \subseteq DOMAIN outbox /\ due # {} /\ due \subseteq Nat
      /\ \A i \in due : outbox[i].state # "processing" /\ outbox[i].state # "completed"
  <2>1. outbox \in Seq(Event)
    BY Rows
  <2>2. DOMAIN outbox \subseteq Nat
    BY <2>1
  <2> QED
    BY <1>1, <2>2 DEF Claimable
<1>4. UpToLimit(Cardinality(due)) \in Nat \ {0}
  <2>1. outbox \in Seq(Event) /\ DOMAIN outbox = 1 .. Len(outbox) /\ Len(outbox) \in Nat
    BY Rows
  <2>2. IsFiniteSet(1 .. Len(outbox))
    BY <2>1, FS_Interval
  <2>3. IsFiniteSet(due)
    BY <1>3, <2>1, <2>2, FS_Subset
  <2>4. Cardinality(due) \in Nat /\ Cardinality(due) # 0
    BY <1>3, <2>3, FS_CardinalityType, FS_EmptySet
  <2> QED
    BY <2>4, NoteAssumption DEF UpToLimit, NoteAssumption
<1>5. /\ batch \in Seq(Nat) /\ DOMAIN batch = 1 .. UpToLimit(Cardinality(due)) /\ batch # <<>>
      /\ ToSet(batch) \subseteq due
      /\ \A a \in DOMAIN batch : batch[a] \in due
      /\ \A a, b \in DOMAIN batch : batch[a] = batch[b] => a = b
  <2> DEFINE k == UpToLimit(Cardinality(due))
  <2>1. k \in Nat \ {0}
    BY <1>4
  <2>2. batch \in [1 .. k -> due]
    BY <1>1
  <2> HIDE DEF k
  <2>3. batch \in [1 .. k -> Nat] /\ DOMAIN batch = 1 .. k /\ \A a \in DOMAIN batch : batch[a] \in due
    BY <1>3, <2>2
  <2>4. batch \in Seq(Nat) /\ Len(batch) = k
    BY <2>1, <2>3
  <2>5. ASSUME NEW a \in DOMAIN batch, NEW b \in DOMAIN batch, batch[a] = batch[b]
        PROVE  a = b
    BY <1>1, <1>3, <2>3, <2>5 DEF Oldest
  <2> QED
    BY <2>1, <2>3, <2>4, <2>5 DEF ToSet, k
<1> DEFINE r == [pc |-> "load", batch |-> batch, job |-> "none"]
<1>6. r \in Projector /\ r.batch = batch /\ r.pc = "load" /\ r.job = "none"
  BY <1>5 DEF Projector, Job
<1>7. projector \in [Projectors -> Projector]
  BY DEF Projected, NotesTypeOK
<1>8. /\ projector' \in [Projectors -> Projector] /\ projector'[p] = r
      /\ \A q \in Projectors : q # p => projector'[q] = projector[q]
  BY <1>1, <1>6, <1>7
<1> HIDE DEF r
<1>9. /\ outbox' \in Seq(Event) /\ DOMAIN outbox' = DOMAIN outbox
      /\ \A i \in DOMAIN outbox :
            /\ outbox'[i].note = outbox[i].note /\ outbox'[i].type = outbox[i].type
            /\ i \in due \/ outbox'[i].state = outbox[i].state
            /\ i \in ToSet(batch) => outbox'[i].state = "processing"
            /\ (outbox'[i].state = "completed") <=> (outbox[i].state = "completed")
  <2>1. outbox \in Seq(Event) /\ \A i \in DOMAIN outbox : outbox[i] \in Event
    BY Rows
  <2>2. ASSUME NEW i \in DOMAIN outbox
        PROVE  /\ outbox'[i] \in Event
               /\ outbox'[i].note = outbox[i].note /\ outbox'[i].type = outbox[i].type
               /\ i \in due \/ outbox'[i].state = outbox[i].state
               /\ i \in ToSet(batch) => outbox'[i].state = "processing"
               /\ (outbox'[i].state = "completed") <=> (outbox[i].state = "completed")
    <3>1. CASE i \in ToSet(batch)
      <4>1. outbox'[i] = [outbox[i] EXCEPT !.state = "processing"]
        BY <1>1, <3>1
      <4>2. i \in due
        BY <1>5, <3>1
      <4>3. outbox[i] \in Event
        BY <2>1
      <4>4. /\ outbox'[i] \in Event /\ outbox'[i].state = "processing"
            /\ outbox'[i].note = outbox[i].note /\ outbox'[i].type = outbox[i].type
        BY <4>1, <4>3 DEF Event
      <4> QED
        BY <1>3, <4>2, <4>4
    <3>2. CASE i \notin ToSet(batch)
      <4>1. outbox'[i] = outbox[i]
        BY <1>1, <3>2
      <4> QED
        BY <2>1, <3>2, <4>1
    <3> QED
      BY <3>1, <3>2
  <2>3. DOMAIN outbox' = DOMAIN outbox
    BY <1>1
  <2>4. outbox' \in [1 .. Len(outbox) -> Event] /\ Len(outbox) \in Nat
    BY <1>1, <2>1, <2>2
  <2>5. outbox' \in Seq(Event)
    BY <2>4
  <2> QED
    BY <2>2, <2>3, <2>5
<1>10. NotesTypeOK'
  <2>1. ASSUME NEW q \in Projectors
        PROVE  /\ ToSet(projector'[q].batch) \subseteq DOMAIN outbox'
               /\ projector'[q].pc \in {"idle", "claim"} <=> projector'[q].batch = <<>>
    <3>1. CASE q = p
      BY <1>3, <1>5, <1>6, <1>8, <1>9, <3>1
    <3>2. CASE q # p
      BY <1>8, <1>9, <3>2 DEF Projected, NotesTypeOK
    <3> QED
      BY <3>1, <3>2
  <2> QED
    BY <1>2, <1>8, <1>9, <2>1 DEF Projected, NotesTypeOK
<1>11. Tracking'
  BY <1>2, <1>9 DEF Projected, Tracking, CreateIsOpen, Open
<1>12. Confirming'
  <2>1. ASSUME NEW q \in Projectors, projector'[q].job = "completed"
        PROVE  /\ projector'[q].pc \in {"complete", "fail"}
               /\ rag'[outbox'[Head(projector'[q].batch)].note].job = "completed"
    <3>1. q # p /\ projector'[q] = projector[q]
      BY <1>6, <1>8, <2>1
    <3>2. projector[q].pc \in {"complete", "fail"} /\ rag[outbox[At(q)].note].job = "completed"
      BY <2>1, <3>1 DEF Projected, Confirming
    <3>3. At(q) \in DOMAIN outbox
      BY <3>2, Working
    <3> QED
      BY <1>2, <1>9, <3>1, <3>2, <3>3 DEF At
  <2> QED
    BY <1>2, <2>1 DEF Projected, Confirming, Confirmed, At
<1>13. Claimed'
  <2>1. \A q \in Projectors : \A a \in DOMAIN projector[q].batch :
           /\ projector[q].batch[a] \in DOMAIN outbox
           /\ outbox[projector[q].batch[a]].state = "processing"
           /\ projector[q].batch[a] \notin due
    BY <1>3 DEF Projected, NotesTypeOK, ToSet, Claimed
  <2>2. ASSUME NEW q \in Projectors, NEW a \in DOMAIN projector'[q].batch
        PROVE  outbox'[projector'[q].batch[a]].state = "processing"
    <3>1. CASE q = p
      <4>1. a \in DOMAIN batch /\ projector'[q].batch[a] = batch[a]
        BY <1>6, <1>8, <2>2, <3>1
      <4>2. batch[a] \in ToSet(batch) /\ batch[a] \in DOMAIN outbox
        BY <1>3, <1>5, <4>1 DEF ToSet
      <4> QED
        BY <1>9, <4>1, <4>2
    <3>2. CASE q # p
      BY <1>8, <1>9, <2>1, <2>2, <3>2
    <3> QED
      BY <3>1, <3>2
  <2>3. ASSUME NEW q \in Projectors, NEW a \in DOMAIN projector'[q].batch,
               NEW b \in DOMAIN projector'[q].batch, projector'[q].batch[a] = projector'[q].batch[b]
        PROVE  a = b
    <3>1. CASE q = p
      BY <1>5, <1>6, <1>8, <2>3, <3>1
    <3>2. CASE q # p
      BY <1>8, <2>3, <3>2 DEF Projected, Claimed
    <3> QED
      BY <3>1, <3>2
  <2>4. ASSUME NEW q1 \in Projectors, NEW q2 \in Projectors,
               NEW a \in DOMAIN projector'[q1].batch, NEW b \in DOMAIN projector'[q2].batch,
               projector'[q1].batch[a] = projector'[q2].batch[b]
        PROVE  q1 = q2
    <3>1. CASE q1 = p /\ q2 # p
      <4>1. projector'[q1].batch[a] \in due
        BY <1>5, <1>6, <1>8, <2>4, <3>1
      <4>2. projector'[q2].batch[b] \notin due
        BY <1>8, <2>1, <2>4, <3>1
      <4> QED
        BY <2>4, <4>1, <4>2
    <3>2. CASE q1 # p /\ q2 = p
      <4>1. projector'[q2].batch[b] \in due
        BY <1>5, <1>6, <1>8, <2>4, <3>2
      <4>2. projector'[q1].batch[a] \notin due
        BY <1>8, <2>1, <2>4, <3>2
      <4> QED
        BY <2>4, <4>1, <4>2
    <3>3. CASE q1 # p /\ q2 # p
      BY <1>8, <2>4, <3>3 DEF Projected, Claimed
    <3> QED
      BY <3>1, <3>2, <3>3
  <2> QED
    BY <2>2, <2>3, <2>4 DEF Claimed
<1> QED
  BY <1>10, <1>11, <1>12, <1>13 DEF Projected

\* A goroutine that starts, or ends with nothing claimed.
LEMMA Turning ==
    ASSUME Projected, NEW p \in Projectors, NEW pc \in {"idle", "claim"}, GoOn(p, pc),
           projector[p].pc \in {"idle", "claim"}, UNCHANGED <<tables, rag, poller, blind, losses>>,
           faults' \in 0 .. MaxFaults
    PROVE  Projected'
<1> DEFINE r == [projector[p] EXCEPT !.pc = pc]
<1>1. /\ projector[p] \in Projector /\ projector[p].batch = <<>> /\ projector[p].job # "completed"
  BY DEF Projected, NotesTypeOK, Confirming
<1>2. r \in Projector /\ r.batch = <<>> /\ r.pc = pc /\ r.job # "completed"
  BY <1>1 DEF Projector
<1>3. projector' = [projector EXCEPT ![p] = r]
  BY DEF GoOn, Projected, NotesTypeOK
<1> HIDE DEF r
<1>4. UNCHANGED outbox /\ UNCHANGED note /\ UNCHANGED rag /\ UNCHANGED poller
      /\ losses' \in 0 .. MaxLosses /\ blind' \subseteq Notes
  BY DEF tables, Projected, NotesTypeOK
<1>5. Tracking' /\ Confirmed'
  BY <1>4 DEF Projected, Tracking, CreateIsOpen, Open, Confirming, Confirmed
<1>6. /\ outbox' \in Seq(Event) /\ DOMAIN outbox' = DOMAIN outbox
      /\ note' \in [Notes -> [status : Status, document : BOOLEAN]]
      /\ rag' \in [Notes -> [document : {"absent", "stored", "erased"}, job : Job]]
      /\ \A n \in Notes : rag[n].job = "completed" => rag'[n].job = "completed"
      /\ \A n \in Notes : rag'[n].document = "absent" => rag'[n].job = "none"
      /\ \A n \in Notes : note[n].document => note'[n].document
  BY <1>4, Rows DEF Projected, Confirming
<1>7. DOMAIN r.batch = {}
  <2>1. DOMAIN <<>> = {}
    OBVIOUS
  <2> QED
    BY <1>2, <2>1
<1>8. /\ \A i \in DOMAIN outbox :
             /\ outbox'[i].note = outbox[i].note /\ outbox'[i].type = outbox[i].type
             /\ outbox'[i].state # outbox[i].state =>
                   i = projector[p].batch[1] /\ 0 >= 1 /\ projector[p].pc \notin {"idle", "claim"}
      /\ \A a \in DOMAIN r.batch : /\ a + 0 \in DOMAIN projector[p].batch
                                   /\ r.batch[a] = projector[p].batch[a + 0]
      /\ r.job = "completed" => /\ r.pc \in {"complete", "fail"}
                                /\ rag'[outbox[Head(r.batch)].note].job = "completed"
      /\ r.pc \in {"idle", "claim"} <=> r.batch = <<>>
      /\ 0 \in Nat
  BY <1>2, <1>4, <1>7
<1> QED
  BY <1>2, <1>3, <1>4, <1>5, <1>6, <1>8, Onwards

LEMMA Starting ==
    ASSUME Projected, NEW p \in Projectors, Dispatch(p) \/ Claim(p)
    PROVE  Projected'
<1>1. CASE Dispatch(p)
  <2>1. faults' \in 0 .. MaxFaults
    BY <1>1, Counts DEF Dispatch, NoFault
  <2> QED
    BY <1>1, <2>1, Turning DEF Dispatch
<1>2. CASE Claim(p)
  <2> DEFINE due == {i \in DOMAIN outbox : Claimable(i)}
  <2>1. CASE GoOn(p, "idle") /\ UNCHANGED outbox /\ (Fault \/ NoFault)
    <3>1. faults' \in 0 .. MaxFaults
      BY <2>1, Counts
    <3> QED
      BY <1>2, <2>1, <3>1, Turning DEF Claim, tables
  <2>2. CASE \E batch \in [1 .. UpToLimit(Cardinality(due)) -> due] :
                 /\ due # {} /\ Oldest(batch, due)
                 /\ outbox' = [i \in DOMAIN outbox |->
                        IF i \in ToSet(batch) THEN [outbox[i] EXCEPT !.state = "processing"]
                        ELSE outbox[i]]
                 /\ projector' = [projector EXCEPT ![p] =
                        [pc |-> "load", batch |-> batch, job |-> "none"]]
                 /\ NoFault
    <3>1. UNCHANGED <<note, rag, poller, blind, losses>>
      BY <1>2 DEF Claim
    <3>2. PICK d : d = due
      OBVIOUS
    <3> HIDE DEF due
    <3> QED
      BY <2>2, <3>1, <3>2, Claiming DEF NoFault, due
  <2> QED
    BY <1>2, <2>1, <2>2 DEF Claim
<1> QED
  BY <1>1, <1>2

\* The end of a back-off changes nothing but when its event is due.
LEMMA Due ==
    ASSUME Projected, NEW i \in DOMAIN outbox, BackoffEnds(i)
    PROVE  Projected'
<1>1. UNCHANGED <<note, rag, projector, poller, blind, faults, losses>>
  BY DEF BackoffEnds
<1>2. /\ outbox' \in Seq(Event) /\ DOMAIN outbox' = DOMAIN outbox
      /\ \A j \in DOMAIN outbox :
            /\ outbox'[j].note = outbox[j].note /\ outbox'[j].type = outbox[j].type
            /\ outbox'[j].state = outbox[j].state
  <2>1. outbox \in Seq(Event) /\ outbox[i] \in Event
    BY Rows
  <2> DEFINE e == [outbox[i] EXCEPT !.due = TRUE]
  <2>2. e \in Event /\ e.note = outbox[i].note /\ e.type = outbox[i].type /\ e.state = outbox[i].state
    BY <2>1 DEF Event
  <2>3. outbox' = [outbox EXCEPT ![i] = e]
    BY <2>1 DEF BackoffEnds
  <2> HIDE DEF e
  <2> QED
    BY <2>1, <2>2, <2>3
<1>3. NotesTypeOK'
  BY <1>1, <1>2 DEF Projected, NotesTypeOK
<1>4. Tracking'
  BY <1>1, <1>2 DEF Projected, Tracking, CreateIsOpen, Open
<1>5. Confirming'
  <2>1. \A p \in Projectors : projector[p].job = "completed" => At(p) \in DOMAIN outbox
    BY Working DEF Projected, Confirming
  <2> QED
    BY <1>1, <1>2, <2>1 DEF Projected, Confirming, Confirmed, At
<1>6. Claimed'
  BY <1>1, <1>2 DEF Projected, Claimed, NotesTypeOK, ToSet
<1> QED
  BY <1>3, <1>4, <1>5, <1>6 DEF Projected

-----------------------------------------------------------------------------
(* The invariant                                                             *)

LEMMA NotesBegin ==
    ASSUME NotesInit
    PROVE  Projected
<1>1. outbox = <<>> /\ DOMAIN outbox = {} /\ outbox \in Seq(Event)
  BY DEF NotesInit
<1>2. projector \in [Projectors -> Projector] /\ \A p \in Projectors : projector[p] = NoBatch
  <2>1. <<>> \in Seq(Nat)
    OBVIOUS
  <2> QED
    BY <2>1 DEF NotesInit, NoBatch, Projector, Job
<1>3. poller \in [Pollers -> Poller] /\ \A q \in Pollers : poller[q] = Resting
  BY DEF NotesInit, Resting, Poller, Job
<1>4. DOMAIN NoBatch.batch = {} /\ NoBatch.batch = <<>> /\ NoBatch.pc = "idle" /\ NoBatch.job = "none"
      /\ ToSet(NoBatch.batch) = {}
  <2>1. DOMAIN <<>> = {}
    OBVIOUS
  <2> QED
    BY <2>1 DEF NoBatch, ToSet
<1>5. NotesTypeOK
  BY <1>1, <1>2, <1>3, <1>4, NoteAssumption
  DEF NotesInit, NotesTypeOK, NoteAssumption, Status, Job, Resting
<1>6. Tracking
  BY <1>1 DEF NotesInit, Tracking, CreateIsOpen
<1>7. Confirming
  BY <1>2, <1>3, <1>4 DEF NotesInit, Confirming, Confirmed, Resting
<1>8. Claimed
  BY <1>2, <1>4 DEF Claimed
<1> QED
  BY <1>5, <1>6, <1>7, <1>8 DEF Projected

LEMMA NotesStep ==
    ASSUME Projected, [NotesNext]_noteVars
    PROVE  Projected'
<1>1. ASSUME NEW n \in Notes, Create(n)
      PROVE  Projected'
  BY <1>1, Requested
<1>2. ASSUME NEW n \in Notes, NEW k \in DeleteKeys, Delete(n, k)
      PROVE  Projected'
  BY <1>2, Requested
<1>3. ASSUME UNCHANGED noteVars
      PROVE  Projected'
  BY <1>3 DEF noteVars, Projected, NotesTypeOK, Tracking, CreateIsOpen, Open, Confirming,
              Confirmed, At, Claimed
<1>4. ASSUME NEW p \in Projectors, Dispatch(p) \/ Project(p) \/ Abandon(p)
      PROVE  Projected'
  BY <1>4, Starting, Loading, Calling, Completing, Failing, Abandoning DEF Project
<1> QED
  BY <1>1, <1>2, <1>3, <1>4, Due, Indexes, Refreshes DEF NotesNext

\* The invariant above holds of every reachable state.
THEOREM NotesInvariance == NotesSpec => []Projected
<1>1. NotesInit => Projected
  BY NotesBegin
<1>2. Projected /\ [NotesNext]_noteVars => Projected'
  BY NotesStep
<1> QED
  BY <1>1, <1>2, PTL DEF NotesSpec

-----------------------------------------------------------------------------
(* What is lost, and what is erased                                          *)

\* As long as every failure is recorded, an event in processing is in a batch.
Held ==
    losses = 0 => \A i \in DOMAIN outbox :
        outbox[i].state = "processing" => \E p \in Projectors : i \in ToSet(projector[p].batch)

\* Only a delete event erases, and a delete that is about to be recorded has
\* erased the document or found none.
Erasing ==
    /\ \A n \in Notes : rag[n].document = "erased" =>
          \E i \in DOMAIN outbox : outbox[i].note = n /\ outbox[i].type = "delete"
    /\ \A p \in Projectors :
          projector[p].pc = "complete" /\ outbox[At(p)].type = "delete" =>
              rag[outbox[At(p)].note].document = "erased" \/ outbox[At(p)].note \in blind
    /\ \A n \in Notes : note[n].status = "deleted" => rag[n].document = "erased" \/ n \in blind

\* Rows keep what they are about, and what is erased or was missed stays so.
Lasting ==
    /\ blind \subseteq blind'
    /\ \A n \in Notes : rag[n].document = "erased" => rag'[n].document = "erased"
    /\ \A i \in DOMAIN outbox : /\ i \in DOMAIN outbox'
                                /\ outbox'[i].note = outbox[i].note
                                /\ outbox'[i].type = outbox[i].type

LEMMA ProjectorStep ==
    ASSUME Projected, NEW p \in Projectors, Load(p) \/ CallRAG(p) \/ Complete(p) \/ Fail(p)
    PROVE  /\ projector[p].pc \notin {"idle", "claim"}
           /\ projector[p].batch \in Seq(Nat) /\ projector[p].batch # <<>>
           /\ At(p) = projector[p].batch[1] /\ At(p) \in DOMAIN outbox
           /\ outbox[At(p)] \in Event /\ outbox[At(p)].note \in Notes
           /\ \A q \in Projectors : q # p => projector'[q] = projector[q]
           /\ \/ /\ UNCHANGED outbox /\ projector'[p].batch = projector[p].batch
                 /\ projector'[p].pc \in {"call", "complete", "fail"}
              \/ /\ Complete(p) \/ Fail(p)
                 /\ projector'[p] = IF Len(projector[p].batch) = 1 THEN NoBatch
                                    ELSE [pc |-> "load", batch |-> Tail(projector[p].batch),
                                          job |-> "none"]
                 /\ DOMAIN outbox' = DOMAIN outbox
                 /\ \A i \in DOMAIN outbox :
                       /\ outbox'[i].note = outbox[i].note /\ outbox'[i].type = outbox[i].type
                       /\ outbox'[i].state # outbox[i].state => i = At(p)
                 /\ UNCHANGED losses => outbox'[At(p)].state # "processing"
<1>1. projector[p].pc \notin {"idle", "claim"}
  BY DEF Load, CallRAG, Complete, Fail
<1>2. projector \in [Projectors -> Projector]
  BY DEF Projected, NotesTypeOK
<1>3. /\ projector[p].batch \in Seq(Nat) /\ projector[p].batch # <<>>
      /\ At(p) = projector[p].batch[1] /\ At(p) \in DOMAIN outbox
      /\ outbox[At(p)] \in Event /\ outbox[At(p)].note \in Notes
  BY <1>1, Working DEF Projector, Projected, NotesTypeOK
<1>4. ASSUME NEW pc \in {"call", "complete", "fail"}, GoOn(p, pc), UNCHANGED outbox
      PROVE  /\ \A q \in Projectors : q # p => projector'[q] = projector[q]
             /\ UNCHANGED outbox /\ projector'[p].batch = projector[p].batch
             /\ projector'[p].pc \in {"call", "complete", "fail"}
  BY <1>2, <1>4 DEF GoOn, Projector
<1>5. CASE Load(p)
  BY <1>1, <1>3, <1>4, <1>5 DEF Load, tables
<1>6. CASE CallRAG(p)
  <2>1. UNCHANGED outbox
    BY <1>6 DEF CallRAG, tables
  <2>2. CASE GoOn(p, "fail")
    BY <1>1, <1>3, <1>4, <2>1, <2>2
  <2>3. CASE projector' = [projector EXCEPT ![p].pc = "complete",
                               ![p].job = rag'[outbox[At(p)].note].job]
    <3>1. /\ \A q \in Projectors : q # p => projector'[q] = projector[q]
          /\ projector'[p].batch = projector[p].batch /\ projector'[p].pc = "complete"
      BY <1>2, <2>3 DEF Projector
    <3> QED
      BY <1>1, <1>3, <2>1, <3>1
  <2> QED
    BY <1>6, <2>2, <2>3 DEF CallRAG
<1>7. ASSUME Advance(p)
      PROVE  /\ \A q \in Projectors : q # p => projector'[q] = projector[q]
             /\ projector'[p] = IF Len(projector[p].batch) = 1 THEN NoBatch
                                ELSE [pc |-> "load", batch |-> Tail(projector[p].batch),
                                      job |-> "none"]
  BY <1>2, <1>7 DEF Advance
<1>8. CASE Complete(p)
  <2>1. CASE GoOn(p, "fail") /\ UNCHANGED tables
    BY <1>1, <1>3, <1>4, <2>1 DEF tables
  <2>2. CASE SetState(At(p), "completed") /\ Advance(p)
    <3>1. /\ DOMAIN outbox' = DOMAIN outbox /\ outbox'[At(p)].state = "completed"
          /\ \A i \in DOMAIN outbox :
                /\ outbox'[i].note = outbox[i].note /\ outbox'[i].type = outbox[i].type
                /\ outbox'[i].state # outbox[i].state => i = At(p)
      BY <1>1, <2>2, RowCompleted, RowRecorded
    <3>2. outbox'[At(p)].state # "processing"
      BY <3>1
    <3> QED
      BY <1>1, <1>3, <1>7, <1>8, <2>2, <3>1, <3>2
  <2> QED
    BY <1>8, <2>1, <2>2 DEF Complete
<1>9. CASE Fail(p)
  <2>1. Advance(p)
    BY <1>9 DEF Fail
  <2>2. CASE outbox' = [outbox EXCEPT ![At(p)].state = "failed", ![At(p)].due = FALSE]
    <3>1. /\ DOMAIN outbox' = DOMAIN outbox /\ outbox'[At(p)].state = "failed"
          /\ \A i \in DOMAIN outbox :
                /\ outbox'[i].note = outbox[i].note /\ outbox'[i].type = outbox[i].type
                /\ outbox'[i].state # outbox[i].state => i = At(p)
      BY <1>1, <2>2, RowRecorded
    <3>2. outbox'[At(p)].state # "processing"
      BY <3>1
    <3> QED
      BY <1>1, <1>3, <1>7, <1>9, <2>1, <3>1, <3>2
  <2>3. CASE Loss /\ UNCHANGED tables
    <3>1. losses' # losses /\ UNCHANGED outbox
      BY <2>3 DEF Loss, tables, Projected, NotesTypeOK
    <3> QED
      BY <1>1, <1>3, <1>7, <1>9, <2>1, <3>1
  <2> QED
    BY <1>9, <2>2, <2>3 DEF Fail
<1> QED
  BY <1>5, <1>6, <1>8, <1>9

LEMMA Lasts ==
    ASSUME Projected, [NotesNext]_noteVars
    PROVE  Lasting
<1>1. /\ outbox \in Seq(Event)
      /\ rag \in [Notes -> [document : {"absent", "stored", "erased"}, job : Job]]
  BY Rows
<1>2. ASSUME NEW e \in Event, outbox' = Append(outbox, e), UNCHANGED <<rag, blind>>
      PROVE  Lasting
  <2>1. \A i \in DOMAIN outbox : i \in DOMAIN outbox' /\ outbox'[i] = outbox[i]
    BY <1>1, <1>2
  <2> QED
    BY <1>2, <2>1 DEF Lasting
<1>3. ASSUME NEW n \in Notes, Create(n) \/ \E k \in DeleteKeys : Delete(n, k)
      PROVE  Lasting
  <2>1. CASE Create(n)
    <3> DEFINE e == [note |-> n, type |-> "create", key |-> NoKey, state |-> "pending", due |-> TRUE]
    <3>1. e \in Event
      BY DEF Event
    <3>2. outbox' = Append(outbox, e) /\ UNCHANGED <<rag, blind>>
      BY <2>1 DEF Create
    <3> HIDE DEF e
    <3> QED
      BY <1>2, <3>1, <3>2
  <2>2. ASSUME NEW k \in DeleteKeys, Delete(n, k)
        PROVE  Lasting
    <3> DEFINE e == [note |-> n, type |-> "delete", key |-> k, state |-> "pending", due |-> TRUE]
    <3>1. e \in Event
      BY DEF Event
    <3>2. outbox' = Append(outbox, e) /\ UNCHANGED <<rag, blind>>
      BY <2>2 DEF Delete
    <3> HIDE DEF e
    <3> QED
      BY <1>2, <3>1, <3>2
  <2> QED
    BY <1>3, <2>1, <2>2
<1>4. ASSUME NEW n \in Notes, Index(n)
      PROVE  Lasting
  BY <1>1, <1>4 DEF Index, Lasting, tables
<1>5. ASSUME NEW p \in Projectors, Load(p) \/ CallRAG(p) \/ Complete(p) \/ Fail(p)
      PROVE  Lasting
  <2>1. \A i \in DOMAIN outbox : /\ i \in DOMAIN outbox'
                                 /\ outbox'[i].note = outbox[i].note
                                 /\ outbox'[i].type = outbox[i].type
    BY <1>5, ProjectorStep
  <2>2. blind \subseteq blind'
    BY <1>5 DEF Load, CallRAG, Complete, Fail
  <2>3. ASSUME CallRAG(p), NEW n \in Notes, rag[n].document = "erased"
        PROVE  rag'[n].document = "erased"
    BY <1>1, <2>3 DEF CallRAG, Store, Erase
  <2>4. ~CallRAG(p) => UNCHANGED rag
    BY <1>5 DEF Load, Complete, Fail
  <2> QED
    BY <2>1, <2>2, <2>3, <2>4 DEF Lasting
<1>6. ASSUME NEW p \in Projectors, Dispatch(p) \/ Abandon(p)
      PROVE  Lasting
  BY <1>6 DEF Dispatch, Abandon, tables, Lasting
<1>7. ASSUME NEW p \in Projectors, Claim(p)
      PROVE  Lasting
  <2>1. UNCHANGED <<rag, blind>>
    BY <1>7 DEF Claim
  <2>2. \A i \in DOMAIN outbox : /\ i \in DOMAIN outbox'
                                 /\ outbox'[i].note = outbox[i].note
                                 /\ outbox'[i].type = outbox[i].type
    <3>1. CASE UNCHANGED outbox
      BY <3>1
    <3>2. ASSUME NEW S, outbox' = [i \in DOMAIN outbox |->
                     IF i \in S THEN [outbox[i] EXCEPT !.state = "processing"] ELSE outbox[i]]
          PROVE  \A i \in DOMAIN outbox : /\ i \in DOMAIN outbox'
                                          /\ outbox'[i].note = outbox[i].note
                                          /\ outbox'[i].type = outbox[i].type
      <4>1. ASSUME NEW i \in DOMAIN outbox
            PROVE  /\ i \in DOMAIN outbox'
                   /\ outbox'[i].note = outbox[i].note /\ outbox'[i].type = outbox[i].type
        <5>1. outbox[i] \in Event
          BY <1>1
        <5>2. i \in DOMAIN outbox' /\ outbox'[i] = IF i \in S
                  THEN [outbox[i] EXCEPT !.state = "processing"] ELSE outbox[i]
          BY <3>2
        <5> QED
          BY <5>1, <5>2 DEF Event
      <4> QED
        BY <4>1
    <3>3. UNCHANGED outbox \/ \E S : outbox' = [i \in DOMAIN outbox |->
              IF i \in S THEN [outbox[i] EXCEPT !.state = "processing"] ELSE outbox[i]]
      BY <1>7 DEF Claim
    <3> QED
      BY <3>1, <3>2, <3>3
  <2> QED
    BY <2>1, <2>2 DEF Lasting
<1>8. ASSUME NEW i \in DOMAIN outbox, BackoffEnds(i)
      PROVE  Lasting
  <2>1. outbox[i] \in Event
    BY <1>1
  <2> QED
    BY <1>1, <1>8, <2>1 DEF BackoffEnds, Lasting, Event
<1>9. ASSUME NEW q \in Pollers, Refresh(q) \/ GiveUpPoll(q)
      PROVE  Lasting
  BY <1>9 DEF Refresh, Poll, GetNoteJob, UpdateNoteJobStatus, GiveUpPoll, tables, Lasting
<1>10. CASE UNCHANGED noteVars
  BY <1>10 DEF noteVars, Lasting
<1> QED
  BY <1>3, <1>4, <1>5, <1>6, <1>7, <1>8, <1>9, <1>10 DEF NotesNext, Project

LEMMA Going ==
    ASSUME Projected, NEW p \in Projectors, NEW pc, GoOn(p, pc)
    PROVE  /\ projector'[p].pc = pc /\ projector'[p].batch = projector[p].batch
           /\ \A q \in Projectors : q # p => projector'[q] = projector[q]
BY DEF GoOn, Projected, NotesTypeOK, Projector

\* What suffices for a step to keep Erasing.
LEMMA ErasingKept ==
    ASSUME Projected, Erasing, Lasting, Projected',
           \A n \in Notes : rag'[n].document = "erased" =>
               \/ rag[n].document = "erased"
               \/ \E i \in DOMAIN outbox : outbox[i].note = n /\ outbox[i].type = "delete",
           \A p \in Projectors : projector'[p].pc = "complete" =>
               \/ projector'[p] = projector[p]
               \/ LET i == Head(projector'[p].batch)
                  IN  outbox'[i].type = "delete" =>
                         rag'[outbox'[i].note].document = "erased" \/ outbox'[i].note \in blind',
           \A n \in Notes : note'[n].status = "deleted" =>
               note[n].status = "deleted" \/ rag'[n].document = "erased" \/ n \in blind'
    PROVE  Erasing'
<1>1. \A n \in Notes : rag'[n].document = "erased" =>
          \E i \in DOMAIN outbox' : outbox'[i].note = n /\ outbox'[i].type = "delete"
  BY DEF Erasing, Lasting
<1>2. ASSUME NEW p \in Projectors, projector'[p].pc = "complete",
             outbox'[Head(projector'[p].batch)].type = "delete"
      PROVE  \/ rag'[outbox'[Head(projector'[p].batch)].note].document = "erased"
             \/ outbox'[Head(projector'[p].batch)].note \in blind'
  <2>1. CASE projector'[p] = projector[p]
    <3>1. projector[p].pc = "complete" /\ projector[p].pc \notin {"idle", "claim"}
      BY <1>2, <2>1
    <3>2. At(p) \in DOMAIN outbox /\ outbox[At(p)].note \in Notes
      BY <3>1, Working
    <3>3. Head(projector'[p].batch) = At(p) /\ outbox'[At(p)].note = outbox[At(p)].note
          /\ outbox'[At(p)].type = outbox[At(p)].type
      BY <2>1, <3>2 DEF At, Lasting
    <3>4. rag[outbox[At(p)].note].document = "erased" \/ outbox[At(p)].note \in blind
      BY <1>2, <3>1, <3>3 DEF Erasing
    <3> QED
      BY <3>2, <3>3, <3>4 DEF Lasting
  <2> QED
    BY <1>2, <2>1
<1>3. \A n \in Notes : note'[n].status = "deleted" => rag'[n].document = "erased" \/ n \in blind'
  BY DEF Erasing, Lasting
<1> QED
  BY <1>1, <1>2, <1>3 DEF Erasing, At

\* A step of a projector on its event.
LEMMA ErasingWork ==
    ASSUME Projected, Erasing, Lasting, Projected', NEW p \in Projectors,
           Load(p) \/ CallRAG(p) \/ Complete(p) \/ Fail(p)
    PROVE  Erasing'
<1> DEFINE e == outbox[At(p)]
<1>1. /\ projector[p].pc \notin {"idle", "claim"} /\ At(p) \in DOMAIN outbox
      /\ e \in Event /\ e.note \in Notes /\ projector[p].batch # <<>>
      /\ \A q \in Projectors : q # p => projector'[q] = projector[q]
  BY ProjectorStep
<1>2. /\ note \in [Notes -> [status : Status, document : BOOLEAN]]
      /\ rag \in [Notes -> [document : {"absent", "stored", "erased"}, job : Job]]
      /\ projector \in [Projectors -> Projector]
  BY Rows DEF Projected, NotesTypeOK
<1>3. CASE Load(p)
  <2>1. UNCHANGED <<rag, note, outbox>>
    BY <1>3 DEF Load, tables
  <2>2. ASSUME projector'[p].pc = "complete"
        PROVE  LET i == Head(projector'[p].batch)
               IN  outbox'[i].type = "delete" =>
                      rag'[outbox'[i].note].document = "erased" \/ outbox'[i].note \in blind'
    <3>1. GoOn(p, "complete") /\ blind' = blind \union {e.note}
      <4>1. ~GoOn(p, "call") /\ ~GoOn(p, "fail")
        BY <2>2, Going
      <4> QED
        BY <1>3, <4>1 DEF Load
    <3>2. projector'[p].batch = projector[p].batch
      BY <3>1, Going
    <3> QED
      BY <2>1, <3>1, <3>2 DEF At
  <2> QED
    BY <1>1, <2>1, <2>2, ErasingKept
<1>4. CASE CallRAG(p)
  <2>1. UNCHANGED <<note, outbox, blind>> /\ projector[p].pc = "call"
    BY <1>4 DEF CallRAG, tables
  <2>2. \A n \in Notes : rag'[n].document = "erased" =>
            rag[n].document = "erased" \/ (n = e.note /\ e.type = "delete")
    <3>1. CASE e.type = "create" /\ Store(e.note)
      BY <1>1, <1>2, <3>1 DEF Store
    <3>2. CASE e.type # "create" /\ Erase(e.note)
      BY <1>1, <1>2, <3>2 DEF Erase, Event
    <3>3. CASE UNCHANGED rag
      BY <3>3
    <3> QED
      BY <1>4, <3>1, <3>2, <3>3 DEF CallRAG
  <2>3. ASSUME projector'[p].pc = "complete"
        PROVE  LET i == Head(projector'[p].batch)
               IN  outbox'[i].type = "delete" =>
                      rag'[outbox'[i].note].document = "erased" \/ outbox'[i].note \in blind'
    <3>1. ~GoOn(p, "fail")
      BY <2>3, Going
    <3>2. /\ projector' = [projector EXCEPT ![p].pc = "complete", ![p].job = rag'[e.note].job]
          /\ IF e.type = "create" THEN Store(e.note) ELSE Erase(e.note)
      BY <1>4, <3>1 DEF CallRAG
    <3>3. projector'[p].batch = projector[p].batch
      BY <1>2, <3>2 DEF Projector
    <3>4. e.type = "delete" => rag'[e.note].document = "erased"
      BY <1>1, <1>2, <3>2 DEF Erase
    <3> QED
      BY <2>1, <3>3, <3>4 DEF At
  <2>4. \A n \in Notes : rag'[n].document = "erased" =>
            \/ rag[n].document = "erased"
            \/ \E i \in DOMAIN outbox : outbox[i].note = n /\ outbox[i].type = "delete"
    BY <1>1, <2>2
  <2> QED
    BY <1>1, <2>1, <2>3, <2>4, ErasingKept
<1>5. ASSUME Advance(p)
      PROVE  projector'[p].pc # "complete"
  BY <1>2, <1>5 DEF Advance, NoBatch
<1>6. CASE Complete(p)
  <2>1. UNCHANGED rag /\ UNCHANGED blind /\ projector[p].pc = "complete"
    BY <1>6 DEF Complete
  <2>2. projector'[p].pc # "complete"
    <3>1. GoOn(p, "fail") => projector'[p].pc # "complete"
      BY Going
    <3> QED
      BY <1>5, <1>6, <3>1 DEF Complete
  <2>3. ASSUME NEW n \in Notes, note'[n].status = "deleted"
        PROVE  note[n].status = "deleted" \/ rag'[n].document = "erased" \/ n \in blind'
    <3>1. CASE CompletedCreate(p, e.note)
      <4>1. Answered(p) # "deleted"
        BY DEF Answered
      <4> QED
        BY <1>1, <1>2, <2>3, <3>1, <4>1 DEF CompletedCreate
    <3>2. CASE e.type # "create" /\ SetStatus(e.note, "deleted")
      <4>1. rag[e.note].document = "erased" \/ e.note \in blind
        BY <1>1, <2>1, <3>2 DEF Erasing, Event
      <4>2. n # e.note => note'[n] = note[n]
        BY <1>1, <1>2, <3>2 DEF SetStatus
      <4> QED
        BY <2>1, <2>3, <4>1, <4>2
    <3>3. CASE UNCHANGED note
      BY <2>3, <3>3
    <3> QED
      BY <1>6, <3>1, <3>2, <3>3 DEF Complete, tables
  <2> QED
    BY <1>1, <2>1, <2>2, <2>3, ErasingKept
<1>7. CASE Fail(p)
  <2>1. UNCHANGED rag /\ UNCHANGED blind /\ projector'[p].pc # "complete"
    BY <1>5, <1>7 DEF Fail
  <2>2. ASSUME NEW n \in Notes, note'[n].status = "deleted"
        PROVE  note[n].status = "deleted"
    <3> DEFINE s == IF e.type = "create" THEN "index_failed" ELSE "delete_pending"
    <3>1. s # "deleted"
      OBVIOUS
    <3>2. SetStatus(e.note, s) \/ UNCHANGED note
      BY <1>7 DEF Fail, tables
    <3> HIDE DEF s
    <3> QED
      BY <1>1, <1>2, <2>2, <3>1, <3>2 DEF SetStatus
  <2> QED
    BY <1>1, <2>1, <2>2, ErasingKept
<1> QED
  BY <1>3, <1>4, <1>6, <1>7

LEMMA ErasingStep ==
    ASSUME Projected, Erasing, [NotesNext]_noteVars
    PROVE  Erasing'
<1>1. Projected' /\ Lasting
  BY NotesStep, Lasts
<1>2. /\ note \in [Notes -> [status : Status, document : BOOLEAN]]
      /\ rag \in [Notes -> [document : {"absent", "stored", "erased"}, job : Job]]
      /\ projector \in [Projectors -> Projector]
      /\ poller \in [Pollers -> Poller]
  BY Rows DEF Projected, NotesTypeOK
<1>3. ASSUME NEW n \in Notes, NEW s \in {"indexing", "delete_pending", "indexed", "index_failed"},
             SetStatus(n, s), UNCHANGED <<rag, projector>>
      PROVE  Erasing'
  <2>1. \A m \in Notes : note'[m].status = "deleted" => note[m].status = "deleted"
    BY <1>2, <1>3 DEF SetStatus
  <2> QED
    BY <1>1, <1>3, <2>1, ErasingKept
<1>4. ASSUME UNCHANGED note, \A p \in Projectors : projector'[p].pc = "complete" => projector'[p] = projector[p],
             \A n \in Notes : rag'[n].document = rag[n].document
      PROVE  Erasing'
  BY <1>1, <1>4, ErasingKept
<1>5. ASSUME NEW n \in Notes, Create(n) \/ \E k \in DeleteKeys : Delete(n, k)
      PROVE  Erasing'
  BY <1>3, <1>5 DEF Create, Delete
<1>6. ASSUME NEW n \in Notes, Index(n)
      PROVE  Erasing'
  <2>1. \A m \in Notes : rag'[m].document = rag[m].document
    BY <1>2, <1>6 DEF Index
  <2> QED
    BY <1>4, <1>6, <2>1 DEF Index, tables
<1>7. ASSUME NEW p \in Projectors, Dispatch(p) \/ Claim(p) \/ Abandon(p)
      PROVE  Erasing'
  <2>1. UNCHANGED <<note, rag>>
    BY <1>7 DEF Dispatch, Claim, Abandon, tables
  <2>2. \/ \E pc \in {"idle", "claim"} : GoOn(p, pc)
        \/ projector' = [projector EXCEPT ![p] = NoBatch]
        \/ \E batch : projector' = [projector EXCEPT ![p] =
                          [pc |-> "load", batch |-> batch, job |-> "none"]]
    BY <1>7 DEF Dispatch, Claim, Abandon
  <2>3. projector'[p].pc # "complete" /\ \A q \in Projectors : q # p => projector'[q] = projector[q]
    <3>1. CASE \E pc \in {"idle", "claim"} : GoOn(p, pc)
      BY <3>1, Going
    <3>2. CASE ~ \E pc \in {"idle", "claim"} : GoOn(p, pc)
      BY <1>2, <2>2, <3>2 DEF NoBatch
    <3> QED
      BY <3>1, <3>2
  <2> QED
    BY <1>4, <2>1, <2>3
<1>8. ASSUME NEW p \in Projectors, Load(p) \/ CallRAG(p) \/ Complete(p) \/ Fail(p)
      PROVE  Erasing'
  BY <1>1, <1>8, ErasingWork
<1>9. ASSUME NEW i \in DOMAIN outbox, BackoffEnds(i)
      PROVE  Erasing'
  BY <1>4, <1>9 DEF BackoffEnds
<1>10. ASSUME NEW q \in Pollers, Refresh(q) \/ GiveUpPoll(q)
       PROVE  Erasing'
  <2>1. UNCHANGED <<rag, projector>>
    BY <1>10 DEF Refresh, Poll, GetNoteJob, UpdateNoteJobStatus, GiveUpPoll
  <2>2. CASE UNCHANGED note
    BY <1>4, <2>1, <2>2
  <2>3. CASE UpdateNoteJobStatus(q)
    <3>1. poller[q].note \in Notes
      BY <2>3 DEF UpdateNoteJobStatus, Projected, NotesTypeOK
    <3>2. /\ SetStatus(poller[q].note, Reported(poller[q].job))
          /\ Reported(poller[q].job) \in {"indexing", "delete_pending", "indexed", "index_failed"}
      BY <2>3 DEF UpdateNoteJobStatus, Reported
    <3> QED
      BY <1>3, <2>1, <3>1, <3>2
  <2> QED
    BY <1>10, <2>2, <2>3 DEF Refresh, Poll, GetNoteJob, GiveUpPoll, tables
<1>11. CASE UNCHANGED noteVars
  BY <1>4, <1>11 DEF noteVars
<1> QED
  BY <1>5, <1>6, <1>7, <1>8, <1>9, <1>10, <1>11 DEF NotesNext, Project

\* Steps that take no event from a batch and put no row in processing.
LEMMA HeldKept ==
    ASSUME Projected, Held, losses' \in Nat, losses' = 0 => losses = 0,
           \A p \in Projectors : projector'[p].batch = projector[p].batch,
           \A i \in DOMAIN outbox' : outbox'[i].state = "processing" =>
               i \in DOMAIN outbox /\ outbox[i].state = "processing"
    PROVE  Held'
BY DEF Held

LEMMA HeldWork ==
    ASSUME Projected, Held, NEW p \in Projectors,
           Load(p) \/ CallRAG(p) \/ Complete(p) \/ Fail(p)
    PROVE  Held'
<1> DEFINE b == projector[p].batch
<1>1. losses \in Nat /\ losses' \in Nat /\ (losses' = 0 => losses = 0 /\ UNCHANGED losses)
  BY NoteAssumption DEF Load, CallRAG, Complete, Fail, Loss, Projected, NotesTypeOK, NoteAssumption
<1>2. /\ b \in Seq(Nat) /\ b # <<>> /\ At(p) = b[1] /\ At(p) \in DOMAIN outbox
      /\ \A q \in Projectors : q # p => projector'[q] = projector[q]
  BY ProjectorStep
<1>3. CASE UNCHANGED outbox /\ projector'[p].batch = b
  <2>1. \A q \in Projectors : projector'[q].batch = projector[q].batch
    BY <1>2, <1>3
  <2> QED
    BY <1>1, <1>3, <2>1, HeldKept
<1>4. ASSUME /\ projector'[p] = IF Len(b) = 1 THEN NoBatch
                                ELSE [pc |-> "load", batch |-> Tail(b), job |-> "none"]
             /\ DOMAIN outbox' = DOMAIN outbox
             /\ \A i \in DOMAIN outbox : outbox'[i].state # outbox[i].state => i = At(p)
             /\ UNCHANGED losses => outbox'[At(p)].state # "processing"
      PROVE  Held'
  <2>1. ASSUME losses' = 0, NEW i \in DOMAIN outbox, outbox'[i].state = "processing"
        PROVE  \E q \in Projectors : i \in ToSet(projector'[q].batch)
    <3>1. i # At(p) /\ outbox[i].state = "processing" /\ losses = 0
      BY <1>1, <1>4, <2>1
    <3>2. PICK q \in Projectors : i \in ToSet(projector[q].batch)
      BY <3>1 DEF Held
    <3>3. CASE q # p
      BY <1>2, <3>2, <3>3
    <3>4. CASE q = p
      <4>1. PICK a \in DOMAIN b : b[a] = i
        BY <3>2, <3>4 DEF ToSet
      <4>2. DOMAIN b = 1 .. Len(b) /\ Len(b) \in Nat /\ a \in Nat /\ a # 1
        BY <1>2, <3>1, <4>1
      <4>3. a - 1 \in 1 .. (Len(b) - 1) /\ Len(b) # 1
        BY <4>1, <4>2
      <4>4. /\ Tail(b) \in Seq(Nat) /\ Len(Tail(b)) = Len(b) - 1
            /\ \A k \in 1 .. Len(Tail(b)) : Tail(b)[k] = b[k + 1]
        BY <1>2, HeadTailProperties
      <4>5. projector'[p].batch = Tail(b)
        BY <1>4, <4>3
      <4>6. a - 1 \in DOMAIN Tail(b) /\ Tail(b)[a - 1] = i
        <5>1. DOMAIN Tail(b) = 1 .. Len(Tail(b)) /\ (a - 1) + 1 = a
          BY <4>2, <4>4
        <5> QED
          BY <4>1, <4>3, <4>4, <5>1
      <4> QED
        BY <4>5, <4>6 DEF ToSet
    <3> QED
      BY <3>3, <3>4
  <2> QED
    BY <1>4, <2>1 DEF Held
<1> QED
  <2>1. \/ UNCHANGED outbox /\ projector'[p].batch = b
        \/ /\ projector'[p] = IF Len(b) = 1 THEN NoBatch
                              ELSE [pc |-> "load", batch |-> Tail(b), job |-> "none"]
           /\ DOMAIN outbox' = DOMAIN outbox
           /\ \A i \in DOMAIN outbox : outbox'[i].state # outbox[i].state => i = At(p)
           /\ UNCHANGED losses => outbox'[At(p)].state # "processing"
    BY ProjectorStep
  <2> QED
    BY <1>3, <1>4, <2>1

LEMMA HeldStep ==
    ASSUME Projected, Held, [NotesNext]_noteVars
    PROVE  Held'
<1>1. losses \in Nat /\ outbox \in Seq(Event) /\ projector \in [Projectors -> Projector]
  BY Rows, NoteAssumption DEF Projected, NotesTypeOK, NoteAssumption
<1>2. ASSUME NEW e, e.state = "pending", outbox' = Append(outbox, e), UNCHANGED <<projector, losses>>
      PROVE  Held'
  <2>1. ASSUME NEW i \in DOMAIN outbox', outbox'[i].state = "processing"
        PROVE  i \in DOMAIN outbox /\ outbox[i].state = "processing"
    BY <1>1, <1>2, <2>1
  <2> QED
    BY <1>1, <1>2, <2>1, HeldKept
<1>3. ASSUME NEW n \in Notes, Create(n) \/ \E k \in DeleteKeys : Delete(n, k)
      PROVE  Held'
  <2>1. CASE Create(n)
    <3> DEFINE e == [note |-> n, type |-> "create", key |-> NoKey, state |-> "pending", due |-> TRUE]
    <3>1. e.state = "pending" /\ outbox' = Append(outbox, e) /\ UNCHANGED <<projector, losses>>
      BY <2>1 DEF Create
    <3> HIDE DEF e
    <3> QED
      BY <1>2, <3>1
  <2>2. ASSUME NEW k \in DeleteKeys, Delete(n, k)
        PROVE  Held'
    <3> DEFINE e == [note |-> n, type |-> "delete", key |-> k, state |-> "pending", due |-> TRUE]
    <3>1. e.state = "pending" /\ outbox' = Append(outbox, e) /\ UNCHANGED <<projector, losses>>
      BY <2>2 DEF Delete
    <3> HIDE DEF e
    <3> QED
      BY <1>2, <3>1
  <2> QED
    BY <1>3, <2>1, <2>2
<1>4. ASSUME UNCHANGED <<outbox, losses>>, \A p \in Projectors : projector'[p].batch = projector[p].batch
      PROVE  Held'
  BY <1>1, <1>4, HeldKept
<1>5. ASSUME NEW p \in Projectors, NEW pc, GoOn(p, pc), UNCHANGED <<outbox, losses>>
      PROVE  Held'
  <2>1. \A q \in Projectors : projector'[q].batch = projector[q].batch
    BY <1>5, Going
  <2> QED
    BY <1>4, <1>5, <2>1
<1>6. ASSUME NEW p \in Projectors, Claim(p)
      PROVE  Held'
  <2>1. CASE GoOn(p, "idle") /\ UNCHANGED outbox
    BY <1>5, <1>6, <2>1 DEF Claim
  <2>2. ASSUME NEW batch,
               outbox' = [i \in DOMAIN outbox |->
                    IF i \in ToSet(batch) THEN [outbox[i] EXCEPT !.state = "processing"]
                    ELSE outbox[i]],
               projector' = [projector EXCEPT ![p] =
                    [pc |-> "load", batch |-> batch, job |-> "none"]]
        PROVE  Held'
    <3>1. /\ projector'[p].batch = batch
          /\ \A q \in Projectors : q # p => projector'[q] = projector[q]
      BY <1>1, <2>2
    <3>2. projector[p].batch = <<>>
      BY <1>6 DEF Claim, Projected, NotesTypeOK
    <3>3. UNCHANGED losses
      BY <1>6 DEF Claim
    <3>4. ASSUME losses = 0, NEW i \in DOMAIN outbox, outbox'[i].state = "processing"
          PROVE  \E q \in Projectors : i \in ToSet(projector'[q].batch)
      <4>1. CASE i \in ToSet(batch)
        BY <3>1, <4>1
      <4>2. CASE i \notin ToSet(batch)
        <5>1. outbox[i].state = "processing"
          BY <2>2, <3>4, <4>2
        <5>2. PICK q \in Projectors : i \in ToSet(projector[q].batch)
          BY <3>4, <5>1 DEF Held
        <5>3. q # p
          BY <3>2, <5>2 DEF ToSet
        <5> QED
          BY <3>1, <5>2, <5>3
      <4> QED
        BY <4>1, <4>2
    <3>5. DOMAIN outbox' = DOMAIN outbox
      BY <2>2
    <3> QED
      BY <3>3, <3>4, <3>5 DEF Held
  <2> QED
    BY <1>6, <2>1, <2>2 DEF Claim
<1>7. ASSUME NEW p \in Projectors, Dispatch(p)
      PROVE  Held'
  BY <1>5, <1>7 DEF Dispatch, tables
<1>8. ASSUME NEW p \in Projectors, Abandon(p)
      PROVE  Held'
  <2>1. losses' # 0
    BY <1>1, <1>8 DEF Abandon, Loss
  <2> QED
    BY <2>1 DEF Held
<1>9. ASSUME NEW i \in DOMAIN outbox, BackoffEnds(i)
      PROVE  Held'
  <2>1. outbox[i] \in Event
    BY <1>1
  <2>2. \A j \in DOMAIN outbox' : outbox'[j].state = "processing" =>
            j \in DOMAIN outbox /\ outbox[j].state = "processing"
    BY <1>1, <1>9, <2>1 DEF BackoffEnds, Event
  <2> QED
    BY <1>1, <1>9, <2>2, HeldKept DEF BackoffEnds
<1>10. ASSUME NEW n \in Notes, Index(n)
       PROVE  Held'
  BY <1>4, <1>10 DEF Index, tables
<1>11. ASSUME NEW q \in Pollers, Refresh(q) \/ GiveUpPoll(q)
       PROVE  Held'
  BY <1>4, <1>11 DEF Refresh, Poll, GetNoteJob, UpdateNoteJobStatus, GiveUpPoll, tables
<1>12. CASE UNCHANGED noteVars
  BY <1>4, <1>12 DEF noteVars
<1>13. ASSUME NEW p \in Projectors, Load(p) \/ CallRAG(p) \/ Complete(p) \/ Fail(p)
       PROVE  Held'
  BY <1>13, HeldWork
<1> QED
  BY <1>3, <1>6, <1>7, <1>8, <1>9, <1>10, <1>11, <1>12, <1>13 DEF NotesNext, Project

\* dispatchProjection and failProjection: for every bound on faults and losses, as
\* long as every failure was recorded, a document RAG stored that its note does
\* not know of has a create event that is due, waits or is being worked on.
THEOREM Tracked == NotesSpec => []DocumentIsTracked
<1>1. NotesInit => Held
  BY DEF NotesInit, Held
<1>2. Projected /\ Held /\ [NotesNext]_noteVars => Held'
  BY HeldStep
<1>3. Projected /\ Held => DocumentIsTracked
  <2> SUFFICES ASSUME Projected, Held, NEW n \in Notes, rag[n].document = "stored",
                      ~note[n].document, ~(losses > 0)
               PROVE  \E i \in DOMAIN outbox :
                         /\ outbox[i].note = n /\ outbox[i].type = "create"
                         /\ outbox[i].state \in {"pending", "failed"} \/ Holding(i) # {}
    BY DEF DocumentIsTracked
  <2>1. losses = 0 /\ outbox \in Seq(Event)
    BY Rows, NoteAssumption DEF Projected, NotesTypeOK, NoteAssumption
  <2>2. PICK i \in DOMAIN outbox : outbox[i].note = n /\ outbox[i].type = "create" /\ Open(i)
    BY DEF Projected, Tracking, CreateIsOpen
  <2>3. outbox[i] \in Event
    BY <2>1
  <2>4. outbox[i].state \in {"pending", "failed", "processing"}
    BY <2>2, <2>3 DEF Event, Open
  <2>5. outbox[i].state = "processing" => Holding(i) # {}
    BY <2>1 DEF Held, Holding
  <2> QED
    BY <2>2, <2>4, <2>5
<1> QED
  BY <1>1, <1>2, <1>3, NotesInvariance, PTL DEF NotesSpec

\* UpdateNoteJobStatus, CompleteNoteCreate and CompleteNoteDelete: for every bound on
\* faults and losses, what a note's status says of its document and its job has
\* the grounds the property names.
THEOREM Grounded == NotesSpec => []StatusHasGrounds
<1>1. NotesInit => Erasing
  <2> SUFFICES ASSUME NotesInit
               PROVE  Erasing
    OBVIOUS
  <2>1. \A p \in Projectors : projector[p].pc = "idle"
    BY DEF NotesInit, NoBatch
  <2> QED
    BY <2>1 DEF NotesInit, Erasing
<1>2. Projected /\ Erasing /\ [NotesNext]_noteVars => Erasing'
  BY ErasingStep
<1>3. Projected /\ Erasing => StatusHasGrounds
  <2> SUFFICES ASSUME Projected, Erasing, NEW n \in Notes
               PROVE  /\ note[n].status = "indexed" =>
                            /\ rag[n].job = "completed" /\ note[n].document
                            /\ \/ rag[n].document = "stored"
                               \/ \E i \in DOMAIN outbox :
                                     outbox[i].note = n /\ outbox[i].type = "delete"
                      /\ note[n].status = "deleted" => rag[n].document # "stored" \/ n \in blind
    BY DEF StatusHasGrounds
  <2>1. rag[n].document \in {"absent", "stored", "erased"}
    BY Rows
  <2>2. note[n].status = "indexed" => rag[n].job = "completed" /\ note[n].document
    BY DEF Projected, Confirming, Confirmed
  <2>3. rag[n].document = "absent" => rag[n].job = "none"
    BY DEF Projected, Confirming
  <2> QED
    BY <2>1, <2>2, <2>3 DEF Erasing
<1> QED
  BY <1>1, <1>2, <1>3, NotesInvariance, PTL DEF NotesSpec

-----------------------------------------------------------------------------
\* ClaimNoteOutbox: however many projectors share the outbox, each event is
\* worked on by one of them at a time.
THEOREM WorkedOnce ==
    NotesSpec => [](\A i \in DOMAIN outbox : \A p, q \in Holding(i) : p = q)
<1>1. Projected => \A i \in DOMAIN outbox : \A p, q \in Holding(i) : p = q
  BY DEF Projected, Claimed, Holding, ToSet
<1> QED
  BY <1>1, NotesInvariance, PTL

=============================================================================
