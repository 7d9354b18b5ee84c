---------------------------- MODULE StreamProtocol ----------------------------
(* How the events of one answer travel from the goroutine that produces them *)
(* to the chat run that records them, over channels of a small capacity:     *)
(*                                                                           *)
(*   source --inner--> relay --outer--> reader                               *)
(*                                                                           *)
(* The source is the conversation runner (agent/eino/runner.go), a           *)
(* deterministic handler (routing/executor.go), a skill (skill/executor.go)  *)
(* or the stream a streaming skill returns.  The relay is                    *)
(* ConversationHandler's, which bounds the conversation in time, or the      *)
(* skill executor's, which bounds its output; the other routes have none and *)
(* the source writes to outer.  The reader is chat.Service's loop.           *)
(*                                                                           *)
(* A send under a context gives up when the context has ended; the runner's  *)
(* terminal event is sent under none.                                        *)
EXTENDS Naturals, Sequences, FiniteSets

CONSTANTS
    Routes,         \* the kinds of stream a request may be routed to
    MaxSteps,       \* messages of the model, steps of a skill, events of its stream
    AnswerChunks,   \* pieces of 256 runes a validated answer is cut into
    MaxOutput       \* text events a streaming skill's budget allows

ASSUME ProtocolAssumption ==
    /\ Routes \subseteq {"conversation", "bounded", "handler", "skill",
                         "skill_stream", "no_stream"}
    /\ MaxSteps \in Nat /\ AnswerChunks \in Nat \ {0} /\ MaxOutput \in Nat

VARIABLES
    route,      \* where the request went
    required,   \* the request requires retrieval
    ended,      \* per context: why it has ended, or "none"
    chan,       \* the two channels
    sent,       \* every event put on outer, in order
    src,        \* the producing goroutine
    relay,      \* the relaying goroutine
    reader,     \* the chat run's loop
    cancelled   \* CancelRun, or the server's shutdown, ended the chat context

vars == <<route, required, ended, chan, sent, src, relay, reader, cancelled>>

(* ------------------------------- events --------------------------------- *)

Ev(type, tag) == [type |-> type, tag |-> tag]
Terminal(e) == e.type \in {"completed", "failed"}
Failed(err) == Ev("failed", err)
Completed == Ev("completed", "none")

Events ==
    {Ev(type, "none") : type \in {"started", "candidate", "status", "completed"}}
        \cup {Ev("text", tag) : tag \in {"plain", "draft", "answer", "refusal"}}
        \cup {Ev("tool", tag) : tag \in {"search", "other"}}
        \cup {Failed(err) : err \in {"error", "canceled", "deadline", "output", "protocol"}}

NoEvent == Ev("none", "none")

(* ------------------------------ contexts -------------------------------- *)

Contexts == {"chat", "bounded", "run"}

(* The runner's context lives inside the bounded one, which lives inside the *)
(* chat run's.                                                               *)
Within(c) == CASE c = "chat" -> Contexts
               [] c = "bounded" -> {"bounded", "run"}
               [] c = "run" -> {"run"}

End(c, why) ==
    ended' = [d \in Contexts |->
                  IF d \in Within(c) /\ ended[d] = "none" THEN why ELSE ended[d]]

(* ------------------------------ channels -------------------------------- *)

Channels == {"inner", "outer"}
RunnerRoutes == {"conversation", "bounded"}
RelayedRoutes == {"bounded", "skill_stream"}

Capacity(c) == IF c = "inner" THEN 1
               ELSE CASE route = "handler" -> 3
                      [] route = "skill" -> 4
                      [] OTHER -> 1

SrcChan == IF route \in RelayedRoutes THEN "inner" ELSE "outer"

Push(c, e) ==
    /\ Len(chan[c].buf) < Capacity(c)
    /\ chan' = [chan EXCEPT ![c].buf = Append(@, e)]
    /\ sent' = IF c = "outer" THEN Append(sent, e) ELSE sent

(* The select of emit, send and emitAgentEvent: the event goes out, or the   *)
(* context's end is noticed; when both are possible either may happen.       *)
GivesUpFull(c) == c \in Contexts \* mutant: a full channel is not waited for
WaitsForever(c) == c \notin Contexts \* mutant: the context's end is not noticed
GivesUp(c) == ended[c] # "none"

Pop(c) ==
    /\ chan[c].buf # <<>>
    /\ chan' = [chan EXCEPT ![c].buf = Tail(@)]

Close(c) == chan' = [chan EXCEPT ![c].closed = TRUE]
AtEnd(c) == chan[c].closed /\ chan[c].buf = <<>>

(* ------------------------------ the source ------------------------------ *)

(* pc: where the goroutine is; ev: the event it is sending; then: where it   *)
(* goes next; onDrop: where it goes when the context ended instead.          *)
Going(s, e, then, onDrop) ==
    [s EXCEPT !.pc = "emit", !.ev = e, !.then = then, !.onDrop = onDrop]

AtTerminal(s, e) == [s EXCEPT !.pc = "terminal", !.ev = e]

SrcContext == IF route \in RunnerRoutes THEN "run" ELSE "chat"

Emit ==
    /\ src.pc = "emit"
    /\ Push(SrcChan, src.ev)
    /\ src' = [src EXCEPT !.pc = src.then]
    /\ UNCHANGED <<route, required, ended, relay, reader, cancelled>>

(* What a source does with a send that failed: the runner reports its        *)
(* context's end for a streamed chunk and goes on after any other event; the *)
(* other sources return.                                                     *)
EmitDropped ==
    /\ src.pc = "emit" /\ GivesUp(SrcContext)
    /\ src' = IF src.onDrop = "terminal"
              THEN AtTerminal(src, Failed(ended[SrcContext]))
              ELSE [src EXCEPT !.pc = src.onDrop]
    /\ UNCHANGED <<route, required, ended, chan, sent, relay, reader, cancelled>>

(* emitTerminal: no context gets it out of this send. *)
EmitTerminal ==
    /\ src.pc = "terminal"
    /\ Push(SrcChan, src.ev)
    /\ src' = [src EXCEPT !.pc = "closing"]
    /\ UNCHANGED <<route, required, ended, relay, reader, cancelled>>

SourceCloses ==
    /\ src.pc = "closing"
    /\ Close(SrcChan)
    /\ src' = [src EXCEPT !.pc = "end"]
    /\ UNCHANGED <<route, required, ended, sent, relay, reader, cancelled>>

SourceMoves(s) ==
    /\ src' = s
    /\ UNCHANGED <<route, required, ended, chan, sent, relay, reader, cancelled>>

Stepped == [src EXCEPT !.steps = @ + 1]

(* The model's next message, when grounding is off, goes out as it comes: a  *)
(* streamed chunk that cannot be sent ends the run, a whole message that     *)
(* cannot be sent is dropped.                                                *)
AlwaysStreams(s) == s.grounded \in BOOLEAN \* mutant: grounding does not hold text back
Streams(s) == ~s.grounded

ModelText ==
    /\ src.pc = "iterate" /\ src.steps < MaxSteps
    /\ Streams(src)
    /\ \E onDrop \in {"terminal", "iterate"} :
           SourceMoves(Going(Stepped, Ev("text", "draft"), "iterate", onDrop))

(* Under grounding it is kept for the draft. *)
ModelDraft ==
    /\ src.pc = "iterate" /\ src.steps < MaxSteps
    /\ src.grounded
    /\ SourceMoves(Stepped)

(* A result of semantic_search_notes turns grounding on, whatever the        *)
(* request asked; any tool's result is shown.  usable: the retrieval found   *)
(* something an answer may rest on.                                          *)
ModelTool ==
    /\ src.pc = "iterate" /\ src.steps < MaxSteps
    /\ \/ \E usable \in BOOLEAN :
              SourceMoves([Going(Stepped, Ev("tool", "search"), "iterate", "iterate")
                              EXCEPT !.grounded = TRUE, !.usable = usable])
       \/ SourceMoves(Going(Stepped, Ev("tool", "other"), "iterate", "iterate"))

(* A failing model or tool, a budget used up, or the context's end. *)
IterationFails ==
    /\ src.pc = "iterate"
    /\ \E err \in {"error", "deadline"} \cup ({ended["run"]} \ {"none"}) :
           SourceMoves(AtTerminal(src, Failed(err)))

IterationEnds ==
    /\ src.pc = "iterate"
    /\ SourceMoves(IF src.grounded
                   THEN Going(src, Ev("status", "none"), "validate", "validate")
                   ELSE AtTerminal(src, Completed))

(* validateOrRepair: without usable evidence, or when neither the draft nor  *)
(* its one repair passes, the answer is the fixed refusal, of one chunk.     *)
Validate ==
    /\ src.pc = "validate"
    /\ \E passes \in {p \in BOOLEAN : p => src.usable} :
           SourceMoves([src EXCEPT !.pc = "answer",
                                   !.tag = IF passes THEN "answer" ELSE "refusal",
                                   !.left = IF passes THEN AnswerChunks ELSE 1,
                                   !.total = IF passes THEN AnswerChunks ELSE 1])

AnswerChunk ==
    /\ src.pc = "answer"
    /\ SourceMoves(IF src.left > 0
                   THEN [Going(src, Ev("text", src.tag), "answer", "answer")
                            EXCEPT !.left = @ - 1]
                   ELSE AtTerminal(src, Completed))

(* A deterministic handler, or a skill that answers at once, returns one     *)
(* result or an error; its parts are then sent in a fixed order: a handler's *)
(* two kinds of candidate, or a skill's cache state, steps and candidate,    *)
(* all called candidate here, and the text.  They may be more than the       *)
(* channel holds.  A result over the skill's budget is a failure.            *)
Candidates ==
    {[i \in 1..n |-> Ev("candidate", "none")] :
        n \in 0..(IF route = "handler" THEN 2 ELSE MaxSteps + 2)}

Parts ==
    {<<Failed("error")>>}
        \cup {Append(c, Completed) : c \in Candidates}
        \cup {Append(Append(c, Ev("text", "plain")), Completed) : c \in Candidates}

HandlerReturns ==
    /\ src.pc = "exec"
    /\ \E parts \in Parts : SourceMoves([src EXCEPT !.pc = "parts", !.parts = parts])

SendPart ==
    /\ src.pc = "parts"
    /\ SourceMoves(IF src.parts = <<>>
                   THEN [src EXCEPT !.pc = "closing"]
                   ELSE [Going(src, Head(src.parts), "parts", "closing")
                            EXCEPT !.parts = Tail(@)])

(* The channel a streaming skill's handler returns may carry anything: the   *)
(* executor does not trust it.                                               *)
SkillEvent ==
    /\ src.pc = "foreign" /\ src.steps < MaxSteps
    /\ \E e \in {Ev("text", "plain"), Completed, Failed("error")} :
           SourceMoves(Going(Stepped, e, "foreign", "foreign"))

SkillCloses ==
    /\ src.pc = "foreign"
    /\ SourceMoves([src EXCEPT !.pc = "closing"])

(* ------------------------------- the relay ------------------------------ *)

RelayMoves(r) ==
    /\ relay' = r
    /\ UNCHANGED <<route, required, ended, chan, sent, src, reader, cancelled>>

Passing(r, e, then) == [r EXCEPT !.pc = "pass", !.ev = e, !.then = then]

Seen(r, e) == r.terminal \/ Terminal(e)
Over(r, e) == r.bytes + (IF e.type = "text" THEN 1 ELSE 0) > MaxOutput

ForwardsAll(r, e) == \* mutant: what follows a terminal event is forwarded
    IF ~Terminal(e) /\ Over(r, e) THEN Passing(r, Failed("output"), "closing")
    ELSE Passing([r EXCEPT !.terminal = Seen(r, e)], e, "recv")

(* ConversationHandler forwards what it reads and remembers a terminal       *)
(* event; the skill executor also counts the output and stops at the first   *)
(* event after a terminal one.                                               *)
Received(r, e) ==
    CASE route = "bounded" ->
             Passing([r EXCEPT !.terminal = Seen(r, e)], e, "recv")
      [] route # "bounded" /\ r.terminal -> [r EXCEPT !.pc = "closing"]
      [] route # "bounded" /\ ~r.terminal /\ Over(r, e) -> Passing(r, Failed("output"), "closing")
      [] OTHER ->
             Passing([r EXCEPT !.terminal = Terminal(e),
                               !.bytes = @ + (IF e.type = "text" THEN 1 ELSE 0)],
                     e, "recv")

RelayReceives ==
    /\ relay.pc = "recv"
    /\ Pop("inner")
    /\ relay' = Received(relay, Head(chan["inner"].buf))
    /\ UNCHANGED <<route, required, ended, sent, src, reader, cancelled>>

JustCloses(r) == [r EXCEPT !.pc = "closing"] \* mutant: a missing terminal is not made up

(* A source that closes without a terminal event: the relay says so for it,  *)
(* unless the chat run is over.  (ConversationHandler does so, too; behind   *)
(* the runner, which always sends a terminal event, it never has to.)        *)
SourceClosed(r) ==
    IF r.terminal \/ ended["chat"] # "none" THEN [r EXCEPT !.pc = "closing"]
    ELSE Passing(r, Failed("protocol"), "closing")

RelaySeesClose ==
    /\ relay.pc = "recv" /\ AtEnd("inner")
    /\ RelayMoves(SourceClosed(relay))

(* A skill whose handler returned no channel at all. *)
RelayFindsNoSource ==
    /\ relay.pc = "recv" /\ src.pc = "nil"
    /\ RelayMoves(Passing(relay, Failed("protocol"), "closing"))

RelayPasses ==
    /\ relay.pc = "pass"
    /\ Push("outer", relay.ev)
    /\ relay' = [relay EXCEPT !.pc = relay.then]
    /\ UNCHANGED <<route, required, ended, src, reader, cancelled>>

RelayGivesUp ==
    /\ relay.pc = "pass" /\ GivesUp("chat")
    /\ RelayMoves([relay EXCEPT !.pc = "closing"])

(* The deferred cancel and close. *)
RelayCloses ==
    /\ relay.pc = "closing"
    /\ Close("outer")
    /\ IF route = "bounded" THEN End("bounded", "canceled") ELSE UNCHANGED ended
    /\ relay' = [relay EXCEPT !.pc = "end"]
    /\ UNCHANGED <<route, required, sent, src, reader, cancelled>>

(* ------------------------------- the reader ----------------------------- *)

Leaves(outcome) ==
    /\ reader' = outcome
    /\ End("chat", "canceled")

(* What the chat run makes of an event: it goes on, records how the run      *)
(* ended, or, told of a cancellation, says nothing: whoever cancelled did.   *)
OutcomeOf(e) ==
    CASE e.type = "completed" -> "completed"
      [] e.type = "failed" /\ e.tag = "canceled" -> "silent"
      [] e.type = "failed" /\ e.tag = "deadline" -> "timed_out"
      [] e.type = "failed" /\ e.tag \notin {"canceled", "deadline"} -> "failed"
      [] OTHER -> "reading"

(* The store may refuse to record a delta, a status, a tool's summary or the *)
(* completion: the run is failed and the stream abandoned.                   *)
Recorded(e) == e.type \in {"text", "status", "tool", "completed"}

ReaderReceives ==
    /\ reader = "reading"
    /\ Pop("outer")
    /\ LET e == Head(chan["outer"].buf)
       IN  \/ IF Terminal(e) THEN Leaves(OutcomeOf(e)) ELSE UNCHANGED <<reader, ended>>
           \/ Recorded(e) /\ Leaves("store_failed")
    /\ UNCHANGED <<route, required, sent, src, relay, cancelled>>

ReaderSeesClose ==
    /\ reader = "reading" /\ AtEnd("outer")
    /\ Leaves(IF ended["chat"] # "none" THEN "silent" ELSE "stream_closed")
    /\ UNCHANGED <<route, required, chan, sent, src, relay, cancelled>>

(* ------------------------------ environment ----------------------------- *)

Cancel ==
    /\ ~cancelled /\ reader = "reading"
    /\ cancelled' = TRUE
    /\ End("chat", "canceled")
    /\ UNCHANGED <<route, required, chan, sent, src, relay, reader>>

RunTimeout ==
    /\ route \in RunnerRoutes /\ ended["run"] = "none"
    /\ End("run", "deadline")
    /\ UNCHANGED <<route, required, chan, sent, src, relay, reader, cancelled>>

BoundedTimeout ==
    /\ route = "bounded" /\ ended["bounded"] = "none"
    /\ End("bounded", "deadline")
    /\ UNCHANGED <<route, required, chan, sent, src, relay, reader, cancelled>>

(* ----------------------------- specification ---------------------------- *)

Source0 == [pc |-> "end", ev |-> NoEvent, then |-> "end", onDrop |-> "end",
            grounded |-> FALSE, usable |-> FALSE, tag |-> "refusal", left |-> 0,
            total |-> 0, steps |-> 0, parts |-> <<>>]

(* The chat run hands the requirement to the runner it calls itself;         *)
(* ConversationHandler, whose request carries the messages alone, does not.  *)
Enforced == required /\ route = "conversation"

(* The runner announces a retrieval it must enforce and goes on whether or   *)
(* not that was sent; a skill announces itself; a streaming skill may have   *)
(* no stream.                                                                *)
Sources ==
    CASE route \in RunnerRoutes ->
             {IF Enforced
              THEN Going([Source0 EXCEPT !.grounded = TRUE], Ev("status", "none"),
                         "iterate", "iterate")
              ELSE [Source0 EXCEPT !.pc = "iterate"]}
      [] route = "handler" -> {[Source0 EXCEPT !.pc = "exec"]}
      [] route = "skill" -> {Going(Source0, Ev("started", "none"), "exec", "closing")}
      [] route = "skill_stream" -> {[Source0 EXCEPT !.pc = pc] : pc \in {"foreign", "nil"}}
      [] route = "no_stream" -> {Source0}

Relay0 == [pc |-> "end", ev |-> NoEvent, then |-> "recv", terminal |-> FALSE, bytes |-> 0]

Relays ==
    CASE route = "bounded" -> [Relay0 EXCEPT !.pc = "recv"]
      [] route = "skill_stream" -> Passing(Relay0, Ev("started", "none"), "recv")
      [] OTHER -> Relay0

Empty == [buf |-> <<>>, closed |-> FALSE]

(* failedStream: one failure on a channel that is closed already. *)
FailedStream == [buf |-> <<Failed("error")>>, closed |-> TRUE]

Init ==
    /\ route \in Routes
    /\ required \in {b \in BOOLEAN : b => route \in RunnerRoutes}
    /\ ended = [c \in Contexts |-> "none"]
    /\ chan = [c \in Channels |->
                   IF c = "outer" /\ route = "no_stream" THEN FailedStream ELSE Empty]
    /\ sent = chan["outer"].buf
    /\ src \in Sources
    /\ relay = Relays
    /\ reader = "reading"
    /\ cancelled = FALSE

SourceStep ==
    \/ Emit \/ EmitDropped \/ EmitTerminal \/ SourceCloses
    \/ Validate \/ AnswerChunk \/ SendPart

RelayStep ==
    \/ RelayReceives \/ RelaySeesClose \/ RelayFindsNoSource \/ RelayPasses
    \/ RelayGivesUp \/ RelayCloses

ReaderStep == ReaderReceives \/ ReaderSeesClose

(* What the model, the handlers and the skills do. *)
ForeignStep ==
    \/ ModelText \/ ModelDraft \/ ModelTool \/ IterationFails
    \/ IterationEnds \/ HandlerReturns \/ SkillEvent \/ SkillCloses

Next ==
    \/ SourceStep \/ RelayStep \/ ReaderStep \/ ForeignStep
    \/ Cancel \/ RunTimeout \/ BoundedTimeout

Spec == Init /\ [][Next]_vars

(* Go's scheduler runs every goroutine that can run, and the runner's timer  *)
(* fires.  A model, a handler or a skill may take for ever while its context *)
(* is alive; once the context has ended it returns.                          *)
ForeignReturns ==
    /\ ended[SrcContext] # "none"
    /\ IterationFails \/ HandlerReturns \/ SkillCloses

Fairness ==
    /\ WF_vars(SourceStep) /\ WF_vars(RelayStep) /\ WF_vars(ReaderStep)
    /\ WF_vars(ForeignReturns) /\ WF_vars(RunTimeout)

FairSpec == Spec /\ Fairness

(* ------------------------------- properties ----------------------------- *)

(* The chat run is handed at most one terminal event, and nothing after it,  *)
(* whatever the stream of a skill carries.                                   *)
TerminalIsLast == \A i \in 1..Len(sent) : Terminal(sent[i]) => i = Len(sent)

(* The chat run is always told how its answer ended: it never meets a stream *)
(* that closed on a live run without a terminal event, and it ends in        *)
(* silence (writing no status, because whoever cancelled has) only when      *)
(* CancelRun or the shutdown did cancel it, never because a timeout or a     *)
(* relay's own cleanup looked like a cancellation.                           *)
ReaderLearnsTheEnd ==
    /\ reader # "stream_closed"
    /\ reader = "silent" => cancelled

(* Grounding is fail-closed: when the runner was told that the request       *)
(* requires retrieval, or once a search result has been shown, no text of    *)
(* the model reaches the chat run before validateOrRepair has passed it.  On *)
(* the bounded route the runner is never told (routing/executor.go:177):     *)
(* there the gate closes with the first search, not before.                  *)
DraftStaysIn ==
    \A i \in 1..Len(sent) :
        sent[i] = Ev("text", "draft") =>
            /\ ~Enforced
            /\ \A j \in 1..(i - 1) : sent[j] # Ev("tool", "search")

(* What docs/adr/0003-harness-runtime-grounding.md:42 promises of a question *)
(* about the notes, whichever way it is routed: unvalidated text is never    *)
(* sent.                                                                     *)
NeverUnvalidated ==
    required => \A i \in 1..Len(sent) : sent[i] # Ev("text", "draft")

(* A grounded answer reported as completed while the run's context is alive  *)
(* was sent whole: emit drops a chunk only when the context has ended.  (Its *)
(* end while the chunks go out is the case this leaves open: the run is then *)
(* reported completed with pieces missing.)                                  *)
AnswerWhole ==
    Completed \in {sent[i] : i \in 1..Len(sent)} /\ src.grounded /\ ended["run"] = "none"
        => Cardinality({i \in 1..Len(sent) : sent[i] = Ev("text", src.tag)}) = src.total

(* A conversation always ends, and once the chat run has left, the           *)
(* goroutines behind it end too; only the runner's terminal event, sent      *)
(* under no context, may be left waiting for a reader that is gone, and only *)
(* when that reader left before it.                                          *)
ReadToTheEnd == reader \in {"completed", "failed", "timed_out"}

GoroutinesEnd ==
    route \in RunnerRoutes \/ reader # "reading"
        ~> /\ reader # "reading"
           /\ src.pc \in {"end", "nil"} \cup (IF ReadToTheEnd THEN {} ELSE {"terminal"})
           /\ relay.pc = "end"
=============================================================================
