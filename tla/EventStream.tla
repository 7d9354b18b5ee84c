----------------------------- MODULE EventStream -----------------------------
(***************************************************************************)
(* Following one chat run over server-sent events.  The writers of the run *)
(* store an event and then notify the waiters of their own process; a      *)
(* handler per connection reads the stored events in batches and waits; a  *)
(* browser counts what it received, reconnects with Last-Event-ID and asks *)
(* for the run's status when the connection breaks.  Events are their      *)
(* sequence numbers; the last one of a run that has ended is its terminal  *)
(* event (property LogEndsWithStatus of module ChatRun).                   *)
(***************************************************************************)
EXTENDS Integers, Sequences, SequencesExt

CONSTANTS
    Clients,
    Batch,          \* the limit of ListEvents: 100 in the code
    MaxEvents,      \* bound: events of the run
    MaxCuts,        \* bound: connections that break
    MaxRefusals     \* bound: requests for the stream answered with an HTTP error

ASSUME StreamAssumption ==
    /\ Batch \in Nat \ {0}
    /\ MaxEvents \in Nat \ {0}
    /\ MaxCuts \in Nat
    /\ MaxRefusals \in Nat

VARIABLES
    stored,     \* events in agent_run_events
    status,     \* "running", or how the run ended
    owing,      \* writers that have committed and not yet notified
    handler,    \* handler[c]: the goroutine in streamEvents
    wire,       \* wire[c]: events written and not yet received
    client,     \* client[c]: the browser's EventSource
    checking,   \* clients that asked for the status of the run
    received,   \* received[c]: the ids of the events received
    cuts,
    refusals

run == <<stored, status, owing>>
browser == <<client, checking, received>>
followVars == <<stored, status, owing, handler, wire, client, checking, received, cuts, refusals>>

Writers == {"worker", "canceller"}
Handler == [pc : {"off", "subscribe", "list", "write", "wait", "closed"}, home : BOOLEAN,
            after : 0 .. MaxEvents, upto : 0 .. MaxEvents, full : BOOLEAN,
            registered : BOOLEAN, woken : BOOLEAN]
Off == [pc |-> "off", home |-> FALSE, after |-> 0, upto |-> 0, full |-> FALSE,
        registered |-> FALSE, woken |-> FALSE]
Ended == status # "running"
TerminalEvent(e) == Ended /\ e = stored

FollowInit ==
    /\ stored = 1                       \* CreateRun stores run.queued
    /\ status = "running"
    /\ owing = {}
    /\ handler = [c \in Clients |-> Off]
    /\ wire = [c \in Clients |-> <<>>]
    /\ client = [c \in Clients |-> "connecting"]
    /\ checking = {}
    /\ received = [c \in Clients |-> <<>>]
    /\ cuts = 0
    /\ refusals = 0

-----------------------------------------------------------------------------
(* Writers *)

Commit(s) == stored < MaxEvents /\ stored' = stored + 1 /\ status' = s /\ ~Ended

\* The goroutine appends an event, and in the end its terminal event.
Store ==
    /\ "worker" \notin owing
    /\ \/ stored + 1 < MaxEvents /\ Commit("running")
       \/ Commit("finished")
    /\ owing' = owing \union {"worker"}
    /\ UNCHANGED <<handler, wire, browser, cuts, refusals>>

CancelRun ==
    /\ Commit("finished")
    /\ owing' = owing \union {"canceller"}
    /\ UNCHANGED <<handler, wire, browser, cuts, refusals>>

\* Another process starts and ends the runs it finds: nobody is notified.
InterruptRunning ==
    /\ Commit("interrupted")
    /\ UNCHANGED <<owing, handler, wire, browser, cuts, refusals>>

\* The waiters of the writers' process are woken and forgotten.
Woken(h) ==
    IF h.home /\ h.registered THEN [h EXCEPT !.woken = TRUE, !.registered = FALSE] ELSE h
Notify(w) ==
    /\ w \in owing
    /\ owing' = owing \ {w}
    /\ handler' = [c \in Clients |-> Woken(handler[c])]
    /\ UNCHANGED <<stored, status, wire, browser, cuts, refusals>>

-----------------------------------------------------------------------------
(* Handlers *)

Subscribe(c) ==
    /\ handler[c].pc = "subscribe"
    /\ handler' = [handler EXCEPT ![c].pc = "list", ![c].registered = TRUE, ![c].woken = FALSE]
    /\ UNCHANGED <<run, wire, browser, cuts, refusals>>

UpTo(after) == IF after + Batch < stored THEN after + Batch ELSE stored
ListEvents(c) ==
    LET h == handler[c]
    IN  /\ h.pc = "list"
        /\ handler' = [handler EXCEPT ![c] = [h EXCEPT
               !.pc = "write", !.upto = UpTo(h.after), !.full = h.after + Batch < stored]]
        /\ UNCHANGED <<run, wire, browser, cuts, refusals>>

Write(c) ==
    LET e == handler[c].after + 1
    IN  /\ handler[c].pc = "write"
        /\ e <= handler[c].upto
        /\ wire' = [wire EXCEPT ![c] = Append(@, e)]
        /\ handler' = [handler EXCEPT ![c].after = e]
        /\ UNCHANGED <<run, browser, cuts, refusals>>

GetRunThenSubscribe(c) == \* mutant
    /\ handler[c].pc = "write"
    /\ handler[c].after >= handler[c].upto
    /\ handler' = [handler EXCEPT ![c].pc = IF Ended THEN "closed" ELSE "wait",
                                  ![c].registered = ~Ended, ![c].woken = FALSE]
    /\ UNCHANGED <<run, wire, browser, cuts, refusals>>
\* After the batch the status decides between the end of the stream and a wait.
GetRun(c) ==
    /\ handler[c].pc = "write"
    /\ handler[c].after >= handler[c].upto
    /\ handler' = [handler EXCEPT ![c].pc = IF Ended THEN "closed" ELSE "wait",
                                  ![c].registered = @ /\ ~Ended]
    /\ UNCHANGED <<run, wire, browser, cuts, refusals>>

Wake(c) ==
    /\ handler[c].pc = "wait"
    /\ handler[c].woken
    /\ handler' = [handler EXCEPT ![c].pc = "subscribe"]
    /\ UNCHANGED <<run, wire, browser, cuts, refusals>>

HeartbeatKeeps(c) == \* mutant
    /\ handler[c].pc = "wait"
    /\ UNCHANGED followVars
Heartbeat(c) ==
    /\ handler[c].pc = "wait"
    /\ handler' = [handler EXCEPT ![c].pc = "subscribe", ![c].registered = FALSE]
    /\ UNCHANGED <<run, wire, browser, cuts, refusals>>

-----------------------------------------------------------------------------
(* Browsers *)

LastEventIDLost(c) == 0 \* mutant
LastEventID(c) == IF received[c] = <<>> THEN 0 ELSE Last(received[c])

\* The request reaches the writers' process or another one.
Connect(c) ==
    /\ client[c] = "connecting"
    /\ client' = [client EXCEPT ![c] = "open"]
    /\ \E home \in BOOLEAN :
          handler' = [handler EXCEPT ![c] =
              [Off EXCEPT !.pc = "subscribe", !.home = home, !.after = LastEventID(c)]]
    /\ UNCHANGED <<run, wire, checking, received, cuts, refusals>>

\* An answer other than 200 ends an EventSource for good.
Refused(c) ==
    /\ client[c] = "connecting"
    /\ refusals < MaxRefusals
    /\ refusals' = refusals + 1
    /\ client' = [client EXCEPT ![c] = "closed"]
    /\ checking' = checking \union {c}
    /\ UNCHANGED <<run, handler, wire, received, cuts>>

\* The connection is gone on both sides.
Disconnected(c, state) ==
    /\ client' = [client EXCEPT ![c] = state]
    /\ handler' = [handler EXCEPT ![c] = Off]
    /\ wire' = [wire EXCEPT ![c] = <<>>]

Receive(c) ==
    LET e == Head(wire[c])
    IN  /\ client[c] = "open"
        /\ wire[c] # <<>>
        /\ received' = [received EXCEPT ![c] = Append(@, e)]
        /\ IF TerminalEvent(e)
           THEN Disconnected(c, "settled")
           ELSE wire' = [wire EXCEPT ![c] = Tail(@)] /\ UNCHANGED <<client, handler>>
        /\ UNCHANGED <<run, checking, cuts, refusals>>

\* The server closed the stream, or the connection breaks: the browser connects
\* again by itself while source.onerror asks for the status.
Break(c) ==
    /\ client[c] = "open"
    /\ \/ handler[c].pc = "closed" /\ wire[c] = <<>> /\ UNCHANGED cuts
       \/ cuts < MaxCuts /\ cuts' = cuts + 1
    /\ Disconnected(c, "connecting")
    /\ checking' = checking \union {c}
    /\ UNCHANGED <<run, received, refusals>>

CheckRun(c) ==
    /\ c \in checking
    /\ checking' = checking \ {c}
    /\ IF Ended /\ client[c] # "settled"
       THEN Disconnected(c, "settled")
       ELSE UNCHANGED <<client, handler, wire>>
    /\ UNCHANGED <<run, received, cuts, refusals>>

\* The status cannot be read: the page gives the run up.
CheckFails(c) ==
    /\ c \in checking
    /\ cuts < MaxCuts
    /\ cuts' = cuts + 1
    /\ checking' = checking \ {c}
    /\ Disconnected(c, "settled")
    /\ UNCHANGED <<run, received, refusals>>

-----------------------------------------------------------------------------
Serve(c) == Subscribe(c) \/ ListEvents(c) \/ Write(c) \/ GetRun(c) \/ Wake(c)
Browse(c) == Connect(c) \/ Receive(c) \/ CheckRun(c)

FollowNext ==
    \/ Store \/ CancelRun \/ InterruptRunning
    \/ \E w \in Writers : Notify(w)
    \/ \E c \in Clients :
          \/ Serve(c) \/ Heartbeat(c)
          \/ Browse(c) \/ Refused(c) \/ Break(c) \/ CheckFails(c)

FollowSpec == FollowInit /\ [][FollowNext]_followVars

\* Goroutines run, the ticker ticks, and the browser connects, reads and notices a
\* closed stream.  The run owes no progress.
FairFollowSpec ==
    /\ FollowSpec
    /\ \A w \in Writers : WF_followVars(Notify(w))
    /\ \A c \in Clients :
          /\ WF_followVars(Serve(c))
          /\ WF_followVars(Heartbeat(c))
          /\ WF_followVars(Connect(c))
          /\ WF_followVars(Receive(c))
          /\ WF_followVars(CheckRun(c))
          /\ WF_followVars(handler[c].pc = "closed" /\ Break(c))

-----------------------------------------------------------------------------
(* Properties *)

TypeOK ==
    /\ stored \in 1 .. MaxEvents
    /\ status \in {"running", "finished", "interrupted"}
    /\ owing \subseteq Writers
    /\ handler \in [Clients -> Handler]
    /\ wire \in [Clients -> Seq(1 .. MaxEvents)]
    /\ client \in [Clients -> {"connecting", "open", "closed", "settled"}]
    /\ checking \subseteq Clients
    /\ received \in [Clients -> Seq(1 .. MaxEvents)]
    /\ cuts \in 0 .. MaxCuts
    /\ refusals \in 0 .. MaxRefusals

\* Over any number of broken connections a browser receives the stored events one
\* after the other: none is missing, none comes twice, none is not stored.
ReceivedInOrder ==
    \A c \in Clients :
        /\ \A i \in DOMAIN received[c] : received[c][i] = i
        /\ Len(received[c]) <= stored

\* No wake-up is lost: a handler of the writers' process that waits with an event
\* unread is woken, or a writer that has committed is still going to notify it.
\* The end that another process writes is not notified, and a handler that was
\* given a full batch waits with the rest unread.
NoLostWakeup ==
    \A c \in Clients :
        LET h == handler[c]
        IN  /\ h.pc = "wait" /\ h.home /\ ~h.full
            /\ h.after + (IF status = "interrupted" THEN 1 ELSE 0) < stored
            => h.woken \/ owing # {}

\* Whatever breaks, a browser learns that the run has ended and, until it has,
\* receives every stored event, unless a reconnect was refused: the EventSource is
\* closed for good then.
ClientSettles == \A c \in Clients : Ended ~> client[c] = "settled" \/ refusals > 0

EventsArrive ==
    \A c \in Clients : \A n \in 1 .. MaxEvents :
        stored >= n ~> Len(received[c]) >= n \/ client[c] = "settled" \/ refusals > 0

StreamDelivers == ClientSettles /\ EventsArrive
=============================================================================
