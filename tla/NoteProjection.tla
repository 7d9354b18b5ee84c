--------------------------- MODULE NoteProjection ---------------------------
(***************************************************************************)
(* Notes and their projection to the RAG service.  MySQL holds the notes   *)
(* and an outbox; every request that creates, deletes or polls a note also *)
(* starts a goroutine (a projector) that claims a batch of the outbox and  *)
(* repeats it at the RAG service with the user's token.  Polling asks RAG  *)
(* for the indexing job and writes what it answered.  A repository call is *)
(* one transaction, hence one step.                                        *)
(***************************************************************************)
EXTENDS Integers, Sequences, FiniteSets, SequencesExt

CONSTANTS
    Notes,          \* a note per create idempotency key
    DeleteKeys,     \* idempotency keys of delete requests
    Projectors,     \* goroutines of dispatchProjection
    Pollers,        \* requests in RefreshStatus
    ClaimLimit,     \* events claimed at once
    MaxFaults,      \* bound: calls and statements that fail and are recorded
    MaxLosses       \* bound: failures nothing records

ASSUME NoteAssumption ==
    /\ ClaimLimit \in Nat \ {0}
    /\ MaxFaults \in Nat
    /\ MaxLosses \in Nat

VARIABLES
    note,       \* note[n]: row of agent_notes: status, and whether it names the RAG document
    outbox,     \* rows of the outbox by creation
    rag,        \* rag[n]: the document of n and its indexing job, in the RAG service
    projector,  \* projector[p]: goroutine in ProjectPending
    poller,     \* poller[q]: request in RefreshStatus
    blind,      \* history: notes of which a delete found no document to erase
    faults,
    losses

tables == <<note, outbox>>
noteVars == <<note, outbox, rag, projector, poller, blind, faults, losses>>

-----------------------------------------------------------------------------
Status == {"absent", "indexing", "indexed", "index_failed", "delete_pending", "deleted"}
Job == {"none", "pending", "completed", "failed"}
NoKey == "no key"
Event == [note : Notes, type : {"create", "delete"}, key : DeleteKeys \union {NoKey},
          state : {"pending", "processing", "failed", "completed"}, due : BOOLEAN]
NoBatch == [pc |-> "idle", batch |-> <<>>, job |-> "none"]
Resting == [pc |-> "idle", note |-> "none", job |-> "none"]

NotesInit ==
    /\ note = [n \in Notes |-> [status |-> "absent", document |-> FALSE]]
    /\ outbox = <<>>
    /\ rag = [n \in Notes |-> [document |-> "absent", job |-> "none"]]
    /\ projector = [p \in Projectors |-> NoBatch]
    /\ poller = [q \in Pollers |-> Resting]
    /\ blind = {}
    /\ faults = 0
    /\ losses = 0

Fault == faults < MaxFaults /\ faults' = faults + 1
NoFault == UNCHANGED faults
Loss == losses < MaxLosses /\ losses' = losses + 1

SetStatus(n, s) == note' = [note EXCEPT ![n].status = s]
SetState(i, s) == outbox' = [outbox EXCEPT ![i].state = s]

-----------------------------------------------------------------------------
(* Requests *)

Create(n) ==
    /\ note[n].status = "absent"
    /\ SetStatus(n, "indexing")
    /\ outbox' = Append(outbox, [note |-> n, type |-> "create", key |-> NoKey,
                                 state |-> "pending", due |-> TRUE])
    /\ UNCHANGED <<rag, projector, poller, blind, faults, losses>>

\* A key that was used, for whichever note, or a deleted note makes it a replay.
Fresh(n, k) ==
    /\ note[n].status \notin {"absent", "deleted"}
    /\ \A i \in DOMAIN outbox : outbox[i].key # k

Delete(n, k) ==
    /\ Fresh(n, k)
    /\ SetStatus(n, "delete_pending")
    /\ outbox' = Append(outbox, [note |-> n, type |-> "delete", key |-> k,
                                 state |-> "pending", due |-> TRUE])
    /\ UNCHANGED <<rag, projector, poller, blind, faults, losses>>

-----------------------------------------------------------------------------
(* ProjectPending *)

At(p) == Head(projector[p].batch)
GoOn(p, pc) == projector' = [projector EXCEPT ![p].pc = pc]
\* On to the next event of the batch.
Advance(p) ==
    projector' = [projector EXCEPT ![p] =
        IF Len(@.batch) = 1 THEN NoBatch
        ELSE [pc |-> "load", batch |-> Tail(@.batch), job |-> "none"]]

\* Any request of the user that creates, deletes or polls a note, replayed or not,
\* starts a goroutine when its transaction is over; nothing else does.
Dispatch(p) ==
    /\ projector[p].pc = "idle"
    /\ GoOn(p, "claim")
    /\ UNCHANGED <<tables, rag, poller, blind, faults, losses>>

\* available_at <= now: a failed event is due when its back-off is over.
ClaimableOnce(i) == outbox[i].state = "pending" \* mutant
Claimable(i) == outbox[i].state \in {"pending", "failed"} /\ outbox[i].due

BackoffEnds(i) ==
    /\ outbox[i].state = "failed" /\ ~outbox[i].due
    /\ outbox' = [outbox EXCEPT ![i].due = TRUE]
    /\ UNCHANGED <<note, rag, projector, poller, blind, faults, losses>>

\* The oldest of what is due, as many as the limit allows, by creation.
Oldest(batch, due) ==
    /\ \A a, b \in DOMAIN batch : a < b => batch[a] < batch[b]
    /\ \A i \in due \ ToSet(batch), a \in DOMAIN batch : batch[a] < i
UpToLimit(k) == IF k > ClaimLimit THEN ClaimLimit ELSE k

\* Nothing to claim, or a claim that fails, ends the goroutine.
Claim(p) ==
    /\ projector[p].pc = "claim"
    /\ LET due == {i \in DOMAIN outbox : Claimable(i)}
       IN  \/ \E batch \in [1 .. UpToLimit(Cardinality(due)) -> due] :
                 /\ due # {} /\ Oldest(batch, due)
                 /\ outbox' = [i \in DOMAIN outbox |->
                        IF i \in ToSet(batch) THEN [outbox[i] EXCEPT !.state = "processing"]
                        ELSE outbox[i]]
                 /\ projector' = [projector EXCEPT ![p] =
                        [pc |-> "load", batch |-> batch, job |-> "none"]]
                 /\ NoFault
           \/ /\ (due = {} /\ NoFault) \/ Fault
              /\ GoOn(p, "idle") /\ UNCHANGED outbox
    /\ UNCHANGED <<note, rag, poller, blind, losses>>

\* Without a document there is nothing to delete.
Load(p) ==
    /\ projector[p].pc = "load"
    /\ LET e == outbox[At(p)]
       IN  \/ /\ e.type = "create" \/ note[e.note].document
              /\ GoOn(p, "call") /\ NoFault /\ UNCHANGED blind
           \/ /\ e.type = "delete" /\ ~note[e.note].document
              /\ GoOn(p, "complete") /\ NoFault /\ blind' = blind \union {e.note}
           \/ GoOn(p, "fail") /\ Fault /\ UNCHANGED blind
    /\ UNCHANGED <<tables, rag, poller, losses>>

\* The RAG service: a repeated create is answered with the first document.
Store(n) ==
    IF rag[n].document = "absent"
    THEN \E j \in {"pending", "completed"} :
            rag' = [rag EXCEPT ![n] = [document |-> "stored", job |-> j]]
    ELSE UNCHANGED rag
Erase(n) == rag' = [rag EXCEPT ![n].document = "erased"]

\* A call may fail before or after it took effect.
CallRAG(p) ==
    /\ projector[p].pc = "call"
    /\ LET e == outbox[At(p)]
       IN  \/ /\ IF e.type = "create" THEN Store(e.note) ELSE Erase(e.note)
              /\ \/ NoFault /\ projector' = [projector EXCEPT
                                   ![p].pc = "complete", ![p].job = rag'[e.note].job]
                 \/ Fault /\ GoOn(p, "fail")
           \/ Fault /\ GoOn(p, "fail") /\ UNCHANGED rag
    /\ UNCHANGED <<tables, poller, blind, losses>>

AnsweredEagerly(p) == "indexed" \* mutant
Answered(p) == IF projector[p].job = "completed" THEN "indexed" ELSE "indexing"

CompletedCreate(p, n) ==
    note' = [note EXCEPT ![n] = [status |-> Answered(p), document |-> TRUE]]

\* CompleteNoteCreate and CompleteNoteDelete write whatever the note has become.
Complete(p) ==
    /\ projector[p].pc = "complete"
    /\ LET e == outbox[At(p)]
       IN  \/ /\ IF e.type = "create" THEN CompletedCreate(p, e.note)
                 ELSE SetStatus(e.note, "deleted")
              /\ SetState(At(p), "completed")
              /\ Advance(p) /\ NoFault
           \/ GoOn(p, "fail") /\ Fault /\ UNCHANGED tables
    /\ UNCHANGED <<rag, poller, blind, losses>>

\* FailNoteProjection, with a back-off; its own error is dropped.
FailForgotten(p) == \* mutant: an error of project is not recorded
    /\ projector[p].pc = "fail"
    /\ Advance(p)
    /\ UNCHANGED <<tables, rag, poller, blind, faults, losses>>
Fail(p) ==
    /\ projector[p].pc = "fail"
    /\ LET e == outbox[At(p)]
       IN  \/ /\ SetStatus(e.note, IF e.type = "create" THEN "index_failed"
                                   ELSE "delete_pending")
              /\ outbox' = [outbox EXCEPT ![At(p)].state = "failed", ![At(p)].due = FALSE]
              /\ UNCHANGED losses
           \/ Loss /\ UNCHANGED tables
    /\ Advance(p)
    /\ UNCHANGED <<rag, poller, blind, faults>>

\* The process dies, or the thirty seconds are over and every call of the rest
\* of the batch fails, FailNoteProjection included.
Abandon(p) ==
    /\ projector[p].pc # "idle"
    /\ Loss
    /\ projector' = [projector EXCEPT ![p] = NoBatch]
    /\ UNCHANGED <<tables, rag, poller, blind, faults>>

\* RAG ends its job.
Index(n) ==
    /\ rag[n].job = "pending"
    /\ \E j \in {"completed", "failed"} : rag' = [rag EXCEPT ![n].job = j]
    /\ UNCHANGED <<tables, projector, poller, blind, faults, losses>>

-----------------------------------------------------------------------------
(* RefreshStatus *)

Poll(q, n) ==
    /\ poller[q].pc = "idle"
    /\ note[n].document
    /\ note[n].status \in {"indexing", "index_failed"}
    /\ poller' = [poller EXCEPT ![q] = [pc |-> "ask", note |-> n, job |-> "none"]]
    /\ UNCHANGED <<tables, rag, projector, blind, faults, losses>>

GetNoteJob(q) ==
    /\ poller[q].pc = "ask"
    /\ poller' = [poller EXCEPT ![q] =
           [pc |-> "save", note |-> @.note, job |-> rag[@.note].job]]
    /\ UNCHANGED <<tables, rag, projector, blind, faults, losses>>

Reported(j) ==
    CASE j = "completed" -> "indexed" [] j = "failed" -> "index_failed" [] OTHER -> "indexing"

UpdateNoteJobStatus(q) ==
    /\ poller[q].pc = "save"
    /\ SetStatus(poller[q].note, Reported(poller[q].job))
    /\ poller' = [poller EXCEPT ![q] = Resting]
    /\ UNCHANGED <<outbox, rag, projector, blind, faults, losses>>

GiveUpPoll(q) ==
    /\ poller[q].pc # "idle"
    /\ poller' = [poller EXCEPT ![q] = Resting]
    /\ UNCHANGED <<tables, rag, projector, blind, faults, losses>>

-----------------------------------------------------------------------------
Project(p) == Claim(p) \/ Load(p) \/ CallRAG(p) \/ Complete(p) \/ Fail(p)

Refresh(q) == (\E n \in Notes : Poll(q, n)) \/ GetNoteJob(q) \/ UpdateNoteJobStatus(q)

NotesNext ==
    \/ \E n \in Notes : Create(n) \/ Index(n) \/ \E k \in DeleteKeys : Delete(n, k)
    \/ \E p \in Projectors : Dispatch(p) \/ Project(p) \/ Abandon(p)
    \/ \E i \in DOMAIN outbox : BackoffEnds(i)
    \/ \E q \in Pollers : Refresh(q) \/ GiveUpPoll(q)

NotesSpec == NotesInit /\ [][NotesNext]_noteVars

\* A goroutine that was started goes on, and time passes.  That one is started
\* is not assumed: it takes a request.
FairNotesSpec ==
    /\ NotesSpec
    /\ \A p \in Projectors : WF_noteVars(Project(p))
    /\ WF_noteVars(\E i \in DOMAIN outbox : BackoffEnds(i))

-----------------------------------------------------------------------------
(* Properties *)

\* The projectors that have event i.
Holding(i) == {p \in Projectors : i \in ToSet(projector[p].batch)}

Projector == [pc : {"idle", "claim", "load", "call", "complete", "fail"}, batch : Seq(Nat), job : Job]
Poller == [pc : {"idle", "ask", "save"}, note : Notes \union {"none"}, job : Job]

NotesTypeOK ==
    /\ note \in [Notes -> [status : Status, document : BOOLEAN]]
    /\ outbox \in Seq(Event)
    /\ rag \in [Notes -> [document : {"absent", "stored", "erased"}, job : Job]]
    /\ projector \in [Projectors -> Projector]
    /\ \A p \in Projectors :
          /\ ToSet(projector[p].batch) \subseteq DOMAIN outbox
          /\ projector[p].pc \in {"idle", "claim"} <=> projector[p].batch = <<>>
    /\ poller \in [Pollers -> Poller]
    /\ \A q \in Pollers : poller[q].pc # "idle" => poller[q].note \in Notes
    /\ blind \subseteq Notes
    /\ faults \in 0 .. MaxFaults
    /\ losses \in 0 .. MaxLosses

\* A document in RAG that the note does not know of, because its answer was lost
\* or its event is not finished, is not forgotten: a create event of the note can
\* be claimed, waits for its back-off or is in the hands of a goroutine, unless a
\* failure went unrecorded. A row left in processing is never claimed again.
DocumentIsTracked ==
    \A n \in Notes : rag[n].document = "stored" /\ ~note[n].document =>
        \/ losses > 0
        \/ \E i \in DOMAIN outbox :
              /\ outbox[i].note = n /\ outbox[i].type = "create"
              /\ outbox[i].state \in {"pending", "failed"} \/ Holding(i) # {}

\* What a status says of RAG, and when it does not. An indexed note knows a document
\* whose job RAG completed; only a delete that was overwritten (by a poll, or by
\* a create that came late) explains that the document is no longer there. A
\* deleted note has no document in RAG, unless a delete was completed before the
\* note knew of its document.
StatusHasGrounds ==
    \A n \in Notes :
        /\ note[n].status = "indexed" =>
              /\ rag[n].job = "completed" /\ note[n].document
              /\ \/ rag[n].document = "stored"
                 \/ \E i \in DOMAIN outbox : outbox[i].note = n /\ outbox[i].type = "delete"
        /\ note[n].status = "deleted" => rag[n].document # "stored" \/ n \in blind

\* What docs/api/agent-note-api.md:61 says: a note is deleted only when its document
\* has gone from RAG.
DeletedMeansGone ==
    \A n \in Notes : note[n].status = "deleted" => rag[n].document # "stored"

\* A deletion that was accepted is carried out in the end, if the user's requests
\* go on and no failure went unrecorded. The web client stops after twelve polls
\* or the first error it is told of (web/src/App.tsx:242); a deletion that failed
\* then waits for the next request, whenever that comes.
DeletionIsRetried ==
    ([]<><<\E p \in Projectors : Dispatch(p)>>_noteVars) =>
        \A n \in Notes :
            note[n].status = "delete_pending" ~> note[n].status = "deleted" \/ losses > 0
=============================================================================
