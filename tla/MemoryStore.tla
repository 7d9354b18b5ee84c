---------------------------- MODULE MemoryStore ----------------------------
(***************************************************************************)
(* The MySQL memory store: memory_records, memory_events (which are also    *)
(* the idempotency table), memory_projection_outbox and the mutation        *)
(* version of one owner.  Every operation is one transaction: it is found   *)
(* to be a replay, it is refused and rolls back, or it takes effect.        *)
(***************************************************************************)
EXTENDS Integers, Sequences, FiniteSets

CONSTANTS
    Slots,        \* namespace + slot_key pairs of drafts
    NoSlot,       \* the empty slot key
    Texts,        \* canonical contents; equal texts have equal hashes
    About         \* texts about one entity, as pairs

ASSUME StoreAssumption == NoSlot \notin Slots /\ About \subseteq Texts \X Texts

VARIABLES
    records,      \* rows of memory_records; the position is the memory id
    audit,        \* rows of memory_events
    outbox,       \* outbox[id]: the projection row of memory id
    version       \* memory_mutation_versions

store == <<records, audit, outbox, version>>

-----------------------------------------------------------------------------
Statuses == {"candidate", "active", "rejected", "superseded", "revoked", "expired"}
CanTransition(s, to) ==
    \/ s = "candidate" /\ to \in {"active", "rejected", "expired"}
    \/ s = "active" /\ to \in {"superseded", "revoked", "expired"}

\* expires: whether there is an expires_at; elapsed: whether it has passed.
Draft == [slot : Slots \union {NoSlot}, text : Texts, expires : BOOLEAN]
Record == [slot : Slots \union {NoSlot}, text : Texts, expires : BOOLEAN, lineage : Nat, lver : Nat \ {0},
           rver : Nat \ {0}, status : Statuses, supersedes : Nat, supersededBy : Nat,
           elapsed : BOOLEAN]
NoRow == [status |-> "none", attempt |-> 0]
Row == [status : {"none", "pending", "processing", "failed", "completed", "permanent_failed"},
        attempt : Nat]

Ids == 1 .. Len(records)
NextId == Len(records) + 1

\* draftRecord: a candidate of a lineage of its own, first version.
NewRecord(d, id) ==
    [slot |-> d.slot, text |-> d.text, expires |-> d.expires, lineage |-> id, lver |-> 1, rver |-> 1,
     status |-> "candidate", supersedes |-> 0, supersededBy |-> 0, elapsed |-> FALSE]

IsActiveAt(id) == records[id].status = "active" /\ ~records[id].elapsed
Ref(id) == [id |-> id, lver |-> records[id].lver, text |-> records[id].text]

\* FindExact: active rows that match the hash, the slot or the entity of a draft.
FindExact(d) ==
    {id \in Ids : /\ IsActiveAt(id)
                  /\ \/ records[id].text = d.text
                     \/ d.slot # NoSlot /\ records[id].slot = d.slot
                     \/ <<records[id].text, d.text>> \in About}

-----------------------------------------------------------------------------
(* Idempotency: a key names one event; the replay answers with the row the  *)
(* event points at, as it is now.                                           *)

Replays(key, hash) == \E e \in audit : e.key = key /\ e.hash = hash
KeyUsed(key) == \E e \in audit : e.key = key
ReplayedId(key) == (CHOOSE e \in audit : e.key = key).result

EventRow(key, id, old, new, hash, result) ==
    [key |-> key, memory |-> id, old |-> old, new |-> new, hash |-> hash, result |-> result]

\* The generated column active_slot_guard is unique per owner.
SlotFreeFor(id, slot, leaving) ==
    slot = NoSlot \/ \A k \in Ids \ (leaving \union {id}) :
                        ~(records[k].status = "active" /\ records[k].slot = slot)

\* Unique (lineage_id, lineage_version).
LineageVersionFree(l, v) == \A k \in Ids : ~(records[k].lineage = l /\ records[k].lver = v)

BumpVersion == version' = version + 1

Moved(r, to) == [r EXCEPT !.status = to, !.rver = @ + 1]

-----------------------------------------------------------------------------
(* CommitMutation: move the targets, insert the new memory, record it.      *)

TargetPinned(t) ==
    /\ t.id \in Ids
    /\ records[t.id].rver = t.rver
    /\ CanTransition(records[t.id].status, t.to)

CanCommitMutation(new, targets) ==
    /\ \A t \in targets : TargetPinned(t)
    /\ LineageVersionFree(new.lineage, new.lver)
    /\ new.status = "active" => SlotFreeFor(NextId, new.slot, {t.id : t \in targets})

MovedBy(id, targets) ==
    IF \E t \in targets : t.id = id
    THEN LET t == CHOOSE t \in targets : t.id = id
         IN  [Moved(records[id], t.to) EXCEPT
                 !.supersededBy = IF t.to = "superseded" THEN NextId ELSE @]
    ELSE records[id]

CommitMutation(new, targets, key) ==
    /\ ~KeyUsed(key) /\ CanCommitMutation(new, targets)
    /\ records' = Append([id \in Ids |-> MovedBy(id, targets)], new)
    /\ outbox' = Append(outbox, IF new.status = "active" THEN [NoRow EXCEPT !.status = "pending"]
                                ELSE NoRow)
    /\ audit' = audit \union {EventRow(key, NextId, IF targets = {} THEN "none" ELSE "active",
                                       new.status, new.text, NextId)}
    /\ BumpVersion

-----------------------------------------------------------------------------
(* TransitionMemory *)

CanTransitionMemory(id, rver, to) ==
    /\ id \in Ids
    /\ records[id].rver = rver
    /\ CanTransition(records[id].status, to)
    /\ to = "active" => SlotFreeFor(id, records[id].slot, {})

Enqueued(id) == [outbox EXCEPT ![id] = [NoRow EXCEPT !.status = "pending"]]

TransitionMemory(id, rver, to, key) ==
    /\ ~KeyUsed(key) /\ CanTransitionMemory(id, rver, to)
    /\ records' = [records EXCEPT ![id] = Moved(@, to)]
    /\ outbox' = IF to = "active" THEN Enqueued(id) ELSE outbox
    /\ audit' = audit \union {EventRow(key, id, records[id].status, to, records[id].text, id)}
    /\ BumpVersion

-----------------------------------------------------------------------------
(* ActivateCandidateSuperseding: both rows locked, both versions compared.  *)

UnpinnedSupersede(c, cver, t, tver) == \* mutant: versions and lineage are not compared
    /\ c \in Ids /\ t \in Ids
    /\ records[c].status = "candidate" /\ records[t].status = "active"
CanSupersede(c, cver, t, tver) ==
    /\ c \in Ids /\ t \in Ids /\ c # t
    /\ records[c].rver = cver /\ records[t].rver = tver
    /\ records[c].status = "candidate" /\ records[t].status = "active"
    /\ records[c].supersedes = t
    /\ records[c].lineage = records[t].lineage
    /\ records[c].lver > records[t].lver
    /\ SlotFreeFor(c, records[c].slot, {t})

ActivateCandidateSuperseding(c, cver, t, tver, key) ==
    /\ ~KeyUsed(key) /\ CanSupersede(c, cver, t, tver)
    /\ records' = [records EXCEPT ![t] = [Moved(@, "superseded") EXCEPT !.supersededBy = c],
                                  ![c] = Moved(@, "active")]
    /\ outbox' = Enqueued(c)
    /\ audit' = audit \union
          {EventRow(key, c, "candidate", "active", records[c].text, c),
           EventRow(<<key, "target">>, t, "active", "superseded", records[c].text, c)}
    /\ BumpVersion

-----------------------------------------------------------------------------
(* Expire, and time passing a memory's expires_at *)

Due(id) == records[id].status \in {"candidate", "active"} /\ records[id].elapsed

Expire ==
    /\ \E id \in Ids : Due(id)
    /\ records' = [id \in Ids |-> IF Due(id) THEN Moved(records[id], "expired") ELSE records[id]]
    /\ audit' = audit \union
          {EventRow(<<id, "expiry", records[id].rver>>, id, records[id].status, "expired",
                    records[id].text, id) : id \in {k \in Ids : Due(k)}}
    /\ BumpVersion
    /\ UNCHANGED outbox

Elapse(id) ==
    /\ id \in Ids /\ records[id].expires /\ ~records[id].elapsed
    /\ records' = [records EXCEPT ![id].elapsed = TRUE]
    /\ UNCHANGED <<audit, outbox, version>>

-----------------------------------------------------------------------------
InitStore == records = <<>> /\ audit = {} /\ outbox = <<>> /\ version = 0

StoreTypeOK ==
    /\ records \in Seq(Record)
    /\ outbox \in Seq(Row) /\ Len(outbox) = Len(records)
    /\ version \in Nat

\* A fact slot has at most one current value, whoever approves, edits or
\* supersedes at the same time (active_slot_guard and the pinned versions).
OneActivePerSlot ==
    \A i, k \in Ids :
        (/\ records[i].status = "active" /\ records[k].status = "active"
         /\ records[i].slot = records[k].slot /\ records[i].slot # NoSlot) => i = k

\* Replacement is recorded from both ends: a superseded memory names its
\* successor, which names it, belongs to the same lineage with a later version
\* and did become active.
SupersessionIsMutual ==
    \A t \in Ids : records[t].status = "superseded" =>
        LET c == records[t].supersededBy
        IN  /\ c \in Ids
            /\ records[c].supersedes = t
            /\ records[c].lineage = records[t].lineage
            /\ records[c].lver > records[t].lver
            /\ records[c].status \notin {"candidate", "rejected"}

\* Both: what a fact is now, and how it became so.
FactsAreConsistent == OneActivePerSlot /\ SupersessionIsMutual
=============================================================================
