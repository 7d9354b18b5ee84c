------------------------- MODULE DailyReviewProofs -------------------------
(***************************************************************************)
(* Machine-checked proofs about DailyReview, for any requests and memories, *)
(* every time-out and limit and every bound on time, changes and faults.    *)
(*                                                                         *)
(* The log of what the sources were only grows, component by component, so *)
(* a value read twice was there all the time in between.  The invariant     *)
(* says of each request between which states of the log its snapshot lies,  *)
(* of each ready row who committed it and that what it replaced has         *)
(* expired.                                                                 *)
(***************************************************************************)
EXTENDS DailyReview, WellFoundedInduction, TLAPS

-----------------------------------------------------------------------------
(* Types                                                                     *)

Snap == [chat : Nat, more : BOOLEAN, notes : Nat, ver : Nat, first : {"chat", "note"}]
Tokens == {<<>>} \union (Calls \X {1, 2})
Report == [src : Snap, cited : SUBSET Memories, by : Tokens, until : Nat, made : Nat]
CacheRow == [status : {"absent", "generating", "ready", "failed"}, token : Tokens, lease : Nat,
             until : Nat, report : Report]
Request == [now : Nat, round : {1, 2}, from : Nat, snap : Snap, owns : BOOLEAN,
            mems : SUBSET Memories, cited : SUBSET Memories, deadline : Nat, since : Nat,
            outcome : {"none", "failed", "changing", "served"}, report : Report]
Places == {"idle", "snapshot", "wait", "load", "recall", "pinned", "recheck", "done"}
Entry == [src : Snap, active : SUBSET Memories]

TypeOK ==
    /\ clock \in Nat /\ chat \in Nat /\ notes \in Nat /\ ver \in Nat /\ faults \in Nat
    /\ memory \in [Memories -> {"future", "active", "gone"}]
    /\ log \in Seq(Entry) /\ log # <<>>
    /\ DOMAIN rows \subseteq Snap /\ \A k \in DOMAIN rows : rows[k] \in CacheRow
    /\ at \in [Calls -> Places] /\ call \in [Calls -> Request]

-----------------------------------------------------------------------------
(* The sources                                                               *)

\* Every reading in b was made no earlier than the one in a.
Older(a, b) ==
    /\ a.chat <= b.chat /\ (a.more => b.more)
    /\ a.notes <= b.notes /\ a.ver <= b.ver

Plain(s) == [s EXCEPT !.first = NoSnap.first]
Latest == log[Len(log)].src

History ==
    /\ \A i \in 1 .. Len(log) : log[i].src.first = NoSnap.first
    /\ \A i, k \in 1 .. Len(log) : i <= k =>
          /\ Older(log[i].src, log[k].src)
          /\ log[i].src.ver = log[k].src.ver => log[i].active = log[k].active
    /\ log[Len(log)] = [src |-> View(chat, notes, ver), active |-> Active]

-----------------------------------------------------------------------------
(* Requests                                                                  *)

Asked(c) == c.since \in 1 .. Len(log) /\ c.from \in c.since .. Len(log) /\ c.now <= clock

\* From its first snapshot to the second a request knows its sources up to what
\* changed since it read them; at the second, what they were when it began to read.
Fits(s, c) ==
    /\ c.outcome = "served" => s = "done"
    /\ s \notin {"idle", "done"} => Asked(c)
    /\ s \in {"wait", "load", "recall", "pinned"} =>
          Older(log[c.from].src, c.snap) /\ Older(c.snap, Latest)
    /\ s = "snapshot" => c.mems = {} /\ c.cited = {}
    /\ s \in {"pinned", "recheck"} => c.cited \subseteq c.mems
    /\ s = "recheck" =>
          /\ Older(c.snap, log[c.from].src)
          /\ c.mems \subseteq log[c.from].active
          /\ \A m \in c.mems : Expiry[m] > c.now

Requests == \A q \in Calls : Fits(at[q], call[q])

-----------------------------------------------------------------------------
(* The cache                                                                 *)

\* The sources of a report were so at one instant.
Was(i, r) == log[i].src = Plain(r.src) /\ r.cited \subseteq log[i].active

Stands(k, row) ==
    LET r == row.report
    IN  /\ r.src = k /\ row.until = r.until
        /\ \E i \in 1 .. Len(log) : Was(i, r)
        /\ \A m \in r.cited : r.until <= Expiry[m]
        /\ \E q \in Served : call[q].report = r

Cache == \A k \in DOMAIN rows : rows[k].status = "ready" => Stands(k, rows[k])

InCache(r) ==
    /\ r.src \in DOMAIN rows
    /\ rows[r.src].status = "ready" /\ rows[r.src].report = r

\* A report is in the cache until it has expired.
Kept(r) == r.made <= clock /\ (InCache(r) \/ r.until <= clock)

Current(c) ==
    /\ \E i \in c.since .. Len(log) : Was(i, c.report)
    /\ \A m \in c.report.cited : Expiry[m] > c.now

Disjoint(r, s) == r.src = s.src /\ r # s => r.until <= s.made \/ s.until <= r.made

Results ==
    /\ \A q \in Served : Kept(call[q].report) /\ call[q].since \in Nat \ {0} /\ Current(call[q])
    /\ \A p, q \in Served : Disjoint(call[p].report, call[q].report)

Inv == TypeOK /\ History /\ Requests /\ Cache /\ Results

-----------------------------------------------------------------------------
(* Operators                                                                 *)

\* A set of times has an earliest.
LEMMA Earliest ==
    ASSUME NEW S \in SUBSET Nat, S # {}
    PROVE  \E t \in S : \A u \in S : t <= u
<1> DEFINE Less == {ss \in Nat \X Nat : ss[1] < ss[2]}
<1>1. IsWellFoundedOn(Less, Nat)
  BY NatLessThanWellFounded, Zenon DEF OpToRel
<1> HIDE DEF Less
<1>2. PICK t \in S : \A u \in S : ~(<<u, t>> \in Less)
  BY <1>1, WFMin, Zenon
<1>3. \A u \in S : ~(u < t)
  BY <1>2 DEF Less
<1> QED
  BY <1>3

\* A report is valid no longer than the memories it was made with.
LEMMA ValidUntil ==
    ASSUME NEW now \in Nat, NEW mems \in SUBSET Memories
    PROVE  /\ ComputeValidUntil(now, mems) \in Nat
           /\ \A m \in mems : ComputeValidUntil(now, mems) <= Expiry[m]
<1> DEFINE S == {now + TTL} \union {Expiry[m] : m \in mems}
<1>1. S \in SUBSET Nat /\ S # {} /\ \A m \in mems : Expiry[m] \in S
  BY ReviewAssumption DEF ReviewAssumption
<1>2. ComputeValidUntil(now, mems) = CHOOSE t \in S : \A u \in S : t <= u
  BY DEF ComputeValidUntil
<1> HIDE DEF S
<1>3. \E t \in S : \A u \in S : t <= u
  BY <1>1, Earliest
<1>4. ComputeValidUntil(now, mems) \in S /\ \A u \in S : ComputeValidUntil(now, mems) <= u
  BY <1>2, <1>3, Zenon
<1> QED
  BY <1>1, <1>4

LEMMA Older2 ==
    /\ \A a \in Snap : Older(a, a)
    /\ \A a, b, c \in Snap : Older(a, b) /\ Older(b, c) => Older(a, c)
    /\ \A a, b \in Snap :
          Older(a, b) /\ Older(b, a) /\ a.first = NoSnap.first => a = Plain(b) /\ a.ver = b.ver
    /\ \A a, b \in Snap : Plain(a) \in Snap /\ (Older(Plain(a), b) <=> Older(a, b))
<1>1. /\ \A a \in Snap : Older(a, a)
      /\ \A a, b, c \in Snap : Older(a, b) /\ Older(b, c) => Older(a, c)
  BY DEF Older, Snap
<1>2. ASSUME NEW a \in Snap, NEW b \in Snap, Older(a, b), Older(b, a), a.first = NoSnap.first
      PROVE  a = Plain(b) /\ a.ver = b.ver
  BY <1>2 DEF Older, Snap, Plain
<1>3. \A a, b \in Snap : Plain(a) \in Snap /\ (Older(Plain(a), b) <=> Older(a, b))
  BY DEF Older, Snap, Plain, NoSnap
<1> QED
  BY <1>1, <1>2, <1>3

LEMMA ViewFields ==
    ASSUME NEW c \in Nat, NEW n \in Nat, NEW v \in Nat
    PROVE  /\ View(c, n, v) \in Snap /\ View(c, n, v).first = NoSnap.first
           /\ View(c, n, v).chat = (IF c > ChatLimit THEN ChatLimit ELSE c)
           /\ (View(c, n, v).more <=> c > ChatLimit)
           /\ View(c, n, v).notes = n /\ View(c, n, v).ver = v
<1>1. ChatLimit \in Nat
  BY ReviewAssumption DEF ReviewAssumption
<1>3. NoSnap \in Snap /\ NoSnap.first = "chat"
  BY DEF NoSnap, Snap
<1> HIDE DEF NoSnap
<1>4. CASE c > ChatLimit
  <2>1. View(c, n, v) = [NoSnap EXCEPT !.chat = ChatLimit, !.more = TRUE, !.notes = n, !.ver = v]
    BY <1>4, Zenon DEF View
  <2>2. View(c, n, v) \in Snap /\ View(c, n, v).first = "chat" /\ View(c, n, v).chat = ChatLimit
        /\ View(c, n, v).more /\ View(c, n, v).notes = n /\ View(c, n, v).ver = v
    BY <1>1, <1>3, <2>1 DEF Snap
  <2> QED
    BY <1>3, <1>4, <2>2
<1>5. CASE ~(c > ChatLimit)
  <2>1. (c > ChatLimit) = FALSE
    BY <1>5
  <2>2. View(c, n, v) = [NoSnap EXCEPT !.chat = c, !.more = FALSE, !.notes = n, !.ver = v]
    BY <2>1, Zenon DEF View
  <2>3. View(c, n, v) \in Snap /\ View(c, n, v).first = "chat" /\ View(c, n, v).chat = c
        /\ ~View(c, n, v).more /\ View(c, n, v).notes = n /\ View(c, n, v).ver = v
    BY <1>3, <2>2 DEF Snap
  <2> QED
    BY <1>3, <1>5, <2>3
<1> QED
  BY <1>4, <1>5

LEMMA Views ==
    ASSUME NEW c \in Nat, NEW n \in Nat, NEW v \in Nat,
           NEW d \in Nat, NEW o \in Nat, NEW w \in Nat, c <= d, n <= o, v <= w
    PROVE  Older(View(c, n, v), View(d, o, w))
<1>1. ChatLimit \in Nat
  BY ReviewAssumption DEF ReviewAssumption
<1>2. /\ View(c, n, v).chat = (IF c > ChatLimit THEN ChatLimit ELSE c)
      /\ (View(c, n, v).more <=> c > ChatLimit)
      /\ View(c, n, v).notes = n /\ View(c, n, v).ver = v
  BY ViewFields
<1>3. /\ View(d, o, w).chat = (IF d > ChatLimit THEN ChatLimit ELSE d)
      /\ (View(d, o, w).more <=> d > ChatLimit)
      /\ View(d, o, w).notes = o /\ View(d, o, w).ver = w
  BY ViewFields
<1> QED
  BY <1>1, <1>2, <1>3 DEF Older

LEMMA Nothing ==
    /\ NoSnap \in Snap /\ NoReport \in Report /\ NoRow \in CacheRow /\ NoCall \in Request
<1>1. NoSnap \in Snap
  BY DEF NoSnap, Snap
<1>2. NoReport \in Report
  BY <1>1 DEF NoReport, Report, Tokens
<1>3. NoRow \in CacheRow
  BY <1>2 DEF NoRow, CacheRow, Tokens
<1>4. NoCall \in Request
  BY <1>1, <1>2 DEF NoCall, Request
<1> QED
  BY <1>1, <1>2, <1>3, <1>4

LEMMA EntryTyped ==
    ASSUME TypeOK
    PROVE  /\ Len(log) \in Nat \ {0} /\ Latest \in Snap
           /\ \A i \in 1 .. Len(log) : log[i].src \in Snap /\ log[i].active \in SUBSET Memories
<1>1. log \in Seq(Entry) /\ log # <<>>
  BY DEF TypeOK
<1>2. Len(log) \in Nat \ {0} /\ Len(log) \in 1 .. Len(log) /\ \A i \in 1 .. Len(log) : log[i] \in Entry
  BY <1>1
<1> QED
  BY <1>2 DEF Entry, Latest

\* A snapshot lies between what the sources were when it was begun and what they are.
LEMMA SnapshotLies ==
    ASSUME TypeOK, History, NEW q \in Calls, call[q].from \in 1 .. Len(log),
           NEW snap \in Snapshots(q)
    PROVE  snap \in Snap /\ Older(log[call[q].from].src, snap) /\ Older(snap, Latest)
<1> DEFINE seen == {log[i].src : i \in call[q].from .. Len(log)}
<1>1. \A x \in seen : x \in Snap /\ Older(log[call[q].from].src, x) /\ Older(x, Latest)
  <2>1. ASSUME NEW i \in call[q].from .. Len(log)
        PROVE  log[i].src \in Snap /\ Older(log[call[q].from].src, log[i].src)
               /\ Older(log[i].src, Latest)
    <3>1. i \in 1 .. Len(log) /\ Len(log) \in 1 .. Len(log) /\ call[q].from <= i /\ i <= Len(log)
      BY EntryTyped
    <3> QED
      BY <3>1, EntryTyped DEF History, Latest
  <2> QED
    BY <2>1
<1>2. Snapshots(q) = UNION {Digests(Joined(t[1], t[2], t[3])) : t \in seen \X seen \X seen}
  BY DEF Snapshots
<1> HIDE DEF seen
<1>3. PICK t \in seen \X seen \X seen : snap \in Digests(Joined(t[1], t[2], t[3]))
  BY <1>2
<1>4. PICK c \in seen, n \in seen, v \in seen : snap \in Digests(Joined(c, n, v))
  BY <1>3
<1>5. c \in Snap /\ n \in Snap /\ v \in Snap
  BY <1>1
<1>6. PICK f \in {"chat", "note"} : snap = [Joined(c, n, v) EXCEPT !.first = f]
  BY <1>4 DEF Digests, Orders
<1>7. snap \in Snap /\ snap.chat = c.chat /\ snap.more = c.more /\ snap.notes = n.notes
      /\ snap.ver = v.ver
  BY <1>5, <1>6 DEF Snap, Joined
<1> QED
  BY <1>1, <1>7 DEF Older

-----------------------------------------------------------------------------
(* The sources change                                                        *)

LEMMA Changed ==
    ASSUME Inv, chat' \in Nat, notes' \in Nat, ver' \in Nat,
           memory' \in [Memories -> {"future", "active", "gone"}],
           chat <= chat', notes <= notes', ver <= ver', ver' = ver => memory' = memory,
           Record, UNCHANGED <<clock, rows, at, call, faults>>
    PROVE  Inv'
<1> DEFINE e == [src |-> View(chat', notes', ver'), active |-> Active']
<1>1. log' = Append(log, e)
  BY DEF Record, Active
<1>2. e \in Entry /\ e.src = View(chat', notes', ver') /\ e.active = Active'
      /\ e.src.first = NoSnap.first /\ e.src.ver = ver'
  BY ViewFields DEF Entry, Active
<1> HIDE DEF e
<1>3. log \in Seq(Entry) /\ Len(log) \in Nat \ {0}
  BY EntryTyped DEF Inv, TypeOK
<1>4. /\ log' \in Seq(Entry) /\ Len(log') = Len(log) + 1 /\ log' # <<>>
      /\ \A i \in 1 .. Len(log) : log'[i] = log[i]
      /\ log'[Len(log) + 1] = e
  BY <1>1, <1>2, <1>3
<1>5. TypeOK'
  BY <1>4 DEF Inv, TypeOK
<1>6. Latest = View(chat, notes, ver) /\ Latest' = e.src /\ Latest.ver = ver
      /\ log[Len(log)].active = Active
  <2>1. Latest = View(chat, notes, ver) /\ log[Len(log)].active = Active
    BY DEF Inv, History, Latest
  <2>2. chat \in Nat /\ notes \in Nat /\ ver \in Nat
    BY DEF Inv, TypeOK
  <2>3. View(chat, notes, ver).ver = ver
    BY <2>2, ViewFields
  <2>4. Latest' = e.src
    BY <1>4 DEF Latest
  <2> QED
    BY <2>1, <2>3, <2>4
<1>7. Older(Latest, e.src)
  <2>1. chat \in Nat /\ notes \in Nat /\ ver \in Nat
    BY DEF Inv, TypeOK
  <2>2. Older(View(chat, notes, ver), View(chat', notes', ver'))
    BY <2>1, Views
  <2> QED
    BY <1>2, <1>6, <2>2
<1>8. Latest.ver = e.src.ver => log[Len(log)].active = e.active
  BY <1>2, <1>6 DEF Active
<1>9. e.src \in Snap /\ Older(e.src, e.src)
  BY <1>2, Older2 DEF Entry
<1>10. History'
  <2>1. ASSUME NEW i \in 1 .. Len(log')
        PROVE  log'[i].src.first = NoSnap.first
    BY <1>2, <1>3, <1>4 DEF Inv, History
  <2>2. ASSUME NEW i \in 1 .. Len(log)
        PROVE  /\ Older(log[i].src, e.src)
               /\ log[i].src.ver = e.src.ver => log[i].active = e.active
    <3>1. i <= Len(log) /\ Len(log) \in 1 .. Len(log)
      BY <1>3
    <3>2. /\ Older(log[i].src, Latest)
          /\ log[i].src.ver = Latest.ver => log[i].active = log[Len(log)].active
      BY <3>1 DEF Inv, History, Latest
    <3>3. log[i].src \in Snap /\ Latest \in Snap
      BY EntryTyped DEF Inv
    <3>4. Older(log[i].src, e.src)
      BY <1>7, <1>9, <3>2, <3>3, Older2
    <3>5. log[i].src.ver = e.src.ver => log[i].src.ver = Latest.ver
      BY <1>7, <1>9, <3>2, <3>3 DEF Older, Snap
    <3> QED
      BY <1>8, <3>2, <3>4, <3>5
  <2>3. ASSUME NEW i \in 1 .. Len(log'), NEW k \in 1 .. Len(log'), i <= k
        PROVE  /\ Older(log'[i].src, log'[k].src)
               /\ log'[i].src.ver = log'[k].src.ver => log'[i].active = log'[k].active
    <3>1. CASE k \in 1 .. Len(log)
      <4>1. i \in 1 .. Len(log)
        BY <1>3, <2>3, <3>1
      <4> QED
        BY <1>4, <2>3, <3>1, <4>1 DEF Inv, History
    <3>2. CASE k = Len(log) + 1 /\ i \in 1 .. Len(log)
      BY <1>4, <2>2, <3>2
    <3>3. CASE k = Len(log) + 1 /\ i = Len(log) + 1
      BY <1>4, <1>9, <3>3
    <3> QED
      BY <1>3, <1>4, <3>1, <3>2, <3>3
  <2>4. log'[Len(log')] = [src |-> View(chat', notes', ver'), active |-> Active']
    BY <1>4 DEF e
  <2> QED
    BY <2>1, <2>3, <2>4 DEF History
<1>11. Requests'
  <2>1. ASSUME NEW q \in Calls
        PROVE  Fits(at[q], call[q])'
    <3>1. Fits(at[q], call[q]) /\ call[q].snap \in Snap /\ Latest \in Snap
      BY EntryTyped DEF Inv, Requests, TypeOK, Request
    <3>2. Asked(call[q]) => /\ Asked(call[q])'
                            /\ call[q].from \in 1 .. Len(log)
                            /\ log'[call[q].from] = log[call[q].from]
      BY <1>3, <1>4 DEF Asked
    <3>3. Older(call[q].snap, Latest) => Older(call[q].snap, Latest)'
      BY <1>6, <1>7, <1>9, <3>1, Older2 DEF Older
    <3>4. at'[q] = at[q] /\ call'[q] = call[q]
      OBVIOUS
    <3> QED
      BY <3>1, <3>2, <3>3, <3>4 DEF Fits, Older
  <2> QED
    BY <2>1 DEF Requests
<1>12. \A i \in 1 .. Len(log) : \A r : Was(i, r) => i \in 1 .. Len(log') /\ Was(i, r)'
  BY <1>3, <1>4 DEF Was, Plain
<1>13. Cache'
  <2>1. ASSUME NEW k \in DOMAIN rows, rows[k].status = "ready"
        PROVE  Stands(k, rows[k])'
    <3>1. Stands(k, rows[k])
      BY <2>1 DEF Inv, Cache
    <3>2. PICK i \in 1 .. Len(log) : Was(i, rows[k].report)
      BY <3>1 DEF Stands
    <3>3. i \in 1 .. Len(log') /\ Was(i, rows[k].report)'
      BY <1>12, <3>2 DEF Was
    <3> QED
      BY <3>1, <3>3 DEF Stands, Served
  <2> QED
    BY <2>1 DEF Cache
<1>14. Results'
  <2>1. ASSUME NEW q \in Served
        PROVE  Kept(call[q].report)' /\ Current(call[q])'
    <3>1. Kept(call[q].report) /\ call[q].since \in Nat \ {0} /\ Current(call[q])
      BY DEF Inv, Results
    <3>2. PICK i \in call[q].since .. Len(log) : Was(i, call[q].report)
      BY <3>1 DEF Current
    <3>3. i \in 1 .. Len(log) /\ i \in call[q].since .. Len(log')
      BY <1>3, <1>4, <3>1
    <3>4. Was(i, call[q].report)'
      BY <1>12, <3>2, <3>3 DEF Was
    <3> QED
      BY <3>1, <3>3, <3>4 DEF Kept, InCache, Current
  <2>2. Served' = Served /\ call' = call
    BY DEF Served
  <2> QED
    BY <2>1, <2>2 DEF Inv, Results, Disjoint
<1> QED
  BY <1>5, <1>10, <1>11, <1>13, <1>14 DEF Inv

-----------------------------------------------------------------------------
(* A request goes on                                                         *)

LEMMA Went ==
    ASSUME Inv, NEW q \in Calls, at[q] # "done", NEW s \in Places, NEW c \in Request,
           GoTo(q, s, c), UNCHANGED <<clock, sources>>, Fits(s, c)
    PROVE  /\ at' \in [Calls -> Places] /\ call' \in [Calls -> Request]
           /\ History' /\ Requests'
           /\ q \notin Served /\ call'[q] = c
           /\ \A p \in Served : p \in Served' /\ call'[p] = call[p]
           /\ \A p \in Served' : p \in Served \/ (p = q /\ c.outcome = "served")
<1>1. at \in [Calls -> Places] /\ call \in [Calls -> Request]
  BY DEF Inv, TypeOK
<1>2. /\ at' \in [Calls -> Places] /\ call' \in [Calls -> Request]
      /\ at'[q] = s /\ call'[q] = c
      /\ \A p \in Calls : p # q => at'[p] = at[p] /\ call'[p] = call[p]
  BY <1>1 DEF GoTo
<1>3. q \notin Served
  BY DEF Inv, Requests, Fits, Served
<1>4. /\ \A p \in Served : p \in Served' /\ call'[p] = call[p]
      /\ \A p \in Served' : p \in Served \/ (p = q /\ c.outcome = "served")
  BY <1>2, <1>3 DEF Served
<1>5. History'
  BY DEF Inv, History, sources, Active, Older, View
<1>6. Requests'
  <2>1. ASSUME NEW p \in Calls, NEW t, NEW d, Fits(t, d)
        PROVE  Fits(t, d)'
    BY <2>1 DEF Fits, Asked, Older, Latest, sources
  <2>2. ASSUME NEW p \in Calls
        PROVE  Fits(at[p], call[p])'
    <3>1. CASE p = q
      <4>1. at'[p] = s /\ call'[p] = c
        BY <1>2, <3>1
      <4> QED
        BY <4>1 DEF Fits, Asked, Older, Latest, sources
    <3>2. CASE p # q
      <4>1. at'[p] = at[p] /\ call'[p] = call[p] /\ Fits(at[p], call[p])
        BY <1>2, <3>2 DEF Inv, Requests
      <4> QED
        BY <4>1 DEF Fits, Asked, Older, Latest, sources
    <3> QED
      BY <3>1, <3>2
  <2> QED
    BY <2>2 DEF Requests
<1> QED
  BY <1>2, <1>3, <1>4, <1>5, <1>6

\* A row is taken only when what it held has expired.
LEMMA Moving ==
    ASSUME Inv, NEW q \in Calls, at[q] # "done", NEW s \in Places, NEW c \in Request,
           GoTo(q, s, c), UNCHANGED <<clock, sources>>, faults' \in Nat, Fits(s, c),
           c.outcome # "served",
           \/ UNCHANGED rows
           \/ \E k \in Snap, row \in CacheRow :
                 /\ PutRow(k, row) /\ row.status # "ready"
                 /\ RowOf(k).status = "ready" => RowOf(k).until <= clock
    PROVE  Inv'
<1>1. /\ at' \in [Calls -> Places] /\ call' \in [Calls -> Request]
      /\ History' /\ Requests'
      /\ Served' = Served
      /\ \A p \in Served : call'[p] = call[p]
  <2>1. \A p \in Served' : p \in Served
    BY Went, Zenon
  <2>2. \A p \in Served : p \in Served'
    BY Went, Zenon
  <2> QED
    BY <2>1, <2>2, Went
<1>2. ASSUME NEW k \in DOMAIN rows', rows'[k].status = "ready"
      PROVE  k \in DOMAIN rows /\ rows'[k] = rows[k]
  BY <1>2 DEF PutRow
<1>3. ASSUME NEW r \in Report, Kept(r), (r.src \in DOMAIN rows /\ rows[r.src].status = "ready"
                => rows[r.src].until = rows[r.src].report.until)
      PROVE  Kept(r)'
  <2>1. CASE UNCHANGED rows
    BY <1>3, <2>1 DEF Kept, InCache
  <2>2. CASE ~UNCHANGED rows
    <3>1. PICK k \in Snap, row \in CacheRow :
             /\ PutRow(k, row) /\ row.status # "ready"
             /\ RowOf(k).status = "ready" => RowOf(k).until <= clock
      BY <2>2
    <3>2. CASE r.src = k /\ InCache(r)
      <4>1. r.until <= clock
        BY <1>3, <3>1, <3>2 DEF InCache, RowOf
      <4> QED
        BY <1>3, <4>1 DEF Kept
    <3>3. CASE r.src # k /\ InCache(r)
      BY <1>3, <3>1, <3>3 DEF Kept, InCache, PutRow
    <3>4. CASE ~InCache(r)
      BY <1>3, <3>4 DEF Kept
    <3> QED
      BY <3>2, <3>3, <3>4
  <2> QED
    BY <2>1, <2>2
<1>4. DOMAIN rows' \subseteq Snap /\ \A k \in DOMAIN rows' : rows'[k] \in CacheRow
  <2>1. DOMAIN rows \subseteq Snap /\ \A k \in DOMAIN rows : rows[k] \in CacheRow
    BY DEF Inv, TypeOK
  <2> QED
    BY <2>1 DEF PutRow
<1>5. TypeOK'
  BY <1>1, <1>4 DEF Inv, TypeOK, sources
<1>6. Cache'
  <2>1. ASSUME NEW k \in DOMAIN rows', rows'[k].status = "ready"
        PROVE  Stands(k, rows[k])'
    <3>1. k \in DOMAIN rows /\ rows'[k] = rows[k] /\ Stands(k, rows[k])
      BY <1>2, <2>1 DEF Inv, Cache
    <3>2. PICK p \in Served : call[p].report = rows[k].report
      BY <3>1 DEF Stands
    <3>3. p \in Served' /\ call'[p].report = rows[k].report
      BY <1>1, <3>2
    <3> QED
      BY <3>1, <3>3 DEF Stands, Was, Plain, sources
  <2> QED
    BY <2>1 DEF Cache
<1>7. Results'
  <2>1. ASSUME NEW p \in Served
        PROVE  Kept(call[p].report)' /\ Current(call[p])'
    <3>1. Kept(call[p].report) /\ Current(call[p]) /\ call[p].report \in Report
      BY DEF Inv, Results, TypeOK, Request, Served
    <3>2. call[p].report.src \in DOMAIN rows /\ rows[call[p].report.src].status = "ready"
                => rows[call[p].report.src].until = rows[call[p].report.src].report.until
      BY DEF Inv, Cache, Stands
    <3>3. Kept(call[p].report) /\ call[p].report \in Report
          => (Kept(call[p].report))'
      <4>1. call'[p] = call[p]
        BY <1>1
      <4> DEFINE r == call[p].report
      <4>2. r' = r
        BY <4>1
      <4> QED
        BY <1>3, <3>1, <3>2, <4>1 DEF Kept, InCache
    <3>4. Current(call[p])'
      <4>1. call'[p] = call[p]
        BY <1>1
      <4> QED
        BY <3>1, <4>1 DEF Current, Was, Plain, sources
    <3> QED
      BY <3>1, <3>3, <3>4
  <2>2. ASSUME NEW p \in Served'
        PROVE  p \in Served /\ call'[p] = call[p] /\ call[p].since \in Nat \ {0}
    BY <1>1 DEF Inv, Results
  <2>3. \A p, r \in Served : Disjoint(call[p].report, call[r].report)
    BY DEF Inv, Results
  <2>4. \A p, r \in Served' : Disjoint(call'[p].report, call'[r].report)
    BY <2>2, <2>3, Zenon
  <2> QED
    BY <1>1, <2>1, <2>2, <2>4 DEF Results, Disjoint
<1> QED
  BY <1>1, <1>5, <1>6, <1>7 DEF Inv

\* A request is served what is in the cache.
LEMMA Serving ==
    ASSUME Inv, NEW q \in Calls, at[q] # "done", NEW c \in Request, NEW k \in Snap,
           GoTo(q, "done", c), UNCHANGED <<clock, sources>>, UNCHANGED <<rows, faults>>,
           c.outcome = "served",
           RowOf(k).status = "ready", c.report = RowOf(k).report,
           c.since \in 1 .. Len(log), c.now <= clock,
           NEW from \in c.since .. Len(log), Older(log[from].src, k), Older(k, Latest),
           c.now < RowOf(k).until
    PROVE  Inv'
<1>1. k \in DOMAIN rows /\ rows[k].status = "ready" /\ RowOf(k) = rows[k] /\ c.report = rows[k].report
  BY DEF RowOf, NoRow
<1> DEFINE r == c.report
<1>2. Stands(k, rows[k]) /\ r \in Report
  BY <1>1 DEF Inv, Cache, Request
<1>3. PICK p \in Served : call[p].report = r
  BY <1>1, <1>2 DEF Stands
<1>4. Kept(r)
  BY <1>3 DEF Inv, Results
<1>5. r.src = k /\ r.until = rows[k].until /\ r.until \in Nat
      /\ \A m \in r.cited : r.until <= Expiry[m]
  BY <1>1, <1>2 DEF Stands, Report
<1>6. \A m \in r.cited : Expiry[m] > c.now
  <2>1. ASSUME NEW m \in r.cited
        PROVE  Expiry[m] > c.now
    <3>1. Expiry[m] \in Nat /\ c.now \in Nat
      BY <1>2, ReviewAssumption DEF Request, Report, ReviewAssumption
    <3> QED
      BY <1>1, <1>5, <3>1
  <2> QED
    BY <2>1
<1>7. \E i \in c.since .. Len(log) : Was(i, r)
  <2>1. PICK i \in 1 .. Len(log) : Was(i, r)
    BY <1>1, <1>2 DEF Stands
  <2>2. CASE i \in c.since .. Len(log)
    BY <2>1, <2>2
  <2>3. CASE i < c.since
    <3>1. c.since \in 1 .. Len(log) /\ from \in 1 .. Len(log) /\ c.since <= from
      BY EntryTyped DEF Inv
    <3>2. log[i].src = Plain(k) /\ log[i].src \in Snap /\ log[c.since].src \in Snap
          /\ log[from].src \in Snap
      BY <1>5, <2>1, <3>1, EntryTyped DEF Was, Inv
    <3>3. Older(log[i].src, log[c.since].src) /\ Older(log[c.since].src, log[from].src)
      BY <2>3, <3>1 DEF Inv, History
    <3>4. Older(k, log[c.since].src)
      BY <3>2, <3>3, Older2
    <3>5. Older(log[c.since].src, k)
      BY <3>2, <3>3, Older2
    <3>6. log[c.since].src.first = NoSnap.first
      BY <3>1 DEF Inv, History
    <3>7. log[c.since].src = Plain(k)
      BY <3>2, <3>4, <3>5, <3>6, Older2
    <3>8. log[c.since].active = log[i].active
      BY <2>3, <3>1, <3>2, <3>7 DEF Inv, History
    <3>9. Was(c.since, r)
      BY <1>5, <2>1, <3>7, <3>8 DEF Was
    <3>10. c.since \in c.since .. Len(log)
      BY <3>1
    <3> QED
      BY <3>9, <3>10
  <2> QED
    BY <2>1, <2>2, <2>3, EntryTyped DEF Inv
<1>8. Fits("done", c) /\ "done" \in Places
  BY DEF Fits, Places
<1>9. /\ at' \in [Calls -> Places] /\ call' \in [Calls -> Request]
      /\ History' /\ Requests' /\ call'[q] = c
      /\ \A p1 \in Served : p1 \in Served' /\ call'[p1] = call[p1]
      /\ \A p1 \in Served' : p1 \in Served \/ p1 = q
  BY <1>8, Went, Zenon
<1>10. TypeOK'
  BY <1>9 DEF Inv, TypeOK, sources
<1>11. Cache'
  <2>1. ASSUME NEW j \in DOMAIN rows, rows[j].status = "ready"
        PROVE  Stands(j, rows[j])'
    <3>1. Stands(j, rows[j])
      BY <2>1 DEF Inv, Cache
    <3>2. PICK p1 \in Served : call[p1].report = rows[j].report
      BY <3>1 DEF Stands
    <3>3. p1 \in Served' /\ call'[p1].report = rows[j].report
      BY <1>9, <3>2
    <3> QED
      BY <3>1, <3>3 DEF Stands, Was, Plain, sources
  <2> QED
    BY <2>1 DEF Cache
<1>12. Results'
  <2>1. \A p1 \in Served' : \E p2 \in Served : call'[p1].report = call[p2].report
    BY <1>3, <1>9
  <2>2. \A p1, p2 \in Served : Disjoint(call[p1].report, call[p2].report)
    BY DEF Inv, Results
  <2>3. \A p1, p2 \in Served' : Disjoint(call'[p1].report, call'[p2].report)
    BY <2>1, <2>2, Zenon
  <2>4. ASSUME NEW p1 \in Served'
        PROVE  Kept(call[p1].report)' /\ call'[p1].since \in Nat \ {0} /\ Current(call[p1])'
    <3>1. CASE p1 = q
      <4>1. call'[p1] = c
        BY <1>9, <3>1
      <4> QED
        BY <1>4, <1>6, <1>7, <4>1 DEF Kept, InCache, Current, Was, Plain, sources
    <3>2. CASE p1 \in Served
      <4>1. call'[p1] = call[p1] /\ Kept(call[p1].report) /\ call[p1].since \in Nat \ {0}
            /\ Current(call[p1])
        BY <1>9, <3>2 DEF Inv, Results
      <4> QED
        BY <4>1 DEF Kept, InCache, Current, Was, Plain, sources
    <3> QED
      BY <1>9, <3>1, <3>2
  <2> QED
    BY <2>3, <2>4 DEF Results, Disjoint
<1> QED
  BY <1>9, <1>10, <1>11, <1>12 DEF Inv

\* A request commits its own report.
LEMMA Committing ==
    ASSUME Inv, NEW q \in Calls, at[q] # "done", NEW c \in Request, NEW k \in Snap,
           NEW row \in CacheRow,
           GoTo(q, "done", c), PutRow(k, row), UNCHANGED <<clock, sources>>, UNCHANGED faults,
           c.outcome = "served", RowOf(k).status # "ready",
           row.status = "ready", row.report = c.report, row.until = c.report.until,
           c.report.src = k, c.report.made = clock,
           \A m \in c.report.cited : c.report.until <= Expiry[m],
           \A m \in c.report.cited : Expiry[m] > c.now,
           c.since \in 1 .. Len(log),
           NEW i \in c.since .. Len(log), Was(i, c.report)
    PROVE  Inv'
<1> DEFINE r == c.report
<1>1. r \in Report
  BY DEF Request
<1>2. Fits("done", c) /\ "done" \in Places
  BY DEF Fits, Places
<1>3. /\ at' \in [Calls -> Places] /\ call' \in [Calls -> Request]
      /\ History' /\ Requests' /\ call'[q] = c
      /\ \A p \in Served : p \in Served' /\ call'[p] = call[p]
      /\ \A p \in Served' : p \in Served \/ p = q
  BY <1>2, Went
<1>4. q \in Served'
  BY <1>3 DEF Served
<1>5. /\ rows'[k] = row /\ k \in DOMAIN rows'
      /\ \A j \in DOMAIN rows' : j # k => j \in DOMAIN rows /\ rows'[j] = rows[j]
      /\ DOMAIN rows \subseteq DOMAIN rows' /\ DOMAIN rows' \subseteq DOMAIN rows \union {k}
  BY DEF PutRow
<1>6. TypeOK'
  <2>1. DOMAIN rows' \subseteq Snap /\ \A j \in DOMAIN rows' : rows'[j] \in CacheRow
    BY <1>5 DEF Inv, TypeOK
  <2> QED
    BY <1>3, <2>1 DEF Inv, TypeOK, sources
<1>7. i \in 1 .. Len(log) /\ Was(i, r)
  BY EntryTyped DEF Inv
<1>8. Cache'
  <2>1. ASSUME NEW j \in DOMAIN rows', rows'[j].status = "ready"
        PROVE  Stands(j, rows[j])'
    <3>1. CASE j = k
      <4>1. rows'[j] = row /\ call'[q].report = r /\ q \in Served'
        BY <1>3, <1>4, <1>5, <3>1
      <4> QED
        BY <1>7, <3>1, <4>1 DEF Stands, Was, Plain, sources
    <3>2. CASE j # k
      <4>1. j \in DOMAIN rows /\ rows'[j] = rows[j] /\ Stands(j, rows[j])
        BY <1>5, <2>1, <3>2 DEF Inv, Cache
      <4>2. PICK p \in Served : call[p].report = rows[j].report
        BY <4>1 DEF Stands
      <4>3. p \in Served' /\ call'[p].report = rows[j].report
        BY <1>3, <4>2
      <4> QED
        BY <4>1, <4>3 DEF Stands, Was, Plain, sources
    <3> QED
      BY <3>1, <3>2
  <2> QED
    BY <2>1 DEF Cache
<1>9. \A p \in Served : Kept(call[p].report) /\ call[p].report \in Report
      /\ (call[p].report.src = k => call[p].report.until <= clock)
  <2>1. ASSUME NEW p \in Served
        PROVE  Kept(call[p].report) /\ call[p].report \in Report
               /\ (call[p].report.src = k => call[p].report.until <= clock)
    <3>1. Kept(call[p].report) /\ call[p].report \in Report
      BY DEF Inv, Results, TypeOK, Request, Served
    <3>2. call[p].report.src = k => ~InCache(call[p].report)
      BY DEF InCache, RowOf
    <3> QED
      BY <3>1, <3>2 DEF Kept
  <2> QED
    BY <2>1
<1>10. Results'
  <2>1. ASSUME NEW p \in Served
        PROVE  Kept(call[p].report)' /\ call'[p].since \in Nat \ {0} /\ Current(call[p])'
    <3>1. call'[p] = call[p] /\ Kept(call[p].report) /\ call[p].since \in Nat \ {0}
          /\ Current(call[p])
      BY <1>3 DEF Inv, Results
    <3>2. Current(call[p])'
      BY <3>1 DEF Current, Was, Plain, sources
    <3>3. CASE call[p].report.src = k
      BY <1>9, <3>1, <3>2, <3>3 DEF Kept
    <3>4. CASE call[p].report.src # k
      BY <1>5, <3>1, <3>2, <3>4 DEF Kept, InCache
    <3> QED
      BY <3>1, <3>2, <3>3, <3>4
  <2>2. Kept(call[q].report)' /\ call'[q].since \in Nat \ {0} /\ Current(call[q])'
    <3>1. clock \in Nat
      BY DEF Inv, TypeOK
    <3> QED
      BY <1>3, <1>5, <3>1 DEF Kept, InCache, Current, Was, Plain, sources
  <2>3. ASSUME NEW p1 \in Served', NEW p2 \in Served'
        PROVE  Disjoint(call'[p1].report, call'[p2].report)
    <3>1. CASE p1 \in Served /\ p2 \in Served
      <4>1. call'[p1] = call[p1] /\ call'[p2] = call[p2]
        BY <1>3, <3>1
      <4> QED
        BY <3>1, <4>1 DEF Inv, Results
    <3>2. CASE p1 = q /\ p2 = q
      BY <3>2 DEF Disjoint
    <3>3. CASE p1 = q /\ p2 \in Served
      <4>1. call'[p1] = c /\ call'[p2] = call[p2]
        BY <1>3, <3>3
      <4> QED
        BY <1>9, <3>3, <4>1 DEF Disjoint
    <3>4. CASE p1 \in Served /\ p2 = q
      <4>1. call'[p2] = c /\ call'[p1] = call[p1]
        BY <1>3, <3>4
      <4> QED
        BY <1>9, <3>4, <4>1 DEF Disjoint
    <3> QED
      BY <1>3, <3>1, <3>2, <3>3, <3>4
  <2>4. ASSUME NEW p \in Served'
        PROVE  Kept(call[p].report)' /\ call'[p].since \in Nat \ {0} /\ Current(call[p])'
    BY <1>3, <2>1, <2>2
  <2> QED
    BY <2>3, <2>4 DEF Results, Disjoint
<1> QED
  BY <1>3, <1>6, <1>8, <1>10 DEF Inv

-----------------------------------------------------------------------------
(* Actions                                                                   *)

\* What a request that has not ended is known to have.
LEMMA Under ==
    ASSUME Inv, NEW q \in Calls, at[q] # "done"
    PROVE  /\ call[q] \in Request /\ call[q].outcome # "served" /\ Fits(at[q], call[q])
           /\ clock \in Nat /\ faults \in Nat
<1>1. call[q] \in Request /\ Fits(at[q], call[q]) /\ clock \in Nat /\ faults \in Nat
  BY DEF Inv, TypeOK, Requests
<1> QED
  BY <1>1 DEF Fits

LEMMA Ending ==
    ASSUME Inv, NEW q \in Calls, at[q] # "done", NEW o \in {"failed", "changing"},
           End(q, o), UNCHANGED <<clock, sources>>, faults' \in Nat,
           FailClaim(q) \/ UNCHANGED rows
    PROVE  Inv'
<1> DEFINE c == [NoCall EXCEPT !.outcome = o, !.since = call[q].since]
<1>1. call[q].since \in Nat /\ call[q].snap \in Snap
  BY Under DEF Request
<1>2. c \in Request /\ c.outcome = o
  BY <1>1, Nothing DEF Request
<1>3. GoTo(q, "done", c)
  BY DEF End
<1> HIDE DEF c
<1>4. Fits("done", c) /\ "done" \in Places
  BY <1>2 DEF Fits, Places
<1>5. \/ UNCHANGED rows
      \/ \E k \in Snap, row \in CacheRow :
            /\ PutRow(k, row) /\ row.status # "ready"
            /\ RowOf(k).status = "ready" => RowOf(k).until <= clock
  <2>1. CASE ~UNCHANGED rows
    <3> DEFINE row == [NoRow EXCEPT !.status = "failed"]
    <3>1. row \in CacheRow /\ row.status # "ready"
      BY Nothing DEF CacheRow
    <3>2. PutRow(call[q].snap, row) /\ RowOf(call[q].snap).status = "generating"
      BY <2>1 DEF FailClaim
    <3> HIDE DEF row
    <3> QED
      BY <1>1, <3>1, <3>2
  <2> QED
    BY <2>1
<1>6. c.outcome # "served"
  BY <1>2
<1> QED
  BY <1>2, <1>3, <1>4, <1>5, <1>6, Moving

LEMMA Rebuilding ==
    ASSUME Inv, NEW q \in Calls, at[q] \in {"pinned", "recheck"}, Rebuild(q), Quiet
    PROVE  Inv'
<1>1. at[q] # "done" /\ faults' \in Nat /\ UNCHANGED <<clock, sources>> /\ FailClaim(q)
  BY Under DEF Quiet, Rebuild
<1>2. CASE End(q, "changing")
  BY <1>1, <1>2, Ending
<1>3. CASE ~End(q, "changing")
  <2> DEFINE c == [call[q] EXCEPT !.round = 2, !.from = Len(log), !.owns = FALSE,
                                  !.mems = {}, !.cited = {}]
  <2>1. GoTo(q, "snapshot", c)
    BY <1>3 DEF Rebuild
  <2>2. Len(log) \in Nat \ {0} /\ call[q] \in Request /\ call[q].outcome # "served"
        /\ Asked(call[q]) /\ call[q].snap \in Snap
    BY <1>1, Under, EntryTyped DEF Inv, Fits, Request
  <2>3. c \in Request /\ c.outcome # "served" /\ c.since = call[q].since /\ c.now = call[q].now
        /\ c.from = Len(log) /\ c.mems = {} /\ c.cited = {}
    BY <2>2 DEF Request
  <2> HIDE DEF c
  <2>4. Asked(c)
    BY <2>2, <2>3 DEF Asked
  <2>5. Fits("snapshot", c) /\ "snapshot" \in Places
    BY <2>3, <2>4 DEF Fits, Places
  <2>6. \/ UNCHANGED rows
        \/ \E k \in Snap, row \in CacheRow :
              /\ PutRow(k, row) /\ row.status # "ready"
              /\ RowOf(k).status = "ready" => RowOf(k).until <= clock
    <3>1. CASE ~UNCHANGED rows
      <4> DEFINE row == [NoRow EXCEPT !.status = "failed"]
      <4>1. row \in CacheRow /\ row.status # "ready"
        BY Nothing DEF CacheRow
      <4>2. PutRow(call[q].snap, row) /\ RowOf(call[q].snap).status = "generating"
        BY <1>1, <3>1 DEF FailClaim
      <4> HIDE DEF row
      <4> QED
        BY <2>2, <4>1, <4>2
    <3> QED
      BY <3>1
  <2> QED
    BY <1>1, <2>1, <2>3, <2>5, <2>6, Moving
<1> QED
  BY <1>2, <1>3

LEMMA Asks ==
    ASSUME Inv, NEW q \in Calls, Ask(q)
    PROVE  Inv'
<1> DEFINE c == [NoCall EXCEPT !.now = clock, !.from = Len(log), !.since = Len(log)]
<1>1. at[q] # "done" /\ GoTo(q, "snapshot", c) /\ UNCHANGED <<clock, sources>>
      /\ UNCHANGED rows /\ faults' = faults
  BY DEF Ask, Quiet
<1>2. Len(log) \in Nat \ {0} /\ clock \in Nat /\ faults' \in Nat
  BY <1>1, Under, EntryTyped DEF Inv
<1>3. c \in Request
  BY <1>2, Nothing DEF Request
<1>4. c.now = clock /\ c.from = Len(log) /\ c.since = Len(log) /\ c.outcome = "none"
      /\ c.mems = {} /\ c.cited = {}
  BY DEF NoCall
<1> HIDE DEF c
<1>5. Fits("snapshot", c) /\ "snapshot" \in Places /\ c.outcome # "served"
  BY <1>2, <1>4 DEF Fits, Asked, Places
<1> QED
  BY <1>1, <1>2, <1>3, <1>5, Moving

LEMMA Lookups ==
    ASSUME Inv, NEW q \in Calls, LookupOrClaim(q)
    PROVE  Inv'
<1>1. at[q] = "snapshot" /\ at[q] # "done" /\ UNCHANGED <<clock, sources>> /\ faults' = faults
  BY DEF LookupOrClaim, Quiet
<1>2. /\ call[q] \in Request /\ call[q].outcome # "served" /\ Asked(call[q])
      /\ call[q].mems = {} /\ call[q].cited = {}
      /\ clock \in Nat /\ faults' \in Nat
  BY <1>1, Under DEF Fits
<1>3. Len(log) \in Nat \ {0} /\ Latest \in Snap
  BY EntryTyped DEF Inv
<1>4. PICK snap \in Snapshots(q) :
          LET c == [call[q] EXCEPT !.snap = snap]
              row == RowOf(snap)
          IN  IF Valid(row, c.now) THEN Serve(q, row.report) /\ UNCHANGED rows
              ELSE IF MayClaim(row, c.now)
              THEN /\ PutRow(snap, [NoRow EXCEPT !.status = "generating", !.token = Token(q),
                                                 !.lease = c.now + Lease])
                   /\ IF NoActivity(snap)
                      THEN GoTo(q, "recheck", [c EXCEPT !.owns = TRUE, !.from = Len(log)])
                      ELSE GoTo(q, "load", [c EXCEPT !.owns = TRUE])
              ELSE GoTo(q, "wait", [c EXCEPT !.deadline = clock + Wait]) /\ UNCHANGED rows
  BY DEF LookupOrClaim
<1>5. call[q].from \in 1 .. Len(log) /\ call[q].since \in 1 .. Len(log)
      /\ call[q].from \in call[q].since .. Len(log)
  BY <1>2, <1>3 DEF Asked
<1>6. snap \in Snap /\ Older(log[call[q].from].src, snap) /\ Older(snap, Latest)
  BY <1>5, SnapshotLies DEF Inv
<1> DEFINE c == [call[q] EXCEPT !.snap = snap]
<1>7. c.now = call[q].now /\ call[q].now \in Nat
  BY <1>2 DEF Request
<1>8. RowOf(snap) \in CacheRow
  BY Nothing DEF RowOf, Inv, TypeOK
<1>9. CASE Valid(RowOf(snap), c.now)
  <2> DEFINE d == [NoCall EXCEPT !.now = call[q].now, !.since = call[q].since,
                                 !.outcome = "served", !.report = RowOf(snap).report]
  <2>1. GoTo(q, "done", d) /\ UNCHANGED rows
    BY <1>4, <1>9 DEF Serve
  <2>2. RowOf(snap).status = "ready" /\ call[q].now < RowOf(snap).until
    BY <1>7, <1>9 DEF Valid
  <2>3. d \in Request /\ d.now = call[q].now /\ d.since = call[q].since
        /\ d.outcome = "served" /\ d.report = RowOf(snap).report
    BY <1>2, <1>8, Nothing DEF Request, CacheRow
  <2> HIDE DEF d
  <2>4. d.since \in 1 .. Len(log) /\ d.now <= clock /\ call[q].from \in d.since .. Len(log)
        /\ d.now < RowOf(snap).until
    BY <1>2, <1>5, <2>2, <2>3 DEF Asked
  <2> QED
    BY <1>1, <1>6, <2>1, <2>2, <2>3, <2>4, Serving
<1>10. CASE ~Valid(RowOf(snap), c.now) /\ MayClaim(RowOf(snap), c.now)
  <2> DEFINE row == [NoRow EXCEPT !.status = "generating", !.token = Token(q),
                                  !.lease = c.now + Lease]
  <2>1. Token(q) \in Tokens /\ c.now + Lease \in Nat
    BY <1>2, <1>7, ReviewAssumption DEF Token, Tokens, Request, ReviewAssumption
  <2>2. row \in CacheRow /\ row.status # "ready"
    <3> HIDE DEF c
    <3> QED
      BY <2>1, Nothing DEF CacheRow
  <2>3. PutRow(snap, row)
    BY <1>4, <1>10
  <2>4. RowOf(snap).status = "ready" => RowOf(snap).until <= clock
    BY <1>2, <1>7, <1>8, <1>10 DEF Valid, Asked, CacheRow
  <2>5. \/ UNCHANGED rows
        \/ \E k \in Snap, w \in CacheRow :
              /\ PutRow(k, w) /\ w.status # "ready"
              /\ RowOf(k).status = "ready" => RowOf(k).until <= clock
    <3> HIDE DEF row
    <3> QED
      BY <1>6, <2>2, <2>3, <2>4
  <2> HIDE DEF row
  <2>6. CASE NoActivity(snap)
    <3> DEFINE d == [c EXCEPT !.owns = TRUE, !.from = Len(log)]
    <3>1. GoTo(q, "recheck", d)
      BY <1>4, <1>10, <2>6
    <3>2. d \in Request /\ d.outcome # "served" /\ d.now = call[q].now
          /\ d.since = call[q].since /\ d.from = Len(log) /\ d.snap = snap
          /\ d.mems = {} /\ d.cited = {}
      BY <1>2, <1>3, <1>6 DEF Request
    <3> HIDE DEF d
    <3>3. Asked(d)
      BY <1>2, <1>3, <3>2 DEF Asked
    <3>4. Fits("recheck", d) /\ "recheck" \in Places
      BY <1>6, <3>2, <3>3 DEF Fits, Places, Latest
    <3> QED
      BY <1>1, <1>2, <2>5, <3>1, <3>2, <3>4, Moving
  <2>7. CASE ~NoActivity(snap)
    <3> DEFINE d == [c EXCEPT !.owns = TRUE]
    <3>1. GoTo(q, "load", d)
      BY <1>4, <1>10, <2>7
    <3>2. d \in Request /\ d.outcome # "served" /\ d.now = call[q].now
          /\ d.since = call[q].since /\ d.from = call[q].from /\ d.snap = snap
      BY <1>2, <1>6 DEF Request
    <3> HIDE DEF d
    <3>3. Asked(d)
      BY <1>2, <3>2 DEF Asked
    <3>4. Fits("load", d) /\ "load" \in Places
      BY <1>6, <3>2, <3>3 DEF Fits, Places
    <3> QED
      BY <1>1, <1>2, <2>5, <3>1, <3>2, <3>4, Moving
  <2> QED
    BY <2>6, <2>7
<1>11. CASE ~Valid(RowOf(snap), c.now) /\ ~MayClaim(RowOf(snap), c.now)
  <2> DEFINE d == [c EXCEPT !.deadline = clock + Wait]
  <2>1. GoTo(q, "wait", d) /\ UNCHANGED rows
    BY <1>4, <1>11
  <2>2. clock + Wait \in Nat
    BY <1>2, ReviewAssumption DEF ReviewAssumption
  <2>3. d \in Request /\ d.outcome # "served" /\ d.now = call[q].now
        /\ d.since = call[q].since /\ d.from = call[q].from /\ d.snap = snap
    BY <1>2, <1>6, <2>2 DEF Request
  <2> HIDE DEF d
  <2>4. Asked(d)
    BY <1>2, <2>3 DEF Asked
  <2>5. Fits("wait", d) /\ "wait" \in Places
    BY <1>6, <2>3, <2>4 DEF Fits, Places
  <2> QED
    BY <1>1, <1>2, <2>1, <2>3, <2>5, Moving
<1> QED
  BY <1>9, <1>10, <1>11

LEMMA Polls ==
    ASSUME Inv, NEW q \in Calls, Poll(q)
    PROVE  Inv'
<1> DEFINE k == call[q].snap
<1>1. at[q] = "wait" /\ at[q] # "done" /\ Valid(RowOf(k), clock) /\ Serve(q, RowOf(k).report)
      /\ UNCHANGED <<clock, sources>> /\ UNCHANGED <<rows, faults>>
  BY DEF Poll, Quiet
<1>2. /\ call[q] \in Request /\ k \in Snap /\ Asked(call[q]) /\ clock \in Nat
      /\ Older(log[call[q].from].src, k) /\ Older(k, Latest)
  BY <1>1, Under DEF Fits, Request
<1>3. Len(log) \in Nat \ {0}
  BY EntryTyped DEF Inv
<1>4. RowOf(k) \in CacheRow
  BY Nothing DEF RowOf, Inv, TypeOK
<1> HIDE DEF k
<1> DEFINE d == [NoCall EXCEPT !.now = call[q].now, !.since = call[q].since,
                               !.outcome = "served", !.report = RowOf(k).report]
<1>5. GoTo(q, "done", d)
  BY <1>1 DEF Serve
<1>6. d \in Request /\ d.now = call[q].now /\ d.since = call[q].since
      /\ d.outcome = "served" /\ d.report = RowOf(k).report
  BY <1>2, <1>4, Nothing DEF Request, CacheRow
<1> HIDE DEF d
<1>7. d.since \in 1 .. Len(log) /\ d.now <= clock /\ call[q].from \in d.since .. Len(log)
  BY <1>2, <1>3, <1>6 DEF Asked
<1>8. RowOf(k).status = "ready" /\ d.now < RowOf(k).until
  BY <1>1, <1>2, <1>4, <1>6, <1>7 DEF Valid, CacheRow, Request
<1> QED
  BY <1>1, <1>2, <1>5, <1>6, <1>7, <1>8, Serving

LEMMA Loads ==
    ASSUME Inv, NEW q \in Calls, LoadPinned(q)
    PROVE  Inv'
<1>1. at[q] = "load" /\ at[q] # "done" /\ UNCHANGED <<clock, sources>> /\ faults' \in Nat
  BY Under DEF LoadPinned, Quiet
<1>2. CASE FailClaim(q) /\ End(q, "failed")
  BY <1>1, <1>2, Ending
<1>3. CASE GoTo(q, "recall", call[q]) /\ UNCHANGED rows
  <2>1. call[q] \in Request /\ call[q].outcome # "served" /\ Fits("load", call[q])
    BY <1>1, Under
  <2>2. Fits("recall", call[q]) /\ "recall" \in Places
    BY <2>1 DEF Fits, Places
  <2> QED
    BY <1>1, <1>3, <2>1, <2>2, Moving
<1> QED
  BY <1>2, <1>3 DEF LoadPinned

LEMMA Recalls ==
    ASSUME Inv, NEW q \in Calls, RecallAndGenerate(q)
    PROVE  Inv'
<1> DEFINE mems == {m \in Active : Expiry[m] > WindowEnd}
<1>1. at[q] = "recall" /\ at[q] # "done" /\ UNCHANGED <<clock, sources>> /\ faults' \in Nat
      /\ UNCHANGED rows
  BY Under DEF RecallAndGenerate, Quiet
<1>2. mems \in SUBSET Memories
  BY DEF Active
<1>3. PICK cited \in SUBSET Memories :
          GoTo(q, "pinned", [call[q] EXCEPT !.mems = mems, !.cited = ValidateEvidence(cited, mems)])
  BY DEF RecallAndGenerate
<1>4. call[q] \in Request /\ call[q].outcome # "served" /\ Fits("recall", call[q])
  BY <1>1, Under
<1> HIDE DEF mems
<1> DEFINE c == [call[q] EXCEPT !.mems = mems, !.cited = ValidateEvidence(cited, mems)]
<1>5. GoTo(q, "pinned", c)
  BY <1>3
<1>6. c \in Request /\ c.outcome # "served" /\ c.now = call[q].now /\ c.since = call[q].since
      /\ c.from = call[q].from /\ c.snap = call[q].snap /\ c.cited \subseteq c.mems
  BY <1>2, <1>4 DEF Request, ValidateEvidence
<1> HIDE DEF c
<1>7. Fits("pinned", c) /\ "pinned" \in Places
  BY <1>4, <1>6 DEF Fits, Places, Asked
<1> QED
  BY <1>1, <1>5, <1>6, <1>7, Moving

LEMMA Validates ==
    ASSUME Inv, NEW q \in Calls, ValidatePinned(q)
    PROVE  Inv'
<1>1. at[q] = "pinned" /\ at[q] # "done" /\ UNCHANGED <<clock, sources>> /\ faults' \in Nat /\ Quiet
  BY Under DEF ValidatePinned, Quiet
<1>2. CASE Rebuild(q)
  BY <1>1, <1>2, Rebuilding
<1>3. CASE ~Rebuild(q)
  <2>1. \A m \in call[q].mems : m \in Active /\ Expiry[m] > call[q].now
    BY <1>3 DEF ValidatePinned
  <2> DEFINE c == [call[q] EXCEPT !.from = Len(log)]
  <2>2. GoTo(q, "recheck", c) /\ UNCHANGED rows
    BY <1>3, <2>1 DEF ValidatePinned
  <2>3. call[q] \in Request /\ call[q].outcome # "served" /\ Fits("pinned", call[q])
        /\ Len(log) \in Nat \ {0}
    BY <1>1, Under, EntryTyped DEF Inv
  <2>4. c \in Request /\ c.outcome # "served" /\ c.now = call[q].now /\ c.since = call[q].since
        /\ c.from = Len(log) /\ c.snap = call[q].snap /\ c.cited = call[q].cited
        /\ c.mems = call[q].mems
    BY <2>3 DEF Request
  <2> HIDE DEF c
  <2>5. Older(c.snap, log[c.from].src) /\ Asked(c) /\ c.cited \subseteq c.mems
    BY <2>3, <2>4 DEF Fits, Asked, Latest
  <2>6. c.mems \subseteq log[c.from].active
    BY <2>1, <2>4 DEF Inv, History
  <2>7. Fits("recheck", c) /\ "recheck" \in Places
    BY <2>1, <2>4, <2>5, <2>6 DEF Fits, Places
  <2> QED
    BY <1>1, <2>2, <2>4, <2>7, Moving
<1> QED
  BY <1>2, <1>3

LEMMA Commits ==
    ASSUME Inv, NEW q \in Calls, CommitReady(q)
    PROVE  Inv'
<1> DEFINE b == call[q]
           until == ComputeValidUntil(b.now, b.mems)
           report == [src |-> b.snap, cited |-> b.cited, by |-> Token(q), until |-> until,
                      made |-> clock]
           row == [NoRow EXCEPT !.status = "ready", !.until = until, !.report = report]
           d == [NoCall EXCEPT !.now = b.now, !.since = b.since,
                               !.outcome = "served", !.report = report]
<1>1. at[q] = "recheck" /\ at[q] # "done" /\ UNCHANGED <<clock, sources>> /\ faults' = faults
  BY DEF CommitReady, Quiet
<1>2. CASE ~OwnsClaim(RowOf(b.snap), q)
  <2>1. End(q, "failed") /\ UNCHANGED rows /\ faults' \in Nat
    BY <1>1, <1>2, Under DEF CommitReady
  <2> QED
    BY <1>1, <2>1, Ending
<1>3. CASE OwnsClaim(RowOf(b.snap), q)
  <2>1. PutRow(b.snap, row) /\ GoTo(q, "done", d)
    BY <1>3 DEF CommitReady, Serve
  <2>2. RowOf(b.snap).status # "ready"
    BY <1>3 DEF OwnsClaim
  <2>3. /\ b \in Request /\ b.snap \in Snap /\ b.now \in Nat /\ b.mems \in SUBSET Memories
        /\ b.cited \in SUBSET Memories /\ b.since \in Nat /\ clock \in Nat
        /\ Fits("recheck", b)
    BY <1>1, Under DEF Request
  <2>4. Len(log) \in Nat \ {0}
    BY EntryTyped DEF Inv
  <2>5. until \in Nat /\ \A m \in b.mems : until <= Expiry[m]
    BY <2>3, ValidUntil
  <2>6. Token(q) \in Tokens
    BY <2>3 DEF Token, Tokens, Request
  <2>7. b.snap \in Snapshots(q)
    BY DEF CommitReady, Unchanged
  <2>8. /\ b.from \in b.since .. Len(log) /\ b.since \in 1 .. Len(log) /\ b.from \in 1 .. Len(log)
        /\ Older(b.snap, log[b.from].src) /\ b.mems \subseteq log[b.from].active
        /\ b.cited \subseteq b.mems /\ \A m \in b.mems : Expiry[m] > b.now
    BY <2>3, <2>4 DEF Fits, Asked
  <2>9. Older(log[b.from].src, b.snap)
    BY <2>7, <2>8, SnapshotLies DEF Inv
  <2>10. log[b.from].src \in Snap /\ log[b.from].src.first = NoSnap.first
    BY <2>8, EntryTyped DEF Inv, History
  <2>11. log[b.from].src = Plain(b.snap)
    BY <2>3, <2>8, <2>9, <2>10, Older2
  <2> HIDE DEF until
  <2>12. /\ report \in Report /\ report.src = b.snap /\ report.cited = b.cited
         /\ report.until = until /\ report.made = clock
    BY <2>3, <2>5, <2>6 DEF Report
  <2> HIDE DEF report
  <2>13. row \in CacheRow /\ row.status = "ready" /\ row.report = report /\ row.until = until
    BY <2>5, <2>12, Nothing DEF CacheRow
  <2>14. /\ d \in Request /\ d.now = b.now /\ d.since = b.since /\ d.outcome = "served"
         /\ d.report = report
    BY <2>3, <2>12, Nothing DEF Request
  <2> HIDE DEF row, d, b
  <2>15. Was(b.from, d.report)
    BY <2>8, <2>11, <2>12, <2>14 DEF Was, Plain
  <2>16. /\ \A m \in d.report.cited : d.report.until <= Expiry[m]
         /\ \A m \in d.report.cited : Expiry[m] > d.now
         /\ d.since \in 1 .. Len(log) /\ b.from \in d.since .. Len(log)
    BY <2>5, <2>8, <2>12, <2>14
  <2>17. row.report = d.report /\ row.until = d.report.until /\ d.report.src = b.snap
         /\ d.report.made = clock
    BY <2>12, <2>13, <2>14
  <2> QED
    BY <1>1, <2>1, <2>2, <2>3, <2>13, <2>14, <2>15, <2>16, <2>17, Committing
<1> QED
  BY <1>2, <1>3

LEMMA Steps ==
    ASSUME Inv, NEW q \in Calls, Step(q)
    PROVE  Inv'
<1>1. CASE GiveUp(q)
  <2>1. at[q] # "done" /\ End(q, "failed") /\ UNCHANGED <<clock, sources>> /\ UNCHANGED rows
        /\ faults' = faults
    BY <1>1 DEF GiveUp, Quiet
  <2>2. faults' \in Nat
    BY <2>1, Under
  <2> QED
    BY <2>1, <2>2, Ending
<1>2. CASE SourceChanged(q)
  BY <1>2, Rebuilding DEF SourceChanged
<1>3. CASE Fail(q) \/ Abandon(q)
  <2>1. at[q] # "done" /\ End(q, "failed") /\ UNCHANGED <<clock, sources>>
        /\ faults' = faults + 1 /\ (FailClaim(q) \/ UNCHANGED rows)
    BY <1>3 DEF Fail, Abandon, Faulty
  <2>2. faults' \in Nat
    BY <2>1, Under
  <2> QED
    BY <2>1, <2>2, Ending
<1> QED
  BY <1>1, <1>2, <1>3, Asks, Lookups, Polls, Loads, Recalls, Validates, Commits DEF Step

LEMMA Ticks ==
    ASSUME Inv, clock' \in Nat, clock <= clock', UNCHANGED <<sources, rows, at, call, faults>>
    PROVE  Inv'
<1>1. TypeOK'
  BY DEF Inv, TypeOK, sources
<1>2. History'
  BY DEF Inv, History, sources, Older, Active, View
<1>3. clock \in Nat /\ call \in [Calls -> Request]
  BY DEF Inv, TypeOK
<1>4. Requests'
  <2>1. ASSUME NEW q \in Calls
        PROVE  Fits(at[q], call[q])'
    <3>1. Fits(at[q], call[q]) /\ call[q].now \in Nat
      BY <1>3 DEF Inv, Requests, Request
    <3> QED
      BY <1>3, <3>1 DEF Fits, Asked, Older, Latest, sources
  <2> QED
    BY <2>1 DEF Requests
<1>5. Cache'
  BY DEF Inv, Cache, Stands, Was, Plain, Served, sources
<1>6. Results'
  <2>1. ASSUME NEW q \in Served
        PROVE  Kept(call[q].report)' /\ Current(call[q])'
    <3>1. Kept(call[q].report) /\ Current(call[q]) /\ call[q].report \in Report
      BY <1>3 DEF Inv, Results, Request, Served
    <3> QED
      BY <1>3, <3>1 DEF Kept, InCache, Current, Was, Plain, Report, sources
  <2> QED
    BY <2>1 DEF Inv, Results, Served, Disjoint
<1> QED
  BY <1>1, <1>2, <1>4, <1>5, <1>6 DEF Inv

LEMMA Initially ==
    ASSUME Init
    PROVE  Inv
<1>1. chat \in Nat /\ notes \in Nat /\ ver \in Nat /\ clock \in Nat /\ faults \in Nat
  BY DEF Init
<1> DEFINE e == [src |-> View(chat, notes, ver), active |-> Memories]
<1>2. log = <<e>>
  BY DEF Init
<1>3. e \in Entry /\ e.src = View(chat, notes, ver) /\ e.active = Memories
      /\ e.src.first = NoSnap.first
  BY <1>1, ViewFields DEF Entry
<1>4. Active = Memories
  BY DEF Init, Active
<1>5. \A q \in Calls : at[q] = "idle" /\ call[q].outcome = "none"
  BY DEF Init, NoCall
<1>6. TypeOK
  <2>1. log \in Seq(Entry) /\ log # <<>>
    BY <1>2, <1>3
  <2>2. rows = [k \in {} |-> NoRow] /\ memory = [m \in Memories |-> "active"]
        /\ at = [q \in Calls |-> "idle"] /\ call = [q \in Calls |-> NoCall]
    BY DEF Init
  <2>3. DOMAIN rows = {}
    BY <2>2
  <2>4. at \in [Calls -> Places] /\ call \in [Calls -> Request]
        /\ memory \in [Memories -> {"future", "active", "gone"}]
    BY <2>2, Nothing DEF Places
  <2> QED
    BY <1>1, <2>1, <2>3, <2>4 DEF TypeOK
<1>7. History
  <2>1. Len(log) = 1 /\ log[1] = e /\ log[Len(log)] = e
    BY <1>2
  <2>2. Older(e.src, e.src)
    BY <1>3, Older2 DEF Entry
  <2>3. log[Len(log)] = [src |-> View(chat, notes, ver), active |-> Active]
    BY <1>4, <2>1
  <2> HIDE DEF e
  <2> QED
    BY <1>3, <2>1, <2>2, <2>3 DEF History
<1>8. Requests
  BY <1>5 DEF Requests, Fits
<1>9. Cache /\ Results
  <2>1. DOMAIN rows = {}
    BY DEF Init
  <2>2. Served = {}
    BY <1>5 DEF Served
  <2> QED
    BY <2>1, <2>2 DEF Cache, Results
<1> QED
  BY <1>6, <1>7, <1>8, <1>9 DEF Inv

LEMMA NextKeeps ==
    ASSUME Inv, [Next]_vars
    PROVE  Inv'
<1>1. /\ chat \in Nat /\ notes \in Nat /\ ver \in Nat /\ clock \in Nat
      /\ memory \in [Memories -> {"future", "active", "gone"}]
  BY DEF Inv, TypeOK
<1>2. CASE NewMessage
  BY <1>1, <1>2, Changed DEF NewMessage, Changing
<1>3. CASE ChangeNote
  BY <1>1, <1>3, Changed DEF ChangeNote, Changing
<1>4. ASSUME NEW m \in Memories, ChangeMemory(m)
      PROVE  Inv'
  BY <1>1, <1>4, Changed DEF ChangeMemory, Changing
<1>5. CASE Tick
  BY <1>1, <1>5, Ticks DEF Tick
<1>6. CASE UNCHANGED vars
  BY <1>1, <1>6, Ticks DEF vars, sources
<1> QED
  BY <1>2, <1>3, <1>4, <1>5, <1>6, Steps DEF Next

-----------------------------------------------------------------------------
(* Results                                                                   *)

\* The invariant above holds of every reachable state.
THEOREM Invariance == Spec => []Inv
<1>1. Init => Inv
  BY Initially
<1>2. Inv /\ [Next]_vars => Inv'
  BY NextKeeps
<1> QED
  BY <1>1, <1>2, PTL DEF Spec

\* Every variable has its type.
THEOREM TypeCorrect == Spec => []TypeOK
<1>1. Inv => TypeOK
  BY DEF Inv
<1> QED
  BY <1>1, Invariance, PTL

\* What is served, fresh or out of the cache, was all current at one instant
\* since it was asked for, and rests on no memory expired by then.
THEOREM ServesCurrent == Spec => []ServedIsCurrent
<1>1. Inv => ServedIsCurrent
  BY DEF Inv, Results, Current, Was, Plain, ServedIsCurrent
<1> QED
  BY <1>1, Invariance, PTL

\* A report is committed only when every other on the same sources has expired.
THEOREM OneAtATime == Spec => []OneResultAtATime
<1>1. Inv => OneResultAtATime
  BY DEF Inv, Results, Disjoint, OneResultAtATime
<1> QED
  BY <1>1, Invariance, PTL
=============================================================================
