----------------------------- MODULE StreamProofs ----------------------------
(***************************************************************************)
(* Machine-checked proofs about the two halves of an answer's way to the    *)
(* browser: StreamProtocol, from the model to the chat run, for every set   *)
(* of routes and any number of model messages, answer chunks and output     *)
(* budget; and EventStream, from the stored events to the browser, for      *)
(* every number of browsers, events, broken connections and refused         *)
(* requests, and every batch size.                                          *)
(*                                                                         *)
(* The four properties of the chat run's side of StreamProtocol are about   *)
(* what was put on outer; the inductive invariant carries them back along   *)
(* the stream: what the relay holds, what waits in the inner channel, and   *)
(* what the source may still send from where it is.                         *)
(***************************************************************************)
EXTENDS EventStream, StreamProtocol, FiniteSetTheorems, SequenceTheorems, TLAPS

-----------------------------------------------------------------------------
(* Types                                                                     *)

Draft == Ev("text", "draft")
Search == Ev("tool", "search")
Canceled == Failed("canceled")
Answers == {Ev("text", "answer"), Ev("text", "refusal")}
\* What a handler or a skill may send.
Plain == {Ev("started", "none"), Ev("candidate", "none"), Ev("text", "plain"), Completed,
          Failed("error")}

Places == {"iterate", "validate", "answer", "terminal", "exec", "parts", "foreign", "nil",
           "emit", "closing", "end"}
Tags == {"answer", "refusal"}
Src == [pc : Places, ev : Events \union {NoEvent}, then : Places, onDrop : Places,
        grounded : BOOLEAN, usable : BOOLEAN, tag : Tags, left : Nat,
        total : Nat, steps : Nat, parts : Seq(Events)]
Rel == [pc : {"recv", "pass", "closing", "end"}, ev : Events \union {NoEvent},
        then : {"recv", "closing"}, terminal : BOOLEAN, bytes : Nat]
Chan == [buf : Seq(Events), closed : BOOLEAN]

Typed ==
    /\ route \in Routes /\ required \in BOOLEAN
    /\ ended \in [Contexts -> {"none", "canceled", "deadline"}]
    /\ chan \in [Channels -> Chan]
    /\ sent \in Seq(Events)
    /\ src \in Src /\ relay \in Rel
    /\ cancelled \in BOOLEAN

-----------------------------------------------------------------------------
(* The source, by route.                                                     *)

Ending(s) == s.pc \in {"closing", "end"}

RunnerFits(s) ==
    /\ s.pc \in {"iterate", "validate", "answer", "terminal", "emit", "closing", "end"}
    /\ s.pc = "emit" =>
          /\ s.then \in {"iterate", "validate", "answer"} /\ s.onDrop \in {s.then, "terminal"}
          /\ s.ev \in Events /\ ~Terminal(s.ev)
          /\ s.ev = Draft => ~s.grounded
          /\ s.ev = Search => s.grounded
          /\ s.ev \in Answers => s.ev = Ev("text", s.tag) /\ s.total # 0
    /\ s.pc = "terminal" => Terminal(s.ev) /\ (s.ev = Completed => s.left = 0)
    /\ s.pc \in {"iterate", "validate"} \/ (s.pc = "emit" /\ s.then # "answer") => s.total = 0
    /\ s.total = 0 => s.left = 0

\* What is left of a result ends with its only terminal event.
Result(p) ==
    /\ p # <<>>
    /\ \A i \in 1 .. Len(p) : p[i] \in Plain /\ (Terminal(p[i]) <=> i = Len(p))

HandlerFits(s) ==
    /\ s.pc \in {"exec", "parts", "emit", "closing", "end"}
    /\ s.pc = "parts" => s.parts = <<>> \/ Result(s.parts)
    /\ s.pc = "emit" =>
          /\ s.then \in {"exec", "parts"} /\ s.onDrop = "closing" /\ s.ev \in Plain
          /\ s.then = "exec" => ~Terminal(s.ev)
          /\ s.then = "parts" => IF s.parts = <<>> THEN Terminal(s.ev)
                                 ELSE ~Terminal(s.ev) /\ Result(s.parts)

ForeignFits(s) ==
    /\ s.pc \in {"foreign", "nil", "emit", "closing", "end"}
    /\ s.pc = "emit" => s.then = "foreign" /\ s.onDrop = "foreign" /\ s.ev \in Plain

SourceFits ==
    /\ route \in RunnerRoutes => RunnerFits(src) /\ (Enforced => src.grounded)
    /\ route \notin RunnerRoutes => ~Enforced /\ ~src.grounded
    /\ route \in {"handler", "skill"} => HandlerFits(src)
    /\ route = "skill_stream" => ForeignFits(src)
    /\ route = "no_stream" => src.pc = "end"

-----------------------------------------------------------------------------
(* The end of the stream.                                                    *)

Done == \E i \in 1 .. Len(sent) : Terminal(sent[i])
Direct == route \notin RelayedRoutes

\* Without a relay the source writes to outer itself.
SourceEnds ==
    Direct =>
        /\ relay.pc = "end" /\ chan["inner"] = Empty
        /\ Done => Ending(src) \/ (src.pc = "parts" /\ src.parts = <<>>)
        /\ src.pc = "parts" /\ src.parts = <<>> => Done
        /\ Ending(src) /\ ended["chat"] = "none" => Done
        /\ chan["outer"].closed => src.pc = "end"

RelayEnds ==
    ~Direct =>
        /\ Done => relay.pc \in {"closing", "end"} \/ (relay.pc = "recv" /\ relay.terminal)
        /\ relay.pc = "recv" /\ relay.terminal => Done
        /\ relay.pc \in {"closing", "end"} /\ ended["chat"] = "none" => Done
        /\ relay.pc = "pass" =>
              /\ relay.ev \in Events
              /\ relay.terminal \/ relay.then = "closing" <=> Terminal(relay.ev)
        /\ chan["inner"].buf = <<>> \/ \E e \in Events : chan["inner"].buf = <<e>>
        /\ chan["outer"].closed => relay.pc = "end"
        /\ src.pc = "nil" => ~relay.terminal /\ chan["inner"].buf = <<>>

\* The runner's terminal event is the last one in the inner channel.
InnerEnds ==
    route = "bounded" =>
        /\ \A e \in Events : chan["inner"].buf = <<e>> /\ Terminal(e) => Ending(src)
        /\ Done \/ relay.terminal \/ (relay.pc = "pass" /\ relay.then = "closing") =>
              chan["inner"].buf = <<>> /\ Ending(src)
        /\ chan["inner"].closed => src.pc = "end"

-----------------------------------------------------------------------------
(* Cancellation, and what the reader finds.                                  *)

Told == cancelled \/ reader # "reading"
Aside == Told \/ (route = "bounded" /\ relay.pc = "end")

Cancellation ==
    /\ ended["chat"] # "none" => Told /\ ended["run"] # "none"
    /\ ended["bounded"] # "none" => ended["run"] # "none"
    /\ \A c \in Contexts : ended[c] = "canceled" => Aside
    /\ src.pc = "terminal" /\ src.ev = Canceled => Aside
    /\ chan["inner"].buf = <<Canceled>> => Aside
    /\ relay.pc = "pass" /\ relay.ev = Canceled => Told
    /\ \A i \in 1 .. Len(chan["outer"].buf) : chan["outer"].buf[i] = Canceled => Told

Reading ==
    /\ reader = "reading" /\ Done =>
          chan["outer"].buf # <<>> /\ Terminal(chan["outer"].buf[Len(chan["outer"].buf)])
    /\ ReaderLearnsTheEnd

-----------------------------------------------------------------------------
(* What is on its way.                                                       *)

Sent(e) == \E i \in 1 .. Len(sent) : sent[i] = e
Passed(e) == relay.pc = "pass" /\ relay.ev = e
Held(e) == chan["inner"].buf = <<e>>
Sending(e) == src.pc \in {"emit", "terminal"} /\ src.ev = e

Drafts ==
    /\ Sent(Search) \/ Passed(Search) \/ Held(Search) => src.grounded
    /\ Held(Draft) => ~Enforced /\ ~Sent(Search) /\ ~Passed(Search)
    /\ Passed(Draft) => ~Enforced /\ ~Sent(Search)
    /\ DraftStaysIn

At(e) == {i \in 1 .. Len(sent) : sent[i] = e}
One(b) == IF b THEN 1 ELSE 0
Coming(e) == One(Passed(e)) + One(Held(e)) + One(Sending(e)) + src.left

Adds ==
    ended["run"] = "none" =>
        Cardinality(At(Ev("text", src.tag))) + Coming(Ev("text", src.tag)) = src.total

AnswerFits ==
    route \in RunnerRoutes =>
        /\ src.total = 0 => \A e \in Answers : ~Sent(e) /\ ~Passed(e) /\ ~Held(e)
        /\ Sent(Completed) \/ Passed(Completed) \/ Held(Completed) => src.left = 0 /\ Ending(src)
        /\ Adds

Inv ==
    /\ Typed /\ SourceFits /\ SourceEnds /\ RelayEnds /\ InnerEnds /\ Cancellation /\ Reading
    /\ TerminalIsLast /\ Drafts /\ AnswerFits

-----------------------------------------------------------------------------
(* Events and channels.                                                      *)

LEMMA Distinct ==
  /\ \A t, g, u, h : Ev(t, g) = Ev(u, h) <=> t = u /\ g = h
  /\ \A t, g : Terminal(Ev(t, g)) <=> t \in {"completed", "failed"}
  /\ \A t, g : Ev(t, g).type = t /\ Ev(t, g).tag = g
  <1>1. \A t, g : Ev(t, g).type = t /\ Ev(t, g).tag = g BY SMT DEF Ev
  <1>2. \A t, g, u, h : Ev(t, g) = Ev(u, h) => t = u /\ g = h BY <1>1
  <1>. QED BY <1>1, <1>2, SMT DEF Terminal

LEMMA Known ==
  /\ Plain \subseteq Events /\ Answers \subseteq Events
  /\ Draft \in Events /\ Search \in Events
  /\ Ev("tool", "other") \in Events /\ Ev("status", "none") \in Events
  /\ \A x \in {"error", "canceled", "deadline", "output", "protocol"} : Failed(x) \in Events
  /\ Completed \in Events
  <1>1. Ev("started", "none") \in Events /\ Ev("candidate", "none") \in Events
        /\ Ev("status", "none") \in Events /\ Ev("completed", "none") \in Events
    BY Zenon DEF Events
  <1>2. /\ Ev("text", "plain") \in Events /\ Ev("text", "draft") \in Events
        /\ Ev("text", "answer") \in Events /\ Ev("text", "refusal") \in Events
    BY Zenon DEF Events
  <1>3. Ev("tool", "search") \in Events /\ Ev("tool", "other") \in Events BY Zenon DEF Events
  <1>4. \A x \in {"error", "canceled", "deadline", "output", "protocol"} : Failed(x) \in Events
    BY Zenon DEF Events
  <1>5. Failed("error") \in Events BY <1>4
  <1>. QED BY <1>1, <1>2, <1>3, <1>4, <1>5 DEF Plain, Answers, Draft, Search, Completed

LEMMA Kinds ==
  /\ \A e \in Answers \union {Draft, Search, Ev("status", "none"), Ev("tool", "other")} : ~Terminal(e)
  /\ \A x : Terminal(Failed(x)) /\ Failed(x) # Completed
  /\ Terminal(Completed) /\ Terminal(Canceled)
  /\ Draft \notin Answers /\ Search \notin Answers /\ Draft # Search
  /\ \A e \in Plain : e # Draft /\ e # Search /\ e \notin Answers /\ e # Canceled
  /\ Ev("status", "none") \notin Answers \union {Draft, Search}
  /\ Ev("tool", "other") \notin Answers \union {Draft, Search}
  /\ \A x : Failed(x) = Canceled <=> x = "canceled"
  <1>1. \A e \in Answers \union {Draft, Search, Ev("status", "none"), Ev("tool", "other")} : ~Terminal(e)
    BY Distinct, SMT DEF Answers, Draft, Search
  <1>2. \A x : Terminal(Failed(x)) /\ Failed(x) # Completed
    BY Distinct, SMT DEF Failed, Completed
  <1>3. Terminal(Completed) /\ Terminal(Canceled) BY <1>2, Distinct, SMT DEF Completed, Canceled
  <1>4. Draft \notin Answers /\ Search \notin Answers /\ Draft # Search
    BY Distinct, SMT DEF Answers, Draft, Search
  <1>5. \A e \in Plain : e # Draft /\ e # Search /\ e \notin Answers /\ e # Canceled
    BY Distinct, SMT DEF Plain, Answers, Draft, Search, Completed, Failed, Canceled
  <1>6. Ev("status", "none") \notin Answers \union {Draft, Search}
    BY Distinct, SMT DEF Answers, Draft, Search
  <1>7. Ev("tool", "other") \notin Answers \union {Draft, Search}
    BY Distinct, SMT DEF Answers, Draft, Search
  <1>8. \A x : Failed(x) = Canceled <=> x = "canceled" BY Distinct DEF Failed, Canceled
  <1>. QED BY <1>1, <1>2, <1>3, <1>4, <1>5, <1>6, <1>7, <1>8

LEMMA Chans ==
  ASSUME Typed
  PROVE  /\ chan["inner"].buf \in Seq(Events) /\ chan["outer"].buf \in Seq(Events)
         /\ chan["inner"].closed \in BOOLEAN /\ chan["outer"].closed \in BOOLEAN
  BY SMT DEF Typed, Chan, Channels

\* One channel gets another buffer, or is closed.
LEMMA Buffered ==
  ASSUME Typed, NEW c \in Channels, NEW b \in Seq(Events),
         chan' = [chan EXCEPT ![c].buf = b]
  PROVE  /\ chan'[c].buf = b /\ chan'[c].closed = chan[c].closed
         /\ \A d \in Channels : d # c => chan'[d] = chan[d]
         /\ chan' \in [Channels -> Chan]
  <1>. DEFINE k == [chan[c] EXCEPT !.buf = b]
  <1>1. chan \in [Channels -> Chan] /\ chan[c] \in Chan BY DEF Typed
  <1>2. chan' = [chan EXCEPT ![c] = k] OBVIOUS
  <1>3. k \in Chan /\ k.buf = b /\ k.closed = chan[c].closed BY <1>1, SMT DEF Chan
  <1>. HIDE DEF k
  <1>. QED BY <1>1, <1>2, <1>3

LEMMA Closed ==
  ASSUME Typed, NEW c \in Channels, Close(c)
  PROVE  /\ chan'[c].closed /\ chan'[c].buf = chan[c].buf
         /\ \A d \in Channels : d # c => chan'[d] = chan[d]
         /\ chan' \in [Channels -> Chan]
  <1>. DEFINE k == [chan[c] EXCEPT !.closed = TRUE]
  <1>1. chan \in [Channels -> Chan] /\ chan[c] \in Chan BY DEF Typed
  <1>2. chan' = [chan EXCEPT ![c] = k] BY DEF Close
  <1>3. \A x \in Chan : /\ [x EXCEPT !.closed = TRUE] \in Chan
                          /\ [x EXCEPT !.closed = TRUE].buf = x.buf
                          /\ [x EXCEPT !.closed = TRUE].closed
    BY ZenonT(30) DEF Chan
  <1>4. k \in Chan /\ k.buf = chan[c].buf /\ k.closed BY <1>1, <1>3
  <1>. HIDE DEF k
  <1>. QED BY <1>1, <1>2, <1>4

LEMMA InnerPushed ==
  ASSUME Typed, NEW e \in Events, Push("inner", e)
  PROVE  /\ chan["inner"].buf = <<>> /\ chan'["inner"].buf = <<e>>
         /\ chan'["inner"].closed = chan["inner"].closed /\ chan'["outer"] = chan["outer"]
         /\ chan' \in [Channels -> Chan] /\ sent' = sent
  <1>1. chan["inner"].buf \in Seq(Events) BY Chans
  <1>2. Len(chan["inner"].buf) < 1 BY DEF Push, Capacity
  <1>3. chan["inner"].buf = <<>> BY <1>1, <1>2, SMT
  <1>4. PICK b : b = <<e>> OBVIOUS
  <1>5. b \in Seq(Events) /\ Append(chan["inner"].buf, e) = b BY <1>3, <1>4, SMT
  <1>6. chan' = [chan EXCEPT !["inner"].buf = b] BY <1>5 DEF Push
  <1>7. sent' = sent BY DEF Push
  <1>8. "inner" \in Channels /\ "outer" \in Channels /\ "inner" # "outer" BY DEF Channels
  <1>. QED BY <1>3, <1>4, <1>5, <1>6, <1>7, <1>8, Buffered

LEMMA OuterPushed ==
  ASSUME Typed, NEW e \in Events, Push("outer", e)
  PROVE  /\ chan'["outer"].buf = Append(chan["outer"].buf, e)
         /\ chan'["outer"].closed = chan["outer"].closed /\ chan'["inner"] = chan["inner"]
         /\ chan' \in [Channels -> Chan] /\ sent' = Append(sent, e)
  <1>1. chan["outer"].buf \in Seq(Events) BY Chans
  <1>4. PICK b : b = Append(chan["outer"].buf, e) OBVIOUS
  <1>5. b \in Seq(Events) BY <1>1, <1>4, SMT
  <1>6. chan' = [chan EXCEPT !["outer"].buf = b] BY <1>4 DEF Push
  <1>7. sent' = Append(sent, e) BY DEF Push
  <1>8. "inner" \in Channels /\ "outer" \in Channels /\ "inner" # "outer" BY DEF Channels
  <1>. QED BY <1>4, <1>5, <1>6, <1>7, <1>8, Buffered

LEMMA Popped ==
  ASSUME Typed, NEW c \in Channels, Pop(c)
  PROVE  /\ chan[c].buf # <<>> /\ chan'[c].buf = Tail(chan[c].buf)
         /\ chan'[c].closed = chan[c].closed
         /\ \A d \in Channels : d # c => chan'[d] = chan[d]
         /\ chan' \in [Channels -> Chan]
  <1>1. chan[c].buf \in Seq(Events) BY Chans DEF Channels
  <1>2. chan[c].buf # <<>> BY DEF Pop
  <1>4. PICK b : b = Tail(chan[c].buf) OBVIOUS
  <1>5. b \in Seq(Events) BY <1>1, <1>2, <1>4, SMT
  <1>6. chan' = [chan EXCEPT ![c].buf = b] BY <1>4 DEF Pop
  <1>. QED BY <1>2, <1>4, <1>5, <1>6, Buffered

\* What the table of sent events says when one more is put on outer.
LEMMA OneMore ==
  ASSUME sent \in Seq(Events), NEW e \in Events, sent' = Append(sent, e)
  PROVE  /\ sent' \in Seq(Events)
         /\ \A x : Sent(x)' <=> Sent(x) \/ x = e
         /\ Done' <=> Done \/ Terminal(e)
         /\ TerminalIsLast /\ ~Done => TerminalIsLast'
         /\ \A x : /\ Cardinality(At(x)) \in Nat
                   /\ x # e => Cardinality(At(x)') = Cardinality(At(x))
                   /\ x = e => Cardinality(At(x)') = Cardinality(At(x)) + 1
         /\ Enforced' = Enforced /\ DraftStaysIn /\ (e = Draft => ~Enforced /\ ~Sent(Search))
               => DraftStaysIn'
  <1>. DEFINE n == Len(sent)
  <1>1. /\ n \in Nat /\ sent' \in Seq(Events) /\ Len(sent') = n + 1 /\ sent'[n + 1] = e
        /\ \A i \in 1 .. n : sent'[i] = sent[i] /\ i # n + 1
        /\ 1 .. Len(sent') = (1 .. n) \union {n + 1}
    BY SMT
  <1>. HIDE DEF n
  <1>n. n = Len(sent) BY DEF n
  <1>2. \A x : Sent(x)' <=> Sent(x) \/ x = e BY <1>1, <1>n, Zenon DEF Sent
  <1>3. Done' <=> Done \/ Terminal(e) BY <1>1, <1>n, Zenon DEF Done, Terminal
  <1>4. TerminalIsLast /\ ~Done => TerminalIsLast' BY <1>1, <1>n, Zenon DEF Done, TerminalIsLast, Terminal
  <1>5. \A x : /\ Cardinality(At(x)) \in Nat
               /\ x # e => Cardinality(At(x)') = Cardinality(At(x))
               /\ x = e => Cardinality(At(x)') = Cardinality(At(x)) + 1
    <2>. TAKE x
    <2>1. IsFiniteSet(1 .. n) BY <1>1, FS_Interval
    <2>2. IsFiniteSet(At(x)) /\ Cardinality(At(x)) \in Nat
      BY <1>n, <2>1, FS_Subset, FS_CardinalityType DEF At
    <2>3. ASSUME x # e PROVE At(x)' = At(x) BY <1>1, <1>n, <2>3 DEF At
    <2>4. ASSUME x = e PROVE At(x)' = At(x) \union {n + 1} BY <1>1, <1>n, <2>4 DEF At
    <2>5. n + 1 \notin At(x) BY <1>1, <1>n DEF At
    <2>6. Cardinality(At(x) \union {n + 1}) = Cardinality(At(x)) + 1
      BY <2>2, <2>5, FS_AddElement
    <2>. QED BY <2>2, <2>3, <2>4, <2>6
  <1>6. ASSUME Enforced' = Enforced, DraftStaysIn, e = Draft => ~Enforced /\ ~Sent(Search)
        PROVE  DraftStaysIn'
    <2>. SUFFICES ASSUME NEW i \in 1 .. Len(sent'), sent'[i] = Draft
                  PROVE  ~Enforced /\ \A j \in 1 .. (i - 1) : sent'[j] # Search
      BY <1>6 DEF DraftStaysIn, Draft, Search
    <2>1. CASE i \in 1 .. n
      <3>1. ~Enforced /\ \A j \in 1 .. (i - 1) : sent[j] # Search
        BY <1>1, <1>6, <1>n, <2>1 DEF DraftStaysIn, Draft, Search
      <3>2. \A j \in 1 .. (i - 1) : j \in 1 .. n BY <1>1, <2>1, SMT
      <3>. QED BY <1>1, <3>1, <3>2
    <2>2. CASE i = n + 1
      <3>1. \A j \in 1 .. (i - 1) : j \in 1 .. n BY <1>1, <2>2, SMT
      <3>2. ~Enforced /\ ~Sent(Search) BY <1>1, <1>6, <2>2
      <3>. QED BY <1>1, <1>n, <3>1, <3>2 DEF Sent
    <2>. QED BY <1>1, <2>1, <2>2
  <1>. QED BY <1>1, <1>2, <1>3, <1>4, <1>5, <1>6

-----------------------------------------------------------------------------
(* What the steps of a source make of its record.                            *)

Alike(s, k) ==
    /\ k.grounded = s.grounded /\ k.tag = s.tag /\ k.left = s.left /\ k.total = s.total
    /\ k.parts = s.parts

LEMMA MovedTyped ==
  ASSUME NEW s \in Src, NEW p \in Places
  PROVE  LET k == [s EXCEPT !.pc = p]
         IN  k \in Src /\ Alike(s, k) /\ k.pc = p /\ k.ev = s.ev /\ k.then = s.then
             /\ k.onDrop = s.onDrop
  BY SMT DEF Src, Alike

LEMMA WithEvent ==
  ASSUME NEW s \in Src, NEW e \in Events
  PROVE  LET k == [s EXCEPT !.ev = e]
         IN  k \in Src /\ Alike(s, k) /\ k.pc = s.pc /\ k.ev = e
  BY SMT DEF Src, Alike

LEMMA TerminalTyped ==
  ASSUME NEW s \in Src, NEW e \in Events
  PROVE  LET k == AtTerminal(s, e)
         IN  k \in Src /\ Alike(s, k) /\ k.pc = "terminal" /\ k.ev = e
  <1>. DEFINE k1 == [s EXCEPT !.pc = "terminal"]
              k2 == [k1 EXCEPT !.ev = e]
  <1>1. AtTerminal(s, e) = k2 BY DEF AtTerminal
  <1>2. "terminal" \in Places BY DEF Places
  <1>3. k1 \in Src /\ Alike(s, k1) /\ k1.pc = "terminal" BY <1>2, MovedTyped
  <1>. HIDE DEF k1
  <1>4. k2 \in Src /\ Alike(k1, k2) /\ k2.pc = k1.pc /\ k2.ev = e BY <1>3, WithEvent
  <1>. HIDE DEF k2
  <1>. QED BY <1>1, <1>3, <1>4 DEF Alike

LEMMA GoingTyped ==
  ASSUME NEW s \in Src, NEW e \in Events, NEW t \in Places, NEW o \in Places
  PROVE  LET k == Going(s, e, t, o)
         IN  k \in Src /\ Alike(s, k) /\ k.pc = "emit" /\ k.ev = e /\ k.then = t /\ k.onDrop = o
  <1>. DEFINE k1 == [s EXCEPT !.pc = "emit"]
              k2 == [k1 EXCEPT !.ev = e]
              k3 == [k2 EXCEPT !.then = t]
              k4 == [k3 EXCEPT !.onDrop = o]
  <1>1. Going(s, e, t, o) = k4 BY DEF Going
  <1>2. "emit" \in Places BY DEF Places
  <1>3. k1 \in Src /\ Alike(s, k1) /\ k1.pc = "emit" BY <1>2, MovedTyped
  <1>. HIDE DEF k1
  <1>4. k2 \in Src /\ Alike(k1, k2) /\ k2.pc = k1.pc /\ k2.ev = e BY <1>3, WithEvent
  <1>. HIDE DEF k2
  <1>5. k3 \in Src /\ Alike(k2, k3) /\ k3.pc = k2.pc /\ k3.ev = k2.ev /\ k3.then = t
    BY <1>4, SMTT(20) DEF Src, Alike
  <1>. HIDE DEF k3
  <1>6. /\ k4 \in Src /\ Alike(k3, k4) /\ k4.pc = k3.pc /\ k4.ev = k3.ev /\ k4.then = k3.then
        /\ k4.onDrop = o
    BY <1>5, SMT DEF Src, Alike
  <1>. HIDE DEF k4
  <1>. QED BY <1>1, <1>3, <1>4, <1>5, <1>6 DEF Alike

LEMMA SteppedTyped ==
  ASSUME Typed
  PROVE  Stepped \in Src /\ Alike(src, Stepped) /\ Stepped.pc = src.pc
  <1>1. src \in Src BY DEF Typed
  <1>2. src.steps + 1 \in Nat BY <1>1, SMT DEF Src
  <1>. QED BY <1>1, <1>2, SMT DEF Src, Alike, Stepped

\* A search result: grounding is on.
Searched(g, u) == [g EXCEPT !.grounded = TRUE, !.usable = u]
LEMMA SearchedTyped ==
  ASSUME NEW g \in Src, NEW u \in BOOLEAN
  PROVE  LET k == Searched(g, u)
         IN  /\ k \in Src /\ k.grounded /\ k.pc = g.pc /\ k.ev = g.ev /\ k.then = g.then
             /\ k.onDrop = g.onDrop /\ k.tag = g.tag /\ k.left = g.left /\ k.total = g.total
             /\ k.parts = g.parts
  <1>. DEFINE k1 == [g EXCEPT !.grounded = TRUE]
              k2 == [k1 EXCEPT !.usable = u]
  <1>1. Searched(g, u) = k2 BY DEF Searched
  <1>2. \A s \in Src, b \in BOOLEAN :
           /\ [s EXCEPT !.grounded = b] \in Src /\ [s EXCEPT !.usable = b] \in Src
    BY ZenonT(30) DEF Src
  <1>3. k1 \in Src BY <1>2
  <1>4. k1.grounded BY ZenonT(30) DEF Src
  <1>5. /\ k1.pc = g.pc /\ k1.ev = g.ev /\ k1.then = g.then /\ k1.onDrop = g.onDrop
        /\ k1.tag = g.tag /\ k1.left = g.left /\ k1.total = g.total /\ k1.parts = g.parts
    BY SMT DEF Src
  <1>. HIDE DEF k1
  <1>6. k2 \in Src BY <1>2, <1>3
  <1>7. k2.grounded = k1.grounded BY <1>3, ZenonT(30) DEF Src
  <1>8. /\ k2.pc = k1.pc /\ k2.ev = k1.ev /\ k2.then = k1.then /\ k2.onDrop = k1.onDrop
        /\ k2.tag = k1.tag /\ k2.left = k1.left /\ k2.total = k1.total /\ k2.parts = k1.parts
    BY <1>3, SMT DEF Src
  <1>. HIDE DEF k2
  <1>. QED BY <1>1, <1>3, <1>4, <1>5, <1>6, <1>7, <1>8

Validated(s, t, n) == [s EXCEPT !.pc = "answer", !.tag = t, !.left = n, !.total = n]
LEMMA ValidatedTyped ==
  ASSUME NEW s \in Src, NEW t \in Tags, NEW n \in Nat
  PROVE  LET k == Validated(s, t, n)
         IN  k \in Src /\ k.pc = "answer" /\ k.tag = t /\ k.left = n /\ k.total = n
             /\ k.grounded = s.grounded
  <1>. DEFINE k1 == [s EXCEPT !.pc = "answer"]
              k2 == [k1 EXCEPT !.tag = t]
              k3 == [k2 EXCEPT !.left = n]
              k4 == [k3 EXCEPT !.total = n]
  <1>1. Validated(s, t, n) = k4 BY DEF Validated
  <1>2. "answer" \in Places BY DEF Places
  <1>3. k1 \in Src /\ k1.grounded = s.grounded /\ k1.pc = "answer" BY <1>2, MovedTyped DEF Alike
  <1>. HIDE DEF k1
  <1>4. k2 \in Src /\ k2.grounded = k1.grounded /\ k2.pc = k1.pc /\ k2.tag = t BY <1>3, SMT DEF Src
  <1>. HIDE DEF k2
  <1>5. k3 \in Src /\ k3.grounded = k2.grounded /\ k3.pc = k2.pc /\ k3.tag = k2.tag /\ k3.left = n
    BY <1>4, SMTT(20) DEF Src
  <1>. HIDE DEF k3
  <1>6. k4 \in Src
    <2>1. \A x \in Src, m \in Nat : [x EXCEPT !.total = m] \in Src BY ZenonT(60) DEF Src
    <2>. QED BY <1>5, <2>1
  <1>7. /\ k4.grounded = k3.grounded /\ k4.pc = k3.pc /\ k4.tag = k3.tag
        /\ k4.left = k3.left /\ k4.total = n
    BY <1>5, SMT DEF Src
  <1>. HIDE DEF k4
  <1>. QED BY <1>1, <1>3, <1>4, <1>5, <1>6, <1>7

\* A record with less to send, or with another result.
LEMMA WithLeft ==
  ASSUME NEW s \in Src, NEW n \in Nat
  PROVE  LET k == [s EXCEPT !.left = n]
         IN  /\ k \in Src /\ k.grounded = s.grounded /\ k.pc = s.pc /\ k.ev = s.ev
             /\ k.then = s.then /\ k.onDrop = s.onDrop /\ k.tag = s.tag /\ k.left = n
             /\ k.total = s.total
  BY SMT DEF Src

LEMMA WithParts ==
  ASSUME NEW s \in Src, NEW p \in Seq(Events)
  PROVE  LET k == [s EXCEPT !.parts = p]
         IN  /\ k \in Src /\ k.grounded = s.grounded /\ k.pc = s.pc /\ k.ev = s.ev
             /\ k.then = s.then /\ k.onDrop = s.onDrop /\ k.tag = s.tag /\ k.left = s.left
             /\ k.total = s.total /\ k.parts = p
  BY SMTT(20) DEF Src

-----------------------------------------------------------------------------
(* Steps of the source that send nothing.                                    *)

others == <<route, required, ended, chan, sent, relay, reader, cancelled>>

LEMMA AddsKept ==
  ASSUME Inv, route \in RunnerRoutes, UNCHANGED others, src'.tag = src.tag, src'.left = src.left,
         src'.total = src.total, NEW a, a = Ev("text", src.tag), ~Sending(a), ~Sending(a)'
  PROVE  Adds'
  <1>1. Adds BY DEF Inv, AnswerFits
  <1>2. Ev("text", src.tag)' = a OBVIOUS
  <1>3. At(a)' = At(a) /\ (Passed(a)' <=> Passed(a)) /\ (Held(a)' <=> Held(a))
    BY DEF others, At, Passed, Held
  <1>4. One(Passed(a))' = One(Passed(a)) /\ One(Held(a))' = One(Held(a))
        /\ One(Sending(a))' = One(Sending(a))
    BY <1>3, Zenon DEF One
  <1>5. Coming(a)' = Coming(a) BY <1>4 DEF Coming
  <1>6. ended' = ended BY DEF others
  <1>. QED BY <1>1, <1>2, <1>3, <1>5, <1>6 DEF Adds

LEMMA SourceMoved ==
  ASSUME Inv, UNCHANGED others, src' \in Src, ~Ending(src), SourceFits', SourceEnds',
         src'.pc # "nil",
         src.grounded => src'.grounded,
         src'.pc = "terminal" /\ src'.ev = Canceled => Aside,
         route \in RunnerRoutes => (src'.total = 0 => src.total = 0) /\ Adds'
  PROVE  Inv'
  <1>1. Typed' BY DEF others, Inv, Typed
  <1>2. Done' = Done /\ Direct' = Direct BY DEF others, Done, Direct
  <1>3. RelayEnds' BY <1>2 DEF others, Inv, RelayEnds
  <1>4. InnerEnds'
    <2>. SUFFICES ASSUME route = "bounded" PROVE InnerEnds'
      BY DEF InnerEnds, others
    <2>1. /\ \A e \in Events : ~(chan["inner"].buf = <<e>> /\ Terminal(e))
          /\ ~(Done \/ relay.terminal \/ (relay.pc = "pass" /\ relay.then = "closing"))
      BY DEF Inv, InnerEnds
    <2>2. ~chan["inner"].closed BY DEF Inv, InnerEnds, Ending
    <2>. QED BY <1>2, <2>1, <2>2 DEF InnerEnds, others
  <1>5. Cancellation' BY DEF Inv, Cancellation, others, Aside, Told
  <1>6. Reading' BY <1>2 DEF Inv, Reading, ReaderLearnsTheEnd, others
  <1>7. TerminalIsLast' BY DEF Inv, TerminalIsLast, others
  <1>8. \A e : (Sent(e)' <=> Sent(e)) /\ (Passed(e)' <=> Passed(e)) /\ (Held(e)' <=> Held(e))
    BY DEF others, Sent, Passed, Held
  <1>9. DraftStaysIn' BY DEF Inv, Drafts, DraftStaysIn, others, Enforced
  <1>10. Drafts'
    <2>1. Draft' = Draft /\ Search' = Search BY DEF Draft, Search
    <2>2. Enforced' = Enforced BY DEF others, Enforced
    <2>. QED BY <1>8, <1>9, <2>1, <2>2 DEF Inv, Drafts
  <1>11. AnswerFits'
    <2>. SUFFICES ASSUME route \in RunnerRoutes PROVE AnswerFits'
      BY DEF AnswerFits, others
    <2>1. ~Sent(Completed) /\ ~Passed(Completed) /\ ~Held(Completed) BY DEF Inv, AnswerFits
    <2>2. src'.total = 0 => \A e \in Answers : ~Sent(e) /\ ~Passed(e) /\ ~Held(e)
      BY DEF Inv, AnswerFits
    <2>3. src'.total = 0 => \A e \in Answers : ~Sent(e)' /\ ~Passed(e)' /\ ~Held(e)'
      BY <1>8, <2>2
    <2>4. ~Sent(Completed)' /\ ~Passed(Completed)' /\ ~Held(Completed)' BY <1>8, <2>1
    <2>. QED BY <2>3, <2>4 DEF AnswerFits
  <1>. QED BY <1>1, <1>3, <1>4, <1>5, <1>6, <1>7, <1>10, <1>11 DEF Inv

-----------------------------------------------------------------------------
(* The runner.                                                               *)

LEMMA RouteOf ==
  ASSUME Inv
  PROVE  /\ route \in RunnerRoutes \/ route \in {"handler", "skill"} \/ route = "skill_stream"
            \/ route = "no_stream"
         /\ src.pc \in {"iterate", "validate", "answer", "terminal"} =>
               route \in RunnerRoutes /\ RunnerFits(src)
         /\ src.pc \in {"exec", "parts"} => route \in {"handler", "skill"} /\ HandlerFits(src)
         /\ src.pc \in {"foreign", "nil"} => route = "skill_stream" /\ ForeignFits(src)
  <1>1. route \in RunnerRoutes \/ route \in {"handler", "skill"} \/ route = "skill_stream"
        \/ route = "no_stream"
    BY ProtocolAssumption DEF ProtocolAssumption, Inv, Typed, RunnerRoutes
  <1>. QED BY <1>1 DEF Inv, SourceFits, RunnerFits, HandlerFits, ForeignFits

LEMMA RunnerMoved ==
  ASSUME Inv, route \in RunnerRoutes, UNCHANGED others, src' \in Src, ~Ending(src),
         RunnerFits(src'), ~Ending(src'), src.grounded => src'.grounded,
         src'.pc = "terminal" /\ src'.ev = Canceled => Aside,
         src'.total = 0 => src.total = 0, Adds'
  PROVE  Inv'
  <1>1. route' = route /\ required' = required /\ Enforced' = Enforced
    BY DEF others, Enforced
  <1>2. route \notin {"handler", "skill"} /\ route # "skill_stream" /\ route # "no_stream"
    BY DEF RunnerRoutes
  <1>3. SourceFits' BY <1>1, <1>2 DEF Inv, SourceFits
  <1>4. SourceEnds'
    <2>1. Done' = Done /\ Direct' = Direct BY DEF others, Done, Direct
    <2>2. RunnerFits(src) BY DEF Inv, SourceFits
    <2>3. Direct => ~Done /\ ~chan["outer"].closed
      BY <2>2 DEF Inv, SourceEnds, RunnerFits, Ending
    <2>4. src'.pc # "parts" /\ src'.pc # "end" BY DEF RunnerFits, Ending
    <2>. QED BY <2>1, <2>3, <2>4 DEF Inv, SourceEnds, others
  <1>5. src'.pc # "nil" BY DEF RunnerFits
  <1>. QED BY <1>3, <1>4, <1>5, SourceMoved

\* Before the answer is validated nothing of it can be on its way.
LEMMA Iterating ==
  ASSUME Inv, src.pc \in {"iterate", "validate"}
  PROVE  /\ route \in RunnerRoutes /\ RunnerFits(src) /\ ~Ending(src)
         /\ src.total = 0 /\ src.left = 0
         /\ \A e : ~Sending(e)
         /\ src \in Src
  BY RouteOf DEF RunnerFits, Ending, Sending, Inv, Typed

\* One step of the iteration ends in a record s that sends an event or is at the
\* terminal one.
LEMMA Iterated ==
  ASSUME Inv, src.pc \in {"iterate", "validate"}, UNCHANGED others, src' \in Src,
         src'.tag = src.tag, src'.left = src.left, src'.total = src.total,
         src'.pc \in {"iterate", "emit", "terminal"},
         src'.pc = "emit" => /\ src'.then \in {"iterate", "validate"}
                             /\ src'.onDrop \in {src'.then, "terminal"}
                             /\ ~Terminal(src'.ev) /\ src'.ev \in Events /\ src'.ev \notin Answers
                             /\ src'.ev = Draft => ~src'.grounded
                             /\ src'.ev = Search => src'.grounded,
         src'.pc = "terminal" => Terminal(src'.ev),
         src.grounded => src'.grounded,
         src'.pc = "terminal" /\ src'.ev = Canceled => Aside
  PROVE  Inv'
  <1>1. /\ route \in RunnerRoutes /\ ~Ending(src) /\ src.total = 0 /\ src.left = 0
        /\ \A e : ~Sending(e) /\ src \in Src
    BY Iterating
  <1>2. RunnerFits(src') BY <1>1 DEF RunnerFits
  <1>3. ~Ending(src') BY DEF Ending
  <1>4. PICK a : a = Ev("text", src.tag) OBVIOUS
  <1>5. a \in Answers BY <1>1, <1>4, SMT DEF Src, Tags, Answers
  <1>6. ~Terminal(a) BY <1>5, Kinds
  <1>7. ~Sending(a)' BY <1>5, <1>6 DEF Sending
  <1>8. Adds' BY <1>1, <1>4, <1>7, AddsKept
  <1>. QED BY <1>1, <1>2, <1>3, <1>8, RunnerMoved

LEMMA Silently ==
  ASSUME NEW s, SourceMoves(s)
  PROVE  src' = s /\ UNCHANGED others
  BY DEF SourceMoves, others

LEMMA ModelTextInv ==
  ASSUME Inv, ModelText
  PROVE  Inv'
  <1>1. src.pc = "iterate" /\ ~src.grounded BY DEF ModelText, Streams
  <1>2. PICK o \in {"terminal", "iterate"} :
           SourceMoves(Going(Stepped, Ev("text", "draft"), "iterate", o))
    BY DEF ModelText
  <1>. DEFINE k == Going(Stepped, Draft, "iterate", o)
  <1>3. src' = k /\ UNCHANGED others BY <1>2, Silently DEF Draft
  <1>4. Stepped \in Src /\ Alike(src, Stepped) BY SteppedTyped DEF Inv
  <1>5. o \in Places /\ "iterate" \in Places BY DEF Places
  <1>6. /\ k \in Src /\ Alike(Stepped, k) /\ k.pc = "emit" /\ k.ev = Draft
        /\ k.then = "iterate" /\ k.onDrop = o
    BY <1>4, <1>5, GoingTyped, Known
  <1>. HIDE DEF k
  <1>7. Alike(src, k) BY <1>4, <1>6 DEF Alike
  <1>8. /\ Draft \notin Answers /\ Draft # Search /\ ~Terminal(Draft) /\ Draft \in Events
    BY Kinds, Known
  <1>9. /\ src'.tag = src.tag /\ src'.left = src.left /\ src'.total = src.total
        /\ src'.grounded = src.grounded
    BY <1>3, <1>7 DEF Alike
  <1>10. /\ src' \in Src /\ src'.pc = "emit" /\ src'.ev = Draft /\ src'.then = "iterate"
         /\ src'.onDrop \in {src'.then, "terminal"}
    BY <1>3, <1>6
  <1>. QED BY <1>1, <1>3, <1>8, <1>9, <1>10, Iterated

LEMMA ModelDraftInv ==
  ASSUME Inv, ModelDraft
  PROVE  Inv'
  <1>1. src.pc = "iterate" /\ src' = Stepped /\ UNCHANGED others BY Silently DEF ModelDraft
  <1>2. Stepped \in Src /\ Alike(src, Stepped) /\ Stepped.pc = src.pc BY SteppedTyped DEF Inv
  <1>3. /\ src'.tag = src.tag /\ src'.left = src.left /\ src'.total = src.total
        /\ src'.grounded = src.grounded /\ src' \in Src /\ src'.pc = "iterate"
    BY <1>1, <1>2 DEF Alike
  <1>. QED BY <1>1, <1>3, Iterated

LEMMA ModelToolInv ==
  ASSUME Inv, ModelTool
  PROVE  Inv'
  <1>1. src.pc = "iterate" BY DEF ModelTool
  <1>2. Stepped \in Src /\ Alike(src, Stepped) BY SteppedTyped DEF Inv
  <1>3. "iterate" \in Places BY DEF Places
  <1>4. \A e \in Events :
           LET g == Going(Stepped, e, "iterate", "iterate")
           IN  /\ g \in Src /\ Alike(src, g) /\ g.pc = "emit" /\ g.ev = e
               /\ g.then = "iterate" /\ g.onDrop = "iterate"
    <2>. TAKE e \in Events
    <2>. DEFINE g == Going(Stepped, e, "iterate", "iterate")
    <2>1. /\ g \in Src /\ Alike(Stepped, g) /\ g.pc = "emit" /\ g.ev = e
          /\ g.then = "iterate" /\ g.onDrop = "iterate"
      BY <1>2, <1>3, GoingTyped
    <2>. HIDE DEF g
    <2>2. Alike(src, g) BY <1>2, <2>1 DEF Alike
    <2>. QED BY <2>1, <2>2 DEF g
  <1>5. CASE \E u \in BOOLEAN :
                SourceMoves([Going(Stepped, Ev("tool", "search"), "iterate", "iterate")
                                EXCEPT !.grounded = TRUE, !.usable = u])
    <2>1. PICK u \in BOOLEAN :
             SourceMoves(Searched(Going(Stepped, Search, "iterate", "iterate"), u))
      BY <1>5 DEF Searched, Search
    <2>2. PICK g : g = Going(Stepped, Search, "iterate", "iterate") OBVIOUS
    <2>3. /\ g \in Src /\ Alike(src, g) /\ g.pc = "emit" /\ g.ev = Search
          /\ g.then = "iterate" /\ g.onDrop = "iterate"
      BY <1>4, <2>2, Known
    <2>. DEFINE k == Searched(g, u)
    <2>4. src' = k /\ UNCHANGED others BY <2>1, <2>2, Silently
    <2>5. /\ k \in Src /\ k.grounded /\ k.pc = g.pc /\ k.ev = g.ev /\ k.then = g.then
          /\ k.onDrop = g.onDrop /\ k.tag = g.tag /\ k.left = g.left /\ k.total = g.total
      BY <2>3, SearchedTyped
    <2>. HIDE DEF k
    <2>6. /\ src'.tag = src.tag /\ src'.left = src.left /\ src'.total = src.total
          /\ src'.grounded
      BY <2>3, <2>4, <2>5 DEF Alike
    <2>7. /\ src' \in Src /\ src'.pc = "emit" /\ src'.ev = Search /\ src'.then = "iterate"
          /\ src'.onDrop = "iterate"
      BY <2>3, <2>4, <2>5
    <2>8. Search \notin Answers /\ Draft # Search /\ ~Terminal(Search) /\ Search \in Events
      BY Kinds, Known
    <2>. QED BY <1>1, <2>4, <2>6, <2>7, <2>8, Iterated
  <1>6. CASE SourceMoves(Going(Stepped, Ev("tool", "other"), "iterate", "iterate"))
    <2>1. PICK e : e = Ev("tool", "other") OBVIOUS
    <2>2. e \in Events /\ e \notin Answers /\ e # Draft /\ e # Search /\ ~Terminal(e)
      BY <2>1, Known, Kinds
    <2>. DEFINE g == Going(Stepped, e, "iterate", "iterate")
    <2>3. src' = g /\ UNCHANGED others BY <1>6, <2>1, Silently
    <2>4. /\ g \in Src /\ Alike(src, g) /\ g.pc = "emit" /\ g.ev = e
          /\ g.then = "iterate" /\ g.onDrop = "iterate"
      BY <1>4, <2>2
    <2>. HIDE DEF g
    <2>5. /\ src'.tag = src.tag /\ src'.left = src.left /\ src'.total = src.total
          /\ src'.grounded = src.grounded
      BY <2>3, <2>4 DEF Alike
    <2>. QED BY <1>1, <2>2, <2>3, <2>4, <2>5, Iterated
  <1>. QED BY <1>5, <1>6 DEF ModelTool

LEMMA Causes ==
  ASSUME Typed
  PROVE  \A c \in Contexts :
            /\ ended[c] \in {"none", "canceled", "deadline"}
            /\ ended[c] # "none" => Failed(ended[c]) \in Events
  <1>1. \A c \in Contexts : ended[c] \in {"none", "canceled", "deadline"} BY DEF Typed
  <1>. QED BY <1>1, Known

LEMMA IterationFailsInv ==
  ASSUME Inv, IterationFails
  PROVE  Inv'
  <1>1. src.pc = "iterate" BY DEF IterationFails
  <1>2. PICK x \in {"error", "deadline"} \cup ({ended["run"]} \ {"none"}) :
           SourceMoves(AtTerminal(src, Failed(x)))
    BY DEF IterationFails
  <1>3. "run" \in Contexts BY DEF Contexts
  <1>4. Failed(x) \in Events BY <1>2, <1>3, Known, Causes DEF Inv
  <1>5. Failed(x) = Canceled => Aside
    BY <1>2, <1>3, Kinds DEF Inv, Cancellation
  <1>. DEFINE k == AtTerminal(src, Failed(x))
  <1>6. src' = k /\ UNCHANGED others BY <1>2, Silently
  <1>7. k \in Src /\ Alike(src, k) /\ k.pc = "terminal" /\ k.ev = Failed(x)
    BY <1>4, TerminalTyped DEF Inv, Typed
  <1>. HIDE DEF k
  <1>8. /\ src'.tag = src.tag /\ src'.left = src.left /\ src'.total = src.total
        /\ src'.grounded = src.grounded
    BY <1>6, <1>7 DEF Alike
  <1>9. src' \in Src /\ src'.pc = "terminal" /\ src'.ev = Failed(x) BY <1>6, <1>7
  <1>10. Terminal(Failed(x)) BY Kinds
  <1>. QED BY <1>1, <1>5, <1>6, <1>8, <1>9, <1>10, Iterated

LEMMA IterationEndsInv ==
  ASSUME Inv, IterationEnds
  PROVE  Inv'
  <1>1. src.pc = "iterate" BY DEF IterationEnds
  <1>2. "validate" \in Places BY DEF Places
  <1>3. CASE src.grounded
    <2>1. PICK e : e = Ev("status", "none") OBVIOUS
    <2>2. e \in Events /\ e \notin Answers /\ e # Draft /\ e # Search /\ ~Terminal(e)
      BY <2>1, Known, Kinds
    <2>. DEFINE k == Going(src, e, "validate", "validate")
    <2>3. src' = k /\ UNCHANGED others BY <1>3, <2>1, Silently DEF IterationEnds
    <2>4. /\ k \in Src /\ Alike(src, k) /\ k.pc = "emit" /\ k.ev = e
          /\ k.then = "validate" /\ k.onDrop = "validate"
      BY <1>2, <2>2, GoingTyped DEF Inv, Typed
    <2>. HIDE DEF k
    <2>5. /\ src'.tag = src.tag /\ src'.left = src.left /\ src'.total = src.total
          /\ src'.grounded = src.grounded
      BY <2>3, <2>4 DEF Alike
    <2>. QED BY <1>1, <2>2, <2>3, <2>4, <2>5, Iterated
  <1>4. CASE ~src.grounded
    <2>. DEFINE k == AtTerminal(src, Completed)
    <2>1. src' = k /\ UNCHANGED others BY <1>4, Silently DEF IterationEnds
    <2>2. k \in Src /\ Alike(src, k) /\ k.pc = "terminal" /\ k.ev = Completed
      BY Known, TerminalTyped DEF Inv, Typed
    <2>. HIDE DEF k
    <2>3. /\ src'.tag = src.tag /\ src'.left = src.left /\ src'.total = src.total
          /\ src'.grounded = src.grounded
      BY <2>1, <2>2 DEF Alike
    <2>4. Terminal(Completed) /\ Completed # Canceled BY Kinds DEF Canceled
    <2>. QED BY <1>1, <2>1, <2>2, <2>3, <2>4, Iterated
  <1>. QED BY <1>3, <1>4

LEMMA ValidateInv ==
  ASSUME Inv, Validate
  PROVE  Inv'
  <1>1. src.pc = "validate" BY DEF Validate
  <1>2. /\ route \in RunnerRoutes /\ RunnerFits(src) /\ ~Ending(src) /\ src.total = 0
        /\ src.left = 0 /\ src \in Src /\ \A e : ~Sending(e)
    BY <1>1, Iterating
  <1>3. PICK t \in Tags, n \in Nat \ {0} : SourceMoves(Validated(src, t, n))
    <2>1. PICK p \in BOOLEAN :
             SourceMoves([src EXCEPT !.pc = "answer", !.tag = IF p THEN "answer" ELSE "refusal",
                                     !.left = IF p THEN AnswerChunks ELSE 1,
                                     !.total = IF p THEN AnswerChunks ELSE 1])
      BY DEF Validate
    <2>2. PICK t : t = IF p THEN "answer" ELSE "refusal" OBVIOUS
    <2>3. PICK n : n = IF p THEN AnswerChunks ELSE 1 OBVIOUS
    <2>4. t \in Tags BY <2>2 DEF Tags
    <2>5. n \in Nat \ {0} BY <2>3, ProtocolAssumption, SMT DEF ProtocolAssumption
    <2>6. SourceMoves(Validated(src, t, n)) BY <2>1, <2>2, <2>3 DEF Validated
    <2>. QED BY <2>4, <2>5, <2>6
  <1>. DEFINE k == Validated(src, t, n)
  <1>4. src' = k /\ UNCHANGED others BY <1>3, Silently
  <1>5. k \in Src /\ k.pc = "answer" /\ k.tag = t /\ k.left = n /\ k.total = n
        /\ k.grounded = src.grounded
    BY <1>2, ValidatedTyped
  <1>. HIDE DEF k
  <1>6. /\ src' \in Src /\ src'.pc = "answer" /\ src'.tag = t /\ src'.left = n /\ src'.total = n
        /\ src'.grounded = src.grounded
    BY <1>4, <1>5
  <1>7. RunnerFits(src') /\ ~Ending(src') BY <1>6 DEF RunnerFits, Ending
  <1>8. Adds'
    <2>1. PICK a : a = Ev("text", t) OBVIOUS
    <2>2. a \in Answers BY <2>1 DEF Tags, Answers
    <2>3. ~Sent(a) /\ ~Passed(a) /\ ~Held(a) BY <1>2, <2>2 DEF Inv, AnswerFits
    <2>4. At(a) = {} BY <2>3 DEF Sent, At
    <2>5. At(a)' = {} /\ ~Passed(a)' /\ ~Held(a)' BY <1>4, <2>3, <2>4 DEF others, At, Passed, Held
    <2>6. ~Sending(a)' BY <1>6 DEF Sending
    <2>7. Cardinality({}) = 0 BY FS_EmptySet
    <2>8. One(Passed(a))' = 0 /\ One(Held(a))' = 0 /\ One(Sending(a))' = 0
      BY <2>5, <2>6, Zenon DEF One
    <2>9. Coming(a)' = src'.left
      <3>1. Coming(a)' = One(Passed(a))' + One(Held(a))' + One(Sending(a))' + src'.left
        BY DEF Coming
      <3>2. Coming(a)' = 0 + 0 + 0 + src'.left BY <2>8, <3>1
      <3>3. src'.left \in Nat BY <1>6
      <3>. QED BY <3>2, <3>3, SMT
    <2>10. Cardinality(At(a))' = 0 BY <2>5, <2>7
    <2>11. Ev("text", src.tag)' = a BY <1>6, <2>1
    <2>12. Cardinality(At(a))' + Coming(a)' = src'.total BY <1>6, <2>9, <2>10, SMT
    <2>. QED BY <2>11, <2>12 DEF Adds
  <1>9. src'.total # 0 /\ src'.pc # "terminal" BY <1>6
  <1>. QED BY <1>2, <1>4, <1>6, <1>7, <1>8, <1>9, RunnerMoved

LEMMA AnswerChunkInv ==
  ASSUME Inv, AnswerChunk
  PROVE  Inv'
  <1>1. src.pc = "answer" BY DEF AnswerChunk
  <1>2. /\ route \in RunnerRoutes /\ RunnerFits(src) /\ ~Ending(src) /\ src \in Src
        /\ \A e : ~Sending(e)
    BY <1>1, RouteOf DEF Ending, Sending, Inv, Typed
  <1>3. PICK a : a = Ev("text", src.tag) OBVIOUS
  <1>4. a \in Answers BY <1>2, <1>3, SMT DEF Src, Tags, Answers
  <1>5. a \in Events /\ ~Terminal(a) /\ a # Draft /\ a # Search BY <1>4, Known, Kinds
  <1>6. src.left \in Nat BY <1>2, SMT DEF Src
  <1>7. CASE src.left > 0
    <2>. DEFINE g == Going(src, a, "answer", "answer")
                k == [g EXCEPT !.left = src.left - 1]
    <2>1. "answer" \in Places BY DEF Places
    <2>2. /\ g \in Src /\ Alike(src, g) /\ g.pc = "emit" /\ g.ev = a
          /\ g.then = "answer" /\ g.onDrop = "answer"
      BY <1>2, <1>5, <2>1, GoingTyped
    <2>3. src' = k /\ UNCHANGED others
      <3>1. [g EXCEPT !.left = @ - 1] = k BY <2>2 DEF Alike
      <3>2. SourceMoves([g EXCEPT !.left = @ - 1]) BY <1>3, <1>7 DEF AnswerChunk
      <3>. QED BY <3>1, <3>2, Silently
    <2>. HIDE DEF g
    <2>4. src.left - 1 \in Nat BY <1>6, <1>7, SMT
    <2>5. /\ k \in Src /\ k.grounded = g.grounded /\ k.pc = g.pc /\ k.ev = g.ev
          /\ k.then = g.then /\ k.onDrop = g.onDrop /\ k.tag = g.tag /\ k.left = src.left - 1
          /\ k.total = g.total
      BY <2>2, <2>4, WithLeft
    <2>. HIDE DEF k
    <2>6. /\ src' \in Src /\ src'.pc = "emit" /\ src'.ev = a /\ src'.then = "answer"
          /\ src'.onDrop = "answer" /\ src'.tag = src.tag /\ src'.left = src.left - 1
          /\ src'.total = src.total /\ src'.grounded = src.grounded
      BY <2>2, <2>3, <2>5 DEF Alike
    <2>7. src.total # 0 BY <1>2, <1>7, SMT DEF RunnerFits
    <2>8. RunnerFits(src') BY <1>3, <1>5, <2>6, <2>7 DEF RunnerFits
    <2>9. Adds'
      <3>1. Adds BY <1>2 DEF Inv, AnswerFits
      <3>2. /\ At(a)' = At(a) /\ (Passed(a)' <=> Passed(a)) /\ (Held(a)' <=> Held(a))
            /\ ended' = ended
        BY <2>3 DEF others, At, Passed, Held
      <3>3. Sending(a)' /\ ~Sending(a) BY <1>2, <2>6 DEF Sending
      <3>4. One(Passed(a))' = One(Passed(a)) /\ One(Held(a))' = One(Held(a))
            /\ One(Sending(a))' = 1 /\ One(Sending(a)) = 0
        BY <3>2, <3>3, Zenon DEF One
      <3>5. One(Passed(a)) \in Nat /\ One(Held(a)) \in Nat
        <4>1. \A b : One(b) = 0 \/ One(b) = 1 BY Zenon DEF One
        <4>. QED BY <4>1, SMT
      <3>6. Coming(a)' = One(Passed(a)) + One(Held(a)) + 1 + (src.left - 1)
        BY <2>6, <3>4 DEF Coming
      <3>7. Coming(a) = One(Passed(a)) + One(Held(a)) + 0 + src.left BY <3>4 DEF Coming
      <3>8. Coming(a)' = Coming(a) BY <1>6, <3>5, <3>6, <3>7, SMT
      <3>9. Ev("text", src.tag)' = a BY <1>3, <2>6
      <3>. QED BY <1>3, <2>6, <3>1, <3>2, <3>8, <3>9 DEF Adds
    <2>10. ~Ending(src') /\ src'.pc # "terminal" BY <2>6 DEF Ending
    <2>. QED BY <1>2, <2>3, <2>6, <2>8, <2>9, <2>10, RunnerMoved
  <1>8. CASE ~(src.left > 0)
    <2>. DEFINE k == AtTerminal(src, Completed)
    <2>1. src' = k /\ UNCHANGED others BY <1>8, Silently DEF AnswerChunk
    <2>2. k \in Src /\ Alike(src, k) /\ k.pc = "terminal" /\ k.ev = Completed
      BY <1>2, Known, TerminalTyped
    <2>. HIDE DEF k
    <2>3. /\ src'.tag = src.tag /\ src'.left = src.left /\ src'.total = src.total
          /\ src'.grounded = src.grounded
      BY <2>1, <2>2 DEF Alike
    <2>4. src' \in Src /\ src'.pc = "terminal" /\ src'.ev = Completed BY <2>1, <2>2
    <2>5. Terminal(Completed) /\ Completed # Canceled BY Kinds DEF Canceled
    <2>6. src.left = 0 BY <1>6, <1>8, SMT
    <2>7. RunnerFits(src') /\ ~Ending(src')
      BY <1>2, <2>3, <2>4, <2>5, <2>6 DEF RunnerFits, Ending
    <2>8. ~Sending(a)' BY <1>5, <2>4, <2>5 DEF Sending
    <2>9. Adds' BY <1>2, <1>3, <2>1, <2>3, <2>8, AddsKept
    <2>. QED BY <1>2, <2>1, <2>3, <2>4, <2>5, <2>7, <2>9, RunnerMoved
  <1>. QED BY <1>7, <1>8

-----------------------------------------------------------------------------
(* Handlers and skills.                                                      *)

LEMMA HandlerMoved ==
  ASSUME Inv, route \in {"handler", "skill"}, UNCHANGED others, src' \in Src, ~Ending(src),
         HandlerFits(src'), src'.grounded = src.grounded,
         Done => Ending(src') \/ (src'.pc = "parts" /\ src'.parts = <<>>),
         src'.pc = "parts" /\ src'.parts = <<>> => Done,
         Ending(src') /\ ended["chat"] = "none" => Done
  PROVE  Inv'
  <1>1. route' = route /\ required' = required /\ Enforced' = Enforced /\ ended' = ended /\ chan' = chan /\ relay' = relay
    BY DEF others, Enforced
  <1>2. route \notin RunnerRoutes /\ Direct BY DEF RunnerRoutes, RelayedRoutes, Direct
  <1>3. SourceFits' BY <1>1, <1>2 DEF Inv, SourceFits
  <1>4. Done' = Done /\ Direct' = Direct BY DEF others, Done, Direct
  <1>5. ~chan["outer"].closed BY <1>2 DEF Inv, SourceEnds, Ending
  <1>6. SourceEnds' BY <1>1, <1>2, <1>4, <1>5 DEF Inv, SourceEnds
  <1>7. src'.pc # "terminal" /\ src'.pc # "nil" BY DEF HandlerFits
  <1>. QED BY <1>2, <1>3, <1>6, <1>7, SourceMoved

LEMMA ForeignMoved ==
  ASSUME Inv, route = "skill_stream", UNCHANGED others, src' \in Src, ~Ending(src),
         ForeignFits(src'), src'.grounded = src.grounded, src'.pc # "nil"
  PROVE  Inv'
  <1>1. route' = route /\ required' = required /\ Enforced' = Enforced
    BY DEF others, Enforced
  <1>2. route \notin RunnerRoutes /\ ~Direct /\ ~Direct'
    BY <1>1 DEF RunnerRoutes, RelayedRoutes, Direct
  <1>3. SourceFits' BY <1>1, <1>2 DEF Inv, SourceFits
  <1>4. SourceEnds' BY <1>2 DEF SourceEnds
  <1>5. src'.pc # "terminal" BY DEF ForeignFits
  <1>. QED BY <1>2, <1>3, <1>4, <1>5, SourceMoved

LEMMA Rest ==
  ASSUME NEW p \in Seq(Events), Result(p)
  PROVE  /\ Head(p) \in Plain /\ Head(p) \in Events /\ Tail(p) \in Seq(Events)
         /\ IF Tail(p) = <<>> THEN Terminal(Head(p)) ELSE ~Terminal(Head(p)) /\ Result(Tail(p))
  <1>1. p # <<>> /\ \A i \in 1 .. Len(p) : p[i] \in Plain /\ (Terminal(p[i]) <=> i = Len(p))
    BY DEF Result
  <1>. DEFINE n == Len(p)
              q == Tail(p)
  <1>2. /\ n \in Nat /\ n # 0 /\ Head(p) = p[1] /\ q \in Seq(Events) /\ Len(q) = n - 1
        /\ \A i \in 1 .. Len(q) : q[i] = p[i + 1] /\ i + 1 \in 1 .. n /\ (i + 1 = n <=> i = Len(q))
    BY <1>1, SMT
  <1>3. 1 \in 1 .. n BY <1>2, SMT
  <1>4. Head(p) \in Plain /\ (Terminal(Head(p)) <=> n = 1) BY <1>1, <1>2, <1>3
  <1>5. Head(p) \in Events BY <1>4, Known
  <1>6. q = <<>> <=> n = 1
    <2>1. \A s \in Seq(Events) : s = <<>> <=> Len(s) = 0 BY SMT
    <2>2. q \in Seq(Events) /\ Len(q) = n - 1 /\ n \in Nat BY <1>2
    <2>. HIDE DEF n, q
    <2>3. Len(q) = 0 <=> n = 1 BY <2>2, SMT
    <2>. QED BY <2>1, <2>2, <2>3
  <1>7. q # <<>> => Result(q)
    <2>1. \A i \in 1 .. Len(q) : q[i] \in Plain /\ (Terminal(q[i]) <=> i = Len(q))
      BY <1>1, <1>2, Zenon
    <2>. QED BY <2>1 DEF Result
  <1>. QED BY <1>2, <1>4, <1>5, <1>6, <1>7

LEMMA OfParts == \A p \in Parts : p \in Seq(Events) /\ Result(p)
  <1>1. PICK c, f, t, x : c = Completed /\ f = Failed("error") /\ t = Ev("text", "plain")
                          /\ x = Ev("candidate", "none")
    OBVIOUS
  <1>2. /\ c \in Plain /\ f \in Plain /\ t \in Plain /\ x \in Plain
        /\ c \in Events /\ f \in Events /\ t \in Events /\ x \in Events
    BY <1>1, Known DEF Plain
  <1>3. Terminal(c) /\ Terminal(f) BY <1>1, Kinds
  <1>4. ~Terminal(t) /\ ~Terminal(x) BY <1>1, Distinct
  <1>5. ASSUME NEW q \in Seq(Events), \A i \in 1 .. Len(q) : q[i] \in Plain /\ ~Terminal(q[i]),
               NEW e, e \in Events, e \in Plain
        PROVE  LET r == Append(q, e)
               IN  /\ r \in Seq(Events) /\ r # <<>>
                   /\ Terminal(e) => Result(r)
                   /\ ~Terminal(e) => \A i \in 1 .. Len(r) : r[i] \in Plain /\ ~Terminal(r[i])
    <2>. DEFINE r == Append(q, e)
    <2>1. /\ r \in Seq(Events) /\ Len(r) = Len(q) + 1 /\ Len(q) \in Nat /\ r # <<>>
          /\ r[Len(q) + 1] = e /\ \A i \in 1 .. Len(q) : r[i] = q[i]
      BY <1>5, SMT
    <2>. HIDE DEF r
    <2>2. \A i \in 1 .. Len(r) : i \in 1 .. Len(q) \/ i = Len(q) + 1 BY <2>1, SMT
    <2>3. \A i \in 1 .. Len(q) : i # Len(r) BY <2>1, SMT
    <2>4. \A i \in 1 .. Len(r) : r[i] \in Plain /\ (Terminal(r[i]) <=> i = Len(q) + 1 /\ Terminal(e))
      <3>. SUFFICES ASSUME NEW i \in 1 .. Len(r)
                    PROVE  r[i] \in Plain /\ (Terminal(r[i]) <=> i = Len(q) + 1 /\ Terminal(e))
        OBVIOUS
      <3>1. CASE i \in 1 .. Len(q)
        <4>1. r[i] = q[i] /\ i # Len(q) + 1 BY <2>1, <2>3, <3>1
        <4>. QED BY <1>5, <3>1, <4>1
      <3>2. CASE i = Len(q) + 1 BY <1>5, <2>1, <3>2
      <3>. QED BY <2>2, <3>1, <3>2
    <2>5. Terminal(e) => Result(r) BY <2>1, <2>4 DEF Result
    <2>6. ~Terminal(e) => \A i \in 1 .. Len(r) : r[i] \in Plain /\ ~Terminal(r[i]) BY <2>4
    <2>7. r \in Seq(Events) /\ r # <<>> BY <2>1
    <2>. QED BY <2>5, <2>6, <2>7 DEF r
  <1>6. ASSUME NEW q \in Candidates
        PROVE  q \in Seq(Events) /\ \A i \in 1 .. Len(q) : q[i] \in Plain /\ ~Terminal(q[i])
    <2>1. PICK n \in Nat : q = [i \in 1 .. n |-> x]
      BY <1>1, ProtocolAssumption, SMT DEF Candidates
    <2>2. q \in Seq(Events) /\ Len(q) = n /\ \A i \in 1 .. n : q[i] = x
      BY <1>2, <2>1, SMT
    <2>. QED BY <1>2, <1>4, <2>2
  <1>7. <<f>> \in Seq(Events) /\ Result(<<f>>) BY <1>2, <1>3, SMT DEF Result
  <1>8. ASSUME NEW q \in Candidates
        PROVE  Append(q, c) \in Seq(Events) /\ Result(Append(q, c))
    BY <1>2, <1>3, <1>5, <1>6
  <1>9. ASSUME NEW q \in Candidates
        PROVE  Append(Append(q, t), c) \in Seq(Events) /\ Result(Append(Append(q, t), c))
    <2>1. PICK r : r = Append(q, t) OBVIOUS
    <2>2. r \in Seq(Events) /\ \A i \in 1 .. Len(r) : r[i] \in Plain /\ ~Terminal(r[i])
      BY <1>2, <1>4, <1>5, <1>6, <2>1
    <2>. QED BY <1>2, <1>3, <1>5, <2>1, <2>2
  <1>. QED BY <1>1, <1>7, <1>8, <1>9 DEF Parts

LEMMA HandlerReturnsInv ==
  ASSUME Inv, HandlerReturns
  PROVE  Inv'
  <1>1. src.pc = "exec" BY DEF HandlerReturns
  <1>2. PICK p \in Parts : SourceMoves([src EXCEPT !.pc = "parts", !.parts = p])
    BY DEF HandlerReturns
  <1>3. p \in Seq(Events) /\ Result(p) BY OfParts
  <1>. DEFINE k1 == [src EXCEPT !.pc = "parts"]
              k2 == [k1 EXCEPT !.parts = p]
  <1>4. src' = k2 /\ UNCHANGED others BY <1>2, Silently
  <1>5. "parts" \in Places BY DEF Places
  <1>6. k1 \in Src /\ Alike(src, k1) /\ k1.pc = "parts" BY <1>5, MovedTyped DEF Inv, Typed
  <1>. HIDE DEF k1
  <1>7. k2 \in Src /\ k2.grounded = k1.grounded /\ k2.pc = k1.pc /\ k2.parts = p
    BY <1>3, <1>6, WithParts
  <1>. HIDE DEF k2
  <1>8. src' \in Src /\ src'.grounded = src.grounded /\ src'.pc = "parts" /\ src'.parts = p
    BY <1>4, <1>6, <1>7 DEF Alike
  <1>9. p # <<>> BY <1>3 DEF Result
  <1>10. HandlerFits(src') /\ ~Ending(src') /\ ~Ending(src)
    BY <1>1, <1>3, <1>8 DEF HandlerFits, Ending
  <1>11. route \in {"handler", "skill"} BY <1>1, RouteOf
  <1>12. ~Done
    BY <1>1, <1>10, <1>11 DEF Inv, SourceEnds, Direct, RelayedRoutes
  <1>. QED BY <1>4, <1>8, <1>9, <1>10, <1>11, <1>12, HandlerMoved

LEMMA SendPartInv ==
  ASSUME Inv, SendPart
  PROVE  Inv'
  <1>1. src.pc = "parts" BY DEF SendPart
  <1>2. route \in {"handler", "skill"} /\ HandlerFits(src) /\ ~Ending(src)
    BY <1>1, RouteOf DEF Ending
  <1>3. src \in Src /\ src.parts \in Seq(Events) BY SMT DEF Inv, Typed, Src
  <1>4. Direct BY <1>2 DEF Direct, RelayedRoutes
  <1>5. CASE src.parts = <<>>
    <2>. DEFINE k == [src EXCEPT !.pc = "closing"]
    <2>1. src' = k /\ UNCHANGED others BY <1>5, Silently DEF SendPart
    <2>2. "closing" \in Places BY DEF Places
    <2>3. k \in Src /\ Alike(src, k) /\ k.pc = "closing" BY <1>3, <2>2, MovedTyped
    <2>. HIDE DEF k
    <2>4. src' \in Src /\ src'.grounded = src.grounded /\ src'.pc = "closing"
      BY <2>1, <2>3 DEF Alike
    <2>5. HandlerFits(src') /\ Ending(src') BY <2>4 DEF HandlerFits, Ending
    <2>6. Done BY <1>1, <1>4, <1>5 DEF Inv, SourceEnds
    <2>. QED BY <1>2, <2>1, <2>4, <2>5, <2>6, HandlerMoved
  <1>6. CASE src.parts # <<>>
    <2>1. PICK p, e, q : p = src.parts /\ e = Head(p) /\ q = Tail(p) OBVIOUS
    <2>2. p \in Seq(Events) /\ Result(p) BY <1>1, <1>2, <1>3, <1>6, <2>1 DEF HandlerFits
    <2>3. /\ e \in Plain /\ e \in Events /\ q \in Seq(Events)
          /\ IF q = <<>> THEN Terminal(e) ELSE ~Terminal(e) /\ Result(q)
      BY <2>1, <2>2, Rest
    <2>. DEFINE g == Going(src, e, "parts", "closing")
                k == [g EXCEPT !.parts = q]
    <2>4. "parts" \in Places /\ "closing" \in Places BY DEF Places
    <2>5. /\ g \in Src /\ Alike(src, g) /\ g.pc = "emit" /\ g.ev = e
          /\ g.then = "parts" /\ g.onDrop = "closing"
      BY <1>3, <2>3, <2>4, GoingTyped
    <2>6. src' = k /\ UNCHANGED others
      <3>1. [g EXCEPT !.parts = Tail(@)] = k BY <2>1, <2>5 DEF Alike
      <3>2. SourceMoves([g EXCEPT !.parts = Tail(@)]) BY <1>6, <2>1 DEF SendPart
      <3>. QED BY <3>1, <3>2, Silently
    <2>. HIDE DEF g
    <2>7. /\ k \in Src /\ k.grounded = g.grounded /\ k.pc = g.pc /\ k.ev = g.ev
          /\ k.then = g.then /\ k.onDrop = g.onDrop /\ k.parts = q
      BY <2>3, <2>5, WithParts
    <2>. HIDE DEF k
    <2>8. /\ src' \in Src /\ src'.grounded = src.grounded /\ src'.pc = "emit" /\ src'.ev = e
          /\ src'.then = "parts" /\ src'.onDrop = "closing" /\ src'.parts = q
      BY <2>5, <2>6, <2>7 DEF Alike
    <2>9. HandlerFits(src') /\ ~Ending(src') BY <2>3, <2>8 DEF HandlerFits, Ending
    <2>10. ~Done BY <1>2, <1>4, <1>6 DEF Inv, SourceEnds
    <2>11. src'.pc # "parts" BY <2>8
    <2>. QED BY <1>2, <2>6, <2>8, <2>9, <2>10, <2>11, HandlerMoved
  <1>. QED BY <1>5, <1>6

LEMMA SkillEventInv ==
  ASSUME Inv, SkillEvent
  PROVE  Inv'
  <1>1. src.pc = "foreign" BY DEF SkillEvent
  <1>2. route = "skill_stream" /\ ~Ending(src) BY <1>1, RouteOf DEF Ending
  <1>3. PICK e \in {Ev("text", "plain"), Completed, Failed("error")} :
           SourceMoves(Going(Stepped, e, "foreign", "foreign"))
    BY DEF SkillEvent
  <1>4. e \in Plain /\ e \in Events BY Known DEF Plain
  <1>5. Stepped \in Src /\ Alike(src, Stepped) BY SteppedTyped DEF Inv
  <1>6. "foreign" \in Places BY DEF Places
  <1>. DEFINE k == Going(Stepped, e, "foreign", "foreign")
  <1>7. src' = k /\ UNCHANGED others BY <1>3, Silently
  <1>8. /\ k \in Src /\ Alike(Stepped, k) /\ k.pc = "emit" /\ k.ev = e
        /\ k.then = "foreign" /\ k.onDrop = "foreign"
    BY <1>4, <1>5, <1>6, GoingTyped
  <1>. HIDE DEF k
  <1>9. /\ src' \in Src /\ src'.grounded = src.grounded /\ src'.pc = "emit" /\ src'.ev = e
        /\ src'.then = "foreign" /\ src'.onDrop = "foreign"
    BY <1>5, <1>7, <1>8 DEF Alike
  <1>10. ForeignFits(src') /\ src'.pc # "nil" BY <1>4, <1>9 DEF ForeignFits
  <1>. QED BY <1>2, <1>7, <1>9, <1>10, ForeignMoved

LEMMA SkillClosesInv ==
  ASSUME Inv, SkillCloses
  PROVE  Inv'
  <1>1. src.pc = "foreign" BY DEF SkillCloses
  <1>2. route = "skill_stream" /\ ~Ending(src) BY <1>1, RouteOf DEF Ending
  <1>. DEFINE k == [src EXCEPT !.pc = "closing"]
  <1>3. src' = k /\ UNCHANGED others BY Silently DEF SkillCloses
  <1>4. "closing" \in Places BY DEF Places
  <1>5. k \in Src /\ Alike(src, k) /\ k.pc = "closing" BY <1>4, MovedTyped DEF Inv, Typed
  <1>. HIDE DEF k
  <1>6. src' \in Src /\ src'.grounded = src.grounded /\ src'.pc = "closing"
    BY <1>3, <1>5 DEF Alike
  <1>7. ForeignFits(src') /\ src'.pc # "nil" BY <1>6 DEF ForeignFits
  <1>. QED BY <1>2, <1>3, <1>6, <1>7, ForeignMoved

\* A send that the end of the context cuts short.
LEMMA EmitDroppedInv ==
  ASSUME Inv, EmitDropped
  PROVE  Inv'
  <1>1. src.pc = "emit" /\ ended[SrcContext] # "none" /\ UNCHANGED others /\ ~Ending(src)
    BY DEF EmitDropped, GivesUp, others, Ending
  <1>2. src \in Src /\ src.onDrop \in Places BY SMT DEF Inv, Typed, Src
  <1>3. CASE src.onDrop = "terminal"
    <2>1. route \in RunnerRoutes
      BY <1>1, <1>3, RouteOf DEF Inv, SourceFits, HandlerFits, ForeignFits
    <2>2. RunnerFits(src) BY <2>1 DEF Inv, SourceFits
    <2>3. PICK x : x = ended["run"] OBVIOUS
    <2>4. SrcContext = "run" /\ "run" \in Contexts BY <2>1 DEF SrcContext, Contexts
    <2>5. Failed(x) \in Events /\ x # "none" BY <1>1, <2>3, <2>4, Causes DEF Inv
    <2>. DEFINE k == AtTerminal(src, Failed(x))
    <2>6. src' = k BY <1>3, <2>3, <2>4 DEF EmitDropped
    <2>7. k \in Src /\ Alike(src, k) /\ k.pc = "terminal" /\ k.ev = Failed(x)
      BY <1>2, <2>5, TerminalTyped
    <2>. HIDE DEF k
    <2>8. /\ src'.tag = src.tag /\ src'.left = src.left /\ src'.total = src.total
          /\ src'.grounded = src.grounded /\ src' \in Src /\ src'.pc = "terminal"
          /\ src'.ev = Failed(x)
      BY <2>6, <2>7 DEF Alike
    <2>9. Terminal(Failed(x)) /\ Failed(x) # Completed BY Kinds
    <2>10. Failed(x) = Canceled => Aside BY <2>3, <2>4, Kinds DEF Inv, Cancellation
    <2>11. RunnerFits(src') /\ ~Ending(src') BY <2>2, <2>8, <2>9 DEF RunnerFits, Ending
    <2>12. Adds' BY <1>1, <2>3, <2>5 DEF Adds, others
    <2>. QED BY <1>1, <2>1, <2>8, <2>10, <2>11, <2>12, RunnerMoved
  <1>4. CASE src.onDrop # "terminal"
    <2>. DEFINE k == [src EXCEPT !.pc = src.onDrop]
    <2>1. src' = k BY <1>4 DEF EmitDropped
    <2>2. k \in Src /\ Alike(src, k) /\ k.pc = src.onDrop BY <1>2, MovedTyped
    <2>. HIDE DEF k
    <2>3. /\ src'.tag = src.tag /\ src'.left = src.left /\ src'.total = src.total
          /\ src'.grounded = src.grounded /\ src' \in Src /\ src'.pc = src.onDrop
      BY <2>1, <2>2 DEF Alike
    <2>4. CASE route \in RunnerRoutes
      <3>1. RunnerFits(src) BY <2>4 DEF Inv, SourceFits
      <3>2. SrcContext = "run" BY <2>4 DEF SrcContext
      <3>3. RunnerFits(src') /\ ~Ending(src') /\ src'.pc # "terminal"
        BY <1>1, <1>4, <2>3, <3>1 DEF RunnerFits, Ending
      <3>4. Adds' BY <1>1, <3>2 DEF Adds, others
      <3>. QED BY <1>1, <2>3, <2>4, <3>3, <3>4, RunnerMoved
    <2>5. CASE route \in {"handler", "skill"}
      <3>1. src.onDrop = "closing" BY <1>1, <2>5 DEF Inv, SourceFits, HandlerFits
      <3>2. SrcContext = "chat" BY <2>5 DEF SrcContext, RunnerRoutes
      <3>3. HandlerFits(src') /\ Ending(src') BY <2>3, <3>1 DEF HandlerFits, Ending
      <3>4. ended["chat"] # "none" BY <1>1, <3>2
      <3>5. src'.pc # "parts" BY <2>3, <3>1
      <3>. QED BY <1>1, <2>3, <2>5, <3>3, <3>4, <3>5, HandlerMoved
    <2>6. CASE route = "skill_stream"
      <3>1. src.onDrop = "foreign" BY <1>1, <2>6 DEF Inv, SourceFits, ForeignFits
      <3>2. ForeignFits(src') /\ src'.pc # "nil" BY <2>3, <3>1 DEF ForeignFits
      <3>. QED BY <1>1, <2>3, <2>6, <3>2, ForeignMoved
    <2>7. CASE route = "no_stream" BY <1>1, <2>7 DEF Inv, SourceFits
    <2>. QED BY <2>4, <2>5, <2>6, <2>7, RouteOf
  <1>. QED BY <1>3, <1>4

-----------------------------------------------------------------------------
(* Sends of the source.                                                      *)

Sends == src.pc \in {"emit", "terminal"}

\* The event that is sent, and where the source goes from there.
LEMMA Outgoing ==
  ASSUME Inv, Sends, NEW p \in Places, src' = [src EXCEPT !.pc = p],
         IF src.pc = "emit" THEN p = src.then ELSE p = "closing",
         route' = route, required' = required, Enforced' = Enforced
  PROVE  /\ src' \in Src /\ src'.grounded = src.grounded /\ src'.tag = src.tag
         /\ src'.left = src.left /\ src'.total = src.total /\ src'.pc = p
         /\ src'.parts = src.parts
         /\ p \notin {"emit", "terminal", "nil"} /\ ~Ending(src)
         /\ src.ev \in Events /\ SourceFits'
         /\ src.ev = Search => src.grounded
         /\ src.ev = Draft => ~src.grounded /\ ~Enforced
         /\ src.ev = Canceled => Aside
         /\ route \in RunnerRoutes =>
               /\ src.ev \in Answers => src.total # 0
               /\ src.ev = Completed => src.left = 0
         /\ route # "skill_stream" =>
               (Terminal(src.ev) <=> p \in {"closing", "end"} \/ (p = "parts" /\ src.parts = <<>>))
  <1>1. src \in Src /\ src.ev \in Events \union {NoEvent} BY SMT DEF Inv, Typed, Src
  <1>. DEFINE k == [src EXCEPT !.pc = p]
  <1>2. k \in Src /\ Alike(src, k) /\ k.pc = p BY <1>1, MovedTyped
  <1>3. src' = k OBVIOUS
  <1>. HIDE DEF k
  <1>4. /\ src' \in Src /\ src'.grounded = src.grounded /\ src'.tag = src.tag
        /\ src'.left = src.left /\ src'.total = src.total /\ src'.pc = p
        /\ src'.parts = src.parts
    BY <1>2, <1>3 DEF Alike
  <1>5. ~Ending(src) BY DEF Sends, Ending
  <1>6. ~Terminal(NoEvent) BY Distinct DEF NoEvent
  <1>7. Terminal(Completed) /\ Terminal(Canceled) /\ \A e \in Answers \union {Draft, Search} : ~Terminal(e)
    BY Kinds
  <1>8. CASE route \in RunnerRoutes
    <2>1. RunnerFits(src) /\ (Enforced => src.grounded) BY <1>8 DEF Inv, SourceFits
    <2>2. /\ p \notin {"emit", "terminal", "nil"} /\ src.ev \in Events
          /\ src.ev = Search => src.grounded
          /\ src.ev = Draft => ~src.grounded /\ ~Enforced
          /\ src.ev = Canceled => Aside
          /\ src.ev \in Answers => src.total # 0
          /\ src.ev = Completed => src.left = 0
          /\ Terminal(src.ev) <=> src.pc = "terminal"
      BY <1>1, <1>6, <1>7, <2>1 DEF RunnerFits, Sends, Inv, Cancellation
    <2>3. p \in {"iterate", "validate", "answer", "closing"} /\ (p = "closing" <=> src.pc = "terminal")
      BY <2>1 DEF RunnerFits, Sends
    <2>4. RunnerFits(src') BY <1>4, <2>1, <2>3 DEF RunnerFits, Sends
    <2>5. SourceFits' BY <1>4, <1>8, <2>1, <2>4 DEF SourceFits, RunnerRoutes
    <2>. QED BY <1>4, <1>5, <2>2, <2>3, <2>5
  <1>9. CASE route \in {"handler", "skill"}
    <2>1. HandlerFits(src) /\ ~Enforced /\ ~src.grounded
      BY <1>9 DEF Inv, SourceFits, RunnerRoutes
    <2>2. src.pc = "emit" /\ src.ev \in Plain /\ p \in {"exec", "parts"} /\ p = src.then
      BY <2>1 DEF HandlerFits, Sends
    <2>3. src.ev \in Events /\ src.ev # Search /\ src.ev # Draft /\ src.ev # Canceled
      BY <2>2, Known, Kinds
    <2>4. Terminal(src.ev) <=> p = "parts" /\ src.parts = <<>> BY <2>1, <2>2 DEF HandlerFits
    <2>5. HandlerFits(src') BY <1>4, <2>1, <2>2 DEF HandlerFits
    <2>6. SourceFits' BY <1>4, <1>9, <2>1, <2>5 DEF SourceFits, RunnerRoutes
    <2>7. route \notin RunnerRoutes BY <1>9 DEF RunnerRoutes
    <2>. QED BY <1>4, <1>5, <2>2, <2>3, <2>4, <2>6, <2>7
  <1>10. CASE route = "skill_stream"
    <2>1. ForeignFits(src) /\ ~Enforced /\ ~src.grounded
      BY <1>10 DEF Inv, SourceFits, RunnerRoutes
    <2>2. src.pc = "emit" /\ src.ev \in Plain /\ p = "foreign"
      BY <2>1 DEF ForeignFits, Sends
    <2>3. src.ev \in Events /\ src.ev # Search /\ src.ev # Draft /\ src.ev # Canceled
      BY <2>2, Known, Kinds
    <2>5. ForeignFits(src') BY <1>4, <2>1, <2>2 DEF ForeignFits
    <2>6. SourceFits' BY <1>4, <1>10, <2>1, <2>5 DEF SourceFits, RunnerRoutes
    <2>7. route \notin RunnerRoutes BY <1>10 DEF RunnerRoutes
    <2>. QED BY <1>4, <1>5, <1>10, <2>2, <2>3, <2>6, <2>7
  <1>11. CASE route = "no_stream" BY <1>11 DEF Inv, SourceFits, Sends
  <1>. QED BY <1>8, <1>9, <1>10, <1>11, RouteOf

LEMMA OneIs == \A b \in BOOLEAN : One(b) \in Nat /\ (b => One(b) = 1) /\ (~b => One(b) = 0)
  BY SMT DEF One

\* A chunk of the answer is counted wherever it is.
LEMMA Balance ==
  ASSUME Adds, ended["run"]' = "none" => ended["run"] = "none",
         src'.tag = src.tag, src'.left = src.left, src'.total = src.total,
         NEW a, a = Ev("text", src.tag),
         ended["run"]' = "none" =>
           Cardinality(At(a)') + One(Passed(a)') + One(Held(a)') + One(Sending(a)')
           = Cardinality(At(a)) + One(Passed(a)) + One(Held(a)) + One(Sending(a)),
         src.left \in Nat,
         Cardinality(At(a)) \in Nat, Cardinality(At(a)') \in Nat
  PROVE  Adds'
  <1>. SUFFICES ASSUME ended["run"]' = "none"
                PROVE  Cardinality(At(a)') + Coming(a)' = src.total
    <2>1. Ev("text", src.tag)' = a OBVIOUS
    <2>. QED BY <2>1 DEF Adds
  <1>1. Cardinality(At(a)) + Coming(a) = src.total BY DEF Adds
  <1>2. PICK c1, p1, h1, s1, c2, p2, h2, s2 :
           /\ c1 = Cardinality(At(a)) /\ p1 = One(Passed(a)) /\ h1 = One(Held(a))
           /\ s1 = One(Sending(a))
           /\ c2 = Cardinality(At(a)') /\ p2 = One(Passed(a)') /\ h2 = One(Held(a)')
           /\ s2 = One(Sending(a)')
    OBVIOUS
  <1>3. \A b : One(b) = 0 \/ One(b) = 1 BY Zenon DEF One
  <1>4. /\ c1 \in Nat /\ c2 \in Nat /\ p1 \in Nat /\ h1 \in Nat /\ s1 \in Nat
        /\ p2 \in Nat /\ h2 \in Nat /\ s2 \in Nat
    BY <1>2, <1>3, SMT
  <1>5. Coming(a) = p1 + h1 + s1 + src.left BY <1>2 DEF Coming
  <1>6. Coming(a)' = p2 + h2 + s2 + src.left
    <2>1. Coming(a)' = One(Passed(a))' + One(Held(a))' + One(Sending(a))' + src'.left BY DEF Coming
    <2>2. One(Passed(a))' = p2 /\ One(Held(a))' = h2 /\ One(Sending(a))' = s2
      BY <1>2, Zenon DEF One
    <2>. QED BY <2>1, <2>2
  <1>7. c2 + p2 + h2 + s2 = c1 + p1 + h1 + s1 BY <1>2
  <1>8. c1 + (p1 + h1 + s1 + src.left) = src.total BY <1>1, <1>2, <1>5
  <1>9. c2 + (p2 + h2 + s2 + src.left) = src.total BY <1>4, <1>7, <1>8, SMT
  <1>. QED BY <1>2, <1>6, <1>9

LEMMA Counted ==
  ASSUME Typed, NEW x
  PROVE  Cardinality(At(x)) \in Nat
  <1>1. PICK n : n = Len(sent) OBVIOUS
  <1>2. n \in Nat BY <1>1, SMT DEF Typed
  <1>3. n \in Int /\ 1 \in Int BY <1>2, SMT
  <1>4. IsFiniteSet(1 .. n) BY <1>3, FS_Interval
  <1>5. At(x) \subseteq 1 .. n BY <1>1 DEF At
  <1>. QED BY <1>4, <1>5, FS_Subset, FS_CardinalityType

\* A source without a relay.
LEMMA SendsOut ==
  ASSUME Inv, Direct, Sends, NEW p \in Places, src' = [src EXCEPT !.pc = p],
         IF src.pc = "emit" THEN p = src.then ELSE p = "closing",
         Push("outer", src.ev),
         UNCHANGED <<route, required, ended, relay, reader, cancelled>>
  PROVE  Inv'
  <1>. PICK e : e = src.ev OBVIOUS
  <1>e. e = src.ev OBVIOUS
  <1>1. /\ route' = route /\ required' = required /\ Enforced' = Enforced /\ ended' = ended /\ relay' = relay
        /\ reader' = reader /\ cancelled' = cancelled
    BY DEF Enforced
  <1>2. /\ src' \in Src /\ src'.grounded = src.grounded /\ src'.tag = src.tag
        /\ src'.left = src.left /\ src'.total = src.total /\ src'.pc = p
        /\ src'.parts = src.parts
        /\ p \notin {"emit", "terminal", "nil"} /\ ~Ending(src)
        /\ e \in Events /\ SourceFits'
        /\ e = Search => src.grounded
        /\ e = Draft => ~src.grounded /\ ~Enforced
        /\ e = Canceled => Aside
        /\ route \in RunnerRoutes =>
              /\ e \in Answers => src.total # 0
              /\ e = Completed => src.left = 0
        /\ route # "skill_stream" =>
              (Terminal(e) <=> p \in {"closing", "end"} \/ (p = "parts" /\ src.parts = <<>>))
    BY <1>e, <1>1, Outgoing
  <1>3. Typed BY DEF Inv
  <1>4. Push("outer", e) BY <1>e
  <1>5. /\ chan'["outer"].buf = Append(chan["outer"].buf, e)
        /\ chan'["outer"].closed = chan["outer"].closed /\ chan'["inner"] = chan["inner"]
        /\ chan' \in [Channels -> Chan] /\ sent' = Append(sent, e)
    BY <1>2, <1>3, <1>4, OuterPushed
  <1>6. sent \in Seq(Events) /\ chan["outer"].buf \in Seq(Events) BY <1>3, Chans DEF Typed
  <1>7. /\ sent' \in Seq(Events)
        /\ \A x : Sent(x)' <=> Sent(x) \/ x = e
        /\ Done' <=> Done \/ Terminal(e)
        /\ TerminalIsLast /\ ~Done => TerminalIsLast'
        /\ \A x : /\ Cardinality(At(x)) \in Nat
                  /\ x # e => Cardinality(At(x)') = Cardinality(At(x))
                  /\ x = e => Cardinality(At(x)') = Cardinality(At(x)) + 1
        /\ Enforced' = Enforced /\ DraftStaysIn /\ (e = Draft => ~Enforced /\ ~Sent(Search))
              => DraftStaysIn'
    BY <1>2, <1>5, <1>6, OneMore
  <1>8. route \notin RelayedRoutes /\ route # "skill_stream" /\ route # "bounded" /\ Direct'
    BY <1>1 DEF Direct, RelayedRoutes
  <1>9. ~Done /\ ~chan["outer"].closed /\ relay.pc = "end" /\ chan["inner"] = Empty
    BY DEF Inv, SourceEnds, Sends, Ending
  <1>10. \A x : ~Passed(x) /\ ~Held(x) /\ ~Passed(x)' /\ ~Held(x)'
    <2>1. \A x : <<>> # <<x>> BY SMT
    <2>. QED BY <1>1, <1>5, <1>9, <2>1 DEF Passed, Held, Empty
  <1>11. Typed' BY <1>1, <1>2, <1>3, <1>5, <1>7 DEF Typed
  <1>12. SourceEnds' BY <1>1, <1>2, <1>5, <1>7, <1>8, <1>9 DEF SourceEnds, Ending
  <1>13. RelayEnds' /\ InnerEnds' BY <1>1, <1>8 DEF RelayEnds, InnerEnds
  <1>14. Cancellation'
    <2>1. Told' = Told /\ Aside' = Aside /\ Aside = Told BY <1>1, <1>8 DEF Told, Aside
    <2>2. \A i \in 1 .. Len(chan'["outer"].buf) : chan'["outer"].buf[i] = Canceled => Told
      <3>1. PICK b, c : b = chan["outer"].buf /\ c = chan'["outer"].buf OBVIOUS
      <3>2. b \in Seq(Events) /\ c = Append(b, e) BY <1>5, <1>6, <3>1
      <3>3. \A i \in 1 .. Len(c) : (i \in 1 .. Len(b) /\ c[i] = b[i]) \/ c[i] = e
        BY <3>2, SMT
      <3>4. \A i \in 1 .. Len(b) : b[i] = Canceled => Told BY <3>1 DEF Inv, Cancellation
      <3>. QED BY <1>2, <2>1, <3>1, <3>3, <3>4
    <2>3. src'.pc # "terminal" BY <1>2
    <2>. QED BY <1>1, <1>5, <2>1, <2>2, <2>3 DEF Inv, Cancellation
  <1>15. Reading'
    <2>1. PICK b, c : b = chan["outer"].buf /\ c = chan'["outer"].buf OBVIOUS
    <2>2. b \in Seq(Events) /\ c = Append(b, e) BY <1>5, <1>6, <2>1
    <2>3. c # <<>> /\ c[Len(c)] = e BY <2>2, SMT
    <2>. QED BY <1>1, <1>7, <1>9, <2>1, <2>3 DEF Inv, Reading, ReaderLearnsTheEnd
  <1>16. TerminalIsLast' BY <1>7, <1>9 DEF Inv
  <1>17. Drafts'
    <2>1. Draft' = Draft /\ Search' = Search BY DEF Draft, Search
    <2>2. Sent(Search) => src.grounded BY DEF Inv, Drafts
    <2>3. DraftStaysIn' BY <1>1, <1>2, <1>7, <2>2 DEF Inv, Drafts
    <2>4. Sent(Search)' => src'.grounded BY <1>2, <1>7, <2>2
    <2>. QED BY <1>10, <2>1, <2>3, <2>4 DEF Drafts
  <1>18. AnswerFits'
    <2>. SUFFICES ASSUME route \in RunnerRoutes PROVE AnswerFits'
      BY <1>1 DEF AnswerFits
    <2>1. src'.total = 0 => \A x \in Answers : ~Sent(x)' BY <1>2, <1>7 DEF Inv, AnswerFits
    <2>2. Sent(Completed)' => src'.left = 0 /\ Ending(src')
      <3>1. ~Sent(Completed) BY <1>2 DEF Inv, AnswerFits
      <3>2. e = Completed => Ending(src')
        BY <1>2, <1>8, <2>1, Kinds
           DEF Ending, Inv, SourceFits, RunnerFits, HandlerFits, Sends, RunnerRoutes
      <3>. QED BY <1>2, <1>7, <3>1, <3>2
    <2>3. Adds'
      <3>1. PICK a : a = Ev("text", src.tag) OBVIOUS
      <3>2. Sending(a)' = FALSE BY <1>2 DEF Sending
      <3>3. Sending(a) <=> a = e BY <1>e DEF Sending, Sends
      <3>4. /\ Cardinality(At(a)) \in Nat /\ Cardinality(At(a)') \in Nat
            /\ IF a = e THEN Cardinality(At(a)') = Cardinality(At(a)) + 1
               ELSE Cardinality(At(a)') = Cardinality(At(a))
        BY <1>7, SMT
      <3>5. /\ One(Passed(a)) = 0 /\ One(Held(a)) = 0 /\ One(Passed(a)') = 0 /\ One(Held(a)') = 0
            /\ One(Sending(a)') = 0
            /\ One(Sending(a)) = IF a = e THEN 1 ELSE 0
        BY <1>10, <3>2, <3>3, Zenon DEF One
      <3>6. Cardinality(At(a)') + One(Passed(a)') + One(Held(a)') + One(Sending(a)')
            = Cardinality(At(a)) + One(Passed(a)) + One(Held(a)) + One(Sending(a))
        BY <3>4, <3>5, SMT
      <3>7. Adds /\ src.left \in Nat BY <1>3, SMT DEF Inv, AnswerFits, Typed, Src
      <3>8. ended["run"]' = "none" => ended["run"] = "none" BY <1>1
      <3>. QED BY <1>2, <3>1, <3>4, <3>6, <3>7, <3>8, Balance
    <2>. QED BY <1>10, <2>1, <2>2, <2>3 DEF AnswerFits
  <1>19. Typed' /\ SourceFits' /\ SourceEnds' /\ RelayEnds' /\ InnerEnds'
    BY <1>2, <1>11, <1>12, <1>13
  <1>20. Cancellation' /\ Reading' /\ TerminalIsLast' /\ Drafts' /\ AnswerFits'
    BY <1>14, <1>15, <1>16, <1>17, <1>18
  <1>. QED BY <1>19, <1>20 DEF Inv

\* A source with a relay.
LEMMA SendsIn ==
  ASSUME Inv, ~Direct, Sends, NEW p \in Places, src' = [src EXCEPT !.pc = p],
         IF src.pc = "emit" THEN p = src.then ELSE p = "closing",
         Push("inner", src.ev),
         UNCHANGED <<route, required, ended, relay, reader, cancelled>>
  PROVE  Inv'
  <1>. PICK e : e = src.ev OBVIOUS
  <1>e. e = src.ev OBVIOUS
  <1>1. /\ route' = route /\ required' = required /\ Enforced' = Enforced /\ ended' = ended /\ relay' = relay
        /\ reader' = reader /\ cancelled' = cancelled
    BY DEF Enforced
  <1>2. /\ src' \in Src /\ src'.grounded = src.grounded /\ src'.tag = src.tag
        /\ src'.left = src.left /\ src'.total = src.total /\ src'.pc = p
        /\ p \notin {"emit", "terminal", "nil"} /\ ~Ending(src)
        /\ e \in Events /\ SourceFits'
        /\ e = Search => src.grounded
        /\ e = Draft => ~src.grounded /\ ~Enforced
        /\ e = Canceled => Aside
        /\ route \in RunnerRoutes =>
              /\ e \in Answers => src.total # 0
              /\ e = Completed => src.left = 0
        /\ route # "skill_stream" =>
              (Terminal(e) <=> p \in {"closing", "end"} \/ (p = "parts" /\ src.parts = <<>>))
    BY <1>e, <1>1, Outgoing
  <1>3. Typed BY DEF Inv
  <1>4. Push("inner", e) BY <1>e
  <1>5. /\ chan["inner"].buf = <<>> /\ chan'["inner"].buf = <<e>>
        /\ chan'["inner"].closed = chan["inner"].closed /\ chan'["outer"] = chan["outer"]
        /\ chan' \in [Channels -> Chan] /\ sent' = sent
    BY <1>2, <1>3, <1>4, InnerPushed
  <1>6. ~Direct' /\ (route = "bounded" \/ route = "skill_stream") /\ Done' = Done
    BY <1>1, <1>5 DEF Direct, RelayedRoutes, Done
  <1>7. /\ \A x : ~Held(x) /\ (Held(x)' <=> x = e)
        /\ \A x : (Passed(x)' <=> Passed(x)) /\ (Sent(x)' <=> Sent(x)) /\ At(x)' = At(x)
    <2>1. \A x : <<>> # <<x>> /\ (<<e>> = <<x>> <=> x = e) BY SMT
    <2>. QED BY <1>1, <1>5, <2>1 DEF Held, Passed, Sent, At
  <1>8. Typed' BY <1>1, <1>2, <1>3, <1>5 DEF Typed
  <1>9. route = "bounded" => (Terminal(e) => Ending(src')) /\ Ending(src') = (p = "closing")
    <2>1. route = "bounded" => RunnerFits(src) /\ p # "parts" /\ p # "end"
      BY DEF Inv, SourceFits, RunnerRoutes, RunnerFits, Sends
    <2>. QED BY <1>2, <2>1 DEF Ending
  <1>10. SourceEnds' BY <1>6 DEF SourceEnds
  <1>11. RelayEnds' BY <1>1, <1>2, <1>5, <1>6 DEF Inv, RelayEnds
  <1>12. InnerEnds'
    <2>. SUFFICES ASSUME route = "bounded" PROVE InnerEnds'
      BY <1>1 DEF InnerEnds
    <2>1. /\ ~(Done \/ relay.terminal \/ (relay.pc = "pass" /\ relay.then = "closing"))
          /\ ~chan["inner"].closed
      BY <1>2 DEF Inv, InnerEnds, Ending
    <2>2. \A x : chan'["inner"].buf = <<x>> => x = e BY <1>7 DEF Held
    <2>. QED BY <1>1, <1>5, <1>6, <1>9, <2>1, <2>2 DEF InnerEnds
  <1>13. Cancellation'
    <2>1. Told' = Told /\ Aside' = Aside BY <1>1 DEF Told, Aside
    <2>2. chan'["inner"].buf = <<Canceled>> => Aside BY <1>2, <1>7 DEF Held
    <2>. QED BY <1>1, <1>2, <1>5, <2>1, <2>2 DEF Inv, Cancellation
  <1>14. Reading' BY <1>1, <1>5, <1>6 DEF Inv, Reading, ReaderLearnsTheEnd
  <1>15. TerminalIsLast' BY <1>5 DEF Inv, TerminalIsLast
  <1>16. Drafts'
    <2>1. Draft' = Draft /\ Search' = Search BY DEF Draft, Search
    <2>2. DraftStaysIn' BY <1>1, <1>5 DEF Inv, Drafts, DraftStaysIn
    <2>3. Sent(Search)' \/ Passed(Search)' \/ Held(Search)' => src'.grounded
      BY <1>2, <1>7 DEF Inv, Drafts
    <2>4. Held(Draft)' => ~Enforced /\ ~Sent(Search) /\ ~Passed(Search)
      BY <1>2, <1>7 DEF Inv, Drafts
    <2>5. Passed(Draft)' => ~Enforced /\ ~Sent(Search) BY <1>7 DEF Inv, Drafts
    <2>. QED BY <1>1, <1>7, <2>1, <2>2, <2>3, <2>4, <2>5 DEF Drafts
  <1>17. AnswerFits'
    <2>. SUFFICES ASSUME route \in RunnerRoutes PROVE AnswerFits'
      BY <1>1 DEF AnswerFits
    <2>0. route = "bounded" BY <1>6 DEF RunnerRoutes
    <2>1. src'.total = 0 => \A x \in Answers : ~Sent(x)' /\ ~Passed(x)' /\ ~Held(x)'
      BY <1>2, <1>7 DEF Inv, AnswerFits
    <2>2. Sent(Completed)' \/ Passed(Completed)' \/ Held(Completed)' => src'.left = 0 /\ Ending(src')
      <3>1. ~Sent(Completed) /\ ~Passed(Completed) BY <1>2 DEF Inv, AnswerFits
      <3>2. e = Completed => Ending(src') BY <1>9, <2>0, Kinds
      <3>. QED BY <1>2, <1>7, <3>1, <3>2
    <2>3. Adds'
      <3>1. PICK a : a = Ev("text", src.tag) OBVIOUS
      <3>2. Sending(a)' = FALSE BY <1>2 DEF Sending
      <3>3. Sending(a) <=> a = e BY <1>e DEF Sending, Sends
      <3>5. Cardinality(At(a)) \in Nat BY <1>3, Counted
      <3>6. /\ One(Held(a)) = 0 /\ One(Sending(a)') = 0
            /\ One(Held(a)') = (IF a = e THEN 1 ELSE 0)
            /\ One(Sending(a)) = (IF a = e THEN 1 ELSE 0)
            /\ One(Passed(a)') = One(Passed(a))
        BY <1>7, <3>2, <3>3, Zenon DEF One
      <3>7. One(Passed(a)) = 0 \/ One(Passed(a)) = 1 BY Zenon DEF One
      <3>8. At(a)' = At(a) BY <1>7
      <3>9. PICK c, b : c = Cardinality(At(a)) /\ b = One(Passed(a)) OBVIOUS
      <3>10. c + b + One(Held(a)') + 0 = c + b + 0 + One(Sending(a))
        BY <3>5, <3>6, <3>7, <3>9, SMT
      <3>11. Cardinality(At(a)') + One(Passed(a)') + One(Held(a)') + One(Sending(a)')
            = Cardinality(At(a)) + One(Passed(a)) + One(Held(a)) + One(Sending(a))
        BY <3>6, <3>8, <3>9, <3>10
      <3>12. Adds /\ src.left \in Nat BY <1>3, SMT DEF Inv, AnswerFits, Typed, Src
      <3>13. ended["run"]' = "none" => ended["run"] = "none" BY <1>1
      <3>14. Cardinality(At(a)') \in Nat BY <3>5, <3>8
      <3>. QED BY <1>2, <3>1, <3>5, <3>11, <3>12, <3>13, <3>14, Balance
    <2>. QED BY <2>1, <2>2, <2>3 DEF AnswerFits
  <1>19. Typed' /\ SourceFits' /\ SourceEnds' /\ RelayEnds' /\ InnerEnds'
    BY <1>2, <1>8, <1>10, <1>11, <1>12
  <1>20. Cancellation' /\ Reading' /\ TerminalIsLast' /\ Drafts' /\ AnswerFits'
    BY <1>13, <1>14, <1>15, <1>16, <1>17
  <1>. QED BY <1>19, <1>20 DEF Inv

LEMMA EmitInv ==
  ASSUME Inv, Emit
  PROVE  Inv'
  <1>1. src.pc = "emit" /\ Sends /\ Push(SrcChan, src.ev)
        /\ UNCHANGED <<route, required, ended, relay, reader, cancelled>>
    BY DEF Emit, Sends
  <1>2. PICK p : p = src.then OBVIOUS
  <1>3. p \in Places BY <1>2, SMT DEF Inv, Typed, Src
  <1>4. src' = [src EXCEPT !.pc = p] BY <1>2 DEF Emit
  <1>5. SrcChan = IF Direct THEN "outer" ELSE "inner" BY DEF SrcChan, Direct
  <1>. QED BY <1>1, <1>2, <1>3, <1>4, <1>5, SendsOut, SendsIn

LEMMA EmitTerminalInv ==
  ASSUME Inv, EmitTerminal
  PROVE  Inv'
  <1>1. src.pc = "terminal" /\ Sends /\ Push(SrcChan, src.ev)
        /\ UNCHANGED <<route, required, ended, relay, reader, cancelled>>
    BY DEF EmitTerminal, Sends
  <1>2. PICK p : p = "closing" OBVIOUS
  <1>3. p \in Places BY <1>2 DEF Places
  <1>4. src' = [src EXCEPT !.pc = p] BY <1>2 DEF EmitTerminal
  <1>5. SrcChan = IF Direct THEN "outer" ELSE "inner" BY DEF SrcChan, Direct
  <1>. QED BY <1>1, <1>2, <1>3, <1>4, <1>5, SendsOut, SendsIn

LEMMA SourceClosesInv ==
  ASSUME Inv, SourceCloses
  PROVE  Inv'
  <1>1. /\ src.pc = "closing" /\ Close(SrcChan)
        /\ route' = route /\ required' = required /\ Enforced' = Enforced /\ ended' = ended /\ sent' = sent
        /\ relay' = relay /\ reader' = reader /\ cancelled' = cancelled
    BY DEF SourceCloses, Enforced
  <1>2. Typed /\ src \in Src BY DEF Inv, Typed
  <1>3. PICK c : c = SrcChan OBVIOUS
  <1>4. c \in Channels /\ c = IF Direct THEN "outer" ELSE "inner"
    BY <1>3 DEF SrcChan, Direct, Channels
  <1>5. /\ chan'[c].closed /\ chan'[c].buf = chan[c].buf
        /\ \A d \in Channels : d # c => chan'[d] = chan[d]
        /\ chan' \in [Channels -> Chan]
    BY <1>1, <1>2, <1>3, <1>4, Closed
  <1>6. "inner" \in Channels /\ "outer" \in Channels /\ "inner" # "outer" BY DEF Channels
  <1>7. chan'["inner"].buf = chan["inner"].buf /\ chan'["outer"].buf = chan["outer"].buf
    BY <1>4, <1>5, <1>6
  <1>. DEFINE k == [src EXCEPT !.pc = "end"]
  <1>8. src' = k BY DEF SourceCloses
  <1>9. "end" \in Places BY DEF Places
  <1>10. k \in Src /\ Alike(src, k) /\ k.pc = "end" /\ k.ev = src.ev BY <1>2, <1>9, MovedTyped
  <1>. HIDE DEF k
  <1>11. /\ src' \in Src /\ src'.grounded = src.grounded /\ src'.tag = src.tag
         /\ src'.left = src.left /\ src'.total = src.total /\ src'.pc = "end" /\ src'.ev = src.ev
    BY <1>8, <1>10 DEF Alike
  <1>12. Ending(src) /\ Ending(src') BY <1>1, <1>11 DEF Ending
  <1>13. Direct' = Direct /\ Done' = Done /\ Told' = Told /\ Aside' = Aside
    BY <1>1 DEF Direct, Done, Told, Aside
  <1>14. Typed' BY <1>1, <1>2, <1>5, <1>11 DEF Typed
  <1>15. SourceFits'
    <2>1. route \in RunnerRoutes => RunnerFits(src')
      <3>1. route \in RunnerRoutes => RunnerFits(src) BY DEF Inv, SourceFits
      <3>. QED BY <1>11, <3>1 DEF RunnerFits
    <2>2. HandlerFits(src') /\ ForeignFits(src') BY <1>11 DEF HandlerFits, ForeignFits
    <2>. QED BY <1>1, <1>11, <2>1, <2>2 DEF Inv, SourceFits
  <1>16. SourceEnds'
    <2>. SUFFICES ASSUME Direct PROVE SourceEnds' BY <1>13 DEF SourceEnds
    <2>1. chan'["inner"] = chan["inner"] BY <1>4, <1>5, <1>6
    <2>. QED BY <1>1, <1>11, <1>12, <1>13, <2>1 DEF Inv, SourceEnds
  <1>17. RelayEnds'
    <2>. SUFFICES ASSUME ~Direct PROVE RelayEnds' BY <1>13 DEF RelayEnds
    <2>1. chan'["outer"] = chan["outer"] BY <1>4, <1>5, <1>6
    <2>. QED BY <1>1, <1>7, <1>11, <1>13, <2>1 DEF Inv, RelayEnds
  <1>18. InnerEnds' BY <1>1, <1>7, <1>11, <1>12, <1>13 DEF Inv, InnerEnds
  <1>19. Cancellation' BY <1>1, <1>7, <1>11, <1>13 DEF Inv, Cancellation
  <1>20. Reading' BY <1>1, <1>7, <1>13 DEF Inv, Reading, ReaderLearnsTheEnd
  <1>21. TerminalIsLast' BY <1>1 DEF Inv, TerminalIsLast
  <1>22. \A e : /\ (Sent(e)' <=> Sent(e)) /\ (Passed(e)' <=> Passed(e)) /\ (Held(e)' <=> Held(e))
                /\ At(e)' = At(e) /\ ~Sending(e) /\ ~Sending(e)'
    BY <1>1, <1>7, <1>11 DEF Sent, Passed, Held, At, Sending
  <1>23. Drafts'
    <2>1. Draft' = Draft /\ Search' = Search BY DEF Draft, Search
    <2>2. DraftStaysIn' BY <1>1 DEF Inv, Drafts, DraftStaysIn
    <2>. QED BY <1>1, <1>11, <1>22, <2>1, <2>2 DEF Inv, Drafts
  <1>24. AnswerFits'
    <2>. SUFFICES ASSUME route \in RunnerRoutes PROVE AnswerFits'
      BY <1>1 DEF AnswerFits
    <2>1. src'.total = 0 => \A e \in Answers : ~Sent(e)' /\ ~Passed(e)' /\ ~Held(e)'
      BY <1>11, <1>22 DEF Inv, AnswerFits
    <2>2. Sent(Completed)' \/ Passed(Completed)' \/ Held(Completed)' => src'.left = 0 /\ Ending(src')
      BY <1>11, <1>12, <1>22 DEF Inv, AnswerFits
    <2>3. Adds'
      <3>1. PICK a : a = Ev("text", src.tag) OBVIOUS
      <3>2. At(a)' = At(a) /\ One(Passed(a))' = One(Passed(a)) /\ One(Held(a))' = One(Held(a))
            /\ One(Sending(a))' = One(Sending(a))
        BY <1>22, Zenon DEF One
      <3>3. Coming(a)' = Coming(a) BY <1>11, <3>2 DEF Coming
      <3>4. Ev("text", src.tag)' = a BY <1>11, <3>1
      <3>. QED BY <1>1, <1>11, <3>1, <3>2, <3>3, <3>4 DEF Inv, AnswerFits, Adds
    <2>. QED BY <2>1, <2>2, <2>3 DEF AnswerFits
  <1>25. Typed' /\ SourceFits' /\ SourceEnds' /\ RelayEnds' /\ InnerEnds'
    BY <1>14, <1>15, <1>16, <1>17, <1>18
  <1>26. Cancellation' /\ Reading' /\ TerminalIsLast' /\ Drafts' /\ AnswerFits'
    BY <1>19, <1>20, <1>21, <1>23, <1>24
  <1>. QED BY <1>25, <1>26 DEF Inv

-----------------------------------------------------------------------------
(* The relay.                                                                *)

LEMMA RelMoved ==
  ASSUME NEW r \in Rel, NEW p \in {"recv", "pass", "closing", "end"}
  PROVE  LET k == [r EXCEPT !.pc = p]
         IN  k \in Rel /\ k.pc = p /\ k.ev = r.ev /\ k.then = r.then /\ k.terminal = r.terminal
  <1>1. \A x \in Rel, m \in {"recv", "pass", "closing", "end"} : [x EXCEPT !.pc = m] \in Rel
    BY ZenonT(30) DEF Rel
  <1>. QED BY <1>1, SMT DEF Rel

LEMMA RelWith ==
  ASSUME NEW r \in Rel
  PROVE  /\ \A b \in BOOLEAN :
              /\ [r EXCEPT !.terminal = b] \in Rel /\ [r EXCEPT !.terminal = b].terminal = b
              /\ [r EXCEPT !.terminal = b].bytes = r.bytes
         /\ \A n \in Nat :
              /\ [r EXCEPT !.bytes = n] \in Rel /\ [r EXCEPT !.bytes = n].terminal = r.terminal
  <1>1. \A x \in Rel, b \in BOOLEAN : [x EXCEPT !.terminal = b] \in Rel BY ZenonT(30) DEF Rel
  <1>2. \A x \in Rel, b \in BOOLEAN : [x EXCEPT !.terminal = b].terminal = b BY ZenonT(30) DEF Rel
  <1>3. \A x \in Rel, n \in Nat : [x EXCEPT !.bytes = n] \in Rel BY ZenonT(30) DEF Rel
  <1>4. \A x \in Rel, n \in Nat : [x EXCEPT !.bytes = n].terminal = x.terminal BY ZenonT(30) DEF Rel
  <1>5. \A x \in Rel, b \in BOOLEAN : [x EXCEPT !.terminal = b].bytes = x.bytes BY ZenonT(30) DEF Rel
  <1>. QED BY <1>1, <1>2, <1>3, <1>4, <1>5

LEMMA PassingTyped ==
  ASSUME NEW r \in Rel, NEW e \in Events, NEW t \in {"recv", "closing"}
  PROVE  LET k == Passing(r, e, t)
         IN  k \in Rel /\ k.pc = "pass" /\ k.ev = e /\ k.then = t /\ k.terminal = r.terminal
  <1>. DEFINE k1 == [r EXCEPT !.pc = "pass"]
              k2 == [k1 EXCEPT !.ev = e]
              k3 == [k2 EXCEPT !.then = t]
  <1>1. Passing(r, e, t) = k3 BY DEF Passing
  <1>2. k1 \in Rel /\ k1.pc = "pass" /\ k1.terminal = r.terminal BY RelMoved
  <1>. HIDE DEF k1
  <1>3. k2 \in Rel
    <2>1. \A x \in Rel, m \in Events \union {NoEvent} : [x EXCEPT !.ev = m] \in Rel
      BY ZenonT(30) DEF Rel
    <2>. QED BY <1>2, <2>1
  <1>4. k2.pc = k1.pc /\ k2.terminal = k1.terminal /\ k2.ev = e BY <1>2, SMT DEF Rel
  <1>. HIDE DEF k2
  <1>5. k3 \in Rel
    <2>1. \A x \in Rel, m \in {"recv", "closing"} : [x EXCEPT !.then = m] \in Rel
      BY ZenonT(30) DEF Rel
    <2>. QED BY <1>3, <2>1
  <1>6. k3.pc = k2.pc /\ k3.terminal = k2.terminal /\ k3.ev = k2.ev /\ k3.then = t
    BY <1>3, SMT DEF Rel
  <1>. HIDE DEF k3
  <1>. QED BY <1>1, <1>2, <1>4, <1>5, <1>6

\* What the relay makes of the event it reads.
LEMMA ReceivedTyped ==
  ASSUME Inv, ~Direct, relay.pc = "recv", NEW e \in Events
  PROVE  LET k == Received(relay, e)
         IN  /\ k \in Rel /\ k.pc \in {"pass", "closing"}
             /\ k.pc = "closing" => relay.terminal /\ route = "skill_stream"
             /\ k.pc = "pass" => /\ route = "skill_stream" => ~relay.terminal
                                 /\ k.ev = e \/ (k.ev = Failed("output") /\ route = "skill_stream")
                                 /\ k.ev \in Events
                                 /\ k.terminal \/ k.then = "closing" <=> Terminal(k.ev) \/ relay.terminal
                                 /\ k.then = "closing" => route = "skill_stream"
  <1>1. relay \in Rel /\ relay.terminal \in BOOLEAN BY SMT DEF Inv, Typed, Rel
  <1>2. route = "bounded" \/ route = "skill_stream" BY DEF Direct, RelayedRoutes
  <1>3. relay.bytes \in Nat BY <1>1, SMT DEF Rel
  <1>4. CASE route = "bounded"
    <2>1. PICK b : b = Seen(relay, e) OBVIOUS
    <2>2. b \in BOOLEAN BY <1>1, <2>1 DEF Seen, Terminal
    <2>. DEFINE r == [relay EXCEPT !.terminal = b]
    <2>3. r \in Rel /\ r.terminal = b BY <1>1, <2>2, RelWith
    <2>4. Received(relay, e) = Passing(r, e, "recv") BY <1>4, <2>1 DEF Received
    <2>. HIDE DEF r
    <2>. DEFINE k == Passing(r, e, "recv")
    <2>5. k \in Rel /\ k.pc = "pass" /\ k.ev = e /\ k.then = "recv" /\ k.terminal = b
      BY <2>3, PassingTyped
    <2>. HIDE DEF k
    <2>6. b <=> relay.terminal \/ Terminal(e) BY <2>1 DEF Seen
    <2>. QED BY <1>4, <2>4, <2>5, <2>6 DEF k
  <1>5. CASE route = "skill_stream" /\ relay.terminal
    <2>. DEFINE k == [relay EXCEPT !.pc = "closing"]
    <2>1. Received(relay, e) = k BY <1>5 DEF Received
    <2>2. k \in Rel /\ k.pc = "closing" BY <1>1, RelMoved
    <2>. HIDE DEF k
    <2>. QED BY <1>5, <2>1, <2>2
  <1>6. CASE route = "skill_stream" /\ ~relay.terminal /\ Over(relay, e)
    <2>1. PICK o : o = Failed("output") OBVIOUS
    <2>2. o \in Events /\ Terminal(o) BY <2>1, Known, Kinds
    <2>. DEFINE k == Passing(relay, o, "closing")
    <2>3. Received(relay, e) = k BY <1>6, <2>1 DEF Received
    <2>4. k \in Rel /\ k.pc = "pass" /\ k.ev = o /\ k.then = "closing" /\ k.terminal = relay.terminal
      BY <1>1, <2>2, PassingTyped
    <2>. HIDE DEF k
    <2>. QED BY <1>6, <2>1, <2>2, <2>3, <2>4
  <1>7. CASE route = "skill_stream" /\ ~relay.terminal /\ ~Over(relay, e)
    <2>1. PICK b, n : b = Terminal(e) /\ n = relay.bytes + (IF e.type = "text" THEN 1 ELSE 0) OBVIOUS
    <2>2. b \in BOOLEAN BY <2>1 DEF Terminal
    <2>3. n \in Nat BY <1>3, <2>1, SMT
    <2>. DEFINE r1 == [relay EXCEPT !.terminal = b]
                r2 == [r1 EXCEPT !.bytes = n]
    <2>4. r1 \in Rel /\ r1.terminal = b /\ r1.bytes = relay.bytes BY <1>1, <2>2, RelWith
    <2>5. Received(relay, e) = Passing(r2, e, "recv")
      <3>1. Received(relay, e) =
              Passing([relay EXCEPT !.terminal = b,
                                    !.bytes = @ + (IF e.type = "text" THEN 1 ELSE 0)], e, "recv")
        BY <1>7, <2>1 DEF Received
      <3>2. [relay EXCEPT !.terminal = b, !.bytes = @ + (IF e.type = "text" THEN 1 ELSE 0)]
            = [r1 EXCEPT !.bytes = @ + (IF e.type = "text" THEN 1 ELSE 0)]
        OBVIOUS
      <3>. HIDE DEF r1
      <3>3. [r1 EXCEPT !.bytes = @ + (IF e.type = "text" THEN 1 ELSE 0)] = r2 BY <2>1, <2>4
      <3>. QED BY <3>1, <3>2, <3>3
    <2>. HIDE DEF r1
    <2>6. r2 \in Rel /\ r2.terminal = b BY <2>3, <2>4, RelWith
    <2>. HIDE DEF r2
    <2>. DEFINE k == Passing(r2, e, "recv")
    <2>7. k \in Rel /\ k.pc = "pass" /\ k.ev = e /\ k.then = "recv" /\ k.terminal = b
      BY <2>6, PassingTyped
    <2>. HIDE DEF k
    <2>8. b <=> Terminal(e) BY <2>1
    <2>. QED BY <1>7, <2>5, <2>7, <2>8 DEF k
  <1>. QED BY <1>2, <1>4, <1>5, <1>6, <1>7

\* A step of the relay that puts nothing on outer.
LEMMA RelayTurned ==
  ASSUME Inv, ~Direct, relay.pc # "end",
         UNCHANGED <<route, required, ended, sent, src, reader, cancelled>>,
         relay' \in Rel, chan' \in [Channels -> Chan], chan'["outer"] = chan["outer"],
         \A x : Held(x)' => Held(x),
         \A x : Passed(x)' => \/ Passed(x) \/ \E y : x = Failed(y)
                              \/ Held(x) /\ \A y : ~Held(y)',
         RelayEnds', InnerEnds',
         relay'.pc = "pass" /\ relay'.ev = Canceled => Told,
         route = "bounded" => Adds'
  PROVE  Inv'
  <1>1. /\ route' = route /\ required' = required /\ Enforced' = Enforced /\ ended' = ended /\ src' = src
        /\ reader' = reader /\ cancelled' = cancelled /\ sent' = sent
    BY DEF Enforced
  <1>2. ~Direct' /\ Done' = Done /\ Told' = Told /\ (Aside <=> Told) /\ (Told => Aside')
    BY <1>1 DEF Direct, Done, Told, Aside
  <1>3. Typed' BY <1>1 DEF Inv, Typed
  <1>4. SourceFits' BY <1>1 DEF Inv, SourceFits
  <1>5. SourceEnds' BY <1>2 DEF SourceEnds
  <1>6. Cancellation'
    <2>1. chan'["inner"].buf = <<Canceled>> => Told
      BY <1>2 DEF Inv, Cancellation, Held
    <2>. QED BY <1>1, <1>2, <2>1 DEF Inv, Cancellation
  <1>7. Reading' BY <1>1, <1>2 DEF Inv, Reading, ReaderLearnsTheEnd
  <1>8. TerminalIsLast' BY <1>1 DEF Inv, TerminalIsLast
  <1>9. \A x : Sent(x)' <=> Sent(x) BY <1>1 DEF Sent
  <1>10. \A y : /\ Failed(y) # Search /\ Failed(y) # Draft /\ Failed(y) # Completed
                /\ Failed(y) \notin Answers
    BY Kinds
  <1>11. Drafts'
    <2>1. Draft' = Draft /\ Search' = Search BY DEF Draft, Search
    <2>2. DraftStaysIn' BY <1>1 DEF Inv, Drafts, DraftStaysIn
    <2>3. Passed(Search)' => Passed(Search) \/ (Held(Search) /\ \A y : ~Held(y)') BY <1>10
    <2>4. Passed(Draft)' => Passed(Draft) \/ Held(Draft) BY <1>10
    <2>5. Sent(Search)' \/ Passed(Search)' \/ Held(Search)' => src.grounded
      BY <1>9, <2>3 DEF Inv, Drafts
    <2>6. Held(Draft)' => ~Enforced /\ ~Sent(Search)' /\ ~Passed(Search)'
      BY <1>9, <2>3 DEF Inv, Drafts
    <2>7. Passed(Draft)' => ~Enforced /\ ~Sent(Search)' BY <1>9, <2>4 DEF Inv, Drafts
    <2>. QED BY <1>1, <2>1, <2>2, <2>5, <2>6, <2>7 DEF Drafts
  <1>12. AnswerFits'
    <2>. SUFFICES ASSUME route \in RunnerRoutes PROVE AnswerFits' BY <1>1 DEF AnswerFits
    <2>1. route = "bounded" BY DEF Direct, RelayedRoutes, RunnerRoutes
    <2>2. \A x \in Answers : Passed(x)' => Passed(x) \/ Held(x) BY <1>10
    <2>3. Passed(Completed)' => Passed(Completed) \/ Held(Completed) BY <1>10
    <2>4. src'.total = 0 => \A x \in Answers : ~Sent(x)' /\ ~Passed(x)' /\ ~Held(x)'
      BY <1>1, <1>9, <2>2 DEF Inv, AnswerFits
    <2>5. Sent(Completed)' \/ Passed(Completed)' \/ Held(Completed)' => src'.left = 0 /\ Ending(src')
      BY <1>1, <1>9, <2>3 DEF Inv, AnswerFits
    <2>. QED BY <2>1, <2>4, <2>5 DEF AnswerFits
  <1>13. Typed' /\ SourceFits' /\ SourceEnds' /\ RelayEnds' /\ InnerEnds'
    BY <1>3, <1>4, <1>5
  <1>14. Cancellation' /\ Reading' /\ TerminalIsLast' /\ Drafts' /\ AnswerFits'
    BY <1>6, <1>7, <1>8, <1>11, <1>12
  <1>. QED BY <1>13, <1>14 DEF Inv

\* The count of a chunk does not depend on whether inner or the relay has it.
LEMMA AddsTurned ==
  ASSUME Inv, route \in RunnerRoutes, UNCHANGED <<ended, sent, src>>,
         NEW a, a = Ev("text", src.tag),
         One(Passed(a)') + One(Held(a)') = One(Passed(a)) + One(Held(a))
  PROVE  Adds'
  <1>1. Adds /\ Typed /\ src.left \in Nat BY SMT DEF Inv, AnswerFits, Typed, Src
  <1>2. Cardinality(At(a)) \in Nat BY <1>1, Counted
  <1>3. At(a)' = At(a) /\ (Sending(a)' <=> Sending(a)) BY DEF At, Sending
  <1>4. One(Sending(a)') = One(Sending(a)) BY <1>3, Zenon DEF One
  <1>5. \A b : One(b) = 0 \/ One(b) = 1 BY Zenon DEF One
  <1>6. PICK c, p1, h1, p2, h2, s :
           /\ c = Cardinality(At(a)) /\ p1 = One(Passed(a)) /\ h1 = One(Held(a))
           /\ p2 = One(Passed(a)') /\ h2 = One(Held(a)') /\ s = One(Sending(a))
    OBVIOUS
  <1>7. c \in Nat /\ p1 \in Nat /\ h1 \in Nat /\ p2 \in Nat /\ h2 \in Nat /\ s \in Nat
    BY <1>2, <1>5, <1>6, SMT
  <1>8. c + p2 + h2 + s = c + p1 + h1 + s BY <1>6, <1>7, SMT
  <1>9. Cardinality(At(a)') + One(Passed(a)') + One(Held(a)') + One(Sending(a)')
        = Cardinality(At(a)) + One(Passed(a)) + One(Held(a)) + One(Sending(a))
    BY <1>3, <1>4, <1>6, <1>8
  <1>10. /\ src'.tag = src.tag /\ src'.left = src.left /\ src'.total = src.total
         /\ ended["run"]' = "none" => ended["run"] = "none"
    OBVIOUS
  <1>11. Cardinality(At(a)') \in Nat BY <1>2, <1>3
  <1>. QED BY <1>1, <1>2, <1>9, <1>10, <1>11, Balance

LEMMA RelayRoute ==
  ASSUME Inv, relay.pc # "end"
  PROVE  ~Direct /\ (route = "bounded" \/ route = "skill_stream") /\ relay \in Rel
  BY DEF Inv, SourceEnds, Direct, RelayedRoutes, Typed

LEMMA RelayReceivesInv ==
  ASSUME Inv, RelayReceives
  PROVE  Inv'
  <1>1. /\ relay.pc = "recv" /\ Pop("inner")
        /\ UNCHANGED <<route, required, ended, sent, src, reader, cancelled>>
    BY DEF RelayReceives
  <1>2. ~Direct /\ (route = "bounded" \/ route = "skill_stream") /\ relay \in Rel
    BY <1>1, RelayRoute
  <1>3. Typed BY DEF Inv
  <1>4. "inner" \in Channels /\ "outer" \in Channels /\ "inner" # "outer" BY DEF Channels
  <1>5. /\ chan["inner"].buf # <<>> /\ chan'["inner"].buf = Tail(chan["inner"].buf)
        /\ chan'["inner"].closed = chan["inner"].closed
        /\ chan'["outer"] = chan["outer"]
        /\ chan' \in [Channels -> Chan]
    BY <1>1, <1>3, <1>4, Popped
  <1>6. PICK e \in Events : chan["inner"].buf = <<e>> BY <1>2, <1>5 DEF Inv, RelayEnds
  <1>7. Head(chan["inner"].buf) = e /\ chan'["inner"].buf = <<>>
    <2>1. Head(<<e>>) = e /\ Tail(<<e>>) = <<>> BY SMT
    <2>. QED BY <1>5, <1>6, <2>1
  <1>8. relay' = Received(relay, e) BY <1>7 DEF RelayReceives
  <1>9. /\ relay' \in Rel /\ relay'.pc \in {"pass", "closing"}
        /\ relay'.pc = "closing" => relay.terminal /\ route = "skill_stream"
        /\ relay'.pc = "pass" =>
              /\ route = "skill_stream" => ~relay.terminal
              /\ relay'.ev = e \/ (relay'.ev = Failed("output") /\ route = "skill_stream")
              /\ relay'.ev \in Events
              /\ relay'.terminal \/ relay'.then = "closing" <=> Terminal(relay'.ev) \/ relay.terminal
              /\ relay'.then = "closing" => route = "skill_stream"
    BY <1>1, <1>2, <1>8, ReceivedTyped
  <1>10. \A x : /\ ~Held(x)' /\ (Held(x) <=> x = e) /\ ~Passed(x)
                /\ Passed(x)' => x = e \/ x = Failed("output")
    <2>1. \A x : <<>> # <<x>> /\ (<<e>> = <<x>> <=> x = e) BY SMT
    <2>. QED BY <1>1, <1>6, <1>7, <1>9, <2>1 DEF Held, Passed
  <1>11. Done' = Done /\ Direct' = Direct BY <1>1 DEF Done, Direct
  <1>12. route = "bounded" => ~Done /\ ~relay.terminal
    BY <1>5 DEF Inv, InnerEnds
  <1>13. RelayEnds'
    <2>1. Done <=> relay.terminal BY <1>1, <1>2 DEF Inv, RelayEnds
    <2>2. src.pc # "nil" /\ ~chan["outer"].closed BY <1>1, <1>2, <1>5 DEF Inv, RelayEnds
    <2>. QED BY <1>1, <1>2, <1>5, <1>7, <1>9, <1>11, <1>12, <2>1, <2>2 DEF RelayEnds
  <1>14. InnerEnds'
    <2>. SUFFICES ASSUME route = "bounded" PROVE InnerEnds' BY <1>1 DEF InnerEnds
    <2>1. \A x : <<>> # <<x>> BY SMT
    <2>2. relay'.terminal <=> Terminal(e) BY <1>9, <1>12
    <2>3. Terminal(e) => Ending(src) BY <1>6 DEF Inv, InnerEnds
    <2>. QED BY <1>1, <1>5, <1>7, <1>9, <1>11, <1>12, <2>1, <2>2, <2>3 DEF Inv, InnerEnds
  <1>15. relay'.pc = "pass" /\ relay'.ev = Canceled => Told
    <2>1. Failed("output") # Canceled BY Kinds
    <2>2. Held(Canceled) => Told BY <1>1 DEF Inv, Cancellation, Aside, Held
    <2>. QED BY <1>9, <1>10, <2>1, <2>2
  <1>16. route = "bounded" => Adds'
    <2>. SUFFICES ASSUME route = "bounded" PROVE Adds' OBVIOUS
    <2>1. PICK a : a = Ev("text", src.tag) OBVIOUS
    <2>2. Passed(a)' <=> a = e BY <1>9 DEF Passed
    <2>3. /\ One(Passed(a)') = (IF a = e THEN 1 ELSE 0) /\ One(Held(a)') = 0
          /\ One(Passed(a)) = 0 /\ One(Held(a)) = (IF a = e THEN 1 ELSE 0)
      BY <1>10, <2>2, Zenon DEF One
    <2>4. One(Passed(a)') + One(Held(a)') = One(Passed(a)) + One(Held(a)) BY <2>3, SMT
    <2>5. UNCHANGED <<ended, sent, src>> /\ route \in RunnerRoutes BY <1>1 DEF RunnerRoutes
    <2>. QED BY <2>1, <2>4, <2>5, AddsTurned
  <1>17. /\ \A x : Held(x)' => Held(x)
         /\ \A x : Passed(x)' => \/ Passed(x) \/ \E y : x = Failed(y)
                                 \/ Held(x) /\ \A y : ~Held(y)'
    BY <1>10
  <1>. QED BY <1>1, <1>2, <1>5, <1>9, <1>13, <1>14, <1>15, <1>16, <1>17, RelayTurned

LEMMA RelaySeesCloseInv ==
  ASSUME Inv, RelaySeesClose
  PROVE  Inv'
  <1>1. /\ relay.pc = "recv" /\ AtEnd("inner") /\ relay' = SourceClosed(relay)
        /\ UNCHANGED <<route, required, ended, chan, sent, src, reader, cancelled>>
    BY DEF RelaySeesClose, RelayMoves
  <1>2. ~Direct /\ (route = "bounded" \/ route = "skill_stream") /\ relay \in Rel
    BY <1>1, RelayRoute
  <1>3. chan["inner"].closed /\ chan["inner"].buf = <<>> BY <1>1 DEF AtEnd
  <1>4. \A x : (Held(x)' <=> Held(x)) /\ ~Held(x) /\ ~Passed(x)
    <2>1. \A x : <<>> # <<x>> BY SMT
    <2>. QED BY <1>1, <1>3, <2>1 DEF Held, Passed
  <1>5. Done' = Done /\ Direct' = Direct BY <1>1 DEF Done, Direct
  <1>6. Done <=> relay.terminal BY <1>1, <1>2 DEF Inv, RelayEnds
  <1>7. ~chan["outer"].closed BY <1>1, <1>2 DEF Inv, RelayEnds
  <1>8. route = "bounded" => Ending(src) BY <1>3 DEF Inv, InnerEnds, Ending
  <1>9. CASE relay.terminal \/ ended["chat"] # "none"
    <2>. DEFINE k == [relay EXCEPT !.pc = "closing"]
    <2>1. relay' = k BY <1>1, <1>9 DEF SourceClosed
    <2>2. k \in Rel /\ k.pc = "closing" /\ k.terminal = relay.terminal BY <1>2, RelMoved
    <2>. HIDE DEF k
    <2>3. relay' \in Rel /\ relay'.pc = "closing" /\ relay'.terminal = relay.terminal
      BY <2>1, <2>2
    <2>4. RelayEnds' BY <1>1, <1>2, <1>3, <1>5, <1>6, <1>7, <1>9, <2>3 DEF Inv, RelayEnds
    <2>5. InnerEnds' BY <1>1, <1>3, <1>5, <1>8, <2>3 DEF Inv, InnerEnds
    <2>6. \A x : ~Passed(x)' BY <2>3 DEF Passed
    <2>7. route = "bounded" => Adds'
      <3>. SUFFICES ASSUME route = "bounded" PROVE Adds' OBVIOUS
      <3>1. PICK a : a = Ev("text", src.tag) OBVIOUS
      <3>2. One(Passed(a)') = One(Passed(a)) /\ One(Held(a)') = One(Held(a))
        BY <1>4, <2>6, Zenon DEF One
      <3>3. One(Passed(a)') + One(Held(a)') = One(Passed(a)) + One(Held(a)) BY <3>2
      <3>4. UNCHANGED <<ended, sent, src>> /\ route \in RunnerRoutes BY <1>1 DEF RunnerRoutes
      <3>. QED BY <3>1, <3>3, <3>4, AddsTurned
    <2>8. /\ chan' \in [Channels -> Chan] /\ chan'["outer"] = chan["outer"]
          /\ \A x : Held(x)' => Held(x)
          /\ \A x : Passed(x)' => \/ Passed(x) \/ \E y : x = Failed(y)
                                  \/ Held(x) /\ \A y : ~Held(y)'
      BY <1>1, <1>4, <2>6 DEF Inv, Typed
    <2>9. relay.pc # "end" /\ relay'.pc # "pass" BY <1>1, <2>3
    <2>. QED BY <1>1, <1>2, <2>3, <2>4, <2>5, <2>7, <2>8, <2>9, RelayTurned
  <1>10. CASE ~(relay.terminal \/ ended["chat"] # "none")
    <2>1. PICK o : o = Failed("protocol") OBVIOUS
    <2>2. o \in Events /\ Terminal(o) /\ o # Canceled BY <2>1, Known, Kinds
    <2>. DEFINE k == Passing(relay, o, "closing")
    <2>3. relay' = k BY <1>1, <1>10, <2>1 DEF SourceClosed
    <2>4. k \in Rel /\ k.pc = "pass" /\ k.ev = o /\ k.then = "closing" /\ k.terminal = relay.terminal
      BY <1>2, <2>2, PassingTyped
    <2>. HIDE DEF k
    <2>5. /\ relay' \in Rel /\ relay'.pc = "pass" /\ relay'.ev = o /\ relay'.then = "closing"
          /\ relay'.terminal = relay.terminal
      BY <2>3, <2>4
    <2>6. RelayEnds' BY <1>1, <1>2, <1>3, <1>5, <1>6, <1>7, <1>10, <2>2, <2>5 DEF Inv, RelayEnds
    <2>7. InnerEnds' BY <1>1, <1>3, <1>5, <1>8, <2>5 DEF Inv, InnerEnds
    <2>8. \A x : Passed(x)' => x = o BY <2>5 DEF Passed
    <2>9. route = "bounded" => Adds'
      <3>. SUFFICES ASSUME route = "bounded" PROVE Adds' OBVIOUS
      <3>1. PICK a : a = Ev("text", src.tag) OBVIOUS
      <3>2. a # o BY <2>2, <3>1, Distinct
      <3>3. One(Passed(a)') = One(Passed(a)) /\ One(Held(a)') = One(Held(a))
        BY <1>4, <2>8, <3>2, Zenon DEF One
      <3>4. One(Passed(a)') + One(Held(a)') = One(Passed(a)) + One(Held(a)) BY <3>3
      <3>5. UNCHANGED <<ended, sent, src>> /\ route \in RunnerRoutes BY <1>1 DEF RunnerRoutes
      <3>. QED BY <3>1, <3>4, <3>5, AddsTurned
    <2>10. /\ chan' \in [Channels -> Chan] /\ chan'["outer"] = chan["outer"]
           /\ \A x : Held(x)' => Held(x)
           /\ \A x : Passed(x)' => \/ Passed(x) \/ \E y : x = Failed(y)
                                   \/ Held(x) /\ \A y : ~Held(y)'
      BY <1>1, <1>4, <2>1, <2>8 DEF Inv, Typed
    <2>11. relay.pc # "end" /\ relay'.ev # Canceled BY <1>1, <2>2, <2>5
    <2>. QED BY <1>1, <1>2, <2>5, <2>6, <2>7, <2>9, <2>10, <2>11, RelayTurned
  <1>. QED BY <1>9, <1>10

LEMMA RelayFindsNoSourceInv ==
  ASSUME Inv, RelayFindsNoSource
  PROVE  Inv'
  <1>1. /\ relay.pc = "recv" /\ src.pc = "nil" /\ relay' = Passing(relay, Failed("protocol"), "closing")
        /\ UNCHANGED <<route, required, ended, chan, sent, src, reader, cancelled>>
    BY DEF RelayFindsNoSource, RelayMoves
  <1>2. ~Direct /\ relay \in Rel /\ relay.pc # "end" BY <1>1, RelayRoute
  <1>3. route = "skill_stream" BY <1>1, RouteOf
  <1>4. PICK o : o = Failed("protocol") OBVIOUS
  <1>5. o \in Events /\ Terminal(o) /\ o # Canceled BY <1>4, Known, Kinds
  <1>. DEFINE k == Passing(relay, o, "closing")
  <1>6. relay' = k BY <1>1, <1>4
  <1>7. k \in Rel /\ k.pc = "pass" /\ k.ev = o /\ k.then = "closing" /\ k.terminal = relay.terminal
    BY <1>2, <1>5, PassingTyped
  <1>. HIDE DEF k
  <1>8. /\ relay' \in Rel /\ relay'.pc = "pass" /\ relay'.ev = o /\ relay'.then = "closing"
        /\ relay'.terminal = relay.terminal
    BY <1>6, <1>7
  <1>9. Done' = Done /\ Direct' = Direct BY <1>1 DEF Done, Direct
  <1>10. ~relay.terminal /\ chan["inner"].buf = <<>> BY <1>1, <1>2 DEF Inv, RelayEnds
  <1>11. ~Done BY <1>1, <1>2, <1>10 DEF Inv, RelayEnds
  <1>12. RelayEnds' BY <1>1, <1>2, <1>5, <1>8, <1>9, <1>10, <1>11 DEF Inv, RelayEnds
  <1>13. InnerEnds' BY <1>1, <1>3 DEF InnerEnds
  <1>14. \A x : Passed(x)' => x = o BY <1>8 DEF Passed
  <1>15. /\ chan' \in [Channels -> Chan] /\ chan'["outer"] = chan["outer"]
         /\ \A x : Held(x)' => Held(x)
         /\ \A x : Passed(x)' => \/ Passed(x) \/ \E y : x = Failed(y)
                                 \/ Held(x) /\ \A y : ~Held(y)'
    BY <1>1, <1>4, <1>14 DEF Inv, Typed, Held
  <1>16. relay'.ev # Canceled /\ route # "bounded" BY <1>3, <1>5, <1>8
  <1>. QED BY <1>1, <1>2, <1>8, <1>12, <1>13, <1>15, <1>16, RelayTurned

LEMMA RelayGivesUpInv ==
  ASSUME Inv, RelayGivesUp
  PROVE  Inv'
  <1>1. /\ relay.pc = "pass" /\ ended["chat"] # "none" /\ relay' = [relay EXCEPT !.pc = "closing"]
        /\ UNCHANGED <<route, required, ended, chan, sent, src, reader, cancelled>>
    BY DEF RelayGivesUp, RelayMoves, GivesUp
  <1>2. ~Direct /\ relay \in Rel /\ relay.pc # "end" BY <1>1, RelayRoute
  <1>. DEFINE k == [relay EXCEPT !.pc = "closing"]
  <1>3. relay' = k BY <1>1
  <1>4. k \in Rel /\ k.pc = "closing" /\ k.terminal = relay.terminal BY <1>2, RelMoved
  <1>. HIDE DEF k
  <1>5. relay' \in Rel /\ relay'.pc = "closing" /\ relay'.terminal = relay.terminal BY <1>3, <1>4
  <1>6. Done' = Done /\ Direct' = Direct BY <1>1 DEF Done, Direct
  <1>7. ~Done BY <1>1, <1>2 DEF Inv, RelayEnds
  <1>8. RelayEnds' BY <1>1, <1>2, <1>5, <1>6, <1>7 DEF Inv, RelayEnds
  <1>9. InnerEnds' BY <1>1, <1>5, <1>6 DEF Inv, InnerEnds
  <1>10. \A x : ~Passed(x)' BY <1>5 DEF Passed
  <1>11. /\ chan' \in [Channels -> Chan] /\ chan'["outer"] = chan["outer"]
         /\ \A x : Held(x)' => Held(x)
         /\ \A x : Passed(x)' => \/ Passed(x) \/ \E y : x = Failed(y)
                                 \/ Held(x) /\ \A y : ~Held(y)'
    BY <1>1, <1>10 DEF Inv, Typed, Held
  <1>12. Adds' BY <1>1 DEF Inv, Cancellation, Adds
  <1>13. relay'.pc # "pass" BY <1>5
  <1>. QED BY <1>1, <1>2, <1>5, <1>8, <1>9, <1>11, <1>12, <1>13, RelayTurned

\* The relay puts an event on outer.
LEMMA RelayPassesInv ==
  ASSUME Inv, RelayPasses
  PROVE  Inv'
  <1>. PICK e : e = relay.ev OBVIOUS
  <1>e. e = relay.ev OBVIOUS
  <1>1. /\ relay.pc = "pass" /\ Push("outer", e)
        /\ route' = route /\ required' = required /\ Enforced' = Enforced /\ ended' = ended /\ src' = src
        /\ reader' = reader /\ cancelled' = cancelled
    BY <1>e DEF RelayPasses, Enforced
  <1>2. ~Direct /\ relay \in Rel /\ (route = "bounded" \/ route = "skill_stream")
    BY <1>1, RelayRoute
  <1>3. e \in Events \union {NoEvent} /\ relay.then \in {"recv", "closing"}
    BY <1>e, <1>2, SMT DEF Rel
  <1>. DEFINE k == [relay EXCEPT !.pc = relay.then]
  <1>4. relay' = k BY DEF RelayPasses
  <1>5. k \in Rel /\ k.pc = relay.then /\ k.terminal = relay.terminal
    <2>1. relay.then \in {"recv", "pass", "closing", "end"} BY <1>3
    <2>. QED BY <1>2, <2>1, RelMoved
  <1>. HIDE DEF k
  <1>6. relay' \in Rel /\ relay'.pc = relay.then /\ relay'.terminal = relay.terminal BY <1>4, <1>5
  <1>7. e \in Events BY <1>e, <1>1, <1>2, <1>3 DEF Inv, RelayEnds
  <1>8. /\ ~Done /\ ~chan["outer"].closed
        /\ relay.terminal \/ relay.then = "closing" <=> Terminal(e)
    BY <1>e, <1>1, <1>2 DEF Inv, RelayEnds
  <1>9. Typed BY DEF Inv
  <1>10. /\ chan'["outer"].buf = Append(chan["outer"].buf, e)
         /\ chan'["outer"].closed = chan["outer"].closed /\ chan'["inner"] = chan["inner"]
         /\ chan' \in [Channels -> Chan] /\ sent' = Append(sent, e)
    BY <1>1, <1>7, <1>9, OuterPushed
  <1>11. sent \in Seq(Events) /\ chan["outer"].buf \in Seq(Events) BY <1>9, Chans DEF Typed
  <1>12. /\ sent' \in Seq(Events)
         /\ \A x : Sent(x)' <=> Sent(x) \/ x = e
         /\ Done' <=> Done \/ Terminal(e)
         /\ TerminalIsLast /\ ~Done => TerminalIsLast'
         /\ \A x : /\ Cardinality(At(x)) \in Nat
                   /\ x # e => Cardinality(At(x)') = Cardinality(At(x))
                   /\ x = e => Cardinality(At(x)') = Cardinality(At(x)) + 1
         /\ Enforced' = Enforced /\ DraftStaysIn /\ (e = Draft => ~Enforced /\ ~Sent(Search))
               => DraftStaysIn'
    BY <1>7, <1>10, <1>11, OneMore
  <1>13. /\ \A x : (Held(x)' <=> Held(x)) /\ ~Passed(x)' /\ (Passed(x) <=> x = e)
         /\ Direct' = Direct /\ Told' = Told /\ Aside = Told /\ Aside' = Told
    BY <1>e, <1>1, <1>3, <1>6, <1>10 DEF Held, Passed, Direct, Told, Aside
  <1>14. Typed' BY <1>1, <1>6, <1>9, <1>10, <1>12 DEF Typed
  <1>15. SourceFits' /\ SourceEnds' BY <1>1, <1>2, <1>13 DEF Inv, SourceFits, SourceEnds
  <1>16. RelayEnds' BY <1>1, <1>2, <1>3, <1>6, <1>8, <1>10, <1>12, <1>13 DEF Inv, RelayEnds
  <1>17. InnerEnds' BY <1>1, <1>3, <1>6, <1>8, <1>10, <1>12 DEF Inv, InnerEnds
  <1>18. Cancellation'
    <2>1. \A i \in 1 .. Len(chan'["outer"].buf) : chan'["outer"].buf[i] = Canceled => Told
      <3>1. PICK b, c : b = chan["outer"].buf /\ c = chan'["outer"].buf OBVIOUS
      <3>2. b \in Seq(Events) /\ c = Append(b, e) BY <1>10, <1>11, <3>1
      <3>3. \A i \in 1 .. Len(c) : (i \in 1 .. Len(b) /\ c[i] = b[i]) \/ c[i] = e
        BY <3>2, SMT
      <3>4. \A i \in 1 .. Len(b) : b[i] = Canceled => Told BY <3>1 DEF Inv, Cancellation
      <3>5. e = Canceled => Told BY <1>e, <1>1 DEF Inv, Cancellation
      <3>. QED BY <3>1, <3>3, <3>4, <3>5
    <2>2. relay'.pc # "pass" BY <1>3, <1>6
    <2>. QED BY <1>1, <1>10, <1>13, <2>1, <2>2 DEF Inv, Cancellation
  <1>19. Reading'
    <2>1. PICK b, c : b = chan["outer"].buf /\ c = chan'["outer"].buf OBVIOUS
    <2>2. b \in Seq(Events) /\ c = Append(b, e) BY <1>10, <1>11, <2>1
    <2>3. c # <<>> /\ c[Len(c)] = e BY <2>2, SMT
    <2>. QED BY <1>1, <1>8, <1>12, <2>1, <2>3 DEF Inv, Reading, ReaderLearnsTheEnd
  <1>20. TerminalIsLast' BY <1>8, <1>12 DEF Inv
  <1>21. Drafts'
    <2>1. Draft' = Draft /\ Search' = Search /\ Draft # Search BY Kinds DEF Draft, Search
    <2>2. DraftStaysIn' BY <1>1, <1>12, <1>13 DEF Inv, Drafts
    <2>3. Sent(Search)' \/ Held(Search)' => src.grounded BY <1>12, <1>13 DEF Inv, Drafts
    <2>4. Held(Draft)' => ~Enforced /\ ~Sent(Search)' BY <1>12, <1>13 DEF Inv, Drafts
    <2>. QED BY <1>1, <1>13, <2>1, <2>2, <2>3, <2>4 DEF Drafts
  <1>22. AnswerFits'
    <2>. SUFFICES ASSUME route \in RunnerRoutes PROVE AnswerFits' BY <1>1 DEF AnswerFits
    <2>1. src'.total = 0 => \A x \in Answers : ~Sent(x)' /\ ~Passed(x)' /\ ~Held(x)'
      BY <1>1, <1>12, <1>13 DEF Inv, AnswerFits
    <2>2. Sent(Completed)' \/ Passed(Completed)' \/ Held(Completed)' => src'.left = 0 /\ Ending(src')
      BY <1>1, <1>12, <1>13 DEF Inv, AnswerFits
    <2>3. Adds'
      <3>1. PICK a : a = Ev("text", src.tag) OBVIOUS
      <3>2. (Sending(a)' <=> Sending(a)) BY <1>1 DEF Sending
      <3>3. /\ One(Passed(a)') = 0 /\ One(Passed(a)) = (IF a = e THEN 1 ELSE 0)
            /\ One(Held(a)') = One(Held(a)) /\ One(Sending(a)') = One(Sending(a))
        BY <1>13, <3>2, Zenon DEF One
      <3>4. \A b : One(b) = 0 \/ One(b) = 1 BY Zenon DEF One
      <3>5. PICK c, d, h, s : /\ c = Cardinality(At(a)) /\ d = Cardinality(At(a)')
                              /\ h = One(Held(a)) /\ s = One(Sending(a))
        OBVIOUS
      <3>6. /\ c \in Nat /\ (a # e => d = c) /\ (a = e => d = c + 1)
        BY <1>12, <3>5
      <3>7. h \in Nat /\ s \in Nat /\ d \in Nat BY <3>4, <3>5, <3>6, SMT
      <3>8. d + 0 + h + s = c + (IF a = e THEN 1 ELSE 0) + h + s BY <3>6, <3>7, SMT
      <3>9. Cardinality(At(a)') + One(Passed(a)') + One(Held(a)') + One(Sending(a)')
            = Cardinality(At(a)) + One(Passed(a)) + One(Held(a)) + One(Sending(a))
        BY <3>3, <3>5, <3>8
      <3>10. Cardinality(At(a)) \in Nat /\ Cardinality(At(a)') \in Nat BY <3>5, <3>6, <3>7
      <3>11. /\ src'.tag = src.tag /\ src'.left = src.left /\ src'.total = src.total
             /\ ended["run"]' = "none" => ended["run"] = "none"
        BY <1>1
      <3>12. Adds /\ src.left \in Nat BY <1>9, SMT DEF Inv, AnswerFits, Typed, Src
      <3>. QED BY <3>1, <3>9, <3>10, <3>11, <3>12, Balance
    <2>. QED BY <2>1, <2>2, <2>3 DEF AnswerFits
  <1>23. Typed' /\ SourceFits' /\ SourceEnds' /\ RelayEnds' /\ InnerEnds'
    BY <1>14, <1>15, <1>16, <1>17
  <1>24. Cancellation' /\ Reading' /\ TerminalIsLast' /\ Drafts' /\ AnswerFits'
    BY <1>18, <1>19, <1>20, <1>21, <1>22
  <1>. QED BY <1>23, <1>24 DEF Inv

\* A context's end: what lives inside it ends too, and what had ended stays.
LEMMA Ends ==
  ASSUME Typed, NEW c \in Contexts, NEW why \in {"canceled", "deadline"}, End(c, why)
  PROVE  /\ ended' \in [Contexts -> {"none", "canceled", "deadline"}]
         /\ \A d \in Contexts : /\ ended[d] # "none" => ended'[d] = ended[d]
                                /\ ended'[d] = ended[d] \/ (ended'[d] = why /\ d \in Within(c))
                                /\ d \in Within(c) => ended'[d] # "none"
  <1>1. ended \in [Contexts -> {"none", "canceled", "deadline"}] BY DEF Typed
  <1>2. \A d \in Contexts : ended'[d] = IF d \in Within(c) /\ ended[d] = "none" THEN why ELSE ended[d]
    BY DEF End
  <1>3. ended' \in [Contexts -> {"none", "canceled", "deadline"}] BY <1>1 DEF End
  <1>. QED BY <1>2, <1>3

LEMMA Nested ==
  /\ Within("chat") = Contexts /\ Within("bounded") = {"bounded", "run"} /\ Within("run") = {"run"}
  /\ "chat" \in Contexts /\ "bounded" \in Contexts /\ "run" \in Contexts
  BY DEF Within, Contexts

\* Nothing on its way moves.
LEMMA AddsStay ==
  ASSUME Inv, route \in RunnerRoutes, src' = src,
         ended["run"] # "none" => ended'["run"] = ended["run"],
         \A x : (Passed(x)' <=> Passed(x)) /\ (Held(x)' <=> Held(x)) /\ At(x)' = At(x)
  PROVE  Adds'
  <1>1. Adds /\ Typed /\ src.left \in Nat BY SMT DEF Inv, AnswerFits, Typed, Src
  <1>2. PICK a : a = Ev("text", src.tag) OBVIOUS
  <1>3. (Sending(a)' <=> Sending(a)) BY DEF Sending
  <1>4. /\ One(Passed(a)') = One(Passed(a)) /\ One(Held(a)') = One(Held(a))
        /\ One(Sending(a)') = One(Sending(a))
    BY <1>3, Zenon DEF One
  <1>5. At(a)' = At(a) /\ Cardinality(At(a)) \in Nat BY <1>1, Counted
  <1>6. Cardinality(At(a)') + One(Passed(a)') + One(Held(a)') + One(Sending(a)')
        = Cardinality(At(a)) + One(Passed(a)) + One(Held(a)) + One(Sending(a))
    BY <1>4, <1>5
  <1>7. /\ src'.tag = src.tag /\ src'.left = src.left /\ src'.total = src.total
        /\ ended["run"]' = "none" => ended["run"] = "none"
    OBVIOUS
  <1>8. Cardinality(At(a)') \in Nat BY <1>5
  <1>. QED BY <1>1, <1>2, <1>5, <1>6, <1>7, <1>8, Balance

LEMMA RelayClosesInv ==
  ASSUME Inv, RelayCloses
  PROVE  Inv'
  <1>1. /\ relay.pc = "closing" /\ Close("outer") /\ relay' = [relay EXCEPT !.pc = "end"]
        /\ route' = route /\ required' = required /\ Enforced' = Enforced /\ sent' = sent /\ src' = src
        /\ reader' = reader /\ cancelled' = cancelled
    BY DEF RelayCloses, Enforced
  <1>2. ~Direct /\ relay \in Rel /\ (route = "bounded" \/ route = "skill_stream")
    BY <1>1, RelayRoute
  <1>3. Typed BY DEF Inv
  <1>4. "inner" \in Channels /\ "outer" \in Channels /\ "inner" # "outer" BY DEF Channels
  <1>5. /\ chan'["outer"].closed /\ chan'["outer"].buf = chan["outer"].buf
        /\ chan'["inner"] = chan["inner"] /\ chan' \in [Channels -> Chan]
    BY <1>1, <1>3, <1>4, Closed
  <1>. DEFINE k == [relay EXCEPT !.pc = "end"]
  <1>6. relay' = k BY <1>1
  <1>7. k \in Rel /\ k.pc = "end" /\ k.terminal = relay.terminal BY <1>2, RelMoved
  <1>. HIDE DEF k
  <1>8. relay' \in Rel /\ relay'.pc = "end" /\ relay'.terminal = relay.terminal BY <1>6, <1>7
  <1>9. /\ ended' \in [Contexts -> {"none", "canceled", "deadline"}]
        /\ ended'["chat"] = ended["chat"]
        /\ \A d \in Contexts : ended[d] # "none" => ended'[d] = ended[d]
        /\ ended'["bounded"] # ended["bounded"] => ended'["run"] # "none"
        /\ route # "bounded" => ended' = ended
    <2>1. CASE route = "bounded"
      <3>1. End("bounded", "canceled") BY <2>1 DEF RelayCloses
      <3>2. /\ ended' \in [Contexts -> {"none", "canceled", "deadline"}]
            /\ \A d \in Contexts : /\ ended[d] # "none" => ended'[d] = ended[d]
                                   /\ ended'[d] = ended[d] \/ (ended'[d] = "canceled" /\ d \in Within("bounded"))
                                   /\ d \in Within("bounded") => ended'[d] # "none"
        BY <1>3, <3>1, Nested, Ends
      <3>. QED BY <2>1, <3>2, Nested
    <2>2. CASE route # "bounded"
      <3>1. ended' = ended BY <2>2 DEF RelayCloses
      <3>. QED BY <1>3, <3>1 DEF Typed
    <2>. QED BY <2>1, <2>2
  <1>10. /\ \A x : (Held(x)' <=> Held(x)) /\ ~Passed(x)' /\ ~Passed(x) /\ (Sent(x)' <=> Sent(x))
                   /\ (Sending(x)' <=> Sending(x)) /\ At(x)' = At(x)
         /\ Direct' = Direct /\ Told' = Told /\ Aside = Told /\ Done' = Done
         /\ (Told => Aside') /\ (route = "bounded" => Aside')
    BY <1>1, <1>5, <1>8 DEF Held, Passed, Sent, Sending, At, Direct, Told, Aside, Done
  <1>11. Typed' BY <1>1, <1>3, <1>5, <1>8, <1>9 DEF Typed
  <1>12. SourceFits' /\ SourceEnds' BY <1>1, <1>2, <1>10 DEF Inv, SourceFits, SourceEnds
  <1>13. RelayEnds' BY <1>1, <1>2, <1>5, <1>8, <1>9, <1>10 DEF Inv, RelayEnds
  <1>14. InnerEnds' BY <1>1, <1>5, <1>8, <1>10 DEF Inv, InnerEnds
  <1>15. Cancellation'
    <2>1. ended'["chat"] # "none" => Told' /\ ended'["run"] # "none"
      BY <1>9, <1>10, Nested DEF Inv, Cancellation
    <2>2. ended'["bounded"] # "none" => ended'["run"] # "none"
      BY <1>9, Nested DEF Inv, Cancellation
    <2>3. \A c \in Contexts : ended'[c] = "canceled" => Aside'
      <3>1. CASE route = "bounded" BY <1>10, <3>1
      <3>2. CASE route # "bounded"
        <4>1. ended' = ended BY <1>9, <3>2
        <4>2. \A c \in Contexts : ended[c] = "canceled" => Told BY <1>10 DEF Inv, Cancellation
        <4>. QED BY <1>10, <4>1, <4>2
      <3>. QED BY <3>1, <3>2
    <2>4. src'.pc = "terminal" /\ src'.ev = Canceled => Aside'
      BY <1>1, <1>10 DEF Inv, Cancellation
    <2>5. chan'["inner"].buf = <<Canceled>> => Aside' BY <1>5, <1>10 DEF Inv, Cancellation
    <2>6. \A i \in 1 .. Len(chan'["outer"].buf) : chan'["outer"].buf[i] = Canceled => Told'
      BY <1>5, <1>10 DEF Inv, Cancellation
    <2>7. Canceled' = Canceled /\ Contexts' = Contexts BY DEF Canceled, Contexts
    <2>. QED BY <1>8, <2>1, <2>2, <2>3, <2>4, <2>5, <2>6, <2>7 DEF Cancellation
  <1>16. Reading' BY <1>1, <1>5, <1>10 DEF Inv, Reading, ReaderLearnsTheEnd
  <1>17. TerminalIsLast' BY <1>1 DEF Inv, TerminalIsLast
  <1>18. Drafts'
    <2>1. Draft' = Draft /\ Search' = Search BY DEF Draft, Search
    <2>2. DraftStaysIn' BY <1>1 DEF Inv, Drafts, DraftStaysIn
    <2>. QED BY <1>1, <1>10, <2>1, <2>2 DEF Inv, Drafts
  <1>19. AnswerFits'
    <2>. SUFFICES ASSUME route \in RunnerRoutes PROVE AnswerFits' BY <1>1 DEF AnswerFits
    <2>1. src'.total = 0 => \A x \in Answers : ~Sent(x)' /\ ~Passed(x)' /\ ~Held(x)'
      BY <1>1, <1>10 DEF Inv, AnswerFits
    <2>2. Sent(Completed)' \/ Passed(Completed)' \/ Held(Completed)' => src'.left = 0 /\ Ending(src')
      BY <1>1, <1>10 DEF Inv, AnswerFits
    <2>3. Adds'
      <3>1. ended["run"] # "none" => ended'["run"] = ended["run"] BY <1>9, Nested
      <3>2. \A x : (Passed(x)' <=> Passed(x)) /\ (Held(x)' <=> Held(x)) /\ At(x)' = At(x)
        BY <1>10
      <3>. QED BY <1>1, <3>1, <3>2, AddsStay
    <2>. QED BY <2>1, <2>2, <2>3 DEF AnswerFits
  <1>20. Typed' /\ SourceFits' /\ SourceEnds' /\ RelayEnds' /\ InnerEnds'
    BY <1>11, <1>12, <1>13, <1>14
  <1>21. Cancellation' /\ Reading' /\ TerminalIsLast' /\ Drafts' /\ AnswerFits'
    BY <1>15, <1>16, <1>17, <1>18, <1>19
  <1>. QED BY <1>20, <1>21 DEF Inv

-----------------------------------------------------------------------------
(* The reader and the environment.                                           *)

\* Contexts end and the reader takes from outer; source and relay stay.
LEMMA Signalled ==
  ASSUME Inv, UNCHANGED <<route, required, sent, src, relay>>,
         chan' \in [Channels -> Chan], chan'["inner"] = chan["inner"],
         chan'["outer"].closed = chan["outer"].closed,
         ended' \in [Contexts -> {"none", "canceled", "deadline"}], cancelled' \in BOOLEAN,
         ended["chat"] # "none" => ended'["chat"] = ended["chat"],
         ended["run"] # "none" => ended'["run"] = ended["run"],
         ended'["chat"] # "none" => Told' /\ ended'["run"] # "none",
         ended'["bounded"] # "none" => ended'["run"] # "none",
         \A c \in Contexts : ended'[c] = "canceled" => ended[c] = "canceled" \/ Told',
         Told => Told',
         \A i \in 1 .. Len(chan'["outer"].buf) : chan'["outer"].buf[i] = Canceled => Told',
         Reading'
  PROVE  Inv'
  <1>1. /\ route' = route /\ required' = required /\ Enforced' = Enforced /\ sent' = sent /\ src' = src /\ relay' = relay
    BY DEF Enforced
  <1>2. /\ \A x : (Held(x)' <=> Held(x)) /\ (Passed(x)' <=> Passed(x)) /\ (Sent(x)' <=> Sent(x))
                  /\ At(x)' = At(x)
        /\ Direct' = Direct /\ Done' = Done /\ (Aside => Aside') /\ (Told' => Aside')
    BY <1>1 DEF Held, Passed, Sent, At, Direct, Aside, Done
  <1>3. Typed' BY <1>1 DEF Inv, Typed
  <1>4. SourceFits' BY <1>1 DEF Inv, SourceFits
  <1>5. SourceEnds'
    <2>. SUFFICES ASSUME Direct PROVE SourceEnds' BY <1>2 DEF SourceEnds
    <2>1. Ending(src') /\ ended'["chat"] = "none" => Done
      BY <1>1 DEF Inv, SourceEnds
    <2>. QED BY <1>1, <1>2, <2>1 DEF Inv, SourceEnds
  <1>6. RelayEnds'
    <2>. SUFFICES ASSUME ~Direct PROVE RelayEnds' BY <1>2 DEF RelayEnds
    <2>1. relay'.pc \in {"closing", "end"} /\ ended'["chat"] = "none" => Done
      BY <1>1 DEF Inv, RelayEnds
    <2>. QED BY <1>1, <1>2, <2>1 DEF Inv, RelayEnds
  <1>7. InnerEnds' BY <1>1, <1>2 DEF Inv, InnerEnds
  <1>8. Cancellation'
    <2>1. \A c \in Contexts : ended'[c] = "canceled" => Aside'
      BY <1>2 DEF Inv, Cancellation
    <2>2. src'.pc = "terminal" /\ src'.ev = Canceled => Aside'
      BY <1>1, <1>2 DEF Inv, Cancellation
    <2>3. chan'["inner"].buf = <<Canceled>> => Aside' BY <1>2 DEF Inv, Cancellation
    <2>4. relay'.pc = "pass" /\ relay'.ev = Canceled => Told' BY <1>1 DEF Inv, Cancellation
    <2>5. Canceled' = Canceled /\ Contexts' = Contexts BY DEF Canceled, Contexts
    <2>. QED BY <2>1, <2>2, <2>3, <2>4, <2>5 DEF Cancellation
  <1>9. TerminalIsLast' BY <1>1 DEF Inv, TerminalIsLast
  <1>10. Drafts'
    <2>1. Draft' = Draft /\ Search' = Search BY DEF Draft, Search
    <2>2. DraftStaysIn' BY <1>1 DEF Inv, Drafts, DraftStaysIn
    <2>. QED BY <1>1, <1>2, <2>1, <2>2 DEF Inv, Drafts
  <1>11. AnswerFits'
    <2>. SUFFICES ASSUME route \in RunnerRoutes PROVE AnswerFits' BY <1>1 DEF AnswerFits
    <2>1. src'.total = 0 => \A x \in Answers : ~Sent(x)' /\ ~Passed(x)' /\ ~Held(x)'
      BY <1>1, <1>2 DEF Inv, AnswerFits
    <2>2. Sent(Completed)' \/ Passed(Completed)' \/ Held(Completed)' => src'.left = 0 /\ Ending(src')
      BY <1>1, <1>2 DEF Inv, AnswerFits
    <2>3. \A x : (Passed(x)' <=> Passed(x)) /\ (Held(x)' <=> Held(x)) /\ At(x)' = At(x)
      BY <1>2
    <2>4. Adds' BY <1>1, <2>3, AddsStay
    <2>. QED BY <2>1, <2>2, <2>4 DEF AnswerFits
  <1>12. Typed' /\ SourceFits' /\ SourceEnds' /\ RelayEnds' /\ InnerEnds'
    BY <1>3, <1>4, <1>5, <1>6, <1>7
  <1>13. Cancellation' /\ Reading' /\ TerminalIsLast' /\ Drafts' /\ AnswerFits'
    BY <1>8, <1>9, <1>10, <1>11
  <1>. QED BY <1>12, <1>13 DEF Inv

\* The same, when nothing is read.
LEMMA ContextEnds ==
  ASSUME Inv, UNCHANGED <<route, required, chan, sent, src, relay, reader>>,
         cancelled' \in BOOLEAN, cancelled => cancelled',
         NEW c \in Contexts, NEW why \in {"canceled", "deadline"}, End(c, why),
         c = "chat" \/ why = "canceled" => cancelled'
  PROVE  Inv'
  <1>1. /\ ended' \in [Contexts -> {"none", "canceled", "deadline"}]
        /\ \A d \in Contexts : /\ ended[d] # "none" => ended'[d] = ended[d]
                               /\ ended'[d] = ended[d] \/ (ended'[d] = why /\ d \in Within(c))
                               /\ d \in Within(c) => ended'[d] # "none"
    BY Ends DEF Inv
  <1>2. Told => Told' BY DEF Told
  <1>3. ended'["chat"] # "none" => Told' /\ ended'["run"] # "none"
    <2>1. c = "chat" => Told' BY DEF Told
    <2>2. ended'["chat"] # ended["chat"] => c = "chat" BY <1>1, Nested DEF Contexts
    <2>3. c = "chat" => ended'["run"] # "none" BY <1>1, Nested
    <2>. QED BY <1>1, <1>2, <2>1, <2>2, <2>3, Nested DEF Inv, Cancellation
  <1>4. ended'["bounded"] # "none" => ended'["run"] # "none"
    <2>1. ended'["bounded"] # ended["bounded"] => "run" \in Within(c) BY <1>1, Nested DEF Contexts
    <2>. QED BY <1>1, <2>1, Nested DEF Inv, Cancellation
  <1>5. \A d \in Contexts : ended'[d] = "canceled" => ended[d] = "canceled" \/ Told'
    BY <1>1 DEF Told
  <1>6. \A i \in 1 .. Len(chan'["outer"].buf) : chan'["outer"].buf[i] = Canceled => Told'
    BY <1>2 DEF Inv, Cancellation
  <1>7. Reading'
    <2>1. Done' = Done BY DEF Done
    <2>. QED BY <2>1 DEF Inv, Reading, ReaderLearnsTheEnd
  <1>8. /\ chan' \in [Channels -> Chan] /\ chan'["inner"] = chan["inner"]
        /\ chan'["outer"].closed = chan["outer"].closed
        /\ UNCHANGED <<route, required, sent, src, relay>>
    BY DEF Inv, Typed
  <1>9. /\ ended["chat"] # "none" => ended'["chat"] = ended["chat"]
        /\ ended["run"] # "none" => ended'["run"] = ended["run"]
    BY <1>1, Nested
  <1>. QED BY <1>1, <1>2, <1>3, <1>4, <1>5, <1>6, <1>7, <1>8, <1>9, Signalled

LEMMA CancelInv == ASSUME Inv, Cancel PROVE Inv'
  BY ContextEnds, Nested DEF Cancel

LEMMA RunTimeoutInv == ASSUME Inv, RunTimeout PROVE Inv'
  BY ContextEnds, Nested DEF RunTimeout, Inv, Typed

LEMMA BoundedTimeoutInv == ASSUME Inv, BoundedTimeout PROVE Inv'
  BY ContextEnds, Nested DEF BoundedTimeout, Inv, Typed

\* What the reader makes of a terminal event.
LEMMA Outcomes ==
  ASSUME NEW e \in Events, Terminal(e)
  PROVE  /\ OutcomeOf(e) # "reading" /\ OutcomeOf(e) # "stream_closed"
         /\ OutcomeOf(e) = "silent" => e = Canceled
  <1>1. e.type \in {"completed", "failed"} BY DEF Terminal
  <1>2. e.type = "failed" /\ e.tag = "canceled" => e = Canceled
    BY Distinct DEF Events, Canceled, Failed
  <1>. QED BY <1>1, <1>2, SMT DEF OutcomeOf

\* The reader leaves: every context ends.
LeavingEnds ==
    /\ ended' \in [Contexts -> {"none", "canceled", "deadline"}]
    /\ ended["chat"] # "none" => ended'["chat"] = ended["chat"]
    /\ ended["run"] # "none" => ended'["run"] = ended["run"]
    /\ ended'["run"] # "none"

LEMMA EndsAll ==
  ASSUME Typed, End("chat", "canceled")
  PROVE  LeavingEnds
  <1>1. /\ ended' \in [Contexts -> {"none", "canceled", "deadline"}]
        /\ \A d \in Contexts : /\ ended[d] # "none" => ended'[d] = ended[d]
                               /\ d \in Within("chat") => ended'[d] # "none"
    BY Ends, Nested
  <1>. QED BY <1>1, Nested DEF LeavingEnds

LEMMA ReaderReceivesInv ==
  ASSUME Inv, ReaderReceives
  PROVE  Inv'
  <1>1. /\ reader = "reading" /\ Pop("outer")
        /\ UNCHANGED <<route, required, sent, src, relay, cancelled>>
    BY DEF ReaderReceives
  <1>2. Typed /\ "inner" \in Channels /\ "outer" \in Channels /\ "inner" # "outer"
    BY DEF Inv, Channels
  <1>3. /\ chan["outer"].buf # <<>> /\ chan'["outer"].buf = Tail(chan["outer"].buf)
        /\ chan'["outer"].closed = chan["outer"].closed
        /\ chan'["inner"] = chan["inner"]
        /\ chan' \in [Channels -> Chan]
    BY <1>1, <1>2, Popped
  <1>4. PICK b, c : b = chan["outer"].buf /\ c = chan'["outer"].buf OBVIOUS
  <1>5. b \in Seq(Events) /\ b # <<>> /\ c = Tail(b) BY <1>2, <1>3, <1>4, Chans
  <1>6. /\ Head(b) \in Events /\ Head(b) = b[1] /\ Len(b) \in Nat /\ 1 \in 1 .. Len(b)
        /\ \A i \in 1 .. Len(c) : i + 1 \in 1 .. Len(b) /\ c[i] = b[i + 1]
        /\ c = <<>> => Len(b) = 1
        /\ c # <<>> => c[Len(c)] = b[Len(b)]
    <2>1. \A s \in Seq(Events) : Len(s) \in Nat /\ (s = <<>> <=> Len(s) = 0) BY SMT
    <2>2. Head(b) \in Events /\ Head(b) = b[1] BY <1>5, SMT
    <2>3. c \in Seq(Events) /\ Len(c) = Len(b) - 1 /\ \A i \in 1 .. Len(c) : c[i] = b[i + 1]
      BY <1>5, SMT
    <2>4. PICK m, n : m = Len(b) /\ n = Len(c) OBVIOUS
    <2>5. /\ m \in Nat /\ n \in Nat /\ m # 0 /\ n = m - 1 /\ (c = <<>> <=> n = 0)
      BY <1>5, <2>1, <2>3, <2>4
    <2>6. /\ 1 \in 1 .. m /\ \A i \in 1 .. n : i + 1 \in 1 .. m
          /\ (n = 0 => m = 1) /\ (n # 0 => n \in 1 .. n /\ n + 1 = m)
      BY <2>5, SMT
    <2>. QED BY <2>2, <2>3, <2>4, <2>5, <2>6
  <1>7. PICK e : e = Head(b) OBVIOUS
  <1>8. e \in Events /\ (e = Canceled => Told) BY <1>4, <1>6, <1>7 DEF Inv, Cancellation
  <1>9. \A i \in 1 .. Len(c) : c[i] = Canceled => Told BY <1>4, <1>6 DEF Inv, Cancellation
  <1>10. \/ ended' = ended /\ reader' = reader /\ ~Terminal(e)
         \/ \E o : Leaves(o) /\ (o = "store_failed" \/ (o = OutcomeOf(e) /\ Terminal(e)))
    BY <1>4, <1>7 DEF ReaderReceives
  <1>11. Done' = Done BY <1>1 DEF Done
  <1>12. CASE ended' = ended /\ reader' = reader /\ ~Terminal(e)
    <2>1. Told' = Told BY <1>1, <1>12 DEF Told
    <2>2. Reading'
      <3>1. Done => Terminal(b[Len(b)]) BY <1>1, <1>4 DEF Inv, Reading
      <3>2. Done => c # <<>> /\ Terminal(c[Len(c)]) BY <1>6, <1>7, <1>12, <3>1
      <3>. QED BY <1>1, <1>4, <1>11, <1>12, <3>2 DEF Inv, Reading, ReaderLearnsTheEnd
    <2>3. /\ ended'["chat"] # "none" => Told' /\ ended'["run"] # "none"
          /\ ended'["bounded"] # "none" => ended'["run"] # "none"
          /\ \A x \in Contexts : ended'[x] = "canceled" => ended[x] = "canceled" \/ Told'
          /\ ended' \in [Contexts -> {"none", "canceled", "deadline"}] /\ cancelled' \in BOOLEAN
      BY <1>1, <1>12, <2>1 DEF Inv, Cancellation, Typed
    <2>4. \A i \in 1 .. Len(chan'["outer"].buf) : chan'["outer"].buf[i] = Canceled => Told'
      BY <1>4, <1>9, <2>1
    <2>. QED BY <1>1, <1>3, <1>12, <2>1, <2>2, <2>3, <2>4, Signalled
  <1>13. CASE \E o : Leaves(o) /\ (o = "store_failed" \/ (o = OutcomeOf(e) /\ Terminal(e)))
    <2>1. PICK o : Leaves(o) /\ (o = "store_failed" \/ (o = OutcomeOf(e) /\ Terminal(e))) BY <1>13
    <2>2. o # "reading" /\ o # "stream_closed" /\ (o = "silent" => e = Canceled)
      BY <1>8, <2>1, Outcomes
    <2>3. reader' = o /\ End("chat", "canceled") BY <2>1 DEF Leaves
    <2>4. Told' BY <2>2, <2>3 DEF Told
    <2>5. Reading'
      <3>1. o = "silent" => cancelled' BY <1>1, <1>8, <2>2 DEF Told
      <3>. QED BY <2>2, <2>3, <3>1 DEF Reading, ReaderLearnsTheEnd
    <2>6. LeavingEnds BY <1>2, <2>3, EndsAll
    <2>. QED BY <1>1, <1>3, <2>4, <2>5, <2>6, Signalled DEF LeavingEnds, Inv, Typed
  <1>. QED BY <1>10, <1>12, <1>13

LEMMA ReaderSeesCloseInv ==
  ASSUME Inv, ReaderSeesClose
  PROVE  Inv'
  <1>1. /\ reader = "reading" /\ AtEnd("outer")
        /\ Leaves(IF ended["chat"] # "none" THEN "silent" ELSE "stream_closed")
        /\ UNCHANGED <<route, required, chan, sent, src, relay, cancelled>>
    BY DEF ReaderSeesClose
  <1>2. chan["outer"].closed /\ chan["outer"].buf = <<>> BY <1>1 DEF AtEnd
  <1>3. ~Done BY <1>1, <1>2 DEF Inv, Reading
  <1>4. ended["chat"] # "none"
    <2>1. CASE Direct BY <1>2, <1>3, <2>1 DEF Inv, SourceEnds, Ending
    <2>2. CASE ~Direct BY <1>2, <1>3, <2>2 DEF Inv, RelayEnds
    <2>. QED BY <2>1, <2>2
  <1>5. reader' = "silent" /\ End("chat", "canceled") BY <1>1, <1>4 DEF Leaves
  <1>6. cancelled' BY <1>1, <1>4 DEF Inv, Cancellation, Told
  <1>7. Reading' BY <1>5, <1>6 DEF Reading, ReaderLearnsTheEnd
  <1>8. Told' BY <1>5 DEF Told
  <1>9. LeavingEnds BY <1>5, EndsAll DEF Inv
  <1>10. /\ chan' \in [Channels -> Chan] /\ chan'["inner"] = chan["inner"]
         /\ chan'["outer"].closed = chan["outer"].closed /\ cancelled' \in BOOLEAN
    BY <1>1 DEF Inv, Typed
  <1>. QED BY <1>1, <1>7, <1>8, <1>9, <1>10, Signalled DEF LeavingEnds

-----------------------------------------------------------------------------
(* The initial states.                                                       *)

LEMMA Source0Typed ==
  /\ Source0 \in Src /\ Source0.pc = "end" /\ ~Source0.grounded /\ Source0.tag = "refusal"
  /\ Source0.left = 0 /\ Source0.total = 0 /\ Source0.parts = <<>> /\ Source0.ev = NoEvent
  <1>1. "end" \in Places /\ "refusal" \in Tags BY DEF Places, Tags
  <1>2. <<>> \in Seq(Events) BY SMT
  <1>3. Source0 \in Src BY <1>1, <1>2, SMT DEF Source0, Src
  <1>. QED BY <1>3, SMT DEF Source0

LEMMA AnnouncedTyped ==
  LET k == [Source0 EXCEPT !.grounded = TRUE]
  IN  k \in Src /\ k.grounded /\ k.left = 0 /\ k.total = 0
  <1>1. \A s \in Src, b \in BOOLEAN : [s EXCEPT !.grounded = b] \in Src BY ZenonT(30) DEF Src
  <1>2. \A s \in Src : [s EXCEPT !.grounded = TRUE].grounded BY ZenonT(30) DEF Src
  <1>3. \A s \in Src : [s EXCEPT !.grounded = TRUE].left = s.left
                       /\ [s EXCEPT !.grounded = TRUE].total = s.total
    BY ZenonT(30) DEF Src
  <1>. QED BY <1>1, <1>2, <1>3, Source0Typed

\* The source of each route.
LEMMA SourceStarts ==
  ASSUME Init
  PROVE  /\ src \in Src /\ SourceFits /\ src.left = 0 /\ src.total = 0
         /\ (Ending(src) <=> route = "no_stream") /\ src.pc # "terminal"
         /\ (src.pc = "parts" => src.parts # <<>>)
         /\ \A e \in Answers : ~Sending(e)
  <1>1. /\ route \in Routes /\ required \in BOOLEAN /\ src \in Sources
        /\ Enforced => route \in RunnerRoutes
    BY DEF Init, Enforced, RunnerRoutes
  <1>2. \A p \in Places :
          LET k == [Source0 EXCEPT !.pc = p]
          IN  /\ k \in Src /\ k.pc = p /\ ~k.grounded /\ k.left = 0 /\ k.total = 0
    BY Source0Typed, MovedTyped DEF Alike
  <1>3. CASE route \in RunnerRoutes
    <2>1. src = IF Enforced
                THEN Going([Source0 EXCEPT !.grounded = TRUE], Ev("status", "none"),
                           "iterate", "iterate")
                ELSE [Source0 EXCEPT !.pc = "iterate"]
      <3>1. route # "handler" /\ route # "skill" /\ route # "skill_stream" /\ route # "no_stream"
        BY <1>3 DEF RunnerRoutes
      <3>2. Sources = {IF Enforced
                       THEN Going([Source0 EXCEPT !.grounded = TRUE], Ev("status", "none"),
                                  "iterate", "iterate")
                       ELSE [Source0 EXCEPT !.pc = "iterate"]}
        BY <1>3, <3>1 DEF Sources
      <3>. QED BY <1>1, <3>2
    <2>2. CASE Enforced
      <3>1. PICK e : e = Ev("status", "none") OBVIOUS
      <3>2. e \in Events /\ e \notin Answers /\ e # Draft /\ e # Search /\ ~Terminal(e)
        BY <3>1, Known, Kinds
      <3>. DEFINE g == [Source0 EXCEPT !.grounded = TRUE]
                  k == Going(g, e, "iterate", "iterate")
      <3>3. src = k BY <2>1, <2>2, <3>1
      <3>4. g \in Src /\ g.grounded /\ g.left = 0 /\ g.total = 0 BY AnnouncedTyped
      <3>. HIDE DEF g
      <3>5. "iterate" \in Places BY DEF Places
      <3>6. /\ k \in Src /\ Alike(g, k) /\ k.pc = "emit" /\ k.ev = e
            /\ k.then = "iterate" /\ k.onDrop = "iterate"
        BY <3>2, <3>4, <3>5, GoingTyped
      <3>. HIDE DEF k
      <3>7. /\ src \in Src /\ src.grounded /\ src.left = 0 /\ src.total = 0 /\ src.pc = "emit"
            /\ src.ev = e /\ src.then = "iterate" /\ src.onDrop = "iterate"
        BY <3>3, <3>4, <3>6 DEF Alike
      <3>8. RunnerFits(src) BY <3>2, <3>7 DEF RunnerFits
      <3>9. \A x \in Answers : ~Sending(x) BY <3>2, <3>7 DEF Sending
      <3>. QED BY <1>3, <3>7, <3>8, <3>9 DEF SourceFits, RunnerRoutes, Ending
    <2>3. CASE ~Enforced
      <3>1. "iterate" \in Places BY DEF Places
      <3>2. src \in Src /\ src.pc = "iterate" /\ ~src.grounded /\ src.left = 0 /\ src.total = 0
        BY <1>2, <2>1, <2>3, <3>1
      <3>3. RunnerFits(src) /\ \A x : ~Sending(x) BY <3>2 DEF RunnerFits, Sending
      <3>. QED BY <1>3, <2>3, <3>2, <3>3 DEF SourceFits, RunnerRoutes, Ending
    <2>. QED BY <2>2, <2>3
  <1>4. CASE route = "handler"
    <2>1. src = [Source0 EXCEPT !.pc = "exec"] BY <1>1, <1>4 DEF Sources, RunnerRoutes
    <2>2. "exec" \in Places BY DEF Places
    <2>3. src \in Src /\ src.pc = "exec" /\ ~src.grounded /\ src.left = 0 /\ src.total = 0
      BY <1>2, <2>1, <2>2
    <2>4. HandlerFits(src) /\ \A x : ~Sending(x) BY <2>3 DEF HandlerFits, Sending
    <2>. QED BY <1>1, <1>4, <2>3, <2>4 DEF SourceFits, RunnerRoutes, Ending
  <1>5. CASE route = "skill"
    <2>1. PICK e : e = Ev("started", "none") OBVIOUS
    <2>2. e \in Plain /\ e \in Events /\ e \notin Answers /\ ~Terminal(e)
      <3>1. e \in Plain BY <2>1 DEF Plain
      <3>. QED BY <2>1, <3>1, Known, Kinds, Distinct
    <2>. DEFINE k == Going(Source0, e, "exec", "closing")
    <2>3. src = k BY <1>1, <1>5, <2>1 DEF Sources, RunnerRoutes
    <2>4. "exec" \in Places /\ "closing" \in Places BY DEF Places
    <2>5. k \in Src /\ Alike(Source0, k) /\ k.pc = "emit" /\ k.ev = e
          /\ k.then = "exec" /\ k.onDrop = "closing"
      BY <2>2, <2>4, GoingTyped, Source0Typed
    <2>. HIDE DEF k
    <2>6. /\ src \in Src /\ ~src.grounded /\ src.left = 0 /\ src.total = 0 /\ src.pc = "emit"
          /\ src.ev = e /\ src.then = "exec" /\ src.onDrop = "closing"
      BY <2>3, <2>5, Source0Typed DEF Alike
    <2>7. HandlerFits(src) BY <2>2, <2>6 DEF HandlerFits
    <2>8. \A x \in Answers : ~Sending(x) BY <2>2, <2>6 DEF Sending
    <2>. QED BY <1>1, <1>5, <2>6, <2>7, <2>8 DEF SourceFits, RunnerRoutes, Ending
  <1>6. CASE route = "skill_stream"
    <2>1. PICK p \in {"foreign", "nil"} : src = [Source0 EXCEPT !.pc = p]
      BY <1>1, <1>6 DEF Sources, RunnerRoutes
    <2>2. p \in Places BY DEF Places
    <2>3. src \in Src /\ src.pc = p /\ ~src.grounded /\ src.left = 0 /\ src.total = 0
      BY <1>2, <2>1, <2>2
    <2>4. ForeignFits(src) /\ \A x : ~Sending(x) BY <2>3 DEF ForeignFits, Sending
    <2>. QED BY <1>1, <1>6, <2>3, <2>4 DEF SourceFits, RunnerRoutes, Ending
  <1>7. CASE route = "no_stream"
    <2>1. src = Source0 BY <1>1, <1>7 DEF Sources, RunnerRoutes
    <2>2. \A x : ~Sending(x) BY <2>1, Source0Typed DEF Sending
    <2>. QED BY <1>1, <1>7, <2>1, <2>2, Source0Typed DEF SourceFits, RunnerRoutes, Ending
  <1>. QED BY <1>1, <1>3, <1>4, <1>5, <1>6, <1>7, ProtocolAssumption
           DEF ProtocolAssumption, RunnerRoutes

LEMMA RelayStarts ==
  ASSUME Init
  PROVE  /\ relay \in Rel /\ ~relay.terminal /\ relay.pc \in {"end", "recv", "pass"}
         /\ relay.pc = "end" <=> Direct
         /\ relay.pc = "pass" => relay.ev = Ev("started", "none") /\ relay.then = "recv"
  <1>0. relay = Relays BY DEF Init
  <1>1. Relay0 \in Rel /\ Relay0.pc = "end" /\ ~Relay0.terminal BY SMT DEF Relay0, Rel
  <1>2. CASE route = "bounded"
    <2>. DEFINE k == [Relay0 EXCEPT !.pc = "recv"]
    <2>1. relay = k BY <1>0, <1>2 DEF Relays
    <2>2. k \in Rel /\ k.pc = "recv" /\ k.terminal = Relay0.terminal BY <1>1, RelMoved
    <2>. HIDE DEF k
    <2>. QED BY <1>1, <1>2, <2>1, <2>2 DEF Direct, RelayedRoutes
  <1>3. CASE route = "skill_stream"
    <2>1. PICK e : e = Ev("started", "none") OBVIOUS
    <2>2. e \in Events
      <3>1. e \in Plain BY <2>1 DEF Plain
      <3>. QED BY <3>1, Known
    <2>. DEFINE k == Passing(Relay0, e, "recv")
    <2>3. relay = k BY <1>0, <1>3, <2>1 DEF Relays
    <2>4. k \in Rel /\ k.pc = "pass" /\ k.ev = e /\ k.then = "recv" /\ k.terminal = Relay0.terminal
      BY <1>1, <2>2, PassingTyped
    <2>. HIDE DEF k
    <2>. QED BY <1>1, <1>3, <2>1, <2>3, <2>4 DEF Direct, RelayedRoutes
  <1>4. CASE route # "bounded" /\ route # "skill_stream"
    <2>1. relay = Relay0 BY <1>0, <1>4 DEF Relays
    <2>. QED BY <1>1, <1>4, <2>1 DEF Direct, RelayedRoutes
  <1>. QED BY <1>2, <1>3, <1>4

LEMMA Starts == Init => Inv
  <1>. SUFFICES ASSUME Init PROVE Inv OBVIOUS
  <1>1. /\ route \in Routes /\ required \in BOOLEAN /\ reader = "reading" /\ cancelled = FALSE
        /\ ended = [c \in Contexts |-> "none"] /\ sent = chan["outer"].buf
    BY DEF Init
  <1>2. /\ src \in Src /\ SourceFits /\ src.left = 0 /\ src.total = 0
        /\ (Ending(src) <=> route = "no_stream") /\ src.pc # "terminal"
        /\ (src.pc = "parts" => src.parts # <<>>)
        /\ \A e \in Answers : ~Sending(e)
    BY SourceStarts
  <1>3. /\ relay \in Rel /\ ~relay.terminal /\ relay.pc \in {"end", "recv", "pass"}
        /\ (relay.pc = "end" <=> Direct)
        /\ (relay.pc = "pass" => relay.ev = Ev("started", "none") /\ relay.then = "recv")
    BY RelayStarts
  <1>4. PICK f, s : f = Failed("error") /\ s = Ev("started", "none") OBVIOUS
  <1>5. f \in Events /\ Terminal(f) /\ f # Canceled /\ f # Draft /\ f # Search /\ f # Completed
        /\ f \notin Answers
    BY <1>4, Known, Kinds
  <1>6. s \in Events /\ ~Terminal(s) /\ s # Canceled /\ s # Draft /\ s # Search /\ s # Completed
        /\ s \notin Answers
    <2>1. s \in Plain BY <1>4 DEF Plain
    <2>. QED BY <1>4, <2>1, Known, Kinds, Distinct
  <1>7. /\ chan["inner"] = Empty
        /\ chan["outer"] = IF route = "no_stream" THEN FailedStream ELSE Empty
        /\ chan \in [Channels -> Chan]
    <2>1. Empty \in Chan BY SMT DEF Empty, Chan
    <2>2. FailedStream \in Chan BY <1>4, <1>5, SMT DEF FailedStream, Chan
    <2>. QED BY <2>1, <2>2 DEF Init, Channels
  <1>8. PICK o : o = chan["outer"].buf OBVIOUS
  <1>9. o = IF route = "no_stream" THEN <<f>> ELSE <<>>
    BY <1>4, <1>7, <1>8 DEF FailedStream, Empty
  <1>10. /\ o \in Seq(Events) /\ (route # "no_stream" => Len(o) = 0)
         /\ (route = "no_stream" => o # <<>> /\ Len(o) = 1 /\ o[1] = f)
    BY <1>5, <1>9, SMT
  <1>11. /\ route # "no_stream" => 1 .. Len(o) = {}
         /\ route = "no_stream" => 1 .. Len(o) = {1}
    <2>1. 1 .. 0 = {} /\ 1 .. 1 = {1} BY SMT
    <2>. QED BY <1>10, <2>1
  <1>12. /\ \A i \in 1 .. Len(sent) : i = Len(sent) /\ sent[i] = f
         /\ Done <=> route = "no_stream"
    BY <1>1, <1>5, <1>8, <1>10, <1>11 DEF Done
  <1>13. \A e : (Sent(e) => e = f) /\ ~Held(e) /\ (Passed(e) => e = s)
    <2>1. \A e : <<>> # <<e>> BY SMT
    <2>. QED BY <1>3, <1>4, <1>7, <1>12, <2>1 DEF Sent, Held, Passed, Empty
  <1>14. Typed BY <1>1, <1>2, <1>3, <1>7, <1>8, <1>10 DEF Typed
  <1>15. SourceEnds
    <2>1. Direct => (route = "no_stream" <=> chan["outer"].closed)
      BY <1>7 DEF FailedStream, Empty
    <2>2. route = "no_stream" => src.pc = "end" BY <1>2 DEF SourceFits
    <2>3. src.pc = "parts" /\ src.parts = <<>> => Done BY <1>2
    <2>. QED BY <1>2, <1>3, <1>7, <1>12, <2>1, <2>2, <2>3 DEF SourceEnds
  <1>16. RelayEnds
    <2>. SUFFICES ASSUME ~Direct PROVE RelayEnds BY DEF RelayEnds
    <2>1. route # "no_stream" BY DEF Direct, RelayedRoutes
    <2>2. ~Done /\ chan["inner"].buf = <<>> /\ ~chan["outer"].closed
      BY <1>7, <1>12, <2>1 DEF Empty
    <2>. QED BY <1>3, <1>4, <1>6, <2>2 DEF RelayEnds
  <1>17. InnerEnds
    <2>. SUFFICES ASSUME route = "bounded" PROVE InnerEnds BY DEF InnerEnds
    <2>1. \A e : <<>> # <<e>> BY SMT
    <2>. QED BY <1>3, <1>7, <1>12, <2>1 DEF InnerEnds, Empty
  <1>18. Cancellation
    <2>1. \A c \in Contexts : ended[c] = "none" BY <1>1
    <2>2. chan["inner"].buf # <<Canceled>> BY <1>13 DEF Held
    <2>3. \A i \in 1 .. Len(chan["outer"].buf) : chan["outer"].buf[i] # Canceled
      BY <1>1, <1>5, <1>12
    <2>4. ~(relay.pc = "pass" /\ relay.ev = Canceled) BY <1>3, <1>4, <1>6
    <2>. QED BY <1>2, <2>1, <2>2, <2>3, <2>4, Nested DEF Cancellation
  <1>19. Reading
    <2>1. Done => o # <<>> /\ o[Len(o)] = f BY <1>10, <1>12
    <2>. QED BY <1>1, <1>5, <1>8, <2>1 DEF Reading, ReaderLearnsTheEnd
  <1>20. TerminalIsLast BY <1>12 DEF TerminalIsLast
  <1>21. Drafts
    <2>1. DraftStaysIn BY <1>5, <1>12 DEF DraftStaysIn, Draft
    <2>. QED BY <1>5, <1>6, <1>13, <2>1 DEF Drafts
  <1>22. AnswerFits
    <2>. SUFFICES ASSUME route \in RunnerRoutes PROVE AnswerFits BY DEF AnswerFits
    <2>1. \A e \in Answers : ~Sent(e) /\ ~Passed(e) /\ ~Held(e) BY <1>5, <1>6, <1>13
    <2>2. ~Sent(Completed) /\ ~Passed(Completed) /\ ~Held(Completed) BY <1>5, <1>6, <1>13
    <2>3. PICK a : a = Ev("text", src.tag) OBVIOUS
    <2>4. a \in Answers
      <3>1. src.tag \in Tags BY <1>2, SMT DEF Src
      <3>. QED BY <2>3, <3>1 DEF Tags, Answers
    <2>5. At(a) = {} BY <2>1, <2>4 DEF Sent, At
    <2>6. One(Passed(a)) = 0 /\ One(Held(a)) = 0 /\ One(Sending(a)) = 0
      BY <1>2, <2>1, <2>4, Zenon DEF One
    <2>7. Cardinality(At(a)) = 0 BY <2>5, FS_EmptySet
    <2>8. Coming(a) = 0 + 0 + 0 + 0 BY <1>2, <2>6 DEF Coming
    <2>9. Cardinality(At(a)) + Coming(a) = src.total BY <1>2, <2>7, <2>8, SMT
    <2>. QED BY <2>1, <2>2, <2>3, <2>9 DEF AnswerFits, Adds
  <1>. QED BY <1>2, <1>14, <1>15, <1>16, <1>17, <1>18, <1>19, <1>20, <1>21, <1>22 DEF Inv

-----------------------------------------------------------------------------
(* The theorems.                                                             *)

LEMMA Stutters == Inv /\ UNCHANGED vars => Inv'
  <1>. SUFFICES ASSUME Inv, UNCHANGED vars PROVE Inv' OBVIOUS
  <1>1. UNCHANGED <<route, required, sent, src, relay, chan, ended, reader, cancelled>> BY DEF vars
  <1>2. \A e : (Sent(e)' <=> Sent(e)) /\ (Passed(e)' <=> Passed(e)) /\ (Held(e)' <=> Held(e))
               /\ At(e)' = At(e)
    BY <1>1 DEF Sent, Passed, Held, At
  <1>3. Reading'
    <2>1. Done' = Done BY <1>1 DEF Done
    <2>. QED BY <1>1, <2>1 DEF Inv, Reading, ReaderLearnsTheEnd
  <1>4. Told' = Told BY <1>1 DEF Told
  <1>5. /\ chan' \in [Channels -> Chan] /\ cancelled' \in BOOLEAN
        /\ ended' \in [Contexts -> {"none", "canceled", "deadline"}]
        /\ ended'["chat"] # "none" => Told' /\ ended'["run"] # "none"
        /\ ended'["bounded"] # "none" => ended'["run"] # "none"
        /\ \A i \in 1 .. Len(chan'["outer"].buf) : chan'["outer"].buf[i] = Canceled => Told'
    BY <1>1, <1>4 DEF Inv, Typed, Cancellation
  <1>. QED BY <1>1, <1>3, <1>4, <1>5, Signalled

(* Every reachable state, whatever the routes, the number of messages and of *)
(* chunks and the output budget, satisfies the inductive invariant.          *)
THEOREM Invariance == Spec => []Inv
  <1>1. Inv /\ [Next]_vars => Inv'
    <2>. SUFFICES ASSUME Inv, [Next]_vars PROVE Inv' OBVIOUS
    <2>1. CASE SourceStep
      BY <2>1, EmitInv, EmitDroppedInv, EmitTerminalInv, SourceClosesInv, ValidateInv,
         AnswerChunkInv, SendPartInv DEF SourceStep
    <2>2. CASE RelayStep
      BY <2>2, RelayReceivesInv, RelaySeesCloseInv, RelayFindsNoSourceInv, RelayPassesInv,
         RelayGivesUpInv, RelayClosesInv DEF RelayStep
    <2>3. CASE ReaderStep BY <2>3, ReaderReceivesInv, ReaderSeesCloseInv DEF ReaderStep
    <2>4. CASE ForeignStep
      BY <2>4, ModelTextInv, ModelDraftInv, ModelToolInv, IterationFailsInv, IterationEndsInv,
         HandlerReturnsInv, SkillEventInv, SkillClosesInv DEF ForeignStep
    <2>5. CASE Cancel \/ RunTimeout \/ BoundedTimeout
      BY <2>5, CancelInv, RunTimeoutInv, BoundedTimeoutInv
    <2>6. CASE UNCHANGED vars BY <2>6, Stutters
    <2>. QED BY <2>1, <2>2, <2>3, <2>4, <2>5, <2>6 DEF Next
  <1>. QED BY <1>1, Starts, PTL DEF Spec

(* emit, emitAgentEvent, ConversationHandler's and the skill executor's      *)
(* relays: the chat run is handed one terminal event at most, and nothing    *)
(* after it, by every route and at every cut of the stream.                  *)
THEOREM TerminalLast == Spec => []TerminalIsLast
  <1>1. Inv => TerminalIsLast BY DEF Inv
  <1>. QED BY <1>1, Invariance, PTL

(* The loop of chat.Service: it never meets a stream closed on a live run    *)
(* without a terminal event, and is silent only about a cancellation that    *)
(* CancelRun or the shutdown made.                                           *)
THEOREM ReaderIsTold == Spec => []ReaderLearnsTheEnd
  <1>1. Inv => ReaderLearnsTheEnd BY DEF Inv, Reading
  <1>. QED BY <1>1, Invariance, PTL

(* The runner's grounding: no text of the model reaches the chat run when    *)
(* it was told that retrieval is required, nor once a search result has been *)
(* shown.                                                                    *)
THEOREM DraftsStay == Spec => []DraftStaysIn
  <1>1. Inv => DraftStaysIn BY DEF Inv, Drafts
  <1>. QED BY <1>1, Invariance, PTL

(* emitValidatedAnswer, of however many chunks: an answer reported as        *)
(* completed while the run's context is alive was sent whole.                *)
THEOREM AnswersWhole == Spec => []AnswerWhole
  <1>1. ASSUME Inv PROVE AnswerWhole
    <2>. SUFFICES ASSUME Completed \in {sent[i] : i \in 1..Len(sent)}, src.grounded,
                         ended["run"] = "none"
                  PROVE  Cardinality({i \in 1..Len(sent) : sent[i] = Ev("text", src.tag)}) = src.total
      BY DEF AnswerWhole
    <2>1. route \in RunnerRoutes BY <1>1 DEF Inv, SourceFits
    <2>2. Sent(Completed) BY DEF Sent
    <2>3. src.left = 0 /\ Ending(src) BY <1>1, <2>1, <2>2 DEF Inv, AnswerFits
    <2>4. Done /\ Terminal(Completed) BY <2>2, Kinds DEF Sent, Done
    <2>5. PICK a : a = Ev("text", src.tag) OBVIOUS
    <2>6. ~Sending(a) BY <2>3 DEF Sending, Ending
    <2>7. ~Passed(a) /\ ~Held(a)
      <3>1. \A e : <<>> # <<e>> BY SMT
      <3>2. CASE Direct BY <1>1, <3>1, <3>2 DEF Inv, SourceEnds, Passed, Held, Empty
      <3>3. CASE ~Direct
        <4>1. route = "bounded" BY <2>1, <3>3 DEF Direct, RelayedRoutes, RunnerRoutes
        <4>2. chan["inner"].buf = <<>> BY <1>1, <2>4, <4>1 DEF Inv, InnerEnds
        <4>3. relay.pc # "pass" BY <1>1, <2>4, <3>3 DEF Inv, RelayEnds
        <4>. QED BY <3>1, <4>2, <4>3 DEF Passed, Held
      <3>. QED BY <3>2, <3>3
    <2>8. One(Passed(a)) = 0 /\ One(Held(a)) = 0 /\ One(Sending(a)) = 0
      BY <2>6, <2>7, Zenon DEF One
    <2>9. Coming(a) = 0 + 0 + 0 + 0 BY <2>3, <2>8 DEF Coming
    <2>10. Cardinality(At(a)) + Coming(a) = src.total
      BY <1>1, <2>1, <2>5 DEF Inv, AnswerFits, Adds
    <2>11. Cardinality(At(a)) \in Nat BY <1>1, Counted DEF Inv
    <2>12. Cardinality(At(a)) = src.total BY <2>9, <2>10, <2>11, SMT
    <2>. QED BY <2>5, <2>12 DEF At
  <1>. QED BY <1>1, Invariance, PTL

-----------------------------------------------------------------------------
(* EventStream: the inductive invariant *)

\* What the browser received and what is on its way to it are the stored events
\* 1, 2, ... without a gap, and the handler has read no further than it wrote.
Link(c) ==
    /\ \A i \in 1 .. Len(received[c]) : received[c][i] = i
    /\ \A i \in 1 .. Len(wire[c]) : wire[c][i] = Len(received[c]) + i
    /\ Len(received[c]) + Len(wire[c]) <= stored
    /\ client[c] = "open" => handler[c].after = Len(received[c]) + Len(wire[c])
    /\ client[c] # "open" => wire[c] = <<>> /\ handler[c].pc = "off"
    /\ handler[c].upto <= stored
    /\ handler[c].pc \in {"write", "wait"} => handler[c].after <= handler[c].upto
    /\ handler[c].pc = "wait" => handler[c].after = handler[c].upto

\* Events whose writer notifies nobody.
Quiet == IF status = "interrupted" THEN 1 ELSE 0

\* From its subscription to its wait a handler is registered or woken, and an event
\* that it did not list was stored by a writer that still has to notify it.
Watch(c) ==
    LET h == handler[c]
    IN  h.home =>
        /\ h.pc \in {"list", "write", "wait"} => h.registered \/ h.woken
        /\ h.pc \in {"write", "wait"} /\ ~h.full /\ ~h.woken /\ h.upto + Quiet < stored
           => owing # {}

Followed == TypeOK /\ \A c \in Clients : Link(c) /\ Watch(c)

-----------------------------------------------------------------------------
(* Type correctness *)

\* The handler's record after the assignments of its steps is a handler again.
LEMMA HandlerFields ==
    ASSUME NEW h \in Handler
    PROVE  /\ \A p \in {"off", "subscribe", "list", "write", "wait", "closed"} :
                 /\ [h EXCEPT !.pc = p] \in Handler
                 /\ \A b, w \in BOOLEAN :
                       [h EXCEPT !.pc = p, !.registered = b, !.woken = w] \in Handler
                 /\ \A b \in BOOLEAN : [h EXCEPT !.pc = p, !.registered = b] \in Handler
                 /\ \A n \in 0 .. MaxEvents, b \in BOOLEAN :
                       [h EXCEPT !.pc = p, !.upto = n, !.full = b] \in Handler
           /\ \A n \in 0 .. MaxEvents : [h EXCEPT !.after = n] \in Handler
           /\ Woken(h) \in Handler
BY ZenonT(30) DEF Handler, Woken

\* A fresh handler, too.
LEMMA FreshHandler ==
    /\ Off \in Handler
    /\ \A b \in BOOLEAN, n \in 0 .. MaxEvents :
          [Off EXCEPT !.pc = "subscribe", !.home = b, !.after = n] \in Handler
<1>1. 0 \in 0 .. MaxEvents
  BY StreamAssumption DEF StreamAssumption
<1>2. Off \in Handler
  BY <1>1 DEF Off, Handler
<1>3. ASSUME NEW b \in BOOLEAN, NEW n \in 0 .. MaxEvents
      PROVE  [Off EXCEPT !.pc = "subscribe", !.home = b, !.after = n] \in Handler
  BY <1>1, <1>2 DEF Handler
<1> QED
  BY <1>2, <1>3

\* A browser resumes after the last event it received.
LEMMA LastEventIDIsLength ==
    ASSUME NEW c \in Clients, received[c] \in Seq(1 .. MaxEvents),
           \A i \in 1 .. Len(received[c]) : received[c][i] = i
    PROVE  LastEventID(c) = Len(received[c])
<1>1. CASE received[c] = <<>>
  BY <1>1 DEF LastEventID
<1>2. CASE received[c] # <<>>
  <2>1. Len(received[c]) \in 1 .. Len(received[c])
    BY <1>2
  <2> QED
    BY <1>2, <2>1 DEF LastEventID, Last
<1> QED
  BY <1>1, <1>2

-----------------------------------------------------------------------------
(* The steps of one client, seen by the others *)

\* A client whose handler, wire, browser and log stay as they are keeps its part.
LEMMA Untouched ==
    ASSUME NEW c \in Clients, Link(c), Watch(c),
           UNCHANGED <<stored, status, owing>>,
           handler'[c] = handler[c], wire'[c] = wire[c],
           client'[c] = client[c], received'[c] = received[c]
    PROVE  Link(c)' /\ Watch(c)'
<1>1. Link(c)'
  BY Zenon DEF Link
<1>2. Watch(c)'
  BY Zenon DEF Watch, Quiet
<1> QED
  BY <1>1, <1>2

\* A client that is disconnected has nothing on its way.
LEMMA DisconnectedIsLinked ==
    ASSUME TypeOK, NEW c \in Clients, Link(c), NEW s, s # "open",
           Disconnected(c, s), received' = received, stored' = stored
    PROVE  Link(c)' /\ Watch(c)'
<1>1. handler'[c] = Off /\ wire'[c] = <<>> /\ client'[c] # "open"
  BY DEF Disconnected, TypeOK
<1> QED
  BY <1>1 DEF Link, Watch, Off, TypeOK

-----------------------------------------------------------------------------
(* Writers *)

\* A commit lengthens the log by one and leaves every connection as it is.
LEMMA CommitKeepsLink ==
    ASSUME TypeOK, NEW c \in Clients, Link(c), NEW s, Commit(s),
           UNCHANGED <<handler, wire, client, received>>
    PROVE  Link(c)'
BY StreamAssumption DEF StreamAssumption, Link, Commit, TypeOK, Handler

\* A writer that commits owes a notification.
LEMMA StoreStep == Followed /\ (Store \/ CancelRun) => Followed'
<1> SUFFICES ASSUME Followed, Store \/ CancelRun PROVE Followed'
  OBVIOUS
<1>1. PICK s \in {"running", "finished"} : Commit(s)
  BY DEF Store, CancelRun
<1>2. /\ UNCHANGED <<handler, wire, client, checking, received, cuts, refusals>>
      /\ owing' # {} /\ owing' \subseteq Writers
  BY DEF Store, CancelRun, Followed, TypeOK, Writers, browser
<1>3. TypeOK'
  BY StreamAssumption, <1>1, <1>2 DEF StreamAssumption, Followed, TypeOK, Commit
<1>4. ASSUME NEW c \in Clients PROVE Link(c)' /\ Watch(c)'
  <2>1. Link(c)'
    BY <1>1, <1>2, CommitKeepsLink DEF Followed
  <2>2. Watch(c)'
    BY <1>2 DEF Followed, Watch
  <2> QED
    BY <2>1, <2>2
<1> QED
  BY <1>3, <1>4 DEF Followed

\* The end another process writes is the one event nobody notifies.
LEMMA InterruptStep == Followed /\ InterruptRunning => Followed'
<1> SUFFICES ASSUME Followed, InterruptRunning PROVE Followed'
  OBVIOUS
<1>1. /\ Commit("interrupted")
      /\ UNCHANGED <<owing, handler, wire, client, checking, received, cuts, refusals>>
  BY DEF InterruptRunning, browser
<1>2. TypeOK'
  BY StreamAssumption, <1>1 DEF StreamAssumption, Followed, TypeOK, Commit
<1>3. ASSUME NEW c \in Clients PROVE Link(c)' /\ Watch(c)'
  <2>1. Link(c)'
    BY <1>1, CommitKeepsLink DEF Followed
  <2>2. stored' = stored + 1 /\ Quiet = 0 /\ Quiet' = 1
    BY <1>1 DEF Commit, Quiet, Ended
  <2>3. handler[c].upto \in Nat /\ stored \in Nat
    BY DEF Followed, TypeOK, Handler
  <2>4. Watch(c)'
    BY <1>1, <2>2, <2>3 DEF Followed, Watch
  <2> QED
    BY <2>1, <2>4
<1> QED
  BY <1>2, <1>3 DEF Followed

\* A notification wakes every registered handler of the process, so none of them
\* depends on the writer that has just paid what it owed.
LEMMA NotifyStep == ASSUME NEW w \in Writers PROVE Followed /\ Notify(w) => Followed'
<1> SUFFICES ASSUME Followed, Notify(w) PROVE Followed'
  OBVIOUS
<1>1. /\ handler' = [c \in Clients |-> Woken(handler[c])]
      /\ UNCHANGED <<stored, status, wire, client, checking, received, cuts, refusals>>
      /\ owing' = owing \ {w}
  BY DEF Notify, browser
<1>2. TypeOK'
  BY <1>1, HandlerFields DEF Followed, TypeOK
<1>3. ASSUME NEW c \in Clients PROVE Link(c)' /\ Watch(c)'
  <2>1. handler'[c] = Woken(handler[c]) /\ handler[c] \in Handler
    BY <1>1 DEF Followed, TypeOK
  <2>2. /\ handler'[c].pc = handler[c].pc /\ handler'[c].home = handler[c].home
        /\ handler'[c].after = handler[c].after /\ handler'[c].upto = handler[c].upto
        /\ handler[c].home /\ handler[c].registered => handler'[c].woken
        /\ ~(handler[c].home /\ handler[c].registered) => handler'[c] = handler[c]
    BY <2>1 DEF Woken, Handler
  <2>3. Link(c)'
    BY <1>1, <2>2 DEF Followed, Link
  <2>4. Watch(c)'
    BY <2>2 DEF Followed, Watch
  <2> QED
    BY <2>3, <2>4
<1> QED
  BY <1>2, <1>3 DEF Followed

-----------------------------------------------------------------------------
(* Handlers *)

\* A step on the connection of c is judged by c's part of the invariant.
LEMMA OneClient ==
    ASSUME Followed, NEW c \in Clients, TypeOK', UNCHANGED <<stored, status, owing>>,
           \A d \in Clients \ {c} : /\ handler'[d] = handler[d] /\ wire'[d] = wire[d]
                                     /\ client'[d] = client[d] /\ received'[d] = received[d],
           Link(c)', Watch(c)'
    PROVE  Followed'
<1>1. ASSUME NEW d \in Clients PROVE Link(d)' /\ Watch(d)'
  <2>1. CASE d = c
    BY <2>1
  <2>2. CASE d # c
    BY <2>2, Untouched DEF Followed
  <2> QED
    BY <2>1, <2>2
<1> QED
  BY <1>1 DEF Followed

\* Subscribing comes before reading: the handler is registered when it lists.
LEMMA SubscribeStep == ASSUME NEW c \in Clients PROVE Followed /\ Subscribe(c) => Followed'
<1> SUFFICES ASSUME Followed, Subscribe(c) PROVE Followed'
  OBVIOUS
<1> DEFINE h == handler[c]
           n == [h EXCEPT !.pc = "list", !.registered = TRUE, !.woken = FALSE]
<1>1. /\ handler' = [handler EXCEPT ![c] = n] /\ h.pc = "subscribe"
      /\ UNCHANGED <<stored, status, owing, wire, client, checking, received, cuts, refusals>>
  BY DEF Subscribe, run, browser
<1>2. h \in Handler /\ n \in Handler
  BY HandlerFields DEF Followed, TypeOK
<1>3. /\ n.pc = "list" /\ n.registered /\ n.home = h.home
      /\ n.after = h.after /\ n.upto = h.upto
  BY <1>2 DEF Handler
<1> HIDE DEF n
<1>4. TypeOK' /\ handler'[c] = n
  BY <1>1, <1>2 DEF Followed, TypeOK
<1>5. Link(c)'
  <2>1. client[c] = "open" /\ Link(c)
    BY <1>1 DEF Followed, Link
  <2> QED
    BY <1>1, <1>3, <1>4, <2>1 DEF Link
<1>6. Watch(c)'
  BY <1>3, <1>4 DEF Watch
<1> QED
  BY <1>1, <1>4, <1>5, <1>6, OneClient DEF Followed, TypeOK

\* What a handler lists is everything stored, unless the batch is full.
LEMMA ListEventsStep == ASSUME NEW c \in Clients PROVE Followed /\ ListEvents(c) => Followed'
<1> SUFFICES ASSUME Followed, ListEvents(c) PROVE Followed'
  OBVIOUS
<1> DEFINE h == handler[c]
           full == h.after + Batch < stored
           n == [h EXCEPT !.pc = "write", !.upto = UpTo(h.after), !.full = full]
<1>1. /\ handler' = [handler EXCEPT ![c] = n] /\ h.pc = "list"
      /\ UNCHANGED <<stored, status, owing, wire, client, checking, received, cuts, refusals>>
  BY DEF ListEvents, run, browser
<1>2. /\ h \in Handler /\ h.after \in 0 .. MaxEvents /\ stored \in 1 .. MaxEvents
      /\ Batch \in Nat \ {0} /\ MaxEvents \in Nat
  BY StreamAssumption DEF StreamAssumption, Followed, TypeOK, Handler
<1>3. h.after <= stored
  <2>1. client[c] = "open"
    BY <1>1 DEF Followed, Link
  <2> QED
    BY <2>1 DEF Followed, Link
<1>4. /\ UpTo(h.after) \in 0 .. MaxEvents /\ h.after <= UpTo(h.after)
      /\ UpTo(h.after) <= stored /\ (~full => UpTo(h.after) = stored)
  BY <1>2, <1>3 DEF UpTo
<1> DEFINE u == UpTo(h.after)
<1>a. /\ u = UpTo(h.after) /\ u \in 0 .. MaxEvents /\ full \in BOOLEAN
      /\ (~full => u = stored)
  BY <1>4
<1> HIDE DEF full, u
<1>5. n \in Handler
  BY <1>2, <1>a, HandlerFields
<1>6. /\ n.pc = "write" /\ n.upto = u /\ n.full = full
      /\ n.home = h.home /\ n.after = h.after
      /\ n.registered = h.registered /\ n.woken = h.woken
  BY <1>2, <1>a DEF Handler
<1> HIDE DEF n
<1>7. TypeOK' /\ handler'[c] = n
  BY <1>1, <1>5 DEF Followed, TypeOK
<1>8. Link(c)'
  BY <1>1, <1>4, <1>a, <1>6, <1>7 DEF Followed, Link
<1>9. Watch(c)'
  <2>1. Quiet \in Nat /\ Quiet' = Quiet
    BY <1>1 DEF Quiet
  <2>2. ~n.full => ~(n.upto + Quiet < stored)
    BY <1>2, <1>a, <1>6, <2>1
  <2> QED
    BY <1>1, <1>6, <1>7, <2>1, <2>2 DEF Followed, Watch
<1> QED
  BY <1>1, <1>7, <1>8, <1>9, OneClient DEF Followed, TypeOK

\* What is received, plus what is on the wire, plus one.
LEMMA OneMoreEvent ==
    ASSUME NEW x \in Nat, NEW y \in Nat, NEW e, e = (x + y) + 1
    PROVE  e = x + (y + 1)
OBVIOUS

\* The next event of the batch goes onto the wire.
LEMMA WriteStep == ASSUME NEW c \in Clients PROVE Followed /\ Write(c) => Followed'
<1> SUFFICES ASSUME Followed, Write(c) PROVE Followed'
  OBVIOUS
<1> DEFINE h == handler[c]
           e == h.after + 1
           n == [h EXCEPT !.after = e]
<1>1. /\ handler' = [handler EXCEPT ![c] = n] /\ wire' = [wire EXCEPT ![c] = Append(@, e)]
      /\ h.pc = "write" /\ e <= h.upto
      /\ UNCHANGED <<stored, status, owing, client, checking, received, cuts, refusals>>
  BY DEF Write, run, browser
<1>2. /\ h \in Handler /\ h.after \in Nat /\ h.upto \in 0 .. MaxEvents
      /\ stored \in Nat /\ MaxEvents \in Nat
  BY StreamAssumption DEF StreamAssumption, Followed, TypeOK, Handler
<1>3. e \in 1 .. MaxEvents /\ e \in 0 .. MaxEvents /\ e = h.after + 1
  BY <1>1, <1>2
<1> HIDE DEF e
<1>4. n \in Handler
  BY <1>2, <1>3, HandlerFields
<1>5. /\ n.pc = "write" /\ n.after = e /\ n.upto = h.upto /\ n.full = h.full
      /\ n.home = h.home /\ n.registered = h.registered /\ n.woken = h.woken
  BY <1>1, <1>2 DEF Handler
<1> HIDE DEF n
<1>6. /\ handler'[c] = n /\ wire'[c] = Append(wire[c], e)
      /\ wire[c] \in Seq(1 .. MaxEvents) /\ received[c] \in Seq(1 .. MaxEvents)
  BY <1>1 DEF Followed, TypeOK
<1>7. TypeOK'
  <2>1. Append(wire[c], e) \in Seq(1 .. MaxEvents)
    BY <1>3, <1>6
  <2> QED
    BY <1>1, <1>4, <2>1 DEF Followed, TypeOK
<1>8. Link(c)'
  <2>1. client[c] = "open" /\ h.after = Len(received[c]) + Len(wire[c])
    BY <1>1 DEF Followed, Link
  <2>2. h.upto <= stored /\ \A i \in 1 .. Len(wire[c]) : wire[c][i] = Len(received[c]) + i
    BY DEF Followed, Link
  <2>3. /\ Len(wire'[c]) = Len(wire[c]) + 1
        /\ \A i \in 1 .. Len(wire'[c]) : wire'[c][i] = Len(received[c]) + i
    <3>1. /\ Len(wire[c]) \in Nat /\ Len(received[c]) \in Nat
          /\ e = Len(received[c]) + (Len(wire[c]) + 1)
      <4>1. Len(wire[c]) \in Nat /\ Len(received[c]) \in Nat
        BY <1>6
      <4>2. e = (Len(received[c]) + Len(wire[c])) + 1
        BY <1>3, <2>1, Zenon
      <4> QED
        BY <4>1, <4>2, OneMoreEvent
    <3>2. /\ Len(wire'[c]) = Len(wire[c]) + 1
          /\ \A i \in 1 .. Len(wire[c]) : wire'[c][i] = wire[c][i]
          /\ wire'[c][Len(wire[c]) + 1] = e
      BY <1>3, <1>6
    <3>3. ASSUME NEW i \in 1 .. Len(wire'[c]) PROVE wire'[c][i] = Len(received[c]) + i
      <4>1. CASE i = Len(wire[c]) + 1
        BY <3>1, <3>2, <4>1
      <4>2. CASE i # Len(wire[c]) + 1
        <5>1. i \in 1 .. Len(wire[c])
          BY <3>1, <3>2, <4>2
        <5> QED
          BY <2>2, <3>2, <5>1
      <4> QED
        BY <4>1, <4>2
    <3> QED
      BY <3>2, <3>3
  <2>4. Len(received[c]) + Len(wire'[c]) = e /\ e <= stored
    <3>1. Len(wire[c]) \in Nat /\ Len(received[c]) \in Nat
      BY <1>6
    <3>2. e = (Len(received[c]) + Len(wire[c])) + 1
      BY <1>3, <2>1, Zenon
    <3>3. Len(received[c]) + Len(wire'[c]) = e
      <4>1. e = Len(received[c]) + (Len(wire[c]) + 1)
        BY <3>1, <3>2, OneMoreEvent
      <4>2. Len(wire'[c]) = Len(wire[c]) + 1
        BY <2>3
      <4> QED
        BY <4>1, <4>2, Zenon
    <3>4. e \in Int /\ h.upto \in Int /\ stored \in Int
      BY <1>2, <1>3
    <3>5. e <= stored
      BY <1>1, <2>2, <3>4
    <3> QED
      BY <3>3, <3>5
  <2>5. \A i \in 1 .. Len(received[c]) : received[c][i] = i
    BY DEF Followed, Link
  <2> QED
    BY <1>1, <1>5, <1>6, <2>1, <2>2, <2>3, <2>4, <2>5 DEF Link
<1>9. Watch(c)'
  BY <1>1, <1>5, <1>6 DEF Followed, Watch, Quiet
<1> QED
  BY <1>1, <1>7, <1>8, <1>9, OneClient DEF Followed, TypeOK

\* The handler waits only behind a whole batch, still registered or already woken.
LEMMA GetRunStep == ASSUME NEW c \in Clients PROVE Followed /\ GetRun(c) => Followed'
<1> SUFFICES ASSUME Followed, GetRun(c) PROVE Followed'
  OBVIOUS
<1> DEFINE h == handler[c]
           p == IF Ended THEN "closed" ELSE "wait"
           b == h.registered /\ ~Ended
           n == [h EXCEPT !.pc = p, !.registered = b]
<1>1. /\ handler' = [handler EXCEPT ![c] = n] /\ h.pc = "write" /\ h.after >= h.upto
      /\ UNCHANGED <<stored, status, owing, wire, client, checking, received, cuts, refusals>>
  BY DEF GetRun, run, browser
<1>2. h \in Handler /\ h.after \in Int /\ h.upto \in Int
  BY StreamAssumption DEF StreamAssumption, Followed, TypeOK, Handler
<1>3. p \in {"closed", "wait"} /\ b \in BOOLEAN /\ (p = "wait" => b = h.registered)
  BY <1>2 DEF Handler
<1> HIDE DEF p, b
<1>4. n \in Handler
  BY <1>2, <1>3, HandlerFields
<1>5. /\ n.pc = p /\ n.registered = b /\ n.home = h.home /\ n.after = h.after
      /\ n.upto = h.upto /\ n.full = h.full /\ n.woken = h.woken
  BY <1>2 DEF Handler
<1> HIDE DEF n
<1>6. TypeOK' /\ handler'[c] = n
  BY <1>1, <1>4 DEF Followed, TypeOK
<1>7. Link(c)'
  <2>1. Link(c) /\ client[c] = "open" /\ h.after <= h.upto
    BY <1>1 DEF Followed, Link
  <2>2. h.after = h.upto
    BY <1>1, <1>2, <2>1
  <2> QED
    BY <1>1, <1>2, <1>3, <1>5, <1>6, <2>1, <2>2 DEF Link
<1>8. Watch(c)'
  <2>1. CASE p = "closed"
    BY <1>5, <1>6, <2>1 DEF Watch
  <2>2. CASE p = "wait"
    BY <1>1, <1>3, <1>5, <1>6, <2>2 DEF Followed, Watch, Quiet
  <2> QED
    BY <1>3, <2>1, <2>2
<1> QED
  BY <1>1, <1>6, <1>7, <1>8, OneClient DEF Followed, TypeOK

\* A handler that is woken or hears the ticker starts over.
LEMMA AgainStep == ASSUME NEW c \in Clients PROVE Followed /\ (Wake(c) \/ Heartbeat(c)) => Followed'
<1> SUFFICES ASSUME Followed, Wake(c) \/ Heartbeat(c) PROVE Followed'
  OBVIOUS
<1> DEFINE h == handler[c]
<1>1. h \in Handler
  BY DEF Followed, TypeOK
<1>2. PICK n \in Handler :
         /\ handler' = [handler EXCEPT ![c] = n]
         /\ n.pc = "subscribe" /\ n.after = h.after /\ n.upto = h.upto
  <2>1. CASE Wake(c)
    <3>1. [h EXCEPT !.pc = "subscribe"] \in Handler
      BY <1>1, HandlerFields
    <3> QED
      BY <1>1, <2>1, <3>1 DEF Wake, Handler
  <2>2. CASE Heartbeat(c)
    <3>1. [h EXCEPT !.pc = "subscribe", !.registered = FALSE] \in Handler
      BY <1>1, HandlerFields
    <3> QED
      BY <1>1, <2>2, <3>1 DEF Heartbeat, Handler
  <2> QED
    BY <2>1, <2>2
<1>3. /\ h.pc = "wait"
      /\ UNCHANGED <<stored, status, owing, wire, client, checking, received, cuts, refusals>>
  BY DEF Wake, Heartbeat, run, browser
<1>4. TypeOK' /\ handler'[c] = n
  BY <1>2, <1>3 DEF Followed, TypeOK
<1>5. Link(c)' /\ Watch(c)'
  BY <1>2, <1>3, <1>4, ZenonT(30) DEF Followed, Link, Watch
<1> QED
  BY <1>2, <1>3, <1>4, <1>5, OneClient DEF Followed, TypeOK

-----------------------------------------------------------------------------
(* Browsers *)

\* Lengths of what is received and of what is on the wire.
LEMMA Lengths ==
    ASSUME NEW x \in Nat, NEW y \in Nat, NEW s \in Nat, x + y <= s
    PROVE  /\ x <= s
           /\ y >= 1 => x + 1 <= s
           /\ (x + 1) + (y - 1) = x + y
           /\ \A i \in 1 .. y - 1 : i + 1 \in 1 .. y /\ x + (i + 1) = (x + 1) + i
OBVIOUS

\* Connecting starts a handler behind what was received.
LEMMA ConnectStep == ASSUME NEW c \in Clients PROVE Followed /\ Connect(c) => Followed'
<1> SUFFICES ASSUME Followed, Connect(c) PROVE Followed'
  OBVIOUS
<1>1. /\ client[c] = "connecting" /\ client' = [client EXCEPT ![c] = "open"]
      /\ UNCHANGED <<stored, status, owing, wire, checking, received, cuts, refusals>>
  BY DEF Connect, run
<1>2. /\ Link(c) /\ wire[c] = <<>> /\ received[c] \in Seq(1 .. MaxEvents)
      /\ stored \in 1 .. MaxEvents /\ MaxEvents \in Nat
  BY <1>1, StreamAssumption DEF StreamAssumption, Followed, Link, TypeOK
<1>3. /\ Len(wire[c]) = 0 /\ Len(received[c]) \in Nat
      /\ Len(received[c]) + Len(wire[c]) = Len(received[c])
  BY <1>2
<1>4. LastEventID(c) = Len(received[c]) /\ LastEventID(c) \in 0 .. MaxEvents
  <2>1. LastEventID(c) = Len(received[c])
    BY <1>2, LastEventIDIsLength DEF Link
  <2>2. Len(received[c]) <= stored
    BY <1>2, <1>3 DEF Link
  <2> QED
    BY <1>2, <1>3, <2>1, <2>2
<1>5. PICK home \in BOOLEAN : handler' = [handler EXCEPT ![c] =
          [Off EXCEPT !.pc = "subscribe", !.home = home, !.after = LastEventID(c)]]
  BY DEF Connect
<1> DEFINE n == [Off EXCEPT !.pc = "subscribe", !.home = home, !.after = LastEventID(c)]
<1>6. n \in Handler
  BY <1>4, FreshHandler
<1>7. n.pc = "subscribe" /\ n.after = LastEventID(c) /\ n.upto = 0
  BY DEF Off
<1>8. handler' = [handler EXCEPT ![c] = n]
  BY <1>5
<1> HIDE DEF n
<1>9. TypeOK' /\ handler'[c] = n /\ client'[c] = "open"
  BY <1>1, <1>6, <1>8 DEF Followed, TypeOK
<1>10. Link(c)'
  BY <1>1, <1>2, <1>3, <1>4, <1>7, <1>9 DEF Link
<1>11. Watch(c)'
  BY <1>7, <1>9 DEF Watch
<1> QED
  BY <1>1, <1>8, <1>9, <1>10, <1>11, OneClient DEF Followed, TypeOK

\* A refused request leaves nothing behind on the server.
LEMMA RefusedStep == ASSUME NEW c \in Clients PROVE Followed /\ Refused(c) => Followed'
<1> SUFFICES ASSUME Followed, Refused(c) PROVE Followed'
  OBVIOUS
<1>1. /\ client[c] = "connecting" /\ client' = [client EXCEPT ![c] = "closed"]
      /\ checking' = checking \union {c} /\ refusals < MaxRefusals /\ refusals' = refusals + 1
      /\ UNCHANGED <<stored, status, owing, handler, wire, received, cuts>>
  BY DEF Refused, run
<1>2. TypeOK' /\ client'[c] = "closed"
  BY <1>1, StreamAssumption DEF StreamAssumption, Followed, TypeOK
<1>3. Link(c)' /\ Watch(c)'
  BY <1>1, <1>2 DEF Followed, Link, Watch, Quiet
<1> QED
  BY <1>1, <1>2, <1>3, OneClient DEF Followed, TypeOK

\* Ending a connection keeps the invariant, whatever else the step counts.
LEMMA DisconnectStep ==
    ASSUME Followed, NEW c \in Clients, NEW s \in {"connecting", "settled"}, Disconnected(c, s),
           UNCHANGED <<stored, status, owing, refusals>>,
           received' \in [Clients -> Seq(1 .. MaxEvents)],
           \A d \in Clients \ {c} : received'[d] = received[d],
           \A i \in 1 .. Len(received'[c]) : received'[c][i] = i,
           Len(received'[c]) <= stored,
           checking' \subseteq Clients, cuts' \in 0 .. MaxCuts
    PROVE  Followed'
<1>1. /\ client' = [client EXCEPT ![c] = s] /\ handler' = [handler EXCEPT ![c] = Off]
      /\ wire' = [wire EXCEPT ![c] = <<>>]
  BY DEF Disconnected
<1>2. TypeOK'
  <2>1. <<>> \in Seq(1 .. MaxEvents)
    OBVIOUS
  <2> QED
    BY <1>1, <2>1, FreshHandler DEF Followed, TypeOK
<1>3. handler'[c] = Off /\ wire'[c] = <<>> /\ client'[c] = s
  BY <1>1 DEF Followed, TypeOK
<1>4. Off.pc = "off" /\ ~Off.home /\ Off.upto = 0 /\ stored \in Nat
  BY DEF Off, Followed, TypeOK
<1>5. Len(received'[c]) + Len(wire'[c]) = Len(received'[c])
  <2>1. Len(received'[c]) \in Nat /\ Len(wire'[c]) = 0
    BY <1>3
  <2> QED
    BY <2>1
<1>6. Link(c)'
  BY <1>3, <1>4, <1>5 DEF Link
<1>7. Watch(c)'
  BY <1>3, <1>4 DEF Watch
<1> QED
  BY <1>1, <1>2, <1>6, <1>7, OneClient DEF Followed, TypeOK

\* The event received is the next one.
LEMMA ReceiveStep == ASSUME NEW c \in Clients PROVE Followed /\ Receive(c) => Followed'
<1> SUFFICES ASSUME Followed, Receive(c) PROVE Followed'
  OBVIOUS
<1> DEFINE e == Head(wire[c])
           x == Len(received[c])
           y == Len(wire[c])
<1>1. /\ client[c] = "open" /\ wire[c] # <<>>
      /\ received' = [received EXCEPT ![c] = Append(@, e)]
      /\ UNCHANGED <<stored, status, owing, checking, cuts, refusals>>
  BY DEF Receive, run
<1>2. /\ wire[c] \in Seq(1 .. MaxEvents) /\ received[c] \in Seq(1 .. MaxEvents)
      /\ x \in Nat /\ y \in Nat /\ y >= 1 /\ stored \in Nat
  BY <1>1 DEF Followed, TypeOK
<1>3. /\ \A i \in 1 .. x : received[c][i] = i
      /\ \A i \in 1 .. y : wire[c][i] = x + i
      /\ x + y <= stored
      /\ handler[c].after = x + y
  BY <1>1 DEF Followed, Link
<1>4. e = x + 1 /\ e \in 1 .. MaxEvents
  <2>1. e = wire[c][1] /\ 1 \in 1 .. y
    BY <1>1, <1>2
  <2>2. e = x + 1
    BY <1>3, <2>1, Zenon
  <2>3. e \in 1 .. MaxEvents
    <3>1. \A i \in 1 .. y : wire[c][i] \in 1 .. MaxEvents
      BY <1>2, ElementOfSeq
    <3> QED
      BY <2>1, <3>1, Zenon
  <2> QED
    BY <2>2, <2>3
<1>5. /\ received'[c] = Append(received[c], e)
      /\ received' \in [Clients -> Seq(1 .. MaxEvents)]
      /\ \A d \in Clients \ {c} : received'[d] = received[d]
  BY <1>1, <1>4 DEF Followed, TypeOK
<1>6. /\ Len(received'[c]) = x + 1
      /\ \A i \in 1 .. Len(received'[c]) : received'[c][i] = i
      /\ Len(received'[c]) <= stored
  <2>1. /\ Len(received'[c]) = x + 1 /\ received'[c][x + 1] = e
        /\ \A i \in 1 .. x : received'[c][i] = received[c][i]
    BY <1>2, <1>4, <1>5
  <2>2. ASSUME NEW i \in 1 .. x + 1 PROVE received'[c][i] = i
    <3>1. CASE i = x + 1
      BY <1>4, <2>1, <3>1
    <3>2. CASE i # x + 1
      BY <1>2, <1>3, <2>1, <3>2
    <3> QED
      BY <3>1, <3>2
  <2>3. x + 1 <= stored
    BY <1>2, <1>3, Lengths
  <2> QED
    BY <2>1, <2>2, <2>3
<1> HIDE DEF e
<1>7. CASE Disconnected(c, "settled")
  BY <1>1, <1>5, <1>6, <1>7, DisconnectStep DEF Followed, TypeOK
<1>8. CASE wire' = [wire EXCEPT ![c] = Tail(@)] /\ UNCHANGED <<client, handler>>
  <2>1. wire'[c] = Tail(wire[c]) /\ Tail(wire[c]) \in Seq(1 .. MaxEvents)
    BY <1>1, <1>2, <1>8 DEF Followed, TypeOK
  <2>2. TypeOK'
    BY <1>1, <1>5, <1>8, <2>1 DEF Followed, TypeOK
  <2>3. /\ Len(wire'[c]) = y - 1
        /\ \A i \in 1 .. y - 1 : wire'[c][i] = wire[c][i + 1]
    BY <1>1, <1>2, <2>1
  <2>4. \A i \in 1 .. Len(wire'[c]) : wire'[c][i] = Len(received'[c]) + i
    <3>1. ASSUME NEW i \in 1 .. y - 1 PROVE wire'[c][i] = (x + 1) + i
      <4>1. i + 1 \in 1 .. y /\ x + (i + 1) = (x + 1) + i
        <5>1. /\ x \in Nat /\ y \in Nat /\ stored \in Nat /\ x + y <= stored
              /\ i \in 1 .. y - 1
          BY <1>2, <1>3
        <5> HIDE DEF x, y
        <5> QED
          BY <5>1, Lengths
      <4> QED
        BY <1>3, <2>3, <4>1
    <3> QED
      BY <1>6, <2>3, <3>1
  <2>5. Len(received'[c]) + Len(wire'[c]) = x + y
    <3>1. (x + 1) + (y - 1) = x + y
      BY <1>2, <1>3, Lengths
    <3> QED
      BY <1>6, <2>3, <3>1
  <2> HIDE DEF x, y
  <2>6. Link(c)'
    BY <1>1, <1>3, <1>6, <1>8, <2>4, <2>5 DEF Followed, Link
  <2>7. Watch(c)'
    BY <1>1, <1>8 DEF Followed, Watch, Quiet
  <2> QED
    BY <1>1, <1>5, <1>8, <2>2, <2>6, <2>7, OneClient DEF Followed, TypeOK
<1> QED
  BY <1>7, <1>8 DEF Receive, e

\* A broken, finished or abandoned connection.
LEMMA BreakStep ==
    ASSUME NEW c \in Clients
    PROVE  Followed /\ (Break(c) \/ CheckRun(c) \/ CheckFails(c)) => Followed'
<1> SUFFICES ASSUME Followed, Break(c) \/ CheckRun(c) \/ CheckFails(c) PROVE Followed'
  OBVIOUS
<1>1. /\ UNCHANGED <<stored, status, owing, refusals, received>>
      /\ checking' \subseteq Clients /\ cuts' \in 0 .. MaxCuts
  BY StreamAssumption DEF StreamAssumption, Break, CheckRun, CheckFails, run, Followed, TypeOK
<1>2. /\ received' \in [Clients -> Seq(1 .. MaxEvents)]
      /\ \A i \in 1 .. Len(received'[c]) : received'[c][i] = i
  BY <1>1 DEF Followed, TypeOK, Link
<1>3. Len(received'[c]) <= stored
  <2>1. /\ Len(received[c]) \in Nat /\ Len(wire[c]) \in Nat /\ stored \in Nat
        /\ Len(received[c]) + Len(wire[c]) <= stored
    BY DEF Followed, TypeOK, Link
  <2> QED
    BY <1>1, <2>1, Lengths
<1>4. CASE \E s \in {"connecting", "settled"} : Disconnected(c, s)
  BY <1>1, <1>2, <1>3, <1>4, DisconnectStep
<1>5. CASE UNCHANGED <<client, handler, wire>>
  <2>1. TypeOK'
    BY <1>1, <1>5 DEF Followed, TypeOK
  <2> QED
    BY <1>1, <1>5, <2>1, Untouched DEF Followed
<1> QED
  BY <1>4, <1>5 DEF Break, CheckRun, CheckFails

-----------------------------------------------------------------------------
(* The theorems *)

LEMMA InvInit == FollowInit => Followed
<1> SUFFICES ASSUME FollowInit PROVE Followed
  OBVIOUS
<1>1. TypeOK
  <2>1. 1 \in 1 .. MaxEvents /\ 0 \in 0 .. MaxCuts /\ 0 \in 0 .. MaxRefusals
    BY StreamAssumption DEF StreamAssumption
  <2>2. <<>> \in Seq(1 .. MaxEvents)
    OBVIOUS
  <2> QED
    BY <2>1, <2>2, FreshHandler DEF FollowInit, TypeOK
<1>2. ASSUME NEW c \in Clients PROVE Link(c) /\ Watch(c)
  BY DEF FollowInit, Link, Watch, Off
<1> QED
  BY <1>1, <1>2 DEF Followed

LEMMA InvNext == Followed /\ [FollowNext]_followVars => Followed'
<1> SUFFICES ASSUME Followed, [FollowNext]_followVars PROVE Followed'
  OBVIOUS
<1>1. CASE Store \/ CancelRun
  BY <1>1, StoreStep
<1>2. CASE InterruptRunning
  BY <1>2, InterruptStep
<1>3. CASE \E w \in Writers : Notify(w)
  BY <1>3, NotifyStep
<1>4. ASSUME NEW c \in Clients,
             Serve(c) \/ Heartbeat(c) \/ Browse(c) \/ Refused(c) \/ Break(c) \/ CheckFails(c)
      PROVE  Followed'
  BY <1>4, SubscribeStep, ListEventsStep, WriteStep, GetRunStep, AgainStep, ConnectStep,
     ReceiveStep, RefusedStep, BreakStep DEF Serve, Browse
<1>5. CASE UNCHANGED followVars
  <2>1. UNCHANGED <<stored, status, owing, handler, wire, client, checking, received, cuts, refusals>>
    BY <1>5 DEF followVars
  <2>2. TypeOK'
    BY <2>1 DEF Followed, TypeOK
  <2> QED
    BY <2>1, <2>2, Untouched DEF Followed
<1> QED
  BY <1>1, <1>2, <1>3, <1>4, <1>5 DEF FollowNext

THEOREM FollowInvariance == FollowSpec => []Followed
BY InvInit, InvNext, PTL DEF FollowSpec

\* Every variable stays in its range (the records of streamEvents and EventSource).
THEOREM TypeCorrect == FollowSpec => []TypeOK
<1>1. Followed => TypeOK
  BY DEF Followed
<1> QED
  BY <1>1, FollowInvariance, PTL

\* Last-Event-ID and the sequence query give each browser the stored events in order,
\* none skipped and none repeated, over any number of connections.
THEOREM InOrder == FollowSpec => []ReceivedInOrder
<1>1. Followed => ReceivedInOrder
  <2> SUFFICES ASSUME Followed, NEW c \in Clients
               PROVE  /\ \A i \in DOMAIN received[c] : received[c][i] = i
                      /\ Len(received[c]) <= stored
    BY DEF ReceivedInOrder
  <2>1. /\ received[c] \in Seq(1 .. MaxEvents) /\ Len(wire[c]) \in Nat /\ stored \in Nat
        /\ \A i \in 1 .. Len(received[c]) : received[c][i] = i
        /\ Len(received[c]) + Len(wire[c]) <= stored
    BY DEF Followed, TypeOK, Link
  <2>2. Len(received[c]) \in Nat /\ DOMAIN received[c] = 1 .. Len(received[c])
    BY <2>1
  <2>3. Len(received[c]) <= stored
    BY <2>1, <2>2, Lengths
  <2> QED
    BY <2>1, <2>2, <2>3
<1> QED
  BY <1>1, FollowInvariance, PTL

\* Notifier and streamEvents lose no wake-up: the subscription precedes the read.
THEOREM Wakeups == FollowSpec => []NoLostWakeup
<1>1. Followed => NoLostWakeup
  BY DEF Followed, NoLostWakeup, Link, Watch, Quiet
<1> QED
  BY <1>1, FollowInvariance, PTL
=============================================================================
