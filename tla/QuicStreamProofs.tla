-------------------------- MODULE QuicStreamProofs --------------------------
(***************************************************************************)
(* Proofs about QuicStream, for responses of any number of writes of any   *)
(* size.                                                                   *)
(*                                                                         *)
(* A step of the model is a whole call, with all the callbacks made inside *)
(* it, so the invariant has two parts.  Sound holds of the record at every *)
(* point of a call, AtRest only between calls.  Each operator has a lemma  *)
(* that says what it needs of the record and what it leaves (Leaves), and  *)
(* each step is a composition of these.                                    *)
(***************************************************************************)
EXTENDS QuicStream, TLAPS

Accounted(x) ==
  x.taken = x.told + x.lost + (IF x.wq = << >> THEN 0 ELSE Head(x.wq).offset)

(* The place of the relay says which callbacks can be set: headers_cb_     *)
(* while it waits for the request, read_cb_ while it reads a body or       *)
(* drains, a write while it responds, and the codec's shutdown callback    *)
(* while it finishes.                                                      *)
Sound(x) ==
  /\ x \in Stream /\ Len(x.wq) <= 1
  /\ Accounted(x)
  /\ x.fault => ~x.handle
  /\ x.hcb => x.use = "headers"
  /\ x.rcb => x.use \in {"body", "drain"}
  /\ x.hcb \/ x.rcb => x.want_r
  /\ x.wq # << >> => x.use = "respond"
  /\ x.writing => x.want_w
  /\ x.answers <= 1
  /\ x.use \notin {"ended", "drain"} => x.answers = 0
  /\ x.scb = "codec" => x.use = "finishing"
  /\ x.use = "finishing" /\ ~x.torn /\ ~x.fault => x.scb = "codec"

AtRest(x) ==
  /\ x.writing <=> x.wq # << >>
  /\ ~x.handle => x.wq = << >>
  /\ ~x.handle /\ ~x.fault => ~x.rcb /\ x.scb = "none"

IInv == Sound(s) /\ AtRest(s)

(* What a callback leaves of the record x that it was called with. *)
Leaves(x, y) ==
  /\ Sound(y)
  /\ y.handle = x.handle /\ y.wq = x.wq /\ y.writing = x.writing
  /\ x.fault => y.fault
  /\ ~x.handle /\ ~y.fault => (y.rcb => x.rcb) /\ y.scb \in {"none", x.scb}

-----------------------------------------------------------------------------
(* Shutting the write side down *)

LEMMA ShutdownOK ==
  ASSUME NEW x, Sound(x), x.use # "finishing" \/ x.torn,
         NEW y \in async_shutdown(x)
  PROVE  Leaves(x, y) /\ (~x.handle => y.fault) /\ y.use = x.use /\ y.torn = x.torn
<1>1. CASE ~x.handle
  <2>1. y = [x EXCEPT !.fault = TRUE]
    BY <1>1 DEF async_shutdown
  <2> QED BY Zenon, <1>1, <2>1 DEF Sound, Leaves, Accounted, Stream
<1>2. CASE x.handle
  <2>1. \/ y = [x EXCEPT !.fin = TRUE, !.scb = "none"]
        \/ y = [x EXCEPT !.scb = "noop"]
    BY <1>2 DEF async_shutdown
  <2>2. CASE y = [x EXCEPT !.fin = TRUE, !.scb = "none"]
    BY Zenon, <1>2, <2>2 DEF Sound, Leaves, Accounted, Stream
  <2>3. CASE y = [x EXCEPT !.scb = "noop"]
    BY Zenon, <1>2, <2>3 DEF Sound, Leaves, Accounted, Stream
  <2> QED BY <2>1, <2>2, <2>3
<1> QED BY <1>1, <1>2 DEF Sound, Stream

LEMMA TeardownOK ==
  ASSUME NEW x, Sound(x), NEW y \in teardown(x)
  PROVE  Leaves(x, y) /\ (~x.handle /\ ~x.torn => y.fault)
<1>1. CASE x.torn
  BY <1>1 DEF teardown, Leaves
<1>2. CASE ~x.torn
  <2> DEFINE z == [x EXCEPT !.torn = TRUE]
  <2>1. /\ z.torn /\ z.handle = x.handle /\ z.wq = x.wq /\ z.writing = x.writing
        /\ z.rcb = x.rcb /\ z.scb = x.scb /\ z.fault = x.fault /\ Sound(z)
    BY Zenon DEF Sound, Stream, Accounted
  <2>2. y \in async_shutdown(z)
    BY <1>2 DEF teardown
  <2> HIDE DEF z
  <2>3. Leaves(z, y) /\ (~z.handle => y.fault)
    BY <2>1, <2>2, ShutdownOK
  <2> QED BY <2>1, <2>3 DEF Leaves
<1> QED BY <1>1, <1>2

LEMMA DrainOK ==
  ASSUME NEW x, Sound(x), x.use \in {"ended", "drain"}, NEW y \in drain_client(x)
  PROVE  Leaves(x, y)
<1>1. CASE x.torn
  BY <1>1 DEF drain_client, Leaves
<1> DEFINE z == [x EXCEPT !.use = "drain"]
<1>2. /\ z.handle = x.handle /\ z.wq = x.wq /\ z.writing = x.writing
      /\ z.rcb = x.rcb /\ z.scb = x.scb /\ z.fault = x.fault /\ Sound(z)
  BY Zenon DEF Sound, Stream, Accounted, Uses
<1>3. CASE ~x.torn /\ x.handle
  <2>1. y = [x EXCEPT !.use = "drain", !.rcb = TRUE, !.want_r = TRUE]
    BY <1>3 DEF drain_client, async_read_some, Sound, Stream
  <2> QED BY Zenon, <1>3, <2>1 DEF Sound, Leaves, Accounted, Stream, Uses
<1>4. CASE ~x.torn /\ ~x.handle
  <2>1. y \in teardown(z)
    BY <1>4 DEF drain_client
  <2> HIDE DEF z
  <2>2. Leaves(z, y)
    BY <1>2, <2>1, TeardownOK
  <2> QED BY <1>2, <2>2 DEF Leaves
<1> QED BY <1>1, <1>3, <1>4 DEF Sound, Stream

LEMMA CloseClientOK ==
  ASSUME NEW x, Sound(x), x.use = "ended", NEW y \in gracefully_close_client(x)
  PROVE  Leaves(x, y)
<1>1. CASE x.torn
  BY <1>1 DEF gracefully_close_client, Leaves
<1>2. CASE ~x.torn
  <2> DEFINE z == [x EXCEPT !.draining = TRUE]
  <2>1. /\ z.handle = x.handle /\ z.wq = x.wq /\ z.writing = x.writing
        /\ z.rcb = x.rcb /\ z.scb = x.scb /\ z.fault = x.fault
        /\ z.use = x.use /\ Sound(z)
    BY Zenon DEF Sound, Stream, Accounted
  <2>2. PICK u \in async_shutdown(z) : y \in drain_client(u)
    BY Zenon, <1>2 DEF gracefully_close_client
  <2> HIDE DEF z
  <2>3. Leaves(z, u) /\ u.use = "ended" /\ (~z.handle => u.fault)
    BY <2>1, <2>2, ShutdownOK
  <2>4. Leaves(u, y)
    BY <2>2, <2>3, DrainOK DEF Leaves
  <2> QED BY <2>1, <2>3, <2>4 DEF Leaves
<1> QED BY <1>1, <1>2

LEMMA AnswerType ==
  ASSUME NEW x \in Stream, NEW u \in Uses, NEW n \in Nat
  PROVE  [x EXCEPT !.use = u, !.answers = n] \in Stream
  BY Zenon DEF Stream

(* The response is reported written, for the first time. *)
LEMMA AfterResponseOK ==
  ASSUME NEW x, Sound([x EXCEPT !.use = "ended", !.answers = @ + 1]), x \in Stream,
         NEW y \in after_client_response(x)
  PROVE  Leaves(x, y)
<1> DEFINE z == [x EXCEPT !.use = "ended", !.answers = @ + 1]
<1>1. /\ z.handle = x.handle /\ z.wq = x.wq /\ z.writing = x.writing
      /\ z.rcb = x.rcb /\ z.scb = x.scb /\ z.fault = x.fault
      /\ z.use = "ended" /\ Sound(z)
  BY DEF Stream
<1>2. y \in gracefully_close_client(z) \/ y \in drain_client(z)
  BY DEF after_client_response
<1> HIDE DEF z
<1>3. Leaves(z, y)
  BY <1>1, <1>2, CloseClientOK, DrainOK
<1> QED BY <1>1, <1>3 DEF Leaves

LEMMA FinishOK ==
  ASSUME NEW x, Sound(x), x.use \in {"more", "backend", "body", "respond"},
         x.wq = << >>, ~x.rcb, NEW y \in finish(x)
  PROVE  Leaves(x, y) /\ (~x.handle => y.fault)
<1>0. x \in Stream /\ ~x.hcb /\ x.answers = 0 /\ x.scb # "codec"
  BY DEF Sound
<1>1. CASE ~x.handle
  <2>1. y = [x EXCEPT !.use = "finishing", !.fault = TRUE]
    BY <1>0, <1>1 DEF finish, Stream
  <2> QED BY Zenon, <1>0, <1>1, <2>1 DEF Sound, Leaves, Accounted, Stream, Uses
<1>2. CASE x.handle /\ y = [x EXCEPT !.use = "finishing", !.scb = "codec"]
  BY Zenon, <1>0, <1>2 DEF Sound, Leaves, Accounted, Stream, Uses
<1>3. CASE x.handle /\ y # [x EXCEPT !.use = "finishing", !.scb = "codec"]
  <2> DEFINE z == [x EXCEPT !.use = "finishing", !.fin = TRUE, !.scb = "none"]
             e == [z EXCEPT !.use = "ended", !.answers = @ + 1]
  <2>1. y \in after_client_response(z)
    <3> DEFINE f == [x EXCEPT !.use = "finishing"]
    <3>1. /\ [f EXCEPT !.fin = TRUE, !.scb = "none"] = z
          /\ [f EXCEPT !.scb = "codec"] = [x EXCEPT !.use = "finishing", !.scb = "codec"]
      BY <1>0 DEF Stream
    <3>2. y \in after_client_response([f EXCEPT !.fin = TRUE, !.scb = "none"])
            \/ y = [f EXCEPT !.scb = "codec"]
      BY <1>3 DEF finish
    <3> QED BY <3>1, <3>2, <1>3
  <2>2. z.handle = x.handle /\ z.wq = x.wq /\ z.writing = x.writing /\ z.fault = x.fault
    BY <1>0 DEF Stream
  <2>6. z \in Stream
    BY Zenon, <1>0 DEF Stream, Uses
  <2>3. /\ z.use = "finishing" /\ z.scb = "none" /\ z.answers = 0
        /\ z.hcb = x.hcb /\ z.rcb = x.rcb /\ z.want_r = x.want_r /\ z.want_w = x.want_w
        /\ z.taken = x.taken /\ z.told = x.told /\ z.lost = x.lost
    BY <1>0 DEF Stream
  <2> HIDE DEF z
  <2>4. e \in Stream
    <3>1. z.answers + 1 \in Nat /\ "ended" \in Uses
      BY <2>3 DEF Uses
    <3> QED BY Zenon, <2>6, <3>1, AnswerType
  <2>7. /\ e.use = "ended" /\ e.answers = 1 /\ e.scb = "none"
        /\ e.hcb = x.hcb /\ e.rcb = x.rcb /\ e.want_r = x.want_r /\ e.want_w = x.want_w
        /\ e.taken = x.taken /\ e.told = x.told /\ e.lost = x.lost
        /\ e.handle = x.handle /\ e.wq = x.wq /\ e.writing = x.writing
        /\ e.fault = x.fault
    BY <2>6, <2>2, <2>3 DEF Stream
  <2> HIDE DEF e
  <2>8. Sound(e)
    BY <2>4, <2>7 DEF Sound, Accounted
  <2>5. Leaves(z, y)
    BY Zenon, <2>1, <2>6, <2>8, AfterResponseOK DEF e
  <2> QED BY <1>3, <2>2, <2>5 DEF Leaves
<1> QED BY <1>0, <1>1, <1>2, <1>3 DEF Stream

-----------------------------------------------------------------------------
(* Writing *)

Write == [size : 1..MaxSize, offset : 0..MaxSize]

LEMMA ShortQueue ==
  ASSUME NEW S, NEW q \in Seq(S), Len(q) <= 1, q # << >>
  PROVE  Len(q) = 1 /\ Head(q) = q[1] /\ q[1] \in S /\ Tail(q) = << >>
<1>1. \A t \in Seq(S) : Len(t) = 0 => t = << >>
  OBVIOUS
<1>2. Len(q) = 1
  <2>1. Len(q) \in Nat /\ Len(q) # 0
    BY <1>1
  <2> QED BY <2>1
<1>3. Head(q) = q[1] /\ q[1] \in S
  BY <1>2
<1>4. Tail(q) \in Seq(S) /\ Len(Tail(q)) = 0
  BY <1>2
<1> QED BY Zenon, <1>1, <1>2, <1>3, <1>4

LEMMA QueueFacts ==
  ASSUME NEW q \in Seq(Write), Len(q) <= 1, q # << >>
  PROVE  /\ Len(q) = 1 /\ Head(q) = q[1] /\ q[1] \in Write /\ Tail(q) = << >>
         /\ q[1].size \in Nat /\ q[1].offset \in Nat
<1>1. Len(q) = 1 /\ Head(q) = q[1] /\ q[1] \in Write /\ Tail(q) = << >>
  BY ShortQueue
<1>2. \A e \in Write : e.size \in Nat /\ e.offset \in Nat
  BY StreamAssumption DEF Write
<1> QED BY <1>1, <1>2

LEMMA QueueType ==
  ASSUME NEW x \in Stream, NEW n \in Nat, NEW q \in Seq(Write)
  PROVE  /\ [x EXCEPT !.lost = n, !.wq = q] \in Stream
         /\ [x EXCEPT !.taken = n, !.wq = q] \in Stream
         /\ [x EXCEPT !.told = n, !.wq = q] \in Stream
         /\ [x EXCEPT !.wq = q, !.writes = n] \in Stream
  BY Zenon DEF Stream, Write

LEMMA WriteFailsOK ==
  ASSUME NEW x, Sound(x), x.wq # << >>, NEW y \in WriteFails(x)
  PROVE  /\ Sound(y) /\ y.handle = x.handle /\ y.wq = << >> /\ y.writing = x.writing
         /\ ~x.handle => y.fault
<1> DEFINE z == [x EXCEPT !.lost = @ + Head(x.wq).offset, !.wq = Tail(@)]
<1>1. /\ x \in Stream /\ x.use = "respond" /\ ~x.rcb /\ x.wq \in Seq(Write)
      /\ Len(x.wq) <= 1
  BY DEF Sound, Stream, Write
<1>2. Tail(x.wq) = << >> /\ Head(x.wq).offset \in Nat
  BY <1>1, QueueFacts
<1>3. /\ z.wq = << >> /\ z.lost = x.lost + Head(x.wq).offset
      /\ z.use = x.use /\ z.rcb = x.rcb /\ z.hcb = x.hcb /\ z.handle = x.handle
      /\ z.writing = x.writing /\ z.fault = x.fault /\ z.want_r = x.want_r
      /\ z.want_w = x.want_w /\ z.answers = x.answers /\ z.scb = x.scb
      /\ z.torn = x.torn /\ z.taken = x.taken /\ z.told = x.told
  BY <1>1, <1>2 DEF Stream
<1>4. z \in Stream
  <2>1. x.lost + Head(x.wq).offset \in Nat /\ << >> \in Seq(Write)
    BY <1>1, <1>2 DEF Stream
  <2>2. z = [x EXCEPT !.lost = x.lost + Head(x.wq).offset, !.wq = << >>]
    BY Zenon, <1>1, <1>2 DEF Stream
  <2> QED BY Zenon, <1>1, <2>1, <2>2, QueueType
<1>5. y \in finish(z)
  BY DEF WriteFails
<1> HIDE DEF z
<1>6. Sound(z)
  <2>1. /\ x.told \in Nat /\ x.lost \in Nat /\ x.taken \in Nat
        /\ x.taken = x.told + x.lost + Head(x.wq).offset
    BY <1>1 DEF Sound, Accounted, Stream
  <2>2. Accounted(z)
    BY <2>1, <1>2, <1>3 DEF Accounted
  <2> QED BY <2>2, <1>3, <1>4 DEF Sound
<1>7. Leaves(z, y) /\ (~z.handle => y.fault)
  BY <1>1, <1>3, <1>5, <1>6, FinishOK
<1> QED BY <1>3, <1>7 DEF Leaves

LEMMA TakeOK ==
  ASSUME NEW x, Sound(x), x.wq # << >>, x.handle,
         NEW n \in 0..(Head(x.wq).size - Head(x.wq).offset)
  PROVE  LET y == Take(x, n) IN
         /\ Sound(y) /\ y.handle = x.handle
         /\ \/ y.wq = << >> /\ y.writing = x.writing
            \/ y.wq # << >> /\ y.writing
<1>1. /\ x \in Stream /\ x.use = "respond" /\ ~x.rcb /\ ~x.hcb /\ x.wq \in Seq(Write)
      /\ Len(x.wq) <= 1
  BY DEF Sound, Stream, Write
<1>2. /\ Len(x.wq) = 1 /\ Head(x.wq) = x.wq[1] /\ x.wq[1] \in Write
      /\ x.wq[1].size \in Nat /\ x.wq[1].offset \in Nat
  BY <1>1, QueueFacts
<1> DEFINE a == x.wq[1].size
           o == x.wq[1].offset + n
           q == [x.wq EXCEPT ![1].offset = @ + n]
           z == [x EXCEPT !.taken = @ + n, !.wq[1].offset = @ + n]
<1>3. /\ n \in Nat /\ o \in 0..MaxSize /\ o <= a /\ a \in 1..MaxSize
      /\ a \in Nat /\ o \in Nat
  BY <1>2, StreamAssumption DEF Write
<1>4. /\ q \in Seq(Write) /\ Len(q) = 1 /\ q # << >> /\ q[1] = [size |-> a, offset |-> o]
      /\ Head(q) = q[1]
  <2>1. [x.wq[1] EXCEPT !.offset = o] = [size |-> a, offset |-> o]
    <3>1. \A e \in Write, v \in Nat : [e EXCEPT !.offset = v] = [size |-> e.size, offset |-> v]
      BY DEF Write
    <3> QED BY <1>2, <1>3, <3>1
  <2>2. [size |-> a, offset |-> o] \in Write
    BY <1>3 DEF Write
  <2>3. q = [x.wq EXCEPT ![1] = [size |-> a, offset |-> o]]
    BY <1>2, <2>1
  <2> HIDE DEF q
  <2> QED BY <1>1, <1>2, <2>2, <2>3
<1> HIDE DEF a, o
<1>5. z = [x EXCEPT !.taken = x.taken + n, !.wq = q]
  BY <1>1 DEF Stream
<1>6. z \in Stream /\ x.taken \in Nat /\ x.told \in Nat /\ x.lost \in Nat
  <2>1. x.taken \in Nat /\ x.told \in Nat /\ x.lost \in Nat
    BY <1>1 DEF Stream
  <2>2. x.taken + n \in Nat
    BY <2>1, <1>3
  <2> HIDE DEF q, z
  <2> QED BY Zenon, <1>1, <1>4, <1>5, <2>1, <2>2, QueueType
<1> HIDE DEF q
<1>7. /\ z.wq = q /\ z.taken = x.taken + n
      /\ z.use = x.use /\ z.rcb = x.rcb /\ z.hcb = x.hcb /\ z.handle = x.handle
      /\ z.writing = x.writing /\ z.fault = x.fault /\ z.want_r = x.want_r
      /\ z.want_w = x.want_w /\ z.answers = x.answers /\ z.scb = x.scb
      /\ z.torn = x.torn /\ z.told = x.told /\ z.lost = x.lost
  BY Zenon, <1>1, <1>5 DEF Stream
<1>8. x.taken = x.told + x.lost + x.wq[1].offset
  BY <1>2 DEF Sound, Accounted
<1>13. x.taken + n = x.told + x.lost + o
  BY SMTT(20), <1>2, <1>3, <1>6, <1>8 DEF o
<1>9. Take(x, n) = IF Head(z.wq).offset >= Head(z.wq).size THEN WriteDone(z)
                   ELSE [z EXCEPT !.writing = TRUE, !.want_w = TRUE]
  BY DEF Take
<1> HIDE DEF z
<1>10. Head(z.wq).offset = o /\ Head(z.wq).size = a
  BY <1>4, <1>7
<1> DEFINE y == Take(x, n)
<1>11. CASE o >= a
  <2>1. y = WriteDone(z) /\ o = a
    BY <1>3, <1>9, <1>10, <1>11
  <2>2. Tail(z.wq) = << >>
    <3>2. q \in Seq(Write) /\ Len(q) <= 1 /\ q # << >>
      BY <1>4
    <3>1. Tail(q) = << >>
      BY <3>2, QueueFacts
    <3> QED BY <3>1, <1>7
  <2>3. z.told + a \in Nat /\ << >> \in Seq(Write)
    BY <1>3, <1>6, <1>7
  <2>4. y = [z EXCEPT !.told = z.told + a, !.wq = << >>]
    <3>1. WriteDone(z) = [z EXCEPT !.told = z.told + Head(z.wq).size, !.wq = Tail(z.wq)]
      BY <1>6 DEF WriteDone, Stream
    <3> QED BY Zenon, <3>1, <2>1, <2>2, <1>10
  <2> HIDE DEF y
  <2>5. y \in Stream
    BY Zenon, <1>6, <2>3, <2>4, QueueType
  <2>6. /\ y.wq = << >> /\ y.told = z.told + a
        /\ y.use = x.use /\ y.rcb = x.rcb /\ y.hcb = x.hcb /\ y.handle = x.handle
        /\ y.writing = x.writing /\ y.fault = x.fault /\ y.want_r = x.want_r
        /\ y.want_w = x.want_w /\ y.answers = x.answers /\ y.scb = x.scb
        /\ y.torn = x.torn /\ y.taken = z.taken /\ y.lost = z.lost
    BY Zenon, <1>6, <1>7, <2>4 DEF Stream
  <2>7. Accounted(y)
    BY <1>3, <1>6, <1>7, <1>13, <2>1, <2>6 DEF Accounted
  <2>8. Sound(y)
    BY <2>5, <2>6, <2>7 DEF Sound
  <2> QED BY <2>6, <2>8 DEF y
<1>12. CASE ~(o >= a)
  <2>1. y = [z EXCEPT !.writing = TRUE, !.want_w = TRUE]
    BY <1>9, <1>10, <1>12
  <2> HIDE DEF y
  <2>2. y \in Stream
    BY Zenon, <1>6, <2>1 DEF Stream
  <2>3. /\ y.wq = q /\ y.writing /\ y.want_w
        /\ y.use = x.use /\ y.rcb = x.rcb /\ y.hcb = x.hcb /\ y.handle = x.handle
        /\ y.fault = x.fault /\ y.want_r = x.want_r
        /\ y.answers = x.answers /\ y.scb = x.scb
        /\ y.torn = x.torn /\ y.taken = z.taken /\ y.told = z.told /\ y.lost = z.lost
    BY Zenon, <1>6, <1>7, <2>1 DEF Stream
  <2>4. Accounted(y)
    <3>1. Head(y.wq).offset = o /\ y.wq # << >>
      BY <1>4, <2>3
    <3> QED BY <1>3, <1>6, <1>7, <1>13, <2>3, <3>1 DEF Accounted
  <2>5. Sound(y)
    BY <1>1, <1>4, <2>2, <2>3, <2>4 DEF Sound
  <2> QED BY Zenon, <1>4, <2>3, <2>5 DEF y
<1> QED BY Zenon, <1>11, <1>12

LEMMA PumpOK ==
  ASSUME NEW x, Sound(x), ~x.writing, NEW y \in pump_write(x),
         ~x.handle /\ ~x.fault => ~x.rcb /\ x.scb = "none"
  PROVE  Sound(y) /\ AtRest(y) /\ y.handle = x.handle
<1>1. CASE x.wq = << >>
  BY <1>1 DEF pump_write, FailAll, AtRest
<1>2. CASE x.wq # << >> /\ y \in WriteFails(x)
  <2>1. /\ Sound(y) /\ y.handle = x.handle /\ y.wq = << >> /\ y.writing = x.writing
        /\ ~x.handle => y.fault
    BY <1>2, WriteFailsOK
  <2> QED BY <2>1 DEF AtRest
<1>3. CASE x.wq # << >> /\ y \notin WriteFails(x)
  <2>1. x.handle /\ \E n \in 0..(Head(x.wq).size - Head(x.wq).offset) : y = Take(x, n)
    BY <1>3 DEF pump_write, FailAll
  <2>2. PICK n \in 0..(Head(x.wq).size - Head(x.wq).offset) : y = Take(x, n)
    BY <2>1
  <2>3. /\ Sound(y) /\ y.handle = x.handle
        /\ \/ y.wq = << >> /\ y.writing = x.writing
           \/ y.wq # << >> /\ y.writing
    BY Zenon, <1>3, <2>1, <2>2, TakeOK
  <2> QED BY <2>1, <2>3 DEF AtRest
<1> QED BY <1>1, <1>2, <1>3

-----------------------------------------------------------------------------
(* Reading *)

LEMMA RespondOK ==
  ASSUME NEW x, Sound(x), x.use \in {"more", "backend", "body"}, ~x.rcb,
         NEW y \in Respond(x)
  PROVE  Leaves(x, y)
<1>1. CASE y \in finish(x)
  BY <1>1, FinishOK DEF Sound
<1>2. CASE y \notin finish(x)
  <2>1. x.handle /\ y = [x EXCEPT !.use = "respond"]
    BY <1>2 DEF Respond
  <2> QED BY Zenon, <2>1 DEF Sound, Leaves, Accounted, Stream, Uses
<1> QED BY <1>1, <1>2

LEMMA MoveOnOK ==
  ASSUME NEW x, Sound(x), x.use = "body", ~x.rcb, NEW u \in {"more", "backend"}
  PROVE  Leaves(x, [x EXCEPT !.use = u])
  BY DEF Sound, Leaves, Accounted, Stream, Uses

LEMMA ReadDoneOK ==
  ASSUME NEW x, NEW z, z = [x EXCEPT !.rcb = FALSE], x \in Stream, Sound(z),
         x.use \in {"body", "drain"}, NEW r \in {"data", "eof", "reset"},
         NEW y \in ReadDone(x, r)
  PROVE  Leaves(z, y)
<1>1. z.use = x.use /\ ~z.rcb /\ ~z.hcb /\ z \in Stream
  BY Zenon DEF Sound, Stream
<1>2. CASE x.use = "body" /\ r \in {"data", "eof"}
  <2>1. PICK u \in {"more", "backend"} : y = [z EXCEPT !.use = u]
    BY <1>2 DEF ReadDone
  <2> QED BY Zenon, <1>1, <1>2, <2>1, MoveOnOK
<1>3. CASE x.use = "body" /\ r = "reset"
  <2>1. y \in Respond(z)
    BY <1>3 DEF ReadDone
  <2> QED BY Zenon, <1>1, <1>3, <2>1, RespondOK
<1>4. CASE x.use = "drain" /\ r = "data"
  <2>1. y \in drain_client(z)
    BY <1>4 DEF ReadDone
  <2> QED BY Zenon, <1>1, <1>4, <2>1, DrainOK
<1>5. CASE x.use = "drain" /\ r # "data"
  <2>1. y \in teardown(z)
    BY <1>5 DEF ReadDone
  <2> QED BY <2>1, TeardownOK
<1> QED BY <1>2, <1>3, <1>4, <1>5

-----------------------------------------------------------------------------
(* The steps *)

LEMMA InitOK == Init => IInv
<1> SUFFICES ASSUME Init PROVE IInv
  OBVIOUS
<1>1. s \in Stream
  BY DEF Init, Stream, Uses
<1> QED BY <1>1 DEF Init, IInv, Sound, AtRest, Accounted

LEMMA OnReadableOK ==
  ASSUME IInv, on_readable PROVE IInv'
<1>1. s \in Stream /\ s.handle /\ ~s.fault /\ s.want_r
  BY DEF IInv, Sound, on_readable
<1>2. CASE HeadersTaken
  BY Zenon, <1>1, <1>2 DEF HeadersTaken, IInv, Sound, AtRest, Accounted, Stream, Uses
<1>3. CASE ~s.hcb /\ s.rcb
  <2> DEFINE x == [s EXCEPT !.want_r = FALSE]
             z == [x EXCEPT !.rcb = FALSE]
  <2>1. PICK r \in {"data", "eof", "reset", "again"} :
          IF r = "again" THEN s' = [x EXCEPT !.want_r = TRUE] ELSE s' \in ReadDone(x, r)
    BY Zenon, <1>3 DEF on_readable, HeadersTaken, ReadResults
  <2>2. CASE r = "again"
    <3>1. [x EXCEPT !.want_r = TRUE] = s
      BY Zenon, <1>1 DEF Stream
    <3> QED BY <2>1, <2>2, <3>1 DEF IInv
  <2>3. CASE r # "again"
    <3>1. x \in Stream /\ x.use \in {"body", "drain"} /\ x.handle
      BY Zenon, <1>1, <1>3 DEF IInv, Sound, Stream
    <3>2. Sound(z) /\ z.handle /\ z.wq = s.wq /\ z.writing = s.writing
      BY Zenon, <1>1, <1>3 DEF IInv, Sound, Accounted, Stream
    <3> HIDE DEF x
    <3>3. Leaves(z, s')
      BY <2>1, <2>3, <3>1, <3>2, ReadDoneOK
    <3> HIDE DEF z
    <3> QED BY <3>2, <3>3 DEF IInv, AtRest, Leaves
  <2> QED BY <2>2, <2>3
<1> QED BY <1>2, <1>3 DEF on_readable

LEMMA OnWriteableOK ==
  ASSUME IInv, on_writeable PROVE IInv'
<1> DEFINE x == [s EXCEPT !.writing = FALSE]
<1>1. Sound(x) /\ ~x.writing /\ x.handle
  BY Zenon DEF IInv, Sound, Accounted, Stream, on_writeable
<1>2. s' \in pump_write(x)
  BY DEF on_writeable
<1> HIDE DEF x
<1> QED BY <1>1, <1>2, PumpOK DEF IInv

(* Each callback that on_close makes leaves the record as the next needs   *)
(* it, or faults.                                                          *)
LEMMA OnCloseOK ==
  ASSUME IInv, on_close PROVE IInv'
<1> DEFINE x == [s EXCEPT !.handle = FALSE]
<1>1. /\ Sound(x) /\ ~x.handle /\ ~x.fault /\ x.wq = s.wq
  BY ZenonT(30) DEF IInv, Sound, Accounted, Stream, on_close
<1> DEFINE A == Ends(ReadEnds, {x})
           B == Ends(FailAll, A)
           C == Ends(ShutEnds, B)
<1>2. PICK c \in C : s' = [c EXCEPT !.writing = FALSE]
  BY Zenon DEF on_close
<1>3. PICK b \in B : c \in IF b.fault THEN {b} ELSE ShutEnds(b)
  <2> HIDE DEF B
  <2> QED BY <1>2 DEF Ends
<1>4. PICK a \in A : b \in IF a.fault THEN {a} ELSE FailAll(a)
  <2> HIDE DEF A
  <2> QED BY <1>3 DEF Ends
<1>7. a \in ReadEnds(x)
  BY Zenon, <1>1, <1>4 DEF Ends
<1> HIDE DEF x, A, B, C
(* The read ends. *)
<1>5. Sound(a) /\ ~a.handle /\ a.wq = x.wq /\ (~a.fault => ~a.rcb)
      /\ (a.fault => a.wq = << >>)
  <2>2. CASE x.rcb
    <3> DEFINE z == [x EXCEPT !.rcb = FALSE]
    <3>1. /\ x \in Stream /\ Sound(z) /\ z.handle = x.handle /\ z.wq = x.wq /\ ~z.rcb
          /\ x.wq = << >> /\ x.use \in {"body", "drain"}
      BY Zenon, <2>2, <1>1 DEF Sound, Accounted, Stream
    <3>2. a \in ReadDone(x, "eof")
      BY <1>7, <2>2 DEF ReadEnds
    <3> HIDE DEF z
    <3>3. Leaves(z, a)
      BY <3>1, <3>2, ReadDoneOK DEF z
    <3> QED BY <3>1, <3>3, <1>1 DEF Leaves
  <2>3. CASE ~x.rcb
    BY <1>1, <1>7, <2>3 DEF ReadEnds
  <2> QED BY <2>2, <2>3
(* The write fails, which ends the process when there is one. *)
<1>6. Sound(b) /\ ~b.handle /\ (~b.fault => ~b.rcb) /\ b.wq = << >>
  <2>1. CASE a.fault
    <3>1. b = a
      BY <1>4, <2>1
    <3> QED BY <1>5, <2>1, <3>1
  <2>2. CASE ~a.fault /\ a.wq = << >>
    BY <1>4, <1>5, <2>2 DEF FailAll
  <2>3. CASE ~a.fault /\ a.wq # << >>
    <3>1. b \in WriteFails(a)
      BY <1>4, <2>3 DEF FailAll
    <3> QED BY <1>5, <2>3, <3>1, WriteFailsOK
  <2> QED BY <2>1, <2>2, <2>3
(* The pending shutdown completes; the relay that it reaches is torn down. *)
<1>8. Sound(c) /\ ~c.handle /\ c.wq = << >> /\ (~c.fault => ~c.rcb /\ c.scb = "none")
  <2>1. CASE b.fault
    <3>1. c = b
      BY <1>3, <2>1
    <3> QED BY <1>6, <2>1, <3>1
  <2> DEFINE z == [b EXCEPT !.scb = "none"]
  <2>2. CASE ~b.fault /\ b.scb # "codec"
    <3>1. c = z
      BY <1>3, <2>2 DEF ShutEnds
    <3> QED BY <1>6, <2>2, <3>1 DEF Sound, Accounted, Stream
  <2>3. CASE ~b.fault /\ b.scb = "codec"
    <3>1. c \in after_client_response(z)
      BY <1>3, <2>3 DEF ShutEnds
    <3> DEFINE e == [z EXCEPT !.use = "ended", !.answers = @ + 1]
    <3>2. /\ z \in Stream /\ z.use = "finishing" /\ z.answers = 0 /\ z.scb = "none"
          /\ ~z.hcb /\ ~z.rcb /\ ~z.handle /\ ~z.fault /\ z.wq = << >>
          /\ z.writing = b.writing /\ z.want_w = b.want_w
          /\ z.taken = b.taken /\ z.told = b.told /\ z.lost = b.lost
      BY <1>6, <2>3 DEF Sound, Stream
    <3> HIDE DEF z
    <3>3. e \in Stream
      <4>1. z.answers + 1 \in Nat /\ "ended" \in Uses
        BY <3>2 DEF Uses
      <4> QED BY Zenon, <3>2, <4>1, AnswerType
    <3>4. /\ e.use = "ended" /\ e.answers = 1 /\ e.scb = "none"
          /\ ~e.hcb /\ ~e.rcb /\ ~e.handle /\ ~e.fault /\ e.wq = << >>
          /\ e.writing = b.writing /\ e.want_w = b.want_w
          /\ e.taken = b.taken /\ e.told = b.told /\ e.lost = b.lost
      BY <3>2 DEF Stream
    <3> HIDE DEF e
    <3>5. Sound(e)
      BY <1>6, <3>3, <3>4 DEF Sound, Accounted
    <3>6. Leaves(z, c)
      BY Zenon, <3>1, <3>2, <3>5, AfterResponseOK DEF e
    <3> QED BY <3>2, <3>6 DEF Leaves
  <2> QED BY <2>1, <2>2, <2>3
<1> QED BY Zenon, <1>2, <1>8 DEF IInv, AtRest, Sound, Accounted, Stream

LEMMA OnResetOK ==
  ASSUME IInv, NEW how \in SUBSET {"read", "write"}, on_reset(how) PROVE IInv'
<1> DEFINE x == [s EXCEPT !.dead = @ \cup how]
           read == IF "read" \in how /\ s.rcb THEN ReadDone(x, "reset") ELSE {x}
<1>1. /\ Sound(x) /\ x \in Stream /\ x.handle /\ x.wq = s.wq /\ x.writing = s.writing
      /\ x.rcb = s.rcb
  <2>1. s \in Stream /\ s.dead \cup how \in SUBSET {"read", "write"} /\ s.handle
    BY DEF IInv, Sound, Stream, on_reset
  <2> QED BY SMTT(20), <2>1 DEF IInv, Sound, Accounted, Stream
<1>2. PICK y \in read : IF "write" \in how
                          THEN \E z \in FailAll(y) : s' = [z EXCEPT !.writing = FALSE]
                          ELSE s' = y
  BY DEF on_reset
<1> HIDE DEF x
<1>3. Sound(y) /\ y.handle /\ y.wq = s.wq /\ y.writing = s.writing
  <2>1. CASE y = x
    BY <1>1, <2>1
  <2>2. CASE y # x
    <3> DEFINE z == [x EXCEPT !.rcb = FALSE]
    <3>1. x.rcb /\ y \in ReadDone(x, "reset")
      BY <1>1, <1>2, <2>2
    <3>2. /\ Sound(z) /\ z.handle /\ z.wq = s.wq /\ z.writing = s.writing
          /\ x.use \in {"body", "drain"}
      BY Zenon, <1>1, <3>1 DEF Sound, Accounted, Stream
    <3> HIDE DEF z
    <3>3. Leaves(z, y)
      BY <1>1, <3>1, <3>2, ReadDoneOK DEF z
    <3> QED BY <3>2, <3>3 DEF Leaves
  <2> QED BY <2>1, <2>2
<1>4. AtRest(y)
  BY <1>3 DEF IInv, AtRest
<1>5. CASE "write" \notin how
  BY <1>2, <1>3, <1>4, <1>5 DEF IInv
<1>6. CASE "write" \in how
  <2>1. PICK z \in FailAll(y) : s' = [z EXCEPT !.writing = FALSE]
    BY <1>2, <1>6
  <2>2. Sound(z) /\ z.handle /\ z.wq = << >>
    <3>1. CASE y.wq = << >>
      BY <1>3, <2>1, <3>1 DEF FailAll
    <3>2. CASE y.wq # << >>
      <4>1. z \in WriteFails(y)
        BY <2>1, <3>2 DEF FailAll
      <4> QED BY <1>3, <3>2, <4>1, WriteFailsOK
    <3> QED BY <3>1, <3>2
  <2> QED BY Zenon, <2>1, <2>2 DEF IInv, AtRest, Sound, Accounted, Stream
<1> QED BY <1>5, <1>6

(* A call of the relay that ends as a callback does. *)
LEMMA LeavesRest ==
  ASSUME NEW x, AtRest(x), NEW y, Leaves(x, y)
  PROVE  Sound(y) /\ AtRest(y)
  BY DEF AtRest, Leaves

LEMMA ReadBodyOK ==
  ASSUME IInv, ReadBody PROVE IInv'
<1>1. CASE s.handle
  <2>1. s' = [s EXCEPT !.use = "body", !.rcb = TRUE, !.want_r = TRUE]
    BY <1>1 DEF ReadBody, async_read_some
  <2>2. s' \in Stream
    BY Zenon, <2>1 DEF IInv, Sound, Stream, Uses
  <2> QED BY <1>1, <2>1, <2>2 DEF ReadBody, IInv, Sound, AtRest, Accounted, Stream
<1>2. CASE ~s.handle
  BY <1>2 DEF ReadBody, IInv, Sound, AtRest, Accounted, Stream, Uses
<1> QED BY <1>1, <1>2

LEMMA StartResponseOK ==
  ASSUME IInv, StartResponse PROVE IInv'
<1>1. /\ Sound(s) /\ s.use \in {"more", "backend"} /\ ~s.rcb /\ s' \in Respond(s)
  BY DEF IInv, Sound, StartResponse
<1>2. Leaves(s, s')
  BY <1>1, RespondOK
<1> QED BY <1>2, LeavesRest DEF IInv

LEMMA EndOfBodyOK ==
  ASSUME IInv, EndOfBody PROVE IInv'
<1>1. Sound(s) /\ s.use = "respond" /\ s.wq = << >> /\ ~s.rcb /\ s' \in finish(s)
  BY DEF IInv, Sound, EndOfBody
<1>2. Leaves(s, s')
  BY <1>1, FinishOK
<1> QED BY <1>2, LeavesRest DEF IInv

LEMMA WriteChunkOK ==
  ASSUME IInv, WriteChunk PROVE IInv'
<1>1. PICK size \in 1..MaxSize : s' \in async_write_some(s, size)
  BY DEF WriteChunk
<1>2. /\ s \in Stream /\ s.use = "respond" /\ s.wq = << >> /\ ~s.writing /\ ~s.fault
      /\ s.writes \in Nat /\ s.wq \in Seq(Write)
  BY DEF IInv, Sound, AtRest, WriteChunk, Running, Stream, Write
<1> DEFINE e == [size |-> size, offset |-> 0]
           q == Append(s.wq, e)
           x == [s EXCEPT !.wq = Append(@, e), !.writes = @ + 1]
<1>3. /\ q \in Seq(Write) /\ Len(q) = 1 /\ q # << >> /\ Head(q) = e
  <2>1. e \in Write
    BY StreamAssumption DEF Write
  <2> HIDE DEF e
  <2> QED BY <1>2, <2>1
<1>4. x = [s EXCEPT !.wq = q, !.writes = s.writes + 1]
  BY <1>2 DEF Stream
<1> HIDE DEF q
<1>5. s' \in pump_write(x)
  BY <1>1 DEF async_write_some
<1> HIDE DEF x
<1>6. x \in Stream
  <2>1. s \in Stream /\ s.writes + 1 \in Nat /\ q \in Seq(Write)
    BY <1>2, <1>3
  <2>2. [s EXCEPT !.wq = q, !.writes = s.writes + 1] \in Stream
    BY Zenon, <2>1, QueueType
  <2> QED BY <1>4, <2>2
<1>7. /\ x.wq = q /\ x.use = s.use /\ x.rcb = s.rcb /\ x.hcb = s.hcb
      /\ x.handle = s.handle /\ x.writing = s.writing /\ x.fault = s.fault
      /\ x.want_r = s.want_r /\ x.want_w = s.want_w /\ x.answers = s.answers
      /\ x.scb = s.scb /\ x.torn = s.torn /\ x.taken = s.taken /\ x.told = s.told
      /\ x.lost = s.lost
  BY <1>2, <1>4 DEF Stream
<1>8. Sound(x)
  <2>1. Accounted(x)
    BY <1>2, <1>3, <1>7 DEF IInv, Sound, Accounted
  <2>2. /\ ~x.rcb /\ ~x.hcb /\ ~x.writing /\ ~x.fault
        /\ x.use = "respond" /\ x.answers = 0 /\ x.scb # "codec"
    <3>1. ~s.rcb /\ ~s.hcb /\ s.answers = 0 /\ s.scb # "codec"
      BY <1>2 DEF IInv, Sound
    <3> QED BY <1>2, <1>7, <3>1
  <2>3. Len(x.wq) <= 1
    <3>1. x.wq = q /\ Len(q) = 1
      BY <1>3, <1>7
    <3> QED BY <3>1
  <2> QED BY <1>6, <2>1, <2>2, <2>3 DEF Sound
<1>9. ~x.handle /\ ~x.fault => ~x.rcb /\ x.scb = "none"
  BY <1>7 DEF IInv, AtRest
<1> QED BY <1>2, <1>5, <1>7, <1>8, <1>9, PumpOK DEF IInv

LEMMA GracefulCloseOK ==
  ASSUME IInv, graceful_close PROVE IInv'
<1> DEFINE x == [s EXCEPT !.draining = TRUE]
<1>1. Sound(x) /\ AtRest(x) /\ x.use = s.use
  BY Zenon DEF IInv, Sound, AtRest, Accounted, Stream
<1>2. CASE s.use = "headers"
  <2>1. s' \in async_shutdown(x)
    BY <1>2 DEF graceful_close
  <2> HIDE DEF x
  <2>2. Leaves(x, s')
    BY <1>1, <1>2, <2>1, ShutdownOK
  <2> QED BY <1>1, <2>2, LeavesRest DEF IInv
<1>3. CASE s.use # "headers"
  BY Zenon, <1>1, <1>3 DEF graceful_close, IInv
<1> QED BY <1>2, <1>3

LEMMA IdleTimeoutOK ==
  ASSUME IInv, IdleTimeout PROVE IInv'
<1>1. Leaves(s, s')
  BY TeardownOK DEF IdleTimeout, IInv
<1> QED BY <1>1, LeavesRest DEF IInv

LEMMA StepOK == IInv /\ [Next]_vars => IInv'
<1> SUFFICES ASSUME IInv, [Next]_vars PROVE IInv'
  OBVIOUS
<1>1. CASE on_readable \/ on_writeable \/ on_close
  BY <1>1, OnReadableOK, OnWriteableOK, OnCloseOK
<1>2. CASE \E how \in {{"read"}, {"write"}, {"read", "write"}} : on_reset(how)
  BY <1>2, OnResetOK
<1>3. CASE ReadBody \/ StartResponse \/ WriteChunk \/ EndOfBody
  BY <1>3, ReadBodyOK, StartResponseOK, WriteChunkOK, EndOfBodyOK
<1>4. CASE graceful_close \/ IdleTimeout
  BY <1>4, GracefulCloseOK, IdleTimeoutOK
<1>5. CASE UNCHANGED vars
  BY <1>5 DEF vars, IInv
<1> QED BY <1>1, <1>2, <1>3, <1>4, <1>5 DEF Next

LEMMA Invariance == Spec => []IInv
<1> QED BY InitOK, StepOK, PTL DEF Spec

-----------------------------------------------------------------------------
(* The properties *)

(* The record keeps its type, and one relay never has two writes queued.   *)
THEOREM TypeCorrect == Spec => []TypeOK
<1>1. IInv => TypeOK
  BY DEF IInv, Sound, TypeOK
<1> QED BY <1>1, Invariance, PTL

(* However flow control cuts a write, pump_write resumes it at op.offset:  *)
(* no unit of the response is sent twice, skipped or left out of account.  *)
THEOREM EveryUnitAccounted == Spec => []WritesAccounted
<1>1. IInv => WritesAccounted
  BY DEF IInv, Sound, Accounted, WritesAccounted
<1> QED BY <1>1, Invariance, PTL

(* A pending operation has asked lsquic for the event that resumes it.     *)
THEOREM NothingStalls == Spec => []NoStalledOperation
<1>1. IInv => NoStalledOperation
  BY DEF IInv, Sound, AtRest, NoStalledOperation
<1> QED BY <1>1, Invariance, PTL

(* on_close completes every operation that was waiting, in any phase of    *)
(* the relay.                                                              *)
THEOREM CloseSettles == Spec => []ClosedSettled
<1>1. IInv => ClosedSettled
  BY DEF IInv, AtRest, ClosedSettled
<1> QED BY <1>1, Invariance, PTL

(* The response is reported written once at most, and a relay that waits   *)
(* for that report still has its callback in shutdown_cb_.                 *)
THEOREM ResponseReportedOnce == Spec => []AnsweredOnce
<1>1. IInv => AnsweredOnce
  BY DEF IInv, Sound, AnsweredOnce
<1> QED BY <1>1, Invariance, PTL

=============================================================================
