---------------------------- MODULE H1CodecProofs ----------------------------
(***************************************************************************)
(* Proofs about H1Codec, for messages with bodies of any length, reads of  *)
(* any size and any chunk sizes.                                           *)
(*                                                                         *)
(* The invariant relates the positions that have been read and forwarded   *)
(* to the place of the message on the wire: Places says which message the  *)
(* codec is at, Bodies what has been forwarded of it, SourceFits how what  *)
(* the source still owes fits what has been forwarded, Finished where a    *)
(* message that has ended or was given up leaves the connection, and       *)
(* Boundary that a kept connection starts the next parse where a message   *)
(* ends.                                                                   *)
(***************************************************************************)
EXTENDS H1Codec, SequenceTheorems, WellFoundedInduction, TLAPS

Unit == {"head", "end", "data", "size", "nl", "cr", "blank"}

Active == c.st \in {"head", "pump", "write"}
Over == c.st \in {"ended", "dropped"}

(* The wire and the messages on it, which stay as they are. *)
Frames ==
  /\ msgs \in Messages \X Messages
  /\ wire = Units(msgs[1]) \o Units(msgs[2])
  /\ c.role = "request" => \A i \in 1..2 : msgs[i].framing # "close"

(* The peer waits for its answer, unless it is a client. *)
Arrivals ==
  /\ c.done = 0 /\ (c.role = "response" \/ ~net.early) => net.arrived <= EndOf(1)
  /\ msgs[1].framing = "close" => net.arrived <= EndOf(1)

Places ==
  /\ c.from <= c.rd
  /\ Active \/ Over => c.from < c.rd /\ c.hd <= c.rd /\ c.msg # 0
  /\ c.from = 0 /\ ~Over /\ c.st # "failed" => c.done = 0
  /\ \A i \in 1..2 : c.msg = i =>
       /\ BodyAt(i) <= c.hd
       /\ Active \/ Over =>
            c.from = Before(i) /\ (c.keep => msgs[i].framing # "close")

(* The pump's buffer is empty but between a read and its write, and while  *)
(* the CRLF after a chunk is read.                                         *)
Buffer ==
  /\ c.st \in {"parse", "head", "ended", "dropped"} => c.chunk = << >>
  /\ c.st = "pump" /\ ~(c.src.kind = "chunked" /\ c.src.step = "crlf")
       => c.chunk = << >>
  /\ c.st = "head" => c.out = << >>
  /\ c.st \in {"pump", "write"} => c.src.kind # "none"

(* Last position before the body units that are forwarded. *)
Start(i) == IF msgs[i].framing = "length" /\ c.hd >= EndOf(i)
            THEN BodyAt(i) ELSE c.hd

Bodies ==
  \A i \in 1..2 : c.msg = i =>
    /\ msgs[i].framing = "bare" => Len(Moved) = 0
    /\ msgs[i].framing \in {"length", "close"} =>
         Moved = Span(Start(i), Len(Moved)) /\ Start(i) + Len(Moved) <= EndOf(i)
    /\ msgs[i].framing = "chunked" =>
         /\ \A j \in 1..Len(Moved) : BodyAt(i) < Moved[j] /\ Moved[j] <= EndOf(i)
         /\ \A j, k \in 1..Len(Moved) : j < k => Moved[j] < Moved[k]

Owes(i) ==
  /\ c.src.kind = "none" => /\ c.st = "head" /\ msgs[i].framing # "close"
                            /\ msgs[i].framing = "length" => msgs[i].len = 0
  /\ c.src.kind = "buffer" =>
       /\ msgs[i].framing = "length" /\ c.hd >= EndOf(i)
       /\ c.src.pos = BodyAt(i) + Len(Moved) /\ c.src.pos + c.src.rem = EndOf(i)
  /\ c.src.kind = "stream" =>
       /\ msgs[i].framing = "length" /\ c.hd < EndOf(i)
       /\ c.rd = c.hd + Len(Moved) /\ c.rd + c.src.rem = EndOf(i)
  /\ c.src.kind = "eof" => msgs[i].framing = "close" /\ c.rd = c.hd + Len(Moved)
  /\ c.src.kind = "chunked" =>
       /\ msgs[i].framing = "chunked" /\ c.role = "response"
       /\ \A j \in 1..Len(Moved) : Moved[j] <= c.rd

SourceFits == \A i \in 1..2 : c.msg = i /\ Active => Owes(i)

Ends(i) ==
  /\ msgs[i].framing = "length" => Start(i) + Len(Moved) = EndOf(i)
  /\ msgs[i].framing \in {"length", "bare"} => c.rd >= EndOf(i)
  /\ ~net.early => c.rd <= EndOf(i)

GivenUp(i) == /\ ~c.cut => c.rd >= EndOf(i)
              /\ ~net.early => c.rd <= EndOf(i)

Finished == \A i \in 1..2 : c.msg = i => /\ c.st = "ended" => Ends(i)
                                         /\ c.st = "dropped" => GivenUp(i)

Boundary ==
  net.early \/ c.cut \/ (\E i \in 1..2 : msgs[i].framing = "chunked")
  \/ /\ c.msg # 3
     /\ c.st = "parse" =>
          /\ c.msg = 0 => c.from = 0
          /\ \A i \in 1..2 : c.msg = i => c.from = EndOf(i)

IInv == /\ TypeOK /\ Frames /\ Arrivals /\ Places /\ Buffer
        /\ Bodies /\ SourceFits /\ Finished /\ Boundary

-----------------------------------------------------------------------------
(* Spans *)

LEMMA FunctionIsSeq ==
  ASSUME NEW S, NEW n \in Nat, NEW f \in [1..n -> S]
  PROVE  f \in Seq(S) /\ Len(f) = n
  BY SeqDef

LEMMA SpanFacts ==
  ASSUME NEW a \in Nat, NEW n \in Nat
  PROVE  /\ Span(a, n) \in Seq(Nat) /\ Len(Span(a, n)) = n
         /\ \A i \in 1..n : Span(a, n)[i] = a + i
<1>1. Span(a, n) \in [1..n -> Nat]
  BY DEF Span
<1>2. \A i \in 1..n : Span(a, n)[i] = a + i
  BY DEF Span
<1> QED BY <1>1, <1>2, FunctionIsSeq

LEMMA SpanEmpty ==
  ASSUME NEW a \in Nat PROVE Span(a, 0) = << >>
<1>1. Span(a, 0) \in Seq(Nat) /\ Len(Span(a, 0)) = 0
  BY SpanFacts
<1> QED BY <1>1, EmptySeq

(* Two runs that meet are one run. *)
LEMMA SpanJoin ==
  ASSUME NEW a \in Nat, NEW n \in Nat, NEW k \in Nat
  PROVE  Span(a, n) \o Span(a + n, k) = Span(a, n + k)
<1> DEFINE l == Span(a, n)
           r == Span(a + n, k)
           t == Span(a, n + k)
<1>1. /\ l \in Seq(Nat) /\ Len(l) = n /\ \A i \in 1..n : l[i] = a + i
      /\ r \in Seq(Nat) /\ Len(r) = k /\ \A i \in 1..k : r[i] = a + n + i
      /\ t \in Seq(Nat) /\ Len(t) = n + k /\ \A i \in 1..(n + k) : t[i] = a + i
  <2>1. a + n \in Nat /\ n + k \in Nat
    OBVIOUS
  <2> QED BY Zenon, <2>1, SpanFacts
<1> HIDE DEF l, r, t
<1>2. /\ l \o r \in Seq(Nat) /\ Len(l \o r) = n + k
      /\ \A i \in 1..(n + k) : (l \o r)[i] = IF i <= n THEN l[i] ELSE r[i - n]
  BY ZenonT(30), <1>1, ConcatProperties
<1>3. ASSUME NEW i \in 1..(n + k) PROVE (l \o r)[i] = t[i]
  <2>1. CASE i <= n
    BY <1>1, <1>2, <2>1
  <2>2. CASE ~(i <= n)
    <3>1. i - n \in 1..k /\ a + n + (i - n) = a + i
      BY <2>2
    <3> QED BY Zenon, <1>1, <1>2, <2>2, <3>1
  <2> QED BY Zenon, <2>1, <2>2
<1>4. l \o r = t
  BY Zenon, <1>1, <1>2, <1>3, SeqEqual
<1> QED BY <1>4 DEF l, r, t

-----------------------------------------------------------------------------
(* The wire *)

LEMMA BodyFacts ==
  ASSUME NEW m \in Message
  PROVE  /\ Body(m) \in Seq(Unit) /\ Len(Body(m)) \in Nat
         /\ m.framing \in {"length", "close"} => Len(Body(m)) = m.len
         /\ m.framing = "bare" => Len(Body(m)) = 0
<1>0. m.len \in Nat /\ m.framing \in {"bare", "length", "chunked", "close"}
  BY DEF Message
<1>1. Data(m.len) \in Seq(Unit) /\ Len(Data(m.len)) = m.len
  <2>1. Data(m.len) \in [1..m.len -> Unit]
    BY DEF Data, Unit
  <2> QED BY <1>0, <2>1, FunctionIsSeq
<1>2. CASE m.framing \in {"length", "close"}
  BY <1>0, <1>1, <1>2 DEF Body
<1>3. CASE m.framing = "bare"
  <2>1. Body(m) = << >>
    BY <1>3 DEF Body
  <2> QED BY <1>3, <2>1
<1>4. CASE m.framing = "chunked"
  <2> DEFINE p == <<"size", "nl">>
             d == Data(m.len)
             t == <<"cr", "nl">>
             z == <<"size", "nl", "cr", "blank">>
  <2>1. p \in Seq(Unit) /\ t \in Seq(Unit) /\ z \in Seq(Unit)
    BY DEF Unit
  <2>2. Body(m) = (IF m.len = 0 THEN << >> ELSE p \o d \o t) \o z
    BY <1>4 DEF Body
  <2> HIDE DEF p, d, t, z
  <2>3. p \o d \in Seq(Unit)
    BY <1>1, <2>1, ConcatProperties DEF d
  <2>4. p \o d \o t \in Seq(Unit)
    BY <2>1, <2>3, ConcatProperties
  <2>5. Body(m) \in Seq(Unit)
    BY <2>1, <2>2, <2>4, ConcatProperties
  <2> QED BY <1>4, <2>5, LenProperties
<1> QED BY <1>0, <1>2, <1>3, <1>4

LEMMA UnitsFacts ==
  ASSUME NEW m \in Message
  PROVE  /\ Units(m) \in Seq(Unit) /\ Len(Units(m)) = 2 + Len(Body(m))
         /\ Units(m)[1] = "head" /\ Units(m)[2] = "end"
<1> DEFINE h == <<"head", "end">>
<1>1. h \in Seq(Unit) /\ Len(h) = 2 /\ h[1] = "head" /\ h[2] = "end"
  BY DEF Unit
<1>2. Body(m) \in Seq(Unit) /\ Len(Body(m)) \in Nat
  BY BodyFacts
<1>3. Units(m) = h \o Body(m)
  BY DEF Units
<1> HIDE DEF h
<1>4. /\ Units(m) \in Seq(Unit) /\ Len(Units(m)) = 2 + Len(Body(m))
      /\ \A i \in 1..(2 + Len(Body(m))) :
           Units(m)[i] = IF i <= 2 THEN h[i] ELSE Body(m)[i - 2]
  <2>1. /\ h \o Body(m) \in Seq(Unit) /\ Len(h \o Body(m)) = Len(h) + Len(Body(m))
        /\ \A i \in 1..(Len(h) + Len(Body(m))) : (h \o Body(m))[i]
             = IF i <= Len(h) THEN h[i] ELSE Body(m)[i - Len(h)]
    BY Zenon, <1>1, <1>2, ConcatProperties
  <2> QED BY <1>1, <1>3, <2>1
<1>5. 1 \in 1..(2 + Len(Body(m))) /\ 2 \in 1..(2 + Len(Body(m)))
  BY <1>2
<1> QED BY <1>1, <1>4, <1>5

LEMMA WireFacts ==
  ASSUME Frames
  PROVE  /\ wire \in Seq(Unit) /\ Before(1) = 0 /\ Before(2) = EndOf(1)
         /\ EndOf(2) = Len(wire)
         /\ \A i \in 1..2 :
              /\ msgs[i] \in Message
              /\ Before(i) \in Nat /\ BodyAt(i) = Before(i) + 2
              /\ EndOf(i) \in Nat /\ EndOf(i) >= BodyAt(i) /\ EndOf(i) <= Len(wire)
              /\ msgs[i].framing \in {"length", "close"}
                   => EndOf(i) = BodyAt(i) + msgs[i].len
              /\ msgs[i].framing = "bare" => EndOf(i) = BodyAt(i)
              /\ wire[Before(i) + 1] = "head" /\ wire[BodyAt(i)] = "end"
<1> DEFINE m1 == msgs[1]
           m2 == msgs[2]
           u1 == Units(m1)
           u2 == Units(m2)
<1>1. m1 \in Message /\ m2 \in Message /\ wire = u1 \o u2
  BY H1Assumption DEF Frames
<1>2. /\ u1 \in Seq(Unit) /\ Len(u1) = 2 + Len(Body(m1)) /\ u1[1] = "head" /\ u1[2] = "end"
      /\ u2 \in Seq(Unit) /\ Len(u2) = 2 + Len(Body(m2)) /\ u2[1] = "head" /\ u2[2] = "end"
  BY <1>1, UnitsFacts
<1>3. /\ Len(Body(m1)) \in Nat /\ Len(Body(m2)) \in Nat
      /\ m1.framing \in {"length", "close"} => Len(Body(m1)) = m1.len
      /\ m2.framing \in {"length", "close"} => Len(Body(m2)) = m2.len
      /\ m1.framing = "bare" => Len(Body(m1)) = 0
      /\ m2.framing = "bare" => Len(Body(m2)) = 0
  BY <1>1, BodyFacts
<1>4. /\ Before(1) = 0 /\ Before(2) = Len(u1) /\ BodyAt(1) = 2 /\ BodyAt(2) = Len(u1) + 2
      /\ EndOf(1) = Len(u1) /\ EndOf(2) = Len(u1) + Len(u2)
  BY <1>2, <1>3 DEF Before, BodyAt, EndOf
<1> HIDE DEF u1, u2
<1>5. /\ wire \in Seq(Unit) /\ Len(wire) = Len(u1) + Len(u2)
      /\ \A i \in 1..(Len(u1) + Len(u2)) :
           wire[i] = IF i <= Len(u1) THEN u1[i] ELSE u2[i - Len(u1)]
  <2>1. u1 \in Seq(Unit) /\ u2 \in Seq(Unit) /\ wire = u1 \o u2
    BY <1>1, <1>2 DEF u1, u2
  <2> QED BY <2>1, ConcatProperties
<1>6. wire[1] = "head" /\ wire[2] = "end"
  <2>1. Len(u1) \in Nat /\ Len(u2) \in Nat /\ Len(u1) >= 2
    BY <1>2, <1>3
  <2>2. /\ 1 \in 1..(Len(u1) + Len(u2)) /\ 1 <= Len(u1)
        /\ 2 \in 1..(Len(u1) + Len(u2)) /\ 2 <= Len(u1)
    BY <2>1
  <2> QED BY <1>2, <1>5, <2>2
<1>7. wire[Len(u1) + 1] = "head" /\ wire[Len(u1) + 2] = "end"
  <2>1. Len(u1) \in Nat /\ Len(u2) \in Nat /\ Len(u2) >= 2
    BY <1>2, <1>3
  <2>2. /\ Len(u1) + 1 \in 1..(Len(u1) + Len(u2)) /\ ~(Len(u1) + 1 <= Len(u1))
        /\ Len(u1) + 2 \in 1..(Len(u1) + Len(u2)) /\ ~(Len(u1) + 2 <= Len(u1))
        /\ Len(u1) + 1 - Len(u1) = 1 /\ Len(u1) + 2 - Len(u1) = 2
    BY <2>1
  <2> QED BY <1>2, <1>5, <2>2
<1>8. /\ m1.framing \in {"length", "close"} => EndOf(1) = BodyAt(1) + m1.len
      /\ m1.framing = "bare" => EndOf(1) = BodyAt(1)
      /\ EndOf(1) \in Nat /\ EndOf(1) >= BodyAt(1) /\ EndOf(1) <= Len(wire)
  BY <1>2, <1>3, <1>4, <1>5
<1>9. /\ m2.framing \in {"length", "close"} => EndOf(2) = BodyAt(2) + m2.len
      /\ m2.framing = "bare" => EndOf(2) = BodyAt(2)
      /\ EndOf(2) \in Nat /\ EndOf(2) >= BodyAt(2) /\ EndOf(2) = Len(wire)
      /\ Before(2) \in Nat
  BY SMTT(20), <1>1, <1>2, <1>3, <1>4, <1>5 DEF Message
<1>10. /\ BodyAt(1) = Before(1) + 2 /\ BodyAt(2) = Before(2) + 2 /\ Before(2) = EndOf(1)
       /\ wire[Before(1) + 1] = "head" /\ wire[BodyAt(1)] = "end"
       /\ wire[Before(2) + 1] = "head" /\ wire[BodyAt(2)] = "end"
  BY <1>4, <1>6, <1>7
<1>11. ASSUME NEW i \in 1..2
       PROVE  /\ msgs[i] \in Message
              /\ Before(i) \in Nat /\ BodyAt(i) = Before(i) + 2
              /\ EndOf(i) \in Nat /\ EndOf(i) >= BodyAt(i) /\ EndOf(i) <= Len(wire)
              /\ msgs[i].framing \in {"length", "close"}
                   => EndOf(i) = BodyAt(i) + msgs[i].len
              /\ msgs[i].framing = "bare" => EndOf(i) = BodyAt(i)
              /\ wire[Before(i) + 1] = "head" /\ wire[BodyAt(i)] = "end"
  <2>1. CASE i = 1
    BY <2>1, <1>1, <1>4, <1>8, <1>10
  <2>2. CASE i = 2
    BY <2>2, <1>1, <1>9, <1>10
  <2> QED BY <2>1, <2>2
<1> QED BY <1>4, <1>5, <1>9, <1>10, <1>11

LEMMA SamePlaces ==
  ASSUME UNCHANGED <<msgs, wire>>, NEW i \in 1..2
  PROVE  Before(i)' = Before(i) /\ BodyAt(i)' = BodyAt(i) /\ EndOf(i)' = EndOf(i)
  BY DEF Before, BodyAt, EndOf

LEMMA MovedType ==
  ASSUME TypeOK
  PROVE  /\ Moved \in Seq(Nat) /\ Len(Moved) \in Nat
         /\ \A j \in 1..Len(Moved) : Moved[j] \in Nat
         /\ c.chunk = << >> => Moved = c.out
<1>1. c.out \in Seq(Nat) /\ c.chunk \in Seq(Nat)
  BY DEF TypeOK, Codec
<1>2. Moved \in Seq(Nat)
  BY <1>1, ConcatProperties DEF Moved
<1>3. c.chunk = << >> => Moved = c.out
  BY <1>1, ConcatEmptySeq DEF Moved
<1> QED BY <1>2, <1>3

-----------------------------------------------------------------------------
(* Initial states, the network and failures *)

LEMMA InitOK == Init => IInv
<1> SUFFICES ASSUME Init PROVE IInv
  OBVIOUS
<1>1. PICK r \in {"request", "response"} :
        c = [role |-> r, st |-> "parse", rd |-> 0, from |-> 0, msg |-> 0,
             hd |-> 0, src |-> NoSource, keep |-> FALSE, chunk |-> << >>,
             out |-> << >>, done |-> 0, cut |-> FALSE]
  BY DEF Init
<1>2. Frames
  BY DEF Init, Frames
<1>3. c \in Codec
  BY <1>1 DEF Codec, Source, NoSource
<1>4. wire \in Seq(Unit) /\ Len(wire) \in Nat /\ EndOf(1) \in Nat
  BY <1>2, WireFacts
<1>5. TypeOK
  BY <1>1, <1>3, <1>4 DEF Init, TypeOK, Unit
<1>6. Arrivals /\ Places /\ Buffer
  BY <1>1, <1>4 DEF Init, Arrivals, Places, Buffer, Active, Over
<1>7. Bodies /\ SourceFits /\ Finished /\ Boundary
  BY <1>1 DEF Bodies, SourceFits, Finished, Boundary
<1> QED BY <1>2, <1>5, <1>6, <1>7 DEF IInv

LEMMA NetOK ==
  ASSUME IInv, Arrive \/ PeerCloses
  PROVE  IInv'
<1>1. /\ UNCHANGED <<msgs, wire, c>> /\ (net.early => net'.early)
      /\ net' \in [arrived : 0..Len(wire), fin : BOOLEAN, early : BOOLEAN]
      /\ net.arrived <= net'.arrived
  <2>1. /\ net \in [arrived : 0..Len(wire), fin : BOOLEAN, early : BOOLEAN]
        /\ Len(wire) \in Nat
    BY WireFacts DEF IInv, TypeOK
  <2>2. CASE PeerCloses
    <3>1. net' = [net EXCEPT !.fin = TRUE] /\ UNCHANGED <<msgs, wire, c>>
      BY <2>2 DEF PeerCloses
    <3>2. net'.arrived = net.arrived /\ net'.early = net.early
      BY <2>1, <3>1
    <3>3. net' \in [arrived : 0..Len(wire), fin : BOOLEAN, early : BOOLEAN]
      BY Zenon, <2>1, <3>1
    <3> QED BY <2>1, <3>1, <3>2, <3>3
  <2>3. CASE Arrive
    <3> DEFINE waits == net.arrived + 1 > EndOf(1) /\ c.done = 0
    <3>1. /\ net' = [net EXCEPT !.arrived = net.arrived + 1, !.early = net.early \/ waits]
          /\ net.arrived + 1 <= Len(wire) /\ UNCHANGED <<msgs, wire, c>>
      BY <2>1, <2>3 DEF Arrive
    <3>2. waits \in BOOLEAN /\ net.early \in BOOLEAN /\ (net.early \/ waits) \in BOOLEAN
      BY <2>1
    <3> HIDE DEF waits
    <3>3. net'.arrived = net.arrived + 1 /\ net'.early = (net.early \/ waits)
      BY <2>1, <3>1
    <3>4. net.arrived + 1 \in 0..Len(wire)
      BY <2>1, <3>1
    <3>5. net' \in [arrived : 0..Len(wire), fin : BOOLEAN, early : BOOLEAN]
      BY Zenon, <2>1, <3>1, <3>2, <3>4
    <3> QED BY <2>1, <3>1, <3>2, <3>3, <3>5
  <2> QED BY <2>2, <2>3
<1>2. TypeOK'
  <2>1. c.rd <= net'.arrived
    BY <1>1, WireFacts DEF IInv, TypeOK, Codec
  <2> QED BY <1>1, <2>1 DEF IInv, TypeOK
<1>3. Frames' /\ Places' /\ Buffer' /\ Bodies' /\ SourceFits'
  <2>1. Frames' /\ Places'
    BY <1>1 DEF IInv, Frames, Places, Active, Over, Before, BodyAt, EndOf
  <2>2. Buffer'
    BY <1>1 DEF IInv, Buffer
  <2>3. Bodies' /\ SourceFits'
    BY ZenonT(30), <1>1 DEF IInv, Bodies, SourceFits, Owes, Active, Moved, Start, Before,
                            BodyAt, EndOf
  <2> QED BY <2>1, <2>2, <2>3
<1>4. Finished' /\ Boundary'
  BY Zenon, <1>1 DEF IInv, Finished, Ends, GivenUp, Boundary, Moved, Start, Before, BodyAt, EndOf
<1>5. Arrivals'
  <2>1. EndOf(1)' = EndOf(1) /\ EndOf(1) \in Nat
    BY <1>1, SamePlaces, WireFacts DEF IInv
  <2>2. CASE PeerCloses
    BY <1>1, <2>1, <2>2 DEF PeerCloses, IInv, TypeOK, Arrivals
  <2>3. CASE Arrive
    <3>1. /\ net'.arrived = net.arrived + 1
          /\ net'.early <=> net.early \/ (net.arrived + 1 > EndOf(1) /\ c.done = 0)
      BY Zenon, <2>3 DEF Arrive, IInv, TypeOK
    <3>2. net.arrived \in Nat
      BY WireFacts DEF IInv, TypeOK
    <3> QED BY <1>1, <2>1, <2>3, <3>1, <3>2 DEF Arrive, Arrivals
  <2> QED BY <2>2, <2>3
<1> QED BY <1>2, <1>3, <1>4, <1>5 DEF IInv

(* A step of the codec that stays with its message. *)
SameMessage ==
  /\ UNCHANGED <<msgs, wire, net>> /\ c' \in Codec
  /\ c'.role = c.role /\ c'.from = c.from /\ c'.msg = c.msg /\ c'.hd = c.hd
  /\ c'.keep = c.keep /\ c.rd <= c'.rd /\ c'.rd <= net.arrived /\ (c.cut => c'.cut)

LEMMA SameMessageFacts ==
  ASSUME IInv, SameMessage
  PROVE  /\ TypeOK' /\ Frames' /\ c.rd \in Nat /\ c'.rd \in Nat /\ c.hd \in Nat
         /\ c.from \in Nat /\ net.arrived \in Nat
         /\ \A i \in 1..2 : /\ Before(i)' = Before(i) /\ BodyAt(i)' = BodyAt(i)
                            /\ EndOf(i)' = EndOf(i) /\ Start(i)' = Start(i)
<1>1. c \in Codec /\ c' \in Codec /\ net.arrived \in Nat
  BY WireFacts DEF IInv, TypeOK, SameMessage
<1>2. TypeOK' /\ Frames'
  BY DEF IInv, TypeOK, Frames, SameMessage
<1>3. \A i \in 1..2 : /\ Before(i)' = Before(i) /\ BodyAt(i)' = BodyAt(i)
                      /\ EndOf(i)' = EndOf(i)
  BY SamePlaces DEF SameMessage
<1>4. \A i \in 1..2 : Start(i)' = Start(i)
  BY <1>3 DEF SameMessage, Start
<1> QED BY <1>1, <1>2, <1>3, <1>4 DEF Codec

LEMMA FailOK ==
  ASSUME IInv, SameMessage, c'.st = "failed", c'.done = c.done,
         c'.out = c.out, c'.chunk = c.chunk
  PROVE  IInv'
<1>1. /\ TypeOK' /\ Frames' /\ c.rd \in Nat /\ c'.rd \in Nat /\ c.from \in Nat
      /\ \A i \in 1..2 : /\ Before(i)' = Before(i) /\ BodyAt(i)' = BodyAt(i)
                         /\ EndOf(i)' = EndOf(i) /\ Start(i)' = Start(i)
  BY SameMessageFacts
<1>2. Moved' = Moved
  BY DEF Moved
<1>3. Arrivals' /\ Places' /\ Buffer'
  BY <1>1 DEF IInv, SameMessage, Arrivals, Places, Buffer, Active, Over
<1>4. Bodies'
  BY <1>1, <1>2 DEF IInv, SameMessage, Bodies
<1>5. SourceFits' /\ Finished' /\ Boundary'
  BY <1>1 DEF IInv, SameMessage, SourceFits, Finished, Boundary, Active
<1> QED BY <1>1, <1>3, <1>4, <1>5 DEF IInv

-----------------------------------------------------------------------------
(* Steps within a message, by what they do to the units forwarded *)

(* What has arrived while a message is read is not yet part of the next    *)
(* one, unless a client did not wait.                                      *)
LEMMA Within ==
  ASSUME IInv, Active, NEW i \in 1..2, c.msg = i,
         c.role = "response" \/ ~net.early \/ msgs[i].framing = "close"
  PROVE  net.arrived <= EndOf(i)
<1>1. CASE i = 1
  <2>1. c.done = 0
    <3>1. c.from = 0
      BY <1>1, WireFacts DEF IInv, Places
    <3> QED BY <3>1 DEF IInv, Places, Active, Over
  <2> QED BY <1>1, <2>1 DEF IInv, Arrivals
<1>2. CASE i = 2
  BY <1>2, WireFacts DEF IInv, TypeOK
<1> QED BY <1>1, <1>2

LEMMA QuietOK ==
  ASSUME IInv, SameMessage, Active, c'.st \in {"pump", "write"}, c.src.kind # "none",
         c'.done = c.done, Moved' = Moved, Buffer', c'.src.kind = c.src.kind,
         c.src.kind # "chunked" =>
           c'.rd = c.rd /\ c'.src.rem = c.src.rem /\ c'.src.pos = c.src.pos
  PROVE  IInv'
<1>1. /\ TypeOK' /\ Frames' /\ c.rd \in Nat /\ c'.rd \in Nat /\ c.from \in Nat
      /\ c.hd \in Nat
      /\ \A i \in 1..2 : /\ Before(i)' = Before(i) /\ BodyAt(i)' = BodyAt(i)
                         /\ EndOf(i)' = EndOf(i) /\ Start(i)' = Start(i)
  BY SameMessageFacts
<1>2. Moved' \in Seq(Nat) /\ \A j \in 1..Len(Moved') : Moved'[j] \in Nat
  BY MovedType DEF IInv
<1>3. Arrivals' /\ Places'
  BY <1>1 DEF IInv, SameMessage, Arrivals, Places, Active, Over
<1>4. Bodies'
  BY <1>1 DEF IInv, SameMessage, Bodies
<1>5. SourceFits'
  <2> SUFFICES ASSUME NEW i \in 1..2, c.msg = i PROVE Owes(i)'
    BY DEF SourceFits, SameMessage
  <2>1. Owes(i)
    BY DEF IInv, SourceFits
  <2>2. CASE c.src.kind # "chunked"
    BY <1>1, <2>1, <2>2 DEF SameMessage, Owes
  <2>3. CASE c.src.kind = "chunked"
    BY <1>1, <1>2, <2>1, <2>3 DEF SameMessage, Owes
  <2> QED BY <2>2, <2>3
<1>6. Finished' /\ Boundary'
  BY <1>1 DEF IInv, SameMessage, Finished, Boundary
<1> QED BY <1>1, <1>3, <1>4, <1>5, <1>6 DEF IInv

LEMMA EndOK ==
  ASSUME IInv, SameMessage, Active, c'.st = "ended", c'.done = c.done + 1,
         c.chunk = << >>, c'.chunk = c.chunk, c'.out = c.out,
         \A i \in 1..2 : c.msg = i =>
           /\ msgs[i].framing = "length" => Start(i) + Len(Moved) = EndOf(i)
           /\ msgs[i].framing \in {"length", "bare"} => c'.rd >= EndOf(i)
  PROVE  IInv'
<1>1. /\ TypeOK' /\ Frames' /\ c.rd \in Nat /\ c'.rd \in Nat /\ c.from \in Nat
      /\ c.hd \in Nat /\ net.arrived \in Nat
      /\ \A i \in 1..2 : /\ Before(i)' = Before(i) /\ BodyAt(i)' = BodyAt(i)
                         /\ EndOf(i)' = EndOf(i) /\ Start(i)' = Start(i)
  BY SameMessageFacts
<1>2. Moved' = Moved
  BY DEF Moved
<1>3. c.done \in Nat
  BY DEF IInv, TypeOK, Codec
<1>4. Arrivals' /\ Places' /\ Buffer'
  BY <1>1, <1>3 DEF IInv, SameMessage, Arrivals, Places, Buffer, Active, Over
<1>5. Bodies'
  BY <1>1, <1>2 DEF IInv, SameMessage, Bodies
<1>6. SourceFits' /\ Boundary'
  BY <1>1 DEF IInv, SameMessage, SourceFits, Boundary, Active
<1>7. Finished'
  <2> SUFFICES ASSUME NEW i \in 1..2, c.msg = i PROVE Ends(i)'
    BY DEF Finished, SameMessage
  <2>1. ~net.early => c'.rd <= EndOf(i)
    <3>1. ~net.early => net.arrived <= EndOf(i)
      BY Within
    <3>2. EndOf(i) \in Nat
      BY WireFacts DEF IInv
    <3> QED BY <1>1, <3>1, <3>2 DEF SameMessage
  <2> QED BY <1>1, <1>2, <2>1 DEF Ends, SameMessage
<1> QED BY <1>1, <1>4, <1>5, <1>6, <1>7 DEF IInv

(* The message is given up, and the flag says whether all of it was read. *)
LEMMA DropOK ==
  ASSUME IInv, SameMessage, Active, c'.st = "dropped", c'.done = c.done + 1,
         c'.chunk = << >>, c'.out = << >>,
         \A i \in 1..2 : c.msg = i /\ ~c'.cut => ~(c'.rd < EndOf(i))
  PROVE  IInv'
<1>1. /\ TypeOK' /\ Frames' /\ c.rd \in Nat /\ c'.rd \in Nat /\ c.from \in Nat
      /\ c.hd \in Nat /\ net.arrived \in Nat
      /\ \A i \in 1..2 : /\ Before(i)' = Before(i) /\ BodyAt(i)' = BodyAt(i)
                         /\ EndOf(i)' = EndOf(i) /\ Start(i)' = Start(i)
  BY SameMessageFacts
<1>2. Len(Moved') = 0 /\ Moved' = << >>
  BY DEF Moved
<1>3. c.done \in Nat
  BY DEF IInv, TypeOK, Codec
<1>4. Arrivals' /\ Places' /\ Buffer'
  BY <1>1, <1>3 DEF IInv, SameMessage, Arrivals, Places, Buffer, Active, Over
<1>5. Bodies'
  <2> SUFFICES ASSUME NEW i \in 1..2, c.msg = i, msgs[i].framing \in {"length", "close"}
               PROVE  /\ << >> = Span(Start(i), 0) /\ Start(i) + 0 <= EndOf(i)
    BY <1>1, <1>2 DEF SameMessage, Bodies
  <2>1. Start(i) + Len(Moved) <= EndOf(i) /\ Len(Moved) \in Nat
    BY MovedType DEF IInv, Bodies
  <2>2. Start(i) \in Nat /\ EndOf(i) \in Nat
    BY <1>1, WireFacts DEF IInv, Start
  <2> QED BY <2>1, <2>2, SpanEmpty
<1>6. SourceFits' /\ Boundary'
  BY <1>1 DEF IInv, SameMessage, SourceFits, Boundary, Active
<1>7. Finished'
  <2> SUFFICES ASSUME NEW i \in 1..2, c.msg = i PROVE GivenUp(i)'
    BY DEF Finished, SameMessage
  <2>1. EndOf(i) \in Nat
    BY WireFacts DEF IInv
  <2>2. ~net.early => net.arrived <= EndOf(i)
    BY Within
  <2> QED BY <1>1, <2>1, <2>2 DEF GivenUp, SameMessage
<1> QED BY <1>1, <1>4, <1>5, <1>6, <1>7 DEF IInv

(* The source hands k units after position a to the pump. *)
LEMMA MoveOK ==
  ASSUME IInv, SameMessage, c.st = "pump", c.chunk = << >>, c.src.kind # "none",
         NEW a \in Nat, NEW k \in Nat, c'.chunk = Span(a, k), c'.out = c.out,
         c'.done = c.done, c'.src.kind = c.src.kind,
         \/ c'.st = "write"
         \/ c'.st = "pump" /\ c.src.kind = "chunked" /\ c'.src.step = "crlf",
         c.src.kind = "buffer" => /\ a = c.src.pos /\ k <= c.src.rem /\ c'.rd = c.rd
                                  /\ c'.src.pos = c.src.pos + k,
         c.src.kind # "buffer" => a = c.rd /\ c'.rd = c.rd + k,
         c.src.kind = "stream" => k <= c.src.rem,
         c.src.kind \in {"buffer", "stream"} => c'.src.rem = c.src.rem - k
  PROVE  IInv'
<1>1. /\ TypeOK' /\ Frames' /\ c.rd \in Nat /\ c'.rd \in Nat /\ c.from \in Nat
      /\ c.hd \in Nat /\ net.arrived \in Nat
      /\ \A i \in 1..2 : /\ Before(i)' = Before(i) /\ BodyAt(i)' = BodyAt(i)
                         /\ EndOf(i)' = EndOf(i) /\ Start(i)' = Start(i)
  BY SameMessageFacts
<1> DEFINE n == Len(Moved)
<1>2. /\ Moved \in Seq(Nat) /\ n \in Nat /\ Moved = c.out
      /\ \A j \in 1..n : Moved[j] \in Nat
  BY MovedType DEF IInv
<1>3. /\ Span(a, k) \in Seq(Nat) /\ Len(Span(a, k)) = k
      /\ \A j \in 1..k : Span(a, k)[j] = a + j
  BY SpanFacts
<1>4. Moved' = Moved \o Span(a, k)
  BY <1>2 DEF Moved
<1>5. /\ Moved' \in Seq(Nat) /\ Len(Moved') = n + k
      /\ \A j \in 1..n : Moved'[j] = Moved[j]
      /\ \A j \in n + 1..n + k : Moved'[j] = a + (j - n)
  <2>1. /\ Moved \o Span(a, k) \in Seq(Nat)
        /\ Len(Moved \o Span(a, k)) = n + k
        /\ \A j \in 1..(n + k) : (Moved \o Span(a, k))[j]
             = IF j <= n THEN Moved[j] ELSE Span(a, k)[j - n]
    <3> DEFINE t == Span(a, k)
    <3>1. Moved \in Seq(Nat) /\ t \in Seq(Nat) /\ Len(t) = k /\ Len(Moved) = n
      BY <1>2, <1>3
    <3> HIDE DEF t, n
    <3>2. /\ Moved \o t \in Seq(Nat)
          /\ Len(Moved \o t) = Len(Moved) + Len(t)
          /\ \A j \in 1..(Len(Moved) + Len(t)) : (Moved \o t)[j]
               = IF j <= Len(Moved) THEN Moved[j] ELSE t[j - Len(Moved)]
      BY Zenon, <3>1, ConcatProperties
    <3> QED BY <3>1, <3>2 DEF t
  <2>2. \A j \in 1..n : Moved'[j] = Moved[j]
    BY <1>2, <1>4, <2>1
  <2>3. ASSUME NEW j \in n + 1..n + k PROVE Moved'[j] = a + (j - n)
    <3>1. j \in 1..(n + k) /\ ~(j <= n) /\ j - n \in 1..k
      BY <1>2
    <3> QED BY <1>3, <1>4, <2>1, <3>1
  <2> QED BY <1>4, <2>1, <2>2, <2>3
<1> HIDE DEF n
<1>6. Arrivals' /\ Places' /\ Buffer'
  BY SMTT(20), <1>1 DEF IInv, SameMessage, Arrivals, Places, Buffer, Active, Over
<1>7. Finished' /\ Boundary'
  BY SMTT(20), <1>1 DEF IInv, SameMessage, Finished, Boundary
(* What is handed over follows what was forwarded. *)
<1>8. ASSUME NEW i \in 1..2, c.msg = i
      PROVE  /\ Owes(i)'
             /\ msgs[i].framing = "bare" => FALSE
             /\ msgs[i].framing \in {"length", "close"} =>
                  Moved' = Span(Start(i), n + k) /\ Start(i) + (n + k) <= EndOf(i)
             /\ msgs[i].framing = "chunked" =>
                  /\ \A j \in 1..(n + k) : BodyAt(i) < Moved'[j] /\ Moved'[j] <= EndOf(i)
                  /\ \A j, l \in 1..(n + k) : j < l => Moved'[j] < Moved'[l]
  <2>1. /\ Owes(i) /\ c.src \in Source /\ c.src.rem \in Nat /\ c.src.pos \in Nat
        /\ c.src.kind \in {"buffer", "stream", "eof", "chunked"}
        /\ BodyAt(i) \in Nat /\ EndOf(i) \in Nat /\ BodyAt(i) <= c.hd /\ c.hd <= c.rd
        /\ c'.rd <= net.arrived
    <3>1. c.src \in Source
      BY DEF IInv, TypeOK, Codec
    <3>2. Owes(i) /\ BodyAt(i) <= c.hd /\ c.hd <= c.rd
      BY <1>8 DEF IInv, SourceFits, Places, Active
    <3>3. BodyAt(i) \in Nat /\ EndOf(i) \in Nat
      BY WireFacts DEF IInv
    <3> QED BY <3>1, <3>2, <3>3 DEF Source, SameMessage
  <2>2. ASSUME msgs[i].framing \in {"length", "close"}, Start(i) \in Nat,
               a = Start(i) + n
        PROVE  Moved' = Span(Start(i), n + k)
    <3>1. Moved = Span(Start(i), n)
      BY <1>8, <2>2 DEF IInv, Bodies, n
    <3>2. Moved' = Span(Start(i), n) \o Span(Start(i) + n, k)
      BY <1>4, <3>1, <2>2
    <3> QED BY Zenon, <1>2, <2>2, <3>2, SpanJoin
  <2>3. CASE c.src.kind = "buffer"
    <3>1. /\ msgs[i].framing = "length" /\ c.hd >= EndOf(i) /\ Start(i) = BodyAt(i)
          /\ a = BodyAt(i) + n /\ a + c.src.rem = EndOf(i)
      BY Zenon, <2>1, <2>3 DEF Owes, Start, n
    <3>2. BodyAt(i) + (n + k) <= EndOf(i) /\ c'.src.pos = BodyAt(i) + (n + k)
          /\ c'.src.pos + c'.src.rem = EndOf(i)
      <4>1. /\ (BodyAt(i) + n) + c.src.rem = EndOf(i) /\ k <= c.src.rem
            /\ n \in Nat /\ BodyAt(i) \in Nat /\ EndOf(i) \in Nat /\ c.src.rem \in Nat
            /\ k \in Nat
        BY <1>2, <2>1, <2>3, <3>1
      <4>2. \A h \in Nat : (h + n) + k = h + (n + k)
        BY <4>1
      <4>3. \A r, e \in Nat : a + r = e /\ k <= r => a + k <= e /\ (a + k) + (r - k) = e
        OBVIOUS
      <4>4. BodyAt(i) + (n + k) = a + k
        BY Zenon, <3>1, <4>1, <4>2
      <4>5. a + k <= EndOf(i) /\ (a + k) + (c.src.rem - k) = EndOf(i)
        BY Zenon, <3>1, <4>1, <4>3
      <4>6. c'.src.pos = a + k /\ c'.src.rem = c.src.rem - k
        BY <2>3, <3>1
      <4> QED BY Zenon, <4>4, <4>5, <4>6
    <3>3. Owes(i)'
      BY <1>1, <1>5, <2>3, <3>1, <3>2 DEF Owes, SameMessage
    <3> QED BY <2>1, <2>2, <3>1, <3>2, <3>3
  <2>4. CASE c.src.kind = "stream"
    <3>1. /\ msgs[i].framing = "length" /\ c.hd < EndOf(i) /\ Start(i) = c.hd
          /\ a = c.hd + n /\ a + c.src.rem = EndOf(i)
      <4>1. /\ msgs[i].framing = "length" /\ c.hd < EndOf(i)
            /\ a = c.hd + n /\ a + c.src.rem = EndOf(i)
        BY SMTT(20), <2>1, <2>4 DEF Owes, n
      <4>2. ~(c.hd >= EndOf(i))
        BY <1>1, <2>1, <4>1
      <4> QED BY SMTT(20), <4>1, <4>2 DEF Start
    <3>2. /\ c.hd + (n + k) <= EndOf(i) /\ c'.rd = c.hd + (n + k)
          /\ c'.rd + c'.src.rem = EndOf(i)
      <4>1. /\ (c.hd + n) + c.src.rem = EndOf(i) /\ k <= c.src.rem
            /\ n \in Nat /\ c.hd \in Nat /\ EndOf(i) \in Nat /\ c.src.rem \in Nat
        BY SMTT(20), <1>1, <1>2, <2>1, <2>4, <3>1
      <4>2. \A h \in Nat : a = h + n => h + (n + k) = a + k
        BY <4>1
      <4>3. c.hd + (n + k) = a + k
        BY <3>1, <4>1, <4>2
      <4>4. \A r, e \in Nat : a + r = e /\ k <= r => a + k <= e /\ (a + k) + (r - k) = e
        OBVIOUS
      <4>5. a + k <= EndOf(i) /\ (a + k) + (c.src.rem - k) = EndOf(i)
        BY Zenon, <3>1, <4>1, <4>4
      <4>6. c'.rd = a + k /\ c'.src.rem = c.src.rem - k
        BY <2>4, <3>1
      <4> QED BY SMTT(20), <4>3, <4>5, <4>6
    <3>3. Owes(i)'
      BY SMTT(20), <1>1, <1>5, <2>4, <3>1, <3>2 DEF Owes, SameMessage
    <3> QED BY <1>1, <2>2, <3>1, <3>2, <3>3
  <2>5. CASE c.src.kind = "eof"
    <3>1. msgs[i].framing = "close" /\ Start(i) = c.hd /\ a = c.hd + n
      BY <2>1, <2>5 DEF Owes, Start, n
    <3>2. net.arrived <= EndOf(i)
      BY <1>8, <3>1, Within DEF Active
    <3>3. c.hd + (n + k) <= EndOf(i) /\ c'.rd = c.hd + (n + k)
      <4>1. c'.rd = (c.hd + n) + k /\ c'.rd <= net.arrived
        BY SMTT(20), <2>1, <2>5, <3>1
      <4>2. c.hd \in Nat /\ n \in Nat /\ net.arrived \in Nat /\ EndOf(i) \in Nat
        BY <1>1, <1>2, <2>1
      <4>3. (c.hd + n) + k = c.hd + (n + k)
        BY SMTT(20), <4>2
      <4> QED BY <3>2, <4>1, <4>2, <4>3
    <3>4. Owes(i)'
      BY SMTT(20), <1>1, <1>5, <2>5, <3>1, <3>3 DEF Owes, SameMessage
    <3> QED BY SMTT(20), <1>1, <2>2, <3>1, <3>3, <3>4
  <2>6. CASE c.src.kind = "chunked"
    <3>1. /\ msgs[i].framing = "chunked" /\ c.role = "response" /\ a = c.rd
          /\ \A j \in 1..n : Moved[j] <= c.rd
      BY SMTT(20), <2>1, <2>6 DEF Owes, n
    <3>2. net.arrived <= EndOf(i)
      BY <1>8, <3>1, Within DEF Active
    <3>3. /\ \A j \in 1..n : BodyAt(i) < Moved[j] /\ Moved[j] <= EndOf(i)
          /\ \A j, l \in 1..n : j < l => Moved[j] < Moved[l]
      BY <1>8, <3>1 DEF IInv, Bodies, n
    <3>4. ASSUME NEW j \in n + 1..n + k
          PROVE  /\ Moved'[j] \in Nat /\ c.rd < Moved'[j] /\ Moved'[j] <= c'.rd
                 /\ \A l \in n + 1..n + k : j < l => Moved'[j] < Moved'[l]
      <4>1. /\ n \in Nat /\ c.rd \in Nat /\ c'.rd = c.rd + k
            /\ \A l \in n + 1..n + k : Moved'[l] = c.rd + (l - n)
        BY <1>1, <1>2, <1>5, <2>6, <3>1
      <4>2. Moved'[j] = c.rd + (j - n) /\ j - n \in 1..k
        BY <4>1
      <4>3. ASSUME NEW l \in n + 1..n + k, j < l PROVE Moved'[j] < Moved'[l]
        <5>1. Moved'[l] = c.rd + (l - n) /\ l - n \in 1..k /\ j - n < l - n
          BY <4>1, <4>3
        <5> QED BY <4>1, <4>2, <5>1
      <4> QED BY <4>1, <4>2, <4>3
    <3>5. ASSUME NEW j \in 1..(n + k)
          PROVE  BodyAt(i) < Moved'[j] /\ Moved'[j] <= EndOf(i) /\ Moved'[j] <= c'.rd
      <4>1. CASE j <= n
        <5>1. j \in 1..n
          BY <1>2, <4>1
        <5>2. /\ Moved'[j] = Moved[j] /\ Moved[j] \in Nat /\ Moved[j] <= c.rd
              /\ BodyAt(i) < Moved[j] /\ Moved[j] <= EndOf(i)
          BY <1>2, <1>5, <3>1, <3>3, <5>1
        <5>3. c.rd <= c'.rd /\ c.rd \in Nat /\ c'.rd \in Nat
          BY <1>1 DEF SameMessage
        <5> QED BY <5>2, <5>3
      <4>2. CASE ~(j <= n)
        <5>1. j \in n + 1..n + k
          BY <1>2, <4>2
        <5>2. /\ Moved'[j] \in Nat /\ c.rd < Moved'[j] /\ Moved'[j] <= c'.rd
          BY <3>4, <5>1
        <5>3. /\ c.rd \in Nat /\ c'.rd \in Nat /\ c'.rd <= net.arrived
              /\ net.arrived \in Nat /\ EndOf(i) \in Nat /\ BodyAt(i) \in Nat
              /\ c.hd \in Nat /\ BodyAt(i) <= c.hd /\ c.hd <= c.rd
          BY <1>1, <2>1
        <5> QED BY SMTT(20), <3>2, <5>2, <5>3
      <4> QED BY <4>1, <4>2
    <3>6. ASSUME NEW j \in 1..(n + k), NEW l \in 1..(n + k), j < l
          PROVE  Moved'[j] < Moved'[l]
      <4>1. CASE l <= n
        <5>1. j \in 1..n /\ l \in 1..n
          BY <1>2, <3>6, <4>1
        <5> QED BY Zenon, <1>5, <3>3, <3>6, <5>1
      <4>2. CASE j <= n /\ ~(l <= n)
        <5>1. j \in 1..n /\ l \in n + 1..n + k
          BY <1>2, <4>2
        <5>2. /\ Moved'[j] = Moved[j] /\ Moved[j] \in Nat /\ Moved[j] <= c.rd
              /\ Moved'[l] \in Nat /\ c.rd < Moved'[l] /\ c.rd \in Nat
          BY Zenon, <1>1, <1>2, <1>5, <3>1, <3>4, <5>1
        <5> QED BY <5>2
      <4>3. CASE ~(j <= n)
        <5>1. j \in n + 1..n + k /\ l \in n + 1..n + k
          BY <1>2, <3>6, <4>3
        <5> QED BY <3>4, <3>6, <5>1
      <4> QED BY <1>2, <4>1, <4>2, <4>3
    <3>7. Owes(i)'
      BY <1>5, <2>6, <3>1, <3>5 DEF Owes, SameMessage
    <3> QED BY SMTT(20), <3>1, <3>5, <3>6, <3>7
  <2> QED BY SMTT(20), <2>1, <2>3, <2>4, <2>5, <2>6
<1>9. SourceFits'
  BY <1>8 DEF SourceFits, SameMessage
<1>10. Bodies'
  BY <1>1, <1>5, <1>8 DEF Bodies, SameMessage
<1> QED BY <1>1, <1>6, <1>7, <1>9, <1>10 DEF IInv

-----------------------------------------------------------------------------
(* The steps within a message *)

LEMMA CodecFields ==
  ASSUME TypeOK
  PROVE  /\ c \in Codec /\ c.src \in Source /\ c.rd \in Nat /\ c.from \in Nat
         /\ c.hd \in Nat /\ c.done \in Nat /\ c.out \in Seq(Nat) /\ c.chunk \in Seq(Nat)
         /\ c.src.rem \in Nat /\ c.src.pos \in Nat /\ c.src.skip \in Nat
         /\ c.rd <= net.arrived
<1>1. c \in Codec /\ c.rd <= net.arrived
  BY DEF TypeOK
<1>2. c.src \in Source
  BY <1>1 DEF Codec
<1> QED BY <1>1, <1>2 DEF Codec, Source

(* What a step of a source does to the codec. *)
Becomes(st, rd, src, chunk, out) ==
  /\ c' = [c EXCEPT !.st = st, !.rd = rd, !.src = src, !.chunk = chunk, !.out = out]
  /\ UNCHANGED <<msgs, wire, net>>

LEMMA BecomesFacts ==
  ASSUME TypeOK, NEW st \in {"parse", "head", "pump", "write", "ended", "dropped", "failed"},
         NEW rd \in Nat, NEW src \in Source, NEW chunk \in Seq(Nat), NEW out \in Seq(Nat),
         Becomes(st, rd, src, chunk, out), c.rd <= rd, rd <= net.arrived
  PROVE  /\ SameMessage /\ c'.st = st /\ c'.rd = rd /\ c'.src = src /\ c'.chunk = chunk
         /\ c'.out = out /\ c'.done = c.done
<1>1. /\ c' \in Codec /\ c'.st = st /\ c'.rd = rd /\ c'.src = src /\ c'.chunk = chunk
      /\ c'.out = out /\ c'.role = c.role /\ c'.from = c.from /\ c'.msg = c.msg
      /\ c'.hd = c.hd /\ c'.keep = c.keep /\ c'.done = c.done /\ c'.cut = c.cut
  <2>1. c \in Codec
    BY DEF TypeOK
  <2>2. c' = [c EXCEPT !.st = st, !.rd = rd, !.src = src, !.chunk = chunk, !.out = out]
    BY DEF Becomes
  <2>3. c' \in Codec
    BY Zenon, <2>1, <2>2 DEF Codec
  <2> QED BY <2>1, <2>2, <2>3 DEF Codec
<1> QED BY <1>1 DEF SameMessage, Becomes

LEMMA FailsOK ==
  ASSUME IInv, c' = Fail(c), UNCHANGED <<msgs, wire, net>>
  PROVE  IInv'
<1>1. c \in Codec /\ c.rd \in Nat /\ c.rd <= net.arrived
  BY CodecFields DEF IInv
<1>2. c'.st = "failed" /\ c'.done = c.done /\ c'.out = c.out /\ c'.chunk = c.chunk
  BY <1>1 DEF Fail, Codec
<1>3. c' \in Codec
  BY Zenon, <1>1 DEF Fail, Codec
<1>4. SameMessage
  BY <1>1, <1>3 DEF Fail, SameMessage, Codec
<1> QED BY <1>2, <1>4, FailOK

(* The message is given up, n units after the last read. *)
LEMMA DropsOK ==
  ASSUME IInv, Active, NEW n \in Nat, c.rd + n <= net.arrived,
         c' = Drop([c EXCEPT !.rd = @ + n]), UNCHANGED <<msgs, wire, net>>
  PROVE  IInv'
<1> DEFINE x == [c EXCEPT !.rd = @ + n]
           cut == x.cut \/ (x.msg \in 1..2 /\ x.rd < EndOf(x.msg))
           z == << >>
<1>1. /\ c \in Codec /\ c.rd \in Nat /\ c.rd + n \in Nat /\ c.rd <= c.rd + n
      /\ c.done + 1 \in Nat /\ c.cut \in BOOLEAN
  BY CodecFields DEF IInv, Codec
<1>2. /\ x \in Codec /\ x.rd = c.rd + n /\ x.msg = c.msg /\ x.cut = c.cut
      /\ x.done = c.done /\ x.role = c.role /\ x.from = c.from /\ x.hd = c.hd
      /\ x.keep = c.keep
  <2>1. x \in Codec
    BY Zenon, <1>1 DEF Codec
  <2> QED BY <1>1, <2>1 DEF Codec
<1>3. NoSource \in Source /\ z \in Seq(Nat)
  BY DEF NoSource, Source
<1>4. c' = [x EXCEPT !.st = "dropped", !.done = x.done + 1, !.src = NoSource,
                     !.chunk = z, !.out = z, !.cut = cut]
  BY Zenon DEF Drop
<1>5. cut \in BOOLEAN /\ (c.cut => cut)
      /\ (\A i \in 1..2 : c.msg = i /\ ~cut => ~(c.rd + n < EndOf(i)))
  BY <1>1, <1>2
<1> HIDE DEF x, cut, z
<1>6. x.done + 1 \in Nat
  BY <1>1, <1>2
<1>7. c' \in Codec
  BY Zenon, <1>2, <1>3, <1>4, <1>5, <1>6 DEF Codec
<1>8. /\ c'.st = "dropped" /\ c'.done = c.done + 1 /\ c'.chunk = z /\ c'.out = z
      /\ c'.cut = cut /\ c'.rd = c.rd + n /\ c'.role = c.role /\ c'.from = c.from
      /\ c'.msg = c.msg /\ c'.hd = c.hd /\ c'.keep = c.keep
  BY <1>2, <1>4 DEF Codec
<1>9. SameMessage
  BY Zenon, <1>1, <1>5, <1>7, <1>8 DEF SameMessage
<1>10. c'.chunk = << >> /\ c'.out = << >>
  BY <1>8 DEF z
<1> QED BY Zenon, <1>5, <1>8, <1>9, <1>10, DropOK

LEMMA DropsHereOK ==
  ASSUME IInv, Active, c' = Drop(c), UNCHANGED <<msgs, wire, net>>
  PROVE  IInv'
<1>1. c \in Codec /\ c.rd \in Nat /\ c.rd <= net.arrived
  BY CodecFields DEF IInv
<1>2. c.rd + 0 = c.rd /\ c = [c EXCEPT !.rd = @ + 0]
  BY <1>1 DEF Codec
<1> QED BY <1>1, <1>2, DropsOK

LEMMA EndsOK ==
  ASSUME IInv, Active, c' = End(c), UNCHANGED <<msgs, wire, net>>, c.chunk = << >>,
         \A i \in 1..2 : c.msg = i =>
           /\ msgs[i].framing = "length" => Start(i) + Len(Moved) = EndOf(i)
           /\ msgs[i].framing \in {"length", "bare"} => c.rd >= EndOf(i)
  PROVE  IInv'
<1>1. c \in Codec /\ c.rd \in Nat /\ c.rd <= net.arrived /\ c.done + 1 \in Nat
  BY CodecFields DEF IInv
<1>2. /\ c'.st = "ended" /\ c'.done = c.done + 1 /\ c'.out = c.out
      /\ c'.chunk = c.chunk /\ c'.rd = c.rd
  BY <1>1 DEF End, Codec
<1>3. c' \in Codec
  BY Zenon, <1>1 DEF End, Codec
<1>4. SameMessage
  BY <1>1, <1>3 DEF End, SameMessage, Codec
<1> QED BY <1>2, <1>4, EndOK

LEMMA WriteHeadOK ==
  ASSUME IInv, async_write_head PROVE IInv'
<1>1. /\ c \in Codec /\ c.rd \in Nat /\ c.rd <= net.arrived /\ c.hd \in Nat
      /\ c.chunk \in Seq(Nat)
  BY CodecFields DEF IInv
<1>2. c.st = "head" /\ c.chunk = << >> /\ c.out = << >> /\ Active
      /\ UNCHANGED <<msgs, wire, net>>
  BY DEF async_write_head, IInv, Buffer, Active
<1>3. CASE c.src.kind = "none"
  <2>1. c' = End(c)
    BY <1>3 DEF async_write_head
  <2>2. Len(Moved) = 0
    BY <1>2, MovedType DEF IInv
  <2>3. ASSUME NEW i \in 1..2, c.msg = i
        PROVE  /\ msgs[i].framing = "length" => Start(i) + Len(Moved) = EndOf(i)
               /\ msgs[i].framing \in {"length", "bare"} => c.rd >= EndOf(i)
    <3>1. /\ msgs[i].framing = "length" => msgs[i].len = 0
          /\ BodyAt(i) <= c.hd /\ c.hd <= c.rd
      BY <1>2, <1>3, <2>3 DEF IInv, SourceFits, Owes, Places
    <3>2. BodyAt(i) \in Nat /\ EndOf(i) \in Nat
      BY WireFacts DEF IInv
    <3>3. msgs[i].framing \in {"length", "bare"} => EndOf(i) = BodyAt(i)
      BY <3>1, <3>2, WireFacts DEF IInv
    <3> QED BY SMTT(20), <1>1, <2>2, <3>1, <3>2, <3>3 DEF Start
  <2> QED BY <1>2, <2>1, <2>3, EndsOK
<1>4. CASE c.src.kind # "none"
  <2>1. c' = [c EXCEPT !.st = "pump"]
    BY <1>4 DEF async_write_head
  <2>2. SameMessage /\ c'.st = "pump" /\ c'.done = c.done /\ c'.out = c.out
        /\ c'.chunk = c.chunk /\ c'.src = c.src /\ c'.rd = c.rd
    <3>1. c' \in Codec
      BY Zenon, <1>1, <2>1 DEF Codec
    <3> QED BY <1>1, <1>2, <2>1, <3>1 DEF SameMessage, Codec
  <2>3. Moved' = Moved /\ Buffer'
    BY <1>2, <1>4, <2>2 DEF Moved, Buffer
  <2> QED BY <1>2, <1>4, <2>2, <2>3, QuietOK
<1> QED BY <1>3, <1>4

LEMMA PumpWriteOK ==
  ASSUME IInv, PumpWrite PROVE IInv'
<1> DEFINE w == c.out \o c.chunk
           z == << >>
<1>1. /\ c \in Codec /\ c.rd \in Nat /\ c.rd <= net.arrived /\ c.src \in Source
      /\ c.out \in Seq(Nat) /\ c.chunk \in Seq(Nat)
  BY CodecFields DEF IInv
<1>2. /\ c.st = "write" /\ Active /\ c.src.kind # "none" /\ UNCHANGED <<msgs, wire, net>>
      /\ c' = [c EXCEPT !.st = "pump", !.out = w, !.chunk = z]
  BY DEF PumpWrite, IInv, Buffer, Active
<1>3. w \in Seq(Nat) /\ z \in Seq(Nat) /\ w \o z = w
  BY <1>1, ConcatProperties, ConcatEmptySeq
<1>4. w = Moved
  BY DEF Moved
<1> HIDE DEF w
<1>5. Becomes("pump", c.rd, c.src, z, w)
  <2> HIDE DEF z
  <2> QED BY Zenon, <1>1, <1>2 DEF Codec, Becomes
<1>6. TypeOK
  BY DEF IInv
<1>7. /\ SameMessage /\ c'.st = "pump" /\ c'.rd = c.rd /\ c'.src = c.src
      /\ c'.chunk = z /\ c'.out = w /\ c'.done = c.done
  <2> HIDE DEF z
  <2> QED BY <1>1, <1>3, <1>5, <1>6, BecomesFacts
<1>8. Moved' = Moved
  BY <1>3, <1>4, <1>7 DEF Moved
<1>9. Buffer'
  BY <1>2, <1>7 DEF Buffer
<1> QED BY <1>2, <1>7, <1>8, <1>9, QuietOK

(* A read returns at least one unit, and no more than have arrived. *)
LEMMA ReadFacts ==
  ASSUME TypeOK, NEW m \in Nat, NEW n \in Reads(m)
  PROVE  n \in Nat /\ n >= 1 /\ n <= m /\ c.rd + n \in Nat /\ c.rd + n <= net.arrived
<1>1. c.rd \in Nat
  BY CodecFields
<1> QED BY <1>1 DEF Reads

LEMMA LeastFacts ==
  ASSUME NEW m \in Nat
  PROVE  Least(PumpCap, m) \in Nat /\ Least(PumpCap, m) <= m
         /\ (Least(PumpCap, m) = 0 => m = 0)
  BY H1Assumption DEF Least

LEMMA BufferOK ==
  ASSUME IInv, BufferBodySource PROVE IInv'
<1> DEFINE n == Least(PumpCap, c.src.rem)
           s == [c.src EXCEPT !.rem = c.src.rem - n, !.pos = c.src.pos + n]
<1>1. /\ c \in Codec /\ c.src \in Source /\ c.rd \in Nat /\ c.rd <= net.arrived
      /\ c.hd \in Nat /\ c.chunk \in Seq(Nat) /\ c.out \in Seq(Nat)
      /\ c.src.rem \in Nat /\ c.src.pos \in Nat
  BY CodecFields DEF IInv
<1>2. n \in Nat /\ n <= c.src.rem /\ (n = 0 => c.src.rem = 0)
  BY Zenon, <1>1, LeastFacts
<1>3. /\ c.st = "pump" /\ c.src.kind = "buffer" /\ c.chunk = << >> /\ Active
      /\ UNCHANGED <<msgs, wire, net>>
  BY DEF BufferBodySource, IInv, Buffer, Active
<1>4. CASE n = 0
  <2>1. c' = End(c)
    BY <1>4 DEF BufferBodySource
  <2>2. ASSUME NEW i \in 1..2, c.msg = i
        PROVE  Start(i) + Len(Moved) = EndOf(i) /\ c.rd >= EndOf(i)
    <3>1. /\ msgs[i].framing = "length" /\ c.hd >= EndOf(i) /\ c.hd <= c.rd
          /\ c.src.pos = BodyAt(i) + Len(Moved) /\ c.src.pos + c.src.rem = EndOf(i)
      BY <1>3, <2>2 DEF IInv, SourceFits, Owes, Places
    <3>2. BodyAt(i) \in Nat /\ EndOf(i) \in Nat
      BY WireFacts DEF IInv
    <3> QED BY <1>1, <1>2, <1>4, <3>1, <3>2 DEF Start
  <2> QED BY <1>3, <2>1, <2>2, EndsOK
<1>5. CASE n # 0
  <2>1. c' = Hand([c EXCEPT !.src.rem = @ - n, !.src.pos = @ + n], c.src.pos, n)
    BY <1>5 DEF BufferBodySource
  <2>2. c' = [c EXCEPT !.st = "write", !.rd = c.rd, !.src = s,
                       !.chunk = Span(c.src.pos, n), !.out = c.out]
    <3> DEFINE ch == Span(c.src.pos, n)
    <3>1. c' = [[c EXCEPT !.src.rem = @ - n, !.src.pos = @ + n]
                  EXCEPT !.chunk = ch, !.st = "write"]
      BY <2>1 DEF Hand
    <3> HIDE DEF ch, n
    <3>2. c' = [c EXCEPT !.st = "write", !.rd = c.rd, !.src = s, !.chunk = ch,
                         !.out = c.out]
      BY Zenon, <1>1, <3>1 DEF Codec, Source
    <3> QED BY <3>2 DEF ch
  <2>3. s \in Source /\ s.kind = c.src.kind /\ s.rem = c.src.rem - n
        /\ s.pos = c.src.pos + n
    <3> HIDE DEF n
    <3>1. c.src.rem - n \in Nat /\ c.src.pos + n \in Nat
      BY SMTT(20), <1>1, <1>2
    <3> QED BY Zenon, <1>1, <3>1 DEF Source
  <2>4. Span(c.src.pos, n) \in Seq(Nat)
    BY Zenon, <1>1, <1>2, SpanFacts
  <2> HIDE DEF n, s
  <2>5. /\ SameMessage /\ c'.st = "write" /\ c'.rd = c.rd /\ c'.src = s
        /\ c'.chunk = Span(c.src.pos, n) /\ c'.out = c.out /\ c'.done = c.done
    <3>1. Becomes("write", c.rd, s, Span(c.src.pos, n), c.out) /\ TypeOK
      BY <1>3, <2>2 DEF Becomes, IInv
    <3> QED BY <1>1, <2>3, <2>4, <3>1, BecomesFacts
  <2> QED BY <1>1, <1>2, <1>3, <2>3, <2>5, MoveOK
<1> QED BY <1>4, <1>5

(* A read of a source that hands its units to the pump. *)
LEMMA HandOK ==
  ASSUME IInv, c.st = "pump", c.chunk = << >>, c.src.kind \in {"stream", "eof", "chunked"},
         NEW n \in Nat, c.rd + n <= net.arrived, NEW src \in Source,
         src.kind = c.src.kind, NEW st \in {"pump", "write"},
         st = "write" \/ (c.src.kind = "chunked" /\ src.step = "crlf"),
         c.src.kind = "stream" => n <= c.src.rem /\ src.rem = c.src.rem - n,
         Becomes(st, c.rd + n, src, Span(c.rd, n), c.out)
  PROVE  IInv'
<1>1. /\ TypeOK /\ c.rd \in Nat /\ c.out \in Seq(Nat) /\ c.rd + n \in Nat /\ c.rd <= c.rd + n
  <2>1. TypeOK
    BY DEF IInv
  <2> QED BY <2>1, CodecFields
<1>2. Span(c.rd, n) \in Seq(Nat)
  BY Zenon, <1>1, SpanFacts
<1>3. /\ SameMessage /\ c'.st = st /\ c'.rd = c.rd + n /\ c'.src = src
      /\ c'.chunk = Span(c.rd, n) /\ c'.out = c.out /\ c'.done = c.done
  BY <1>1, <1>2, BecomesFacts
<1> QED BY <1>1, <1>3, MoveOK

LEMMA StreamOK ==
  ASSUME IInv, StreamBodySource PROVE IInv'
<1>1. /\ c \in Codec /\ c.src \in Source /\ c.rd \in Nat /\ c.rd <= net.arrived
      /\ c.hd \in Nat /\ c.chunk \in Seq(Nat) /\ c.out \in Seq(Nat)
      /\ c.src.rem \in Nat /\ TypeOK
  BY CodecFields DEF IInv
<1>2. /\ c.st = "pump" /\ c.src.kind = "stream" /\ c.chunk = << >> /\ Active
      /\ UNCHANGED <<msgs, wire, net>>
  BY DEF StreamBodySource, IInv, Buffer, Active
<1>3. CASE c.src.rem = 0 /\ c' = End(c)
  <2>1. ASSUME NEW i \in 1..2, c.msg = i
        PROVE  Start(i) + Len(Moved) = EndOf(i) /\ c.rd >= EndOf(i)
    <3>1. /\ msgs[i].framing = "length" /\ c.hd < EndOf(i)
          /\ c.rd = c.hd + Len(Moved) /\ c.rd + c.src.rem = EndOf(i)
      BY <1>2, <2>1 DEF IInv, SourceFits, Owes
    <3>2. EndOf(i) \in Nat
      BY WireFacts DEF IInv
    <3> QED BY <1>1, <1>3, <3>1, <3>2 DEF Start
  <2> QED BY <1>2, <1>3, <2>1, EndsOK
<1>4. CASE \E n \in Reads(Least(PumpCap, c.src.rem)) :
             c' = Hand(Take([c EXCEPT !.src.rem = @ - n], n), c.rd, n)
  <2>1. PICK n \in Reads(Least(PumpCap, c.src.rem)) :
               c' = Hand(Take([c EXCEPT !.src.rem = @ - n], n), c.rd, n)
    BY <1>4
  <2>2. n \in Nat /\ n <= c.src.rem /\ c.rd + n <= net.arrived
    <3>1. Least(PumpCap, c.src.rem) \in Nat /\ Least(PumpCap, c.src.rem) <= c.src.rem
      BY Zenon, <1>1, LeastFacts
    <3>2. n \in Nat /\ n <= Least(PumpCap, c.src.rem) /\ c.rd + n <= net.arrived
      BY <1>1, <3>1, ReadFacts
    <3> QED BY <1>1, <3>1, <3>2
  <2> DEFINE s == [c.src EXCEPT !.rem = c.src.rem - n]
             ch == Span(c.rd, n)
  <2>3. Becomes("write", c.rd + n, s, ch, c.out)
    <3>1. c' = [[[c EXCEPT !.src.rem = @ - n] EXCEPT !.rd = @ + n]
                  EXCEPT !.chunk = ch, !.st = "write"]
      BY <2>1 DEF Hand, Take
    <3> HIDE DEF ch
    <3> QED BY Zenon, <1>1, <1>2, <3>1 DEF Codec, Source, Becomes
  <2>4. s \in Source /\ s.kind = c.src.kind /\ s.rem = c.src.rem - n
    <3>1. c.src.rem - n \in Nat
      BY <1>1, <2>2
    <3> QED BY Zenon, <1>1, <3>1 DEF Source
  <2> HIDE DEF s
  <2> QED BY <1>2, <2>2, <2>3, <2>4, HandOK
<1>5. CASE c' = Drop(c)
  BY <1>2, <1>5, DropsHereOK
<1> QED BY <1>3, <1>4, <1>5 DEF StreamBodySource

LEMMA EofOK ==
  ASSUME IInv, StreamEofBodySource PROVE IInv'
<1>1. /\ c \in Codec /\ c.src \in Source /\ c.rd \in Nat /\ TypeOK /\ PumpCap \in Nat
  BY CodecFields, H1Assumption DEF IInv
<1>2. /\ c.st = "pump" /\ c.src.kind = "eof" /\ c.chunk = << >> /\ Active
      /\ UNCHANGED <<msgs, wire, net>>
  BY DEF StreamEofBodySource, IInv, Buffer, Active
<1>3. CASE \E n \in Reads(PumpCap) : c' = Hand(Take(c, n), c.rd, n)
  <2>1. PICK n \in Reads(PumpCap) : c' = Hand(Take(c, n), c.rd, n)
    BY <1>3
  <2>2. n \in Nat /\ c.rd + n <= net.arrived
    BY <1>1, ReadFacts
  <2> DEFINE ch == Span(c.rd, n)
  <2>3. Becomes("write", c.rd + n, c.src, ch, c.out)
    <3>1. c' = [[c EXCEPT !.rd = @ + n] EXCEPT !.chunk = ch, !.st = "write"]
      BY <2>1 DEF Hand, Take
    <3> HIDE DEF ch
    <3> QED BY Zenon, <1>1, <1>2, <3>1 DEF Codec, Becomes
  <2> QED BY <1>1, <1>2, <2>2, <2>3, HandOK
<1>4. CASE c' = End(c)
  <2>1. ASSUME NEW i \in 1..2, c.msg = i PROVE msgs[i].framing = "close"
    BY <1>2, <2>1 DEF IInv, SourceFits, Owes
  <2> QED BY <1>2, <1>4, <2>1, EndsOK
<1> QED BY <1>3, <1>4 DEF StreamEofBodySource

(* A step of the chunk decoder that hands nothing to the pump. *)
LEMMA DecodeOK ==
  ASSUME IInv, c.st = "pump", c.src.kind = "chunked", NEW rd \in Nat, c.rd <= rd,
         rd <= net.arrived, NEW src \in Source, src.kind = "chunked",
         NEW st \in {"pump", "write"},
         st = "write" \/ src.step = "crlf" \/ c.chunk = << >>,
         Becomes(st, rd, src, c.chunk, c.out)
  PROVE  IInv'
<1>1. TypeOK /\ c.out \in Seq(Nat) /\ c.chunk \in Seq(Nat) /\ Active
  BY CodecFields DEF IInv, Active
<1>2. /\ SameMessage /\ c'.st = st /\ c'.rd = rd /\ c'.src = src
      /\ c'.chunk = c.chunk /\ c'.out = c.out /\ c'.done = c.done
  BY <1>1, BecomesFacts
<1>3. Moved' = Moved /\ Buffer'
  BY <1>2 DEF Moved, Buffer
<1> QED BY <1>1, <1>2, <1>3, QuietOK

LEMMA PayloadOK ==
  ASSUME IInv, read_chunk_payload PROVE IInv'
<1>1. /\ c \in Codec /\ c.src \in Source /\ c.rd \in Nat /\ TypeOK /\ c.src.rem \in Nat
  BY CodecFields DEF IInv
<1>2. /\ c.st = "pump" /\ c.src.kind = "chunked" /\ c.chunk = << >>
      /\ UNCHANGED <<msgs, wire, net>>
  BY Zenon DEF read_chunk_payload, Decoding, IInv, Buffer
<1>3. ASSUME NEW n \in Reads(Least(PumpCap, c.src.rem)),
             c' = LET x == Take([c EXCEPT !.src.rem = @ - n], n) IN
                  IF n < c.src.rem THEN Hand(x, c.rd, n)
                  ELSE [x EXCEPT !.chunk = Span(c.rd, n), !.src.step = "crlf",
                                 !.src.skip = 2]
      PROVE  IInv'
  <2>1. n \in Nat /\ n <= c.src.rem /\ c.rd + n <= net.arrived
    <3>1. Least(PumpCap, c.src.rem) \in Nat /\ Least(PumpCap, c.src.rem) <= c.src.rem
      BY <1>1, LeastFacts
    <3>2. n \in Nat /\ n <= Least(PumpCap, c.src.rem) /\ c.rd + n <= net.arrived
      BY <1>1, <3>1, ReadFacts
    <3> QED BY <1>1, <3>1, <3>2
  <2>2. c.src.rem - n \in Nat
    BY SMTT(20), <1>1, <2>1
  <2> DEFINE ch == Span(c.rd, n)
  <2>3. CASE n < c.src.rem
    <3> DEFINE s == [c.src EXCEPT !.rem = c.src.rem - n]
    <3>1. Becomes("write", c.rd + n, s, ch, c.out)
      <4>1. c' = [[[c EXCEPT !.src.rem = @ - n] EXCEPT !.rd = @ + n]
                    EXCEPT !.chunk = ch, !.st = "write"]
        BY <1>3, <2>3 DEF Hand, Take
      <4> HIDE DEF ch
      <4> QED BY Zenon, <1>1, <1>2, <4>1 DEF Codec, Source, Becomes
    <3>2. s \in Source /\ s.kind = c.src.kind
      BY <1>1, <2>2 DEF Source
    <3> HIDE DEF s
    <3> QED BY <1>2, <2>1, <3>1, <3>2, HandOK
  <2>4. CASE ~(n < c.src.rem)
    <3> DEFINE s == [c.src EXCEPT !.rem = c.src.rem - n, !.step = "crlf", !.skip = 2]
    <3>1. Becomes("pump", c.rd + n, s, ch, c.out)
      <4>1. c' = [[[c EXCEPT !.src.rem = @ - n] EXCEPT !.rd = @ + n]
                    EXCEPT !.chunk = ch, !.src.step = "crlf", !.src.skip = 2]
        BY <1>3, <2>4 DEF Take
      <4> DEFINE x == [[c EXCEPT !.src.rem = @ - n] EXCEPT !.rd = @ + n]
      <4> HIDE DEF ch
      <4>2. x = [c EXCEPT !.rd = c.rd + n, !.src = [c.src EXCEPT !.rem = c.src.rem - n]]
        BY Zenon, <1>1 DEF Codec, Source
      <4>3. x.src = [c.src EXCEPT !.rem = c.src.rem - n]
        BY <1>1, <4>2 DEF Codec
      <4>4. c' = [x EXCEPT !.chunk = ch, !.src.step = "crlf", !.src.skip = 2]
        BY <4>1
      <4> HIDE DEF x
      <4>5. [[x.src EXCEPT !.step = "crlf"] EXCEPT !.skip = 2] = s
        BY <1>1, <4>3 DEF Source
      <4>6. c' = [x EXCEPT !.chunk = ch,
                           !.src = [[x.src EXCEPT !.step = "crlf"] EXCEPT !.skip = 2]]
        BY Zenon, <1>1, <4>2, <4>4 DEF Codec
      <4> HIDE DEF s
      <4>7. c' = [x EXCEPT !.chunk = ch, !.src = s]
        BY Zenon, <4>5, <4>6
      <4> QED BY Zenon, <1>1, <1>2, <4>2, <4>7 DEF Codec, Becomes
    <3>2. s \in Source /\ s.kind = c.src.kind /\ s.step = "crlf"
      BY Zenon, <1>1, <2>2 DEF Source
    <3> HIDE DEF s
    <3> QED BY <1>2, <2>1, <3>1, <3>2, HandOK
  <2> QED BY <2>3, <2>4
<1>4. CASE c' = Drop(c)
  BY <1>2, <1>4, DropsHereOK DEF Active
<1> QED BY Zenon, <1>3, <1>4 DEF read_chunk_payload

LEMMA SkipOK ==
  ASSUME IInv, skip_crlf PROVE IInv'
<1>1. /\ c \in Codec /\ c.src \in Source /\ c.rd \in Nat /\ TypeOK /\ c.src.skip \in Nat
  BY CodecFields DEF IInv
<1>2. /\ c.st = "pump" /\ c.src.kind = "chunked" /\ c.src.step = "crlf"
      /\ UNCHANGED <<msgs, wire, net>>
  BY Zenon DEF skip_crlf, Decoding
<1>3. ASSUME NEW n \in Reads(c.src.skip),
             c' = LET x == Take([c EXCEPT !.src.skip = @ - n], n) IN
                  IF n < c.src.skip THEN x ELSE [x EXCEPT !.src.step = "size", !.st = "write"]
      PROVE  IInv'
  <2>1. n \in Nat /\ n <= c.src.skip /\ c.rd + n <= net.arrived
    BY <1>1, ReadFacts
  <2>2. c.src.skip - n \in Nat /\ c.rd + n \in Nat /\ c.rd <= c.rd + n
    BY <1>1, <2>1
  <2>3. CASE n < c.src.skip
    <3> DEFINE s == [c.src EXCEPT !.skip = c.src.skip - n]
    <3>1. Becomes("pump", c.rd + n, s, c.chunk, c.out)
      BY Zenon, <1>1, <1>2, <1>3, <2>3 DEF Take, Codec, Source, Becomes
    <3>2. s \in Source /\ s.kind = c.src.kind /\ s.step = "crlf"
      BY <1>1, <1>2, <2>2 DEF Source
    <3> HIDE DEF s
    <3> QED BY <1>2, <2>1, <2>2, <3>1, <3>2, DecodeOK
  <2>4. CASE ~(n < c.src.skip)
    <3> DEFINE s == [c.src EXCEPT !.skip = c.src.skip - n, !.step = "size"]
    <3>1. Becomes("write", c.rd + n, s, c.chunk, c.out)
      BY Zenon, <1>1, <1>2, <1>3, <2>4 DEF Take, Codec, Source, Becomes
    <3>2. s \in Source /\ s.kind = c.src.kind
      BY Zenon, <1>1, <2>2 DEF Source
    <3> HIDE DEF s
    <3> QED BY <1>2, <2>1, <2>2, <3>1, <3>2, DecodeOK
  <2> QED BY <2>3, <2>4
<1>4. CASE c' = Drop(c)
  BY <1>2, <1>4, DropsHereOK DEF Active
<1> QED BY Zenon, <1>3, <1>4 DEF skip_crlf

(* An error after a read, or the end of the message. *)
LEMMA FailsReadOK ==
  ASSUME IInv, NEW n \in Nat, c.rd + n <= net.arrived, UNCHANGED <<msgs, wire, net>>,
         c' = Fail([c EXCEPT !.rd = @ + n])
  PROVE  IInv'
<1>1. c \in Codec /\ c.rd \in Nat /\ c.rd + n \in Nat /\ c.rd <= c.rd + n
  BY CodecFields DEF IInv
<1>2. c' = [c EXCEPT !.st = "failed", !.rd = c.rd + n]
  BY Zenon, <1>1 DEF Fail, Codec
<1>3. c'.st = "failed" /\ c'.done = c.done /\ c'.out = c.out /\ c'.chunk = c.chunk
  BY Zenon, <1>1, <1>2 DEF Codec
<1>4. c' \in Codec
  BY Zenon, <1>1, <1>2 DEF Codec
<1>5. SameMessage
  BY Zenon, <1>1, <1>2, <1>4 DEF SameMessage, Codec
<1> QED BY <1>3, <1>5, FailOK

LEMMA EndsReadOK ==
  ASSUME IInv, Active, c.src.kind = "chunked", c.chunk = << >>, NEW n \in Nat,
         c.rd + n <= net.arrived, UNCHANGED <<msgs, wire, net>>,
         c' = End([c EXCEPT !.rd = @ + n])
  PROVE  IInv'
<1>1. c \in Codec /\ c.rd \in Nat /\ c.rd + n \in Nat /\ c.rd <= c.rd + n /\ c.done + 1 \in Nat
  BY CodecFields DEF IInv
<1>2. c' = [c EXCEPT !.st = "ended", !.rd = c.rd + n, !.done = c.done + 1]
  BY Zenon, <1>1 DEF End, Codec
<1>3. c'.st = "ended" /\ c'.done = c.done + 1 /\ c'.out = c.out /\ c'.chunk = c.chunk
  BY Zenon, <1>1, <1>2 DEF Codec
<1>4. c' \in Codec
  BY Zenon, <1>1, <1>2 DEF Codec
<1>5. SameMessage
  BY Zenon, <1>1, <1>2, <1>4 DEF SameMessage, Codec
<1>6. ASSUME NEW i \in 1..2, c.msg = i PROVE msgs[i].framing = "chunked"
  BY <1>6 DEF IInv, SourceFits, Owes
<1> QED BY <1>3, <1>5, <1>6, EndOK

LEMMA LineOK ==
  ASSUME IInv, read_line_byte PROVE IInv'
<1>1. /\ c \in Codec /\ c.src \in Source /\ c.rd \in Nat /\ TypeOK /\ c.src.rem \in Nat
      /\ c.src.line \in {"empty", "num", "junk"}
  BY CodecFields DEF IInv, Source
<1>2. /\ c.st = "pump" /\ c.src.kind = "chunked" /\ c.chunk = << >> /\ Active
      /\ UNCHANGED <<msgs, wire, net>>
  BY DEF read_line_byte, Decoding, IInv, Buffer, Active
<1>3. CASE c' = Drop(c)
  BY <1>2, <1>3, DropsHereOK
<1>4. ASSUME Reads(1) # {} PROVE c.rd + 1 <= net.arrived
  BY <1>4, <1>1 DEF Reads
<1> DEFINE x == [c EXCEPT !.rd = @ + 1]
<1>5. ASSUME c.rd + 1 <= net.arrived, NEW s \in Source, s.kind = "chunked",
             c' = [x EXCEPT !.src = s]
      PROVE  IInv'
  <2>1. Becomes("pump", c.rd + 1, s, c.chunk, c.out)
    BY Zenon, <1>1, <1>2, <1>5 DEF Codec, Becomes
  <2>2. c.rd + 1 \in Nat /\ c.rd <= c.rd + 1
    BY <1>1
  <2> QED BY <1>2, <1>5, <2>1, <2>2, DecodeOK
<1>6. x.src = c.src
  BY <1>1 DEF Codec
<1>7. ASSUME c.rd + 1 <= net.arrived, NEW b \in {"lf", "cr", "digit", "other"},
             c' = [x EXCEPT !.src.line = Gather(@, b)]
      PROVE  IInv'
  <2> DEFINE l == Gather(c.src.line, b)
             s == [c.src EXCEPT !.line = l]
  <2>1. l \in {"empty", "num", "junk"}
    BY <1>1 DEF Gather
  <2>2. c' = [x EXCEPT !.src = s]
    BY <1>6, <1>7
  <2> HIDE DEF l
  <2>3. s \in Source /\ s.kind = "chunked"
    BY <1>1, <1>2, <2>1 DEF Source
  <2> HIDE DEF s, x
  <2> QED BY <1>5, <1>7, <2>2, <2>3
<1>8. ASSUME c.rd + 1 <= net.arrived, c' \in SizeLine(x) PROVE IInv'
  <2>1. CASE c' = Drop(x)
    <3>1. 1 \in Nat
      OBVIOUS
    <3> QED BY Zenon, <1>2, <1>8, <2>1, <3>1, DropsOK
  <2>2. ASSUME NEW n \in 0..MaxChunk,
               c' = [x EXCEPT !.src.rem = n, !.src.line = "empty",
                              !.src.step = IF n = 0 THEN "trailer" ELSE "payload"]
        PROVE  IInv'
    <3> DEFINE t == IF n = 0 THEN "trailer" ELSE "payload"
               s == [[[c.src EXCEPT !.rem = n] EXCEPT !.line = "empty"] EXCEPT !.step = t]
    <3>1. t \in {"trailer", "payload"} /\ n \in Nat
      OBVIOUS
    <3>2. c' = [x EXCEPT !.src.rem = n, !.src.line = "empty", !.src.step = t]
      BY <2>2
    <3> HIDE DEF t
    <3>3. s \in Source /\ s.kind = "chunked"
      BY Zenon, <1>1, <1>2, <3>1 DEF Source
    <3>4. c' = [x EXCEPT !.src = s]
      BY Zenon, <1>1, <1>6, <3>2 DEF Codec
    <3> HIDE DEF s, x
    <3> QED BY <1>5, <1>8, <3>3, <3>4
  <2> QED BY Zenon, <1>8, <2>1, <2>2 DEF SizeLine
<1>9. ASSUME c.rd + 1 <= net.arrived, c' \in TrailerLine(x) PROVE IInv'
  <2>1. CASE c' = End(x)
    BY Zenon, <1>2, <1>9, <2>1, EndsReadOK
  <2>2. CASE c' = [x EXCEPT !.src.line = "empty"]
    <3> DEFINE s == [c.src EXCEPT !.line = "empty"]
    <3>1. c' = [x EXCEPT !.src = s]
      BY <1>6, <2>2
    <3>2. s \in Source /\ s.kind = "chunked"
      BY <1>1, <1>2 DEF Source
    <3> HIDE DEF s, x
    <3> QED BY <1>5, <1>9, <3>1, <3>2
  <2> QED BY <1>9, <2>1, <2>2 DEF TrailerLine
<1> QED BY <1>3, <1>4, <1>7, <1>8, <1>9 DEF read_line_byte, Take

-----------------------------------------------------------------------------
(* Between messages *)

LEMMA NextMessageOK ==
  ASSUME IInv, NextMessage PROVE IInv'
<1>1. /\ c \in Codec /\ c.rd \in Nat /\ c.from \in Nat /\ c.hd \in Nat /\ TypeOK
      /\ c.st \in {"ended", "dropped"} /\ c.keep /\ UNCHANGED <<msgs, wire, net>>
      /\ c' = [c EXCEPT !.st = "parse", !.from = c.rd]
  BY CodecFields DEF IInv, NextMessage
<1>2. /\ c'.st = "parse" /\ c'.from = c.rd /\ c'.rd = c.rd /\ c'.role = c.role
      /\ c'.msg = c.msg /\ c'.hd = c.hd /\ c'.src = c.src /\ c'.keep = c.keep
      /\ c'.chunk = c.chunk /\ c'.out = c.out /\ c'.done = c.done /\ c'.cut = c.cut
  BY Zenon, <1>1 DEF Codec
<1>3. c' \in Codec
  BY Zenon, <1>1 DEF Codec
<1>4. TypeOK' /\ Frames'
  BY <1>1, <1>2, <1>3 DEF IInv, TypeOK, Frames
<1>5. /\ Moved' = Moved
      /\ \A i \in 1..2 : /\ Before(i)' = Before(i) /\ BodyAt(i)' = BodyAt(i)
                         /\ EndOf(i)' = EndOf(i) /\ Start(i)' = Start(i)
  BY Zenon, <1>1, <1>2 DEF Moved, Before, BodyAt, EndOf, Start
<1>6. Arrivals'
  BY <1>1, <1>2, <1>5 DEF IInv, Arrivals
<1>7. Places'
  <2>1. c.from < c.rd /\ \A i \in 1..2 : c.msg = i => BodyAt(i) <= c.hd
    BY <1>1 DEF IInv, Places, Over
  <2>2. c.rd # 0 /\ c.rd <= c.rd
    BY <1>1, <2>1
  <2> QED BY <1>2, <1>5, <2>1, <2>2 DEF Places, Active, Over
<1>8. Buffer' /\ Bodies' /\ SourceFits' /\ Finished'
  BY <1>1, <1>2, <1>5 DEF IInv, Buffer, Bodies, SourceFits, Finished, Active
<1>9. Boundary'
  <2>1. SUFFICES ASSUME ~net.early, ~c.cut, \A i \in 1..2 : msgs[i].framing # "chunked"
                 PROVE  /\ c.msg # 3 /\ c.msg # 0
                        /\ \A i \in 1..2 : c.msg = i => c.rd = EndOf(i)
    BY <1>1, <1>2, <1>5 DEF Boundary
  <2>2. c.msg # 3 /\ c.msg # 0
    BY <1>1, <2>1 DEF IInv, Boundary, Places, Over
  <2>3. ASSUME NEW i \in 1..2, c.msg = i PROVE c.rd = EndOf(i)
    <3>1. msgs[i].framing \in {"length", "bare"}
      <4>1. msgs[i] \in Message
        BY WireFacts DEF IInv
      <4>2. msgs[i].framing # "close"
        BY <1>1, <2>3 DEF IInv, Places, Over
      <4> QED BY <2>1, <4>1, <4>2 DEF Message
    <3>2. c.rd >= EndOf(i) /\ c.rd <= EndOf(i)
      BY <1>1, <2>1, <2>3, <3>1 DEF IInv, Finished, Ends, GivenUp
    <3>3. EndOf(i) \in Nat
      BY WireFacts DEF IInv
    <3> QED BY <1>1, <3>2, <3>3
  <2> QED BY <2>2, <2>3
<1> QED BY <1>4, <1>6, <1>7, <1>8, <1>9 DEF IInv

(* A read that does not complete the header block. *)
LEMMA GatherOK ==
  ASSUME IInv, c.st = "parse", NEW n \in Nat, c.rd + n <= net.arrived,
         c' = [c EXCEPT !.rd = @ + n], UNCHANGED <<msgs, wire, net>>
  PROVE  IInv'
<1>1. /\ c \in Codec /\ c.rd \in Nat /\ c.from \in Nat /\ c.hd \in Nat /\ TypeOK
      /\ c.rd + n \in Nat
  BY CodecFields DEF IInv
<1>2. /\ c'.st = c.st /\ c'.from = c.from /\ c'.rd = c.rd + n /\ c'.role = c.role
      /\ c'.msg = c.msg /\ c'.hd = c.hd /\ c'.src = c.src /\ c'.keep = c.keep
      /\ c'.chunk = c.chunk /\ c'.out = c.out /\ c'.done = c.done /\ c'.cut = c.cut
  BY <1>1 DEF Codec
<1>3. c' \in Codec
  BY Zenon, <1>1 DEF Codec
<1>4. TypeOK' /\ Frames'
  BY <1>1, <1>2, <1>3 DEF IInv, TypeOK, Frames
<1>5. /\ Moved' = Moved
      /\ \A i \in 1..2 : /\ Before(i)' = Before(i) /\ BodyAt(i)' = BodyAt(i)
                         /\ EndOf(i)' = EndOf(i) /\ Start(i)' = Start(i)
  BY Zenon, <1>1, <1>2 DEF Moved, Before, BodyAt, EndOf, Start
<1>6. Arrivals' /\ Boundary'
  BY <1>1, <1>2, <1>5 DEF IInv, Arrivals, Boundary
<1>7. Places'
  <2>1. c.from <= c.rd + n
    BY <1>1 DEF IInv, Places
  <2> QED BY <1>2, <1>5, <2>1 DEF IInv, Places, Active, Over
<1>8. Buffer' /\ Bodies' /\ SourceFits' /\ Finished'
  BY <1>1, <1>2, <1>5 DEF IInv, Buffer, Bodies, SourceFits, Finished, Active
<1> QED BY <1>4, <1>6, <1>7, <1>8 DEF IInv

-----------------------------------------------------------------------------
(* A header block *)

LEMMA LeastOf ==
  ASSUME NEW T, T \subseteq Nat, T # {}
  PROVE  \E x \in T : \A y \in T : x <= y
<1>1. PICK x \in T : \A y \in T : ~(<<y, x>> \in OpToRel(<, Nat))
  BY Zenon, NatLessThanWellFounded, WFMin
<1>2. ASSUME NEW y \in T PROVE x <= y
  <2>1. ~(y < x)
    BY Zenon, <1>1 DEF OpToRel
  <2> QED BY <2>1
<1> QED BY <1>2

LEMMA LengthSourceFacts ==
  ASSUME NEW m \in Message, NEW e \in Nat, NEW prefix \in Nat,
         NEW s, s = length_source(m, e, prefix)
  PROVE  /\ s \in Source /\ s.kind \in {"none", "buffer", "stream"}
         /\ s.kind = "none" => m.len = 0
         /\ s.kind = "buffer" => s.pos = e /\ s.rem = m.len /\ prefix >= m.len
         /\ s.kind = "stream" => s.rem = m.len - prefix /\ prefix < m.len
<1>1. m.len \in Nat
  BY DEF Message
<1>2. NoSource \in Source /\ NoSource.kind = "none"
  BY DEF NoSource, Source
<1>3. CASE prefix > 0 /\ prefix >= m.len
  <2>1. s = [NoSource EXCEPT !.kind = "buffer", !.rem = m.len, !.pos = e]
    BY <1>3 DEF length_source
  <2>2. s \in Source /\ s.kind = "buffer" /\ s.pos = e /\ s.rem = m.len
    BY Zenon, <1>1, <1>2, <2>1 DEF Source
  <2> QED BY <1>3, <2>2
<1>4. CASE ~(prefix > 0 /\ prefix >= m.len) /\ m.len > 0
  <2>1. prefix < m.len /\ m.len - prefix \in Nat
    BY <1>1, <1>4
  <2>2. s = [NoSource EXCEPT !.kind = "stream", !.rem = m.len - prefix]
    BY <1>4 DEF length_source
  <2>3. s \in Source /\ s.kind = "stream" /\ s.rem = m.len - prefix
    BY Zenon, <1>1, <1>2, <2>1, <2>2 DEF Source
  <2> QED BY <2>1, <2>3
<1>5. CASE ~(prefix > 0 /\ prefix >= m.len) /\ ~(m.len > 0)
  <2>1. s = NoSource /\ m.len = 0
    BY <1>1, <1>5 DEF length_source
  <2> QED BY <1>2, <2>1
<1> QED BY <1>3, <1>4, <1>5

LEMMA BodySourceFacts ==
  ASSUME NEW role \in {"request", "response"}, NEW m \in Message, NEW e \in Nat,
         NEW prefix \in Nat, NEW s, s = body_source(role, m, e, prefix)
  PROVE  /\ s \in Source
         /\ s.kind = "none" =>
              /\ role = "response" => m.framing # "close"
              /\ m.framing = "length" => m.len = 0
         /\ s.kind = "buffer" => /\ m.framing = "length" /\ s.pos = e /\ s.rem = m.len
                                 /\ prefix >= m.len
         /\ s.kind = "stream" => /\ m.framing = "length" /\ s.rem = m.len - prefix
                                 /\ prefix < m.len
         /\ s.kind = "eof" => m.framing = "close"
         /\ s.kind = "chunked" => m.framing = "chunked" /\ role = "response"
<1>1. NoSource \in Source /\ NoSource.kind = "none"
  BY DEF NoSource, Source
<1>2. CASE m.framing = "length"
  <2>1. s = length_source(m, e, prefix)
    BY <1>2 DEF body_source
  <2> QED BY <1>2, <2>1, LengthSourceFacts
<1>3. CASE m.framing # "length" /\ (role = "request" \/ m.framing = "bare")
  <2>1. s = NoSource
    BY <1>3 DEF body_source
  <2> QED BY <1>1, <1>3, <2>1
<1>4. CASE m.framing # "length" /\ ~(role = "request" \/ m.framing = "bare")
  <2>1. m.framing \in {"chunked", "close"} /\ role = "response"
    BY <1>4 DEF Message
  <2>2. s = [NoSource EXCEPT !.kind = IF m.framing = "chunked" THEN "chunked" ELSE "eof"]
    BY <1>4 DEF body_source
  <2>3. s \in Source /\ s.kind = IF m.framing = "chunked" THEN "chunked" ELSE "eof"
    BY <1>1, <2>2 DEF Source
  <2> QED BY <2>1, <2>3
<1> QED BY <1>2, <1>3, <1>4

(* The block ends at the first end of a block, and while the connection is *)
(* in step it is the header block of a message.                            *)
LEMMA BlockEnd ==
  ASSUME IInv, c.st = "parse", NEW r \in Nat, r <= net.arrived,
         NEW ends, ends = {p \in c.from + 1..r : EndsBlock(p)}, ends # {},
         NEW e, e = CHOOSE p \in ends : \A q \in ends : p <= q
  PROVE  /\ e \in Nat /\ c.from < e /\ e <= r
         /\ ~net.early /\ ~c.cut /\ (\A i \in 1..2 : msgs[i].framing # "chunked") =>
              \E i \in 1..2 : c.from = Before(i) /\ e = BodyAt(i)
<1>1. c.from \in Nat /\ TypeOK /\ Frames
  BY CodecFields DEF IInv
<1>2. e \in ends /\ \A q \in ends : e <= q
  <2>1. ends \subseteq Nat
    BY <1>1
  <2> QED BY <2>1, LeastOf
<1>3. e \in Nat /\ c.from < e /\ e <= r /\ e \in c.from + 1..r
  BY <1>1, <1>2
<1>4. ASSUME ~net.early, ~c.cut, \A i \in 1..2 : msgs[i].framing # "chunked"
      PROVE  \E i \in 1..2 : c.from = Before(i) /\ e = BodyAt(i)
  <2>1. r <= Len(wire) /\ Len(wire) \in Nat
    BY <1>1, WireFacts DEF TypeOK
  <2>2. \E i \in 1..2 : c.from = Before(i)
    <3>1. /\ c.msg # 3 /\ (c.msg = 0 => c.from = 0)
          /\ \A i \in 1..2 : c.msg = i => c.from = EndOf(i)
      BY <1>4 DEF IInv, Boundary
    <3>2. c.msg \in 0..3
      BY <1>1 DEF TypeOK, Codec
    <3>3. CASE c.msg = 0
      BY <1>1, <3>1, <3>3, WireFacts
    <3>4. CASE c.msg = 1
      BY <1>1, <3>1, <3>4, WireFacts
    <3>5. CASE c.msg = 2
      <4>1. c.from = Len(wire)
        BY <1>1, <3>1, <3>5, WireFacts
      <4> QED BY <1>3, <2>1, <4>1
    <3> QED BY <3>1, <3>2, <3>3, <3>4, <3>5
  <2>3. PICK i \in 1..2 : c.from = Before(i)
    BY <2>2
  <2>4. /\ BodyAt(i) = c.from + 2 /\ wire[c.from + 1] = "head" /\ wire[BodyAt(i)] = "end"
    BY SMTT(20), <1>1, <2>3, WireFacts
  <2>5. e # c.from + 1
    BY <1>2, <2>4 DEF EndsBlock
  <2>6. BodyAt(i) \in ends
    <3>1. BodyAt(i) \in c.from + 1..r
      BY <1>1, <1>3, <2>4, <2>5
    <3> QED BY <2>4, <3>1 DEF EndsBlock
  <2>7. e = BodyAt(i)
    BY <1>1, <1>2, <1>3, <2>4, <2>5, <2>6
  <2> QED BY <2>3, <2>7
<1> QED BY <1>3, <1>4

(* The head of a message: its source owes what is left of its body. *)
LEMMA HeadOK ==
  ASSUME IInv, c.st = "parse", NEW r \in Nat, c.rd <= r, r <= net.arrived,
         NEW e \in Nat, c.from < e, e <= r, NEW i \in 1..3,
         i # 3 => c.from = Before(i) /\ e = BodyAt(i),
         i = 3 => net.early \/ c.cut \/ (\E j \in 1..2 : msgs[j].framing = "chunked"),
         NEW m, m = HeadOf(i, c.role), NEW s, s = body_source(c.role, m, e, r - e),
         NEW k \in BOOLEAN, k => m.framing # "close",
         c' = [c EXCEPT !.rd = r, !.st = "head", !.msg = i, !.hd = r, !.out = << >>,
                        !.src = s, !.keep = k],
         UNCHANGED <<msgs, wire, net>>
  PROVE  IInv'
<1>1. /\ c \in Codec /\ c.rd \in Nat /\ c.from \in Nat /\ TypeOK /\ Frames
      /\ c.role \in {"request", "response"} /\ c.chunk = << >>
  BY CodecFields DEF IInv, Codec, Buffer
<1>2. m \in Message /\ (i # 3 => m = msgs[i])
  <2>1. CASE i = 3
    <3>1. m = [framing |-> IF c.role = "request" THEN "bare" ELSE "close", len |-> 0,
               old |-> FALSE, conn |-> "none"]
      BY <2>1 DEF HeadOf
    <3> DEFINE f == IF c.role = "request" THEN "bare" ELSE "close"
    <3>2. f \in {"bare", "close"}
      OBVIOUS
    <3>3. m = [framing |-> f, len |-> 0, old |-> FALSE, conn |-> "none"]
      BY <3>1
    <3> HIDE DEF f
    <3>4. m \in Message
      BY <3>2, <3>3 DEF Message
    <3> QED BY <2>1, <3>4
  <2>2. CASE i # 3
    BY <1>1, <2>2, WireFacts DEF HeadOf
  <2> QED BY <2>1, <2>2
<1>3. r - e \in Nat
  OBVIOUS
<1>4. /\ s \in Source
      /\ s.kind = "none" =>
           /\ c.role = "response" => m.framing # "close"
           /\ m.framing = "length" => m.len = 0
      /\ s.kind = "buffer" => /\ m.framing = "length" /\ s.pos = e /\ s.rem = m.len
                              /\ r - e >= m.len
      /\ s.kind = "stream" => /\ m.framing = "length" /\ s.rem = m.len - (r - e)
                              /\ r - e < m.len
      /\ s.kind = "eof" => m.framing = "close"
      /\ s.kind = "chunked" => m.framing = "chunked" /\ c.role = "response"
  BY <1>1, <1>2, <1>3, BodySourceFacts
<1> DEFINE z == << >>
<1>5. z \in Seq(Nat) /\ z \o z = z /\ Len(z) = 0
  OBVIOUS
<1>6. /\ c'.st = "head" /\ c'.from = c.from /\ c'.rd = r /\ c'.role = c.role
      /\ c'.msg = i /\ c'.hd = r /\ c'.src = s /\ c'.keep = k
      /\ c'.chunk = z /\ c'.out = z /\ c'.done = c.done /\ c'.cut = c.cut
  BY <1>1 DEF Codec
<1>7. c' \in Codec
  <2>1. c' = [c EXCEPT !.rd = r, !.st = "head", !.msg = i, !.hd = r, !.out = z,
                       !.src = s, !.keep = k]
    OBVIOUS
  <2> HIDE DEF z
  <2>2. i \in 0..3 /\ z \in Seq(Nat)
    BY <1>5
  <2> QED BY ZenonT(30), <1>1, <1>4, <2>1, <2>2 DEF Codec
<1>8. Moved' = z /\ Len(Moved') = 0
  BY <1>5, <1>6 DEF Moved
<1>9. TypeOK' /\ Frames'
  BY <1>1, <1>6, <1>7 DEF TypeOK, Frames
<1>10. \A j \in 1..2 : /\ Before(j)' = Before(j) /\ BodyAt(j)' = BodyAt(j)
                       /\ EndOf(j)' = EndOf(j)
  BY DEF Before, BodyAt, EndOf
<1>11. Arrivals'
  BY <1>6, <1>10 DEF IInv, Arrivals
<1>12. Boundary'
  BY <1>6 DEF IInv, Boundary
<1>13. Buffer' /\ Finished'
  BY <1>6 DEF Buffer, Finished
<1>14. Places'
  <2>1. c.from = 0 => c.done = 0
    BY DEF IInv, Places, Over
  <2>2. \A j \in 1..2 : i = j => /\ c.from = Before(j) /\ BodyAt(j) <= r
                                 /\ (k => msgs[j].framing # "close")
    <3>1. k => m.framing # "close"
      OBVIOUS
    <3> QED BY <1>2, <3>1
  <2>3. c.from <= r /\ c.from < r /\ r <= r /\ i # 0
    BY <1>1
  <2> QED BY <1>6, <1>10, <2>1, <2>2, <2>3 DEF Places, Active, Over
<1>15. SUFFICES ASSUME NEW j \in 1..2, i = j
                PROVE  /\ msgs[j].framing \in {"length", "close"} =>
                            Start(j)' \in Nat /\ Start(j)' <= EndOf(j)
                       /\ Owes(j)'
  <2>1. ASSUME NEW j \in 1..2, c'.msg = j, Start(j)' \in Nat, Start(j)' <= EndOf(j)
        PROVE  Moved' = Span(Start(j)', Len(Moved')) /\ Start(j)' + Len(Moved') <= EndOf(j)'
    <3>1. Span(Start(j)', 0) = z
      BY <2>1, SpanEmpty
    <3> QED BY <1>8, <1>10, <2>1, <3>1
  <2>2. Bodies'
    BY <1>6, <1>8, <1>10, <1>15, <2>1 DEF Bodies
  <2>3. SourceFits'
    BY <1>6, <1>15 DEF SourceFits
  <2> QED BY SMTT(20), <1>9, <1>11, <1>12, <1>13, <1>14, <2>2, <2>3 DEF IInv
<1>16. /\ c.from = Before(j) /\ e = BodyAt(j) /\ m = msgs[j]
       /\ EndOf(j) \in Nat /\ BodyAt(j) <= EndOf(j) /\ m.len \in Nat
       /\ m.framing \in {"length", "close"} => EndOf(j) = e + m.len
  <2>1. c.from = Before(j) /\ e = BodyAt(j) /\ m = msgs[j]
    BY <1>2, <1>15
  <2>2. m.len \in Nat
    BY <1>2 DEF Message
  <2>3. /\ EndOf(j) \in Nat /\ EndOf(j) >= BodyAt(j)
        /\ msgs[j].framing \in {"length", "close"} => EndOf(j) = BodyAt(j) + msgs[j].len
    BY <1>1, WireFacts
  <2> QED BY <2>1, <2>2, <2>3
<1>17. m.framing = "close" => r <= EndOf(j)
  <2>1. CASE j = 1
    <3>1. m.framing = "close" => net.arrived <= EndOf(1)
      BY <1>16, <2>1 DEF IInv, Arrivals
    <3>2. net.arrived \in Nat
      BY <1>1 DEF TypeOK
    <3> QED BY <1>16, <2>1, <3>1, <3>2
  <2>2. CASE j = 2
    <3>1. EndOf(2) = Len(wire) /\ net.arrived \in 0..Len(wire)
      BY <1>1, WireFacts DEF TypeOK
    <3> QED BY <1>16, <2>2, <3>1
  <2> QED BY <2>1, <2>2
<1>18. Start(j)' = IF m.framing = "length" /\ r >= EndOf(j) THEN BodyAt(j) ELSE r
  BY <1>6, <1>10, <1>16 DEF Start
<1>19. msgs[j].framing \in {"length", "close"} => Start(j)' \in Nat /\ Start(j)' <= EndOf(j)
  BY <1>16, <1>17, <1>18
<1>20. Owes(j)'
  <2>1. s.kind = "none" => m.framing # "close"
    BY <1>1, <1>4, <1>16 DEF Frames
  <2>2. s.kind = "buffer" => /\ r >= EndOf(j) /\ s.pos = BodyAt(j) + 0
                             /\ s.pos + s.rem = EndOf(j)
    BY <1>4, <1>16
  <2>3. s.kind = "stream" => r < EndOf(j) /\ r = r + 0 /\ r + s.rem = EndOf(j)
    BY <1>4, <1>16
  <2>4. \A q \in 1..Len(Moved') : Moved'[q] <= c'.rd
    BY <1>8
  <2> QED BY SMTT(20), <1>4, <1>6, <1>8, <1>10, <1>16, <2>1, <2>2, <2>3, <2>4 DEF Owes
<1> QED BY <1>19, <1>20

LEMMA HeaderOK ==
  ASSUME IInv, read_header_block PROVE IInv'
<1>1. /\ c \in Codec /\ c.rd \in Nat /\ c.from \in Nat /\ TypeOK /\ HeadCap \in Nat
      /\ c.st = "parse" /\ UNCHANGED <<msgs, wire, net>>
  BY CodecFields, H1Assumption DEF IInv, read_header_block
<1>2. CASE c' = Fail(c)
  BY <1>1, <1>2, FailsOK
<1>3. ASSUME NEW n \in Reads(HeadCap), c' \in HeadRead([c EXCEPT !.rd = @ + n]) PROVE IInv'
  <2> DEFINE x == [c EXCEPT !.rd = @ + n]
             r == c.rd + n
  <2>1. n \in Nat /\ r \in Nat /\ r <= net.arrived /\ c.rd <= r
    BY <1>1, ReadFacts
  <2>2. x.from = c.from /\ x.rd = r /\ x.role = c.role
    BY <1>1 DEF Codec
  <2> DEFINE ends == {p \in c.from + 1..r : EndsBlock(p)}
             e == CHOOSE p \in ends : \A q \in ends : p <= q
  <2>3. c' \in IF ends = {} THEN {x}
              ELSE {HeadDone(x, e, i) : i \in parse_header_block(c.from, e)}
    BY Zenon, <1>3, <2>2 DEF HeadRead
  <2>4. CASE ends = {}
    BY <1>1, <2>1, <2>3, <2>4, GatherOK
  <2>5. CASE ends # {}
    <3>1. PICK i \in parse_header_block(c.from, e) : c' = HeadDone(x, e, i)
      BY Zenon, <2>3, <2>5
    <3>2. /\ e \in Nat /\ c.from < e /\ e <= r
          /\ ~net.early /\ ~c.cut /\ (\A j \in 1..2 : msgs[j].framing # "chunked") =>
               \E j \in 1..2 : c.from = Before(j) /\ e = BodyAt(j)
      <4>1. ends = {p \in c.from + 1..r : EndsBlock(p)}
        OBVIOUS
      <4>2. e = CHOOSE p \in ends : \A q \in ends : p <= q
        OBVIOUS
      <4> HIDE DEF ends, e, r
      <4> QED BY SMTT(20), <1>1, <2>1, <2>5, <4>1, <4>2, BlockEnd
    <3> HIDE DEF e, ends
    <3>3. i \in 0..3
      BY <3>1 DEF parse_header_block
    <3>4. i \notin {0, 3} => c.from = Before(i) /\ e = BodyAt(i)
      <4>1. SUFFICES ASSUME i \notin {0, 3} PROVE c.from = Before(i) /\ e = BodyAt(i)
        OBVIOUS
      <4>2. PICK j \in 1..2 : c.from = Before(j) /\ e = BodyAt(j)
        BY <3>1, <4>1 DEF parse_header_block
      <4>3. c.from = Before(i)
        BY <3>1, <4>1, <4>2 DEF parse_header_block
      <4> QED BY <4>2, <4>3 DEF BodyAt
    <3>5. i = 3 => net.early \/ c.cut \/ (\E j \in 1..2 : msgs[j].framing = "chunked")
      <4>1. (\E j \in 1..2 : c.from = Before(j) /\ e = BodyAt(j)) => i # 3
        BY <3>1 DEF parse_header_block
      <4> QED BY <3>2, <4>1
    <3>6. CASE i = 0
      BY <1>1, <2>1, <3>1, <3>6, FailsReadOK DEF HeadDone
    <3>7. CASE i # 0
      <4> DEFINE m == HeadOf(i, c.role)
                 s == body_source(c.role, m, e, r - e)
                 k == compute_keep_alive(m) /\ m.framing # "close"
                 z == << >>
      <4>1. c' = [x EXCEPT !.st = "head", !.msg = i, !.hd = r, !.out = z, !.src = s,
                           !.keep = k]
        BY <2>2, <3>1, <3>7 DEF HeadDone
      <4>2. k \in BOOLEAN /\ (k => m.framing # "close")
        OBVIOUS
      <4> HIDE DEF s, k, m, r
      <4>3. c' = [c EXCEPT !.rd = c.rd + n, !.st = "head", !.msg = i, !.hd = r, !.out = z,
                           !.src = s, !.keep = k]
        <5> HIDE DEF z
        <5> QED BY <1>1, <4>1 DEF Codec
      <4>4. c' = [c EXCEPT !.rd = r, !.st = "head", !.msg = i, !.hd = r, !.out = << >>,
                           !.src = s, !.keep = k]
        BY <4>3 DEF r
      <4>5. /\ m = HeadOf(i, c.role) /\ s = body_source(c.role, m, e, r - e)
            /\ i \in 1..3 /\ (i # 3 => c.from = Before(i) /\ e = BodyAt(i))
        BY <3>3, <3>4, <3>7 DEF m, s
      <4> QED BY Zenon, <1>1, <2>1, <3>2, <3>5, <4>2, <4>4, <4>5, HeadOK
    <3> QED BY <3>6, <3>7
  <2> QED BY <2>4, <2>5
<1> QED BY Zenon, <1>1, <1>2, <1>3 DEF read_header_block

-----------------------------------------------------------------------------
(* Theorems *)

LEMMA StepOK == IInv /\ [Next]_vars => IInv'
<1>1. SUFFICES ASSUME IInv, [Next]_vars PROVE IInv'
  OBVIOUS
<1>2. CASE UNCHANGED vars
  <2>1. msgs' = msgs /\ wire' = wire /\ net' = net /\ c' = c
    BY <1>2 DEF vars
  <2>2. TypeOK' /\ Frames' /\ Buffer'
    BY SMTT(20), <1>1, <2>1 DEF IInv, TypeOK, Frames, Buffer
  <2>3. Arrivals' /\ Places' /\ Boundary'
    BY <1>1, <2>1 DEF IInv, Arrivals, Places, Boundary, Active, Over, Before,
                            BodyAt, EndOf
  <2>4. Bodies' /\ SourceFits' /\ Finished'
    BY ZenonT(30), <1>1, <2>1 DEF IInv, Bodies, SourceFits, Owes, Finished, Ends, GivenUp, Active,
                                 Moved, Start, Before, BodyAt, EndOf
  <2> QED BY <2>2, <2>3, <2>4 DEF IInv
<1>3. CASE Arrive \/ PeerCloses
  BY <1>1, <1>3, NetOK
<1>4. CASE OperationFails
  BY <1>1, <1>4, FailsOK, DropsHereOK DEF OperationFails, Active
<1>5. CASE read_header_block
  BY <1>1, <1>5, HeaderOK
<1>6. CASE async_write_head
  BY <1>1, <1>6, WriteHeadOK
<1>7. CASE Sources
  BY <1>1, <1>7, BufferOK, StreamOK, EofOK, LineOK, PayloadOK, SkipOK DEF Sources
<1>8. CASE PumpWrite
  BY <1>1, <1>8, PumpWriteOK
<1>9. CASE NextMessage
  BY <1>1, <1>9, NextMessageOK
<1> QED BY <1>1, <1>2, <1>3, <1>4, <1>5, <1>6, <1>7, <1>8, <1>9 DEF Next

LEMMA Invariance == Spec => []IInv
<1>1. Init => IInv
  BY InitOK
<1> QED BY <1>1, StepOK, PTL DEF Spec

(* The codec keeps its types: what remains of a body, which the sources    *)
(* count down without a test, is never below zero, and no read returns     *)
(* units that have not arrived.                                            *)
THEOREM TypeCorrect == Spec => []TypeOK
<1>1. IInv => TypeOK
  BY SMTT(20) DEF IInv
<1> QED BY <1>1, Invariance, PTL

(* Whatever the sizes of the reads, a body with a length, or one that the  *)
(* end of the connection ends, is forwarded as one run of its own units,   *)
(* from where the header block's read left off to its end.                 *)
THEOREM BodiesAreAccounted == Spec => []BodyAccounted
<1>1. IInv => BodyAccounted
  <2>1. SUFFICES ASSUME IInv, NEW i \in 1..2, c.msg = i,
                        msgs[i].framing \in {"length", "close"}
                 PROVE  /\ Moved = Span(Start(i), Len(Moved))
                        /\ Start(i) + Len(Moved) <= EndOf(i)
                        /\ c.st = "ended" /\ msgs[i].framing = "length"
                             => Start(i) + Len(Moved) = EndOf(i)
    BY SMTT(20) DEF BodyAccounted, Genuine, Start
  <2> QED BY SMTT(20), <2>1 DEF IInv, Bodies, Finished, Ends
<1> QED BY <1>1, Invariance, PTL

(* No body unit is forwarded twice, out of order or with another message,  *)
(* even if the chunk decoder goes by a byte that it never read.            *)
THEOREM UnitsStayInOrder == Spec => []OwnUnitsInOrder
<1>1. IInv => OwnUnitsInOrder
  <2>1. SUFFICES ASSUME IInv, NEW i \in 1..2, c.msg = i
                 PROVE  /\ \A j \in 1..Len(Moved) :
                             BodyAt(i) < Moved[j] /\ Moved[j] <= EndOf(i)
                        /\ \A j, k \in 1..Len(Moved) : j < k => Moved[j] < Moved[k]
    BY DEF OwnUnitsInOrder, Genuine
  <2>2. /\ msgs[i] \in Message /\ BodyAt(i) \in Nat /\ EndOf(i) \in Nat
        /\ BodyAt(i) <= c.hd /\ c.hd \in Nat
    <3>1. c.hd \in Nat /\ BodyAt(i) <= c.hd
      BY SMTT(20), <2>1, CodecFields DEF IInv, Places
    <3>2. msgs[i] \in Message /\ BodyAt(i) \in Nat /\ EndOf(i) \in Nat
      BY <2>1, WireFacts DEF IInv
    <3> QED BY <3>1, <3>2
  <2>3. Len(Moved) \in Nat
    BY SMTT(20), <2>1, MovedType DEF IInv
  <2>4. CASE msgs[i].framing = "bare"
    BY <2>1, <2>4 DEF IInv, Bodies
  <2>5. CASE msgs[i].framing = "chunked"
    BY <2>1, <2>5 DEF IInv, Bodies
  <2>6. CASE msgs[i].framing \in {"length", "close"}
    <3>1. Moved = Span(Start(i), Len(Moved)) /\ Start(i) + Len(Moved) <= EndOf(i)
      BY <2>1, <2>6 DEF IInv, Bodies
    <3>2. Start(i) \in Nat /\ BodyAt(i) <= Start(i)
      BY <2>2 DEF Start
    <3>3. \A j \in 1..Len(Moved) : Moved[j] = Start(i) + j
      BY Zenon, <2>3, <3>1, <3>2, SpanFacts
    <3> QED BY <2>2, <2>3, <3>1, <3>2, <3>3
  <2> QED BY SMTT(20), <2>2, <2>4, <2>5, <2>6 DEF Message
<1> QED BY <1>1, Invariance, PTL

(* A connection that is kept is at a message boundary when the next parse  *)
(* starts, so that no head is made up of a body, unless a message is       *)
(* chunked, the peer did not wait for its answer, or a message was given   *)
(* up after an error before all of it had been read.                       *)
THEOREM KeptConnectionInStep == Spec => []Synced
<1>1. IInv => Synced
  <2>1. SUFFICES ASSUME IInv, ~net.early, ~c.cut,
                        \A i \in 1..2 : msgs[i].framing # "chunked"
                 PROVE  /\ c.msg # 3
                        /\ c.st = "parse" => c.from = IF c.msg = 0 THEN 0 ELSE EndOf(c.msg)
    BY DEF Synced
  <2>2. /\ c.msg # 3
        /\ c.st = "parse" => /\ c.msg = 0 => c.from = 0
                             /\ \A i \in 1..2 : c.msg = i => c.from = EndOf(i)
    BY <2>1 DEF IInv, Boundary
  <2>3. c.msg \in 0..3
    BY <2>1 DEF IInv, TypeOK, Codec
  <2>4. c.msg # 0 => c.msg \in 1..2
    BY <2>2, <2>3
  <2> QED BY <2>2, <2>4
<1> QED BY <1>1, Invariance, PTL
=============================================================================
