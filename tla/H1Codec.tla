------------------------------- MODULE H1Codec -------------------------------
(***************************************************************************)
(* HTTP/1.1 framing: H1Codec of src/codec/h1_codec.cpp and the bodies of   *)
(* src/codec/http_message.cpp.  One TCP connection brings messages, each   *)
(* of which is parsed, and its body pumped to another connection.          *)
(*                                                                         *)
(* The bytes of the connection are the sequence wire of units: "head" and  *)
(* "end" (the CRLF CRLF) of a header block, "data", and what the framing   *)
(* of a chunked body is made of.  A unit is known by its position, so that *)
(* what is read, dropped and written are sets of positions.  How many      *)
(* units a read returns is up to the network.                              *)
(***************************************************************************)
EXTENDS Naturals, Sequences

CONSTANTS
  Messages,  \* what the peer may send: records in Message
  HeadCap,   \* units that one read of a header block returns at most (4096)
  PumpCap,   \* units that one read of a body returns at most (8192)
  MaxChunk   \* bound: the size that a chunk-size line can yield

(* bare: a 1xx, 204 or 304, or a request without a body.  close: neither   *)
(* Content-Length nor chunked, so that the end of the connection ends the  *)
(* body.  old: HTTP/1.0.  conn: the token of the Connection header.        *)
Message == [framing : {"bare", "length", "chunked", "close"}, len : Nat,
            old : BOOLEAN, conn : {"none", "close", "keep-alive"}]

ASSUME H1Assumption == /\ Messages \subseteq Message
                       /\ HeadCap \in Nat \ {0} /\ PumpCap \in Nat \ {0}
                       /\ MaxChunk \in Nat

VARIABLES
  msgs,    \* the messages of the connection, in order
  wire,    \* their units
  net,     \* [arrived, fin, early]: units delivered so far, the peer has
           \* closed, it sent a message before the last one was answered
  c        \* the codec, its body source and the pump

vars == <<msgs, wire, net, c>>

-----------------------------------------------------------------------------
(* What a message looks like on the wire *)

Data(n) == [i \in 1..n |-> "data"]

Body(m) ==
  IF m.framing \in {"length", "close"} THEN Data(m.len)
  ELSE IF m.framing = "chunked"
    THEN (IF m.len = 0 THEN << >>
          ELSE <<"size", "nl">> \o Data(m.len) \o <<"cr", "nl">>)
         \o <<"size", "nl", "cr", "blank">>
  ELSE << >>

Units(m) == <<"head", "end">> \o Body(m)

(* Position of the last unit before message i. *)
Before(i) == IF i = 1 THEN 0 ELSE Len(Units(msgs[1]))
BodyAt(i) == Before(i) + 2
EndOf(i) == Before(i) + Len(Units(msgs[i]))

(* The blank line that ends a chunked body is a CRLF CRLF as well. *)
EndsBlock(p) == wire[p] \in {"end", "blank"}

-----------------------------------------------------------------------------
(* State *)

(* A body source.  rem: remaining_, chunk_remaining_ or what is left in a  *)
(* buffer.  pos: last position a buffer has handed out.  step and line are *)
(* the decoder's place in the chunk framing and the line it has gathered;  *)
(* skip: units of the CRLF still to be read.                               *)
Source == [kind : {"none", "buffer", "stream", "eof", "chunked"}, rem : Nat,
           pos : Nat, step : {"size", "payload", "crlf", "trailer"},
           line : {"empty", "num", "junk"}, skip : Nat]

(* st: what the chain of callbacks waits for.  role: which of the two      *)
(* parsers.  rd: last position read.  from: last position before the       *)
(* header buffer.  msg: index of the message whose head was handed out,    *)
(* 0 before the first, 3 for a head that no peer sent.  hd: last position  *)
(* read with the header block.  chunk: units in the pump's buffer.  out:   *)
(* body units written.  done: messages that were forwarded or given up.    *)
(* cut: history, one was given up before all of it had been read.          *)
Codec == [role : {"request", "response"},
          st : {"parse", "head", "pump", "write", "ended", "dropped", "failed"},
          rd : Nat, from : Nat, msg : 0..3, hd : Nat, src : Source,
          keep : BOOLEAN, chunk : Seq(Nat), out : Seq(Nat), done : Nat,
          cut : BOOLEAN]

NoSource == [kind |-> "none", rem |-> 0, pos |-> 0, step |-> "size",
             line |-> "empty", skip |-> 0]

Init ==
  /\ msgs \in Messages \X Messages
  /\ wire = Units(msgs[1]) \o Units(msgs[2])
  /\ net = [arrived |-> 0, fin |-> FALSE, early |-> FALSE]
  /\ c \in {[role |-> r, st |-> "parse", rd |-> 0, from |-> 0, msg |-> 0,
             hd |-> 0, src |-> NoSource, keep |-> FALSE, chunk |-> << >>,
             out |-> << >>, done |-> 0, cut |-> FALSE] : r \in {"request", "response"}}
  /\ c.role = "request" => \A i \in 1..2 : msgs[i].framing # "close"

-----------------------------------------------------------------------------
(* The network and the peer *)

(* A backend answers what it was asked; a client may send its next request *)
(* before it has the answer to the last one.                               *)
Arrive ==
  LET p == net.arrived + 1
      waits == p > EndOf(1) /\ c.done = 0
  IN  /\ ~net.fin /\ p <= Len(wire)
      /\ waits => c.role = "request"
      /\ msgs[1].framing = "close" => p <= EndOf(1)
      /\ net' = [net EXCEPT !.arrived = p, !.early = @ \/ waits]
      /\ UNCHANGED <<msgs, wire, c>>

(* The peer closes, after its message or in the middle of it. *)
PeerCloses == /\ ~net.fin
              /\ net' = [net EXCEPT !.fin = TRUE]
              /\ UNCHANGED <<msgs, wire, c>>

(* Numbers of units that a read of at most n units may return. *)
Reads(n) == {k \in 1..n : c.rd + k <= net.arrived}

(* The read reports the end of the stream, as asio does for TCP: an error. *)
AtEof == net.fin /\ c.rd = net.arrived

(* No message could be parsed: the connection is closed. *)
Fail(x) == [x EXCEPT !.st = "failed"]

(* A parsed message cannot be forwarded.  A request is answered with an    *)
(* error by write_error, and the error of a response is ignored: either    *)
(* way the connection it came from goes on as if it had been forwarded.    *)
(* The source and the pump are gone.                                       *)
Drop(x) == [x EXCEPT !.st = "dropped", !.done = @ + 1, !.src = NoSource,
                     !.chunk = << >>, !.out = << >>,
                     !.cut = @ \/ (x.msg \in 1..2 /\ x.rd < EndOf(x.msg))]

Span(a, n) == [i \in 1..n |-> a + i]

-----------------------------------------------------------------------------
(* Parsing a header block *)

compute_keep_alive(m) == IF m.conn = "none" THEN ~m.old ELSE m.conn # "close"

(* parse_header_block and parse_response_block: which message the block of *)
(* positions f + 1 to e is the head of; 0 is a parse error, 3 a head that  *)
(* no peer sent.  A size line has one word and cannot be a first line; the *)
(* rest of a line that was cut, or body data, may look like one.           *)
parse_header_block(f, e) ==
  IF \E i \in 1..2 : f = Before(i) /\ e = BodyAt(i)
    THEN {i \in 1..2 : f = Before(i)}
  ELSE IF wire[f + 1] \in {"data", "end"} THEN {0, 3} ELSE {0}

HeadOf(i, role) ==
  IF i # 3 THEN msgs[i]
  ELSE [framing |-> IF role = "request" THEN "bare" ELSE "close", len |-> 0,
        old |-> FALSE, conn |-> "none"]

(* Altered: a body that came with more than its length is not complete. *)
length_source_Exact(m, e, prefix) ==
  IF prefix > 0 /\ prefix = m.len
    THEN [NoSource EXCEPT !.kind = "buffer", !.rem = m.len, !.pos = e]
  ELSE IF m.len > 0
    THEN [NoSource EXCEPT !.kind = "stream", !.rem = m.len - prefix]
  ELSE NoSource

(* Altered: one unit more than the length counts as complete. *)
length_source_OffByOne(m, e, prefix) ==
  IF prefix > 0 /\ prefix + 1 >= m.len
    THEN [NoSource EXCEPT !.kind = "buffer", !.pos = e,
                          !.rem = IF prefix < m.len THEN prefix ELSE m.len]
  ELSE IF m.len > 0
    THEN [NoSource EXCEPT !.kind = "stream", !.rem = m.len - prefix]
  ELSE NoSource

(* Content-Length: the units that came with the header block, which ends   *)
(* at e, are used if they are the whole body, and are dropped otherwise.   *)
length_source(m, e, prefix) ==
  IF prefix > 0 /\ prefix >= m.len
    THEN [NoSource EXCEPT !.kind = "buffer", !.rem = m.len, !.pos = e]
  ELSE IF m.len > 0
    THEN [NoSource EXCEPT !.kind = "stream", !.rem = m.len - prefix]
  ELSE NoSource

(* A request without Content-Length has no body, also when it is chunked.  *)
body_source(role, m, e, prefix) ==
  IF m.framing = "length" THEN length_source(m, e, prefix)
  ELSE IF role = "request" \/ m.framing = "bare" THEN NoSource
  ELSE [NoSource EXCEPT !.kind = IF m.framing = "chunked" THEN "chunked"
                                 ELSE "eof"]

(* Altered: a connection that ends the body is kept. *)
HeadDone_KeepsClosed(x, e, i) ==
  LET m == HeadOf(i, x.role) IN
  IF i = 0 THEN Fail(x)
  ELSE [x EXCEPT !.st = "head", !.msg = i, !.hd = x.rd, !.out = << >>,
                 !.src = body_source(x.role, m, e, x.rd - e),
                 !.keep = compute_keep_alive(m)]

(* The callback of async_parse_request or async_parse_response. *)
HeadDone(x, e, i) ==
  LET m == HeadOf(i, x.role) IN
  IF i = 0 THEN Fail(x)
  ELSE [x EXCEPT !.st = "head", !.msg = i, !.hd = x.rd, !.out = << >>,
                 !.src = body_source(x.role, m, e, x.rd - e),
                 !.keep = compute_keep_alive(m) /\ m.framing # "close"]

(* read_header_block and read_response_header, with x.rd moved on. *)
HeadRead(x) ==
  LET ends == {p \in x.from + 1..x.rd : EndsBlock(p)}
      e == CHOOSE p \in ends : \A q \in ends : p <= q
  IN  IF ends = {} THEN {x}
      ELSE {HeadDone(x, e, i) : i \in parse_header_block(x.from, e)}

read_header_block ==
  /\ c.st = "parse"
  /\ \/ \E n \in Reads(HeadCap) : c' \in HeadRead([c EXCEPT !.rd = @ + n])
     \/ AtEof /\ c' = Fail(c)
  /\ UNCHANGED <<msgs, wire, net>>

-----------------------------------------------------------------------------
(* Forwarding the message *)

End(x) == [x EXCEPT !.st = "ended", !.done = @ + 1]

(* async_write_request, async_write_response: the header block, as it was  *)
(* received, and then the body if there is one.                            *)
async_write_head ==
  /\ c.st = "head"
  /\ c' = IF c.src.kind = "none" THEN End(c) ELSE [c EXCEPT !.st = "pump"]
  /\ UNCHANGED <<msgs, wire, net>>

(* The source hands n units after position a to the pump. *)
Hand(x, a, n) == [x EXCEPT !.chunk = Span(a, n), !.st = "write"]

Least(a, b) == IF a < b THEN a ELSE b

BufferBodySource ==
  LET n == Least(PumpCap, c.src.rem) IN
  /\ c.st = "pump" /\ c.src.kind = "buffer"
  /\ c' = IF n = 0 THEN End(c)
          ELSE Hand([c EXCEPT !.src.rem = @ - n, !.src.pos = @ + n],
                    c.src.pos, n)
  /\ UNCHANGED <<msgs, wire, net>>

(* A read of the connection by a source, on behalf of the pump. *)
Take(x, n) == [x EXCEPT !.rd = @ + n]

(* Altered: a finished body is read once more. *)
StreamBodySource_NoEnd ==
  /\ c.st = "pump" /\ c.src.kind = "stream"
  /\ \/ \E n \in Reads(Least(PumpCap, c.src.rem)) :
          c' = Hand(Take([c EXCEPT !.src.rem = @ - n], n), c.rd, n)
     \/ AtEof /\ c' = Drop(c)
  /\ UNCHANGED <<msgs, wire, net>>

StreamBodySource ==
  /\ c.st = "pump" /\ c.src.kind = "stream"
  /\ \/ c.src.rem = 0 /\ c' = End(c)
     \/ \E n \in Reads(Least(PumpCap, c.src.rem)) :
          c' = Hand(Take([c EXCEPT !.src.rem = @ - n], n), c.rd, n)
     \/ c.src.rem > 0 /\ AtEof /\ c' = Drop(c)
  /\ UNCHANGED <<msgs, wire, net>>

StreamEofBodySource ==
  /\ c.st = "pump" /\ c.src.kind = "eof"
  /\ \/ \E n \in Reads(PumpCap) : c' = Hand(Take(c, n), c.rd, n)
     \/ AtEof /\ c' = End(c)
  /\ UNCHANGED <<msgs, wire, net>>

(* pump_body_to_stream: async_write, and on to the next read. *)
PumpWrite ==
  /\ c.st = "write"
  /\ c' = [c EXCEPT !.st = "pump", !.out = @ \o c.chunk, !.chunk = << >>]
  /\ UNCHANGED <<msgs, wire, net>>

-----------------------------------------------------------------------------
(* ChunkedBodySource *)

Decoding(step) == c.st = "pump" /\ c.src.kind = "chunked" /\ c.src.step = step

(* The size line is complete: read_size_line goes on. *)
SizeLine(x) ==
  IF x.src.line # "num" THEN {Drop(x)}
  ELSE {[x EXCEPT !.src.rem = n, !.src.line = "empty",
                  !.src.step = IF n = 0 THEN "trailer" ELSE "payload"]
          : n \in 0..MaxChunk}

TrailerLine(x) ==
  IF x.src.line = "empty" THEN {End(x)} ELSE {[x EXCEPT !.src.line = "empty"]}

(* The line after one more byte: "num" is one that strtoul can convert.    *)
Gather(line, b) == IF b = "cr" \/ line # "empty" THEN line
                   ELSE IF b = "digit" THEN "num" ELSE "junk"

(* read_line_byte.  The handler looks at its own copy of the one-byte      *)
(* buffer, taken before the read: an uninitialised byte, any byte at all.  *)
read_line_byte ==
  /\ Decoding("size") \/ Decoding("trailer")
  /\ \/ /\ Reads(1) # {}
        /\ \E b \in {"lf", "cr", "digit", "other"} :
             LET x == Take(c, 1) IN
             IF b # "lf" THEN c' = [x EXCEPT !.src.line = Gather(@, b)]
             ELSE c' \in IF c.src.step = "size" THEN SizeLine(x)
                         ELSE TrailerLine(x)
     \/ AtEof /\ c' = Drop(c)
  /\ UNCHANGED <<msgs, wire, net>>

(* Altered: the next chunk is read at the place of the last one. *)
read_chunk_payload_Again ==
  /\ Decoding("payload")
  /\ \/ \E n \in Reads(Least(PumpCap, c.src.rem)) :
          c' = Hand([c EXCEPT !.src.rem = @ - n], c.rd, n)
     \/ AtEof /\ c' = Drop(c)
  /\ UNCHANGED <<msgs, wire, net>>

(* The units of a chunk; after the last one the CRLF is read first. *)
read_chunk_payload ==
  /\ Decoding("payload")
  /\ \/ \E n \in Reads(Least(PumpCap, c.src.rem)) :
          LET x == Take([c EXCEPT !.src.rem = @ - n], n) IN
          c' = IF n < c.src.rem THEN Hand(x, c.rd, n)
               ELSE [x EXCEPT !.chunk = Span(c.rd, n), !.src.step = "crlf",
                              !.src.skip = 2]
     \/ AtEof /\ c' = Drop(c)
  /\ UNCHANGED <<msgs, wire, net>>

skip_crlf ==
  /\ Decoding("crlf")
  /\ \/ \E n \in Reads(c.src.skip) :
          LET x == Take([c EXCEPT !.src.skip = @ - n], n) IN
          c' = IF n < c.src.skip THEN x
               ELSE [x EXCEPT !.src.step = "size", !.st = "write"]
     \/ AtEof /\ c' = Drop(c)
  /\ UNCHANGED <<msgs, wire, net>>

-----------------------------------------------------------------------------
(* The operation in flight, a read or a write, reports an error, or no     *)
(* backend is found for the request.                                       *)
OperationFails ==
  /\ \/ c.st = "parse" /\ c' = Fail(c)
     \/ c.st \in {"head", "pump", "write"} /\ c' = Drop(c)
  /\ UNCHANGED <<msgs, wire, net>>

(* The connection carries the next message: RelaySession::request_phase,   *)
(* or a release to the pool and the next exchange on it.  Nothing asks     *)
(* whether the last message was read to its end.                           *)
NextMessage ==
  /\ c.st \in {"ended", "dropped"} /\ c.keep
  /\ c' = [c EXCEPT !.st = "parse", !.from = c.rd]
  /\ UNCHANGED <<msgs, wire, net>>

Sources == \/ BufferBodySource \/ StreamBodySource \/ StreamEofBodySource
           \/ read_line_byte \/ read_chunk_payload \/ skip_crlf

Next == \/ Arrive \/ PeerCloses \/ OperationFails
        \/ read_header_block \/ async_write_head \/ Sources \/ PumpWrite
        \/ NextMessage

Spec == Init /\ [][Next]_vars

(* What was sent arrives, and the io_context runs the handlers that are    *)
(* ready.  Nothing makes a peer close or an operation fail.                *)
FairSpec == /\ Spec
            /\ WF_vars(Arrive) /\ WF_vars(async_write_head)
            /\ WF_vars(Sources) /\ WF_vars(PumpWrite)

-----------------------------------------------------------------------------
(* Properties *)

(* The codec and its source keep their types, remaining_ included, which   *)
(* is never below zero, and nothing is read before it arrives.             *)
TypeOK == /\ wire \in Seq({"head", "end", "data", "size", "nl", "cr", "blank"})
          /\ net \in [arrived : 0..Len(wire), fin : BOOLEAN, early : BOOLEAN]
          /\ c \in Codec
          /\ c.rd <= net.arrived

Genuine == c.msg \in 1..2
Moved == c.out \o c.chunk

(* The body that is forwarded is a run of the message's own units without  *)
(* a gap, which goes to the end of the body when the message ends.  It     *)
(* begins where the body begins, or else where the read of the header      *)
(* block left off: body units that came with the head are lost if the body *)
(* was not complete (the FIXMEs of read_header_block) or has no length.    *)
BodyAccounted ==
  Genuine /\ msgs[c.msg].framing \in {"length", "close"} =>
    LET e == EndOf(c.msg)
        whole == msgs[c.msg].framing = "length" /\ c.hd >= e
        start == IF whole THEN BodyAt(c.msg) ELSE c.hd
    IN  /\ Moved = Span(start, Len(Moved)) /\ start + Len(Moved) <= e
        /\ c.st = "ended" /\ msgs[c.msg].framing = "length"
             => start + Len(Moved) = e

(* However the framing is misread, no unit is forwarded twice, out of      *)
(* order, or as part of another message.                                   *)
OwnUnitsInOrder ==
  Genuine => /\ \A i \in 1..Len(Moved) :
                  BodyAt(c.msg) < Moved[i] /\ Moved[i] <= EndOf(c.msg)
             /\ \A i, j \in 1..Len(Moved) : i < j => Moved[i] < Moved[j]

(* A connection that is kept is at a message boundary when the next parse  *)
(* starts, so that no head is made up of a body - unless a message was     *)
(* chunked, or the peer sent the next one before the answer, or a message  *)
(* was given up, after an error that write_error reports or that           *)
(* response_phase ignores, with some of it still to come.                  *)
Synced ==
  net.early \/ c.cut \/ \E i \in 1..2 : msgs[i].framing = "chunked"
  \/ /\ c.msg # 3
     /\ c.st = "parse" => c.from = IF c.msg = 0 THEN 0 ELSE EndOf(c.msg)

(* A body with a length comes to its end, or is given up after an error,   *)
(* once its units have arrived: the source never waits for more than the   *)
(* peer has announced.                                                     *)
BodyEnds ==
  \A i \in 1..2 :
    c.msg = i /\ msgs[i].framing = "length" /\ c.st = "pump"
      ~> c.st \in {"ended", "dropped"} \/ net.fin
=============================================================================
