----------------------------- MODULE QuicStream -----------------------------
(***************************************************************************)
(* A request stream of an HTTP/3 client: the class QuicTransportStream of  *)
(* src/transport/quic_transport.cpp, the lsquic callbacks that drive it,   *)
(* and the relay that uses it through H3Codec (src/codec/h3_codec.cpp).    *)
(*                                                                         *)
(* Every callback runs inside the function that completes it, so what the  *)
(* relay does next is part of the same step: the operators below map the   *)
(* stream's record to the SET of records that the whole call may leave     *)
(* behind.  lsquic is external: it says when a stream is readable,         *)
(* writeable, reset or closed, and how much of a write it takes.           *)
(***************************************************************************)
EXTENDS Naturals, Sequences

CONSTANTS MaxSize,    \* bound: units of data in one write
          MaxWrites   \* bound: writes of one response

ASSUME StreamAssumption == MaxSize \in Nat \ {0} /\ MaxWrites \in Nat

VARIABLE s  \* the stream and its user

vars == <<s>>

(* handle: stream_ is not null.  hcb, rcb: headers_cb_ and read_cb_ are    *)
(* set.  scb: whose callback shutdown_cb_ is.  want_r, want_w: what lsquic *)
(* was asked to report.  fin: the write side is shut.  dead: the sides     *)
(* that the peer reset.  use, torn, draining: the relay's place in the     *)
(* exchange, its done_ and its draining_.  writes, answers: writes begun   *)
(* and reports that the response is written.  taken, told, lost: units     *)
(* that lsquic took, that were reported written, and that had been taken   *)
(* of a write reported as failed.                                          *)
Uses == {"headers", "more", "body", "backend", "respond", "finishing",
         "drain", "ended"}

Stream ==
  [handle : BOOLEAN, hcb : BOOLEAN, rcb : BOOLEAN,
   scb : {"none", "codec", "noop"},
   wq : Seq([size : 1..MaxSize, offset : 0..MaxSize]), writing : BOOLEAN,
   want_r : BOOLEAN, want_w : BOOLEAN, fin : BOOLEAN,
   dead : SUBSET {"read", "write"},
   use : Uses, torn : BOOLEAN, draining : BOOLEAN,
   writes : Nat, answers : Nat, taken : Nat, told : Nat, lost : Nat,
   fault : BOOLEAN]

(* RelaySession::start has called async_take_headers on the new stream. *)
Init ==
  s = [handle |-> TRUE, hcb |-> TRUE, rcb |-> FALSE, scb |-> "none",
       wq |-> << >>, writing |-> FALSE, want_r |-> TRUE, want_w |-> FALSE,
       fin |-> FALSE, dead |-> {}, use |-> "headers", torn |-> FALSE,
       draining |-> FALSE, writes |-> 0, answers |-> 0,
       taken |-> 0, told |-> 0, lost |-> 0, fault |-> FALSE]

-----------------------------------------------------------------------------
(* Shutting the write side down *)

(* lsquic_stream_shutdown dereferences its argument, which is null once    *)
(* on_close has run.  It may refuse a stream of which a side is reset: the *)
(* callback then waits for on_close.                                       *)
ShutResults(x) ==
  IF x.dead = {} THEN {"shut"} ELSE {"shut", "refused"}

(* async_shutdown with the callback of teardown, which does nothing. *)
async_shutdown(x) ==
  IF ~x.handle THEN {[x EXCEPT !.fault = TRUE]}
  ELSE {IF r = "shut" THEN [x EXCEPT !.fin = TRUE, !.scb = "none"]
        ELSE [x EXCEPT !.scb = "noop"] : r \in ShutResults(x)}

teardown(x) ==
  IF x.torn THEN {x} ELSE async_shutdown([x EXCEPT !.torn = TRUE])

async_read_some(x) == [x EXCEPT !.rcb = TRUE, !.want_r = TRUE]

(* On a closed stream the read ends at once, and the relay tears down. *)
drain_client(x) ==
  IF x.torn THEN {x}
  ELSE IF x.handle THEN {async_read_some([x EXCEPT !.use = "drain"])}
  ELSE teardown([x EXCEPT !.use = "drain"])

gracefully_close_client(x) ==
  IF x.torn THEN {x}
  ELSE UNION {drain_client(y) :
                y \in async_shutdown([x EXCEPT !.draining = TRUE])}

(* The response is written: the relay's callback, on an H3 stream. *)
after_client_response(x) ==
  LET y == [x EXCEPT !.use = "ended", !.answers = @ + 1] IN
  IF x.draining THEN gracefully_close_client(y) ELSE drain_client(y)

(* The codec's last step, whatever happened before: async_shutdown, and    *)
(* then its caller's callback.                                             *)
finish(x) ==
  LET y == [x EXCEPT !.use = "finishing"] IN
  IF ~x.handle THEN {[y EXCEPT !.fault = TRUE]}
  ELSE UNION {IF r = "shut"
                THEN after_client_response([y EXCEPT !.fin = TRUE, !.scb = "none"])
                ELSE {[y EXCEPT !.scb = "codec"]} : r \in ShutResults(x)}

-----------------------------------------------------------------------------
(* Writing *)

CanWrite(x) == ~x.fin /\ "write" \notin x.dead

(* A write is reported as failed; the body pump passes that to finish. *)
WriteFails(x) ==
  finish([x EXCEPT !.lost = @ + Head(x.wq).offset, !.wq = Tail(@)])

FailAll(x) == IF x.wq = << >> THEN {x} ELSE WriteFails(x)

WriteDone(x) == [x EXCEPT !.told = @ + Head(x.wq).size, !.wq = Tail(@)]

(* Altered: a write that lsquic took in part counts as complete. *)
Take_Short(x, n) ==
  LET y == [x EXCEPT !.taken = @ + n, !.wq[1].offset = @ + n] IN
  IF n > 0 THEN WriteDone(y)
  ELSE [y EXCEPT !.writing = TRUE, !.want_w = TRUE]

(* lsquic takes n units of what is left of the first write. *)
Take(x, n) ==
  LET y == [x EXCEPT !.taken = @ + n, !.wq[1].offset = @ + n] IN
  IF Head(y.wq).offset >= Head(y.wq).size THEN WriteDone(y)
  ELSE [y EXCEPT !.writing = TRUE, !.want_w = TRUE]

pump_write(x) ==
  IF ~x.handle THEN FailAll(x)
  ELSE IF x.writing \/ x.wq = << >> THEN {x}
  ELSE IF ~CanWrite(x) THEN WriteFails(x)
  ELSE {Take(x, n) : n \in 0..(Head(x.wq).size - Head(x.wq).offset)}

async_write_some(x, size) ==
  pump_write([x EXCEPT !.wq = Append(@, [size |-> size, offset |-> 0]),
                       !.writes = @ + 1])

(* async_send_headers of a response: on a closed stream, or when the block *)
(* cannot be sent or no body follows, its callback goes to finish.         *)
Respond(x) ==
  finish(x) \cup
  (IF x.handle /\ CanWrite(x) THEN {[x EXCEPT !.use = "respond"]} ELSE {})

-----------------------------------------------------------------------------
(* What a completed read leads to, by the place of the relay *)

ReadDone(x, result) ==
  LET y == [x EXCEPT !.rcb = FALSE] IN
  CASE x.use = "body" /\ result = "data"  -> {[y EXCEPT !.use = "more"]}
    [] x.use = "body" /\ result = "eof"   -> {[y EXCEPT !.use = "backend"]}
    [] x.use = "body" /\ result = "reset" -> Respond(y)
    [] x.use = "drain" /\ result = "data" -> drain_client(y)
    [] OTHER                              -> teardown(y)

(* lsquic's callbacks *)

ReadResults(x) ==
  IF "read" \in x.dead THEN {"reset"} ELSE {"data", "eof", "again"}

(* A header set is handed out as long as the peer has not reset the side   *)
(* that is read.  Without one the take stays pending (try_take_headers).   *)
HeadersTaken == /\ s.hcb /\ "read" \notin s.dead
                /\ s' = [s EXCEPT !.hcb = FALSE, !.use = "more"]

(* Altered: a false alarm leaves the read without a wantread. *)
on_readable_NotRearmed ==
  /\ s.handle /\ s.want_r
  /\ \/ HeadersTaken
     \/ ~s.hcb /\ s.rcb /\ \E r \in ReadResults(s) :
          LET y == [s EXCEPT !.want_r = FALSE] IN
          IF r = "again" THEN s' = y ELSE s' \in ReadDone(y, r)

on_readable ==
  /\ s.handle /\ s.want_r
  /\ \/ HeadersTaken
     \/ ~s.hcb /\ s.rcb /\ \E r \in ReadResults(s) :
          LET y == [s EXCEPT !.want_r = FALSE] IN
          IF r = "again" THEN s' = [y EXCEPT !.want_r = TRUE]
          ELSE s' \in ReadDone(y, r)

on_writeable ==
  /\ s.handle /\ s.want_w
  /\ s' \in pump_write([s EXCEPT !.writing = FALSE])

(* The callbacks that on_close makes, one after the other. *)
ReadEnds(x)  == IF x.rcb THEN ReadDone(x, "eof") ELSE {x}
ShutEnds(x)  == IF x.scb = "codec"
                  THEN after_client_response([x EXCEPT !.scb = "none"])
                  ELSE {[x EXCEPT !.scb = "none"]}
Ends(Step(_), xs) == UNION {IF x.fault THEN {x} ELSE Step(x) : x \in xs}

(* Altered: a pending read is forgotten. *)
on_close_DropsRead ==
  /\ s.handle
  /\ \E y \in Ends(ShutEnds, Ends(FailAll, {[s EXCEPT !.handle = FALSE]})) :
       s' = [y EXCEPT !.writing = FALSE]

on_close ==
  /\ s.handle
  /\ \E y \in Ends(ShutEnds, Ends(FailAll,
                Ends(ReadEnds, {[s EXCEPT !.handle = FALSE]}))) :
       s' = [y EXCEPT !.writing = FALSE]

(* how: the sides that the peer resets.  A lost read comes first. *)
on_reset(how) ==
  LET x == [s EXCEPT !.dead = @ \cup how]
      read == IF "read" \in how /\ s.rcb THEN ReadDone(x, "reset") ELSE {x}
  IN  /\ s.handle
      /\ \E y \in read :
           IF "write" \in how
             THEN \E z \in FailAll(y) : s' = [z EXCEPT !.writing = FALSE]
             ELSE s' = y

-----------------------------------------------------------------------------
(* The relay's own steps, when its backend or a timer calls it.  Nothing   *)
(* runs after a fault, which only a closed stream can have: the process is *)
(* gone.                                                                   *)
Running == ~s.fault

ReadBody ==
  /\ Running /\ s.use = "more"
  /\ IF s.handle THEN s' = async_read_some([s EXCEPT !.use = "body"])
     ELSE s' = [s EXCEPT !.use = "backend"]

StartResponse ==
  Running /\ s.use \in {"more", "backend"} /\ s' \in Respond(s)

(* Altered: the next write does not wait for the one before it. *)
WriteChunk_Pipelined ==
  /\ Running /\ s.use = "respond" /\ s.writes < MaxWrites
  /\ \E size \in 1..MaxSize : s' \in async_write_some(s, size)

WriteChunk ==
  /\ Running /\ s.use = "respond" /\ s.wq = << >> /\ s.writes < MaxWrites
  /\ \E size \in 1..MaxSize : s' \in async_write_some(s, size)

EndOfBody ==
  Running /\ s.use = "respond" /\ s.wq = << >> /\ s' \in finish(s)

(* Altered: the stream is shut down in every phase of the relay. *)
graceful_close_AnyPhase ==
  /\ Running /\ ~s.torn /\ ~s.draining
  /\ s' \in async_shutdown([s EXCEPT !.draining = TRUE])

graceful_close ==
  /\ Running /\ ~s.torn /\ ~s.draining
  /\ IF s.use = "headers"
       THEN s' \in async_shutdown([s EXCEPT !.draining = TRUE])
       ELSE s' = [s EXCEPT !.draining = TRUE]

IdleTimeout == Running /\ ~s.torn /\ s' \in teardown(s)

Next ==
  \/ on_readable \/ on_writeable \/ on_close
  \/ \E how \in {{"read"}, {"write"}, {"read", "write"}} : on_reset(how)
  \/ ReadBody \/ StartResponse \/ WriteChunk \/ EndOfBody
  \/ graceful_close \/ IdleTimeout

Spec == Init /\ [][Next]_vars

-----------------------------------------------------------------------------
(* Properties *)

(* Every field has its type, and a relay has one write in the queue at     *)
(* most: pump_write leaves the writes behind a completed one for an        *)
(* on_writeable that it does not ask for.                                  *)
TypeOK == s \in Stream /\ Len(s.wq) <= 1

(* What lsquic took is what the relay was told it wrote, what was taken of *)
(* failed writes, and what was taken of the write in progress: a write cut *)
(* by flow control is resumed where it stopped, and no unit is sent twice  *)
(* or skipped (pump_write, op.offset).                                     *)
WritesAccounted ==
  s.taken = s.told + s.lost + (IF s.wq = << >> THEN 0 ELSE Head(s.wq).offset)

(* A write in the queue has asked lsquic to be resumed, and a read on an   *)
(* open stream has asked for data, also after a false alarm (on_readable,  *)
(* EAGAIN) or a reset: lsquic reports both a reset and a close, so that    *)
(* neither waits for an event that never comes.  The same cannot be said   *)
(* of a take of headers: on_reset and on_close leave headers_cb_ pending,  *)
(* although on_reset means to unblock any pending operation.               *)
NoStalledOperation ==
  ~s.fault => /\ s.wq # << >> => s.writing /\ s.want_w
              /\ s.handle /\ s.rcb => s.want_r

(* Once the stream is closed no read, write or shutdown is left waiting:   *)
(* on_close was the last call that could complete it.  A take of headers   *)
(* is left waiting: on_close does not look at headers_cb_.                 *)
ClosedSettled ==
  ~s.handle /\ ~s.fault => ~s.rcb /\ s.wq = << >> /\ s.scb = "none"

(* A relay hears once at most that its response is written: the second     *)
(* time it would hand its backend connection back again.  A response whose *)
(* shutdown lsquic refused is still reported by on_close: until the relay  *)
(* is torn down, no other async_shutdown replaces the codec's callback in  *)
(* the only slot there is (shutdown_cb_).                                  *)
AnsweredOnce ==
  /\ s.answers <= 1
  /\ s.use = "finishing" /\ ~s.torn /\ ~s.fault => s.scb = "codec"

(* docs/transport.md: after a close every async_ call is safe and returns  *)
(* EOF.  async_shutdown passes the null stream_ to lsquic.                 *)
ClosedIsSafe == ~s.fault

=============================================================================
