---------------------------- MODULE RelaySession ----------------------------
(***************************************************************************)
(* The relay of src/proxy/relay_session.{h,cpp}: one client stream (a TCP  *)
(* connection or one QUIC stream) and the HTTP exchanges carried over it.  *)
(*                                                                         *)
(* A relay lives on one worker thread.  Every function of the class is an  *)
(* operator on the relay's record r, with the function's name; a function  *)
(* that starts an asynchronous operation leaves its name in r.op, and the  *)
(* completion handler is an action guarded by that name.  Handlers of      *)
(* independent operations (the chain r.op, the two pumps, the idle timer,  *)
(* a posted graceful_close) run one at a time and in any order.            *)
(***************************************************************************)
EXTENDS Naturals, FiniteSets

CONSTANTS
  Requests,     \* the requests a client may send: records in Request
  Responses,    \* the responses a backend may send: a set of statuses
  IdleTimeout,  \* idle_timeout_ > 0
  MaxRequests   \* bound: requests a client sends on one stream

(* What the relay looks at in a request head.  valid: the CONNECT target   *)
(* or the absolute-form URL is well formed, or the host has a route.       *)
Request == [kind : {"connect", "absolute", "origin"}, valid : BOOLEAN,
            upgrade : BOOLEAN, body : BOOLEAN, keep_alive : BOOLEAN]

(* The status of a response: "switch" is 101, "err" is >= 400.  How much   *)
(* of it is on the connection when it goes back to the pool is the         *)
(* business of PooledExchange.                                             *)
Response == {"switch", "ok", "err"}

ASSUME RelayAssumption == /\ Requests \subseteq Request
                          /\ Responses \subseteq Response
                          /\ IdleTimeout \in BOOLEAN
                          /\ MaxRequests \in Nat

VARIABLES r,         \* the RelaySession object
          stopping,  \* graceful_shutdown has reached this relay
          silent     \* both peers have stopped sending, reading and closing

vars == <<r, stopping, silent>>

Phase == {"kRequest", "kForward", "kResponse", "kBridge", "kClosed"}

(* The operations of the callback chain, named after what they wait for.   *)
InFlight == {"connect", "tunnel_connect", "write_request", "reconnect",
             "parse_response"}
ClientWrite == {"write_response", "write_101", "write_200", "write_error"}
Op == {"none", "parse_request", "drain"} \cup InFlight \cup ClientWrite

Dir == {"up", "down"}  \* pump_bytes(client_, backend_) and the reverse

(* Fields from keep_alive to retry_allowed hold what the class or a        *)
(* closure remembers.  armed: the timer has a pending wait; expired: an    *)
(* expiry handler with a clear error code is queued.  fin: the client's    *)
(* send side is shut; doomed: the client write in flight began after that. *)
(* The rest records history: the shared counters as far as this relay      *)
(* moved them, tunnels opened, times the current request was put on a      *)
(* backend, requests taken while draining.                                 *)
Relay == [phase : Phase, done : BOOLEAN, draining : BOOLEAN, h3 : BOOLEAN,
          keep_alive : BOOLEAN, upgrade : BOOLEAN,
          backend : BOOLEAN, backend_h3 : BOOLEAN, from_pool : BOOLEAN,
          pending_body : BOOLEAN, retry_allowed : BOOLEAN,
          op : Op, pump : [Dir -> {"off", "read", "write"}],
          armed : BOOLEAN, expired : BOOLEAN,
          fin : BOOLEAN, doomed : BOOLEAN,
          requests : Nat, resp_ok : Nat, resp_err : Nat,
          backend_connects : Nat, tunnels : Nat, sends : Nat, late : Nat,
          fault : {"none", "null_backend", "resolve_throw", "closed_stream"}]

-----------------------------------------------------------------------------
(* Helpers of the class, as functions on the relay's record *)

(* Altered: the phase of a request being forwarded is not entered. *)
goto_phase_NotForward(s, p) ==
  IF p = "kForward" THEN s ELSE [s EXCEPT !.phase = p]

goto_phase(s, p) == [s EXCEPT !.phase = p]

kick_idle_timer(s) ==
  IF s.done \/ ~IdleTimeout THEN s ELSE [s EXCEPT !.armed = TRUE]

Start(s, o) == [s EXCEPT !.op = o]

WriteClient(s, o) == [s EXCEPT !.op = o, !.doomed = s.fin]

close_backend(s) == [s EXCEPT !.backend = FALSE]

teardown(s) ==
  IF s.done THEN s
  ELSE close_backend([goto_phase(s, "kClosed") EXCEPT
                        !.done = TRUE, !.armed = FALSE, !.fin = TRUE])

drain_client(s) == IF s.done THEN s ELSE Start(s, "drain")

gracefully_close_client(s) ==
  IF s.done THEN s
  ELSE drain_client([s EXCEPT !.draining = TRUE, !.fin = TRUE])

request_phase(s) ==
  Start(kick_idle_timer(goto_phase(s, "kRequest")), "parse_request")

(* Altered: draining is not looked at. *)
after_client_response_Loops(s) ==
  IF s.keep_alive /\ ~s.done /\ ~s.h3 THEN request_phase(s)
  ELSE IF ~s.h3 THEN gracefully_close_client(s)
  ELSE drain_client(s)

after_client_response(s) ==
  IF s.draining THEN gracefully_close_client(s)
  ELSE IF s.keep_alive /\ ~s.done /\ ~s.h3 THEN request_phase(s)
  ELSE IF ~s.h3 THEN gracefully_close_client(s)
  ELSE drain_client(s)

write_error(s) ==
  WriteClient([s EXCEPT !.resp_err = @ + 1], "write_error")

(* pool_->release or close_backend: either way the relay lets go of it.    *)
finish_backend(s) == [s EXCEPT !.pending_body = FALSE, !.backend = FALSE]

response_phase(s) ==
  LET t == kick_idle_timer(goto_phase(s, "kResponse"))
  IN  IF s.backend THEN Start(t, "parse_response")
      ELSE [t EXCEPT !.fault = "null_backend"]

bridge_mode(s) ==
  LET t == goto_phase(s, "kBridge")
  IN  IF s.backend THEN [t EXCEPT !.pump = [d \in Dir |-> "read"]]
      ELSE [t EXCEPT !.fault = "null_backend"]

send_backend_request(s, retry) ==
  Start([s EXCEPT !.retry_allowed = retry, !.sends = @ + 1], "write_request")

(* use_backend with a connection: fresh ones are counted. *)
use_backend(s, h3, pooled) ==
  LET t == kick_idle_timer([s EXCEPT !.backend = TRUE, !.backend_h3 = h3])
  IN  send_backend_request(
        [t EXCEPT !.from_pool = pooled,
                  !.backend_connects = IF pooled THEN @ ELSE @ + 1], TRUE)

start_tunnel(s) ==
  WriteClient([s EXCEPT !.backend = TRUE, !.tunnels = @ + 1], "write_200")

-----------------------------------------------------------------------------
(* Completion handlers of the callback chain *)

(* The handler of operation o runs: nothing else is in flight in the chain. *)
Completes(o) == /\ r.op = o
                /\ r.fault = "none"
                /\ ~silent
                /\ UNCHANGED <<stopping, silent>>

h == [r EXCEPT !.op = "none"]

(* How UpstreamPool answers a connect: a pooled connection at once, an     *)
(* error at once, a result later, or resolve() throws out of the handler.  *)
Dial(s, o, answer, h3) ==
  CASE answer = "pooled"  -> use_backend(s, h3, TRUE)
    [] answer = "refused" -> write_error(s)
    [] answer = "later"   -> Start(s, o)
    [] answer = "throws"  -> [s EXCEPT !.fault = "resolve_throw"]

reconnect_backend_fresh(s, answer) ==
  Dial(close_backend(s), "reconnect", answer, FALSE)

Answers(fresh, h3) ==
  (IF fresh THEN {} ELSE {"pooled"}) \cup
  (IF fresh /\ ~h3 THEN {} ELSE {"refused"}) \cup
  (IF h3 THEN {} ELSE {"throws"}) \cup {"later"}

(* Only the H1 codec reports a failed parse: a reset or a close of a QUIC  *)
(* stream leaves headers_cb_ pending, and a take never reports an error.   *)
ParseFailed == /\ Completes("parse_request")
               /\ ~r.h3
               /\ r' = teardown(h)

RequestParsed(q) ==
  LET s == kick_idle_timer(
             [goto_phase(h, "kForward") EXCEPT
                !.requests = @ + 1, !.keep_alive = q.keep_alive,
                !.upgrade = q.upgrade,
                !.pending_body = q.body, !.sends = 0,
                !.late = IF r.draining THEN @ + 1 ELSE @])
  IN  /\ Completes("parse_request")
      /\ r.requests < MaxRequests
      /\ r.h3 => q.body /\ ~q.keep_alive /\ q.kind # "absolute"
      /\ \/ /\ ~q.valid
            /\ r' = write_error(s)
         \/ /\ q.valid /\ q.kind = "connect"
            /\ \E a \in Answers(TRUE, FALSE) :
                 r' = Dial(s, "tunnel_connect", a, FALSE)
         \/ /\ q.valid /\ q.kind = "absolute"
            /\ \E a \in Answers(TRUE, FALSE) :
                 r' = Dial([s EXCEPT !.backend_h3 = FALSE], "connect", a, FALSE)
         \/ /\ q.valid /\ q.kind = "origin"
            /\ \E h3 \in BOOLEAN : \E a \in Answers(FALSE, h3) :
                 r' = Dial([s EXCEPT !.backend_h3 = h3], "connect", a, h3)

(* An HTTP/3 connect may still end on a pooled connection: a stream on it  *)
(* is opened later, or a stale one is replaced.                            *)
Connected == /\ Completes("connect")
             /\ \E pooled \in IF r.backend_h3 THEN BOOLEAN ELSE {FALSE} :
                  r' = use_backend(h, r.backend_h3, pooled)

ConnectFailed == /\ Completes("connect")
                 /\ r' = write_error(h)

TunnelConnected == /\ Completes("tunnel_connect")
                   /\ r' = start_tunnel(h)

TunnelConnectFailed == /\ Completes("tunnel_connect")
                       /\ r' = write_error(h)

(* Altered: the backend is closed once the request is written. *)
RequestWritten_Closes ==
  /\ Completes("write_request")
  /\ r' = response_phase(
            close_backend(kick_idle_timer([h EXCEPT !.pending_body = FALSE])))

RequestWritten == /\ Completes("write_request")
                  /\ r' = response_phase(
                            kick_idle_timer([h EXCEPT !.pending_body = FALSE]))

(* The backend's QUIC stream closed before the request was out: the codec  *)
(* shuts down a null stream, or, when a refused shutdown is completed by   *)
(* the close, is refused the headers and calls a callback it moved from.   *)
BackendStreamGone ==
  /\ Completes("write_request")
  /\ r.backend /\ r.backend_h3
  /\ r' = [h EXCEPT !.fault = "closed_stream"]

(* Altered: a request with a body is retried too. *)
RequestWriteFailed_AnyBody ==
  /\ Completes("write_request")
  /\ ~r.backend_h3
  /\ IF r.retry_allowed /\ r.from_pool
     THEN \E a \in Answers(TRUE, FALSE) : r' = reconnect_backend_fresh(h, a)
     ELSE r' = write_error(close_backend(h))

(* Only the H1 codec reports a failed request write: H3's finish step      *)
(* drops the error and reports the shutdown's result.                      *)
RequestWriteFailed ==
  /\ Completes("write_request")
  /\ ~r.backend_h3
  /\ \/ /\ r.retry_allowed /\ r.from_pool /\ ~r.pending_body
        /\ \E a \in Answers(TRUE, FALSE) :
             r' = reconnect_backend_fresh(h, a)
     \/ /\ ~(r.retry_allowed /\ r.from_pool /\ ~r.pending_body)
        /\ r' = write_error(close_backend(h))

Reconnected ==
  /\ Completes("reconnect")
  /\ r' = send_backend_request(
            [h EXCEPT !.backend = TRUE, !.from_pool = FALSE,
                      !.backend_connects = @ + 1], FALSE)

ReconnectFailed == /\ Completes("reconnect")
                   /\ r' = write_error(h)

(* Altered: the backend is kept. *)
ResponseFailed_KeepsBackend == /\ Completes("parse_response")
                               /\ ~r.backend_h3
                               /\ r' = write_error(h)

(* As for ParseFailed: an HTTP/3 backend that resets or closes its stream  *)
(* leaves the take of the response headers pending.                        *)
ResponseFailed == /\ Completes("parse_response")
                  /\ ~r.backend_h3
                  /\ r' = write_error(close_backend(h))

ResponseParsed(a) ==
  LET s == kick_idle_timer(
             [h EXCEPT !.resp_err = IF a = "err" THEN @ + 1 ELSE @,
                       !.resp_ok = IF a = "err" THEN @ ELSE @ + 1])
  IN  /\ Completes("parse_response")
      /\ r' = WriteClient(s, IF r.upgrade /\ a = "switch"
                             THEN "write_101" ELSE "write_response")

(* The callback of write_response ignores how the write ended. *)
ResponseWritten == /\ Completes("write_response")
                   /\ r' = after_client_response(finish_backend(h))

ErrorWritten == /\ Completes("write_error")
                /\ r' = after_client_response(h)

(* 101 and 200: an error tears down, but H3's write reports none. *)
BridgeHeadWritten ==
  /\ Completes("write_101") \/ Completes("write_200")
  /\ r.doomed => r.h3
  /\ r' = bridge_mode([h EXCEPT !.from_pool = @ /\ r.op = "write_200"])

(* Altered: the client may send its next request. *)
BridgeHeadFailed_Loops == /\ Completes("write_101") \/ Completes("write_200")
                          /\ ~r.h3
                          /\ r' = after_client_response(close_backend(h))

BridgeHeadFailed == /\ Completes("write_101") \/ Completes("write_200")
                    /\ ~r.h3
                    /\ r' = teardown(h)

DrainRead == /\ Completes("drain")
             /\ r' = IF r.done THEN h ELSE drain_client(kick_idle_timer(h))

(* Altered: the drain reads on at the end of the stream. *)
DrainEof_ReadsOn == /\ Completes("drain")
                    /\ r' = drain_client(h)

DrainEof == /\ Completes("drain")
            /\ r' = teardown(h)

-----------------------------------------------------------------------------
(* The byte bridge, the timer, shutdown, and the peers *)

(* A pump's read or write completed; ok: no error and, for a read, n > 0.  *)
PumpStep(d, ok) ==
  /\ r.pump[d] # "off"
  /\ r.fault = "none" /\ ~silent
  /\ r' = IF r.done THEN [r EXCEPT !.pump[d] = "off"]
          ELSE IF ~ok THEN teardown([r EXCEPT !.pump[d] = "off"])
          ELSE kick_idle_timer(
                 [r EXCEPT !.pump[d] = IF @ = "read" THEN "write" ELSE "read"])
  /\ UNCHANGED <<stopping, silent>>

(* The wait completes: its handler is queued and can no longer be recalled *)
(* by re-arming or cancelling the timer.                                   *)
TimerExpires == /\ r.armed /\ r.fault = "none"
                /\ r' = [r EXCEPT !.armed = FALSE, !.expired = TRUE]
                /\ UNCHANGED <<stopping, silent>>

(* Altered: a draining relay is given another period. *)
IdleTimeoutHandler_Waits ==
  /\ r.expired /\ r.fault = "none"
  /\ r' = IF r.draining THEN kick_idle_timer([r EXCEPT !.expired = FALSE])
          ELSE teardown([r EXCEPT !.expired = FALSE])
  /\ UNCHANGED <<stopping, silent>>

IdleTimeoutHandler == /\ r.expired /\ r.fault = "none"
                      /\ r' = teardown([r EXCEPT !.expired = FALSE])
                      /\ UNCHANGED <<stopping, silent>>

graceful_close ==
  /\ ~stopping /\ r.fault = "none"
  /\ stopping' = TRUE
  /\ r' = IF r.done THEN r
          ELSE [r EXCEPT !.draining = TRUE, !.fin = @ \/ r.phase = "kRequest"]
  /\ UNCHANGED silent

(* From some point on neither peer sends, reads or closes. *)
GoSilent == /\ ~silent
            /\ silent' = TRUE
            /\ UNCHANGED <<r, stopping>>

(* The constructor; start() then runs request_phase. *)
NewRelay(h3) ==
  [phase |-> "kRequest", done |-> FALSE, draining |-> FALSE, h3 |-> h3,
   keep_alive |-> FALSE, upgrade |-> FALSE,
   backend |-> FALSE, backend_h3 |-> FALSE, from_pool |-> FALSE,
   pending_body |-> FALSE, retry_allowed |-> FALSE,
   op |-> "none", pump |-> [d \in Dir |-> "off"], armed |-> FALSE, expired |-> FALSE,
   fin |-> FALSE, doomed |-> FALSE,
   requests |-> 0, resp_ok |-> 0, resp_err |-> 0, backend_connects |-> 0,
   tunnels |-> 0, sends |-> 0, late |-> 0, fault |-> "none"]

Init == /\ \E h3 \in BOOLEAN : r = request_phase(NewRelay(h3))
        /\ stopping = FALSE
        /\ silent = FALSE

Next ==
  \/ ParseFailed \/ \E q \in Requests : RequestParsed(q)
  \/ Connected \/ ConnectFailed
  \/ TunnelConnected \/ TunnelConnectFailed
  \/ RequestWritten \/ RequestWriteFailed \/ BackendStreamGone
  \/ Reconnected \/ ReconnectFailed
  \/ ResponseFailed \/ \E a \in Responses : ResponseParsed(a)
  \/ ResponseWritten \/ ErrorWritten
  \/ BridgeHeadWritten \/ BridgeHeadFailed
  \/ DrainRead \/ DrainEof
  \/ \E d \in Dir, ok \in BOOLEAN : PumpStep(d, ok)
  \/ TimerExpires \/ IdleTimeoutHandler
  \/ graceful_close \/ GoSilent

(* What a relay waits for may never come from a QUIC peer: the headers of  *)
(* a stream that is reset or closed, and the stream that lsquic failed to  *)
(* open.  Nothing re-arms the idle timer during these waits.               *)
MayStayUnanswered == \/ r.op = "parse_request" /\ r.h3
                     \/ r.op \in {"connect", "parse_response"} /\ r.backend_h3

(* Only the timer is owed progress: a peer may stay silent for ever.  Its  *)
(* wait is owed an expiry once nothing re-arms it any more.                *)
Fairness == /\ WF_vars((silent \/ MayStayUnanswered) /\ TimerExpires)
            /\ WF_vars(IdleTimeoutHandler)

(* The peers answer: whatever else the relay waits for arrives, fails or   *)
(* ends, and a client that was sent a FIN stops sending at some point.     *)
PeersAnswer ==
  /\ WF_vars(~MayStayUnanswered /\ (ParseFailed \/ \E q \in Requests : RequestParsed(q)))
  /\ WF_vars(~MayStayUnanswered /\ (Connected \/ ConnectFailed))
  /\ WF_vars(TunnelConnected \/ TunnelConnectFailed)
  /\ WF_vars(RequestWritten \/ RequestWriteFailed \/ BackendStreamGone)
  /\ WF_vars(Reconnected \/ ReconnectFailed)
  /\ WF_vars(~MayStayUnanswered
              /\ (ResponseFailed \/ \E a \in Responses : ResponseParsed(a)))
  /\ WF_vars(ResponseWritten \/ ErrorWritten)
  /\ WF_vars(BridgeHeadWritten \/ BridgeHeadFailed)
  /\ SF_vars(DrainEof)

Spec == Init /\ [][Next]_vars

FairSpec == Spec /\ Fairness /\ PeersAnswer

-----------------------------------------------------------------------------
(* Properties *)

(* The relay's record and the two flags keep their types. *)
TypeOK == /\ r \in Relay
          /\ stopping \in BOOLEAN
          /\ silent \in BOOLEAN

PumpsOff == \A d \in Dir : r.pump[d] = "off"

(* Every request counted in ProxyStats is answered once: by a counted      *)
(* response, by a counted local error or by an opened tunnel, and at most  *)
(* one is still on its way (request_phase, response_phase, write_error).   *)
Accounting ==
  r.fault = "none" =>
    r.requests = r.resp_ok + r.resp_err + r.tunnels
                 + (IF r.op \in InFlight THEN 1 ELSE 0)

(* send_backend_request puts a request on a backend at most twice, and the *)
(* second time only a request without a body, on a fresh connection, with  *)
(* no further retry.                                                       *)
RetryOnce ==
  /\ r.sends <= 2
  /\ r.sends = 2 /\ r.op = "write_request" =>
       ~r.pending_body /\ ~r.from_pool /\ ~r.retry_allowed

BackendNeeded == \/ r.op \in {"write_request", "parse_response",
                              "write_response", "write_101", "write_200"}
                 \/ ~PumpsOff

(* backend_ of a live relay is held exactly as long as an operation needs  *)
(* it: the relay never writes, reads or pumps without one, and keeps none  *)
(* past the exchange or the bridge that used it.                           *)
BackendHeldWhileNeeded ==
  r.fault = "none" /\ ~r.done => (r.backend <=> BackendNeeded)

(* Phase::kRequest means that only a read is pending, so that              *)
(* graceful_close may FIN: no write, no backend, no bridge.                *)
QuietBetweenRequests ==
  r.phase = "kRequest" =>
    r.op = "parse_request" /\ ~r.backend /\ PumpsOff /\ ~r.done

(* kick_idle_timer: with a timeout configured every wait of a live relay   *)
(* is bounded, and teardown leaves no pending wait behind.                 *)
TimerCoversLiveRelay ==
  IF r.done THEN ~r.armed ELSE IdleTimeout => r.armed \/ r.expired

(* A relay that drains takes at most one more request: the one whose read  *)
(* was pending when graceful_close ran.                                    *)
OneRequestWhileDraining == r.late <= 1

(* The null backend_ is only ever reached by a handler that runs after     *)
(* teardown: a live relay does not reach it.                               *)
NullBackendOnlyAfterTeardown == r.fault = "null_backend" => r.done

(* ADR-10: a relay whose peers fall silent is torn down. *)
SilentRelayTornDown == silent ~> (r.done \/ r.fault # "none")

(* graceful_close ends the relay as long as the peers answer, and without  *)
(* the help of the timer except in the waits that a QUIC peer may leave    *)
(* unanswered; a byte bridge may outlive it until the hard stop.           *)
DrainCompletes ==
  stopping ~> (r.done \/ silent \/ r.phase = "kBridge" \/ r.fault # "none")

(* The counters of the relay as those of the ledger. *)
Ledger == INSTANCE ExchangeLedger WITH received <- r.requests,
                                       answered <- r.resp_ok + r.resp_err,
                                       tunnelled <- r.tunnels

(* The relay implements the ledger: one request at a time, one answer      *)
(* each, nothing after a tunnel - whatever fails, expires or drains.       *)
LedgerKept == Ledger!Spec
=============================================================================
