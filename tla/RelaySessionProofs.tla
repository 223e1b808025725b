------------------------- MODULE RelaySessionProofs -------------------------
(***************************************************************************)
(* Proofs about RelaySession, for every set of requests and responses and  *)
(* every number of requests on a connection.                               *)
(***************************************************************************)
EXTENDS RelaySession, TLAPS

-----------------------------------------------------------------------------
(* The inductive invariant, as a predicate on the relay's record *)

Off(s) == \A d \in Dir : s.pump[d] = "off"

Owed(s) == IF s.op \in InFlight THEN 1 ELSE 0

Balanced(s, n) == s.requests = s.resp_ok + s.resp_err + s.tunnels + n

Timed(s) == /\ s.done => ~s.armed
            /\ ~s.done /\ IdleTimeout => s.armed \/ s.expired

Holding == {"write_request", "parse_response", "write_response", "write_101",
            "write_200"}

Held(s) == s.backend <=> s.op \in Holding \/ ~Off(s)

Retries(s) ==
  /\ s.sends <= 2
  /\ s.op = "connect" => s.sends = 0
  /\ s.op = "reconnect" => s.sends = 1 /\ ~s.pending_body
  /\ s.op = "write_request" =>
       \/ s.retry_allowed /\ s.sends = 1
       \/ /\ ~s.retry_allowed /\ s.sends = 2
          /\ ~s.from_pool /\ ~s.pending_body

Drains(s) == /\ s.late <= 1
             /\ ~s.draining => s.late = 0
             /\ s.op = "parse_request" => s.late = 0

Good(s) ==
  /\ s \in Relay
  /\ s.fault = "none" => Balanced(s, Owed(s))
  /\ s.tunnels = 0 \/ s.op \in {"none", "write_200"}
  /\ Timed(s)
  /\ s.fault = "none" /\ ~s.done => Held(s)
  /\ s.phase = "kRequest" =>
       s.op = "parse_request" /\ ~s.backend /\ Off(s) /\ ~s.done
  /\ Off(s) \/ s.op = "none"
  /\ Retries(s)
  /\ Drains(s)
  /\ s.fault = "null_backend" => s.done

GoodInv == Good(r) /\ stopping \in BOOLEAN /\ silent \in BOOLEAN

(* A handler of the chain is running: its operation is over and it has not *)
(* started another.  Handlers other than request_phase's run in a phase    *)
(* past kRequest.                                                          *)
Running(s) == /\ s \in Relay /\ s.op = "none" /\ s.fault = "none" /\ Off(s)
              /\ Timed(s) /\ s.phase # "kRequest"
              /\ s.sends <= 2 /\ s.late <= 1 /\ (~s.draining => s.late = 0)

(* ... and a request is owed an answer, or none is. *)
Owes(s) == Running(s) /\ s.tunnels = 0 /\ Balanced(s, 1)

Settled(s) == /\ Running(s) /\ s.tunnels = 0 /\ Balanced(s, 0)
              /\ ~s.done => ~s.backend

(* What most helpers leave alone. *)
Kept(s, t) ==
  /\ t.phase = s.phase /\ t.done = s.done /\ t.draining = s.draining
  /\ t.fault = s.fault /\ t.pump = s.pump /\ t.armed = s.armed
  /\ t.expired = s.expired /\ t.requests = s.requests
  /\ t.resp_ok = s.resp_ok /\ t.tunnels = s.tunnels /\ t.late = s.late

-----------------------------------------------------------------------------
(* The helpers *)

(* Each field may be given a new value of its type.  Updates of several    *)
(* fields follow one field at a time.                                      *)
LEMMA Updates ==
  /\ \A s \in Relay : \A x \in BOOLEAN : [s EXCEPT !.done = x] \in Relay
  /\ \A s \in Relay : \A x \in BOOLEAN : [s EXCEPT !.armed = x] \in Relay
  /\ \A s \in Relay : \A x \in BOOLEAN : [s EXCEPT !.draining = x] \in Relay
  /\ \A s \in Relay : \A x \in BOOLEAN : [s EXCEPT !.fin = x] \in Relay
  /\ \A s \in Relay : \A x \in BOOLEAN : [s EXCEPT !.doomed = x] \in Relay
  /\ \A s \in Relay : \A x \in BOOLEAN : [s EXCEPT !.expired = x] \in Relay
  /\ \A s \in Relay : \A x \in BOOLEAN : [s EXCEPT !.backend = x] \in Relay
  /\ \A s \in Relay : \A x \in BOOLEAN : [s EXCEPT !.backend_h3 = x] \in Relay
  /\ \A s \in Relay : \A x \in BOOLEAN : [s EXCEPT !.from_pool = x] \in Relay
  /\ \A s \in Relay : \A x \in BOOLEAN : [s EXCEPT !.retry_allowed = x] \in Relay
  /\ \A s \in Relay : \A x \in BOOLEAN : [s EXCEPT !.keep_alive = x] \in Relay
  /\ \A s \in Relay : \A x \in BOOLEAN : [s EXCEPT !.upgrade = x] \in Relay
  /\ \A s \in Relay : \A x \in BOOLEAN : [s EXCEPT !.pending_body = x] \in Relay
  /\ \A s \in Relay : \A x \in Nat : [s EXCEPT !.requests = x] \in Relay
  /\ \A s \in Relay : \A x \in Nat : [s EXCEPT !.sends = x] \in Relay
  /\ \A s \in Relay : \A x \in Nat : [s EXCEPT !.late = x] \in Relay
  /\ \A s \in Relay : \A x \in Nat : [s EXCEPT !.resp_ok = x] \in Relay
  /\ \A s \in Relay : \A x \in Nat : [s EXCEPT !.resp_err = x] \in Relay
  /\ \A s \in Relay : \A x \in Nat : [s EXCEPT !.tunnels = x] \in Relay
  /\ \A s \in Relay : \A x \in Nat : [s EXCEPT !.backend_connects = x] \in Relay
  /\ \A s \in Relay : \A x \in Op : [s EXCEPT !.op = x] \in Relay
  /\ \A s \in Relay : \A x \in Phase : [s EXCEPT !.phase = x] \in Relay
  <1>1. \A s \in Relay : \A x \in BOOLEAN : [s EXCEPT !.done = x] \in Relay
    BY DEF Relay
  <1>2. \A s \in Relay : \A x \in BOOLEAN : [s EXCEPT !.armed = x] \in Relay
    BY DEF Relay
  <1>3. \A s \in Relay : \A x \in BOOLEAN : [s EXCEPT !.draining = x] \in Relay
    BY DEF Relay
  <1>4. \A s \in Relay : \A x \in BOOLEAN : [s EXCEPT !.fin = x] \in Relay
    BY DEF Relay
  <1>5. \A s \in Relay : \A x \in BOOLEAN : [s EXCEPT !.doomed = x] \in Relay
    BY DEF Relay
  <1>6. \A s \in Relay : \A x \in BOOLEAN : [s EXCEPT !.expired = x] \in Relay
    BY DEF Relay
  <1>7. \A s \in Relay : \A x \in BOOLEAN : [s EXCEPT !.backend = x] \in Relay
    BY DEF Relay
  <1>8. \A s \in Relay : \A x \in BOOLEAN : [s EXCEPT !.backend_h3 = x] \in Relay
    BY DEF Relay
  <1>9. \A s \in Relay : \A x \in BOOLEAN : [s EXCEPT !.from_pool = x] \in Relay
    BY DEF Relay
  <1>10. \A s \in Relay : \A x \in BOOLEAN : [s EXCEPT !.retry_allowed = x] \in Relay
    BY DEF Relay
  <1>11. \A s \in Relay : \A x \in BOOLEAN : [s EXCEPT !.keep_alive = x] \in Relay
    BY DEF Relay
  <1>12. \A s \in Relay : \A x \in BOOLEAN : [s EXCEPT !.upgrade = x] \in Relay
    BY DEF Relay
  <1>13. \A s \in Relay : \A x \in BOOLEAN : [s EXCEPT !.pending_body = x] \in Relay
    BY DEF Relay
  <1>14. \A s \in Relay : \A x \in Nat : [s EXCEPT !.requests = x] \in Relay
    BY DEF Relay
  <1>15. \A s \in Relay : \A x \in Nat : [s EXCEPT !.sends = x] \in Relay
    BY DEF Relay
  <1>16. \A s \in Relay : \A x \in Nat : [s EXCEPT !.late = x] \in Relay
    BY DEF Relay
  <1>17. \A s \in Relay : \A x \in Nat : [s EXCEPT !.resp_ok = x] \in Relay
    BY DEF Relay
  <1>18. \A s \in Relay : \A x \in Nat : [s EXCEPT !.resp_err = x] \in Relay
    BY DEF Relay
  <1>19. \A s \in Relay : \A x \in Nat : [s EXCEPT !.tunnels = x] \in Relay
    BY DEF Relay
  <1>20. \A s \in Relay : \A x \in Nat : [s EXCEPT !.backend_connects = x] \in Relay
    BY DEF Relay
  <1>21. \A s \in Relay : \A x \in Op : [s EXCEPT !.op = x] \in Relay
    BY DEF Relay
  <1>22. \A s \in Relay : \A x \in Phase : [s EXCEPT !.phase = x] \in Relay
    BY DEF Relay
  <1>q. QED
    BY <1>1, <1>2, <1>3, <1>4, <1>5, <1>6, <1>7, <1>8,
       <1>9, <1>10, <1>11, <1>12, <1>13, <1>14, <1>15, <1>16,
       <1>17, <1>18, <1>19, <1>20, <1>21, <1>22, Zenon

(* What request_phase's handler stores of a request keeps the type. *)
LEMMA RequestFields ==
  ASSUME NEW s \in Relay, NEW n \in Nat, NEW m \in Nat, NEW q \in Request
  PROVE  [s EXCEPT !.requests = n, !.keep_alive = q.keep_alive,
                   !.upgrade = q.upgrade,
                   !.pending_body = q.body, !.sends = 0, !.late = m] \in Relay
  <1> DEFINE s1 == [s EXCEPT !.requests = n, !.keep_alive = q.keep_alive]
             s2 == [s1 EXCEPT !.upgrade = q.upgrade]
             s3 == [s2 EXCEPT !.pending_body = q.body, !.sends = 0]
             s4 == [s3 EXCEPT !.late = m]
  <1>1. /\ q.keep_alive \in BOOLEAN
        /\ q.upgrade \in BOOLEAN /\ q.body \in BOOLEAN
        /\ 0 \in Nat
    BY DEF Request
  <1>2. s1 \in Relay  BY <1>1, Updates, Zenon
  <1>3. s2 \in Relay
    <2> HIDE DEF s1
    <2> QED  BY <1>1, <1>2, Updates, Zenon
  <1>4. s3 \in Relay
    <2> HIDE DEF s2
    <2> QED  BY <1>1, <1>3, Updates, Zenon
  <1>5. s4 \in Relay
    <2> HIDE DEF s3
    <2> QED  BY <1>4, Updates, Zenon
  <1>6. QED  BY <1>5, Zenon

LEMMA KickFields ==
  ASSUME NEW s \in Relay
  PROVE  LET k == kick_idle_timer(s) IN
         /\ k \in Relay
         /\ k.op = s.op /\ k.fault = s.fault /\ k.pump = s.pump
         /\ k.phase = s.phase /\ k.done = s.done /\ k.draining = s.draining
         /\ k.requests = s.requests /\ k.resp_ok = s.resp_ok
         /\ k.resp_err = s.resp_err /\ k.tunnels = s.tunnels
         /\ k.sends = s.sends /\ k.late = s.late
         /\ k.backend = s.backend /\ k.from_pool = s.from_pool
         /\ k.pending_body = s.pending_body
         /\ (s.done => ~s.armed) => Timed(k)
  <1>1. CASE s.done \/ ~IdleTimeout
    BY <1>1 DEF kick_idle_timer, Timed
  <1>2. CASE ~(s.done \/ ~IdleTimeout)
    <2> DEFINE k == [s EXCEPT !.armed = TRUE]
    <2>1. kick_idle_timer(s) = k  BY <1>2, Zenon DEF kick_idle_timer
    <2>2. k \in Relay  BY Updates, Zenon
    <2>3. QED  BY <1>2, <2>1, <2>2 DEF Timed, Relay
  <1>3. QED  BY <1>1, <1>2

(* Starting a write to the client keeps the type. *)
LEMMA WriteClientType ==
  ASSUME NEW s \in Relay, NEW o \in Op
  PROVE  WriteClient(s, o) \in Relay
  <1>1. s.fin \in BOOLEAN  BY DEF Relay
  <1>2. QED  BY <1>1, Updates, Zenon DEF WriteClient

LEMMA KickRunning ==
  ASSUME NEW s, Running(s)
  PROVE  Running(kick_idle_timer(s))
  BY KickFields DEF Running, Off, Timed

LEMMA WriteErrorGood ==
  ASSUME NEW s, Owes(s), ~s.done => ~s.backend
  PROVE  Good(write_error(s))
  <1> DEFINE t == write_error(s)
  <1>0. s \in Relay /\ s.resp_err + 1 \in Nat /\ s.fin \in BOOLEAN
        /\ s.resp_err \in Nat /\ s.resp_ok \in Nat /\ s.requests \in Nat
    BY DEF Owes, Running, Relay
  <1>1. t \in Relay
    <2> DEFINE n == s.resp_err + 1
               u == [s EXCEPT !.resp_err = n]
    <2>1. t = WriteClient(u, "write_error")  BY DEF write_error
    <2>2. n \in Nat  BY <1>0
    <2> HIDE DEF n
    <2>3. u \in Relay  BY <1>0, <2>2, Updates, Zenon
    <2>4. "write_error" \in Op  BY DEF Op, ClientWrite
    <2> HIDE DEF u
    <2>5. QED  BY <2>1, <2>3, <2>4, WriteClientType
  <1>2. /\ t.resp_err = s.resp_err + 1 /\ t.op = "write_error"
        /\ Kept(s, t) /\ t.backend = s.backend /\ t.sends = s.sends
    BY <1>0 DEF write_error, WriteClient, Relay, Kept
  <1>3. Off(t) /\ Timed(t) /\ t.late <= 1 /\ t.sends <= 2
    BY <1>2 DEF Owes, Running, Kept, Timed, Off
  <1>4. Balanced(t, Owed(t))
    BY <1>0, <1>2 DEF Owes, Kept, Balanced, Owed, InFlight
  <1>5. ~t.done => Held(t)
    BY <1>2, <1>3 DEF Kept, Held, Holding
  <1>6. Retries(t) /\ Drains(t)
    BY <1>2, <1>3 DEF Owes, Running, Kept, Retries, Drains
  <1>7. QED
    BY <1>1, <1>2, <1>3, <1>4, <1>5, <1>6 DEF Good, Owes, Running, Kept

LEMMA SettledDoneGood ==
  ASSUME NEW s, Settled(s), s.done
  PROVE  Good(s)
  <1>1. Balanced(s, Owed(s))  BY DEF Settled, Running, Owed, InFlight
  <1>2. Retries(s) /\ Drains(s)  BY DEF Settled, Running, Retries, Drains
  <1>3. QED  BY <1>1, <1>2 DEF Settled, Running, Good

LEMMA DrainGood ==
  ASSUME NEW s, Settled(s)
  PROVE  Good(drain_client(s))
  <1>1. CASE s.done  BY <1>1, SettledDoneGood DEF drain_client
  <1>2. CASE ~s.done
    <2> DEFINE t == Start(s, "drain")
    <2>0. s \in Relay  BY DEF Settled, Running
    <2>1. t \in Relay /\ t.op = "drain" /\ Kept(s, t) /\ t.backend = s.backend
          /\ t.sends = s.sends /\ t.resp_err = s.resp_err
      BY <2>0 DEF Start, Relay, Op, Kept
    <2>2. Off(t) /\ Timed(t)  BY <2>1 DEF Settled, Running, Kept, Timed, Off
    <2>3. Balanced(t, Owed(t)) 
      BY <2>1 DEF Settled, Kept, Balanced, Owed, InFlight
    <2>4. Held(t)  BY <1>2, <2>1, <2>2 DEF Settled, Kept, Held, Holding
    <2>5. Retries(t) /\ Drains(t)
      BY <2>1 DEF Settled, Running, Kept, Retries, Drains
    <2>6. Good(t)
      BY <2>1, <2>2, <2>3, <2>4, <2>5 DEF Good, Settled, Running, Kept
    <2>7. QED  BY <1>2, <2>6 DEF drain_client
  <1>3. QED  BY <1>1, <1>2

LEMMA GracefulCloseGood ==
  ASSUME NEW s, Settled(s)
  PROVE  Good(gracefully_close_client(s))
  <1>1. CASE s.done  BY <1>1, SettledDoneGood DEF gracefully_close_client
  <1>2. CASE ~s.done
    <2> DEFINE t == [s EXCEPT !.draining = TRUE, !.fin = TRUE]
    <2>0. s \in Relay  BY DEF Settled, Running
    <2>a. t \in Relay  BY <2>0, Updates, Zenon
    <2>1. t \in Relay /\ t.draining
          /\ t.op = s.op /\ t.fault = s.fault /\ t.pump = s.pump
          /\ t.done = s.done /\ t.armed = s.armed /\ t.expired = s.expired
          /\ t.phase = s.phase /\ t.sends = s.sends /\ t.late = s.late
          /\ t.tunnels = s.tunnels /\ t.requests = s.requests
          /\ t.resp_ok = s.resp_ok /\ t.resp_err = s.resp_err
          /\ t.backend = s.backend
      BY <2>0, <2>a DEF Relay
    <2>2. Settled(t)
      BY <2>1 DEF Settled, Running, Balanced, Off, Timed
    <2>3. QED  BY <1>2, <2>2, DrainGood DEF gracefully_close_client
  <1>3. QED  BY <1>1, <1>2

LEMMA RequestPhaseGood ==
  ASSUME NEW s \in Relay, s.fault = "none", Off(s), ~s.done, ~s.backend,
         s.tunnels = 0, Balanced(s, 0), s.sends <= 2, s.late = 0
  PROVE  Good(request_phase(s))
  <1> DEFINE g == goto_phase(s, "kRequest")
             k == kick_idle_timer(g)
             t == Start(k, "parse_request")
  <1>1. g \in Relay /\ g.phase = "kRequest"
        /\ g.fault = s.fault /\ g.pump = s.pump /\ g.done = s.done
        /\ g.backend = s.backend /\ g.tunnels = s.tunnels
        /\ g.requests = s.requests /\ g.resp_ok = s.resp_ok
        /\ g.resp_err = s.resp_err /\ g.sends = s.sends /\ g.late = s.late
    BY DEF goto_phase, Relay, Phase
  <1>2. k \in Relay /\ k.phase = "kRequest" /\ Timed(k)
        /\ k.fault = s.fault /\ k.pump = s.pump /\ k.done = s.done
        /\ k.backend = s.backend /\ k.tunnels = s.tunnels
        /\ k.requests = s.requests /\ k.resp_ok = s.resp_ok
        /\ k.resp_err = s.resp_err /\ k.sends = s.sends /\ k.late = s.late
    BY <1>1, KickFields
  <1>a. k \in Relay  BY <1>2
  <1>b. t \in Relay
    <2>1. "parse_request" \in Op  BY DEF Op
    <2>2. QED  BY <1>a, <2>1, Updates, Zenon DEF Start
  <1>3. t \in Relay /\ t.op = "parse_request" /\ Kept(k, t)
        /\ t.backend = k.backend /\ t.sends = k.sends
        /\ t.resp_err = k.resp_err
    BY <1>a, <1>b, SMTT(30) DEF Start, Relay, Kept
  <1>4. Off(t) /\ Timed(t)
    BY <1>2, <1>3, SMTT(30) DEF Kept, Timed, Off
  <1>5. Balanced(t, Owed(t))
    BY <1>2, <1>3 DEF Kept, Balanced, Owed, InFlight
  <1>6. Held(t)  BY <1>2, <1>3, <1>4 DEF Kept, Held, Holding
  <1>7. Retries(t) /\ Drains(t)  BY <1>2, <1>3, SMTT(30) DEF Kept, Retries, Drains
  <1>8. Good(t)
    BY <1>2, <1>3, <1>4, <1>5, <1>6, <1>7 DEF Good, Kept
  <1>9. QED  BY <1>8 DEF request_phase

LEMMA AfterResponseGood ==
  ASSUME NEW s, Settled(s)
  PROVE  Good(after_client_response(s))
  <1>1. CASE s.draining
    BY <1>1, GracefulCloseGood DEF after_client_response
  <1>2. CASE ~s.draining /\ s.keep_alive /\ ~s.done /\ ~s.h3
    <2>1. Good(request_phase(s))
      BY <1>2, RequestPhaseGood DEF Settled, Running
    <2>2. QED  BY <1>2, <2>1 DEF after_client_response
  <1>3. CASE ~s.draining /\ ~(s.keep_alive /\ ~s.done /\ ~s.h3)
    BY <1>3, GracefulCloseGood, DrainGood DEF after_client_response
  <1>4. QED  BY <1>1, <1>2, <1>3

(* teardown may run in any state: it only needs what it does not set. *)
Tearable(s) ==
  /\ s \in Relay
  /\ s.fault = "none" /\ Balanced(s, Owed(s))
  /\ s.tunnels = 0 \/ s.op \in {"none", "write_200"}
  /\ s.done => ~s.armed /\ s.phase # "kRequest"
  /\ Off(s) \/ s.op = "none"
  /\ Retries(s) /\ Drains(s)

LEMMA TeardownGood ==
  ASSUME NEW s, Tearable(s)
  PROVE  Good(teardown(s))
  <1>1. CASE s.done
    <2>1. Timed(s)  BY <1>1 DEF Tearable, Timed
    <2>2. QED  BY <1>1, <2>1 DEF Tearable, Good, teardown
  <1>2. CASE ~s.done
    <2> DEFINE g == goto_phase(s, "kClosed")
               u == [g EXCEPT !.done = TRUE, !.armed = FALSE, !.fin = TRUE]
               t == close_backend(u)
    <2>0. s \in Relay  BY DEF Tearable
    <2>1. g \in Relay /\ g.phase = "kClosed"
          /\ g.op = s.op /\ g.fault = s.fault /\ g.pump = s.pump
          /\ g.draining = s.draining /\ g.sends = s.sends /\ g.late = s.late
          /\ g.tunnels = s.tunnels /\ g.requests = s.requests
          /\ g.resp_ok = s.resp_ok /\ g.resp_err = s.resp_err
          /\ g.from_pool = s.from_pool /\ g.pending_body = s.pending_body
          /\ g.retry_allowed = s.retry_allowed
      BY <2>0 DEF goto_phase, Relay, Phase
    <2> HIDE DEF g
    <2>a. u \in Relay  BY <2>1, Updates, Zenon
    <2>b. u \in Relay => t \in Relay
      <3> HIDE DEF u
      <3> QED  BY Updates, Zenon DEF close_backend
    <2>2. t \in Relay /\ t.phase = "kClosed" /\ t.done /\ ~t.armed
          /\ t.op = g.op /\ t.fault = g.fault /\ t.pump = g.pump
          /\ t.draining = g.draining /\ t.sends = g.sends /\ t.late = g.late
          /\ t.tunnels = g.tunnels /\ t.requests = g.requests
          /\ t.resp_ok = g.resp_ok /\ t.resp_err = g.resp_err
          /\ t.from_pool = g.from_pool /\ t.pending_body = g.pending_body
          /\ t.retry_allowed = g.retry_allowed
      BY <2>1, <2>a, <2>b DEF close_backend, Relay
    <2> HIDE DEF u, t
    <2>3. Timed(t) /\ (Off(t) \/ t.op = "none")
      BY <2>1, <2>2 DEF Tearable, Timed, Off
    <2>4. Balanced(t, Owed(t))
      BY <2>1, <2>2 DEF Tearable, Balanced, Owed
    <2>5. Retries(t) /\ Drains(t)
      BY <2>1, <2>2 DEF Tearable, Retries, Drains
    <2>6. Good(t)
      BY <2>1, <2>2, <2>3, <2>4, <2>5 DEF Tearable, Good
    <2>7. QED  BY <1>2, <2>6 DEF teardown, g, u, t
  <1>3. QED  BY <1>1, <1>2

LEMMA SendGood ==
  ASSUME NEW s, NEW retry \in BOOLEAN, Owes(s), ~s.done => s.backend,
         \/ retry /\ s.sends = 0
         \/ ~retry /\ s.sends = 1 /\ ~s.from_pool /\ ~s.pending_body
  PROVE  Good(send_backend_request(s, retry))
  <1> DEFINE n == s.sends + 1
             u == [s EXCEPT !.retry_allowed = retry, !.sends = n]
             t == Start(u, "write_request")
  <1>0. s \in Relay /\ n \in Nat  BY DEF Owes, Running, Relay
  <1> HIDE DEF n
  <1>a. u \in Relay  BY <1>0, Updates, Zenon
  <1>b. u \in Relay => t \in Relay
    <2> HIDE DEF u
    <2> QED  BY DEF Start, Relay, Op, InFlight
  <1>1. t \in Relay /\ t.op = "write_request" /\ Kept(s, t)
        /\ t.backend = s.backend /\ t.resp_err = s.resp_err
        /\ t.sends = n /\ t.retry_allowed = retry
        /\ t.from_pool = s.from_pool /\ t.pending_body = s.pending_body
    BY <1>0, <1>a, <1>b DEF Start, Relay, Kept
  <1> HIDE DEF u, t
  <1>2. Off(t) /\ Timed(t)  BY <1>1 DEF Owes, Running, Kept, Timed, Off
  <1>3. Balanced(t, Owed(t))
    BY <1>1 DEF Owes, Kept, Balanced, Owed, InFlight
  <1>4. ~t.done => Held(t)  BY <1>1, <1>2 DEF Kept, Held, Holding
  <1>5. Retries(t)  BY <1>1 DEF Retries, n
  <1>6. Drains(t)  BY <1>1 DEF Owes, Running, Kept, Drains
  <1>7. Good(t)
    BY <1>1, <1>2, <1>3, <1>4, <1>5, <1>6 DEF Good, Owes, Running, Kept
  <1>8. QED  BY <1>7 DEF send_backend_request, n, u, t

LEMMA UseBackendGood ==
  ASSUME NEW s, NEW h3 \in BOOLEAN, NEW pooled \in BOOLEAN,
         Owes(s), s.sends = 0
  PROVE  Good(use_backend(s, h3, pooled))
  <1> DEFINE u == [s EXCEPT !.backend = TRUE, !.backend_h3 = h3]
             k == kick_idle_timer(u)
             n == IF pooled THEN k.backend_connects
                  ELSE k.backend_connects + 1
             v == [k EXCEPT !.from_pool = pooled, !.backend_connects = n]
  <1>0. s \in Relay  BY DEF Owes, Running
  <1>u. u \in Relay  BY <1>0, Updates, Zenon
  <1>1. u \in Relay /\ u.backend
        /\ u.op = s.op /\ u.fault = s.fault /\ u.pump = s.pump
        /\ u.done = s.done /\ u.armed = s.armed /\ u.expired = s.expired
        /\ u.phase = s.phase /\ u.sends = s.sends /\ u.late = s.late
        /\ u.draining = s.draining
        /\ u.tunnels = s.tunnels /\ u.requests = s.requests
        /\ u.resp_ok = s.resp_ok /\ u.resp_err = s.resp_err
    BY <1>0, <1>u DEF Relay
  <1>2. Owes(u)  BY <1>1 DEF Owes, Running, Balanced, Off, Timed
  <1>3. k \in Relay /\ Owes(k) /\ k.backend /\ k.sends = 0
    BY <1>1, <1>2, KickFields, KickRunning DEF Owes, Running, Balanced
  <1> HIDE DEF k
  <1>4. k.backend_connects + 1 \in Nat /\ k.backend_connects \in Nat
    BY <1>3 DEF Relay
  <1>5. n \in Nat  BY <1>4
  <1> HIDE DEF n
  <1>c. v \in Relay  BY <1>3, <1>5, Updates, Zenon
  <1>6. v.backend
        /\ v.op = k.op /\ v.fault = k.fault /\ v.pump = k.pump
        /\ v.done = k.done /\ v.armed = k.armed /\ v.expired = k.expired
        /\ v.phase = k.phase /\ v.sends = k.sends /\ v.late = k.late
        /\ v.draining = k.draining
        /\ v.tunnels = k.tunnels /\ v.requests = k.requests
        /\ v.resp_ok = k.resp_ok /\ v.resp_err = k.resp_err
    BY <1>3 DEF Relay
  <1>7. Owes(v)  BY <1>3, <1>6, <1>c DEF Owes, Running, Balanced, Off, Timed
  <1> HIDE DEF v
  <1>8. Good(send_backend_request(v, TRUE))
    BY <1>3, <1>6, <1>7, SendGood
  <1>9. QED  BY <1>8 DEF use_backend, u, k, n, v

LEMMA StartGood ==
  ASSUME NEW s, Owes(s), ~s.done => ~s.backend,
         NEW o \in {"connect", "tunnel_connect", "reconnect"},
         o = "connect" => s.sends = 0,
         o = "reconnect" => s.sends = 1 /\ ~s.pending_body
  PROVE  Good(Start(s, o))
  <1> DEFINE t == Start(s, o)
  <1>0. s \in Relay /\ o \in Op /\ o \in InFlight
    BY DEF Owes, Running, Op, InFlight
  <1>1. t \in Relay /\ t.op = o /\ Kept(s, t)
        /\ t.backend = s.backend /\ t.resp_err = s.resp_err
        /\ t.sends = s.sends /\ t.pending_body = s.pending_body
    BY <1>0 DEF Start, Relay, Kept
  <1> HIDE DEF t
  <1>2. Off(t) /\ Timed(t)  BY <1>1 DEF Owes, Running, Kept, Timed, Off
  <1>3. Balanced(t, Owed(t))  BY <1>0, <1>1 DEF Owes, Kept, Balanced, Owed
  <1>4. ~t.done => Held(t)  BY <1>1, <1>2 DEF Kept, Held, Holding
  <1>5. Retries(t)  BY <1>1 DEF Owes, Running, Retries
  <1>6. Drains(t)  BY <1>1 DEF Owes, Running, Kept, Drains
  <1>7. Good(t)
    BY <1>1, <1>2, <1>3, <1>4, <1>5, <1>6 DEF Good, Owes, Running, Kept
  <1>8. QED  BY <1>7 DEF t

LEMMA FaultGood ==
  ASSUME NEW s, Owes(s) \/ (Running(s) /\ Balanced(s, 0)),
         NEW f \in {"null_backend", "resolve_throw", "closed_stream"},
         f = "null_backend" => s.done
  PROVE  Good([s EXCEPT !.fault = f])
  <1> DEFINE t == [s EXCEPT !.fault = f]
  <1>0. s \in Relay /\ Running(s)  BY DEF Owes, Running
  <1>1. t \in Relay /\ t.fault = f /\ t.op = s.op /\ t.pump = s.pump
        /\ t.phase = s.phase /\ t.done = s.done /\ t.draining = s.draining
        /\ t.armed = s.armed /\ t.expired = s.expired /\ t.late = s.late
        /\ t.sends = s.sends /\ t.tunnels = s.tunnels
    BY <1>0 DEF Relay
  <1> HIDE DEF t
  <1>2. Off(t) /\ Timed(t)  BY <1>0, <1>1 DEF Running, Timed, Off
  <1>3. Retries(t) /\ Drains(t)
    BY <1>0, <1>1 DEF Running, Retries, Drains
  <1>4. Good(t)  BY <1>0, <1>1, <1>2, <1>3 DEF Good, Running
  <1>5. QED  BY <1>4 DEF t

LEMMA DialGood ==
  ASSUME NEW s, Owes(s), ~s.done => ~s.backend,
         NEW o \in {"connect", "tunnel_connect", "reconnect"},
         NEW h3 \in BOOLEAN,
         NEW a \in {"pooled", "refused", "later", "throws"},
         o = "connect" => s.sends = 0,
         o = "reconnect" => s.sends = 1 /\ ~s.pending_body,
         a = "pooled" => s.sends = 0
  PROVE  Good(Dial(s, o, a, h3))
  <1>1. CASE a = "pooled"  BY <1>1, UseBackendGood DEF Dial
  <1>2. CASE a = "refused"  BY <1>2, WriteErrorGood DEF Dial
  <1>3. CASE a = "later"  BY <1>3, StartGood DEF Dial
  <1>4. CASE a = "throws"
    <2>1. Good([s EXCEPT !.fault = "resolve_throw"])  BY FaultGood
    <2>2. QED  BY <1>4, <2>1 DEF Dial
  <1>5. QED  BY <1>1, <1>2, <1>3, <1>4

LEMMA GotoRunning ==
  ASSUME NEW s, Running(s), NEW p \in Phase \ {"kRequest"}
  PROVE  LET g == goto_phase(s, p) IN
         /\ Running(g)
         /\ g.requests = s.requests /\ g.resp_ok = s.resp_ok
         /\ g.resp_err = s.resp_err /\ g.tunnels = s.tunnels
         /\ g.backend = s.backend /\ g.done = s.done
  <1> DEFINE g == goto_phase(s, p)
  <1>0. s \in Relay  BY DEF Running
  <1>1. g \in Relay /\ g.phase = p /\ g.fault = s.fault /\ g.op = s.op
        /\ g.pump = s.pump /\ g.draining = s.draining
        /\ g.armed = s.armed /\ g.expired = s.expired /\ g.late = s.late
        /\ g.sends = s.sends /\ g.done = s.done
        /\ g.requests = s.requests /\ g.resp_ok = s.resp_ok
        /\ g.resp_err = s.resp_err /\ g.tunnels = s.tunnels
        /\ g.backend = s.backend
    BY <1>0 DEF goto_phase, Relay
  <1> HIDE DEF g
  <1>2. Running(g)  BY <1>1 DEF Running, Off, Timed
  <1>3. QED  BY <1>1, <1>2 DEF g

LEMMA ResponsePhaseGood ==
  ASSUME NEW s, Owes(s), ~s.done => s.backend
  PROVE  Good(response_phase(s))
  <1> DEFINE g == goto_phase(s, "kResponse")
             k == kick_idle_timer(g)
             t == Start(k, "parse_response")
  <1>1. Running(g) /\ g.requests = s.requests /\ g.resp_ok = s.resp_ok
        /\ g.resp_err = s.resp_err /\ g.tunnels = s.tunnels
        /\ g.backend = s.backend /\ g.done = s.done
    BY GotoRunning DEF Owes, Phase
  <1> HIDE DEF g
  <1>2. Owes(k) /\ k.backend = s.backend /\ k.done = s.done
    BY <1>1, KickFields, KickRunning DEF Owes, Running, Balanced
  <1> HIDE DEF k
  <1>3. CASE s.backend
    <2>0. k \in Relay  BY <1>2 DEF Owes, Running
    <2>1. t \in Relay /\ t.op = "parse_response" /\ Kept(k, t)
          /\ t.backend = k.backend /\ t.resp_err = k.resp_err
          /\ t.sends = k.sends
      BY <2>0 DEF Start, Relay, Op, InFlight, Kept
    <2> HIDE DEF t
    <2>2. Off(t) /\ Timed(t)
      BY <1>2, <2>1 DEF Owes, Running, Kept, Timed, Off
    <2>3. Balanced(t, Owed(t))
      BY <1>2, <2>1 DEF Owes, Kept, Balanced, Owed, InFlight
    <2>4. Held(t)  BY <1>2, <1>3, <2>1, <2>2 DEF Kept, Held, Holding
    <2>5. Retries(t) /\ Drains(t)
      BY <1>2, <2>1 DEF Owes, Running, Kept, Retries, Drains
    <2>6. Good(t)
      BY <1>2, <2>1, <2>2, <2>3, <2>4, <2>5 DEF Good, Owes, Running, Kept
    <2>7. QED  BY <1>3, <2>6 DEF response_phase, g, k, t
  <1>4. CASE ~s.backend
    <2>1. Good([k EXCEPT !.fault = "null_backend"])
      BY <1>2, <1>4, FaultGood
    <2>2. QED  BY <1>4, <2>1 DEF response_phase, g, k
  <1>5. QED  BY <1>3, <1>4

LEMMA BridgeGood ==
  ASSUME NEW s, Running(s), Balanced(s, 0), ~s.done => s.backend
  PROVE  Good(bridge_mode(s))
  <1> DEFINE g == goto_phase(s, "kBridge")
             t == [g EXCEPT !.pump = [d \in Dir |-> "read"]]
  <1>1. Running(g) /\ g.requests = s.requests /\ g.resp_ok = s.resp_ok
        /\ g.resp_err = s.resp_err /\ g.tunnels = s.tunnels
        /\ g.backend = s.backend /\ g.done = s.done
    BY GotoRunning DEF Phase
  <1> HIDE DEF g
  <1>2. Balanced(g, 0)  BY <1>1 DEF Balanced
  <1>3. CASE s.backend
    <2>0. g \in Relay /\ [d \in Dir |-> "read"] \in [Dir -> {"off", "read", "write"}]
      BY <1>1 DEF Running
    <2>1. t \in Relay /\ t.op = g.op /\ Kept(g, [t EXCEPT !.pump = g.pump])
          /\ t.pump = [d \in Dir |-> "read"]
          /\ t.backend = g.backend /\ t.resp_err = g.resp_err
          /\ t.sends = g.sends /\ t.phase = g.phase /\ t.done = g.done
          /\ t.draining = g.draining /\ t.fault = g.fault
          /\ t.armed = g.armed /\ t.expired = g.expired
          /\ t.requests = g.requests /\ t.resp_ok = g.resp_ok
          /\ t.tunnels = g.tunnels /\ t.late = g.late
      BY <2>0 DEF Relay, Kept
    <2> HIDE DEF t
    <2>2. ~Off(t)  BY <2>1 DEF Off, Dir
    <2>3. Timed(t)  BY <1>1, <2>1 DEF Running, Timed
    <2>4. Balanced(t, Owed(t))
      BY <1>1, <1>2, <2>1 DEF Running, Balanced, Owed, InFlight
    <2>5. Held(t)  BY <1>1, <1>3, <2>1, <2>2 DEF Held
    <2>6. Retries(t) /\ Drains(t)
      BY <1>1, <2>1 DEF Running, Retries, Drains
    <2>7. Good(t)
      BY <1>1, <2>1, <2>3, <2>4, <2>5, <2>6 DEF Good, Running
    <2>8. QED  BY <1>3, <2>7 DEF bridge_mode, g, t
  <1>4. CASE ~s.backend
    <2>1. Good([g EXCEPT !.fault = "null_backend"])
      BY <1>1, <1>2, <1>4, FaultGood
    <2>2. QED  BY <1>4, <2>1 DEF bridge_mode, g
  <1>5. QED  BY <1>3, <1>4

LEMMA TunnelGood ==
  ASSUME NEW s, Owes(s)
  PROVE  Good(start_tunnel(s))
  <1> DEFINE n == s.tunnels + 1
             u == [s EXCEPT !.backend = TRUE, !.tunnels = n]
             t == WriteClient(u, "write_200")
  <1>0. s \in Relay /\ n \in Nat  BY DEF Owes, Running, Relay
  <1> HIDE DEF n
  <1>u. u \in Relay  BY <1>0, Updates, Zenon
  <1>1. u \in Relay /\ u.tunnels = n /\ u.backend
        /\ u.fault = s.fault /\ u.pump = s.pump /\ u.draining = s.draining
        /\ u.armed = s.armed /\ u.expired = s.expired /\ u.late = s.late
        /\ u.sends = s.sends /\ u.done = s.done /\ u.phase = s.phase
        /\ u.requests = s.requests /\ u.resp_ok = s.resp_ok
        /\ u.resp_err = s.resp_err
    BY <1>0, <1>u DEF Relay
  <1> HIDE DEF u
  <1>2. t \in Relay
    <2>1. "write_200" \in Op  BY DEF Op, ClientWrite
    <2>2. QED  BY <1>1, <2>1, WriteClientType
  <1>3. t \in Relay /\ t.op = "write_200" /\ Kept(u, t)
        /\ t.backend = u.backend /\ t.resp_err = u.resp_err
        /\ t.sends = u.sends
    <2>1. u \in Relay  BY <1>1
    <2>2. QED  BY <2>1, <1>2, SMTT(30) DEF WriteClient, Relay, Kept
  <1> HIDE DEF t
  <1>4. Off(t) /\ Timed(t)
    BY <1>1, <1>3, SMTT(30) DEF Owes, Running, Kept, Timed, Off
  <1>5. s.resp_ok \in Nat /\ s.resp_err \in Nat /\ s.requests \in Nat
    BY <1>0 DEF Relay
  <1>6. Balanced(t, Owed(t))
    BY <1>1, <1>3, <1>5 DEF Owes, Kept, Balanced, Owed, InFlight, n
  <1>7. Held(t)  BY <1>1, <1>3 DEF Kept, Held, Holding
  <1>8. Retries(t) /\ Drains(t)
    BY <1>1, <1>3 DEF Owes, Running, Kept, Retries, Drains
  <1>9. Good(t)
    BY <1>1, <1>3, <1>4, <1>6, <1>7, <1>8 DEF Good, Owes, Running, Kept
  <1>10. QED  BY <1>9 DEF start_tunnel, n, u, t

LEMMA FinishSettled ==
  ASSUME NEW s, Running(s), s.tunnels = 0, Balanced(s, 0)
  PROVE  Settled(finish_backend(s))
  <1> DEFINE t == finish_backend(s)
  <1>0. s \in Relay  BY DEF Running
  <1>1. t \in Relay  BY <1>0, Updates, Zenon DEF finish_backend
  <1>2. /\ ~t.backend
        /\ t.op = s.op /\ t.fault = s.fault /\ t.pump = s.pump
        /\ t.phase = s.phase /\ t.done = s.done /\ t.draining = s.draining
        /\ t.armed = s.armed /\ t.expired = s.expired /\ t.late = s.late
        /\ t.sends = s.sends /\ t.requests = s.requests
        /\ t.resp_ok = s.resp_ok /\ t.resp_err = s.resp_err
        /\ t.tunnels = s.tunnels
    BY <1>0 DEF finish_backend, Relay
  <1> HIDE DEF t
  <1>3. Running(t)  BY <1>1, <1>2 DEF Running, Off, Timed
  <1>4. QED  BY <1>2, <1>3 DEF Settled, Balanced, t

-----------------------------------------------------------------------------
(* The handlers *)

(* What a handler finds when it runs, whatever its operation was. *)
LEMMA HandlerStarts ==
  ASSUME GoodInv, NEW o \in Op \ {"none"}, Completes(o)
  PROVE  /\ h \in Relay /\ h.op = "none" /\ h.fault = "none" /\ Off(h)
         /\ Timed(h) /\ h.phase = r.phase
         /\ h.sends = r.sends /\ h.late = r.late /\ h.draining = r.draining
         /\ h.done = r.done /\ h.backend = r.backend
         /\ h.tunnels = r.tunnels /\ h.requests = r.requests
         /\ h.resp_ok = r.resp_ok /\ h.resp_err = r.resp_err
         /\ h.armed = r.armed
         /\ h.pending_body = r.pending_body /\ h.from_pool = r.from_pool
         /\ o # "parse_request" => Running(h)
         /\ o # "write_200" => h.tunnels = 0
         /\ o \in InFlight => Balanced(h, 1)
         /\ o \notin InFlight => Balanced(h, 0)
         /\ ~h.done => (h.backend <=> o \in Holding)
         /\ UNCHANGED <<stopping, silent>>
  <1>0. r \in Relay /\ r.op = o /\ r.fault = "none" /\ Off(r) /\ Timed(r)
    BY DEF GoodInv, Good, Completes
  <1>1. h \in Relay /\ h.op = "none" /\ h.fault = r.fault /\ h.pump = r.pump
        /\ h.phase = r.phase /\ h.sends = r.sends /\ h.late = r.late
        /\ h.draining = r.draining /\ h.done = r.done
        /\ h.backend = r.backend /\ h.tunnels = r.tunnels
        /\ h.requests = r.requests /\ h.resp_ok = r.resp_ok
        /\ h.resp_err = r.resp_err /\ h.armed = r.armed
        /\ h.expired = r.expired
        /\ h.pending_body = r.pending_body /\ h.from_pool = r.from_pool
    BY <1>0 DEF h, Relay, Op
  <1>2. Off(h) /\ Timed(h)  BY <1>0, <1>1 DEF Off, Timed
  <1>3. o # "parse_request" => Running(h)
    BY <1>0, <1>1, <1>2 DEF GoodInv, Good, Retries, Drains, Running
  <1>4. o # "write_200" => h.tunnels = 0  BY <1>0, <1>1 DEF GoodInv, Good
  <1>5. (o \in InFlight => Balanced(h, 1))
        /\ (o \notin InFlight => Balanced(h, 0))
    BY <1>0, <1>1 DEF GoodInv, Good, Balanced, Owed
  <1>6. ~h.done => (h.backend <=> o \in Holding)
    BY <1>0, <1>1 DEF GoodInv, Good, Held
  <1>7. QED
    BY <1>0, <1>1, <1>2, <1>3, <1>4, <1>5, <1>6 DEF Completes

LEMMA ParseFailedGood == ASSUME GoodInv, ParseFailed PROVE Good(r')
  <1>1. Completes("parse_request") /\ r' = teardown(h)  BY DEF ParseFailed
  <1>2. h \in Relay /\ h.op = "none" /\ h.fault = "none" /\ Off(h)
        /\ Balanced(h, 0) /\ h.tunnels = 0 /\ h.done = r.done
        /\ h.phase = r.phase /\ h.armed = r.armed /\ h.sends = r.sends
        /\ h.late = r.late /\ h.draining = r.draining
    BY <1>1, HandlerStarts DEF Op, InFlight
  <1>3. Balanced(h, Owed(h))  BY <1>2 DEF Owed, InFlight
  <1>4. Retries(h) /\ Drains(h)
    BY <1>2 DEF GoodInv, Good, Retries, Drains
  <1>5. h.done => ~h.armed /\ h.phase # "kRequest"
    BY <1>2 DEF GoodInv, Good, Timed
  <1>6. Tearable(h)  BY <1>2, <1>3, <1>4, <1>5 DEF Tearable
  <1>7. QED  BY <1>1, <1>6, TeardownGood

LEMMA AnswersKnown ==
  ASSUME NEW fresh \in BOOLEAN, NEW h3 \in BOOLEAN, NEW a \in Answers(fresh, h3)
  PROVE  /\ a \in {"pooled", "refused", "later", "throws"}
         /\ a = "pooled" => ~fresh
  BY DEF Answers

LEMMA RequestParsedGood ==
  ASSUME GoodInv, NEW q \in Requests, RequestParsed(q)
  PROVE  Good(r')
  <1> DEFINE g == goto_phase(h, "kForward")
             n == g.requests + 1
             m == IF r.draining THEN g.late + 1 ELSE g.late
             u == [g EXCEPT !.requests = n, !.keep_alive = q.keep_alive,
                            !.upgrade = q.upgrade,
                            !.pending_body = q.body, !.sends = 0, !.late = m]
             s == kick_idle_timer(u)
  <1>1. Completes("parse_request")  BY DEF RequestParsed
  <1>2. h \in Relay /\ h.op = "none" /\ h.fault = "none" /\ Off(h) /\ Timed(h)
        /\ Balanced(h, 0) /\ h.tunnels = 0 /\ (~h.done => ~h.backend)
        /\ h.late = r.late /\ h.draining = r.draining
    BY <1>1, HandlerStarts DEF Op, InFlight, Holding
  <1>3. h.late = 0  BY <1>1, <1>2 DEF GoodInv, Good, Drains, Completes
  <1>4. g \in Relay /\ g.phase = "kForward" /\ g.op = h.op
        /\ g.fault = h.fault /\ g.pump = h.pump /\ g.done = h.done
        /\ g.draining = h.draining /\ g.armed = h.armed
        /\ g.expired = h.expired /\ g.late = h.late /\ g.tunnels = h.tunnels
        /\ g.requests = h.requests /\ g.resp_ok = h.resp_ok
        /\ g.resp_err = h.resp_err /\ g.backend = h.backend
    BY <1>2 DEF goto_phase, Relay, Phase
  <1> HIDE DEF g
  <1>5. n \in Nat /\ g.requests \in Nat /\ g.resp_ok \in Nat
        /\ g.resp_err \in Nat
    BY <1>4 DEF Relay
  <1>6. m \in Nat /\ m <= 1 /\ (~r.draining => m = 0)  BY <1>3, <1>4
  <1>7. q.keep_alive \in BOOLEAN
        /\ q.upgrade \in BOOLEAN /\ q.body \in BOOLEAN
    BY RelayAssumption DEF Request
  <1> HIDE DEF n, m
  <1>8. u \in Relay
    <2>1. g \in Relay /\ n \in Nat /\ m \in Nat  BY <1>4, <1>5, <1>6
    <2>2. q \in Request  BY RelayAssumption
    <2>3. QED  BY <2>1, <2>2, RequestFields, Zenon
  <1>9. u.phase = g.phase /\ u.op = g.op /\ u.fault = g.fault
        /\ u.pump = g.pump /\ u.done = g.done /\ u.draining = g.draining
        /\ u.armed = g.armed /\ u.expired = g.expired /\ u.late = m
        /\ u.tunnels = g.tunnels /\ u.requests = n
        /\ u.resp_ok = g.resp_ok /\ u.resp_err = g.resp_err
        /\ u.backend = g.backend /\ u.sends = 0
    BY <1>4 DEF Relay
  <1> HIDE DEF u
  <1>10. Owes(u)
    <2>1. Balanced(u, 1)  BY <1>2, <1>4, <1>5, <1>9 DEF Balanced, n
    <2>2. Running(u)
      BY <1>2, <1>4, <1>6, <1>8, <1>9 DEF Running, Off, Timed
    <2>3. QED  BY <1>2, <1>4, <1>9, <2>1, <2>2 DEF Owes
  <1>11. Owes(s) /\ s.sends = 0 /\ (~s.done => ~s.backend)
    <2>1. s.sends = u.sends /\ s.done = u.done /\ s.backend = u.backend
          /\ s.requests = u.requests /\ s.resp_ok = u.resp_ok
          /\ s.resp_err = u.resp_err /\ s.tunnels = u.tunnels
      BY <1>8, KickFields
    <2>2. Running(s)  BY <1>10, KickRunning DEF Owes
    <2> HIDE DEF s
    <2>3. Owes(s)  BY <1>10, <2>1, <2>2 DEF Owes, Balanced
    <2>4. QED  BY <1>2, <1>4, <1>9, <2>1, <2>3
  <1> HIDE DEF s
  <1>12. \/ r' = write_error(s)
         \/ \E a \in Answers(TRUE, FALSE) :
              r' = Dial(s, "tunnel_connect", a, FALSE)
         \/ \E h3 \in BOOLEAN : \E f \in BOOLEAN : \E a \in Answers(f, h3) :
              r' = Dial([s EXCEPT !.backend_h3 = h3], "connect", a, h3)
    BY Zenon DEF RequestParsed, g, n, m, u, s
  <1>13. ASSUME NEW h3 \in BOOLEAN
         PROVE  LET v == [s EXCEPT !.backend_h3 = h3] IN
                Owes(v) /\ v.sends = 0 /\ (~v.done => ~v.backend)
    <2> DEFINE v == [s EXCEPT !.backend_h3 = h3]
    <2>0. s \in Relay  BY <1>11 DEF Owes, Running
    <2>1. v \in Relay /\ v.phase = s.phase /\ v.op = s.op
          /\ v.fault = s.fault /\ v.pump = s.pump /\ v.done = s.done
          /\ v.draining = s.draining /\ v.armed = s.armed
          /\ v.expired = s.expired /\ v.late = s.late
          /\ v.tunnels = s.tunnels /\ v.requests = s.requests
          /\ v.resp_ok = s.resp_ok /\ v.resp_err = s.resp_err
          /\ v.backend = s.backend /\ v.sends = s.sends
      BY <2>0 DEF Relay
    <2> HIDE DEF v
    <2>2. Owes(v)
      BY <1>11, <2>1 DEF Owes, Running, Balanced, Off, Timed
    <2>3. QED  BY <1>11, <2>1, <2>2 DEF v
  <1>14. CASE r' = write_error(s)  BY <1>11, <1>14, WriteErrorGood
  <1>15. ASSUME NEW a \in Answers(TRUE, FALSE),
                r' = Dial(s, "tunnel_connect", a, FALSE)
         PROVE  Good(r')
    BY <1>11, <1>15, AnswersKnown, DialGood
  <1>16. ASSUME NEW h3 \in BOOLEAN, NEW f \in BOOLEAN, NEW a \in Answers(f, h3),
                r' = Dial([s EXCEPT !.backend_h3 = h3], "connect", a, h3)
         PROVE  Good(r')
    <2>1. a \in {"pooled", "refused", "later", "throws"}  BY AnswersKnown
    <2>2. QED  BY <1>13, <1>16, <2>1, DialGood
  <1>17. QED  BY <1>12, <1>14, <1>15, <1>16

(* Updates that leave the fields of Running alone. *)
SameCore(s, t) ==
  /\ t.op = s.op /\ t.fault = s.fault /\ t.pump = s.pump
  /\ t.phase = s.phase /\ t.done = s.done /\ t.draining = s.draining
  /\ t.armed = s.armed /\ t.expired = s.expired
  /\ t.sends = s.sends /\ t.late = s.late /\ t.tunnels = s.tunnels
  /\ t.requests = s.requests

LEMMA SameCoreRunning ==
  ASSUME NEW s, NEW t \in Relay, Running(s), SameCore(s, t)
  PROVE  Running(t)
  BY DEF Running, SameCore, Off, Timed

LEMMA SameCoreOwes ==
  ASSUME NEW s, NEW t \in Relay, Owes(s), SameCore(s, t),
         t.resp_ok = s.resp_ok, t.resp_err = s.resp_err
  PROVE  Owes(t)
  BY SameCoreRunning DEF Owes, SameCore, Balanced

LEMMA CloseOwes ==
  ASSUME NEW s, Owes(s)
  PROVE  LET c == close_backend(s) IN
         /\ Owes(c) /\ ~c.backend /\ c.sends = s.sends
         /\ c.pending_body = s.pending_body
  <1> DEFINE c == close_backend(s)
  <1>0. s \in Relay  BY DEF Owes, Running
  <1>a. c \in Relay  BY <1>0, Updates, Zenon DEF close_backend
  <1>1. c \in Relay /\ SameCore(s, c) /\ c.resp_ok = s.resp_ok
        /\ c.resp_err = s.resp_err /\ ~c.backend
        /\ c.pending_body = s.pending_body
    BY <1>0, <1>a DEF close_backend, Relay, SameCore
  <1> HIDE DEF c
  <1>2. Owes(c)  BY <1>1, SameCoreOwes
  <1>3. QED  BY <1>1, <1>2 DEF SameCore, c

LEMMA InFlightOwes ==
  ASSUME GoodInv, NEW o \in InFlight, Completes(o)
  PROVE  /\ Owes(h) /\ h.done = r.done /\ h.sends = r.sends
         /\ h.pending_body = r.pending_body /\ h.from_pool = r.from_pool
         /\ ~h.done => (h.backend <=> o \in Holding)
         /\ r.op = o /\ UNCHANGED <<stopping, silent>>
  <1>1. o \in Op \ {"none"} /\ o # "parse_request" /\ o # "write_200"
    BY DEF InFlight, Op
  <1>2. QED  BY <1>1, HandlerStarts DEF Owes, Completes

LEMMA ConnectGood ==
  ASSUME GoodInv, Connected \/ ConnectFailed
  PROVE  Good(r')
  <1>1. Completes("connect")  BY DEF Connected, ConnectFailed
  <1>2. Owes(h) /\ (~h.done => ~h.backend) /\ h.sends = 0
    BY <1>1, InFlightOwes DEF InFlight, Holding, GoodInv, Good, Retries
  <1>3. r.backend_h3 \in BOOLEAN  BY DEF GoodInv, Good, Relay
  <1>4. CASE Connected
    <2>1. PICK pooled \in BOOLEAN : r' = use_backend(h, r.backend_h3, pooled)
      BY <1>4 DEF Connected
    <2>2. QED  BY <1>2, <1>3, <2>1, UseBackendGood
  <1>5. CASE ConnectFailed
    BY <1>2, <1>5, WriteErrorGood DEF ConnectFailed
  <1>6. QED  BY <1>4, <1>5

LEMMA TunnelConnectGood ==
  ASSUME GoodInv, TunnelConnected \/ TunnelConnectFailed
  PROVE  Good(r')
  <1>1. Completes("tunnel_connect")
    BY DEF TunnelConnected, TunnelConnectFailed
  <1>2. Owes(h) /\ (~h.done => ~h.backend)
    BY <1>1, InFlightOwes DEF InFlight, Holding
  <1>3. QED
    BY <1>2, TunnelGood, WriteErrorGood
    DEF TunnelConnected, TunnelConnectFailed

LEMMA RequestWrittenGood == ASSUME GoodInv, RequestWritten PROVE Good(r')
  <1> DEFINE u == [h EXCEPT !.pending_body = FALSE]
             k == kick_idle_timer(u)
  <1>1. Completes("write_request") /\ r' = response_phase(k)
    BY DEF RequestWritten
  <1>2. Owes(h) /\ (~h.done => h.backend)
    BY <1>1, InFlightOwes DEF InFlight, Holding
  <1>3. h \in Relay  BY <1>2 DEF Owes, Running
  <1>a. u \in Relay  BY <1>3, Updates, Zenon
  <1>4. u \in Relay /\ SameCore(h, u) /\ u.resp_ok = h.resp_ok
        /\ u.resp_err = h.resp_err /\ u.backend = h.backend
    BY <1>3, <1>a DEF Relay, SameCore
  <1> HIDE DEF u
  <1>5. Owes(u)  BY <1>2, <1>4, SameCoreOwes
  <1>6. Owes(k) /\ (~k.done => k.backend)
    BY <1>2, <1>4, <1>5, KickFields, KickRunning
    DEF Owes, Balanced, SameCore
  <1>7. QED  BY <1>1, <1>6, ResponsePhaseGood

LEMMA StreamGoneGood == ASSUME GoodInv, BackendStreamGone PROVE Good(r')
  <1>1. Completes("write_request") /\ r' = [h EXCEPT !.fault = "closed_stream"]
    BY DEF BackendStreamGone
  <1>2. Owes(h)  BY <1>1, InFlightOwes DEF InFlight
  <1>3. Good([h EXCEPT !.fault = "closed_stream"])  BY <1>2, FaultGood
  <1>4. QED  BY <1>1, <1>3

LEMMA RequestWriteFailedGood ==
  ASSUME GoodInv, RequestWriteFailed
  PROVE  Good(r')
  <1>1. Completes("write_request")  BY DEF RequestWriteFailed
  <1>2. Owes(h) /\ h.sends = r.sends /\ h.pending_body = r.pending_body
        /\ r.op = "write_request"
    BY <1>1, InFlightOwes DEF InFlight
  <1> DEFINE c == close_backend(h)
  <1>3. Owes(c) /\ ~c.backend /\ c.sends = r.sends
        /\ c.pending_body = r.pending_body
    BY <1>2, CloseOwes
  <1> HIDE DEF c
  <1>4. CASE r.retry_allowed /\ r.from_pool /\ ~r.pending_body
    <2>1. PICK a \in Answers(TRUE, FALSE) : r' = Dial(c, "reconnect", a, FALSE)
      BY <1>4 DEF RequestWriteFailed, reconnect_backend_fresh, c
    <2>2. a \in {"pooled", "refused", "later", "throws"} /\ a # "pooled"
      BY AnswersKnown
    <2>3. c.sends = 1 /\ ~c.pending_body
      BY <1>2, <1>3, <1>4 DEF GoodInv, Good, Retries
    <2>4. QED  BY <1>3, <2>1, <2>2, <2>3, DialGood
  <1>5. CASE ~(r.retry_allowed /\ r.from_pool /\ ~r.pending_body)
    <2>1. r' = write_error(c)  BY <1>5 DEF RequestWriteFailed, c
    <2>2. QED  BY <1>3, <2>1, WriteErrorGood
  <1>6. QED  BY <1>4, <1>5

LEMMA ReconnectGood ==
  ASSUME GoodInv, Reconnected \/ ReconnectFailed
  PROVE  Good(r')
  <1>1. Completes("reconnect")  BY DEF Reconnected, ReconnectFailed
  <1>2. Owes(h) /\ (~h.done => ~h.backend) /\ h.sends = 1 /\ ~h.pending_body
    BY <1>1, InFlightOwes DEF InFlight, Holding, GoodInv, Good, Retries
  <1>3. CASE Reconnected
    <2> DEFINE n == h.backend_connects + 1
               u == [h EXCEPT !.backend = TRUE, !.from_pool = FALSE,
                              !.backend_connects = n]
    <2>1. r' = send_backend_request(u, FALSE)
      BY <1>3, Zenon DEF Reconnected, n, u
    <2>2. h \in Relay /\ n \in Nat  BY <1>2 DEF Owes, Running, Relay
    <2> HIDE DEF n
    <2>a. u \in Relay  BY <2>2, Updates, Zenon
    <2>3. SameCore(h, u) /\ u.resp_ok = h.resp_ok
          /\ u.resp_err = h.resp_err /\ u.backend /\ ~u.from_pool
          /\ u.pending_body = h.pending_body
      BY <2>2 DEF Relay, SameCore
    <2> HIDE DEF u
    <2>4. Owes(u) /\ u.sends = 1
      BY <1>2, <2>a, <2>3, SameCoreOwes DEF SameCore
    <2>5. QED  BY <1>2, <2>1, <2>a, <2>3, <2>4, SendGood
  <1>4. CASE ReconnectFailed
    BY <1>2, <1>4, WriteErrorGood DEF ReconnectFailed
  <1>5. QED  BY <1>3, <1>4

LEMMA ResponseFailedGood == ASSUME GoodInv, ResponseFailed PROVE Good(r')
  <1>1. Completes("parse_response") /\ r' = write_error(close_backend(h))
    BY DEF ResponseFailed
  <1>2. Owes(h)  BY <1>1, InFlightOwes DEF InFlight
  <1>3. QED  BY <1>1, <1>2, CloseOwes, WriteErrorGood

LEMMA ClientWriteGood ==
  ASSUME NEW s, Running(s), s.tunnels = 0, Balanced(s, 0),
         ~s.done => s.backend, NEW o \in {"write_response", "write_101"}
  PROVE  Good(WriteClient(s, o))
  <1> DEFINE t == WriteClient(s, o)
  <1>0. s \in Relay /\ s.fin \in BOOLEAN /\ o \in Op
    BY DEF Running, Relay, Op, ClientWrite
  <1>a. t \in Relay  BY <1>0, WriteClientType
  <1>1. t \in Relay /\ t.op = o /\ Kept(s, t)
        /\ t.backend = s.backend /\ t.resp_err = s.resp_err
        /\ t.sends = s.sends
    BY <1>0, <1>a DEF WriteClient, Relay, Kept
  <1> HIDE DEF t
  <1>2. Off(t) /\ Timed(t)  BY <1>1 DEF Running, Kept, Timed, Off
  <1>3. Balanced(t, Owed(t))  BY <1>1 DEF Kept, Balanced, Owed, InFlight
  <1>4. ~t.done => Held(t)  BY <1>1, <1>2 DEF Kept, Held, Holding
  <1>5. Retries(t) /\ Drains(t)  BY <1>1 DEF Running, Kept, Retries, Drains
  <1>6. Good(t)
    BY <1>1, <1>2, <1>3, <1>4, <1>5 DEF Good, Running, Kept
  <1>7. QED  BY <1>6 DEF t

LEMMA ResponseParsedGood ==
  ASSUME GoodInv, NEW a \in Responses, ResponseParsed(a)
  PROVE  Good(r')
  <1> DEFINE e == IF a = "err" THEN h.resp_err + 1 ELSE h.resp_err
             k == IF a = "err" THEN h.resp_ok ELSE h.resp_ok + 1
             u == [h EXCEPT !.resp_err = e, !.resp_ok = k]
             s == kick_idle_timer(u)
  <1>1. Completes("parse_response")  BY DEF ResponseParsed
  <1>2. Owes(h) /\ (~h.done => h.backend)
    BY <1>1, InFlightOwes DEF InFlight, Holding
  <1>3. h \in Relay /\ h.resp_ok \in Nat /\ h.resp_err \in Nat
        /\ h.requests \in Nat
    BY <1>2 DEF Owes, Running, Relay
  <1>4. e \in Nat /\ k \in Nat /\ e + k = h.resp_err + h.resp_ok + 1
    BY <1>3
  <1>6. PICK o \in {"write_response", "write_101"} : r' = WriteClient(s, o)
    <2>1. r' = WriteClient(s, IF r.upgrade /\ a = "switch"
                              THEN "write_101" ELSE "write_response")
      BY Zenon DEF ResponseParsed, e, k, u, s
    <2>2. QED  BY <2>1, Zenon
  <1> HIDE DEF e, k
  <1>7. u \in Relay  BY <1>3, <1>4, Updates, Zenon
  <1>8. SameCore(h, u) /\ u.resp_ok = k /\ u.resp_err = e
        /\ u.backend = h.backend
    BY <1>3 DEF Relay, SameCore
  <1> HIDE DEF u
  <1>9. Running(u) /\ u.tunnels = 0 /\ (~u.done => u.backend)
    BY <1>2, <1>7, <1>8, SameCoreRunning DEF Owes, SameCore
  <1>10. Balanced(u, 0)
    BY <1>2, <1>3, <1>4, <1>8 DEF Owes, Balanced, SameCore
  <1>11. Running(s) /\ s.tunnels = 0 /\ Balanced(s, 0)
         /\ (~s.done => s.backend)
    BY <1>7, <1>9, <1>10, KickFields, KickRunning DEF Balanced
  <1> HIDE DEF s
  <1>12. QED  BY <1>6, <1>11, ClientWriteGood

LEMMA WrittenRunning ==
  ASSUME GoodInv, NEW o \in ClientWrite \cup {"drain"}, Completes(o)
  PROVE  /\ Running(h) /\ Balanced(h, 0) /\ h.done = r.done
         /\ o # "write_200" => h.tunnels = 0
         /\ ~h.done => (h.backend <=> o \in Holding)
  <1>1. o \in Op \ {"none", "parse_request"} /\ o \notin InFlight
    BY DEF ClientWrite, Op, InFlight
  <1>2. QED  BY <1>1, HandlerStarts

LEMMA ResponseWrittenGood == ASSUME GoodInv, ResponseWritten PROVE Good(r')
  <1>1. Completes("write_response")  BY DEF ResponseWritten
  <1>2. Running(h) /\ Balanced(h, 0) /\ h.tunnels = 0
    BY <1>1, WrittenRunning DEF ClientWrite
  <1>3. r' = after_client_response(finish_backend(h))
    BY DEF ResponseWritten
  <1>4. QED  BY <1>2, <1>3, FinishSettled, AfterResponseGood

LEMMA ErrorWrittenGood == ASSUME GoodInv, ErrorWritten PROVE Good(r')
  <1>1. Completes("write_error") /\ r' = after_client_response(h)
    BY DEF ErrorWritten
  <1>2. Settled(h)
    BY <1>1, WrittenRunning DEF ClientWrite, Holding, Settled
  <1>3. QED  BY <1>1, <1>2, AfterResponseGood

LEMMA RunningTearable ==
  ASSUME NEW s, Running(s), Balanced(s, 0)
  PROVE  Tearable(s)
  <1>1. Balanced(s, Owed(s))  BY DEF Running, Owed, InFlight
  <1>2. Retries(s) /\ Drains(s)  BY DEF Running, Retries, Drains
  <1>3. QED  BY <1>1, <1>2 DEF Running, Tearable, Timed

LEMMA BridgeHeadGood ==
  ASSUME GoodInv, BridgeHeadWritten \/ BridgeHeadFailed
  PROVE  Good(r')
  <1>1. PICK o \in {"write_101", "write_200"} : Completes(o)
    BY DEF BridgeHeadWritten, BridgeHeadFailed
  <1>2. Running(h) /\ Balanced(h, 0) /\ (~h.done => h.backend)
    BY <1>1, WrittenRunning DEF ClientWrite, Holding
  <1>3. CASE BridgeHeadWritten
    <2> DEFINE f == h.from_pool /\ r.op = "write_200"
               u == [h EXCEPT !.from_pool = f]
    <2>1. r' = bridge_mode(u)  BY <1>3, Zenon DEF BridgeHeadWritten, f, u
    <2>2. h \in Relay  BY <1>2 DEF Running
    <2>3. f \in BOOLEAN  OBVIOUS
    <2> HIDE DEF f
    <2>4. u \in Relay /\ SameCore(h, u) /\ u.resp_ok = h.resp_ok
          /\ u.resp_err = h.resp_err /\ u.backend = h.backend
      BY <2>2, <2>3 DEF Relay, SameCore
    <2> HIDE DEF u
    <2>5. Running(u) /\ Balanced(u, 0) /\ (~u.done => u.backend)
      BY <1>2, <2>4, SameCoreRunning DEF SameCore, Balanced
    <2>6. QED  BY <2>1, <2>5, BridgeGood
  <1>4. CASE BridgeHeadFailed
    BY <1>2, <1>4, RunningTearable, TeardownGood DEF BridgeHeadFailed
  <1>5. QED  BY <1>3, <1>4

LEMMA DrainHandlersGood ==
  ASSUME GoodInv, DrainRead \/ DrainEof
  PROVE  Good(r')
  <1>1. Completes("drain")  BY DEF DrainRead, DrainEof
  <1>2. Settled(h) /\ h.done = r.done
    BY <1>1, WrittenRunning DEF Holding, Settled
  <1>3. CASE DrainRead /\ r.done
    BY <1>2, <1>3, SettledDoneGood DEF DrainRead
  <1>4. CASE DrainRead /\ ~r.done
    <2>1. h \in Relay  BY <1>2 DEF Settled, Running
    <2>2. Settled(kick_idle_timer(h))
      BY <1>2, <2>1, KickFields, KickRunning DEF Settled, Balanced
    <2>3. QED  BY <1>4, <2>2, DrainGood DEF DrainRead
  <1>5. CASE DrainEof
    BY <1>2, <1>5, RunningTearable, TeardownGood DEF DrainEof, Settled
  <1>6. QED  BY <1>3, <1>4, <1>5

(* A relay in bridge mode after one of its pumps moved to v. *)
Pumping(u, d, v) ==
  /\ u \in Relay /\ u.op = "none" /\ u.fault = "none"
  /\ Balanced(u, 0) /\ Timed(u) /\ u.phase # "kRequest"
  /\ Retries(u) /\ Drains(u) /\ u.done = r.done
  /\ ~u.done => u.backend
  /\ u.pump[d] = v

LEMMA PumpUpdate ==
  ASSUME GoodInv, NEW d \in Dir, r.pump[d] # "off", r.fault = "none",
         NEW v \in {"off", "read", "write"}
  PROVE  Pumping([r EXCEPT !.pump[d] = v], d, v)
  <1> DEFINE p == [r.pump EXCEPT ![d] = v]
             u == [r EXCEPT !.pump = p]
  <1>0. r \in Relay /\ r.pump \in [Dir -> {"off", "read", "write"}]
    BY DEF GoodInv, Good, Relay
  <1>1. ~Off(r)  BY DEF Off
  <1>2. r.op = "none" /\ r.phase # "kRequest" /\ (~r.done => r.backend)
    BY <1>1 DEF GoodInv, Good, Held
  <1>3. p \in [Dir -> {"off", "read", "write"}] /\ p[d] = v  BY <1>0
  <1> HIDE DEF p
  <1>4. u \in Relay /\ u.pump = p /\ u.op = r.op /\ u.fault = r.fault
        /\ u.phase = r.phase /\ u.done = r.done /\ u.draining = r.draining
        /\ u.armed = r.armed /\ u.expired = r.expired
        /\ u.sends = r.sends /\ u.late = r.late /\ u.tunnels = r.tunnels
        /\ u.requests = r.requests /\ u.resp_ok = r.resp_ok
        /\ u.resp_err = r.resp_err /\ u.backend = r.backend
    BY <1>0, <1>3 DEF Relay
  <1> HIDE DEF u
  <1>5. Timed(u)  BY <1>4 DEF GoodInv, Good, Timed
  <1>6. Balanced(u, 0)
    BY <1>2, <1>4 DEF GoodInv, Good, Balanced, Owed, InFlight
  <1>7. Retries(u) /\ Drains(u)
    BY <1>2, <1>4 DEF GoodInv, Good, Retries, Drains
  <1>8. u = [r EXCEPT !.pump[d] = v]  BY <1>0 DEF u, p, Relay
  <1>9. Pumping(u, d, v)
    BY <1>2, <1>3, <1>4, <1>5, <1>6, <1>7 DEF Pumping
  <1>10. QED  BY <1>8, <1>9

LEMMA PumpStepGood ==
  ASSUME GoodInv, NEW d \in Dir, NEW ok \in BOOLEAN, PumpStep(d, ok)
  PROVE  Good(r')
  <1>0. r.pump[d] # "off" /\ r.fault = "none"  BY DEF PumpStep
  <1>1. CASE r.done
    <2> DEFINE u == [r EXCEPT !.pump[d] = "off"]
    <2>a. Pumping(u, d, "off")  BY <1>0, PumpUpdate, Zenon
    <2>2. r' = u  BY <1>1 DEF PumpStep
    <2> HIDE DEF u
    <2>1. u \in Relay /\ u.op = "none" /\ u.fault = "none"
          /\ Balanced(u, 0) /\ Timed(u) /\ u.phase # "kRequest"
          /\ Retries(u) /\ Drains(u) /\ u.done
      BY <1>1, <2>a DEF Pumping
    <2>3. Balanced(u, Owed(u))  BY <2>1 DEF Owed, InFlight
    <2>4. Good(u)  BY <2>1, <2>3 DEF Good
    <2>5. QED  BY <2>2, <2>4
  <1>2. CASE ~r.done /\ ~ok
    <2> DEFINE u == [r EXCEPT !.pump[d] = "off"]
    <2>a. Pumping(u, d, "off")  BY <1>0, PumpUpdate, Zenon
    <2>2. r' = teardown(u)  BY <1>2 DEF PumpStep
    <2> HIDE DEF u
    <2>1. u \in Relay /\ u.op = "none" /\ u.fault = "none"
          /\ Balanced(u, 0) /\ u.phase # "kRequest"
          /\ Retries(u) /\ Drains(u) /\ ~u.done
      BY <1>2, <2>a DEF Pumping
    <2>3. Balanced(u, Owed(u))  BY <2>1 DEF Owed, InFlight
    <2>4. Tearable(u)  BY <2>1, <2>3 DEF Tearable
    <2>5. QED  BY <2>2, <2>4, TeardownGood
  <1>3. CASE ~r.done /\ ok
    <2> DEFINE v == IF r.pump[d] = "read" THEN "write" ELSE "read"
               u == [r EXCEPT !.pump[d] = v]
               k == kick_idle_timer(u)
    <2>0. v \in {"off", "read", "write"} /\ v # "off"  OBVIOUS
    <2>1. r' = k  BY <1>3, Zenon DEF PumpStep, v, u, k
    <2> HIDE DEF v
    <2>a. Pumping(u, d, v)  BY <1>0, <2>0, PumpUpdate, Zenon
    <2> HIDE DEF u
    <2>2. u \in Relay /\ u.op = "none" /\ u.fault = "none"
          /\ Balanced(u, 0) /\ Timed(u) /\ u.phase # "kRequest"
          /\ Retries(u) /\ Drains(u) /\ u.done = r.done /\ u.backend
          /\ u.pump[d] = v
      BY <1>3, <2>a DEF Pumping
    <2>3. k \in Relay /\ k.op = "none" /\ k.fault = "none"
          /\ k.phase # "kRequest" /\ ~k.done /\ k.backend
          /\ k.pump[d] # "off" /\ Timed(k)
          /\ k.requests = u.requests /\ k.resp_ok = u.resp_ok
          /\ k.resp_err = u.resp_err /\ k.tunnels = u.tunnels
          /\ k.sends = u.sends /\ k.late = u.late /\ k.draining = u.draining
      <3>1. (u.done => ~u.armed) /\ ~u.done  BY <1>3, <2>2 DEF Timed
      <3>2. QED  BY <2>0, <2>2, <3>1, KickFields
    <2> HIDE DEF k
    <2>4. ~Off(k)  BY <2>3 DEF Off
    <2>5. Balanced(k, Owed(k))
      BY <2>2, <2>3 DEF Balanced, Owed, InFlight
    <2>6. Retries(k) /\ Drains(k)  BY <2>2, <2>3 DEF Retries, Drains
    <2>7. Held(k)  BY <2>3, <2>4 DEF Held
    <2>8. Good(k)  BY <2>3, <2>5, <2>6, <2>7 DEF Good
    <2>9. QED  BY <2>1, <2>8
  <1>4. QED  BY <1>1, <1>2, <1>3

LEMMA TimerExpiresGood == ASSUME GoodInv, TimerExpires PROVE Good(r')
  <1> DEFINE t == [r EXCEPT !.armed = FALSE, !.expired = TRUE]
  <1>a. r' = t  BY DEF TimerExpires
  <1>0. r \in Relay  BY DEF GoodInv, Good
  <1>b. t \in Relay  BY <1>0, Updates, Zenon
  <1>1. t \in Relay /\ ~t.armed /\ t.expired
        /\ t.op = r.op /\ t.fault = r.fault /\ t.pump = r.pump
        /\ t.phase = r.phase /\ t.done = r.done /\ t.draining = r.draining
        /\ t.sends = r.sends /\ t.late = r.late /\ t.tunnels = r.tunnels
        /\ t.requests = r.requests /\ t.resp_ok = r.resp_ok
        /\ t.resp_err = r.resp_err /\ t.backend = r.backend
        /\ t.pending_body = r.pending_body /\ t.from_pool = r.from_pool
        /\ t.retry_allowed = r.retry_allowed
    BY <1>0, <1>b DEF Relay
  <1> HIDE DEF t
  <1>2. Timed(t) /\ (Off(t) <=> Off(r))  BY <1>1 DEF Timed, Off
  <1>3. r.fault = "none" => Balanced(t, Owed(t))
    BY <1>1 DEF GoodInv, Good, Balanced, Owed
  <1>4. r.fault = "none" /\ ~r.done => Held(t)
    BY <1>1, <1>2 DEF GoodInv, Good, Held
  <1>5. Retries(t) /\ Drains(t)
    BY <1>1 DEF GoodInv, Good, Retries, Drains
  <1>6. /\ t.tunnels = 0 \/ t.op \in {"none", "write_200"}
        /\ t.phase = "kRequest" =>
             t.op = "parse_request" /\ ~t.backend /\ Off(t) /\ ~t.done
        /\ Off(t) \/ t.op = "none"
        /\ t.fault = "null_backend" => t.done
    BY <1>1, <1>2 DEF GoodInv, Good
  <1>7. Good(t)
    BY <1>1, <1>2, <1>3, <1>4, <1>5, <1>6 DEF Good
  <1>8. QED  BY <1>a, <1>7

LEMMA IdleTimeoutGood == ASSUME GoodInv, IdleTimeoutHandler PROVE Good(r')
  <1> DEFINE t == [r EXCEPT !.expired = FALSE]
  <1>0. r \in Relay /\ r.fault = "none" /\ r' = teardown(t)
    BY DEF GoodInv, Good, IdleTimeoutHandler
  <1>a. t \in Relay  BY <1>0, Updates, Zenon
  <1>1. t \in Relay /\ t.armed = r.armed
        /\ t.op = r.op /\ t.fault = r.fault /\ t.pump = r.pump
        /\ t.phase = r.phase /\ t.done = r.done /\ t.draining = r.draining
        /\ t.sends = r.sends /\ t.late = r.late /\ t.tunnels = r.tunnels
        /\ t.requests = r.requests /\ t.resp_ok = r.resp_ok
        /\ t.resp_err = r.resp_err
        /\ t.pending_body = r.pending_body /\ t.from_pool = r.from_pool
        /\ t.retry_allowed = r.retry_allowed
    BY <1>0, <1>a DEF Relay
  <1> HIDE DEF t
  <1>2. Off(t) <=> Off(r)  BY <1>1 DEF Off
  <1>3. Balanced(t, Owed(t))
    BY <1>0, <1>1 DEF GoodInv, Good, Balanced, Owed
  <1>4. Retries(t) /\ Drains(t)
    BY <1>1 DEF GoodInv, Good, Retries, Drains
  <1>5. Tearable(t)
    BY <1>0, <1>1, <1>2, <1>3, <1>4 DEF GoodInv, Good, Timed, Tearable
  <1>6. QED  BY <1>0, <1>5, TeardownGood

LEMMA GracefulGood == ASSUME GoodInv, graceful_close PROVE Good(r')
  <1>1. CASE r.done  BY <1>1 DEF graceful_close, GoodInv
  <1>2. CASE ~r.done
    <2> DEFINE f == r.fin \/ r.phase = "kRequest"
               t == [r EXCEPT !.draining = TRUE, !.fin = f]
    <2>0. r \in Relay /\ f \in BOOLEAN  BY DEF GoodInv, Good
    <2>1. r' = t  BY <1>2, Zenon DEF graceful_close, f, t
    <2> HIDE DEF f
    <2>a. t \in Relay  BY <2>0, Updates, Zenon
    <2>2. t \in Relay /\ t.armed = r.armed /\ t.expired = r.expired
          /\ t.op = r.op /\ t.fault = r.fault /\ t.pump = r.pump
          /\ t.phase = r.phase /\ t.done = r.done /\ t.draining
          /\ t.sends = r.sends /\ t.late = r.late /\ t.tunnels = r.tunnels
          /\ t.requests = r.requests /\ t.resp_ok = r.resp_ok
          /\ t.resp_err = r.resp_err /\ t.backend = r.backend
          /\ t.pending_body = r.pending_body /\ t.from_pool = r.from_pool
          /\ t.retry_allowed = r.retry_allowed
      BY <2>0, <2>a, SMTT(30) DEF Relay
    <2> HIDE DEF t
    <2>b. t.pump = r.pump  BY <2>2
    <2>c. Off(t) <=> Off(r)  BY <2>b, Zenon DEF Off
    <2>d. Timed(r)  BY DEF GoodInv, Good
    <2>e. t.armed = r.armed /\ t.expired = r.expired /\ t.done = r.done
      BY <2>2
    <2>f. Timed(t)  BY <2>d, <2>e, Zenon DEF Timed
    <2>3. Timed(t) /\ (Off(t) <=> Off(r))  BY <2>c, <2>f
    <2>4. r.fault = "none" => Balanced(t, Owed(t))
      BY <2>2 DEF GoodInv, Good, Balanced, Owed
    <2>5. r.fault = "none" /\ ~r.done => Held(t)
      BY <2>2, <2>3 DEF GoodInv, Good, Held
    <2>6. Retries(t) /\ Drains(t)
      BY <2>2 DEF GoodInv, Good, Retries, Drains
    <2>7. Good(t)
      BY <2>2, <2>3, <2>4, <2>5, <2>6 DEF GoodInv, Good
    <2>8. QED  BY <2>1, <2>7
  <1>3. QED  BY <1>1, <1>2

-----------------------------------------------------------------------------
(* The invariant *)

LEMMA NewRelayFacts ==
  ASSUME NEW h3 \in BOOLEAN
  PROVE  LET s == NewRelay(h3) IN
         /\ s \in Relay /\ s.fault = "none" /\ Off(s) /\ ~s.done
         /\ ~s.backend /\ s.tunnels = 0 /\ s.requests = 0 /\ s.resp_ok = 0
         /\ s.resp_err = 0 /\ s.sends = 0 /\ s.late = 0
  <1>1. NewRelay(h3) \in Relay  BY DEF NewRelay, Relay, Phase, Op
  <1>2. QED  BY <1>1 DEF NewRelay, Off

LEMMA InitGood == Init => GoodInv
  <1> SUFFICES ASSUME Init PROVE GoodInv  OBVIOUS
  <1>1. PICK h3 \in BOOLEAN : r = request_phase(NewRelay(h3))  BY DEF Init
  <1>2. Balanced(NewRelay(h3), 0)  BY NewRelayFacts DEF Balanced
  <1>3. Good(r)  BY <1>1, <1>2, NewRelayFacts, RequestPhaseGood
  <1>4. QED  BY <1>3 DEF Init, GoodInv

(* Every step of the relay keeps the invariant: one lemma per handler. *)
LEMMA NextGood == GoodInv /\ [Next]_vars => GoodInv'
  <1> SUFFICES ASSUME GoodInv, [Next]_vars PROVE GoodInv'  OBVIOUS
  <1>0. (stopping \in BOOLEAN /\ silent \in BOOLEAN)'
    BY DEF GoodInv, Next, vars, ParseFailed, RequestParsed, Connected,
       ConnectFailed, TunnelConnected, TunnelConnectFailed, RequestWritten,
       RequestWriteFailed, BackendStreamGone, Reconnected, ReconnectFailed,
       ResponseFailed, ResponseParsed, ResponseWritten, ErrorWritten, BridgeHeadWritten,
       BridgeHeadFailed, DrainRead, DrainEof, PumpStep, TimerExpires,
       IdleTimeoutHandler, graceful_close, GoSilent, Completes
  <1>1. CASE UNCHANGED r  BY <1>0, <1>1 DEF GoodInv
  <1>2. CASE Next
    <2>1. CASE GoSilent  BY <1>1, <2>1 DEF GoSilent
    <2>2. CASE ~GoSilent
      <3>1. Good(r')
        BY <1>2, <2>2, ParseFailedGood, RequestParsedGood, ConnectGood,
           TunnelConnectGood, RequestWrittenGood, RequestWriteFailedGood,
           StreamGoneGood, ReconnectGood, ResponseFailedGood, ResponseParsedGood,
           ResponseWrittenGood, ErrorWrittenGood, BridgeHeadGood,
           DrainHandlersGood, PumpStepGood, TimerExpiresGood,
           IdleTimeoutGood, GracefulGood, Zenon
        DEF Next
      <3>2. QED  BY <1>0, <3>1 DEF GoodInv
    <2>3. QED  BY <2>1, <2>2
  <1>3. QED  BY <1>1, <1>2 DEF vars

(* The strengthened invariant holds in every reachable state. *)
THEOREM Invariance == Spec => []GoodInv
  BY InitGood, NextGood, PTL DEF Spec

(* Type correctness of the relay, for every set of requests and responses. *)
THEOREM TypeCorrect == Spec => []TypeOK
  <1>1. GoodInv => TypeOK  BY DEF GoodInv, Good, TypeOK
  <1>2. QED  BY <1>1, Invariance, PTL

(* Every request the relay counted is answered once, granted a tunnel, or  *)
(* the single one on its way, however many requests the connection sends.  *)
THEOREM AccountingHolds == Spec => []Accounting
  <1>1. GoodInv => Accounting
    BY DEF GoodInv, Good, Accounting, Balanced, Owed
  <1>2. QED  BY <1>1, Invariance, PTL

(* send_backend_request runs at most twice per request, and the second     *)
(* time without a body, on a fresh connection.                             *)
THEOREM RetryOnceHolds == Spec => []RetryOnce
  <1>1. GoodInv => RetryOnce
    BY DEF GoodInv, Good, RetryOnce, Retries
  <1>2. QED  BY <1>1, Invariance, PTL

(* A live relay holds backend_ exactly while an operation needs it. *)
THEOREM BackendHeldHolds == Spec => []BackendHeldWhileNeeded
  <1>1. GoodInv => BackendHeldWhileNeeded
    BY DEF GoodInv, Good, BackendHeldWhileNeeded, BackendNeeded, Held,
       Holding, PumpsOff, Off
  <1>2. QED  BY <1>1, Invariance, PTL

(* In kRequest only a read is pending. *)
THEOREM QuietHolds == Spec => []QuietBetweenRequests
  <1>1. GoodInv => QuietBetweenRequests
    BY DEF GoodInv, Good, QuietBetweenRequests, PumpsOff, Off
  <1>2. QED  BY <1>1, Invariance, PTL

(* The idle timer covers every wait of a live relay. *)
THEOREM TimerHolds == Spec => []TimerCoversLiveRelay
  <1>1. GoodInv => TimerCoversLiveRelay
    BY DEF GoodInv, Good, TimerCoversLiveRelay, Timed
  <1>2. QED  BY <1>1, Invariance, PTL

(* A draining relay takes at most one more request. *)
THEOREM DrainingHolds == Spec => []OneRequestWhileDraining
  <1>1. GoodInv => OneRequestWhileDraining
    BY DEF GoodInv, Good, OneRequestWhileDraining, Drains
  <1>2. QED  BY <1>1, Invariance, PTL

(* Only a handler that runs after teardown can meet the null backend_. *)
THEOREM NullBackendHolds == Spec => []NullBackendOnlyAfterTeardown
  <1>1. GoodInv => NullBackendOnlyAfterTeardown
    BY DEF GoodInv, Good, NullBackendOnlyAfterTeardown
  <1>2. QED  BY <1>1, Invariance, PTL

-----------------------------------------------------------------------------
(* RelaySession implements ExchangeLedger: each helper's effect on the     *)
(* counters, then one case per handler.                                    *)


SameCounts(s, t) ==
  /\ t.requests = s.requests /\ t.resp_ok = s.resp_ok
  /\ t.resp_err = s.resp_err /\ t.tunnels = s.tunnels

(* No helper but write_error and start_tunnel moves a counter. *)
LEMMA KickCounts ==
  ASSUME NEW s \in Relay PROVE SameCounts(s, kick_idle_timer(s))
  BY KickFields DEF SameCounts

LEMMA SimpleCounts ==
  ASSUME NEW s \in Relay, NEW p, NEW o
  PROVE  /\ SameCounts(s, goto_phase(s, p)) /\ SameCounts(s, Start(s, o))
         /\ SameCounts(s, WriteClient(s, o)) /\ SameCounts(s, close_backend(s))
  BY DEF goto_phase, Start, WriteClient, close_backend, SameCounts, Relay

LEMMA TeardownCounts ==
  ASSUME NEW s \in Relay PROVE SameCounts(s, teardown(s))
  <1>1. CASE s.done  BY <1>1 DEF teardown, SameCounts
  <1>2. CASE ~s.done
    <2> DEFINE t == [[[s EXCEPT !.phase = "kClosed"] EXCEPT
                        !.done = TRUE, !.armed = FALSE, !.fin = TRUE]
                       EXCEPT !.backend = FALSE]
    <2>1. teardown(s) = t
      BY <1>2, Zenon DEF teardown, close_backend, goto_phase, t
    <2>2. SameCounts(s, t)  BY DEF SameCounts, Relay
    <2>3. QED  BY <2>1, <2>2
  <1>3. QED  BY <1>1, <1>2

LEMMA DrainCounts ==
  ASSUME NEW s \in Relay
  PROVE  /\ SameCounts(s, drain_client(s))
         /\ SameCounts(s, gracefully_close_client(s))
  <1>1. ASSUME NEW t \in Relay PROVE SameCounts(t, drain_client(t))
    BY <1>1, SimpleCounts DEF drain_client, SameCounts
  <1>2. CASE s.done
    BY <1>1, <1>2 DEF gracefully_close_client, SameCounts
  <1>3. CASE ~s.done
    <2> DEFINE t == [s EXCEPT !.draining = TRUE, !.fin = TRUE]
    <2>a. t \in Relay  BY Updates, Zenon
    <2>1. t \in Relay /\ SameCounts(s, t)  BY <2>a DEF Relay, SameCounts
    <2>2. gracefully_close_client(s) = drain_client(t)
      BY <1>3, Zenon DEF gracefully_close_client, t
    <2> HIDE DEF t
    <2>3. QED  BY <1>1, <2>1, <2>2 DEF SameCounts
  <1>4. QED  BY <1>1, <1>2, <1>3

LEMMA GotoType ==
  ASSUME NEW s \in Relay, NEW p \in Phase
  PROVE  goto_phase(s, p) \in Relay
  BY DEF goto_phase, Relay

LEMMA RequestPhaseCounts ==
  ASSUME NEW s \in Relay PROVE SameCounts(s, request_phase(s))
  <1> DEFINE g == goto_phase(s, "kRequest")
             k == kick_idle_timer(g)
  <1>1. g \in Relay /\ SameCounts(s, g)
    BY GotoType, SimpleCounts DEF Phase
  <1> HIDE DEF g
  <1>2. k \in Relay /\ SameCounts(g, k)  BY <1>1, KickFields, KickCounts
  <1> HIDE DEF k
  <1>3. SameCounts(k, Start(k, "parse_request"))  BY <1>2, SimpleCounts
  <1>4. request_phase(s) = Start(k, "parse_request")
    BY DEF request_phase, g, k
  <1>5. QED  BY <1>1, <1>2, <1>3, <1>4 DEF SameCounts

LEMMA AfterResponseCounts ==
  ASSUME NEW s \in Relay PROVE SameCounts(s, after_client_response(s))
  BY DrainCounts, RequestPhaseCounts DEF after_client_response

LEMMA FinishCounts ==
  ASSUME NEW s \in Relay PROVE SameCounts(s, finish_backend(s))
  BY DEF finish_backend, SameCounts, Relay

LEMMA ResponsePhaseCounts ==
  ASSUME NEW s \in Relay PROVE SameCounts(s, response_phase(s))
  <1> DEFINE g == goto_phase(s, "kResponse")
             k == kick_idle_timer(g)
  <1>1. g \in Relay /\ SameCounts(s, g)
    BY GotoType, SimpleCounts DEF Phase
  <1> HIDE DEF g
  <1>2. k \in Relay /\ SameCounts(g, k)  BY <1>1, KickFields, KickCounts
  <1> HIDE DEF k
  <1>3. SameCounts(k, Start(k, "parse_response"))  BY <1>2, SimpleCounts
  <1>4. SameCounts(k, [k EXCEPT !.fault = "null_backend"])
    BY <1>2 DEF SameCounts, Relay
  <1>5. response_phase(s) \in {Start(k, "parse_response"),
                               [k EXCEPT !.fault = "null_backend"]}
    BY Zenon DEF response_phase, g, k
  <1>6. QED  BY <1>1, <1>2, <1>3, <1>4, <1>5 DEF SameCounts

LEMMA BridgeCounts ==
  ASSUME NEW s \in Relay PROVE SameCounts(s, bridge_mode(s))
  <1> DEFINE g == goto_phase(s, "kBridge")
             u == [g EXCEPT !.pump = [d \in Dir |-> "read"]]
             v == [g EXCEPT !.fault = "null_backend"]
  <1>1. g \in Relay /\ SameCounts(s, g)
    BY GotoType, SimpleCounts DEF Phase
  <1>2. bridge_mode(s) \in {u, v}  BY Zenon DEF bridge_mode, g, u, v
  <1> HIDE DEF g
  <1>3. SameCounts(g, u) /\ SameCounts(g, v)  BY <1>1 DEF SameCounts, Relay
  <1> HIDE DEF u, v
  <1>4. QED  BY <1>1, <1>2, <1>3 DEF SameCounts

LEMMA SendCounts ==
  ASSUME NEW s \in Relay, NEW retry \in BOOLEAN
  PROVE  SameCounts(s, send_backend_request(s, retry))
  <1> DEFINE n == s.sends + 1
             u == [s EXCEPT !.retry_allowed = retry, !.sends = n]
  <1>1. n \in Nat  BY DEF Relay
  <1>2. send_backend_request(s, retry) = Start(u, "write_request")
    BY DEF send_backend_request
  <1> HIDE DEF n
  <1>3. u \in Relay  BY <1>1, Updates, Zenon
  <1>4. SameCounts(s, u)  BY DEF Relay, SameCounts
  <1> HIDE DEF u
  <1>5. QED  BY <1>2, <1>3, <1>4, SimpleCounts DEF SameCounts

LEMMA UseBackendCounts ==
  ASSUME NEW s \in Relay, NEW h3 \in BOOLEAN, NEW pooled \in BOOLEAN
  PROVE  SameCounts(s, use_backend(s, h3, pooled))
  <1> DEFINE u == [s EXCEPT !.backend = TRUE, !.backend_h3 = h3]
             k == kick_idle_timer(u)
             n == IF pooled THEN k.backend_connects
                  ELSE k.backend_connects + 1
             v == [k EXCEPT !.from_pool = pooled, !.backend_connects = n]
  <1>1. u \in Relay /\ SameCounts(s, u)
    <2>1. u \in Relay  BY Updates, Zenon
    <2>2. SameCounts(s, u)  BY DEF Relay, SameCounts
    <2>3. QED  BY <2>1, <2>2
  <1>2. use_backend(s, h3, pooled) = send_backend_request(v, TRUE)
    BY Zenon DEF use_backend, u, k, n, v
  <1> HIDE DEF u
  <1>3. k \in Relay /\ SameCounts(u, k)  BY <1>1, KickFields, KickCounts
  <1> HIDE DEF k
  <1>4. k.backend_connects \in Nat  BY <1>3 DEF Relay
  <1>5. n \in Nat  BY <1>4
  <1> HIDE DEF n
  <1>a. k \in Relay  BY <1>3
  <1>b. v \in Relay  BY <1>a, <1>5, Updates, Zenon
  <1>c. SameCounts(k, v)  BY <1>a DEF Relay, SameCounts
  <1>6. v \in Relay /\ SameCounts(k, v)  BY <1>b, <1>c
  <1> HIDE DEF v
  <1>7. SameCounts(v, send_backend_request(v, TRUE))  BY <1>6, SendCounts
  <1>8. QED  BY <1>1, <1>2, <1>3, <1>6, <1>7 DEF SameCounts

(* A local error is one answer. *)
Errs(s, t) ==
  /\ t.requests = s.requests /\ t.resp_ok = s.resp_ok
  /\ t.resp_err = s.resp_err + 1 /\ t.tunnels = s.tunnels

LEMMA WriteErrorCounts ==
  ASSUME NEW s \in Relay PROVE Errs(s, write_error(s))
  <1> DEFINE n == s.resp_err + 1
             u == [s EXCEPT !.resp_err = n]
  <1>1. n \in Nat  BY DEF Relay
  <1>2. write_error(s) = WriteClient(u, "write_error")
    BY DEF write_error
  <1> HIDE DEF n
  <1>3. u \in Relay /\ u.requests = s.requests /\ u.resp_ok = s.resp_ok
        /\ u.resp_err = n /\ u.tunnels = s.tunnels
    BY <1>1 DEF Relay
  <1> HIDE DEF u
  <1>4. QED  BY <1>2, <1>3, SimpleCounts DEF SameCounts, Errs, n

LEMMA DialCounts ==
  ASSUME NEW s \in Relay, NEW h3 \in BOOLEAN, NEW o,
         NEW a \in {"pooled", "refused", "later", "throws"}
  PROVE  LET t == Dial(s, o, a, h3) IN SameCounts(s, t) \/ Errs(s, t)
  <1>1. CASE a = "pooled"  BY <1>1, UseBackendCounts DEF Dial
  <1>2. CASE a = "refused"  BY <1>2, WriteErrorCounts DEF Dial
  <1>3. CASE a = "later"  BY <1>3, SimpleCounts DEF Dial
  <1>4. CASE a = "throws"
    <2>1. SameCounts(s, [s EXCEPT !.fault = "resolve_throw"])
      BY DEF SameCounts, Relay
    <2>2. QED  BY <1>4, <2>1 DEF Dial
  <1>5. QED  BY <1>1, <1>2, <1>3, <1>4

-----------------------------------------------------------------------------
(* The handlers *)

(* A step the ledger does not see. *)
Quiet == SameCounts(r, r')

LEMMA HCounts ==
  ASSUME GoodInv PROVE h \in Relay /\ SameCounts(r, h)
  BY DEF GoodInv, Good, h, SameCounts, Relay, Op

LEMMA QuietSteps ==
  ASSUME GoodInv,
         \/ ParseFailed \/ Connected \/ RequestWritten \/ BackendStreamGone \/ Reconnected
         \/ ResponseWritten \/ ErrorWritten \/ BridgeHeadWritten
         \/ BridgeHeadFailed \/ DrainRead \/ DrainEof
         \/ TimerExpires \/ IdleTimeoutHandler \/ graceful_close
         \/ \E d \in Dir, ok \in BOOLEAN : PumpStep(d, ok)
  PROVE  Quiet
  <1>0. h \in Relay /\ SameCounts(r, h) /\ r \in Relay
    BY HCounts DEF GoodInv, Good
  <1>a. h \in Relay  BY <1>0
  <1>b. r \in Relay  BY <1>0
  <1>1. CASE ParseFailed \/ BridgeHeadFailed \/ DrainEof
    <2>1. r' = teardown(h)
      BY <1>1 DEF ParseFailed, BridgeHeadFailed, DrainEof
    <2>2. QED  BY <1>0, <2>1, TeardownCounts DEF SameCounts, Quiet
  <1>2. CASE Connected
    <2>1. PICK pooled \in BOOLEAN : r' = use_backend(h, r.backend_h3, pooled)
      BY <1>2 DEF Connected
    <2>2. r.backend_h3 \in BOOLEAN  BY <1>0 DEF Relay
    <2>3. QED  BY <1>0, <2>1, <2>2, UseBackendCounts DEF SameCounts, Quiet
  <1>3. CASE RequestWritten
    <2> DEFINE u == [h EXCEPT !.pending_body = FALSE]
    <2>1. u \in Relay /\ SameCounts(h, u)
      <3>1. u \in Relay  BY <1>a, Updates, Zenon
      <3>2. SameCounts(h, u)  BY <1>a DEF Relay, SameCounts
      <3>3. QED  BY <3>1, <3>2
    <2>2. r' = response_phase(kick_idle_timer(u))
      BY <1>3 DEF RequestWritten
    <2> HIDE DEF u
    <2>3. kick_idle_timer(u) \in Relay /\ SameCounts(u, kick_idle_timer(u))
      BY <2>1, KickFields, KickCounts
    <2>4. SameCounts(kick_idle_timer(u), r')
      BY <2>2, <2>3, ResponsePhaseCounts
    <2>5. QED  BY <1>0, <2>1, <2>3, <2>4 DEF SameCounts, Quiet
  <1>4. CASE Reconnected
    <2> DEFINE n == h.backend_connects + 1
               u == [h EXCEPT !.backend = TRUE, !.from_pool = FALSE,
                              !.backend_connects = n]
    <2>1. r' = send_backend_request(u, FALSE)
      BY <1>4, Zenon DEF Reconnected, n, u
    <2>2. n \in Nat  BY <1>0 DEF Relay
    <2> HIDE DEF n
    <2>3. u \in Relay  BY <1>0, <2>2, Updates, Zenon
    <2>4. SameCounts(h, u)  BY <1>0 DEF Relay, SameCounts
    <2> HIDE DEF u
    <2>5. QED  BY <1>0, <2>1, <2>3, <2>4, SendCounts DEF SameCounts, Quiet
  <1>5. CASE ResponseWritten
    <2> DEFINE f == finish_backend(h)
    <2>1. r' = after_client_response(f)  BY <1>5 DEF ResponseWritten
    <2>2. SameCounts(h, f)  BY <1>0, FinishCounts
    <2>3. f \in Relay
      <3>1. Running(h) /\ h.tunnels = 0 /\ Balanced(h, 0)
        BY <1>5, WrittenRunning DEF ResponseWritten, ClientWrite
      <3>2. QED  BY <3>1, FinishSettled DEF Settled, Running
    <2> HIDE DEF f
    <2>4. QED
      BY <1>0, <2>1, <2>2, <2>3, AfterResponseCounts DEF SameCounts, Quiet
  <1>6. CASE ErrorWritten
    BY <1>0, <1>6, AfterResponseCounts DEF ErrorWritten, SameCounts, Quiet
  <1>7. CASE BridgeHeadWritten
    <2> DEFINE f == h.from_pool /\ r.op = "write_200"
               u == [h EXCEPT !.from_pool = f]
    <2>1. r' = bridge_mode(u)  BY <1>7, Zenon DEF BridgeHeadWritten, f, u
    <2>2. f \in BOOLEAN  OBVIOUS
    <2> HIDE DEF f
    <2>3. u \in Relay /\ SameCounts(h, u)
      BY <1>0, <2>2 DEF Relay, SameCounts
    <2> HIDE DEF u
    <2>4. QED  BY <1>0, <2>1, <2>3, BridgeCounts DEF SameCounts, Quiet
  <1>8. CASE DrainRead
    <2>1. kick_idle_timer(h) \in Relay
          /\ SameCounts(h, kick_idle_timer(h))
      BY <1>0, KickFields, KickCounts
    <2>2. QED
      BY <1>0, <1>8, <2>1, DrainCounts DEF DrainRead, SameCounts, Quiet
  <1>9. CASE TimerExpires
    BY <1>0, <1>9 DEF TimerExpires, SameCounts, Quiet, Relay
  <1>10. CASE IdleTimeoutHandler
    <2> DEFINE u == [r EXCEPT !.expired = FALSE]
    <2>1. u \in Relay /\ SameCounts(r, u)
      <3>1. u \in Relay  BY <1>b, Updates, Zenon
      <3>2. SameCounts(r, u)  BY <1>b DEF Relay, SameCounts
      <3>3. QED  BY <3>1, <3>2
    <2>2. r' = teardown(u)  BY <1>10 DEF IdleTimeoutHandler
    <2> HIDE DEF u
    <2>3. QED  BY <2>1, <2>2, TeardownCounts DEF SameCounts, Quiet
  <1>11. CASE graceful_close
    BY <1>0, <1>11 DEF graceful_close, SameCounts, Quiet, Relay
  <1>12. ASSUME NEW d \in Dir, NEW ok \in BOOLEAN, PumpStep(d, ok)
         PROVE  Quiet
    <2>1. PICK v \in {"off", "read", "write"} :
            LET u == [r EXCEPT !.pump[d] = v] IN
            r' \in {u, teardown(u), kick_idle_timer(u)}
      <3>1. CASE r.done \/ ~ok  BY <1>12, <3>1 DEF PumpStep
      <3>2. CASE ~r.done /\ ok
        <4>1. (IF r.pump[d] = "read" THEN "write" ELSE "read")
                \in {"off", "read", "write"}
          OBVIOUS
        <4>2. QED  BY <1>12, <3>2, <4>1, Zenon DEF PumpStep
      <3>3. QED  BY <3>1, <3>2
    <2> DEFINE u == [r EXCEPT !.pump[d] = v]
    <2>2. u \in Relay
      <3>1. r.pump[d] # "off" /\ r.fault = "none"  BY <1>12 DEF PumpStep
      <3>2. Pumping(u, d, v)  BY <3>1, PumpUpdate, Zenon
      <3>3. QED  BY <3>2, Zenon DEF Pumping
    <2>3. SameCounts(r, u)  BY <1>0 DEF Relay, SameCounts
    <2>4. r' \in {u, teardown(u), kick_idle_timer(u)}  BY <2>1
    <2> HIDE DEF u
    <2>5. SameCounts(u, r')
      BY <2>2, <2>4, TeardownCounts, KickCounts DEF SameCounts
    <2>6. QED  BY <2>3, <2>5 DEF SameCounts, Quiet
  <1>13. CASE BackendStreamGone
    <2>1. r' = [h EXCEPT !.fault = "closed_stream"]
      BY <1>13 DEF BackendStreamGone
    <2>2. SameCounts(h, [h EXCEPT !.fault = "closed_stream"])
      BY <1>a DEF Relay, SameCounts
    <2>3. QED  BY <1>0, <2>1, <2>2 DEF SameCounts, Quiet
  <1>14. QED
    BY <1>1, <1>2, <1>3, <1>4, <1>5, <1>6, <1>7, <1>8, <1>9, <1>10, <1>11,
       <1>12, <1>13

LEMMA FailedSteps ==
  ASSUME GoodInv,
         \/ ConnectFailed \/ TunnelConnectFailed \/ RequestWriteFailed
         \/ ReconnectFailed \/ ResponseFailed
  PROVE  (Quiet \/ Errs(r, r')) /\ r.fault = "none" /\ r.op \in InFlight
  <1>0. h \in Relay /\ SameCounts(r, h)  BY HCounts
  <1>1. r.fault = "none" /\ r.op \in InFlight
    BY DEF ConnectFailed, TunnelConnectFailed, RequestWriteFailed,
       ReconnectFailed, ResponseFailed, Completes, InFlight
  <1> DEFINE c == close_backend(h)
  <1>2. c \in Relay /\ SameCounts(h, c)
    <2>1. c \in Relay  BY <1>0, Updates, Zenon DEF close_backend
    <2>2. QED  BY <1>0, <2>1, SimpleCounts
  <1> HIDE DEF c
  <1>3. CASE ConnectFailed \/ TunnelConnectFailed \/ ReconnectFailed
    <2>1. r' = write_error(h)
      BY <1>3 DEF ConnectFailed, TunnelConnectFailed, ReconnectFailed
    <2>2. QED  BY <1>0, <1>1, <2>1, WriteErrorCounts DEF SameCounts, Errs
  <1>4. CASE RequestWriteFailed \/ ResponseFailed
    <2>1. \/ r' = write_error(c)
          \/ \E a \in Answers(TRUE, FALSE) : r' = Dial(c, "reconnect", a, FALSE)
      BY <1>4, Zenon DEF RequestWriteFailed, ResponseFailed,
         reconnect_backend_fresh, c
    <2>2. SameCounts(c, r') \/ Errs(c, r')
      BY <1>2, <2>1, WriteErrorCounts, DialCounts, AnswersKnown
    <2>3. QED  BY <1>0, <1>1, <1>2, <2>2 DEF SameCounts, Errs, Quiet
  <1>5. QED  BY <1>3, <1>4

LEMMA TunnelStep ==
  ASSUME GoodInv, TunnelConnected
  PROVE  /\ r.fault = "none" /\ r.op \in InFlight
         /\ r'.requests = r.requests /\ r'.resp_ok = r.resp_ok
         /\ r'.resp_err = r.resp_err /\ r'.tunnels = r.tunnels + 1
  <1>0. h \in Relay /\ SameCounts(r, h)  BY HCounts
  <1>1. r.fault = "none" /\ r.op \in InFlight
    BY DEF TunnelConnected, Completes, InFlight
  <1> DEFINE n == h.tunnels + 1
             u == [h EXCEPT !.backend = TRUE, !.tunnels = n]
  <1>2. r' = WriteClient(u, "write_200")
    BY DEF TunnelConnected, start_tunnel
  <1>3. n \in Nat  BY <1>0 DEF Relay
  <1>a. h \in Relay  BY <1>0
  <1> HIDE DEF n
  <1>4. u \in Relay  BY <1>a, <1>3, Updates, Zenon
  <1>5. u.requests = h.requests /\ u.resp_ok = h.resp_ok
        /\ u.resp_err = h.resp_err /\ u.tunnels = n
    BY <1>a DEF Relay
  <1> HIDE DEF u
  <1>6. SameCounts(u, r')  BY <1>2, <1>4, SimpleCounts
  <1>7. QED  BY <1>0, <1>1, <1>5, <1>6 DEF SameCounts, n

LEMMA ResponseStep ==
  ASSUME GoodInv, NEW a \in Responses, ResponseParsed(a)
  PROVE  /\ r.fault = "none" /\ r.op \in InFlight
         /\ r'.requests = r.requests /\ r'.tunnels = r.tunnels
         /\ r'.resp_ok + r'.resp_err = r.resp_ok + r.resp_err + 1
  <1> DEFINE e == IF a = "err" THEN h.resp_err + 1 ELSE h.resp_err
             k == IF a = "err" THEN h.resp_ok ELSE h.resp_ok + 1
             u == [h EXCEPT !.resp_err = e, !.resp_ok = k]
             s == kick_idle_timer(u)
  <1>0. h \in Relay /\ SameCounts(r, h)  BY HCounts
  <1>a. h \in Relay  BY <1>0
  <1>1. r.fault = "none" /\ r.op \in InFlight
    BY DEF ResponseParsed, Completes, InFlight
  <1>2. PICK o : r' = WriteClient(s, o)
    BY Zenon DEF ResponseParsed, e, k, u, s
  <1>3. h.resp_ok \in Nat /\ h.resp_err \in Nat  BY <1>a DEF Relay
  <1>4. e \in Nat /\ k \in Nat /\ e + k = h.resp_ok + h.resp_err + 1
    BY <1>3
  <1> HIDE DEF e, k
  <1>6. u \in Relay  BY <1>a, <1>4, Updates, Zenon
  <1>7. u.requests = h.requests /\ u.resp_ok = k
        /\ u.resp_err = e /\ u.tunnels = h.tunnels
    BY <1>a DEF Relay
  <1> HIDE DEF u
  <1>8. s \in Relay /\ SameCounts(u, s)  BY <1>6, KickFields, KickCounts
  <1> HIDE DEF s
  <1>9. SameCounts(s, r')  BY <1>2, <1>8, SimpleCounts
  <1>10. QED  BY <1>0, <1>1, <1>3, <1>4, <1>7, <1>8, <1>9 DEF SameCounts

LEMMA RequestStep ==
  ASSUME GoodInv, NEW q \in Requests, RequestParsed(q)
  PROVE  /\ r.fault = "none" /\ r.op = "parse_request"
         /\ r'.requests = r.requests + 1 /\ r'.tunnels = r.tunnels
         /\ r'.resp_ok = r.resp_ok
         /\ r'.resp_err = r.resp_err \/ r'.resp_err = r.resp_err + 1
  <1> DEFINE g == goto_phase(h, "kForward")
             n == g.requests + 1
             m == IF r.draining THEN g.late + 1 ELSE g.late
             u == [g EXCEPT !.requests = n, !.keep_alive = q.keep_alive,
                            !.upgrade = q.upgrade,
                            !.pending_body = q.body, !.sends = 0, !.late = m]
             s == kick_idle_timer(u)
             v(h3) == [s EXCEPT !.backend_h3 = h3]
  <1>0. r.fault = "none" /\ r.op = "parse_request"
    BY DEF RequestParsed, Completes
  <1>1. h \in Relay /\ SameCounts(r, h)  BY HCounts
  <1>2. g \in Relay /\ SameCounts(h, g)
    BY <1>1, GotoType, SimpleCounts DEF Phase
  <1> HIDE DEF g
  <1>3. n \in Nat /\ m \in Nat
    <2>1. g.requests \in Nat /\ g.late \in Nat  BY <1>2 DEF Relay
    <2>2. QED  BY <2>1
  <1>4. q.keep_alive \in BOOLEAN
        /\ q.upgrade \in BOOLEAN /\ q.body \in BOOLEAN
    BY RelayAssumption DEF Request
  <1>5. \/ r' = write_error(s)
        \/ \E a \in Answers(TRUE, FALSE) :
             r' = Dial(s, "tunnel_connect", a, FALSE)
        \/ \E h3 \in BOOLEAN : \E f \in BOOLEAN : \E a \in Answers(f, h3) :
             r' = Dial(v(h3), "connect", a, h3)
    BY Zenon DEF RequestParsed, g, n, m, u, s, v
  <1> HIDE DEF n, m
  <1>a. g \in Relay  BY <1>2
  <1>b. q \in Request  BY RelayAssumption
  <1>6. u \in Relay  BY <1>a, <1>b, <1>3, RequestFields, Zenon
  <1>7. u.requests = n /\ u.resp_ok = g.resp_ok
        /\ u.resp_err = g.resp_err /\ u.tunnels = g.tunnels
    BY <1>a DEF Relay
  <1> HIDE DEF u
  <1>8. s \in Relay /\ SameCounts(u, s)  BY <1>6, KickFields, KickCounts
  <1> HIDE DEF s
  <1>9. ASSUME NEW h3 \in BOOLEAN
        PROVE  v(h3) \in Relay /\ SameCounts(s, v(h3))
    <2>1. s \in Relay  BY <1>8
    <2>2. v(h3) \in Relay  BY <2>1 DEF Relay
    <2>3. SameCounts(s, v(h3))  BY <2>1 DEF Relay, SameCounts
    <2>4. QED  BY <2>2, <2>3
  <1> HIDE DEF v
  <1>10. SameCounts(s, r') \/ Errs(s, r')
    <2>1. CASE r' = write_error(s)  BY <1>8, <2>1, WriteErrorCounts
    <2>2. ASSUME NEW a \in Answers(TRUE, FALSE),
                 r' = Dial(s, "tunnel_connect", a, FALSE)
          PROVE  SameCounts(s, r') \/ Errs(s, r')
      BY <1>8, <2>2, AnswersKnown, DialCounts
    <2>3. ASSUME NEW h3 \in BOOLEAN, NEW f \in BOOLEAN,
                 NEW a \in Answers(f, h3),
                 r' = Dial(v(h3), "connect", a, h3)
          PROVE  SameCounts(s, r') \/ Errs(s, r')
      <3>1. SameCounts(v(h3), r') \/ Errs(v(h3), r')
        BY <1>9, <2>3, AnswersKnown, DialCounts
      <3>2. QED  BY <1>9, <3>1 DEF SameCounts, Errs
    <2>4. QED  BY <1>5, <2>1, <2>2, <2>3
  <1>11. QED
    BY <1>0, <1>1, <1>2, <1>7, <1>8, <1>10 DEF SameCounts, Errs, n

LEMMA LedgerStep ==
  GoodInv /\ [Next]_vars => [Ledger!Next]_(Ledger!vars)
  <1> SUFFICES ASSUME GoodInv, [Next]_vars
               PROVE  [Ledger!Next]_(Ledger!vars)
    OBVIOUS
  <1>0. r.requests \in Nat /\ r.resp_ok \in Nat /\ r.resp_err \in Nat
        /\ r.tunnels \in Nat
    BY DEF GoodInv, Good, Relay
  <1>1. r.fault = "none" /\ r.op \in InFlight =>
          r.requests = r.resp_ok + r.resp_err + r.tunnels + 1
    BY DEF GoodInv, Good, Balanced, Owed
  <1>2. r.fault = "none" /\ r.op = "parse_request" =>
          r.requests = r.resp_ok + r.resp_err + r.tunnels /\ r.tunnels = 0
    BY <1>0 DEF GoodInv, Good, Balanced, Owed, InFlight
  <1>3. CASE Quiet \/ UNCHANGED r
    BY <1>3 DEF Quiet, SameCounts, Ledger!vars
  <1>4. ASSUME NEW q \in Requests, RequestParsed(q)
        PROVE  Ledger!Next
    <2>1. r.fault = "none" /\ r.op = "parse_request"
          /\ r'.requests = r.requests + 1 /\ r'.tunnels = r.tunnels
          /\ r'.resp_ok = r.resp_ok
          /\ (r'.resp_err = r.resp_err \/ r'.resp_err = r.resp_err + 1)
      BY <1>4, RequestStep
    <2>2. QED
      BY <1>0, <1>2, <2>1
      DEF Ledger!Next, Ledger!Receive, Ledger!Refuse, Ledger!Settled
  <1>5. ASSUME NEW a \in Responses, ResponseParsed(a)
        PROVE  Ledger!Next
    <2>1. r.fault = "none" /\ r.op \in InFlight
          /\ r'.requests = r.requests /\ r'.tunnels = r.tunnels
          /\ r'.resp_ok + r'.resp_err = r.resp_ok + r.resp_err + 1
      BY <1>5, ResponseStep
    <2>2. QED
      BY <1>0, <1>1, <2>1 DEF Ledger!Next, Ledger!Answer, Ledger!Settled
  <1>6. CASE TunnelConnected
    BY <1>0, <1>1, <1>6, TunnelStep
    DEF Ledger!Next, Ledger!Grant, Ledger!Settled
  <1>7. CASE Errs(r, r') /\ r.fault = "none" /\ r.op \in InFlight
    BY <1>0, <1>1, <1>7
    DEF Errs, Ledger!Next, Ledger!Answer, Ledger!Settled
  <1>8. CASE Next
    <2>1. CASE GoSilent  BY <1>3, <2>1 DEF GoSilent
    <2>2. CASE \/ ConnectFailed \/ TunnelConnectFailed \/ RequestWriteFailed
               \/ ReconnectFailed \/ ResponseFailed
      BY <1>3, <1>7, <2>2, FailedSteps
    <2>3. CASE \/ ParseFailed \/ Connected \/ RequestWritten \/ BackendStreamGone
               \/ Reconnected
               \/ ResponseWritten \/ ErrorWritten \/ BridgeHeadWritten
               \/ BridgeHeadFailed \/ DrainRead \/ DrainEof
               \/ TimerExpires \/ IdleTimeoutHandler \/ graceful_close
               \/ \E d \in Dir, ok \in BOOLEAN : PumpStep(d, ok)
      BY <1>3, <2>3, QuietSteps
    <2>4. QED
      BY <1>4, <1>5, <1>6, <1>8, <2>1, <2>2, <2>3, Zenon DEF Next
  <1>9. QED  BY <1>3, <1>8 DEF vars

(* The relay implements the ledger, for every number of requests: one      *)
(* request at a time, one answer or one tunnel each, and no request after  *)
(* a tunnel, whichever handler fails, expires late or drains.              *)
THEOREM LedgerRefinement == Spec => LedgerKept
  <1>1. Init => Ledger!Init
    <2> SUFFICES ASSUME Init PROVE Ledger!Init  OBVIOUS
    <2>1. PICK h3 \in BOOLEAN : r = request_phase(NewRelay(h3))  BY DEF Init
    <2>2. r.requests = 0 /\ r.resp_ok = 0 /\ r.resp_err = 0 /\ r.tunnels = 0
      BY <2>1, NewRelayFacts, RequestPhaseCounts DEF SameCounts
    <2>3. QED  BY <2>2 DEF Ledger!Init
  <1>2. QED
    BY <1>1, LedgerStep, Invariance, PTL DEF Spec, LedgerKept, Ledger!Spec
=============================================================================
