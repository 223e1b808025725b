---------------------------- MODULE ProxyServer -----------------------------
(***************************************************************************)
(* The life of the process: src/proxy/reverse_proxy_server.{h,cpp} with    *)
(* the parts of ProxyCore, QuicPacketDemux and QuicServerEngine that its   *)
(* start, hand-off and shutdown call.                                      *)
(*                                                                         *)
(* The ingress thread owns the acceptor, the UDP socket and the grace      *)
(* timer; it hands sockets and datagrams to the workers by posting to      *)
(* their io_contexts, which run their handlers in the order posted.  Each  *)
(* handler is atomic; any other thread may call stop().  A completion that *)
(* is "ready" is queued with its result: cancel() cannot recall it.        *)
(***************************************************************************)
EXTENDS Integers, Sequences, FiniteSets

CONSTANTS
  NWorkers,   \* n_
  Clients,    \* TCP connections that clients make
  Quics,      \* QUIC connections that clients make
  None,
  Needed      \* bound: datagrams that one H3 request arrives in

Workers == 0..(NWorkers - 1)

ASSUME ServerAssumption == /\ NWorkers \in Nat \ {0}
                           /\ None \notin Clients \cup Quics \cup Workers
                           /\ Clients \cap Quics = {}
                           /\ Needed \in Nat \ {0}

VARIABLES life,      \* how far start() has come
          stopping,  \* stopping_
          shut,      \* how far the shutdown sequence has come
          accept,    \* the pending async_accept
          peer,      \* the socket of an accept that is ready
          recv,      \* the pending async_receive_from
          dgram,     \* the connection of a datagram that is ready
          queue,     \* per worker: the handlers posted to its io_context
          rr,        \* rr_ % cores_.size()
          tcp,       \* per client: what has become of its connection
          quic,      \* per QUIC connection: its session
          got,       \* per QUIC connection: datagrams of its request
          home,      \* per connection: the worker that it was given to
          late,      \* sockets handed over, sessions made after begin_shutdown
          fault      \* what has ended the process

ingress == <<accept, peer, recv, dgram, rr>>
conns == <<tcp, quic, got, home, late>>
vars == <<life, stopping, shut, ingress, queue, conns, fault>>

H(what, who) == [what |-> what, who |-> who]

(* Altered: the index is read again after it has advanced. *)
Hand_Next(w, h) == [queue EXCEPT ![(w + 1) % NWorkers] = Append(@, h)]

Hand(w, h) == [queue EXCEPT ![w] = Append(@, h)]

PostAll(h) == [w \in Workers |-> Append(queue[w], h)]

(* Handlers of the ingress thread run. *)
IngressRuns == life = "running" /\ shut # "stopped" /\ fault = "none"

-----------------------------------------------------------------------------
(* start() and stop() *)

(* started_ is set first, the contexts are made, then the threads.  The    *)
(* acceptor and the demux are armed before the threads run.                *)
start ==
  /\ fault = "none"
  /\ \/ life = "new" /\ life' = "starting" /\ UNCHANGED <<accept, recv>>
     \/ life = "starting" /\ life' = "built" /\ UNCHANGED <<accept, recv>>
     \/ /\ life = "built" /\ life' = "running"
        /\ accept' = "armed" /\ recv' = "armed"
  /\ UNCHANGED <<stopping, shut, peer, dgram, rr, queue, conns, fault>>

(* Altered: nothing is posted before the threads run. *)
stop_NotYetRunning ==
  /\ life # "new" /\ ~stopping /\ fault = "none"
  /\ stopping' = TRUE
  /\ shut' = IF life = "running" THEN "posted" ELSE shut
  /\ UNCHANGED <<life, ingress, queue, conns, fault>>

(* Called by any thread, or by the handler of a signal. *)
stop ==
  /\ life # "new" /\ ~stopping /\ fault = "none"
  /\ stopping' = TRUE
  /\ IF life = "starting" THEN fault' = "null_io" /\ UNCHANGED shut
                          ELSE shut' = "posted" /\ UNCHANGED fault
  /\ UNCHANGED <<life, ingress, queue, conns>>

Cancelled(op) == IF op = "armed" THEN "aborted" ELSE op

(* Altered: the relays are told at once, not in a posted handler. *)
begin_shutdown_Inline ==
  /\ IngressRuns /\ shut = "posted"
  /\ shut' = "draining"
  /\ accept' = Cancelled(accept)
  /\ recv' = Cancelled(recv)
  /\ tcp' = [c \in Clients |-> IF tcp[c] = "relay" THEN "told" ELSE tcp[c]]
  /\ quic' = [q \in Quics |-> IF quic[q] = "live" THEN "goaway" ELSE quic[q]]
  /\ UNCHANGED <<life, stopping, peer, dgram, queue, rr, got, home, late, fault>>

begin_shutdown ==
  /\ IngressRuns /\ shut = "posted"
  /\ shut' = "draining"
  /\ accept' = Cancelled(accept)
  /\ recv' = Cancelled(recv)
  /\ queue' = PostAll(H("graceful", None))
  /\ UNCHANGED <<life, stopping, peer, dgram, rr, conns, fault>>

(* The grace timer's handler. *)
finalize ==
  /\ IngressRuns /\ shut = "draining"
  /\ shut' = "finalizing"
  /\ queue' = PostAll(H("force", None))
  /\ UNCHANGED <<life, stopping, ingress, conns, fault>>

(* No handler runs any more, on any thread; wait() returns. *)
hard_stop ==
  /\ IngressRuns /\ shut = "finalizing"
  /\ shut' = "stopped"
  /\ UNCHANGED <<life, stopping, ingress, queue, conns, fault>>

-----------------------------------------------------------------------------
(* The ingress thread: accept and hand over *)

AcceptReady(c) ==
  /\ IngressRuns /\ accept = "armed" /\ tcp[c] = "none"
  /\ accept' = "ready" /\ peer' = c
  /\ tcp' = [tcp EXCEPT ![c] = "accepted"]
  /\ UNCHANGED <<life, stopping, shut, recv, dgram, rr, queue, quic, got,
                 home, late, fault>>

AcceptError ==
  /\ IngressRuns /\ accept = "armed"
  /\ accept' = "failed"
  /\ UNCHANGED <<life, stopping, shut, peer, recv, dgram, rr, queue, conns,
                 fault>>

(* Altered: only a success is followed by the next operation. *)
Rearmed_OnSuccess(op) == IF op = "ready" THEN "armed" ELSE "off"

(* What a completion handler leaves pending: cancel() ends the loop. *)
Rearmed(op) == IF op = "aborted" THEN "off" ELSE "armed"

NextWorker == (rr + 1) % NWorkers

Late(x) == IF shut \in {"none", "posted"} THEN late ELSE late \cup {x}

(* The socket goes to the next worker.  Asking it for its peer throws when *)
(* the client has reset the connection.                                    *)
accept_handler ==
  /\ IngressRuns
  /\ \/ /\ accept = "ready"
        /\ accept' = Rearmed(accept) /\ peer' = None
        /\ rr' = NextWorker
        /\ home' = [home EXCEPT ![peer] = rr]
        /\ late' = Late(peer)
        /\ queue' = Hand(rr, H("tcp", peer))
        /\ tcp' = [tcp EXCEPT ![peer] = "posted"]
        /\ UNCHANGED fault
     \/ /\ accept = "ready"
        /\ fault' = "remote_endpoint"
        /\ UNCHANGED <<accept, peer, rr, home, late, queue, tcp>>
     \/ /\ accept \in {"failed", "aborted"}
        /\ accept' = Rearmed(accept)
        /\ UNCHANGED <<peer, rr, home, late, queue, tcp, fault>>
  /\ UNCHANGED <<life, stopping, shut, recv, dgram, quic, got>>

Queued(w) == {queue[w][i] : i \in DOMAIN queue[w]}

(* Bound: a connection has one datagram between it and its engine. *)
Underway(q) == \E w \in Workers : H("packet", q) \in Queued(w)

(* A client makes a connection, or goes on with a request on it; after a   *)
(* GOAWAY it begins no other.                                              *)
RecvReady(q) ==
  /\ IngressRuns /\ recv = "armed" /\ ~Underway(q)
  /\ quic[q] = "goaway" => got[q] > 0
  /\ recv' = "ready" /\ dgram' = q
  /\ UNCHANGED <<life, stopping, shut, accept, peer, rr, queue, conns, fault>>

RecvError ==
  /\ IngressRuns /\ recv = "armed"
  /\ recv' = "failed"
  /\ UNCHANGED <<life, stopping, shut, accept, peer, dgram, rr, queue, conns,
                 fault>>

(* QuicPacketDemux::on_packet: route finds some worker for the first       *)
(* datagram of a connection and the same one for those that follow.        *)
on_packet ==
  /\ IngressRuns
  /\ \/ /\ recv = "ready"
        /\ recv' = Rearmed(recv) /\ dgram' = None
        /\ \E w \in IF home[dgram] = None THEN Workers ELSE {home[dgram]} :
             /\ home' = [home EXCEPT ![dgram] = w]
             /\ queue' = Hand(w, H("packet", dgram))
     \/ /\ recv \in {"failed", "aborted"}
        /\ recv' = Rearmed(recv)
        /\ UNCHANGED <<dgram, home, queue>>
  /\ UNCHANGED <<life, stopping, shut, accept, peer, rr, tcp, quic, got, late, fault>>

-----------------------------------------------------------------------------
(* The workers *)

Take(w, what) == /\ life = "running" /\ shut # "stopped" /\ fault = "none"
                 /\ queue[w] # <<>> /\ Head(queue[w]).what = what
                 /\ queue' = [queue EXCEPT ![w] = Tail(@)]
                 /\ UNCHANGED <<life, stopping, shut, ingress, home>>

(* The stream's constructor asks for the peer again. *)
on_new_tcp_socket(w) ==
  /\ Take(w, "tcp")
  /\ \/ /\ tcp' = [tcp EXCEPT ![Head(queue[w]).who] = "relay"]
        /\ UNCHANGED fault
     \/ /\ tcp' = [tcp EXCEPT ![Head(queue[w]).who] = "gone"]
        /\ fault' = "remote_endpoint"
  /\ UNCHANGED <<quic, got, late>>

(* lsquic begins a handshake, goes on with it, or completes it: only then  *)
(* does on_new_conn_cb make the session and put it into live_sessions_.    *)
Established(state) ==
  CASE state = "none"      -> {"handshake"}
    [] state = "handshake" -> {"handshake", "live"}
    [] OTHER                   -> {state}

(* A connection that has gone takes no more datagrams. *)
deliver_packet(w) ==
  LET q == Head(queue[w]).who
  IN  /\ Take(w, "packet")
      /\ \E new \in Established(quic[q]) :
           /\ quic' = [quic EXCEPT ![q] = new]
           /\ late' = IF new = "live" /\ quic[q] # "live" THEN Late(q) ELSE late
      /\ got' = [got EXCEPT ![q] = IF quic[q] \in {"live", "goaway"}
                                   THEN (@ + 1) % Needed ELSE @]
      /\ UNCHANGED <<tcp, fault>>

graceful_shutdown(w) ==
  /\ Take(w, "graceful")
  /\ tcp' = [c \in Clients |-> IF tcp[c] = "relay" /\ home[c] = w
                               THEN "told" ELSE tcp[c]]
  /\ quic' = [q \in Quics |-> IF quic[q] = "live" /\ home[q] = w
                              THEN "goaway" ELSE quic[q]]
  /\ UNCHANGED <<got, late, fault>>

force_close_quic(w) ==
  /\ Take(w, "force")
  /\ quic' = [q \in Quics |-> IF quic[q] \in {"live", "goaway"} /\ home[q] = w
                              THEN "forced" ELSE quic[q]]
  /\ UNCHANGED <<tcp, got, late, fault>>

(* A relay ends (RelaySession), the peer closes its QUIC connection, or    *)
(* its handshake is given up.                                              *)
Ends(x) ==
  /\ life = "running" /\ shut # "stopped" /\ fault = "none"
  /\ \/ /\ x \in Clients /\ tcp[x] \in {"relay", "told"}
        /\ tcp' = [tcp EXCEPT ![x] = "gone"]
        /\ UNCHANGED quic
     \/ /\ x \in Quics /\ quic[x] \in {"handshake", "live", "goaway"}
        /\ quic' = [quic EXCEPT ![x] = "gone"]
        /\ UNCHANGED tcp
  /\ UNCHANGED <<life, stopping, shut, ingress, queue, got, home, late, fault>>

Init == /\ life = "new" /\ stopping = FALSE /\ shut = "none"
        /\ accept = "off" /\ peer = None /\ recv = "off" /\ dgram = None
        /\ queue = [w \in Workers |-> <<>>] /\ rr = 0
        /\ tcp = [c \in Clients |-> "none"]
        /\ quic = [q \in Quics |-> "none"]
        /\ got = [q \in Quics |-> 0]
        /\ home = [x \in Clients \cup Quics |-> None]
        /\ late = {} /\ fault = "none"

Next == \/ start \/ stop
        \/ begin_shutdown \/ finalize \/ hard_stop
        \/ \E c \in Clients : AcceptReady(c)
        \/ AcceptError \/ accept_handler
        \/ \E q \in Quics : RecvReady(q)
        \/ RecvError \/ on_packet
        \/ \E w \in Workers : \/ on_new_tcp_socket(w) \/ deliver_packet(w)
                              \/ graceful_shutdown(w) \/ force_close_quic(w)
        \/ \E x \in Clients \cup Quics : Ends(x)

Spec == Init /\ [][Next]_vars

(* The thread that called start() goes on, posted handlers run, and the    *)
(* grace timer expires.                                                    *)
Fairness == /\ WF_vars(start)
            /\ WF_vars(begin_shutdown)
            /\ WF_vars(finalize)
            /\ WF_vars(hard_stop)

FairSpec == Spec /\ Fairness

-----------------------------------------------------------------------------
(* Properties *)

(* A connection lives on one worker: its socket is posted once, to the     *)
(* worker that keeps it, and every datagram goes to that worker too.       *)
OneHome ==
  /\ \A w \in Workers : \A i \in DOMAIN queue[w] :
       queue[w][i].who # None => home[queue[w][i].who] = w
  /\ \A c \in Clients :
       tcp[c] = "posted" <=> \E w \in Workers : H("tcp", c) \in Queued(w)

(* The posted graceful_shutdown overtakes no hand-off: once it has run on  *)
(* a worker, every TCP socket that was handed over before begin_shutdown   *)
(* has its relay, which has been told, and so has every QUIC session that  *)
(* was made before it.  A connection that is still in its handshake is in  *)
(* nobody's list: if it comes to live, no GOAWAY is sent on it.            *)
EarlyOnesTold ==
  \A w \in Workers :
    /\ shut \in {"draining", "finalizing"} /\ fault = "none"
    /\ H("graceful", None) \notin Queued(w)
    => \A x \in {y \in DOMAIN home : home[y] = w} \ late :
         IF x \in Clients THEN tcp[x] \notin {"posted", "relay"}
                          ELSE quic[x] # "live"

(* Until the shutdown begins both loops go on, whatever errors they meet.  *)
StillListening ==
  life = "running" /\ shut \in {"none", "posted"} =>
    accept # "off" /\ recv # "off"

(* Every stop() that posts runs the whole sequence, so that wait() returns. *)
StopCompletes == stopping ~> shut = "stopped" \/ fault # "none"
=============================================================================
