------------------------------ MODULE QuicClient ------------------------------
(***************************************************************************)
(* QuicClientEngine of src/transport/quic_transport.cpp: the QUIC engine   *)
(* with which a worker reaches its HTTP/3 backends.  It owns its sockets,  *)
(* starts when the first connection is made, opens the IPv6 socket when    *)
(* the first IPv6 backend is, and runs on the worker's thread alone.       *)
(***************************************************************************)
EXTENDS QuicSend

CONSTANTS
  MaxConnects,  \* bound: calls of connect
  MaxReceived   \* bound: completed receives

ASSUME ClientAssumption == {MaxConnects, MaxReceived} \subseteq Nat

VARIABLES
  started,   \* started_
  open6,     \* socket6_ is open
  recv,      \* per socket: pending receives, which share a buffer
  watch,     \* per socket: its write watch
  lsq,       \* lsquic's output
  fams,      \* families of the peers
  history,   \* of the output
  count      \* [connects, received]

client_vars == <<started, open6, recv, watch, lsq, fams, history, count>>

ClientInit ==
  /\ started = FALSE /\ open6 = FALSE
  /\ recv = [f \in Fam |-> 0]
  /\ watch = [f \in Fam |-> "idle"]
  /\ lsq = NoQueue /\ fams = {} /\ history = NoLog
  /\ count = [connects |-> 0, received |-> 0]

-----------------------------------------------------------------------------
(* Sending.  W is what the handler makes of the watches. *)

client_arm_send_retry(W, six) ==
  [f \in Fam |-> IF W[f] = "idle" /\ (f = "v4" \/ six) THEN "armed" ELSE W[f]]

(* Altered: the watch is armed only if nothing was sent. *)
client_packets_out_IfNone(q, L, W, six) ==
  \E r \in Results(q, L) :
    /\ lsq' = Kept(q, r)
    /\ history' = Logged(L, q, r)
    /\ watch' = IF Blocked(r) /\ send_specs(r) = 0
                   THEN client_arm_send_retry(W, six) ELSE W

(* on_packets_out_cb with the batch q. *)
client_packets_out(q, L, W, six) ==
  \E r \in Results(q, L) :
    /\ lsq' = Kept(q, r)
    /\ history' = Logged(L, q, r)
    /\ watch' = IF Blocked(r) THEN client_arm_send_retry(W, six) ELSE W

(* lsquic_engine_process_conns.  While output is held back the engine      *)
(* keeps new datagrams, or tries again on its own account.                 *)
client_process_conns(peers, six) ==
  \E new \in News(history, peers) :
    LET q == lsq.unsent \o new IN
    \/ client_packets_out(q, Made(history, new), watch, six)
    \/ /\ lsq.held
       /\ lsq' = [lsq EXCEPT !.unsent = q]
       /\ history' = Made(history, new) /\ UNCHANGED watch

-----------------------------------------------------------------------------
(* Connecting *)

(* The lazy start: the receive loop, on the first call. *)
start(R) == IF started THEN R ELSE [R EXCEPT !["v4"] = @ + 1]

(* The peer's family has a socket, after ensure_v6_socket if it is v6. *)
Usable(f, bound) == f = "v4" \/ open6 \/ bound

(* The name resolves or not, to a family f; a new IPv6 socket can be bound *)
(* or not; lsquic makes a connection or not.                               *)
connect ==
  /\ count.connects < MaxConnects
  /\ count' = [count EXCEPT !.connects = @ + 1]
  /\ started' = TRUE
  /\ \E f \in Fam, resolved, bound, made \in BOOLEAN :
       LET opens == resolved /\ f = "v6" /\ ~open6 /\ bound
           six == open6 \/ opens
       IN  /\ open6' = six
           /\ recv' = [start(recv) EXCEPT !["v6"] = IF opens THEN @ + 1 ELSE @]
           /\ IF resolved /\ Usable(f, bound) /\ made
                THEN fams' = fams \cup {f} /\ client_process_conns(fams', six)
                ELSE UNCHANGED <<fams, lsq, history, watch>>

-----------------------------------------------------------------------------
(* Handlers *)

(* Altered: an error ends the receive loop. *)
on_packet_Error_Stops(f) ==
  /\ recv[f] > 0 /\ count.received < MaxReceived
  /\ count' = [count EXCEPT !.received = @ + 1]
  /\ recv' = [recv EXCEPT ![f] = @ - 1]
  /\ UNCHANGED <<started, open6, watch, lsq, fams, history>>

(* A receive that fails, for instance on an ICMP error, is begun again. *)
on_packet_Error(f) ==
  /\ recv[f] > 0 /\ count.received < MaxReceived
  /\ count' = [count EXCEPT !.received = @ + 1]
  /\ UNCHANGED <<started, open6, recv, watch, lsq, fams, history>>

(* A datagram is given to lsquic; the next receive begins at the end. *)
on_packet(f) ==
  /\ recv[f] > 0 /\ count.received < MaxReceived
  /\ count' = [count EXCEPT !.received = @ + 1]
  /\ client_process_conns(fams, open6)
  /\ UNCHANGED <<started, open6, recv, fams>>

(* start, connect, on_packet and on_tick all end in schedule_tick. *)
on_tick ==
  /\ started
  /\ client_process_conns(fams, open6)
  /\ UNCHANGED <<started, open6, recv, fams, count>>

(* The socket has drained. *)
ClientDrains(f) ==
  /\ watch[f] = "armed"
  /\ watch' = [watch EXCEPT ![f] = "ready"]
  /\ UNCHANGED <<started, open6, recv, lsq, fams, history, count>>

(* The handler of the watch: flushes, and watches again while datagrams    *)
(* are left, whether they would block or fail.                             *)
client_on_writable(f) ==
  /\ watch[f] = "ready"
  /\ \E r \in Results(lsq.unsent, history) :
       LET idle == [watch EXCEPT ![f] = "idle"] IN
       /\ lsq' = Kept(lsq.unsent, r)
       /\ history' = Logged(history, lsq.unsent, r)
       /\ watch' = IF Blocked(r) \/ lsq'.unsent # << >>
                      THEN client_arm_send_retry(idle, open6) ELSE idle
  /\ UNCHANGED <<started, open6, recv, fams, count>>

ClientNext ==
  \/ connect \/ on_tick
  \/ \E f \in Fam : on_packet(f) \/ on_packet_Error(f)
                      \/ ClientDrains(f) \/ client_on_writable(f)

ClientSpec == ClientInit /\ [][ClientNext]_client_vars

-----------------------------------------------------------------------------
(* Properties *)

(* A socket never has two receives into its one buffer (recv_buf_,         *)
(* recv6_buf_).                                                            *)
ClientTypeOK ==
  /\ started \in BOOLEAN /\ open6 \in BOOLEAN
  /\ recv \in [Fam -> 0..1]
  /\ watch \in [Fam -> {"idle", "armed", "ready"}]
  /\ lsq \in Queue /\ fams \subseteq Fam /\ history \in Log
  /\ count \in [connects : 0..MaxConnects, received : 0..MaxReceived]

(* Once the engine is started, every open socket has its receive loop, and *)
(* keeps it through errors, later connections and sockets that could not   *)
(* be bound.                                                               *)
EverySocketReceives ==
  \A f \in Fam : recv[f] = 1 <=> (f = "v4" /\ started) \/ (f = "v6" /\ open6)

(* No batch holds a datagram for a family without a socket, which          *)
(* send_specs would skip and lsquic would hold back for ever.              *)
NothingUnreachable ==
  \A i \in DOMAIN lsq.unsent : lsq.unsent[i].fam = "v6" => open6

(* Output that would have blocked is watched for: the watch is armed, or   *)
(* its handler is about to run, whichever socket blocked, and whatever     *)
(* connections and flushes came in between.                                *)
HeldIsWatched == lsq.again => \E f \in Fam : watch[f] # "idle"

=============================================================================
