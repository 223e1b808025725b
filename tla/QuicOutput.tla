------------------------------ MODULE QuicOutput ------------------------------
(***************************************************************************)
(* Outbound datagrams of the QUIC server.  The QuicServerEngine of each    *)
(* worker (src/transport/quic_transport.cpp) sends on the two sockets of   *)
(* QuicPacketDemux (src/transport/quic_demux.cpp), which all share.  When  *)
(* a send would block, the ingress thread watches for the sockets to drain *)
(* and asks every worker to flush.  lsquic is external: it produces        *)
(* datagrams, takes the count that its callback returns as that of a       *)
(* prefix, and holds the rest back.                                        *)
(***************************************************************************)
EXTENDS QuicSend

CONSTANTS
  Workers,     \* the worker threads, each with an engine
  MaxReports,  \* bound: arm_send_retry posted and not yet run
  MaxFlushes   \* bound: flush_unsent_packets posted to a worker and not yet run

ASSUME OutputAssumption == {MaxReports, MaxFlushes} \subseteq Nat \ {0}

VARIABLES
  eng,     \* per worker: the engine and what is posted to it
  ing,     \* the ingress thread: the sockets, watches and posted handlers
  log      \* history of the output

vars == <<eng, ing, log>>

(* lsq: lsquic's output.  flush: flush_unsent_packets posted. *)
Engine == [lsq : Queue, flush : Nat]

(* open6: the IPv6 socket is bound.  running: stop has not been called.    *)
(* watch: the write watch of a socket, whose flag stays set until its      *)
(* handler runs.  posts: arm_send_retry posted.  cut: a watch was          *)
(* cancelled.                                                              *)
Ingress == [open6 : BOOLEAN, running : BOOLEAN,
            watch : [Fam -> {"idle", "armed", "ready", "aborted"}],
            posts : Nat, cut : BOOLEAN]

Init ==
  /\ eng = [w \in Workers |-> [lsq |-> NoQueue, flush |-> 0]]
  /\ ing \in {[open6 |-> b, running |-> TRUE, watch |-> [f \in Fam |-> "idle"],
               posts |-> 0, cut |-> FALSE] : b \in BOOLEAN}
  /\ log = NoLog

-----------------------------------------------------------------------------
(* Handlers of a worker *)

Open(f) == f = "v4" \/ ing.open6

(* Altered: a batch of which a part was sent is not reported. *)
notify_tx_blocked_IfNone(r) ==
  [ing EXCEPT !.posts = IF Blocked(r) /\ send_specs(r) = 0
                          THEN @ + 1 ELSE @]

notify_tx_blocked(r) ==
  [ing EXCEPT !.posts = IF Blocked(r) THEN @ + 1 ELSE @]

(* on_packets_out_cb with the batch q.  L: the log so far.  n: the posted  *)
(* flushes that are left.                                                  *)
packets_out(w, q, L, n) ==
  \E r \in Results(q, L) :
    /\ Blocked(r) => ing.posts < MaxReports
    /\ eng' = [eng EXCEPT ![w] = [lsq |-> Kept(q, r), flush |-> n]]
    /\ ing' = notify_tx_blocked(r)
    /\ log' = Logged(L, q, r)

(* lsquic_engine_process_conns, which ends every handler of the worker     *)
(* (deliver_packet, on_tick, graceful_shutdown, force_close_all) and which *)
(* the tick calls without end.  While output is held back the engine keeps *)
(* new datagrams, or tries again on its own account.                       *)
process_conns(w) ==
  \E new \in News(log, {f \in Fam : Open(f)}) :
    LET q == eng[w].lsq.unsent \o new IN
    \/ packets_out(w, q, Made(log, new), eng[w].flush)
    \/ /\ eng[w].lsq.held
       /\ eng' = [eng EXCEPT ![w].lsq.unsent = q]
       /\ log' = Made(log, new) /\ UNCHANGED ing

flush_unsent_packets(w) ==
  /\ eng[w].flush > 0
  /\ packets_out(w, eng[w].lsq.unsent, log, eng[w].flush - 1)

-----------------------------------------------------------------------------
(* Handlers of the ingress thread *)

(* arm_write_watch of both sockets: nothing if the flag is set. *)
arm_send_retry ==
  /\ ing.posts > 0
  /\ ing' = [ing EXCEPT !.posts = @ - 1,
               !.watch = [f \in Fam |->
                            IF @[f] = "idle" /\ Open(f) THEN "armed" ELSE @[f]]]
  /\ UNCHANGED <<eng, log>>

(* The socket has drained. *)
Drains(f) ==
  /\ ing.watch[f] = "armed"
  /\ ing' = [ing EXCEPT !.watch[f] = "ready"]
  /\ UNCHANGED <<eng, log>>

(* Altered: watches again instead of asking the workers. *)
on_writable_WatchesAgain(f) ==
  /\ ing.watch[f] = "ready"
  /\ ing' = [ing EXCEPT !.watch[f] = "armed"]
  /\ UNCHANGED <<eng, log>>

(* The handler of the watch: asks every worker to flush, unless cancelled. *)
on_writable(f) ==
  /\ ing.watch[f] \in {"ready", "aborted"}
  /\ ing.watch[f] = "ready" => \A w \in Workers : eng[w].flush < MaxFlushes
  /\ ing' = [ing EXCEPT !.watch[f] = "idle", !.cut = @ \/ ing.watch[f] = "aborted"]
  /\ eng' = IF ing.watch[f] = "aborted" THEN eng
            ELSE [w \in Workers |-> [eng[w] EXCEPT !.flush = @ + 1]]
  /\ UNCHANGED log

(* cancel() on both sockets: watches that have not completed end.        *)
stop ==
  /\ ing.running
  /\ ing' = [ing EXCEPT !.running = FALSE,
               !.watch = [f \in Fam |->
                            IF @[f] = "armed" THEN "aborted" ELSE @[f]]]
  /\ UNCHANGED <<eng, log>>

Next == \/ \E w \in Workers : process_conns(w) \/ flush_unsent_packets(w)
        \/ \E f \in Fam : Drains(f) \/ on_writable(f)
        \/ arm_send_retry \/ stop

Spec == Init /\ [][Next]_vars

(* Each io_context runs what is posted to it, and a socket that would      *)
(* block drains.  The sockets are shared, and by the time a worker flushes *)
(* another may have filled them again; but if it is asked again and again, *)
(* one of its flushes meets sockets that take it, and reports nothing.     *)
(* (That a posted flush is run follows: it can always meet such sockets.)  *)
FairSpec == /\ Spec
            /\ \A w \in Workers : SF_vars(flush_unsent_packets(w) /\ UNCHANGED ing)
            /\ \A f \in Fam : WF_vars(Drains(f)) /\ WF_vars(on_writable(f))
            /\ WF_vars(arm_send_retry)

-----------------------------------------------------------------------------
(* Properties *)

(* The engines, the ingress thread and the history keep their types: no    *)
(* flush and no report is run that was not posted.                         *)
TypeOK ==
  /\ eng \in [Workers -> Engine]
  /\ ing \in Ingress
  /\ log \in Log

(* An engine whose output is held back by a full socket will be asked to   *)
(* flush: a retry is posted, watched for or on its way, and none is lost   *)
(* between the worker's report, the watch that is already armed, and the   *)
(* handler that clears its flag.  Only stop() cancels a watch for good.    *)
RetryOnItsWay ==
  \A w \in Workers : eng[w].lsq.again =>
    \/ eng[w].flush > 0 \/ ing.posts > 0 \/ ing.cut
    \/ \E f \in Fam : ing.watch[f] # "idle"

(* lsquic forgets a datagram unsent only if a batch had a gap, a send that *)
(* failed before one that succeeded; send_specs goes on after a failure    *)
(* and its count is then not that of a prefix.                             *)
LostBehindGapOnly == log.lost # {} => log.gap

(* A datagram that a full socket held back is sent, however often the      *)
(* retries meet a full socket again, unless lsquic forgets it behind a     *)
(* gap, a send of its batch fails with another error (which is neither     *)
(* reported nor watched for), or stop() cancels the watch.                 *)
HeldBack(w, id) == LET q == eng[w].lsq IN
                   q.again /\ id \in Ids(q.unsent, DOMAIN q.unsent)

Flushed ==
  \A w \in Workers, id \in 1..MaxPackets :
    HeldBack(w, id) ~> id \in log.sent \cup log.lost \cup log.hit \/ ing.cut
=============================================================================
