------------------------------ MODULE QuicPool ------------------------------
(***************************************************************************)
(* The HTTP/3 half of src/proxy/upstream_pool.{h,cpp}: QUIC connections to *)
(* backends, each kept in quic_conns_ while no stream is being opened on   *)
(* it, with the parts of QuicTransportSession, QuicClientEngine and the    *)
(* lsquic callbacks that the pool rests on (src/transport/quic_transport). *)
(*                                                                         *)
(* A pool and its client engine belong to one worker, so that each lsquic  *)
(* callback is atomic.  A caller is a relay; lsquic itself is external:    *)
(* it opens the stream that was asked for, or says that the connection is  *)
(* going away by a null stream, and it refuses a second connection to an   *)
(* address (the comment in open_quic_stream).                              *)
(***************************************************************************)
EXTENDS Integers, Sequences

CONSTANTS
  Callers,       \* relays of the worker
  NoCaller,
  Sessions,      \* identities of QuicTransportSession objects, each used once
  NoSession,
  Keys,          \* quic_key: host and port of a backend
  NullOutcomes   \* what new_stream_cb makes of a null stream

ASSUME QuicPoolAssumption == /\ NoCaller \notin Callers
                             /\ NoSession \notin Sessions
                             /\ Keys # {}
                             /\ NullOutcomes \subseteq {"found", "lost", "crash"}

VARIABLES conns,  \* quic_conns_
          sess,   \* the session objects
          call,   \* per caller: what has become of its connect
          at,     \* per caller: the session it waits for
          fault   \* the process has ended in new_stream_cb

vars == <<conns, sess, call, at, fault>>

(* life stands for conn_ and the state of the lsquic connection behind it; *)
(* cb and from_pool for new_stream_cb_ and what it captures, which stay    *)
(* after the callback has run; want for the streams asked of lsquic.       *)
Session == [life : {"unused", "handshake", "up", "leaving", "closed"},
            key : Keys, cb : Callers \cup {NoCaller},
            from_pool : BOOLEAN, want : Nat]

Live(s) == s.life \in {"handshake", "up", "leaving"}

-----------------------------------------------------------------------------
(* Operations *)

(* Altered: the first callback stays. *)
async_open_stream_KeepsFirst(s, k, pooled) ==
  [s EXCEPT !.from_pool = pooled, !.want = IF Live(s) THEN @ + 1 ELSE @]

(* QuicTransportSession::async_open_stream, on a session object. *)
async_open_stream(s, k, pooled) ==
  [s EXCEPT !.cb = k, !.from_pool = pooled,
            !.want = IF Live(s) THEN @ + 1 ELSE @]

(* Altered: the entry stays. *)
remove_quic_conn_Nothing(C, y, s) == C

(* The first entry of s goes, if there is one. *)
remove_quic_conn(C, y, s) ==
  LET q == C[y]
      first == CHOOSE i \in 1..Len(q) :
                 q[i] = s /\ \A j \in 1..i - 1 : q[j] # s
  IN  IF \E i \in 1..Len(q) : q[i] = s
      THEN [C EXCEPT ![y] = SubSeq(q, 1, first - 1)
                            \o SubSeq(q, first + 1, Len(q))]
      ELSE C

Answer(k, a) == /\ call' = [call EXCEPT ![k] = a]
                /\ at' = [at EXCEPT ![k] = NoSession]

Await(k, s) == /\ call' = [call EXCEPT ![k] = "waiting"]
               /\ at' = [at EXCEPT ![k] = s]

(* Altered: a refused connect is not reported. *)
quic_connect_fresh_Silent(k, y, S) ==
  \/ /\ call' = [call EXCEPT ![k] = "waiting"]
     /\ sess' = S
     /\ UNCHANGED at
  \/ \E s \in Sessions :
       /\ S[s].life = "unused"
       /\ \A x \in Sessions : ~(Live(S[x]) /\ S[x].key = y)
       /\ sess' = [S EXCEPT ![s] = [life |-> "handshake", key |-> y, cb |-> k,
                                    from_pool |-> FALSE, want |-> 1]]
       /\ Await(k, s)

(* The engine refuses, or on_client_conn runs inside connect and asks the  *)
(* new session for its first stream.                                       *)
quic_connect_fresh(k, y, S) ==
  \/ sess' = S /\ Answer(k, "refused")
  \/ \E s \in Sessions :
       /\ S[s].life = "unused"
       /\ \A x \in Sessions : ~(Live(S[x]) /\ S[x].key = y)
       /\ sess' = [S EXCEPT ![s] = [life |-> "handshake", key |-> y, cb |-> k,
                                    from_pool |-> FALSE, want |-> 1]]
       /\ Await(k, s)

(* From the pool C and the sessions S that the handler has left so far. *)
quic_connect(k, y, C, S) ==
  \/ /\ C[y] # <<>>
     /\ conns' = [C EXCEPT ![y] = Tail(@)]
     /\ sess' = [S EXCEPT ![Head(C[y])] = async_open_stream(@, k, TRUE)]
     /\ Await(k, Head(C[y]))
  \/ /\ C[y] = <<>>
     /\ conns' = C
     /\ quic_connect_fresh(k, y, S)

async_connect(k, y) ==
  /\ fault = "none" /\ call[k] = "idle"
  /\ quic_connect(k, y, conns, sess)
  /\ UNCHANGED fault

(* The relay's retry after a write on a pooled connection failed. *)
async_connect_fresh(k, y) ==
  /\ fault = "none" /\ call[k] = "idle"
  /\ quic_connect_fresh(k, y, sess)
  /\ UNCHANGED <<conns, fault>>

(* Altered: only a new connection is put into the pool. *)
StreamOpened_NewOnly(s) ==
  LET k == sess[s].cb
      y == sess[s].key
  IN  /\ fault = "none" /\ sess[s].life \in {"handshake", "up"}
      /\ sess[s].want > 0
      /\ sess' = [sess EXCEPT ![s].life = "up", ![s].want = @ - 1]
      /\ conns' = [conns EXCEPT ![y] = IF sess[s].from_pool THEN @
                                       ELSE Append(@, s)]
      /\ Answer(k, "open")
      /\ UNCHANGED fault

(* on_new_stream: the session goes back into the pool. *)
StreamOpened(s) ==
  LET k == sess[s].cb
      y == sess[s].key
  IN  /\ fault = "none" /\ sess[s].life \in {"handshake", "up"}
      /\ sess[s].want > 0
      /\ sess' = [sess EXCEPT ![s] = [sess[s] EXCEPT !.life = "up", !.want = @ - 1]]
      /\ conns' = [conns EXCEPT ![y] = Append(@, s)]
      /\ Answer(k, "open")
      /\ UNCHANGED fault

(* on_new_stream with a null stream.  new_stream_cb asks lsquic for the    *)
(* connection of that null stream: it crashes, finds no session, or, as    *)
(* the comment in QuicTransportSession::on_new_stream has it, finds the    *)
(* session whose callback then fails the open or tries again.              *)
NullStream(s) ==
  LET k == sess[s].cb
      y == sess[s].key
      S == [sess EXCEPT ![s] = [sess[s] EXCEPT !.life = "leaving", !.want = @ - 1]]
      C == remove_quic_conn(conns, y, s)
  IN  /\ fault = "none" /\ sess[s].life \in {"handshake", "up"}
      /\ sess[s].want > 0
      /\ \/ /\ "found" \in NullOutcomes /\ sess[s].from_pool
            /\ quic_connect(k, y, C, S)
            /\ UNCHANGED fault
         \/ /\ "found" \in NullOutcomes /\ ~sess[s].from_pool
            /\ conns' = C /\ sess' = S
            /\ Answer(k, "refused")
            /\ UNCHANGED fault
         \/ /\ "lost" \in NullOutcomes
            /\ sess' = S
            /\ UNCHANGED <<conns, call, at, fault>>
         \/ /\ "crash" \in NullOutcomes
            /\ fault' = "null_stream"
            /\ UNCHANGED <<conns, sess, call, at>>

(* conn_closed_cb: lsquic's last callback for a connection, after the null *)
(* stream if one was due; on_closed tells the pool.                        *)
ConnClosed(s) ==
  /\ fault = "none" /\ Live(sess[s]) /\ sess[s].want = 0
  /\ sess' = [sess EXCEPT ![s].life = "closed"]
  /\ conns' = remove_quic_conn(conns, sess[s].key, s)
  /\ UNCHANGED <<call, at, fault>>

(* The relay is done with its stream, or with the refusal. *)
Done(k) ==
  /\ fault = "none" /\ call[k] \in {"open", "refused"}
  /\ call' = [call EXCEPT ![k] = "idle"]
  /\ UNCHANGED <<conns, sess, at, fault>>

NewSession == [life |-> "unused", key |-> CHOOSE y \in Keys : TRUE,
               cb |-> NoCaller, from_pool |-> FALSE, want |-> 0]

Init == /\ conns = [y \in Keys |-> <<>>]
        /\ sess = [s \in Sessions |-> NewSession]
        /\ call = [k \in Callers |-> "idle"]
        /\ at = [k \in Callers |-> NoSession]
        /\ fault = "none"

Next == \/ \E k \in Callers, y \in Keys : async_connect(k, y)
        \/ \E k \in Callers, y \in Keys : async_connect_fresh(k, y)
        \/ \E s \in Sessions : StreamOpened(s) \/ NullStream(s)
        \/ \E s \in Sessions : ConnClosed(s)
        \/ \E k \in Callers : Done(k)

Spec == Init /\ [][Next]_vars

(* lsquic answers an open: its handshake and idle timers see to that. *)
Fairness == \A s \in Sessions : WF_vars(StreamOpened(s) \/ NullStream(s))

FairSpec == Spec /\ Fairness

-----------------------------------------------------------------------------
(* Properties *)

(* The pool's tables keep their types. *)
TypeOK == /\ conns \in [Keys -> Seq(Sessions)]
          /\ sess \in [Sessions -> Session]
          /\ call \in [Callers -> {"idle", "waiting", "open", "refused"}]
          /\ at \in [Callers -> Sessions \cup {NoSession}]
          /\ fault \in {"none", "null_stream"}

(* A pooled connection can be used: it is established, leads to the        *)
(* backend it is kept for, is kept once, and no stream is being opened on  *)
(* it.  Were it closed, async_open_stream would store a callback that      *)
(* nothing ever calls (conn_ is null).                                     *)
PooledUsable ==
  \A y \in Keys : \A i \in 1..Len(conns[y]) :
    LET s == conns[y][i]
    IN  /\ sess[s].life = "up" /\ sess[s].key = y /\ sess[s].want = 0
        /\ \A z \in Keys : \A j \in 1..Len(conns[z]) :
             conns[z][j] = s => z = y /\ j = i

(* The session a caller waits for still holds that caller's callback: the  *)
(* single slot new_stream_cb_ is never overwritten while it is awaited.    *)
CallbackKept == \A k \in Callers, s \in Sessions :
                  call[k] = "waiting" /\ at[k] = s => sess[s].cb = k

(* Every established connection stays reusable: it is in the pool or a     *)
(* stream is being opened on it (the comment in open_quic_stream: a lost   *)
(* connection would make lsquic refuse the next one to its address).       *)
NoneLost == \A s \in Sessions : sess[s].life = "up" =>
              \/ sess[s].want > 0
              \/ \E i \in 1..Len(conns[sess[s].key]) :
                   conns[sess[s].key][i] = s

(* new_stream_cb did not pass the answer to the session k waits for. *)
AnswerLost(k) == \/ fault # "none"
                 \/ \E s \in Sessions : at[k] = s /\ sess[s].want = 0

(* Every connect is answered, retries of stale pooled connections          *)
(* included, unless new_stream_cb misses the session of a null stream.     *)
AnsweredUnlessLost ==
  \A k \in Callers :
    call[k] = "waiting" ~> call[k] # "waiting" \/ AnswerLost(k)
=============================================================================
