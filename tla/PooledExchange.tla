--------------------------- MODULE PooledExchange ---------------------------
(***************************************************************************)
(* The relays of a worker (src/proxy/relay_session.cpp) and the pool they  *)
(* share: who gets which response when HTTP/1 connections are used again.  *)
(* The pool's state and operations are those of UpstreamPool; each handler *)
(* of a relay makes at most one call of them.  Of a relay only the         *)
(* exchange with a configured backend is kept; its client side, tunnels    *)
(* and timers are in RelaySession, the framing of a message in H1Codec.    *)
(*                                                                         *)
(* A backend answers the requests of a connection in order.  What it will  *)
(* send, or has sent and nobody has read, is a sequence of parts: interim  *)
(* heads (1xx), heads and bodies, each with the request it answers.        *)
(***************************************************************************)
EXTENDS UpstreamPool

VARIABLES exch,    \* per relay: its exchange
          backend_endpoint,  \* per relay: backend_endpoint_
          owed,    \* per connection: the parts that are still to be read
          alive,   \* per connection: the backend has not closed it
          served,  \* per request: how often a backend was given all of it
          left     \* connections on which part of a response was left

xvars == <<exch, backend_endpoint, owed, alive, served, left>>

Request == 1..MaxPicks

Part == [q : Request, kind : {"interim", "head", "body"},
         body : BOOLEAN, keep : BOOLEAN]

(* A response: an interim head may come first, the head says whether a     *)
(* body follows and whether the connection is kept.                        *)
Response(q, interim, body, keep) ==
  LET part(kind, b, kp) == [q |-> q, kind |-> kind, body |-> b, keep |-> kp]
      final == IF body
               THEN <<part("head", TRUE, keep), part("body", FALSE, TRUE)>>
               ELSE <<part("head", FALSE, keep)>>
  IN  IF interim THEN <<part("interim", FALSE, TRUE)>> \o final ELSE final

(* q: the number of the request.  pick: the entry that was picked for it.  *)
(* at "late": the relay was torn down during the write.  done: done_.      *)
NoExchange == [at |-> "none", q |-> 0, pick |-> 0, body |-> FALSE,
               retry |-> FALSE, done |-> FALSE,
               got |-> 0, more |-> FALSE, keep |-> FALSE]

Busy(k) == fault = "none" /\ exch[k].at # "none"

(* Where a call of the pool leaves an exchange: with a connection to write *)
(* to, waiting for one, or over, with an error answered to the client.     *)
Proceeds(k, e) ==
  IF user'[k] = NoConn THEN NoExchange
  ELSE [e EXCEPT !.at = IF state'[user'[k]] = "held" THEN "write" ELSE "connect"]

(* The callback of a connect notes the endpoint it is given, ep, if there  *)
(* is a connection.                                                        *)
Noted(k, ep) ==
  backend_endpoint' = IF user'[k] # NoConn /\ state'[user'[k]] = "held"
                      THEN [backend_endpoint EXCEPT ![k] = ep]
                      ELSE backend_endpoint

(* The connections after a call of the pool, o being what they owe and l   *)
(* those with something left: a closed one is done with.                   *)
Settled(o, l) ==
  /\ owed' = [c \in Conns |-> IF state'[c] = "closed" THEN <<>> ELSE o[c]]
  /\ alive' = [c \in Conns |-> alive[c] /\ state'[c] # "closed"]
  /\ left' = {c \in l : state'[c] # "closed"}

-----------------------------------------------------------------------------
(* The handlers of a relay *)

(* on_request_parsed of a request for a configured backend. *)
request_phase(k, g, b) ==
  /\ exch[k].at = "none"
  /\ async_connect(k, g)
  /\ \E i \in Candidates(g) :
       /\ picks'[i] # picks[i]
       /\ exch' = [exch EXCEPT ![k] = Proceeds(k, [NoExchange EXCEPT
                     !.q = rr_index', !.pick = i, !.body = b,
                     !.retry = state'[user'[k]] = "held" /\ ~b])]
       /\ Noted(k, Backends[i])
  /\ UNCHANGED <<owed, alive, served, left>>

(* use_backend, and its counterpart after a reconnect. *)
use_backend(k) ==
  /\ Busy(k) /\ exch[k].at = "connect"
  /\ ConnectDone(k)
  /\ exch' = [exch EXCEPT ![k] = Proceeds(k, @)]
  /\ Noted(k, target[user[k]])
  /\ Settled(owed, left)
  /\ UNCHANGED served

(* The whole request has been written; a backend that is still there will  *)
(* answer it.                                                              *)
RequestWritten(k) ==
  /\ Busy(k) /\ exch[k].at = "write"
  /\ exch' = [exch EXCEPT ![k].at = "response", ![k].body = FALSE,
                          ![k].retry = FALSE]
  /\ LET c == user[k]
         q == exch[k].q
     IN  IF alive[c]
         THEN /\ served' = [served EXCEPT ![q] = @ + 1]
              /\ \E interim, body, keep \in BOOLEAN :
                   owed' = [owed EXCEPT ![c] =
                              @ \o Response(q, interim, body, keep)]
         ELSE UNCHANGED <<served, owed>>
  /\ UNCHANGED <<vars, backend_endpoint, alive, left>>

(* Altered: the retry goes to any of the group's endpoints. *)
RequestWriteFailed_Anywhere(k) ==
  /\ Busy(k) /\ exch[k].at = "write"
  /\ ~alive[user[k]] \/ exch[k].body
  /\ IF exch[k].retry
     THEN \E i \in Candidates(backend_endpoint[k].group) :
            reconnect_backend_fresh(k, Backends[i])
     ELSE Close(k)
  /\ exch' = [exch EXCEPT ![k] = Proceeds(k, [@ EXCEPT !.retry = FALSE])]
  /\ Settled(owed, left)
  /\ UNCHANGED <<backend_endpoint, served>>

(* The write fails: the connection is gone, or the body could not be read. *)
(* A pooled connection without a body to replay is replaced once.          *)
RequestWriteFailed(k) ==
  /\ Busy(k) /\ exch[k].at = "write"
  /\ ~alive[user[k]] \/ exch[k].body
  /\ IF exch[k].retry THEN reconnect_backend_fresh(k, backend_endpoint[k])
                      ELSE Close(k)
  /\ exch' = [exch EXCEPT ![k] = Proceeds(k, [@ EXCEPT !.retry = FALSE])]
  /\ Settled(owed, left)
  /\ UNCHANGED <<backend_endpoint, served>>

(* The same two callbacks of a relay that was torn down during the write.  *)
(* A write that was over in time may have reached the backend; the relay   *)
(* then reads from no connection, which RelaySession says, and is done     *)
(* with here.                                                              *)
LateRequestWritten(k) ==
  /\ Busy(k) /\ exch[k].at = "late"
  /\ exch' = [exch EXCEPT ![k] = NoExchange]
  /\ \E n \in {0, 1} : served' = [served EXCEPT ![exch[k].q] = @ + n]
  /\ UNCHANGED <<vars, backend_endpoint, owed, alive, left>>

(* Nothing is left to close, but a retry is made all the same. *)
LateRequestWriteFailed(k) ==
  /\ Busy(k) /\ exch[k].at = "late"
  /\ \/ /\ exch[k].retry
        /\ async_connect_fresh(k, backend_endpoint[k])
        /\ exch' = [exch EXCEPT ![k] = Proceeds(k, [@ EXCEPT !.retry = FALSE])]
     \/ /\ ~exch[k].retry
        /\ exch' = [exch EXCEPT ![k] = NoExchange]
        /\ UNCHANGED vars
  /\ UNCHANGED <<backend_endpoint, owed, alive, served, left>>

(* read_response_header: the read that completes a head may hold n parts   *)
(* more; of these only the body of this head is kept.                      *)
AfterHead(p, rest, n) ==
  LET b == IF p.body /\ rest # <<>> THEN 1 ELSE 0
  IN  SubSeq(rest, 1, b) \o SubSeq(rest, b + n + 1, Len(rest))

(* The codec takes a head off the connection.  An interim head is relayed  *)
(* as if it were the response, and what it announces is left behind.       *)
ResponseParsed(k) ==
  LET c == user[k]
      p == Head(owed[c])
  IN  /\ Busy(k) /\ exch[k].at = "response"
      /\ owed[c] # <<>> /\ p.kind # "body"
      /\ exch' = [exch EXCEPT ![k].at = "reply", ![k].got = p.q,
                              ![k].more = p.body, ![k].keep = p.keep]
      /\ \E n \in 0..Len(owed[c]) :
           owed' = [owed EXCEPT ![c] = AfterHead(p, Tail(@), n)]
      /\ left' = IF p.kind = "interim" THEN left \cup {c} ELSE left
      /\ UNCHANGED <<vars, backend_endpoint, alive, served>>

(* Altered: the request is tried again on a fresh connection. *)
ResponseFailed_Retries(k) ==
  LET c == user[k]
  IN  /\ Busy(k) /\ exch[k].at = "response"
      /\ IF owed[c] = <<>> THEN ~alive[c] ELSE Head(owed[c]).kind = "body"
      /\ reconnect_backend_fresh(k, backend_endpoint[k])
      /\ exch' = [exch EXCEPT ![k] = Proceeds(k, @)]
      /\ Settled(owed, left)
      /\ UNCHANGED <<backend_endpoint, served>>

(* The connection ends, or what is read is no head but a body left there.  *)
ResponseFailed(k) ==
  LET c == user[k]
  IN  /\ Busy(k) /\ exch[k].at = "response"
      /\ IF owed[c] = <<>> THEN ~alive[c] ELSE Head(owed[c]).kind = "body"
      /\ Close(k)
      /\ exch' = [exch EXCEPT ![k] = NoExchange]
      /\ Settled(owed, left)
      /\ UNCHANGED <<backend_endpoint, served>>

(* Altered: a connection that is not kept is forgotten, not closed. *)
finish_backend_Forgets(k) ==
  IF exch[k].keep THEN release(k, backend_endpoint[k]) ELSE UNCHANGED vars

finish_backend(k) ==
  IF exch[k].keep THEN release(k, backend_endpoint[k]) ELSE Close(k)

(* The head and the body, if there is one, have been written: all of the   *)
(* body has been read, or as much as there was before the backend closed.  *)
ResponseWritten(k) ==
  LET c == user[k]
  IN  /\ Busy(k) /\ exch[k].at = "reply"
      /\ finish_backend(k)
      /\ \/ /\ exch[k].more /\ owed[c] # <<>>
            /\ Settled([owed EXCEPT ![c] = Tail(@)], left)
         \/ /\ ~exch[k].more \/ (owed[c] = <<>> /\ ~alive[c])
            /\ Settled(owed, left)
      /\ exch' = [exch EXCEPT ![k] = NoExchange]
      /\ UNCHANGED <<backend_endpoint, served>>

(* The client cannot be written to, or the chunk decoder takes a wrong     *)
(* size for the end of the body or for an error: the error is not looked   *)
(* at, and what has not been read of the body is left on the connection.   *)
ResponseWriteFailed(k) ==
  /\ Busy(k) /\ exch[k].at = "reply"
  /\ finish_backend(k)
  /\ Settled(owed, IF exch[k].more THEN left \cup {user[k]} ELSE left)
  /\ exch' = [exch EXCEPT ![k] = NoExchange]
  /\ UNCHANGED <<backend_endpoint, served>>

(* Altered: the connection is given back. *)
teardown_Releases(k) ==
  /\ Busy(k)
  /\ release(k, backend_endpoint[k])
  /\ Settled(owed, left)
  /\ exch' = [exch EXCEPT ![k] = NoExchange]
  /\ UNCHANGED <<backend_endpoint, served>>

(* The idle timer ends a relay, once.  Its operation is not recalled: one  *)
(* that waits for a connection goes on as it would have, a write is still  *)
(* to complete, and what is read of a response finds no connection to give *)
(* back or to close.                                                       *)
teardown(k) ==
  /\ Busy(k) /\ ~exch[k].done
  /\ \/ /\ exch[k].at = "connect"
        /\ exch' = [exch EXCEPT ![k].done = TRUE]
        /\ UNCHANGED <<vars, owed, alive, left>>
     \/ /\ exch[k].at # "connect"
        /\ Close(k)
        /\ exch' = [exch EXCEPT ![k] =
                       IF @.at = "write" THEN [@ EXCEPT !.at = "late", !.done = TRUE]
                                         ELSE NoExchange]
        /\ Settled(owed, left)
  /\ UNCHANGED <<backend_endpoint, served>>

(* A backend closes a connection; it sends no more than n parts. *)
BackendCloses(c) ==
  /\ fault = "none" /\ alive[c] /\ state[c] \in {"held", "idle"}
  /\ alive' = [alive EXCEPT ![c] = FALSE]
  /\ \E n \in 0..Len(owed[c]) : owed' = [owed EXCEPT ![c] = SubSeq(@, 1, n)]
  /\ UNCHANGED <<vars, exch, backend_endpoint, served, left>>

ExchangeInit == /\ Init
                /\ exch = [k \in Callers |-> NoExchange]
                /\ backend_endpoint =
                     [k \in Callers |-> CHOOSE ep \in Endpoint : TRUE]
                /\ owed = [c \in Conns |-> <<>>]
                /\ alive = [c \in Conns |-> TRUE]
                /\ served = [q \in Request |-> 0]
                /\ left = {}

ExchangeNext ==
  \/ \E k \in Callers :
       \/ \E g \in Groups, b \in BOOLEAN : request_phase(k, g, b)
       \/ use_backend(k)
       \/ RequestWritten(k)
       \/ RequestWriteFailed(k)
       \/ LateRequestWritten(k)
       \/ LateRequestWriteFailed(k)
       \/ ResponseParsed(k)
       \/ ResponseFailed(k)
       \/ ResponseWritten(k)
       \/ ResponseWriteFailed(k)
       \/ teardown(k)
  \/ \E c \in Conns : BackendCloses(c)

ExchangeSpec == ExchangeInit /\ [][ExchangeNext]_<<vars, xvars>>

-----------------------------------------------------------------------------
(* Properties *)

Exchange == [at : {"none", "connect", "write", "late", "response", "reply"},
             q : 0..MaxPicks, pick : 0..Len(Backends), body : BOOLEAN,
             retry : BOOLEAN, done : BOOLEAN,
             got : 0..MaxPicks, more : BOOLEAN, keep : BOOLEAN]

(* The exchanges and the connections' parts keep their types. *)
ExchangeTypeOK == /\ exch \in [Callers -> Exchange]
                  /\ backend_endpoint \in [Callers -> Endpoint]
                  /\ owed \in [Conns -> Seq(Part)]
                  /\ alive \in [Conns -> BOOLEAN]
                  /\ served \in [Request -> Nat]
                  /\ left \subseteq Conns

(* A request is sent to the endpoint that was picked for it and to no      *)
(* other: over a pooled connection, a fresh one, the replacement of a      *)
(* stale one, and the one that a relay dials after it was torn down.  What *)
(* the relay notes of the endpoint is never that of an earlier request, so *)
(* that the connection goes back to the queue it belongs to.               *)
SentWherePicked ==
  \A k \in Callers :
    LET e == exch[k] IN
    /\ e.at # "none" => e.pick \in Entry
    /\ e.at \in {"connect", "write", "response", "reply"} =>
         target[user[k]] = Backends[e.pick]
    /\ e.at \in {"write", "late", "response", "reply"} =>
         backend_endpoint[k] = Backends[e.pick]

(* A connection is out of the pool exactly while an exchange uses it:      *)
(* every way an exchange can end, by success, error, retry or timeout,     *)
(* gives it back or closes it.                                             *)
HeldForExchange ==
  /\ \A k \in Callers :
       CASE exch[k].at \in {"none", "late"} -> user[k] = NoConn
         [] exch[k].at = "connect" -> /\ user[k] # NoConn
                                      /\ state[user[k]] = "dialing"
         [] OTHER -> user[k] # NoConn /\ state[user[k]] = "held"
  /\ \A c \in Conns : state[c] \in {"dialing", "held"} =>
                        \E k \in Callers : user[k] = c

(* A response that a relay passes on answers its own request, whatever the *)
(* relays before it on the connection met, unless one of them left part of *)
(* a response there: by relaying a 1xx head as the response, or by giving  *)
(* the connection back after the body was not read to its end, because a   *)
(* client write failed or the chunk decoder ended early or in an error.    *)
OwnResponseUnlessLeft ==
  \A k \in Callers :
    exch[k].at = "reply" => exch[k].got = exch[k].q \/ user[k] \in left

(* A connection in the pool owes nothing, unless part of a response was    *)
(* left on it.                                                             *)
QuietUnlessLeft ==
  \A c \in Conns : state[c] = "idle" => owed[c] = <<>> \/ c \in left

(* No request is given to backends twice: the retry of a stale connection  *)
(* repeats only what could not be written (send_backend_request).          *)
ServedOnce == \A q \in Request : served[q] <= 1

(* A response that a relay passes on answers its own request.  (What       *)
(* docs/design-decisions.md says of connections that are given back.)      *)
OwnResponse ==
  \A k \in Callers : exch[k].at = "reply" => exch[k].got = exch[k].q
=============================================================================
