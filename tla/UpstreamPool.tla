---------------------------- MODULE UpstreamPool ----------------------------
(***************************************************************************)
(* The keep-alive pool of src/proxy/upstream_pool.{h,cpp} for HTTP/1       *)
(* backends: the endpoints of the configuration, their queues of idle      *)
(* connections, and the connections on their way between the pool and the  *)
(* relays that use them.  The HTTP/3 half of the class is in QuicPool.     *)
(*                                                                         *)
(* A pool belongs to one worker, so that its functions are atomic; a relay *)
(* is a caller that waits for or holds at most one connection at a time.   *)
(***************************************************************************)
EXTENDS Naturals, Sequences, FiniteSets

CONSTANTS
  Callers,      \* relays of the worker
  Conns,        \* identities of TCP connections, each used once
  NoConn,       \* the null stream pointer
  Groups,       \* backend_ids
  Addrs,        \* host and port
  Backends,     \* the endpoints add_backend was given, in order
  Targets,      \* what CONNECT and absolute-form requests connect to
  kMaxIdle,     \* kMaxIdlePerEndpoint
  MaxPicks      \* bound: calls of async_connect, before the size_t index wraps

Endpoint == [group : Groups, addr : Addrs]

ASSUME PoolAssumption == /\ NoConn \notin Conns
                         /\ Endpoint # {}
                         /\ Backends \in Seq(Endpoint)
                         /\ Targets \subseteq Endpoint
                         /\ kMaxIdle \in Nat
                         /\ MaxPicks \in Nat

VARIABLES idle,      \* per entry of endpoints_: its idle connections
          rr_index,  \* rr_index_
          state,     \* per connection: what has become of it
          target,    \* per connection: the endpoint it was opened to
          user,      \* per caller: the connection it waits for or holds
          picks,     \* per entry: how often async_connect picked it
          fault      \* an exception that leaves a handler and ends the process

vars == <<idle, rr_index, state, target, user, picks, fault>>

Entry == 1..Len(Backends)

Candidates(g) == {i \in Entry : Backends[i].group = g}

(* i is candidates[rr_index % candidates.size()]. *)
Picked(g, i) == Cardinality({j \in Candidates(g) : j < i})
                  = rr_index % Cardinality(Candidates(g))

-----------------------------------------------------------------------------
(* Operations *)

(* Resolving throws out of the handler, or a connect is started; before    *)
(* holds the connections' states when it is called.                        *)
connect_fresh_to(k, ep, before) ==
  \/ /\ fault' = "resolve"
     /\ state' = before
     /\ user' = [user EXCEPT ![k] = NoConn]
     /\ UNCHANGED target
  \/ \E c \in Conns :
       /\ before[c] = "unused"
       /\ state' = [before EXCEPT ![c] = "dialing"]
       /\ target' = [target EXCEPT ![c] = ep]
       /\ user' = [user EXCEPT ![k] = c]
       /\ UNCHANGED fault

(* Altered: the idle connection is copied, not taken. *)
async_connect_Copies(k, g) ==
  /\ fault = "none" /\ user[k] = NoConn /\ rr_index < MaxPicks
  /\ rr_index' = rr_index + 1
  /\ \E i \in Candidates(g) :
       /\ Picked(g, i)
       /\ picks' = [picks EXCEPT ![i] = @ + 1]
       /\ UNCHANGED idle
       /\ \/ /\ idle[i] # <<>>
             /\ user' = [user EXCEPT ![k] = Head(idle[i])]
             /\ state' = [state EXCEPT ![Head(idle[i])] = "held"]
             /\ UNCHANGED <<target, fault>>
          \/ /\ idle[i] = <<>>
             /\ connect_fresh_to(k, Backends[i], state)

(* Altered: the index advances with fresh connections only. *)
async_connect_Sticks(k, g) ==
  /\ fault = "none" /\ user[k] = NoConn /\ rr_index < MaxPicks
  /\ \E i \in Candidates(g) :
       /\ Picked(g, i)
       /\ picks' = [picks EXCEPT ![i] = @ + 1]
       /\ \/ /\ idle[i] # <<>>
             /\ idle' = [idle EXCEPT ![i] = Tail(@)]
             /\ user' = [user EXCEPT ![k] = Head(idle[i])]
             /\ state' = [state EXCEPT ![Head(idle[i])] = "held"]
             /\ UNCHANGED <<rr_index, target, fault>>
          \/ /\ idle[i] = <<>>
             /\ rr_index' = rr_index + 1
             /\ UNCHANGED idle
             /\ connect_fresh_to(k, Backends[i], state)

(* A group without endpoints is refused at once and nothing changes. *)
async_connect(k, g) ==
  /\ fault = "none" /\ user[k] = NoConn /\ rr_index < MaxPicks
  /\ rr_index' = rr_index + 1
  /\ \E i \in Candidates(g) :
       /\ Picked(g, i)
       /\ picks' = [picks EXCEPT ![i] = @ + 1]
       /\ \/ /\ idle[i] # <<>>
             /\ idle' = [idle EXCEPT ![i] = Tail(@)]
             /\ user' = [user EXCEPT ![k] = Head(idle[i])]
             /\ state' = [state EXCEPT ![Head(idle[i])] = "held"]
             /\ UNCHANGED <<target, fault>>
          \/ /\ idle[i] = <<>>
             /\ UNCHANGED idle
             /\ connect_fresh_to(k, Backends[i], state)

(* For a target that the request names, or the endpoint of a connection    *)
(* that is gone.                                                           *)
async_connect_fresh(k, ep) ==
  /\ fault = "none" /\ user[k] = NoConn
  /\ connect_fresh_to(k, ep, state)
  /\ UNCHANGED <<idle, rr_index, picks>>

(* The connect completes.  The stream's constructor asks the new socket    *)
(* for its peer, which throws when the peer has reset it already.          *)
ConnectDone(k) ==
  /\ fault = "none" /\ user[k] # NoConn /\ state[user[k]] = "dialing"
  /\ \/ /\ state' = [state EXCEPT ![user[k]] = "held"]
        /\ UNCHANGED <<user, fault>>
     \/ /\ fault' = "remote_endpoint"
        /\ UNCHANGED <<state, user>>
     \/ /\ state' = [state EXCEPT ![user[k]] = "closed"]
        /\ user' = [user EXCEPT ![k] = NoConn]
        /\ UNCHANGED fault
  /\ UNCHANGED <<idle, rr_index, target, picks>>

(* Altered: the group is not compared. *)
Matches_AnyGroup(i, ep) == Backends[i].addr = ep.addr

Matches(i, ep) == Backends[i] = ep

FirstMatch(i, ep) == Matches(i, ep) /\ \A j \in 1..(i - 1) : ~Matches(j, ep)

push_back(i, c) ==
  IF Len(idle[i]) < kMaxIdle
  THEN /\ idle' = [idle EXCEPT ![i] = Append(@, c)]
       /\ state' = [state EXCEPT ![c] = "idle"]
  ELSE /\ state' = [state EXCEPT ![c] = "closed"]
       /\ UNCHANGED idle

(* ep: the endpoint that the relay noted when it was given the connection. *)
release(k, ep) ==
  /\ fault = "none" /\ user[k] # NoConn /\ state[user[k]] = "held"
  /\ user' = [user EXCEPT ![k] = NoConn]
  /\ \/ \E i \in Entry : /\ FirstMatch(i, ep)
                         /\ push_back(i, user[k])
     \/ /\ \A i \in Entry : ~Matches(i, ep)
        /\ state' = [state EXCEPT ![user[k]] = "closed"]
        /\ UNCHANGED idle
  /\ UNCHANGED <<rr_index, target, picks, fault>>

(* RelaySession::close_backend: the relay drops its reference. *)
Close(k) ==
  /\ fault = "none" /\ user[k] # NoConn /\ state[user[k]] = "held"
  /\ state' = [state EXCEPT ![user[k]] = "closed"]
  /\ user' = [user EXCEPT ![k] = NoConn]
  /\ UNCHANGED <<idle, rr_index, target, picks, fault>>

(* RelaySession::reconnect_backend_fresh: a stale connection is dropped    *)
(* and replaced by a fresh one to the endpoint noted, in one handler.      *)
reconnect_backend_fresh(k, ep) ==
  /\ fault = "none" /\ user[k] # NoConn /\ state[user[k]] = "held"
  /\ connect_fresh_to(k, ep, [state EXCEPT ![user[k]] = "closed"])
  /\ UNCHANGED <<idle, rr_index, picks>>

Init == /\ idle = [i \in Entry |-> <<>>]
        /\ rr_index = 0
        /\ state = [c \in Conns |-> "unused"]
        /\ target = [c \in Conns |-> CHOOSE ep \in Endpoint : TRUE]
        /\ user = [k \in Callers |-> NoConn]
        /\ picks = [i \in Entry |-> 0]
        /\ fault = "none"

(* The endpoint that a relay passes is that of its connection; that the    *)
(* relays keep to this is shown in PooledExchange.                         *)
Next == \E k \in Callers :
          \/ \E g \in Groups : async_connect(k, g)
          \/ \E ep \in Targets \cup {Backends[i] : i \in Entry} :
               async_connect_fresh(k, ep)
          \/ ConnectDone(k)
          \/ Close(k)
          \/ /\ user[k] # NoConn
             /\ \/ release(k, target[user[k]])
                \/ reconnect_backend_fresh(k, target[user[k]])

Spec == Init /\ [][Next]_vars

-----------------------------------------------------------------------------
(* Properties *)

State == {"unused", "dialing", "held", "idle", "closed"}

(* The pool's state keeps its type: only real connections are queued. *)
TypeOK == /\ idle \in [Entry -> Seq(Conns)]
          /\ rr_index \in Nat
          /\ state \in [Conns -> State]
          /\ target \in [Conns -> Endpoint]
          /\ user \in [Callers -> Conns \cup {NoConn}]
          /\ picks \in [Entry -> Nat]
          /\ fault \in {"none", "resolve", "remote_endpoint"}

(* A connection has one owner: it is queued once, for one entry, or it     *)
(* belongs to one relay (async_connect takes what it hands out off the     *)
(* queue, release puts it back once).                                      *)
OneOwner ==
  /\ \A k, l \in Callers : user[k] # NoConn /\ user[k] = user[l] => k = l
  /\ \A k \in Callers, i \in Entry : \A m \in 1..Len(idle[i]) :
       user[k] # idle[i][m]
  /\ \A i, j \in Entry : \A m \in 1..Len(idle[i]), n \in 1..Len(idle[j]) :
       idle[i][m] = idle[j][n] => i = j /\ m = n

(* A connection is queued under the endpoint it was opened to, so that a   *)
(* group's request is never sent to another group's backend.               *)
QueuedWhereItLeads ==
  \A i \in Entry : \A m \in 1..Len(idle[i]) : target[idle[i][m]] = Backends[i]

(* kMaxIdlePerEndpoint bounds every queue. *)
IdleBounded == \A i \in Entry : Len(idle[i]) <= kMaxIdle

Even(g) == \A i, j \in Candidates(g) : picks[i] <= picks[j] + 1

(* While only one group is asked for connections its endpoints are picked  *)
(* in turn, whatever mix of pooled and fresh connections serves it and     *)
(* whatever direct connects come in between (async_connect).               *)
EvenWhileAlone ==
  \A g \in Groups :
    (\A i \in Entry \ Candidates(g) : picks[i] = 0) => Even(g)
=============================================================================
