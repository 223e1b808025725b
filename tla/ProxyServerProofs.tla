------------------------- MODULE ProxyServerProofs --------------------------
(***************************************************************************)
(* Proofs about ProxyServer, for any number of workers, clients and QUIC   *)
(* connections.                                                            *)
(*                                                                         *)
(* The invariant follows a connection from its hand-over to its worker.    *)
(* What has been posted and not yet run is in the queue of the right       *)
(* worker (Homes, Posted, Queueing), a socket once only (Once).  A worker   *)
(* whose graceful_shutdown is still queued has, ahead of it, the handler   *)
(* of every socket that came before begin_shutdown and that it has not met *)
(* yet (Ahead); one whose graceful_shutdown has run has told every relay   *)
(* and every QUIC session that was there before begin_shutdown (Told).     *)
(***************************************************************************)
EXTENDS ProxyServer, TLAPS

Handler == [what : {"tcp"}, who : Clients] \cup [what : {"packet"}, who : Quics]
             \cup [what : {"graceful", "force"}, who : {None}]

QuicLife == {"none", "handshake", "live", "goaway", "forced", "gone"}

Pending == {"off", "armed", "ready", "failed", "aborted"}

(* The completion that is queued knows its connection. *)
TypeOK ==
  /\ life \in {"new", "starting", "built", "running"}
  /\ stopping \in BOOLEAN
  /\ shut \in {"none", "posted", "draining", "finalizing", "stopped"}
  /\ accept \in Pending /\ recv \in Pending
  /\ queue \in [Workers -> Seq(Handler)]
  /\ rr \in Workers
  /\ tcp \in [Clients -> {"none", "accepted", "posted", "relay", "told", "gone"}]
  /\ quic \in [Quics -> QuicLife]
  /\ got \in [Quics -> Nat]
  /\ home \in [Clients \cup Quics -> Workers \cup {None}]
  /\ late \subseteq Clients \cup Quics
  /\ accept = "ready" => peer \in Clients /\ tcp[peer] = "accepted"
  /\ recv = "ready" => dgram \in Quics

Graceful == H("graceful", None)

(* The shutdown has begun. *)
Down == shut \notin {"none", "posted"}

(* The handler that brings x to its worker; whether it holds a socket that *)
(* is yet to have its relay; whether x has a relay or a session that has   *)
(* not been told.                                                          *)
Msg(x) == IF x \in Clients THEN H("tcp", x) ELSE H("packet", x)
Waiting(x) == x \in Clients /\ tcp[x] = "posted"
Active(x) == IF x \in Clients THEN tcp[x] = "relay" ELSE quic[x] = "live"

Early(w) == {x \in (Clients \cup Quics) \ late : home[x] = w}

(* The shutdown sequence runs once, and cancels nothing before it begins. *)
Sequence ==
  /\ shut # "none" => stopping
  /\ accept = "aborted" \/ recv = "aborted" => Down
  /\ \A w \in Workers : \A i \in 1..Len(queue[w]) :
       queue[w][i] = Graceful => Down

Homes ==
  \A w \in Workers : \A i \in 1..Len(queue[w]) :
    queue[w][i].who # None => home[queue[w][i].who] = w

Posted ==
  /\ \A c \in Clients : tcp[c] \in {"none", "accepted"} <=> home[c] = None
  /\ \A q \in Quics : home[q] = None => quic[q] = "none"
  /\ \A w \in Workers : \A i \in 1..Len(queue[w]) :
       queue[w][i].what = "tcp" => tcp[queue[w][i].who] = "posted"

(* What is posted and has not run is in the queue. *)
Queueing ==
  \A x \in Clients \cup Quics :
    home[x] # None /\ Waiting(x)
      => \E i \in 1..Len(queue[home[x]]) : queue[home[x]][i] = Msg(x)

Once ==
  \A w \in Workers : \A i, j \in 1..Len(queue[w]) :
    queue[w][i].what = "tcp" /\ queue[w][i] = queue[w][j] => i = j

Ahead ==
  \A w \in Workers : \A i \in 1..Len(queue[w]) :
    queue[w][i] = Graceful =>
      \A x \in Early(w) :
        Waiting(x) => \E j \in 1..(i - 1) : queue[w][j] = Msg(x)

Told ==
  \A w \in Workers :
    Down /\ (\A i \in 1..Len(queue[w]) : queue[w][i] # Graceful) =>
      \A x \in Early(w) :
        ~Waiting(x) /\ ~Active(x)

Queues == Homes /\ Posted /\ Queueing /\ Once /\ Ahead /\ Told

IInv == TypeOK /\ Sequence /\ StillListening /\ Queues

-----------------------------------------------------------------------------
(* Queues *)

LEMMA AppendFacts ==
  ASSUME NEW S, NEW q \in Seq(S), NEW e \in S
  PROVE  /\ Append(q, e) \in Seq(S) /\ Len(q) \in Nat
         /\ Len(Append(q, e)) = Len(q) + 1
         /\ \A i \in 1..Len(q) : Append(q, e)[i] = q[i]
         /\ Append(q, e)[Len(q) + 1] = e
  OBVIOUS

LEMMA TailFacts ==
  ASSUME NEW S, NEW q \in Seq(S), q # << >>
  PROVE  /\ Tail(q) \in Seq(S) /\ Len(q) \in Nat \ {0}
         /\ Len(Tail(q)) = Len(q) - 1
         /\ \A i \in 1..(Len(q) - 1) : Tail(q)[i] = q[i + 1]
         /\ Head(q) = q[1] /\ q[1] \in S
  OBVIOUS

LEMMA ElementType ==
  ASSUME TypeOK, NEW w \in Workers
  PROVE  /\ queue[w] \in Seq(Handler) /\ Len(queue[w]) \in Nat
         /\ \A i \in 1..Len(queue[w]) : queue[w][i] \in Handler
<1>1. queue[w] \in Seq(Handler)
  BY DEF TypeOK
<1> QED BY <1>1

(* Handlers of different kinds, or of different connections, differ. *)
LEMMA HandlerFacts ==
  ASSUME NEW h \in Handler
  PROVE  /\ h.what = "tcp" => h.who \in Clients /\ h = H("tcp", h.who)
         /\ h.what = "packet" => h.who \in Quics /\ h = H("packet", h.who)
         /\ h.who # None => h.who \in Clients \cup Quics /\ h = Msg(h.who)
         /\ h.what \notin {"tcp", "packet"} => h.who = None
         /\ h = Graceful <=> h.what = "graceful"
  BY ServerAssumption DEF Handler, H, Msg, Graceful

LEMMA MsgFacts ==
  ASSUME NEW x \in Clients \cup Quics
  PROVE  /\ Msg(x) \in Handler /\ Msg(x).who = x /\ x # None /\ Msg(x) # Graceful
         /\ \A y \in Clients \cup Quics : Msg(x) = Msg(y) => x = y
         /\ Msg(x).what = "tcp" <=> x \in Clients
  BY ServerAssumption DEF Handler, H, Msg, Graceful

-----------------------------------------------------------------------------
(* Steps, by what they do to the queues *)

(* The queues stay, and nothing begins to wait or to run. *)
LEMMA QuietOK ==
  ASSUME IInv, UNCHANGED <<queue, home, late>>, Down' <=> Down,
         \A x \in Clients \cup Quics : /\ Waiting(x)' <=> Waiting(x)
                                       /\ Active(x)' => Active(x),
         \A c \in Clients : tcp'[c] \in {"none", "accepted"}
                              <=> tcp[c] \in {"none", "accepted"},
         \A q \in Quics : quic[q] = "none" => quic'[q] = "none"
  PROVE  Queues'
<1>1. Homes' /\ Once'
  BY DEF IInv, Queues, Homes, Once
<1>2. Posted'
  <2>1. \A c \in Clients : tcp'[c] = "posted" <=> tcp[c] = "posted"
    BY DEF Waiting
  <2>2. ASSUME NEW w \in Workers, NEW i \in 1..Len(queue[w]), queue[w][i].what = "tcp"
        PROVE  tcp'[queue[w][i].who] = "posted"
    <3>1. queue[w][i].who \in Clients
      BY <2>2, ElementType, HandlerFacts DEF IInv
    <3> QED BY <2>1, <2>2, <3>1 DEF IInv, Queues, Posted
  <2> QED BY <2>1, <2>2 DEF IInv, Queues, Posted
<1>3. Queueing' /\ Ahead' /\ Told'
  BY DEF IInv, Queues, Queueing, Ahead, Told, Early
<1> QED BY <1>1, <1>2, <1>3 DEF Queues

(* A handler is posted to every worker: graceful_shutdown as the shutdown  *)
(* begins, or force_close_quic.                                            *)
LEMMA PostAllOK ==
  ASSUME IInv, NEW h \in Handler, queue' = PostAll(h),
         UNCHANGED <<tcp, quic, home, late>>,
         \/ h = Graceful
         \/ h = H("force", None) /\ (Down' <=> Down)
  PROVE  queue' \in [Workers -> Seq(Handler)] /\ Queues'
<1>1. ASSUME NEW w \in Workers
      PROVE  /\ queue'[w] \in Seq(Handler) /\ Len(queue[w]) \in Nat
             /\ Len(queue'[w]) = Len(queue[w]) + 1
             /\ \A i \in 1..Len(queue[w]) : queue'[w][i] = queue[w][i]
             /\ queue'[w][Len(queue[w]) + 1] = h
  <2>1. queue'[w] = Append(queue[w], h)
    BY DEF PostAll
  <2> QED BY <2>1, AppendFacts, ElementType DEF IInv
<1>2. queue' \in [Workers -> Seq(Handler)]
  BY <1>1 DEF PostAll
<1>3. h.who = None /\ h.what # "tcp" /\ h.what # "packet"
  BY DEF Graceful, H
<1>4. Homes'
  BY SMTT(20), <1>1, <1>3 DEF IInv, Queues, Homes
<1>5. Posted'
  BY <1>1, <1>3 DEF IInv, Queues, Posted
<1>6. Once'
  <2> SUFFICES ASSUME NEW w \in Workers,
                      NEW i \in 1..Len(queue'[w]), NEW j \in 1..Len(queue'[w]),
                      queue'[w][i].what = "tcp", queue'[w][i] = queue'[w][j]
               PROVE  i = j
    BY DEF Once
  <2>1. i # Len(queue[w]) + 1 /\ j # Len(queue[w]) + 1
    BY <1>1, <1>3
  <2>2. i \in 1..Len(queue[w]) /\ j \in 1..Len(queue[w])
    BY <2>1, <1>1
  <2> QED BY <2>2, <1>1 DEF IInv, Queues, Once
<1>7. Queueing'
  <2> SUFFICES ASSUME NEW x \in Clients \cup Quics, home[x] # None, Waiting(x)
               PROVE  \E i \in 1..Len(queue'[home[x]]) : queue'[home[x]][i] = Msg(x)
    BY DEF Queueing, Waiting
  <2>1. home[x] \in Workers
    BY DEF IInv, TypeOK
  <2>2. PICK i \in 1..Len(queue[home[x]]) : queue[home[x]][i] = Msg(x)
    BY DEF IInv, Queues, Queueing
  <2> QED BY <2>1, <2>2, <1>1
<1>8. Ahead'
  <2> SUFFICES ASSUME NEW w \in Workers, NEW i \in 1..Len(queue'[w]),
                      queue'[w][i] = Graceful, NEW x \in Early(w), Waiting(x)
               PROVE  \E j \in 1..(i - 1) : queue'[w][j] = Msg(x)
    BY DEF Ahead, Waiting, Early
  <2>1. CASE i \in 1..Len(queue[w])
    <3>1. PICK j \in 1..(i - 1) : queue[w][j] = Msg(x)
      BY <2>1, <1>1 DEF IInv, Queues, Ahead
    <3> QED BY <2>1, <3>1, <1>1
  <2>2. CASE i = Len(queue[w]) + 1
    <3>1. x \in Clients \cup Quics /\ home[x] = w /\ w # None
      BY ServerAssumption DEF Early
    <3>2. PICK j \in 1..Len(queue[w]) : queue[w][j] = Msg(x)
      BY <3>1 DEF IInv, Queues, Queueing
    <3> QED BY <2>2, <3>2, <1>1
  <2> QED BY <2>1, <2>2, <1>1
<1>9. Told'
  <2> SUFFICES ASSUME NEW w \in Workers, Down',
                      \A i \in 1..Len(queue'[w]) : queue'[w][i] # Graceful,
                      NEW x \in Early(w)
               PROVE  ~Waiting(x) /\ ~Active(x)
    BY DEF Told, Waiting, Active, Early
  <2>1. h # Graceful
    BY <1>1
  <2>2. Down /\ \A i \in 1..Len(queue[w]) : queue[w][i] # Graceful
    BY <2>1, <1>1
  <2> QED BY <2>2 DEF IInv, Queues, Told
<1> QED BY <1>2, <1>4, <1>5, <1>6, <1>7, <1>8, <1>9 DEF Queues

(* x is handed to w: its socket, or a datagram of it. *)
LEMMA HandOverOK ==
  ASSUME IInv, NEW x \in Clients \cup Quics, NEW w \in Workers,
         home[x] \in {None, w}, x \in Clients => home[x] = None,
         queue' = Hand(w, Msg(x)), home' = [home EXCEPT ![x] = w],
         late' = IF x \in Clients THEN Late(x) ELSE late,
         tcp' = IF x \in Clients THEN [tcp EXCEPT ![x] = "posted"] ELSE tcp,
         UNCHANGED <<quic, shut>>
  PROVE  /\ queue' \in [Workers -> Seq(Handler)] /\ Queues'
         /\ \A v \in Workers : \A i \in 1..Len(queue'[v]) :
              queue'[v][i] = Graceful => Down
<1> DEFINE n == Len(queue[w])
<1>1. Msg(x) \in Handler /\ Msg(x).who = x /\ x # None /\ Msg(x) # Graceful
      /\ (Msg(x).what = "tcp" <=> x \in Clients) /\ w # None
  BY MsgFacts, ServerAssumption
<1>2. queue'[w] = Append(queue[w], Msg(x)) /\ \A v \in Workers \ {w} : queue'[v] = queue[v]
  BY DEF IInv, TypeOK, Hand
<1>3. /\ queue'[w] \in Seq(Handler) /\ n \in Nat /\ Len(queue'[w]) = n + 1
      /\ \A i \in 1..n : queue'[w][i] = queue[w][i]
      /\ queue'[w][n + 1] = Msg(x)
  BY <1>1, <1>2, AppendFacts, ElementType DEF IInv
<1>4. \A v \in Workers : Len(queue[v]) \in Nat
      /\ \A i \in 1..Len(queue[v]) : queue[v][i] \in Handler
  BY ElementType DEF IInv
<1>5. queue' \in [Workers -> Seq(Handler)]
  BY <1>1, <1>3 DEF IInv, TypeOK, Hand
<1> HIDE DEF n
(* An entry of a queue is an old one or the new one. *)
<1>6. ASSUME NEW v \in Workers, NEW i \in 1..Len(queue'[v])
      PROVE  \/ i \in 1..Len(queue[v]) /\ queue'[v][i] = queue[v][i]
             \/ v = w /\ i = n + 1 /\ queue'[v][i] = Msg(x)
  <2>1. CASE v # w
    BY Zenon, <1>2, <2>1, <1>6
  <2>2. CASE v = w
    <3>1. i \in 1..n \/ i = n + 1
      BY <2>2, <1>3, <1>6
    <3> QED BY Zenon, <2>2, <3>1, <1>3 DEF n
  <2> QED BY <2>1, <2>2
<1>7. ASSUME NEW v \in Workers, NEW i \in 1..Len(queue[v])
      PROVE  i \in 1..Len(queue'[v]) /\ queue'[v][i] = queue[v][i]
  <2>1. CASE v = w
    BY <2>1, <1>3 DEF n
  <2>2. CASE v # w
    BY <2>2, <1>2
  <2> QED BY <2>1, <2>2
<1>8. \A y \in Clients \cup Quics : home'[y] = IF y = x THEN w ELSE home[y]
  BY DEF IInv, TypeOK
<1>9. \A c \in Clients : tcp'[c] = IF c = x THEN "posted" ELSE tcp[c]
  BY DEF IInv, TypeOK
(* No handler of x is in a queue other than that of w, and none of a socket. *)
<1>10. ASSUME NEW v \in Workers, NEW i \in 1..Len(queue[v]), queue[v][i].who = x
       PROVE  v = w /\ home[x] = w /\ x \notin Clients
  <2>1. home[x] = v
    BY <1>10, <1>1 DEF IInv, Queues, Homes
  <2> QED BY <2>1, ServerAssumption
<1>11. Homes'
  <2> SUFFICES ASSUME NEW v \in Workers, NEW i \in 1..Len(queue'[v]),
                      queue'[v][i].who # None
               PROVE  home'[queue'[v][i].who] = v
    BY DEF Homes
  <2>1. CASE i \in 1..Len(queue[v]) /\ queue'[v][i] = queue[v][i]
    <3>1. queue[v][i].who \in Clients \cup Quics
      BY <2>1, <1>4, HandlerFacts
    <3>2. home[queue[v][i].who] = v
      BY <2>1 DEF IInv, Queues, Homes
    <3> QED BY <2>1, <3>1, <3>2, <1>8, <1>10
  <2>2. CASE v = w /\ i = n + 1 /\ queue'[v][i] = Msg(x)
    BY <2>2, <1>1, <1>8
  <2> QED BY <2>1, <2>2, <1>6
<1>12. Posted'
  <2>1. \A c \in Clients : tcp'[c] \in {"none", "accepted"} <=> home'[c] = None
    BY <1>1, <1>8, <1>9 DEF IInv, Queues, Posted
  <2>2. ASSUME NEW v \in Workers, NEW i \in 1..Len(queue'[v]),
               queue'[v][i].what = "tcp"
        PROVE  tcp'[queue'[v][i].who] = "posted"
    <3>1. CASE i \in 1..Len(queue[v]) /\ queue'[v][i] = queue[v][i]
      <4>1. queue[v][i].who \in Clients
        BY <2>2, <3>1, <1>4, HandlerFacts
      <4>2. tcp[queue[v][i].who] = "posted"
        BY <2>2, <3>1 DEF IInv, Queues, Posted
      <4> QED BY <3>1, <4>1, <4>2, <1>9
    <3>2. CASE v = w /\ i = n + 1 /\ queue'[v][i] = Msg(x)
      BY <2>2, <3>2, <1>1, <1>9
    <3> QED BY <3>1, <3>2, <1>6
  <2>3. \A q \in Quics : home'[q] = None => quic'[q] = "none"
    BY <1>1, <1>8 DEF IInv, Queues, Posted
  <2> QED BY <2>1, <2>2, <2>3 DEF Posted
<1>13. Queueing'
  <2> SUFFICES ASSUME NEW y \in Clients \cup Quics, home'[y] # None, Waiting(y)'
               PROVE  \E i \in 1..Len(queue'[home'[y]]) : queue'[home'[y]][i] = Msg(y)
    BY DEF Queueing
  <2>1. CASE y = x
    BY <2>1, <1>3, <1>8 DEF n
  <2>2. CASE y # x
    <3>1. home'[y] = home[y] /\ home[y] \in Workers /\ Waiting(y)
      BY <2>2, <1>8, <1>9 DEF Waiting, IInv, TypeOK
    <3>2. PICK i \in 1..Len(queue[home[y]]) : queue[home[y]][i] = Msg(y)
      BY <3>1, ServerAssumption DEF IInv, Queues, Queueing
    <3> QED BY <3>1, <3>2, <1>7
  <2> QED BY <2>1, <2>2
<1>14. Once'
  <2> SUFFICES ASSUME NEW v \in Workers,
                      NEW i \in 1..Len(queue'[v]), NEW j \in 1..Len(queue'[v]),
                      queue'[v][i].what = "tcp", queue'[v][i] = queue'[v][j]
               PROVE  i = j
    BY DEF Once
  <2>1. CASE x \in Clients
    <3>1. \A k \in 1..Len(queue[v]) : queue[v][k] # Msg(x)
      BY <2>1, <1>1, <1>10
    <3>2. CASE i \in 1..Len(queue[v]) /\ j \in 1..Len(queue[v])
      BY <3>2, <1>7 DEF IInv, Queues, Once
    <3> QED BY <3>1, <3>2, <1>6
  <2>2. CASE x \notin Clients
    <3>1. i \in 1..Len(queue[v]) /\ j \in 1..Len(queue[v])
      BY <2>2, <1>1, <1>6
    <3> QED BY <3>1, <1>7 DEF IInv, Queues, Once
  <2> QED BY <2>1, <2>2
<1>15. Down' <=> Down
  BY DEF Down
(* After the shutdown has begun a new socket is late, and a new QUIC       *)
(* connection has no session yet.                                          *)
<1>16. ASSUME NEW v \in Workers, NEW y \in Early(v)', Down
       PROVE  \/ y \in Early(v) /\ (Waiting(y)' <=> Waiting(y)) /\ (Active(y)' <=> Active(y))
              \/ ~Waiting(y)' /\ ~Active(y)'
  <2>1. y \in Clients \cup Quics /\ home'[y] = v /\ y \notin late'
    BY DEF Early
  <2>2. CASE y = x
    <3>1. late' = late /\ x \in Quics /\ x \notin Clients
      BY <1>16, <2>1, <2>2, <1>1 DEF Late, Down
    <3>2. CASE home[x] = None
      <4>1. quic[x] = "none"
        BY <3>1, <3>2 DEF IInv, Queues, Posted
      <4> QED BY <2>2, <3>1, <4>1 DEF Waiting, Active
    <3>3. CASE home[x] = w
      BY <2>1, <2>2, <3>1, <3>3, <1>8 DEF Early, Waiting, Active
    <3> QED BY <3>2, <3>3
  <2>3. CASE y # x
    <3>1. y \notin late
      BY <2>1 DEF Late
    <3> QED BY <2>1, <2>3, <3>1, <1>8, <1>9 DEF Early, Waiting, Active
  <2> QED BY <2>2, <2>3
<1>17. ASSUME NEW v \in Workers, NEW i \in 1..Len(queue'[v]), queue'[v][i] = Graceful
       PROVE  i \in 1..Len(queue[v]) /\ queue[v][i] = Graceful /\ Down
  <2>1. i \in 1..Len(queue[v]) /\ queue[v][i] = Graceful
    BY <1>17, <1>1, <1>6
  <2> QED BY <2>1 DEF IInv, Sequence
<1>18. Ahead'
  <2> SUFFICES ASSUME NEW v \in Workers, NEW i \in 1..Len(queue'[v]),
                      queue'[v][i] = Graceful, NEW y \in Early(v)', Waiting(y)'
               PROVE  \E j \in 1..(i - 1) : queue'[v][j] = Msg(y)
    BY DEF Ahead
  <2>1. i \in 1..Len(queue[v]) /\ queue[v][i] = Graceful /\ Down
    BY <1>17
  <2>2. y \in Early(v) /\ Waiting(y)
    BY <2>1, <1>16
  <2>3. PICK j \in 1..(i - 1) : queue[v][j] = Msg(y)
    BY <2>1, <2>2 DEF IInv, Queues, Ahead
  <2>4. j \in 1..Len(queue[v])
    BY <2>1, <2>3, <1>4
  <2> QED BY <2>3, <2>4, <1>7
<1>19. Told'
  <2> SUFFICES ASSUME NEW v \in Workers, Down,
                      \A i \in 1..Len(queue'[v]) : queue'[v][i] # Graceful,
                      NEW y \in Early(v)'
               PROVE  ~Waiting(y)' /\ ~Active(y)'
    BY <1>15 DEF Told
  <2>1. \A i \in 1..Len(queue[v]) : queue[v][i] # Graceful
    BY <1>7
  <2> QED BY <2>1, <1>16 DEF IInv, Queues, Told
<1> QED BY Zenon, <1>5, <1>11, <1>12, <1>13, <1>14, <1>17, <1>18, <1>19 DEF Queues

(* A worker runs the handler m at the head of its queue: what waits for it *)
(* waits no more, what else begins to run is late if the shutdown has      *)
(* begun, and after graceful_shutdown nothing on the worker is active.     *)
LEMMA TakeOK ==
  ASSUME IInv, NEW w \in Workers, queue[w] # << >>,
         queue' = [queue EXCEPT ![w] = Tail(@)], UNCHANGED <<shut, home>>,
         late \subseteq late', \A q \in Quics : home[q] = None => quic'[q] = "none",
         \A x \in Clients \cup Quics :
           /\ Waiting(x)' <=> Waiting(x) /\ Head(queue[w]) # Msg(x)
           /\ Active(x)' => \/ Active(x) \/ (Down => x \in late')
                            \/ Waiting(x) /\ Head(queue[w]) = Msg(x)
           /\ Head(queue[w]) = Graceful /\ home[x] = w => ~Active(x)',
         \A c \in Clients : tcp'[c] \in {"none", "accepted"}
                              <=> tcp[c] \in {"none", "accepted"}
  PROVE  /\ queue' \in [Workers -> Seq(Handler)] /\ Queues'
         /\ \A v \in Workers : \A i \in 1..Len(queue'[v]) :
              queue'[v][i] = Graceful => Down
<1> DEFINE m == Head(queue[w])
           n == Len(queue[w])
           back(v, i) == IF v = w THEN i + 1 ELSE i
<1>1. /\ queue'[w] = Tail(queue[w]) /\ \A v \in Workers \ {w} : queue'[v] = queue[v]
      /\ queue[w] \in Seq(Handler)
  BY DEF IInv, TypeOK
<1>2. /\ queue'[w] \in Seq(Handler) /\ n \in Nat \ {0} /\ Len(queue'[w]) = n - 1
      /\ \A i \in 1..(n - 1) : queue'[w][i] = queue[w][i + 1]
      /\ m = queue[w][1] /\ m \in Handler
  <2>1. /\ Tail(queue[w]) \in Seq(Handler) /\ n \in Nat \ {0}
        /\ Len(Tail(queue[w])) = n - 1
        /\ \A i \in 1..(n - 1) : Tail(queue[w])[i] = queue[w][i + 1]
        /\ m = queue[w][1] /\ queue[w][1] \in Handler
    BY <1>1, TailFacts
  <2> QED BY Zenon, <2>1, <1>1
<1>3. \A v \in Workers : Len(queue[v]) \in Nat
      /\ \A i \in 1..Len(queue[v]) : queue[v][i] \in Handler
  BY ElementType DEF IInv
<1>4. queue' \in [Workers -> Seq(Handler)]
  BY <1>2 DEF IInv, TypeOK
<1> HIDE DEF m, n
(* Every entry left is an old one, every old one but m is left. *)
<1>5. ASSUME NEW v \in Workers, NEW i \in 1..Len(queue'[v])
      PROVE  back(v, i) \in 1..Len(queue[v]) /\ queue'[v][i] = queue[v][back(v, i)]
  BY <1>1, <1>2 DEF n
<1>6. ASSUME NEW v \in Workers, NEW i \in 1..Len(queue[v]), v # w \/ i # 1
      PROVE  /\ v = w => i - 1 \in 1..Len(queue'[v]) /\ queue'[v][i - 1] = queue[v][i]
             /\ v # w => i \in 1..Len(queue'[v]) /\ queue'[v][i] = queue[v][i]
  <2>1. CASE v = w
    <3>1. i - 1 \in 1..(n - 1) /\ i - 1 + 1 = i
      BY <1>6, <2>1, <1>2 DEF n
    <3> QED BY <2>1, <3>1, <1>2
  <2>2. CASE v # w
    BY <2>2, <1>1
  <2> QED BY <2>1, <2>2
<1>7. Homes'
  BY <1>5 DEF IInv, Queues, Homes
<1>8. \A v \in Workers : \A i \in 1..Len(queue'[v]) : queue'[v][i] = Graceful => Down
  BY <1>5 DEF IInv, Sequence
<1>9. Once'
  <2> SUFFICES ASSUME NEW v \in Workers,
                      NEW i \in 1..Len(queue'[v]), NEW j \in 1..Len(queue'[v]),
                      queue'[v][i].what = "tcp", queue'[v][i] = queue'[v][j]
               PROVE  i = j
    BY Zenon DEF Once
  <2>1. back(v, i) = back(v, j)
    BY <1>5 DEF IInv, Queues, Once
  <2> QED BY <2>1
<1>10. Posted'
  <2>1. \A c \in Clients : tcp'[c] \in {"none", "accepted"} <=> home'[c] = None
    BY DEF IInv, Queues, Posted
  <2>2. ASSUME NEW v \in Workers, NEW i \in 1..Len(queue'[v]), queue'[v][i].what = "tcp"
        PROVE  tcp'[queue'[v][i].who] = "posted"
    <3> DEFINE k == back(v, i)
    <3>1. k \in 1..Len(queue[v]) /\ queue'[v][i] = queue[v][k]
      BY <1>5
    <3>2. PICK c \in Clients : /\ queue[v][k].who = c /\ queue[v][k] = Msg(c)
                              /\ c # None
      BY <2>2, <3>1, <1>3, HandlerFacts, MsgFacts DEF Msg
    <3>3. tcp[c] = "posted" /\ home[c] = v
      BY <2>2, <3>1, <3>2 DEF IInv, Queues, Posted, Homes
    <3>4. m # Msg(c)
      <4> SUFFICES ASSUME m = Msg(c) PROVE FALSE
        OBVIOUS
      <4>1. 1 \in 1..Len(queue[w]) /\ queue[w][1].who = c
        <5>1. Msg(c).who = c
          BY MsgFacts
        <5>2. queue[w][1] = Msg(c) /\ n >= 1
          BY <1>2
        <5> QED BY <5>1, <5>2, <1>2 DEF n
      <4>2. home[c] = w
        BY <4>1, <3>2 DEF IInv, Queues, Homes
      <4>3. v = w /\ k = i + 1
        BY <4>2, <3>3
      <4>4. queue[w][k] = queue[w][1] /\ queue[w][k].what = "tcp"
        BY <4>3, <3>1, <3>2, <1>2, <2>2
      <4>5. k = 1
        BY <4>1, <4>3, <4>4, <3>1 DEF IInv, Queues, Once
      <4> QED BY <4>3, <4>5, <1>2
    <3>5. tcp'[c] = "posted"
      BY <3>2, <3>3, <3>4 DEF Waiting, m
    <3> QED BY <3>1, <3>2, <3>5
  <2> QED BY <2>1, <2>2 DEF Posted
<1>11. Queueing'
  <2> SUFFICES ASSUME NEW x \in Clients \cup Quics, home[x] # None, Waiting(x)'
               PROVE  \E i \in 1..Len(queue'[home[x]]) : queue'[home[x]][i] = Msg(x)
    BY Zenon DEF Queueing
  <2>1. Waiting(x) /\ m # Msg(x) /\ home[x] \in Workers
    BY DEF m, IInv, TypeOK
  <2>2. PICK i \in 1..Len(queue[home[x]]) : queue[home[x]][i] = Msg(x)
    BY <2>1 DEF IInv, Queues, Queueing
  <2>3. home[x] # w \/ i # 1
    BY <2>1, <2>2, <1>2
  <2>4. CASE home[x] = w
    <3>1. i - 1 \in 1..Len(queue'[home[x]]) /\ queue'[home[x]][i - 1] = Msg(x)
      BY <2>1, <2>2, <2>3, <2>4, <1>6
    <3> QED BY <3>1
  <2>5. CASE home[x] # w
    <3>1. i \in 1..Len(queue'[home[x]]) /\ queue'[home[x]][i] = Msg(x)
      BY <2>1, <2>2, <2>5, <1>6
    <3> QED BY <3>1
  <2> QED BY <2>4, <2>5
<1>12. \A v \in Workers : Early(v)' \subseteq Early(v)
  BY DEF Early
<1>13. Ahead'
  <2> SUFFICES ASSUME NEW v \in Workers, NEW i \in 1..Len(queue'[v]),
                      queue'[v][i] = Graceful, NEW x \in Early(v)', Waiting(x)'
               PROVE  \E j \in 1..(i - 1) : queue'[v][j] = Msg(x)
    BY Zenon DEF Ahead
  <2>1. x \in Early(v) /\ Waiting(x) /\ m # Msg(x)
    BY <1>12 DEF m, Early
  <2>2. back(v, i) \in 1..Len(queue[v]) /\ queue[v][back(v, i)] = Graceful
    BY <1>5
  <2>3. PICK j \in 1..(back(v, i) - 1) : queue[v][j] = Msg(x)
    BY <2>1, <2>2 DEF IInv, Queues, Ahead
  <2>4. j \in 1..Len(queue[v])
    BY <2>2, <2>3, <1>3
  <2>5. v # w \/ j # 1
    BY <2>1, <2>3, <1>2
  <2>6. CASE v = w
    <3>1. j - 1 \in 1..(i - 1) /\ queue'[v][j - 1] = Msg(x)
      BY <2>3, <2>4, <2>5, <2>6, <1>6
    <3> QED BY Zenon, <3>1
  <2>7. CASE v # w
    BY <2>3, <2>4, <2>7, <1>6
  <2> QED BY <2>6, <2>7
<1>14. Told'
  <2> SUFFICES ASSUME NEW v \in Workers, Down,
                      \A i \in 1..Len(queue'[v]) : queue'[v][i] # Graceful,
                      NEW x \in Early(v)'
               PROVE  ~Waiting(x)' /\ ~Active(x)'
    BY DEF Told, Down
  <2>1. x \in Clients \cup Quics /\ home[x] = v /\ x \notin late' /\ x \in Early(v)
    BY <1>12 DEF Early
  <2>2. CASE v = w /\ m = Graceful
    <3>1. ~Waiting(x)
      BY <2>1, <2>2, <1>2 DEF IInv, Queues, Ahead, n
    <3> QED BY <2>1, <2>2, <3>1 DEF m
  <2>3. CASE v # w \/ m # Graceful
    <3>1. ASSUME NEW i \in 1..Len(queue[v]) PROVE queue[v][i] # Graceful
      <4>1. CASE v = w /\ i = 1
        BY <2>3, <4>1, <1>2
      <4>2. CASE v # w \/ i # 1
        BY ZenonT(30), <4>2, <1>6
      <4> QED BY <4>1, <4>2
    <3>2. ~Waiting(x) /\ ~Active(x)
      BY <2>1, <3>1 DEF IInv, Queues, Told
    <3> QED BY <2>1, <3>2
  <2> QED BY <2>2, <2>3
<1> QED BY Zenon, <1>4, <1>7, <1>8, <1>9, <1>10, <1>11, <1>13, <1>14 DEF Queues

-----------------------------------------------------------------------------
(* The invariant is inductive *)

LEMMA InitOK == Init => IInv
<1> SUFFICES ASSUME Init PROVE IInv
  OBVIOUS
<1>1. TypeOK
  <2>1. queue \in [Workers -> Seq(Handler)]
    BY DEF Init
  <2>2. rr \in Workers
    BY ServerAssumption DEF Init, Workers
  <2> QED BY Zenon, <2>1, <2>2 DEF Init, TypeOK, Pending, QuicLife
<1>2. \A w \in Workers : Len(queue[w]) = 0
  BY DEF Init
<1>3. Sequence /\ StillListening
  BY <1>2 DEF Init, Sequence, StillListening, Down
<1>4. Homes /\ Posted /\ Queueing /\ Once /\ Ahead /\ Told
  BY <1>2, ServerAssumption
     DEF Init, Homes, Posted, Queueing, Once, Ahead, Told, Down
<1> QED BY <1>1, <1>3, <1>4 DEF IInv, Queues

(* What leaves the queues and the connections alone, and begins no         *)
(* shutdown.                                                               *)
LEMMA ControlOK ==
  ASSUME IInv, UNCHANGED <<queue, conns>>,
         \/ start \/ stop \/ hard_stop \/ AcceptError \/ RecvError
         \/ \E q \in Quics : RecvReady(q)
         \/ accept_handler \/ on_packet
         \/ UNCHANGED vars
  PROVE  IInv'
<1>1. UNCHANGED <<queue, tcp, quic, got, home, late>>
  BY DEF conns
<1>2. Down' <=> Down
  BY DEF start, stop, hard_stop, AcceptError, RecvError, RecvReady,
         accept_handler, on_packet, vars, Down, IInv, Sequence
<1>3. Queues'
  BY <1>1, <1>2, QuietOK DEF Waiting, Active
<1>4. TypeOK'
  <2>1. CASE start
    BY <1>1, <2>1 DEF IInv, TypeOK, start, Pending
  <2>5. CASE stop
    BY <1>1, <2>5 DEF IInv, TypeOK, stop, ingress
  <2>6. CASE hard_stop \/ UNCHANGED vars
    BY <1>1, <2>6 DEF IInv, TypeOK, hard_stop, vars, ingress
  <2>2. CASE AcceptError \/ RecvError \/ \E q \in Quics : RecvReady(q)
    BY <1>1, <2>2 DEF IInv, TypeOK, AcceptError, RecvError, RecvReady, Pending
  <2>3. CASE accept_handler
    <3>1. UNCHANGED rr
      BY <1>1, <2>3 DEF IInv, TypeOK, accept_handler
    <3> QED BY <1>1, <2>3, <3>1 DEF IInv, TypeOK, accept_handler, Rearmed, Pending
  <2>4. CASE on_packet
    BY <1>1, <2>4 DEF IInv, TypeOK, on_packet, Rearmed, Pending
  <2> QED BY <2>1, <2>2, <2>3, <2>4, <2>5, <2>6
<1>5. Sequence'
  BY <1>1 DEF IInv, TypeOK, Sequence, Down, start, stop, hard_stop, AcceptError,
     RecvError, RecvReady, accept_handler, on_packet, vars, ingress, Rearmed
<1>6. StillListening'
  BY <1>1 DEF IInv, Sequence, Down, StillListening, start, stop, hard_stop,
     AcceptError, RecvError, RecvReady, accept_handler, on_packet, vars, ingress,
     Rearmed
<1> QED BY <1>3, <1>4, <1>5, <1>6 DEF IInv

LEMMA AcceptReadyOK ==
  ASSUME IInv, NEW c \in Clients, AcceptReady(c)
  PROVE  IInv'
<1>1. /\ tcp[c] = "none" /\ tcp'[c] = "accepted"
      /\ \A d \in Clients \ {c} : tcp'[d] = tcp[d]
      /\ UNCHANGED <<queue, quic, got, home, late, shut, life, stopping, recv, dgram, rr>>
      /\ accept' = "ready" /\ peer' = c
  BY DEF AcceptReady, IInv, TypeOK
<1>2. /\ \A x \in Clients \cup Quics : /\ Waiting(x)' <=> Waiting(x)
                                       /\ Active(x)' => Active(x)
      /\ \A d \in Clients : tcp'[d] \in {"none", "accepted"}
                              <=> tcp[d] \in {"none", "accepted"}
  BY <1>1 DEF Waiting, Active
<1>3. Queues'
  BY <1>1, <1>2, QuietOK DEF Down
<1>4. TypeOK'
  BY SMTT(20), <1>1 DEF AcceptReady, IInv, TypeOK, Pending
<1>5. Sequence' /\ StillListening'
  BY <1>1 DEF IInv, Sequence, Down, StillListening
<1> QED BY <1>3, <1>4, <1>5 DEF IInv

LEMMA EndsOK ==
  ASSUME IInv, NEW x \in Clients \cup Quics, Ends(x)
  PROVE  IInv'
<1>1. UNCHANGED <<queue, got, home, late, shut, life, stopping, accept, peer, recv,
                  dgram, rr>>
  BY DEF Ends, ingress
<1>2. /\ \A y \in Clients \cup Quics : /\ Waiting(y)' <=> Waiting(y)
                                       /\ Active(y)' => Active(y)
      /\ \A d \in Clients : tcp'[d] \in {"none", "accepted"}
                              <=> tcp[d] \in {"none", "accepted"}
  BY SMTT(20), ServerAssumption DEF Ends, Waiting, Active, IInv, TypeOK
<1>6. \A q \in Quics : quic[q] = "none" => quic'[q] = "none"
  BY DEF Ends, IInv, TypeOK
<1>3. Queues'
  BY <1>1, <1>2, <1>6, QuietOK DEF Down
<1>4. TypeOK'
  <2>1. /\ tcp' \in [Clients -> {"none", "accepted", "posted", "relay", "told", "gone"}]
        /\ quic' \in [Quics -> QuicLife]
        /\ \A c \in Clients : tcp[c] = "accepted" => tcp'[c] = "accepted"
    BY DEF Ends, IInv, TypeOK, QuicLife
  <2> QED BY <1>1, <2>1 DEF IInv, TypeOK
<1>5. Sequence' /\ StillListening'
  BY <1>1 DEF IInv, Sequence, Down, StillListening
<1> QED BY <1>3, <1>4, <1>5 DEF IInv

(* begin_shutdown, and the grace timer's handler. *)
LEMMA ShutdownOK ==
  ASSUME IInv, begin_shutdown \/ finalize
  PROVE  IInv'
<1>1. /\ UNCHANGED <<tcp, quic, got, home, late, life, stopping, peer, dgram, rr>>
      /\ shut # "none" /\ Down'
      /\ accept' \in {accept, "aborted"} /\ recv' \in {recv, "aborted"}
      /\ shut' \in {"draining", "finalizing"}
  BY DEF begin_shutdown, finalize, conns, ingress, Cancelled, Down
<1>2. queue' \in [Workers -> Seq(Handler)] /\ Queues'
  <2>1. CASE begin_shutdown
    <3>1. Graceful \in Handler /\ queue' = PostAll(Graceful)
      BY <2>1 DEF begin_shutdown, Handler, H, Graceful
    <3> QED BY <1>1, <3>1, PostAllOK
  <2>2. CASE finalize
    <3>1. H("force", None) \in Handler /\ queue' = PostAll(H("force", None)) /\ Down
      BY <2>2 DEF finalize, Handler, H, Down
    <3> QED BY <1>1, <3>1, PostAllOK
  <2> QED BY <2>1, <2>2
<1>3. TypeOK'
  BY <1>1, <1>2 DEF IInv, TypeOK, Pending
<1>4. Sequence' /\ StillListening'
  BY <1>1 DEF IInv, Sequence, Down, StillListening
<1> QED BY <1>2, <1>3, <1>4 DEF IInv

LEMMA NextWorkerType ==
  ASSUME TypeOK PROVE NextWorker \in Workers
<1>1. rr \in Nat /\ NWorkers \in Nat \ {0}
  BY ServerAssumption DEF TypeOK, Workers
<1>2. \A a \in Nat, b \in Nat \ {0} : (a + 1) % b \in 0..(b - 1)
  OBVIOUS
<1> QED BY <1>1, <1>2 DEF NextWorker, Workers

LEMMA AcceptHandlerOK ==
  ASSUME IInv, accept_handler
  PROVE  IInv'
<1>1. CASE UNCHANGED <<queue, conns>>
  BY <1>1, ControlOK
<1>2. CASE ~UNCHANGED <<queue, conns>>
  <2>1. /\ accept = "ready" /\ accept' = "armed" /\ rr' = NextWorker
        /\ home' = [home EXCEPT ![peer] = rr] /\ late' = Late(peer)
        /\ queue' = Hand(rr, H("tcp", peer)) /\ tcp' = [tcp EXCEPT ![peer] = "posted"]
        /\ UNCHANGED <<life, stopping, shut, recv, dgram, quic, got>>
    BY <1>2 DEF accept_handler, conns, Rearmed
  <2>2. peer \in Clients /\ tcp[peer] = "accepted" /\ rr \in Workers
    BY <2>1 DEF IInv, TypeOK
  <2>3. home[peer] = None /\ Msg(peer) = H("tcp", peer)
    BY <2>2 DEF IInv, Queues, Posted, Msg
  <2>4. /\ queue' \in [Workers -> Seq(Handler)] /\ Queues'
        /\ \A v \in Workers : \A i \in 1..Len(queue'[v]) :
             queue'[v][i] = Graceful => Down
    BY Zenon, <2>1, <2>2, <2>3, HandOverOK
  <2>5. TypeOK'
    <3>1. rr' \in Workers
      BY <2>1, NextWorkerType DEF IInv
    <3>2. /\ home' \in [Clients \cup Quics -> Workers \cup {None}]
          /\ late' \subseteq Clients \cup Quics
          /\ tcp' \in [Clients -> {"none", "accepted", "posted", "relay", "told", "gone"}]
      BY <2>1, <2>2 DEF IInv, TypeOK, Late
    <3> QED BY <2>1, <2>4, <3>1, <3>2 DEF IInv, TypeOK, Pending
  <2>6. Sequence' /\ StillListening'
    BY <2>1, <2>4 DEF IInv, Sequence, Down, StillListening
  <2> QED BY <2>4, <2>5, <2>6 DEF IInv
<1> QED BY <1>1, <1>2

LEMMA OnPacketOK ==
  ASSUME IInv, on_packet
  PROVE  IInv'
<1>1. CASE UNCHANGED <<queue, conns>>
  BY <1>1, ControlOK
<1>2. CASE ~UNCHANGED <<queue, conns>>
  <2>1. /\ recv = "ready" /\ recv' = "armed"
        /\ UNCHANGED <<life, stopping, shut, accept, peer, rr, tcp, quic, got, late>>
    BY <1>2 DEF on_packet, conns, Rearmed
  <2>2. dgram \in Quics /\ home[dgram] \in Workers \cup {None}
    BY <2>1 DEF IInv, TypeOK
  <2>3. PICK w \in Workers : /\ home[dgram] \in {None, w}
                             /\ home' = [home EXCEPT ![dgram] = w]
                             /\ queue' = Hand(w, H("packet", dgram))
    BY <1>2, <2>1, <2>2 DEF on_packet, conns
  <2>4. dgram \notin Clients /\ Msg(dgram) = H("packet", dgram)
    BY <2>2, ServerAssumption DEF Msg
  <2>5. /\ queue' \in [Workers -> Seq(Handler)] /\ Queues'
        /\ \A v \in Workers : \A i \in 1..Len(queue'[v]) :
             queue'[v][i] = Graceful => Down
    BY Zenon, <2>1, <2>2, <2>3, <2>4, HandOverOK
  <2>6. TypeOK'
    <3>1. /\ home' \in [Clients \cup Quics -> Workers \cup {None}]
          /\ late' \subseteq Clients \cup Quics
      BY <2>1, <2>2, <2>3 DEF IInv, TypeOK, Late
    <3> QED BY <2>1, <2>5, <3>1 DEF IInv, TypeOK, Pending
  <2>7. Sequence' /\ StillListening'
    BY <2>1, <2>5 DEF IInv, Sequence, Down, StillListening
  <2> QED BY <2>5, <2>6, <2>7 DEF IInv
<1> QED BY <1>1, <1>2

(* What is left to show of a worker's step. *)
LEMMA WorkerOK ==
  ASSUME IInv, NEW w \in Workers, NEW what, Take(w, what),
         tcp' \in [Clients -> {"none", "accepted", "posted", "relay", "told", "gone"}],
         quic' \in [Quics -> QuicLife],
         got' \in [Quics -> Nat],
         late \subseteq late', late' \subseteq Clients \cup Quics,
         \A q \in Quics : home[q] = None => quic'[q] = "none",
         \A c \in Clients : tcp[c] = "accepted" => tcp'[c] = "accepted",
         \A x \in Clients \cup Quics :
           /\ Waiting(x)' <=> Waiting(x) /\ Head(queue[w]) # Msg(x)
           /\ Active(x)' => \/ Active(x) \/ (Down => x \in late')
                            \/ Waiting(x) /\ Head(queue[w]) = Msg(x)
           /\ Head(queue[w]) = Graceful /\ home[x] = w => ~Active(x)',
         \A c \in Clients : tcp'[c] \in {"none", "accepted"}
                              <=> tcp[c] \in {"none", "accepted"}
  PROVE  IInv'
<1>1. /\ queue[w] # << >> /\ queue' = [queue EXCEPT ![w] = Tail(@)]
      /\ UNCHANGED <<life, stopping, shut, accept, peer, recv, dgram, rr, home>>
  BY DEF Take, ingress
<1>2. /\ queue' \in [Workers -> Seq(Handler)] /\ Queues'
      /\ \A v \in Workers : \A i \in 1..Len(queue'[v]) :
           queue'[v][i] = Graceful => Down
  BY Zenon, <1>1, TakeOK
<1>3. TypeOK'
  BY <1>1, <1>2 DEF IInv, TypeOK
<1>4. Sequence' /\ StillListening'
  BY <1>1, <1>2 DEF IInv, Sequence, Down, StillListening
<1> QED BY <1>2, <1>3, <1>4 DEF IInv

LEMMA HeadFacts ==
  ASSUME IInv, NEW w \in Workers, NEW what, Take(w, what)
  PROVE  /\ Head(queue[w]) \in Handler /\ Head(queue[w]).what = what
         /\ what = "tcp" => tcp[Head(queue[w]).who] = "posted"
<1>1. queue[w] \in Seq(Handler) /\ queue[w] # << >> /\ Head(queue[w]).what = what
  BY DEF IInv, TypeOK, Take
<1>2. Head(queue[w]) = queue[w][1] /\ queue[w][1] \in Handler /\ 1 \in 1..Len(queue[w])
  BY <1>1
<1> QED BY <1>1, <1>2 DEF IInv, Queues, Posted

LEMMA OnNewTcpSocketOK ==
  ASSUME IInv, NEW w \in Workers, on_new_tcp_socket(w)
  PROVE  IInv'
<1>1. Take(w, "tcp") /\ UNCHANGED <<quic, got, late>>
  BY DEF on_new_tcp_socket
<1>2. PICK c \in Clients : /\ Head(queue[w]).who = c /\ Head(queue[w]) = Msg(c)
                           /\ tcp[c] = "posted"
  BY <1>1, HeadFacts, HandlerFacts DEF Msg
<1>3. PICK t \in {"relay", "gone"} : tcp' = [tcp EXCEPT ![c] = t]
  BY <1>2 DEF on_new_tcp_socket
<1>4. Head(queue[w]) # Graceful
  BY <1>2, MsgFacts
<1>5. \A x \in Clients \cup Quics : Head(queue[w]) = Msg(x) <=> x = c
  BY <1>2, MsgFacts
<1>6. /\ tcp \in [Clients -> {"none", "accepted", "posted", "relay", "told", "gone"}]
      /\ quic \in [Quics -> QuicLife]
      /\ got \in [Quics -> Nat] /\ late \subseteq Clients \cup Quics
      /\ \A q \in Quics : home[q] = None => quic[q] = "none"
  BY DEF IInv, TypeOK, Queues, Posted
<1>7. \A x \in Clients \cup Quics :
        /\ Waiting(x)' <=> Waiting(x) /\ x # c
        /\ Active(x)' => Active(x) \/ (Waiting(x) /\ x = c)
  <2>1. \A d \in Clients : tcp'[d] = IF d = c THEN t ELSE tcp[d]
    BY <1>3, <1>6
  <2>2. ASSUME NEW x \in Clients
        PROVE  /\ Waiting(x)' <=> Waiting(x) /\ x # c
               /\ Active(x)' => Active(x) \/ (Waiting(x) /\ x = c)
    BY <2>1, <1>2 DEF Waiting, Active
  <2>3. ASSUME NEW x \in Quics, x \notin Clients
        PROVE  /\ Waiting(x)' <=> Waiting(x) /\ x # c
               /\ Active(x)' => Active(x)
    BY <2>3, <1>1, <1>2 DEF Waiting, Active
  <2> QED BY <2>2, <2>3
<1>8. \A d \in Clients : /\ tcp[d] = "accepted" => tcp'[d] = "accepted"
                         /\ tcp'[d] \in {"none", "accepted"}
                              <=> tcp[d] \in {"none", "accepted"}
  BY <1>2, <1>3, <1>6
<1>9. tcp' \in [Clients -> {"none", "accepted", "posted", "relay", "told", "gone"}]
  BY <1>3, <1>6
<1> QED BY SMTT(20), <1>1, <1>4, <1>5, <1>6, <1>7, <1>8, <1>9, WorkerOK

LEMMA DeliverPacketOK ==
  ASSUME IInv, NEW w \in Workers, deliver_packet(w)
  PROVE  IInv'
<1>1. Take(w, "packet") /\ UNCHANGED tcp
  BY DEF deliver_packet
<1>2. PICK q \in Quics : /\ Head(queue[w]).who = q /\ Head(queue[w]) = Msg(q)
                         /\ q \notin Clients /\ q # None
  BY <1>1, HeadFacts, HandlerFacts, ServerAssumption DEF Msg
<1>3. got' = [got EXCEPT ![q] = IF quic[q] \in {"live", "goaway"}
                                THEN (@ + 1) % Needed ELSE @]
  BY Zenon, <1>2 DEF deliver_packet
<1>4. PICK new \in Established(quic[q]) :
        /\ quic' = [quic EXCEPT ![q] = new]
        /\ late' = IF new = "live" /\ quic[q] # "live" THEN Late(q) ELSE late
  BY Zenon, <1>2 DEF deliver_packet
<1>5. /\ Head(queue[w]) # Graceful
      /\ \A x \in Clients \cup Quics : Head(queue[w]) = Msg(x) <=> x = q
  BY <1>2, MsgFacts
<1>6. /\ tcp \in [Clients -> {"none", "accepted", "posted", "relay", "told", "gone"}]
      /\ quic \in [Quics -> QuicLife]
      /\ got \in [Quics -> Nat] /\ late \subseteq Clients \cup Quics
      /\ \A p \in Quics : home[p] = None => quic[p] = "none"
  BY DEF IInv, TypeOK, Queues, Posted
<1>7. new \in QuicLife
  BY <1>4, <1>6 DEF Established, QuicLife
<1>8. /\ late \subseteq late' /\ late' \subseteq Clients \cup Quics
      /\ Down /\ new = "live" /\ quic[q] # "live" => q \in late'
  BY <1>4, <1>6 DEF Late, Down
<1>9. /\ \A p \in Quics : quic'[p] = IF p = q THEN new ELSE quic[p]
      /\ quic' \in [Quics -> QuicLife]
  BY <1>4, <1>6, <1>7
<1>10. \A p \in Quics : home[p] = None => quic'[p] = "none"
  <2>1. queue[w] \in Seq(Handler) /\ queue[w] # << >>
    BY <1>1 DEF IInv, TypeOK, Take
  <2>2. Head(queue[w]) = queue[w][1] /\ 1 \in 1..Len(queue[w])
    BY <2>1
  <2>3. home[q] = w /\ w # None
    BY <1>2, <2>2, ServerAssumption DEF IInv, Queues, Homes
  <2> QED BY <2>3, <1>6, <1>9
<1>11. ASSUME NEW x \in Clients \cup Quics
       PROVE  /\ Waiting(x)' <=> Waiting(x) /\ Head(queue[w]) # Msg(x)
              /\ Active(x)' => Active(x) \/ (Down => x \in late')
  <2>1. CASE x \in Clients
    BY <1>1, <1>2, <1>5, <2>1 DEF Waiting, Active
  <2>2. CASE x \in Quics /\ x \notin Clients
    BY <1>8, <1>9, <2>2 DEF Waiting, Active
  <2> QED BY <2>1, <2>2
<1>12. got' \in [Quics -> Nat]
  <2>1. \A a \in Nat, b \in Nat \ {0} : (a + 1) % b \in Nat
    OBVIOUS
  <2>2. (got[q] + 1) % Needed \in Nat
    BY <2>1, <1>6, ServerAssumption
  <2> QED BY <2>2, <1>3, <1>6
<1> HIDE DEF Waiting, Active
<1> QED BY <1>1, <1>5, <1>6, <1>8, <1>9, <1>10, <1>11, <1>12, WorkerOK

LEMMA GracefulShutdownOK ==
  ASSUME IInv, NEW w \in Workers, graceful_shutdown(w) \/ force_close_quic(w)
  PROVE  IInv'
<1>1. PICK what \in {"graceful", "force"} :
        /\ Take(w, what) /\ UNCHANGED <<got, late>>
        /\ what = "graceful" <=> graceful_shutdown(w)
        /\ what = "force" => force_close_quic(w)
  BY DEF graceful_shutdown, force_close_quic, Take
<1>2. Head(queue[w]) \in Handler /\ Head(queue[w]).what = what
  BY <1>1, HeadFacts
<1>3. /\ \A x \in Clients \cup Quics : Head(queue[w]) # Msg(x)
      /\ Head(queue[w]) = Graceful <=> what = "graceful"
  BY <1>2, HandlerFacts DEF Msg, H
<1>4. /\ tcp \in [Clients -> {"none", "accepted", "posted", "relay", "told", "gone"}]
      /\ quic \in [Quics -> QuicLife]
      /\ got \in [Quics -> Nat] /\ late \subseteq Clients \cup Quics
      /\ \A q \in Quics : home[q] = None => quic[q] = "none"
  BY DEF IInv, TypeOK, Queues, Posted
<1>5. /\ tcp' \in [Clients -> {"none", "accepted", "posted", "relay", "told", "gone"}]
      /\ quic' \in [Quics -> QuicLife]
  BY <1>1, <1>4 DEF graceful_shutdown, force_close_quic, QuicLife
<1>6. \A d \in Clients : /\ tcp[d] = "accepted" => tcp'[d] = "accepted"
                         /\ tcp'[d] \in {"none", "accepted"}
                              <=> tcp[d] \in {"none", "accepted"}
  BY <1>1, <1>4 DEF graceful_shutdown, force_close_quic
<1>7. ASSUME NEW x \in Clients \cup Quics
      PROVE  /\ Waiting(x)' <=> Waiting(x)
             /\ Active(x)' => Active(x)
             /\ what = "graceful" /\ home[x] = w => ~Active(x)'
  BY <1>1, <1>4 DEF graceful_shutdown, force_close_quic, Waiting, Active
<1>8. \A x \in Clients \cup Quics :
        /\ Waiting(x)' <=> Waiting(x) /\ Head(queue[w]) # Msg(x)
        /\ Active(x)' => \/ Active(x) \/ (Down => x \in late')
                         \/ Waiting(x) /\ Head(queue[w]) = Msg(x)
        /\ Head(queue[w]) = Graceful /\ home[x] = w => ~Active(x)'
  BY <1>3, <1>7
<1>9. Take(w, what) /\ got' \in [Quics -> Nat] /\ late' = late
  BY <1>1, <1>4
<1>10. \A q \in Quics : home[q] = None => quic'[q] = "none"
  BY <1>1, <1>4 DEF graceful_shutdown, force_close_quic
<1> QED BY <1>4, <1>5, <1>6, <1>8, <1>9, <1>10, WorkerOK

LEMMA StepOK == IInv /\ [Next]_vars => IInv'
<1> SUFFICES ASSUME IInv, [Next]_vars PROVE IInv'
  OBVIOUS
<1>1. CASE start \/ stop \/ hard_stop \/ AcceptError \/ RecvError
           \/ (\E q \in Quics : RecvReady(q)) \/ UNCHANGED vars
  <2>1. UNCHANGED <<queue, conns>>
    BY <1>1 DEF start, stop, hard_stop, AcceptError, RecvError, RecvReady, vars, conns
  <2> QED BY <1>1, <2>1, ControlOK
<1>2. CASE begin_shutdown \/ finalize
  BY <1>2, ShutdownOK
<1>3. CASE \E c \in Clients : AcceptReady(c)
  BY <1>3, AcceptReadyOK
<1>4. CASE accept_handler \/ on_packet
  BY <1>4, AcceptHandlerOK, OnPacketOK
<1>5. CASE \E w \in Workers : on_new_tcp_socket(w) \/ deliver_packet(w)
  BY <1>5, OnNewTcpSocketOK, DeliverPacketOK
<1>6. CASE \E w \in Workers : graceful_shutdown(w) \/ force_close_quic(w)
  BY <1>6, GracefulShutdownOK
<1>7. CASE \E x \in Clients \cup Quics : Ends(x)
  BY <1>7, EndsOK
<1> QED BY <1>1, <1>2, <1>3, <1>4, <1>5, <1>6, <1>7 DEF Next

LEMMA Invariance == Spec => []IInv
<1> QED BY InitOK, StepOK, PTL DEF Spec

-----------------------------------------------------------------------------
(* The properties *)

LEMMA QueuedFacts ==
  ASSUME IInv, NEW w \in Workers
  PROVE  /\ DOMAIN queue[w] = 1..Len(queue[w])
         /\ \A h : h \in Queued(w) <=> \E i \in 1..Len(queue[w]) : queue[w][i] = h
<1>1. DOMAIN queue[w] = 1..Len(queue[w])
  BY ElementType DEF IInv
<1> QED BY <1>1 DEF Queued

(* Whatever the interleaving of accepts, datagrams and workers, a socket   *)
(* is posted to exactly the worker that keeps it, and the datagrams of a   *)
(* QUIC connection follow its first one.                                   *)
THEOREM EveryConnectionHasOneHome == Spec => []OneHome
<1>1. IInv => OneHome
  <2> SUFFICES ASSUME IInv PROVE OneHome
    OBVIOUS
  <2>1. \A w \in Workers : \A i \in DOMAIN queue[w] :
          queue[w][i].who # None => home[queue[w][i].who] = w
    BY QueuedFacts DEF IInv, Queues, Homes
  <2>2. ASSUME NEW c \in Clients, tcp[c] = "posted"
        PROVE  \E w \in Workers : H("tcp", c) \in Queued(w)
    <3>1. home[c] \in Workers
      BY Zenon, <2>2 DEF IInv, TypeOK, Queues, Posted
    <3>2. PICK i \in 1..Len(queue[home[c]]) : queue[home[c]][i] = H("tcp", c)
      BY <2>2, <3>1, ServerAssumption DEF IInv, Queues, Queueing, Waiting, Msg
    <3> QED BY <3>1, <3>2, QueuedFacts
  <2>3. ASSUME NEW c \in Clients, NEW w \in Workers, H("tcp", c) \in Queued(w)
        PROVE  tcp[c] = "posted"
    <3>1. PICK i \in 1..Len(queue[w]) : queue[w][i] = H("tcp", c)
      BY <2>3, QueuedFacts
    <3> QED BY <3>1 DEF IInv, Queues, Posted, H
  <2> QED BY <2>1, <2>2, <2>3 DEF OneHome
<1> QED BY <1>1, Invariance, PTL

(* Handlers posted to an io_context run in order, so graceful_shutdown     *)
(* reaches the relay of every socket that was handed over before           *)
(* begin_shutdown, run or not yet run, and every QUIC session that         *)
(* on_new_conn_cb had made by then.                                        *)
THEOREM ShutdownReachesEarlyOnes == Spec => []EarlyOnesTold
<1>1. IInv => EarlyOnesTold
  <2> SUFFICES ASSUME IInv, NEW w \in Workers, shut \in {"draining", "finalizing"},
                      H("graceful", None) \notin Queued(w),
                      NEW x \in {y \in DOMAIN home : home[y] = w} \ late
               PROVE  IF x \in Clients THEN tcp[x] \notin {"posted", "relay"}
                                       ELSE quic[x] # "live"
    BY DEF EarlyOnesTold
  <2>1. Down /\ \A i \in 1..Len(queue[w]) : queue[w][i] # Graceful
    BY QueuedFacts DEF Down, Graceful
  <2>2. x \in Early(w)
    BY DEF IInv, TypeOK, Early
  <2>3. ~Waiting(x) /\ ~Active(x)
    BY <2>1, <2>2 DEF IInv, Queues, Told
  <2> QED BY <2>3 DEF Waiting, Active
<1> QED BY <1>1, Invariance, PTL

(* Until begin_shutdown cancels them, the accept loop and the receive loop *)
(* always have an operation pending, whatever errors they have met.        *)
THEOREM LoopsGoOn == Spec => []StillListening
<1>1. IInv => StillListening
  BY DEF IInv
<1> QED BY <1>1, Invariance, PTL

=============================================================================
