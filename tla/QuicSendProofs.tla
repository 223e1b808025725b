--------------------------- MODULE QuicSendProofs ---------------------------
(***************************************************************************)
(* Proofs about the output of the QUIC engines, for every set of workers   *)
(* and every bound.  First QuicSend, for batches of any length: the count  *)
(* that send_specs returns, what lsquic keeps, and when it forgets a       *)
(* datagram that was not sent.  Then the server (QuicOutput, Inv): no      *)
(* retry is lost.  Then the client (QuicClient, ClientInv): the receive    *)
(* loops, that nothing is sent without a socket, and that output which     *)
(* would have blocked is watched for.                                      *)
(***************************************************************************)
EXTENDS QuicOutput, QuicClient, FiniteSetTheorems, TLAPS

(* The count that send_specs returns is at most the length of the batch. *)
LEMMA SentCount ==
  ASSUME NEW m \in Nat, NEW r \in [1..m -> {"sent", "again", "error"}]
  PROVE  send_specs(r) \in 0..m /\ IsFiniteSet({i \in DOMAIN r : r[i] = "sent"})
<1> DEFINE out == {i \in DOMAIN r : r[i] = "sent"}
<1>1. out \subseteq 1..m /\ IsFiniteSet(1..m) /\ Cardinality(1..m) = m
  BY FS_Interval
<1>2. IsFiniteSet(out) /\ Cardinality(out) <= m /\ Cardinality(out) \in Nat
  BY <1>1, FS_Subset, FS_CardinalityType
<1> QED BY <1>2 DEF send_specs

(* Without a gap the datagrams that were sent include the prefix of that   *)
(* length: a missing one would leave too few before it.                    *)
LEMMA NoGapPrefix ==
  ASSUME NEW m \in Nat, NEW r \in [1..m -> {"sent", "again", "error"}],
         ~\E i, j \in DOMAIN r : i < j /\ r[i] # "sent" /\ r[j] = "sent",
         NEW k \in 1..send_specs(r)
  PROVE  k \in DOMAIN r /\ r[k] = "sent"
<1> DEFINE out == {i \in DOMAIN r : r[i] = "sent"}
<1>0. send_specs(r) \in 0..m
  BY Zenon, SentCount
<1>1. send_specs(r) \in 0..m /\ k \in 1..m /\ k <= send_specs(r)
  BY <1>0
<1>2. SUFFICES ASSUME r[k] # "sent" PROVE FALSE
  BY <1>1
<1>3. out \subseteq 1..k - 1
  BY <1>1, <1>2
<1>4. IsFiniteSet(1..k - 1) /\ Cardinality(1..k - 1) = k - 1
  <2> DEFINE b == k - 1
  <2>1. b \in Nat /\ 1 \in Int
    BY <1>1
  <2> HIDE DEF b
  <2>2. IsFiniteSet(1..b) /\ Cardinality(1..b) = IF 1 > b THEN 0 ELSE b - 1 + 1
    BY <2>1, FS_Interval
  <2> QED BY <2>1, <2>2 DEF b
<1>5. Cardinality(out) <= k - 1
  BY <1>3, <1>4, FS_Subset
<1> QED BY <1>1, <1>5 DEF send_specs

(* What lsquic keeps is part of the batch. *)
LEMMA KeptPart ==
  ASSUME NEW q \in Seq(Datagram), NEW L, NEW r \in Results(q, L),
         NEW i \in DOMAIN Kept(q, r).unsent
  PROVE  \E j \in DOMAIN q : Kept(q, r).unsent[i] = q[j]
<1>1. Len(q) \in Nat /\ r \in [1..Len(q) -> {"sent", "again", "error"}]
  BY DEF Results
<1>2. send_specs(r) \in 0..Len(q)
  BY Zenon, <1>1, SentCount
<1>3. Kept(q, r).unsent = SubSeq(q, send_specs(r) + 1, Len(q))
  BY Zenon DEF Kept
<1>4. /\ i \in 1..Len(q) - send_specs(r)
      /\ Kept(q, r).unsent[i] = q[send_specs(r) + i]
  BY <1>1, <1>2, <1>3
<1>5. send_specs(r) + i \in DOMAIN q
  BY <1>1, <1>2, <1>4
<1> QED BY <1>4, <1>5

(* What lsquic keeps of a batch, and what the log says of it. *)
LEMMA KeptType ==
  ASSUME NEW q \in Seq(Datagram), NEW L \in Log, NEW r \in Results(q, L)
  PROVE  Kept(q, r) \in Queue /\ (Kept(q, r).again => Blocked(r))
<1>1. Len(q) \in Nat /\ r \in [1..Len(q) -> {"sent", "again", "error"}]
  BY DEF Results
<1>2. send_specs(r) \in 0..Len(q)
  BY Zenon, <1>1, SentCount
<1>3. SubSeq(q, send_specs(r) + 1, Len(q)) \in Seq(Datagram)
  BY <1>1, <1>2
<1>4. (send_specs(r) < Len(q)) \in BOOLEAN
  BY <1>1, <1>2
<1>5. (send_specs(r) < Len(q) /\ Blocked(r)) \in BOOLEAN
  BY Zenon
<1> QED BY <1>3, <1>4, <1>5, Zenon DEF Kept, Queue

LEMMA LoggedType ==
  ASSUME NEW q \in Seq(Datagram), NEW L \in Log, NEW r \in Results(q, L)
  PROVE  Logged(L, q, r) \in Log
<1>1. Len(q) \in Nat /\ r \in [1..Len(q) -> {"sent", "again", "error"}]
  BY DEF Results
<1>2. send_specs(r) \in 0..Len(q)
  BY Zenon, <1>1, SentCount
<1>3. \A S \in SUBSET (1..Len(q)) : Ids(q, S) \subseteq Nat
  <2>1. \A i \in 1..Len(q) : q[i] \in Datagram
    OBVIOUS
  <2>2. \A i \in 1..Len(q) : q[i].id \in Nat
    BY <2>1 DEF Datagram
  <2> QED BY <2>2 DEF Ids
<1>4. Ids(q, {i \in DOMAIN r : r[i] = "sent"}) \subseteq Nat
      /\ Ids(q, 1..send_specs(r)) \subseteq Nat /\ Ids(q, DOMAIN r) \subseteq Nat
  <2>1. 1..send_specs(r) \subseteq 1..Len(q)
    BY <1>1, <1>2
  <2> QED BY Zenon, <1>1, <1>3, <2>1
<1> DEFINE sent == L.sent \cup Ids(q, {i \in DOMAIN r : r[i] = "sent"})
           lost == L.lost \cup (Ids(q, 1..send_specs(r)) \ sent)
           gap == L.gap \/ \E i, j \in DOMAIN r :
                              i < j /\ r[i] # "sent" /\ r[j] = "sent"
           hit == IF Some(r, "error") THEN L.hit \cup Ids(q, DOMAIN r) ELSE L.hit
           errors == IF Some(r, "error") THEN L.errors + 1 ELSE L.errors
<1>5. sent \in SUBSET Nat /\ lost \in SUBSET Nat
  BY <1>4 DEF Log
<1>6. gap \in BOOLEAN
  BY Zenon
<1>7. hit \in SUBSET Nat /\ errors \in Nat
  BY <1>4 DEF Log
<1>8. Logged(L, q, r) = [L EXCEPT !.sent = sent, !.lost = lost, !.gap = gap,
                                  !.errors = errors, !.hit = hit]
  BY Zenon DEF Logged
<1> HIDE DEF sent, lost, gap, hit, errors
<1> QED BY Zenon, <1>5, <1>6, <1>7, <1>8 DEF Log

LEMMA LoggedGap ==
  ASSUME NEW q \in Seq(Datagram), NEW L \in Log, NEW r \in Results(q, L),
         L.lost # {} => L.gap
  PROVE  Logged(L, q, r).lost # {} => Logged(L, q, r).gap
<1> DEFINE out == {i \in DOMAIN r : r[i] = "sent"}
           gap == \E i, j \in DOMAIN r : i < j /\ r[i] # "sent" /\ r[j] = "sent"
<1>1. Len(q) \in Nat /\ r \in [1..Len(q) -> {"sent", "again", "error"}]
  BY DEF Results
<1>2. CASE gap
  BY Zenon, <1>2 DEF Logged, Log
<1>3. CASE ~gap
  <2>1. 1..send_specs(r) \subseteq out
    BY <1>1, <1>3, NoGapPrefix
  <2>2. Ids(q, 1..send_specs(r)) \subseteq Ids(q, out)
    BY <2>1 DEF Ids
  <2>3. Logged(L, q, r).lost = L.lost /\ (L.gap => Logged(L, q, r).gap)
    BY <2>2 DEF Logged, Log
  <2> QED BY <2>3
<1> QED BY <1>2, <1>3

(* New datagrams. *)
LEMMA NewsType ==
  ASSUME NEW L \in Log, NEW peers \in SUBSET Fam, NEW new \in News(L, peers)
  PROVE  /\ new \in Seq(Datagram) /\ Made(L, new) \in Log
         /\ Made(L, new).lost = L.lost /\ Made(L, new).gap = L.gap
         /\ \A i \in DOMAIN new : new[i].fam \in peers
<1>0. PICK k \in 0..2 :
        new \in {[i \in 1..k |-> [id |-> L.made + i, fam |-> fs[i]]] :
                  fs \in [1..k -> peers]}
  BY Zenon DEF News
<1>1. PICK fs \in [1..k -> peers] :
        new = [i \in 1..k |-> [id |-> L.made + i, fam |-> fs[i]]]
  BY <1>0, Zenon
<1>2. \A i \in 1..k : [id |-> L.made + i, fam |-> fs[i]] \in Datagram
  BY <1>1 DEF Datagram, Log
<1>3. new \in Seq(Datagram)
  BY <1>1, <1>2
<1>4. Len(new) \in Nat
  BY <1>3
<1>5. L.made + Len(new) \in Nat
  BY <1>4 DEF Log
<1>6. Made(L, new) = [L EXCEPT !.made = L.made + Len(new)]
  BY DEF Made
<1> QED BY Zenon, <1>1, <1>3, <1>5, <1>6 DEF Log

-----------------------------------------------------------------------------
(* QuicOutput.  RetryOnItsWay is inductive together with the types. *)

Inv == TypeOK /\ RetryOnItsWay /\ LostBehindGapOnly

LEMMA InitOK == Init => Inv
<1> SUFFICES ASSUME Init PROVE Inv
  OBVIOUS
<1>1. NoQueue \in Queue /\ ~NoQueue.again /\ NoLog \in Log /\ NoLog.lost = {}
  BY DEF NoQueue, Queue, NoLog, Log
<1>2. \A w \in Workers : eng[w] = [lsq |-> NoQueue, flush |-> 0]
  BY DEF Init
<1>3. ing \in Ingress
  <2>1. PICK b \in BOOLEAN :
          ing = [open6 |-> b, running |-> TRUE, watch |-> [f \in Fam |-> "idle"],
                 posts |-> 0, cut |-> FALSE]
    BY Zenon DEF Init
  <2>2. [f \in Fam |-> "idle"] \in [Fam -> {"idle", "armed", "ready", "aborted"}]
    OBVIOUS
  <2> QED BY <2>1, <2>2 DEF Ingress
<1>4. eng \in [Workers -> Engine]
  BY <1>1 DEF Init, Engine
<1>5. TypeOK
  BY <1>1, <1>3, <1>4 DEF TypeOK, Init
<1>6. RetryOnItsWay
  BY <1>1, <1>2 DEF RetryOnItsWay
<1> QED BY <1>1, <1>5, <1>6 DEF Inv, LostBehindGapOnly, Init

(* A batch is sent: whoever is held back now has reported it. *)
LEMMA PacketsOutOK ==
  ASSUME Inv, NEW w \in Workers, NEW q \in Seq(Datagram), NEW L \in Log,
         L.lost = log.lost, L.gap = log.gap, NEW n \in Nat,
         packets_out(w, q, L, n)
  PROVE  Inv'
<1>1. PICK r \in Results(q, L) :
        /\ eng' = [eng EXCEPT ![w] = [lsq |-> Kept(q, r), flush |-> n]]
        /\ ing' = notify_tx_blocked(r)
        /\ log' = Logged(L, q, r)
  BY Zenon DEF packets_out
<1>2. ing \in Ingress /\ eng \in [Workers -> Engine] /\ ing.posts \in Nat
  BY DEF Inv, TypeOK, Ingress
<1>3. /\ ing' \in Ingress /\ ing'.watch = ing.watch /\ ing'.cut = ing.cut
      /\ ing'.posts >= ing.posts /\ (Blocked(r) => ing'.posts > 0)
      /\ ing'.posts \in Nat
  BY <1>1, <1>2 DEF notify_tx_blocked, Ingress
<1>4. Kept(q, r) \in Queue /\ (Kept(q, r).again => Blocked(r))
  BY KeptType
<1>5. /\ eng' \in [Workers -> Engine] /\ eng'[w].lsq = Kept(q, r)
      /\ \A v \in Workers \ {w} : eng'[v] = eng[v]
  <2>1. [lsq |-> Kept(q, r), flush |-> n] \in Engine
    BY <1>4 DEF Engine
  <2> QED BY <1>1, <1>2, <2>1
<1>6. TypeOK'
  BY <1>1, <1>3, <1>5, LoggedType DEF TypeOK
<1>7. RetryOnItsWay'
  <2> SUFFICES ASSUME NEW v \in Workers, eng'[v].lsq.again
               PROVE  \/ eng'[v].flush > 0 \/ ing'.posts > 0 \/ ing'.cut
                      \/ \E f \in Fam : ing'.watch[f] # "idle"
    BY DEF RetryOnItsWay
  <2>1. CASE v = w
    BY <2>1, <1>3, <1>4, <1>5
  <2>2. CASE v # w
    BY <2>2, <1>2, <1>3, <1>5 DEF Inv, RetryOnItsWay
  <2> QED BY <2>1, <2>2
<1>8. LostBehindGapOnly'
  BY <1>1, LoggedGap DEF Inv, LostBehindGapOnly
<1> QED BY <1>6, <1>7, <1>8 DEF Inv

LEMMA ProcessConnsOK ==
  ASSUME Inv, NEW w \in Workers, process_conns(w) PROVE Inv'
<1>1. PICK new \in News(log, {f \in Fam : Open(f)}) :
        LET q == eng[w].lsq.unsent \o new IN
        \/ packets_out(w, q, Made(log, new), eng[w].flush)
        \/ /\ eng[w].lsq.held
           /\ eng' = [eng EXCEPT ![w].lsq.unsent = q]
           /\ log' = Made(log, new) /\ UNCHANGED ing
  BY Zenon DEF process_conns
<1> DEFINE q == eng[w].lsq.unsent \o new
<1>2. /\ new \in Seq(Datagram) /\ Made(log, new) \in Log
      /\ Made(log, new).lost = log.lost /\ Made(log, new).gap = log.gap
  BY NewsType DEF Inv, TypeOK
<1>3. eng[w] \in Engine /\ eng \in [Workers -> Engine]
  BY DEF Inv, TypeOK
<1>4. eng[w].lsq \in Queue /\ eng[w].flush \in Nat
  BY <1>3 DEF Engine
<1>5. eng[w].lsq.unsent \in Seq(Datagram)
  BY <1>4 DEF Queue
<1>6. q \in Seq(Datagram)
  BY <1>2, <1>5
<1> HIDE DEF q
<1>7. CASE packets_out(w, q, Made(log, new), eng[w].flush)
  BY <1>2, <1>4, <1>6, <1>7, PacketsOutOK
<1>8. CASE /\ eng' = [eng EXCEPT ![w].lsq.unsent = q]
           /\ log' = Made(log, new) /\ UNCHANGED ing
  <2>1. [eng[w].lsq EXCEPT !.unsent = q] \in Queue
    BY <1>4, <1>6 DEF Queue
  <2>2. /\ eng'[w] \in Engine /\ eng'[w].lsq.again = eng[w].lsq.again
        /\ eng'[w].flush = eng[w].flush
    BY Zenon, <2>1, <1>3, <1>4, <1>8 DEF Engine, Queue
  <2>3. eng' \in [Workers -> Engine] /\ \A v \in Workers \ {w} : eng'[v] = eng[v]
    BY <2>2, <1>3, <1>8
  <2>4. TypeOK'
    BY <2>3, <1>2, <1>8 DEF Inv, TypeOK
  <2>5. RetryOnItsWay'
    BY <2>2, <2>3, <1>8 DEF Inv, RetryOnItsWay
  <2>6. LostBehindGapOnly'
    BY <1>2, <1>8 DEF Inv, LostBehindGapOnly
  <2> QED BY <2>4, <2>5, <2>6 DEF Inv
<1> QED BY <1>1, <1>7, <1>8 DEF q

LEMMA FlushOK ==
  ASSUME Inv, NEW w \in Workers, flush_unsent_packets(w) PROVE Inv'
<1>1. eng[w] \in Engine /\ log \in Log
  BY DEF Inv, TypeOK
<1>2. eng[w].lsq \in Queue /\ eng[w].flush \in Nat
  BY <1>1 DEF Engine
<1>3. eng[w].lsq.unsent \in Seq(Datagram) /\ eng[w].flush - 1 \in Nat
  BY <1>2 DEF Queue, flush_unsent_packets
<1> QED BY <1>1, <1>3, PacketsOutOK DEF flush_unsent_packets

(* The ingress thread: the post becomes a watch, the watch a handler that  *)
(* asks every worker.                                                      *)
LEMMA IngressOK ==
  ASSUME Inv, \/ arm_send_retry \/ stop
              \/ \E f \in Fam : Drains(f) \/ on_writable(f)
  PROVE  Inv'
<1> DEFINE W == [Fam -> {"idle", "armed", "ready", "aborted"}]
<1>1. /\ ing \in Ingress /\ ing.watch \in W /\ ing.posts \in Nat
      /\ ing.cut \in BOOLEAN /\ eng \in [Workers -> Engine] /\ log \in Log
  BY DEF Inv, TypeOK, Ingress
<1>2. LostBehindGapOnly' /\ log' = log
  BY Zenon DEF Inv, LostBehindGapOnly, arm_send_retry, stop, Drains, on_writable
<1>3. CASE arm_send_retry
  <2>1. /\ eng' = eng /\ ing.posts > 0
        /\ ing' = [ing EXCEPT !.posts = ing.posts - 1,
                     !.watch = [f \in Fam |->
                       IF ing.watch[f] = "idle" /\ Open(f) THEN "armed"
                       ELSE ing.watch[f]]]
    BY <1>3 DEF arm_send_retry
  <2> DEFINE a == [f \in Fam |-> IF ing.watch[f] = "idle" /\ Open(f) THEN "armed"
                                ELSE ing.watch[f]]
  <2>a. a \in W /\ a["v4"] # "idle"
    BY <1>1 DEF Open, Fam
  <2>b. ing' = [ing EXCEPT !.posts = ing.posts - 1, !.watch = a] /\ ing.posts - 1 \in Nat
    BY <2>1, <1>1
  <2> HIDE DEF a
  <2>2. ing'.watch \in W /\ ing'.watch["v4"] # "idle" /\ ing' \in Ingress
    BY Zenon, <2>a, <2>b, <1>1 DEF Ingress
  <2>3. RetryOnItsWay'
    BY <2>2 DEF RetryOnItsWay, Fam
  <2> QED BY <2>1, <2>2, <2>3, <1>1, <1>2 DEF Inv, TypeOK
<1>4. CASE stop
  <2>1. /\ eng' = eng
        /\ ing' = [ing EXCEPT !.running = FALSE,
                     !.watch = [f \in Fam |-> IF ing.watch[f] = "armed"
                                             THEN "aborted" ELSE ing.watch[f]]]
    BY <1>4 DEF stop
  <2>2. /\ ing'.watch \in W /\ ing' \in Ingress
        /\ ing'.posts = ing.posts /\ ing'.cut = ing.cut
        /\ \A f \in Fam : ing.watch[f] # "idle" => ing'.watch[f] # "idle"
    BY Zenon, <2>1, <1>1 DEF Ingress
  <2>3. RetryOnItsWay'
    BY <2>1, <2>2 DEF Inv, RetryOnItsWay
  <2> QED BY <2>1, <2>2, <2>3, <1>1, <1>2 DEF Inv, TypeOK
<1>5. ASSUME NEW f \in Fam, Drains(f) PROVE Inv'
  <2>1. eng' = eng /\ ing' = [ing EXCEPT !.watch[f] = "ready"]
    BY <1>5 DEF Drains
  <2>2. /\ ing' \in Ingress /\ ing'.watch[f] # "idle"
    BY <2>1, <1>1 DEF Ingress
  <2>3. RetryOnItsWay'
    BY <2>2 DEF RetryOnItsWay
  <2> QED BY <2>1, <2>2, <2>3, <1>1, <1>2 DEF Inv, TypeOK
<1>6. ASSUME NEW f \in Fam, on_writable(f) PROVE Inv'
  <2>1. /\ ing.watch[f] \in {"ready", "aborted"}
        /\ ing' = [ing EXCEPT !.watch[f] = "idle",
                              !.cut = ing.cut \/ ing.watch[f] = "aborted"]
        /\ eng' = IF ing.watch[f] = "aborted" THEN eng
                  ELSE [w \in Workers |-> [eng[w] EXCEPT !.flush = @ + 1]]
    BY Zenon, <1>6 DEF on_writable
  <2>2. (ing.cut \/ ing.watch[f] = "aborted") \in BOOLEAN
    BY Zenon
  <2>3. ing' \in Ingress
    BY Zenon, <2>1, <2>2, <1>1 DEF Ingress
  <2>4. CASE ing.watch[f] = "aborted"
    <3>1. ing'.cut /\ eng' = eng
      BY Zenon, <2>1, <2>4, <1>1 DEF Ingress
    <3>2. RetryOnItsWay'
      BY <3>1 DEF RetryOnItsWay
    <3> QED BY <3>1, <3>2, <2>3, <1>1, <1>2 DEF Inv, TypeOK
  <2>5. CASE ing.watch[f] = "ready"
    <3>1. eng' = [w \in Workers |-> [eng[w] EXCEPT !.flush = @ + 1]]
      BY <2>1, <2>5
    <3>2. \A w \in Workers : eng'[w] \in Engine /\ eng'[w].flush > 0
      BY <3>1, <1>1 DEF Engine
    <3>3. RetryOnItsWay' /\ eng' \in [Workers -> Engine]
      BY <3>1, <3>2 DEF RetryOnItsWay
    <3> QED BY <3>3, <2>3, <1>1, <1>2 DEF Inv, TypeOK
  <2> QED BY <2>1, <2>4, <2>5
<1> QED BY <1>3, <1>4, <1>5, <1>6

LEMMA StepOK == Inv /\ [Next]_vars => Inv'
<1> SUFFICES ASSUME Inv, [Next]_vars PROVE Inv'
  OBVIOUS
<1>1. CASE UNCHANGED vars
  BY <1>1 DEF vars, Inv, TypeOK, RetryOnItsWay, LostBehindGapOnly
<1> QED BY <1>1, ProcessConnsOK, FlushOK, IngressOK DEF Next

(* For any number of workers: output that a full socket held back has a    *)
(* retry on its way, unless stop() cancelled the watch.                    *)
THEOREM RetryTheorem == Spec => []RetryOnItsWay
<1>1. Inv => RetryOnItsWay
  BY DEF Inv
<1> QED BY InitOK, StepOK, <1>1, PTL DEF Spec

(* lsquic forgets an unsent datagram only behind a gap, whatever is sent,  *)
(* blocks or fails, and in batches of any length: a count without a gap is *)
(* that of a prefix.                                                       *)
THEOREM GapTheorem == Spec => []LostBehindGapOnly
<1>1. Inv => LostBehindGapOnly
  BY DEF Inv
<1> QED BY InitOK, StepOK, <1>1, PTL DEF Spec

-----------------------------------------------------------------------------
(* QuicClient.  A family with peers has a socket (PeersHaveSockets). *)

Watches == [Fam -> {"idle", "armed", "ready"}]
PeersHaveSockets == "v6" \in fams => open6

ClientInv == /\ ClientTypeOK /\ EverySocketReceives
       /\ PeersHaveSockets /\ NothingUnreachable /\ HeldIsWatched

LEMMA ClientInitOK == ClientInit => ClientInv
<1> SUFFICES ASSUME ClientInit PROVE ClientInv
  OBVIOUS
<1>1. NoQueue \in Queue /\ ~NoQueue.again /\ NoLog \in Log /\ DOMAIN NoQueue.unsent = {}
  BY DEF NoQueue, Queue, NoLog, Log
<1>2. ClientTypeOK
  <2>1. 0 \in 0..MaxConnects /\ 0 \in 0..MaxReceived
    BY ClientAssumption
  <2>2. count \in [connects : 0..MaxConnects, received : 0..MaxReceived]
    BY <2>1 DEF ClientInit
  <2>3. recv \in [Fam -> 0..1] /\ watch \in [Fam -> {"idle", "armed", "ready"}]
    BY DEF ClientInit
  <2> QED BY Zenon, <1>1, <2>2, <2>3 DEF ClientInit, ClientTypeOK
<1>3. EverySocketReceives
  BY DEF ClientInit, EverySocketReceives
<1> QED BY <1>1, <1>2, <1>3 DEF ClientInit, ClientInv, PeersHaveSockets,
           NothingUnreachable, HeldIsWatched

(* Arming leaves the IPv4 socket watched. *)
LEMMA ArmType ==
  ASSUME NEW W \in Watches, NEW six \in BOOLEAN
  PROVE  /\ client_arm_send_retry(W, six) \in Watches
         /\ \E f \in Fam : client_arm_send_retry(W, six)[f] # "idle"
<1>1. client_arm_send_retry(W, six) \in Watches
  BY DEF client_arm_send_retry, Watches
<1>2. "v4" \in Fam /\ client_arm_send_retry(W, six)["v4"] # "idle"
  BY DEF client_arm_send_retry, Watches, Fam
<1> QED BY <1>1, <1>2

(* Engine output, to peers that have sockets. *)
LEMMA ClientProcessConnsOK ==
  ASSUME ClientInv, NEW peers \in SUBSET Fam, NEW six \in BOOLEAN,
         open6 => six, "v6" \in peers => six, client_process_conns(peers, six)
  PROVE  /\ lsq' \in Queue /\ history' \in Log /\ watch' \in Watches
         /\ lsq'.again => \E f \in Fam : watch'[f] # "idle"
         /\ \A i \in DOMAIN lsq'.unsent : lsq'.unsent[i].fam = "v6" => six
<1>1. PICK new \in News(history, peers) :
        LET q == lsq.unsent \o new IN
        \/ client_packets_out(q, Made(history, new), watch, six)
        \/ /\ lsq.held
           /\ lsq' = [lsq EXCEPT !.unsent = q]
           /\ history' = Made(history, new) /\ UNCHANGED watch
  BY DEF client_process_conns
<1> DEFINE q == lsq.unsent \o new
<1>2. lsq \in Queue /\ history \in Log /\ watch \in Watches
  BY DEF ClientInv, ClientTypeOK, Watches
<1>3. /\ new \in Seq(Datagram) /\ Made(history, new) \in Log
      /\ \A i \in DOMAIN new : new[i].fam \in peers
  BY <1>2, NewsType
<1>4. lsq.unsent \in Seq(Datagram)
  BY <1>2 DEF Queue
<1>5. q \in Seq(Datagram)
  BY <1>3, <1>4
<1>6. \A i \in DOMAIN q : q[i].fam = "v6" => six
  <2>1. ASSUME NEW i \in DOMAIN q PROVE q[i].fam = "v6" => six
    <3>1. CASE i \in DOMAIN lsq.unsent
      <4>1. q[i] = lsq.unsent[i]
        BY <3>1, <1>3, <1>4
      <4> QED BY <3>1, <4>1 DEF ClientInv, NothingUnreachable
    <3>2. CASE i \notin DOMAIN lsq.unsent
      <4>1. i - Len(lsq.unsent) \in DOMAIN new /\ q[i] = new[i - Len(lsq.unsent)]
        BY <3>2, <1>3, <1>4
      <4>2. q[i].fam \in peers
        BY <4>1, <1>3
      <4> QED BY <4>2
    <3> QED BY <3>1, <3>2
  <2> QED BY <2>1
<1> HIDE DEF q
<1>7. CASE client_packets_out(q, Made(history, new), watch, six)
  <2>1. PICK r \in Results(q, Made(history, new)) :
          /\ lsq' = Kept(q, r) /\ history' = Logged(Made(history, new), q, r)
          /\ watch' = IF Blocked(r) THEN client_arm_send_retry(watch, six) ELSE watch
    BY <1>7 DEF client_packets_out
  <2>2. lsq' \in Queue /\ (lsq'.again => Blocked(r))
    BY <2>1, <1>3, <1>5, KeptType
  <2>3. history' \in Log
    BY <2>1, <1>3, <1>5, LoggedType
  <2>4. watch' \in Watches /\ (Blocked(r) => \E f \in Fam : watch'[f] # "idle")
    BY <2>1, <1>2, ArmType
  <2>5. \A i \in DOMAIN lsq'.unsent : lsq'.unsent[i].fam = "v6" => six
    BY <2>1, <1>5, <1>6, KeptPart
  <2> QED BY <2>2, <2>3, <2>4, <2>5
<1>8. CASE lsq' = [lsq EXCEPT !.unsent = q] /\ history' = Made(history, new) /\ UNCHANGED watch
  <2>1. lsq' \in Queue /\ lsq'.again = lsq.again /\ lsq'.unsent = q
    BY <1>2, <1>5, <1>8 DEF Queue
  <2> QED BY <2>1, <1>2, <1>3, <1>6, <1>8 DEF ClientInv, HeldIsWatched
<1> QED BY <1>1, <1>7, <1>8 DEF q

(* The first call starts the IPv4 loop; the call that opens the IPv6       *)
(* socket starts its loop.                                                 *)
LEMMA ConnectOK == ASSUME ClientInv, connect PROVE ClientInv'
<1>1. PICK f \in Fam, resolved \in BOOLEAN, bound \in BOOLEAN, made \in BOOLEAN :
        LET opens == resolved /\ f = "v6" /\ ~open6 /\ bound
            six == open6 \/ opens
        IN  /\ open6' = six
            /\ recv' = [start(recv) EXCEPT !["v6"] = IF opens THEN @ + 1 ELSE @]
            /\ IF resolved /\ Usable(f, bound) /\ made
                 THEN fams' = fams \cup {f} /\ client_process_conns(fams', six)
                 ELSE UNCHANGED <<fams, lsq, history, watch>>
  BY Zenon DEF connect
<1> DEFINE opens == resolved /\ f = "v6" /\ ~open6 /\ bound
           six == open6 \/ opens
<1>2. /\ open6' = six
      /\ recv' = [start(recv) EXCEPT !["v6"] = IF opens THEN @ + 1 ELSE @]
  BY <1>1, Zenon
<1>3. six \in BOOLEAN /\ opens \in BOOLEAN
  BY Zenon
<1>4. open6 => six
  BY Zenon
<1>5. opens => ~open6 /\ six
  BY Zenon
<1>6. resolved /\ Usable(f, bound) /\ f = "v6" => six
  BY DEF Usable
<1>7. \/ fams' = fams \cup {f} /\ client_process_conns(fams \cup {f}, six)
         /\ resolved /\ Usable(f, bound)
      \/ UNCHANGED <<fams, lsq, history, watch>>
  BY <1>1, Zenon
<1>8. six => open6 \/ opens
  BY Zenon
<1> HIDE DEF six, opens
<1>9. started' = TRUE /\ count' \in [connects : 0..MaxConnects, received : 0..MaxReceived]
  <2>1. /\ count \in [connects : 0..MaxConnects, received : 0..MaxReceived]
        /\ count' = [count EXCEPT !.connects = @ + 1] /\ count.connects < MaxConnects
        /\ started' = TRUE
    BY DEF ClientInv, ClientTypeOK, connect
  <2>2. count.connects + 1 \in 0..MaxConnects
    BY <2>1, ClientAssumption
  <2> QED BY <2>1, <2>2
<1>10. recv' \in [Fam -> 0..1] /\ EverySocketReceives'
  <2>1. /\ recv \in [Fam -> 0..1] /\ started \in BOOLEAN /\ open6 \in BOOLEAN
        /\ (recv["v4"] = 1 <=> started) /\ (recv["v6"] = 1 <=> open6)
    BY DEF ClientInv, ClientTypeOK, EverySocketReceives, Fam
  <2>2. start(recv) \in [Fam -> 0..1] /\ start(recv)["v4"] = 1
        /\ start(recv)["v6"] = recv["v6"]
    BY <2>1 DEF start, Fam
  <2>3. recv' \in [Fam -> 0..1] /\ recv'["v4"] = 1
        /\ recv'["v6"] = IF opens THEN recv["v6"] + 1 ELSE recv["v6"]
    BY <2>1, <2>2, <1>2, <1>3, <1>5 DEF Fam
  <2>4. recv'["v6"] = 1 <=> open6'
    BY <2>1, <2>3, <1>2, <1>3, <1>4, <1>5, <1>8
  <2> QED BY <2>3, <2>4, <1>9 DEF EverySocketReceives, Fam
<1>11. CASE fams' = fams \cup {f} /\ client_process_conns(fams \cup {f}, six)
            /\ resolved /\ Usable(f, bound)
  <2>1. "v6" \in fams \cup {f} => six
    BY <1>4, <1>6, <1>11 DEF ClientInv, PeersHaveSockets
  <2>2. fams \cup {f} \in SUBSET Fam
    BY DEF ClientInv, ClientTypeOK
  <2>3. /\ lsq' \in Queue /\ history' \in Log /\ watch' \in Watches
        /\ lsq'.again => \E g \in Fam : watch'[g] # "idle"
        /\ \A i \in DOMAIN lsq'.unsent : lsq'.unsent[i].fam = "v6" => six
    BY <2>1, <2>2, <1>3, <1>4, <1>11, ClientProcessConnsOK
  <2>4. ClientTypeOK'
    BY <2>2, <2>3, <1>2, <1>3, <1>9, <1>10, <1>11 DEF ClientTypeOK, Watches
  <2>5. PeersHaveSockets' /\ NothingUnreachable' /\ HeldIsWatched'
    BY <2>1, <2>3, <1>2, <1>11 DEF PeersHaveSockets, NothingUnreachable, HeldIsWatched
  <2> QED BY <2>4, <2>5, <1>10 DEF ClientInv
<1>12. CASE UNCHANGED <<fams, lsq, history, watch>>
  <2>1. ClientTypeOK'
    BY <1>2, <1>3, <1>9, <1>10, <1>12 DEF ClientInv, ClientTypeOK
  <2>2. PeersHaveSockets' /\ NothingUnreachable' /\ HeldIsWatched'
    BY <1>2, <1>4, <1>12 DEF ClientInv, PeersHaveSockets, NothingUnreachable, HeldIsWatched
  <2> QED BY <2>1, <2>2, <1>10 DEF ClientInv
<1> QED BY <1>7, <1>11, <1>12

(* The other handlers leave the sockets and their loops as they are. *)
LEMMA HandlerOK ==
  ASSUME ClientInv, UNCHANGED <<started, open6, recv, fams>>,
         count' \in [connects : 0..MaxConnects, received : 0..MaxReceived],
         lsq' \in Queue, history' \in Log, watch' \in Watches,
         lsq'.again => \E f \in Fam : watch'[f] # "idle",
         \A i \in DOMAIN lsq'.unsent : lsq'.unsent[i].fam = "v6" => open6
  PROVE  ClientInv'
  BY DEF ClientInv, ClientTypeOK, Watches, EverySocketReceives, PeersHaveSockets,
         NothingUnreachable, HeldIsWatched

LEMMA ClientStepOK == ClientInv /\ [ClientNext]_client_vars => ClientInv'
<1> SUFFICES ASSUME ClientInv, [ClientNext]_client_vars PROVE ClientInv'
  OBVIOUS
<1> DEFINE Counts == [connects : 0..MaxConnects, received : 0..MaxReceived]
<1>1. /\ count \in Counts /\ lsq \in Queue /\ history \in Log /\ watch \in Watches
      /\ fams \in SUBSET Fam /\ open6 \in BOOLEAN
      /\ ("v6" \in fams => open6)
      /\ (lsq.again => \E f \in Fam : watch[f] # "idle")
      /\ \A i \in DOMAIN lsq.unsent : lsq.unsent[i].fam = "v6" => open6
  BY DEF ClientInv, ClientTypeOK, Watches, PeersHaveSockets, HeldIsWatched, NothingUnreachable
<1>2. ASSUME count.received < MaxReceived, count' = [count EXCEPT !.received = @ + 1]
      PROVE  count' \in Counts
  <2>1. count.received + 1 \in 0..MaxReceived
    BY <1>1, <1>2, ClientAssumption
  <2> QED BY <1>1, <1>2, <2>1
<1>3. CASE on_tick
  BY <1>1, <1>3, ClientProcessConnsOK, HandlerOK DEF on_tick
<1>4. ASSUME NEW f \in Fam, on_packet(f) PROVE ClientInv'
  BY <1>1, <1>2, <1>4, ClientProcessConnsOK, HandlerOK DEF on_packet
<1>5. ASSUME NEW f \in Fam, on_packet_Error(f) PROVE ClientInv'
  BY <1>1, <1>2, <1>5, HandlerOK DEF on_packet_Error
<1>6. ASSUME NEW f \in Fam, ClientDrains(f) PROVE ClientInv'
  <2>1. watch' \in Watches /\ watch'[f] # "idle"
    BY <1>1, <1>6 DEF ClientDrains, Watches
  <2> QED BY <1>1, <1>6, <2>1, HandlerOK DEF ClientDrains
<1>7. ASSUME NEW f \in Fam, client_on_writable(f) PROVE ClientInv'
  <2>1. PICK r \in Results(lsq.unsent, history) :
          LET idle == [watch EXCEPT ![f] = "idle"] IN
          /\ lsq' = Kept(lsq.unsent, r)
          /\ history' = Logged(history, lsq.unsent, r)
          /\ watch' = IF Blocked(r) \/ lsq'.unsent # << >>
                        THEN client_arm_send_retry(idle, open6) ELSE idle
    BY <1>7 DEF client_on_writable
  <2> DEFINE idle == [watch EXCEPT ![f] = "idle"]
  <2>2. lsq.unsent \in Seq(Datagram) /\ idle \in Watches
    BY <1>1 DEF Queue, Watches
  <2>3. lsq' \in Queue /\ (lsq'.again => Blocked(r)) /\ history' \in Log
    BY <2>1, <2>2, <1>1, KeptType, LoggedType
  <2>4. /\ watch' \in Watches
        /\ Blocked(r) => \E g \in Fam : watch'[g] # "idle"
    BY Zenon, <2>1, <2>2, <1>1, ArmType
  <2>5. \A i \in DOMAIN lsq'.unsent : lsq'.unsent[i].fam = "v6" => open6
    BY <2>1, <2>2, <1>1, KeptPart
  <2> QED BY Zenon, <2>3, <2>4, <2>5, <1>1, <1>7, HandlerOK DEF client_on_writable
<1>8. CASE UNCHANGED client_vars
  BY <1>1, <1>8, HandlerOK DEF client_vars
<1> QED BY <1>3, <1>4, <1>5, <1>6, <1>7, <1>8, ConnectOK DEF ClientNext

(* From the first connection on, every open socket has exactly one         *)
(* receive pending, through errors and failed connections.                 *)
THEOREM ReceiveTheorem == ClientSpec => []EverySocketReceives
<1>1. ClientInv => EverySocketReceives
  BY DEF ClientInv
<1> QED BY ClientInitOK, ClientStepOK, <1>1, PTL DEF ClientSpec

(* The engine never sends to a family without a socket, so send_specs      *)
(* skips nothing.                                                          *)
THEOREM ReachableTheorem == ClientSpec => []NothingUnreachable
<1>1. ClientInv => NothingUnreachable
  BY DEF ClientInv
<1> QED BY ClientInitOK, ClientStepOK, <1>1, PTL DEF ClientSpec

(* Output that would have blocked is watched for. *)
THEOREM WatchedTheorem == ClientSpec => []HeldIsWatched
<1>1. ClientInv => HeldIsWatched
  BY DEF ClientInv
<1> QED BY ClientInitOK, ClientStepOK, <1>1, PTL DEF ClientSpec
=============================================================================
