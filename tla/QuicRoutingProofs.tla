-------------------------- MODULE QuicRoutingProofs --------------------------
(***************************************************************************)
(* Proofs about QuicRouting, for every number of workers that fits in the  *)
(* routing byte, every set of CIDs and every hash function.                *)
(*                                                                         *)
(* The invariant says that the table never contradicts what an unlisted    *)
(* CID would be routed to (Agrees): registering and removing a CID then    *)
(* changes no route, so whatever is queued or given is where its CID       *)
(* leads (AtHome), and a worker's queue keeps the order of arrival.        *)
(***************************************************************************)
EXTENDS QuicRouting, TLAPS

Agrees == \A c \in DOMAIN table : table[c] = Unlisted(c)

AtHome ==
  /\ \A w \in Workers : \A i \in DOMAIN inbox[w] : Unlisted(inbox[w][i].cid) = w
  /\ \A i \in DOMAIN got : Unlisted(got[i].d.cid) = got[i].w

InOrder ==
  /\ \A w \in Workers : \A i \in DOMAIN inbox[w] : inbox[w][i].no < received
  /\ \A w \in Workers : \A i, j \in DOMAIN inbox[w] :
       i < j => inbox[w][i].no < inbox[w][j].no
  /\ \A i \in DOMAIN got : \A k \in DOMAIN inbox[got[i].w] :
       got[i].d.no < inbox[got[i].w][k].no
  /\ \A i, j \in DOMAIN got :
       i < j /\ got[i].w = got[j].w => got[i].d.no < got[j].d.no
  /\ \A i \in DOMAIN got : got[i].d.no < received

IInv == TypeOK /\ Agrees /\ AtHome /\ InOrder

LEMMA ElementType ==
  ASSUME NEW S, NEW q \in Seq(S), NEW i \in DOMAIN q
  PROVE  q[i] \in S /\ i \in 1..Len(q)
  OBVIOUS

LEMMA TailFacts ==
  ASSUME NEW S, NEW q \in Seq(S), q # << >>
  PROVE  /\ Len(q) \in Nat \ {0} /\ Tail(q) \in Seq(S)
         /\ DOMAIN Tail(q) = 1..Len(q) - 1
         /\ \A i \in 1..Len(q) - 1 : Tail(q)[i] = q[i + 1]
  OBVIOUS

(* What is queued and what was given. *)
LEMMA Typing ==
  ASSUME TypeOK
  PROVE  /\ \A w \in Workers : \A i \in DOMAIN inbox[w] : inbox[w][i] \in Datagram
         /\ \A i \in DOMAIN got : got[i].d \in Datagram /\ got[i].w \in Workers
<1>1. ASSUME NEW w \in Workers, NEW i \in DOMAIN inbox[w]
      PROVE  inbox[w][i] \in Datagram
  <2>1. inbox[w] \in Seq(Datagram)
    BY DEF TypeOK
  <2> QED BY <2>1, ElementType
<1>2. ASSUME NEW i \in DOMAIN got
      PROVE  got[i].d \in Datagram /\ got[i].w \in Workers
  <2>1. got \in Seq([d : Datagram, w : Workers])
    BY DEF TypeOK
  <2>2. got[i] \in [d : Datagram, w : Workers]
    BY <2>1, ElementType
  <2> QED BY <2>2
<1> QED BY <1>1, <1>2

(* A CID leads to a worker, listed or not. *)
LEMMA UnlistedType == \A c \in Cid : Unlisted(c) \in Workers
<1> TAKE c \in Cid
<1>1. c.byte \in Nat
  BY RoutingAssumption DEF Cid
<1>2. Hash[c] \in Workers
  BY RoutingAssumption
<1> QED BY <1>1, <1>2, RoutingAssumption DEF Unlisted, Workers

(* With a table that agrees, the route of a CID is the unlisted one. *)
LEMMA RouteUnlisted ==
  ASSUME Agrees, NEW c \in Cid PROVE route(c) = Unlisted(c)
  BY DEF Agrees, route

(* A CID issued by the engine of w leads to w: its first byte is w. *)
LEMMA IssuedUnlisted ==
  ASSUME NEW w \in Workers, NEW c \in generate_scid(w)
  PROVE  c \in Cid /\ Unlisted(c) = w
<1>1. w \in Nat /\ w < N /\ w < Byte
  BY RoutingAssumption DEF Workers
<1>2. w % Byte = w
  BY <1>1, RoutingAssumption
<1> QED
  BY <1>1, <1>2 DEF generate_scid, Unlisted

LEMMA InitOK == Init => IInv
  BY RoutingAssumption DEF Init, IInv, TypeOK, Agrees, AtHome, InOrder, Fam, Datagram

(* Registering a CID of the engine's connections keeps the agreement. *)
LEMMA NewScidsOK ==
  ASSUME IInv, NEW w \in Workers, on_new_scids(w) PROVE IInv'
<1>1. PICK c \in generate_scid(w) \cup Given(w) :
        /\ table' = [x \in DOMAIN table \cup {c} |-> IF x = c THEN w ELSE table[x]]
        /\ UNCHANGED <<inbox, got, received, recv>>
  BY DEF on_new_scids, register_cid
<1>2. c \in Cid /\ Unlisted(c) = w
  <2>1. CASE c \in generate_scid(w)
    BY <2>1, IssuedUnlisted
  <2>2. CASE c \in Given(w)
    <3>1. PICK j \in DOMAIN got : got[j].w = w /\ c = got[j].d.cid
      BY <2>2 DEF Given
    <3>2. got[j].d \in Datagram
      BY Typing DEF IInv
    <3> QED BY <3>1, <3>2 DEF IInv, AtHome, Datagram
  <2> QED BY <2>1, <2>2
<1>3. DOMAIN table' = DOMAIN table \cup {c}
      /\ \A x \in DOMAIN table' : table'[x] = IF x = c THEN w ELSE table[x]
  BY <1>1
<1>4. TypeOK'
  BY <1>1, <1>2, <1>3 DEF IInv, TypeOK
<1>5. Agrees'
  BY <1>2, <1>3 DEF IInv, Agrees, Unlisted
<1>6. AtHome' /\ InOrder'
  BY <1>1 DEF IInv, AtHome, InOrder, Unlisted
<1> QED BY <1>4, <1>5, <1>6 DEF IInv

LEMMA OldScidsOK ==
  ASSUME IInv, NEW w \in Workers, on_old_scids(w) PROVE IInv'
<1>1. PICK c \in DOMAIN table :
        /\ table' = [x \in DOMAIN table \ {c} |-> table[x]]
        /\ UNCHANGED <<inbox, got, received, recv>>
  BY DEF on_old_scids, remove_cid
<1>2. DOMAIN table' = DOMAIN table \ {c}
      /\ \A x \in DOMAIN table' : table'[x] = table[x]
  BY <1>1
<1>3. TypeOK' /\ Agrees'
  BY <1>1, <1>2 DEF IInv, TypeOK, Agrees, Unlisted
<1>4. AtHome' /\ InOrder'
  BY <1>1 DEF IInv, AtHome, InOrder, Unlisted
<1> QED BY <1>3, <1>4 DEF IInv

(* A datagram is queued behind the others of its worker. *)
LEMMA PacketOK ==
  ASSUME IInv, NEW f \in Fam, NEW c \in Cid, on_packet(f, c) PROVE IInv'
<1> DEFINE d == [cid |-> c, no |-> received]
           u == Unlisted(c)
<1>1. u \in Workers /\ d \in Datagram /\ received \in Nat /\ received' = received + 1
  BY UnlistedType, RoutingAssumption DEF IInv, TypeOK, Datagram, on_packet
<1>2. inbox' = [inbox EXCEPT ![u] = Append(@, d)]
  BY RouteUnlisted DEF IInv, on_packet
<1>3. UNCHANGED <<table, got, recv>>
  BY DEF on_packet
<1>4. inbox \in [Workers -> Seq(Datagram)] /\ inbox[u] \in Seq(Datagram)
  BY <1>1 DEF IInv, TypeOK
<1>5. inbox'[u] = Append(inbox[u], d) /\ \A w \in Workers \ {u} : inbox'[w] = inbox[w]
  BY <1>1, <1>2, <1>4
<1>6. DOMAIN inbox'[u] = 1..Len(inbox[u]) + 1 /\ DOMAIN inbox[u] = 1..Len(inbox[u])
      /\ inbox'[u][Len(inbox[u]) + 1] = d
      /\ \A i \in 1..Len(inbox[u]) : inbox'[u][i] = inbox[u][i]
      /\ Len(inbox[u]) \in Nat
  BY <1>1, <1>4, <1>5
<1> HIDE DEF d, u
<1>7. TypeOK'
  <2>1. inbox' \in [Workers -> Seq(Datagram)]
    BY <1>1, <1>2, <1>4
  <2>2. received' \in 0..MaxReceived
    BY <1>1, RoutingAssumption DEF on_packet
  <2> QED BY <2>1, <2>2, <1>3 DEF IInv, TypeOK
<1>8. Agrees'
  BY <1>3 DEF IInv, Agrees, Unlisted
<1>9. AtHome'
  <2>1. ASSUME NEW w \in Workers, NEW i \in DOMAIN inbox'[w]
        PROVE  Unlisted(inbox'[w][i].cid) = w
    <3>1. CASE w = u /\ i = Len(inbox[u]) + 1
      BY <3>1, <1>6 DEF d, u
    <3>2. CASE w = u /\ i # Len(inbox[u]) + 1
      BY <3>2, <1>1, <1>6 DEF IInv, AtHome
    <3>3. CASE w # u
      BY <3>3, <1>5 DEF IInv, AtHome
    <3> QED BY <3>1, <3>2, <3>3
  <2> QED BY <2>1, <1>3 DEF IInv, AtHome, Unlisted
<1>10. InOrder'
  <2>1. d.no = received
    BY DEF d
  <2>2. \A w \in Workers : \A i \in DOMAIN inbox[w] : inbox[w][i].no \in Nat
    BY Typing DEF IInv, Datagram
  <2>3. ASSUME NEW w \in Workers
        PROVE  /\ \A i \in DOMAIN inbox'[w] : inbox'[w][i].no < received'
               /\ \A i, j \in DOMAIN inbox'[w] :
                    i < j => inbox'[w][i].no < inbox'[w][j].no
    <3>1. CASE w = u
      <4>1. \A i \in 1..Len(inbox[u]) : inbox[u][i].no \in Nat /\ inbox[u][i].no < received
        BY <1>1, <1>6, <2>2 DEF IInv, InOrder
      <4>2. \A i, j \in 1..Len(inbox[u]) : i < j => inbox[u][i].no < inbox[u][j].no
        BY <1>1, <1>6 DEF IInv, InOrder
      <4>3. ASSUME NEW i \in DOMAIN inbox'[u] PROVE inbox'[u][i].no < received'
        <5>1. CASE i = Len(inbox[u]) + 1
          BY <5>1, <2>1, <1>1, <1>6
        <5>2. CASE i \in 1..Len(inbox[u])
          BY <5>2, <4>1, <1>1, <1>6
        <5> QED BY <5>1, <5>2, <1>6
      <4>4. ASSUME NEW i \in DOMAIN inbox'[u], NEW j \in DOMAIN inbox'[u], i < j
            PROVE  inbox'[u][i].no < inbox'[u][j].no
        <5>1. i \in 1..Len(inbox[u])
          BY <4>4, <1>6
        <5>2. CASE j = Len(inbox[u]) + 1
          BY <5>1, <5>2, <2>1, <4>1, <1>6
        <5>3. CASE j \in 1..Len(inbox[u])
          BY <5>1, <5>3, <4>2, <4>4, <1>6
        <5> QED BY <5>2, <5>3, <1>6
      <4> QED BY <3>1, <4>3, <4>4
    <3>2. CASE w # u
      BY <3>2, <2>2, <1>1, <1>5 DEF IInv, InOrder
    <3> QED BY <3>1, <3>2
  <2>4. \A i \in DOMAIN got : got[i].d.no \in Nat /\ got[i].w \in Workers
    BY Typing DEF IInv, Datagram
  <2>5. ASSUME NEW i \in DOMAIN got', NEW k \in DOMAIN inbox'[got'[i].w]
        PROVE  got'[i].d.no < inbox'[got'[i].w][k].no
    <3>1. got' = got
      BY <1>3
    <3>2. CASE got[i].w = u
      <4>1. \A n \in 1..Len(inbox[u]) : got[i].d.no < inbox[u][n].no
        BY <3>1, <3>2, <1>6 DEF IInv, InOrder
      <4>2. got[i].d.no < received
        BY <3>1 DEF IInv, InOrder
      <4>3. CASE k = Len(inbox[u]) + 1
        BY <3>1, <3>2, <4>2, <4>3, <2>1, <1>6
      <4>4. CASE k \in 1..Len(inbox[u])
        BY <3>1, <3>2, <4>1, <4>4, <1>6
      <4> QED BY <3>1, <3>2, <4>3, <4>4, <1>6
    <3>3. CASE got[i].w # u
      BY <3>1, <3>3, <2>4, <1>5 DEF IInv, InOrder
    <3> QED BY <3>2, <3>3
  <2>6. \A i \in DOMAIN got' : got'[i].d.no < received'
    BY <1>1, <1>3, <2>4 DEF IInv, InOrder
  <2> QED BY <2>3, <2>5, <2>6, <1>3 DEF IInv, InOrder
<1> QED BY <1>7, <1>8, <1>9, <1>10 DEF IInv

(* The head of a worker's queue is given to its engine. *)
LEMMA DeliverOK ==
  ASSUME IInv, NEW w \in Workers, deliver_packet(w) PROVE IInv'
<1> DEFINE h == Head(inbox[w])
           g == [d |-> h, w |-> w]
<1>1. /\ inbox[w] \in Seq(Datagram) /\ inbox[w] # << >>
      /\ inbox' = [inbox EXCEPT ![w] = Tail(@)] /\ got' = Append(got, g)
      /\ UNCHANGED <<table, received, recv>>
  BY DEF IInv, TypeOK, deliver_packet
<1>2. /\ Len(inbox[w]) \in Nat \ {0} /\ DOMAIN inbox[w] = 1..Len(inbox[w])
      /\ h = inbox[w][1] /\ 1 \in DOMAIN inbox[w] /\ h \in Datagram
      /\ Tail(inbox[w]) \in Seq(Datagram)
  BY <1>1
<1>3. inbox'[w] = Tail(inbox[w]) /\ \A v \in Workers \ {w} : inbox'[v] = inbox[v]
  BY <1>1 DEF IInv, TypeOK
<1>4. ASSUME NEW i \in DOMAIN inbox'[w]
      PROVE  i + 1 \in DOMAIN inbox[w] /\ inbox'[w][i] = inbox[w][i + 1]
             /\ 1 < i + 1 /\ i \in Nat
  <2>1. /\ DOMAIN inbox'[w] = 1..Len(inbox[w]) - 1
        /\ \A n \in 1..Len(inbox[w]) - 1 : inbox'[w][n] = inbox[w][n + 1]
    BY <1>1, <1>3, TailFacts
  <2>2. i \in 1..Len(inbox[w]) - 1
    BY <2>1
  <2> QED BY <2>1, <2>2, <1>2
<1>5. got \in Seq([d : Datagram, w : Workers]) /\ g \in [d : Datagram, w : Workers]
  BY <1>2 DEF IInv, TypeOK
<1>6. /\ Len(got) \in Nat /\ DOMAIN got = 1..Len(got)
      /\ DOMAIN got' = 1..Len(got) + 1 /\ got'[Len(got) + 1] = g
      /\ \A i \in 1..Len(got) : got'[i] = got[i]
      /\ got' \in Seq([d : Datagram, w : Workers])
  BY <1>1, <1>5
<1>7. g.w = w /\ g.d = inbox[w][1]
  BY <1>2
<1> HIDE DEF h, g
<1>8. TypeOK'
  BY <1>1, <1>2, <1>6 DEF IInv, TypeOK
<1>9. Agrees'
  BY <1>1 DEF IInv, Agrees, Unlisted
<1>10. AtHome'
  <2>1. ASSUME NEW v \in Workers, NEW i \in DOMAIN inbox'[v]
        PROVE  Unlisted(inbox'[v][i].cid) = v
    <3>1. CASE v = w
      <4>1. inbox'[w][i] = inbox[w][i + 1] /\ i + 1 \in DOMAIN inbox[w]
        BY <3>1, <1>4
      <4>2. Unlisted(inbox[w][i + 1].cid) = w
        BY <4>1 DEF IInv, AtHome
      <4> QED BY <3>1, <4>1, <4>2
    <3>2. CASE v # w
      BY <3>2, <1>3 DEF IInv, AtHome
    <3> QED BY <3>1, <3>2
  <2>2. ASSUME NEW i \in DOMAIN got' PROVE Unlisted(got'[i].d.cid) = got'[i].w
    <3>1. CASE i = Len(got) + 1
      BY <3>1, <1>2, <1>6, <1>7 DEF IInv, AtHome
    <3>2. CASE i \in 1..Len(got)
      BY <3>2, <1>6 DEF IInv, AtHome
    <3> QED BY <3>1, <3>2, <1>6
  <2> QED BY <2>1, <2>2, <1>1 DEF AtHome, Unlisted
<1>11. InOrder'
  <2>1. received' = received
    BY <1>1
  <2>2. ASSUME NEW v \in Workers
        PROVE  /\ \A i \in DOMAIN inbox'[v] : inbox'[v][i].no < received'
               /\ \A i, j \in DOMAIN inbox'[v] :
                    i < j => inbox'[v][i].no < inbox'[v][j].no
    <3>1. CASE v = w
      <4>1. ASSUME NEW i \in DOMAIN inbox'[w] PROVE inbox'[w][i].no < received'
        <5>1. inbox[w][i + 1].no < received
          BY <1>4 DEF IInv, InOrder
        <5> QED BY <5>1, <1>4, <2>1
      <4>2. ASSUME NEW i \in DOMAIN inbox'[w], NEW j \in DOMAIN inbox'[w], i < j
            PROVE  inbox'[w][i].no < inbox'[w][j].no
        <5>1. i + 1 < j + 1 /\ i + 1 \in DOMAIN inbox[w] /\ j + 1 \in DOMAIN inbox[w]
          BY <4>2, <1>4
        <5>2. inbox[w][i + 1].no < inbox[w][j + 1].no
          BY <5>1 DEF IInv, InOrder
        <5> QED BY <5>2, <1>4
      <4> QED BY <3>1, <4>1, <4>2
    <3>2. CASE v # w
      BY <3>2, <1>3, <2>1 DEF IInv, InOrder
    <3> QED BY <3>1, <3>2
  <2>3. \A i \in DOMAIN got : got[i].w \in Workers
    BY Typing DEF IInv
  <2>4. ASSUME NEW i \in DOMAIN got', NEW k \in DOMAIN inbox'[got'[i].w]
        PROVE  got'[i].d.no < inbox'[got'[i].w][k].no
    <3>1. CASE i = Len(got) + 1
      <4>1. k \in DOMAIN inbox'[w] /\ got'[i].d = inbox[w][1] /\ got'[i].w = w
        BY <3>1, <1>6, <1>7
      <4>2. k + 1 \in DOMAIN inbox[w] /\ inbox'[w][k] = inbox[w][k + 1] /\ 1 < k + 1
        BY <4>1, <1>4
      <4>3. inbox[w][1].no < inbox[w][k + 1].no
        BY <4>2, <1>2 DEF IInv, InOrder
      <4> QED BY <4>1, <4>2, <4>3
    <3>2. CASE i \in 1..Len(got) /\ got[i].w = w
      <4>1. k \in DOMAIN inbox'[w] /\ got'[i] = got[i] /\ i \in DOMAIN got
        BY <3>2, <1>6
      <4>2. k + 1 \in DOMAIN inbox[w] /\ inbox'[w][k] = inbox[w][k + 1]
        BY <4>1, <1>4
      <4>3. got[i].d.no < inbox[w][k + 1].no
        BY <3>2, <4>1, <4>2 DEF IInv, InOrder
      <4> QED BY <3>2, <4>1, <4>2, <4>3
    <3>3. CASE i \in 1..Len(got) /\ got[i].w # w
      <4>1. got'[i] = got[i] /\ i \in DOMAIN got /\ got[i].w \in Workers \ {w}
        BY <3>3, <2>3, <1>6
      <4>2. inbox'[got[i].w] = inbox[got[i].w] /\ k \in DOMAIN inbox[got[i].w]
        BY <4>1, <1>3
      <4> QED BY <4>1, <4>2 DEF IInv, InOrder
    <3> QED BY <3>1, <3>2, <3>3, <1>6
  <2>5. ASSUME NEW i \in DOMAIN got', NEW j \in DOMAIN got', i < j, got'[i].w = got'[j].w
        PROVE  got'[i].d.no < got'[j].d.no
    <3>1. i \in 1..Len(got)
      BY <2>5, <1>6
    <3>2. CASE j = Len(got) + 1
      <4>1. got'[j].d = inbox[w][1] /\ got[i].w = w /\ got'[i] = got[i] /\ i \in DOMAIN got
        BY <3>1, <3>2, <2>5, <1>6, <1>7
      <4>2. got[i].d.no < inbox[w][1].no
        BY <4>1, <1>2 DEF IInv, InOrder
      <4> QED BY <4>1, <4>2
    <3>3. CASE j \in 1..Len(got)
      BY <3>1, <3>3, <2>5, <1>6 DEF IInv, InOrder
    <3> QED BY <3>2, <3>3, <1>6
  <2>6. ASSUME NEW i \in DOMAIN got' PROVE got'[i].d.no < received'
    <3>1. CASE i = Len(got) + 1
      BY <3>1, <2>1, <1>2, <1>6, <1>7 DEF IInv, InOrder
    <3>2. CASE i \in 1..Len(got)
      BY <3>2, <2>1, <1>6 DEF IInv, InOrder
    <3> QED BY <3>1, <3>2, <1>6
  <2> QED BY <2>2, <2>4, <2>5, <2>6 DEF InOrder
<1> QED BY <1>8, <1>9, <1>10, <1>11 DEF IInv

LEMMA StepOK == IInv /\ [Next]_vars => IInv'
<1> SUFFICES ASSUME IInv, [Next]_vars PROVE IInv'
  OBVIOUS
<1>1. ASSUME UNCHANGED <<table, inbox, got>>, received' \in received..MaxReceived,
             recv' \subseteq Fam
      PROVE  IInv'
  <2>1. TypeOK' /\ received \in Nat /\ received' >= received
    BY <1>1, RoutingAssumption DEF IInv, TypeOK
  <2>2. Agrees' /\ AtHome'
    BY <1>1 DEF IInv, Agrees, AtHome, Unlisted
  <2>3. InOrder'
    <3>1. \A w \in Workers : \A i \in DOMAIN inbox[w] : inbox[w][i].no \in Nat
      BY Typing DEF IInv, Datagram
    <3>2. \A i \in DOMAIN got : got[i].d.no \in Nat
      BY Typing DEF IInv, Datagram
    <3> QED BY <1>1, <2>1, <3>1, <3>2, RoutingAssumption DEF IInv, InOrder
  <2> QED BY <2>1, <2>2, <2>3 DEF IInv
<1>2. ASSUME NEW f \in Fam, on_packet_Dropped(f) PROVE IInv'
  BY <1>1, <1>2, RoutingAssumption DEF on_packet_Dropped, IInv, TypeOK
<1>3. CASE stop
  BY <1>1, <1>3, RoutingAssumption DEF stop, IInv, TypeOK
<1>4. CASE UNCHANGED vars
  BY <1>1, <1>4, RoutingAssumption DEF vars, IInv, TypeOK
<1> QED BY <1>2, <1>3, <1>4, NewScidsOK, OldScidsOK, PacketOK, DeliverOK DEF Next

(* For every number of workers that the routing byte can hold, every set   *)
(* of CIDs and every hash: a datagram with a CID that an engine issues is  *)
(* given to that engine and to no other.                                   *)
THEOREM HomeTheorem == Spec => []IssuedLeadsHome
<1>1. IInv => IssuedLeadsHome
  BY IssuedUnlisted DEF IInv, AtHome, IssuedLeadsHome
<1> QED BY InitOK, StepOK, <1>1, PTL DEF Spec

(* Under the same assumptions, all datagrams with one CID reach one engine *)
(* in the order of arrival, whatever is registered and removed meanwhile.  *)
THEOREM OneEngineTheorem == Spec => []OneEngineInOrder
<1>1. IInv => OneEngineInOrder
  BY DEF IInv, AtHome, InOrder, OneEngineInOrder
<1> QED BY InitOK, StepOK, <1>1, PTL DEF Spec
=============================================================================
