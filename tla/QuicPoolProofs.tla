--------------------------- MODULE QuicPoolProofs ---------------------------
(***************************************************************************)
(* Proofs about QuicPool, for any number of relays, sessions and backends  *)
(* and whatever new_stream_cb makes of a null stream.                      *)
(*                                                                         *)
(* A handler changes the tables in several calls, so that the invariant is *)
(* stated of tables C, S, ca and a as they stand between two of them.  It  *)
(* adds to the properties who waits for whom: a stream that lsquic was     *)
(* asked for has a caller that waits for it (Wanted), and a caller waits   *)
(* for a stream that was asked for, or on a connection that is going away  *)
(* (Waiting).  Of the caller k that a handler deals with nothing is said.  *)
(***************************************************************************)
EXTENDS QuicPool, SequenceTheorems, TLAPS

Usable(C, S) ==
  \A y \in Keys : \A i \in 1..Len(C[y]) :
    /\ S[C[y][i]].life = "up" /\ S[C[y][i]].key = y /\ S[C[y][i]].want = 0
    /\ \A z \in Keys : \A j \in 1..Len(C[z]) : C[z][j] = C[y][i] => z = y /\ j = i

Reusable(C, S) ==
  \A s \in Sessions : S[s].life = "up" =>
    \/ S[s].want > 0
    \/ \E i \in 1..Len(C[S[s].key]) : C[S[s].key][i] = s

Wanted(K, S, ca, a) ==
  \A s \in Sessions : S[s].want > 0 =>
    /\ S[s].want = 1 /\ S[s].life \in {"handshake", "up"}
    /\ S[s].cb \in K /\ ca[S[s].cb] = "waiting" /\ a[S[s].cb] = s

Waiting(K, S, ca, a) ==
  \A k \in K : \A s \in Sessions : ca[k] = "waiting" /\ a[k] = s =>
    /\ S[s].cb = k
    /\ S[s].want > 0 \/ S[s].life \in {"leaving", "closed"}

Tables(C, S) == C \in [Keys -> Seq(Sessions)] /\ S \in [Sessions -> Session]

(* Queue q is p without its entry f; x is in no queue; D keeps the entries *)
(* of C other than x; every session other than x is reusable.              *)
Without(q, p, f) ==
  /\ q \in Seq(Sessions) /\ Len(q) = Len(p) - 1
  /\ \A i \in 1..Len(q) : q[i] = IF i < f THEN p[i] ELSE p[i + 1]

Absent(x, C) == \A z \in Keys : \A i \in 1..Len(C[z]) : C[z][i] # x

Keeps(D, C, x) ==
  \A z \in Keys : \A i \in 1..Len(C[z]) : C[z][i] # x =>
    \E j \in 1..Len(D[z]) : D[z][j] = C[z][i]

OthersReusable(C, S, x) ==
  \A s \in Sessions \ {x} : S[s].life = "up" =>
    \/ S[s].want > 0
    \/ \E i \in 1..Len(C[S[s].key]) : C[S[s].key][i] = s

(* What the handler of a callback for k has to establish: the pool C and   *)
(* the sessions S, of which none is for k any more.                        *)
Ready(k, C, S) ==
  /\ Tables(C, S) /\ Usable(C, S) /\ Reusable(C, S)
  /\ Wanted(Callers \ {k}, S, call, at) /\ Waiting(Callers \ {k}, S, call, at)

IInv == /\ TypeOK
        /\ Usable(conns, sess) /\ Reusable(conns, sess)
        /\ Wanted(Callers, sess, call, at) /\ Waiting(Callers, sess, call, at)

-----------------------------------------------------------------------------
(* Queues *)

LEMMA TailFacts ==
  ASSUME NEW q \in Seq(Sessions), q # <<>>
  PROVE  /\ 1 \in 1..Len(q) /\ q[1] = Head(q) /\ Head(q) \in Sessions
         /\ Without(Tail(q), q, 1)
  <1>1. Len(q) \in Nat /\ Len(q) # 0  OBVIOUS
  <1>2. 1 \in 1..Len(q)  BY <1>1
  <1>3. /\ Tail(q) \in Seq(Sessions) /\ Len(Tail(q)) = Len(q) - 1
        /\ \A i \in 1..Len(Tail(q)) : Tail(q)[i] = q[i + 1]
    BY <1>1
  <1>4. Without(Tail(q), q, 1)  BY <1>1, <1>3 DEF Without
  <1>5. QED  BY <1>1, <1>2, <1>4

LEMMA DropFacts ==
  ASSUME NEW q \in Seq(Sessions), NEW f \in 1..Len(q)
  PROVE  Without(SubSeq(q, 1, f - 1) \o SubSeq(q, f + 1, Len(q)), q, f)
  <1> DEFINE a == SubSeq(q, 1, f - 1)
             b == SubSeq(q, f + 1, Len(q))
  <1>1. Len(q) \in Nat /\ f \in Nat /\ 1 <= f /\ f <= Len(q)  OBVIOUS
  <1>2. /\ a \in Seq(Sessions) /\ Len(a) = f - 1
        /\ \A i \in 1..f - 1 : a[i] = q[i]
    BY <1>1
  <1>3. /\ b \in Seq(Sessions) /\ Len(b) = Len(q) - f
        /\ \A i \in 1..Len(q) - f : b[i] = q[f + i]
    BY <1>1
  <1> HIDE DEF a, b
  <1>4. /\ a \o b \in Seq(Sessions) /\ Len(a \o b) = Len(q) - 1
        /\ \A i \in 1..Len(q) - 1 :
             (a \o b)[i] = IF i <= f - 1 THEN a[i] ELSE b[i - (f - 1)]
    <2>1. /\ a \o b \in Seq(Sessions) /\ Len(a \o b) = Len(a) + Len(b)
          /\ \A i \in 1..Len(a) + Len(b) :
               (a \o b)[i] = IF i <= Len(a) THEN a[i] ELSE b[i - Len(a)]
      BY <1>2, <1>3, ConcatProperties, Zenon
    <2>2. Len(a) + Len(b) = Len(q) - 1  BY <1>1, <1>2, <1>3
    <2>3. QED  BY <1>2, <2>1, <2>2
  <1>5. ASSUME NEW i \in 1..Len(q) - 1
        PROVE  (a \o b)[i] = IF i < f THEN q[i] ELSE q[i + 1]
    <2>1. CASE i < f  BY <1>1, <1>2, <1>4, <2>1
    <2>2. CASE i >= f
      <3>1. i - (f - 1) \in 1..Len(q) - f /\ f + (i - (f - 1)) = i + 1
        BY <1>1, <2>2
      <3>2. QED  BY <1>1, <1>3, <1>4, <2>2, <3>1
    <2>3. i < f \/ i >= f  BY <1>1
    <2>4. QED  BY <2>1, <2>2, <2>3, Zenon
  <1>6. Without(a \o b, q, f)  BY <1>4, <1>5 DEF Without
  <1>7. QED  BY <1>6 DEF a, b

(* An entry leaves the pool. *)
LEMMA Shrink ==
  ASSUME NEW C, NEW S, Tables(C, S), Usable(C, S),
         NEW y \in Keys, NEW f \in 1..Len(C[y]), NEW q, Without(q, C[y], f),
         NEW x, x = C[y][f], NEW D, D = [C EXCEPT ![y] = q]
  PROVE  Tables(D, S) /\ Usable(D, S) /\ Absent(x, D) /\ Keeps(D, C, x)
  <1>0. /\ q \in Seq(Sessions) /\ Len(q) = Len(C[y]) - 1
        /\ \A i \in 1..Len(q) : q[i] = IF i < f THEN C[y][i] ELSE C[y][i + 1]
    BY DEF Without
  <1> DEFINE g(z, i) == IF z = y /\ i >= f THEN i + 1 ELSE i
  <1>1. C \in [Keys -> Seq(Sessions)] /\ \A z \in Keys : Len(C[z]) \in Nat
    BY DEF Tables
  <1>2. Tables(D, S) /\ \A z \in Keys : D[z] = IF z = y THEN q ELSE C[z]
    BY <1>0, <1>1 DEF Tables
  <1>3. f \in Nat /\ 1 <= f /\ f <= Len(C[y])  BY <1>1
  <1>4. ASSUME NEW z \in Keys, NEW i \in 1..Len(D[z])
        PROVE  /\ g(z, i) \in 1..Len(C[z]) /\ D[z][i] = C[z][g(z, i)]
               /\ i \in Nat /\ (z = y => g(z, i) # f)
    <2>1. CASE z # y  BY <1>1, <1>2, <2>1
    <2>2. CASE z = y
      <3>1. i \in 1..Len(q) /\ i \in Nat /\ Len(q) + 1 = Len(C[y])
        BY <1>0, <1>1, <1>2, <2>2
      <3>2. D[z][i] = q[i]  BY <1>2, <2>2
      <3>3. CASE i < f  BY <1>0, <1>1, <1>3, <2>2, <3>1, <3>2, <3>3
      <3>4. CASE ~(i < f)  BY <1>0, <1>1, <1>3, <2>2, <3>1, <3>2, <3>4
      <3>5. QED  BY <3>3, <3>4
    <2>3. QED  BY <2>1, <2>2
  <1>5. ASSUME NEW z \in Keys, NEW i \in 1..Len(D[z]), NEW j \in 1..Len(D[z]),
               g(z, i) = g(z, j)
        PROVE  i = j
    BY <1>4, <1>5, <1>3
  <1>6. ASSUME NEW z \in Keys, NEW i \in 1..Len(C[z]), C[z][i] # C[y][f]
        PROVE  \E j \in 1..Len(D[z]) : D[z][j] = C[z][i]
    <2>1. CASE z # y  BY <1>2, <2>1
    <2>2. CASE z = y
      <3>1. i \in Nat /\ i # f  BY <1>1, <1>6, <2>2
      <3>2. CASE i < f
        <4>1. i \in 1..Len(D[z])  BY <1>0, <1>1, <1>2, <1>3, <2>2, <3>1, <3>2
        <4>2. D[z][i] = C[z][i]  BY <1>0, <1>2, <2>2, <3>2, <4>1
        <4>3. QED  BY <4>1, <4>2
      <3>3. CASE i > f
        <4>1. i - 1 \in 1..Len(D[z]) /\ ~(i - 1 < f) /\ (i - 1) + 1 = i
          BY <1>0, <1>1, <1>2, <1>3, <2>2, <3>1, <3>3
        <4>2. D[z][i - 1] = C[z][i]  BY <1>0, <1>2, <2>2, <4>1
        <4>3. QED  BY <4>1, <4>2
      <3>4. QED  BY <1>3, <3>1, <3>2, <3>3
    <2>3. QED  BY <2>1, <2>2
  <1>u. \A z, w \in Keys : \A n \in 1..Len(C[z]) : \A m \in 1..Len(C[w]) :
          C[w][m] = C[z][n] => w = z /\ m = n
    BY DEF Usable
  <1> HIDE DEF g
  <1>7. Usable(D, S)
    <2>1. ASSUME NEW z \in Keys, NEW i \in 1..Len(D[z])
          PROVE  /\ S[D[z][i]].life = "up" /\ S[D[z][i]].key = z
                 /\ S[D[z][i]].want = 0
                 /\ \A w \in Keys : \A j \in 1..Len(D[w]) :
                      D[w][j] = D[z][i] => w = z /\ j = i
      <3>1. g(z, i) \in 1..Len(C[z]) /\ D[z][i] = C[z][g(z, i)]  BY <1>4
      <3>2. ASSUME NEW w \in Keys, NEW j \in 1..Len(D[w]), D[w][j] = D[z][i]
            PROVE  w = z /\ j = i
        <4>1. g(w, j) \in 1..Len(C[w]) /\ D[w][j] = C[w][g(w, j)]  BY <1>4
        <4>2. C[w][g(w, j)] = C[z][g(z, i)]  BY <3>1, <3>2, <4>1
        <4> DEFINE m == g(w, j)
                   n == g(z, i)
        <4>a. m \in 1..Len(C[w]) /\ n \in 1..Len(C[z]) /\ C[w][m] = C[z][n]
          BY <3>1, <4>1, <4>2
        <4> HIDE DEF m, n
        <4>b. w = z /\ m = n  BY <1>u, <4>a
        <4>3. QED  BY <1>5, <4>b DEF m, n
      <3>3. QED  BY <3>1, <3>2 DEF Usable
    <2>2. QED  BY <2>1 DEF Usable
  <1>8. ASSUME NEW z \in Keys, NEW i \in 1..Len(D[z])
        PROVE  D[z][i] # x
    <2> DEFINE n == g(z, i)
    <2>1. n \in 1..Len(C[z]) /\ D[z][i] = C[z][n] /\ (z = y => n # f)
      BY <1>4
    <2> HIDE DEF n
    <2>2. C[z][n] = C[y][f] => z = y /\ n = f  BY <1>u, <2>1
    <2>3. QED  BY <2>1, <2>2
  <1>9. Absent(x, D)  BY <1>8, Zenon DEF Absent
  <1>10. Keeps(D, C, x)  BY <1>6, Zenon DEF Keeps
  <1>11. QED  BY <1>2, <1>7, <1>9, <1>10

(* A session that is in no queue changes: it is not left idle. *)
LEMMA Change ==
  ASSUME NEW C, NEW S, Tables(C, S), Usable(C, S), NEW x \in Sessions,
         Absent(x, C), OthersReusable(C, S, x),
         NEW v \in Session, v.life = "up" => v.want > 0, NEW T, T = [S EXCEPT ![x] = v]
  PROVE  Tables(C, T) /\ Usable(C, T) /\ Reusable(C, T)
  <1>1. T \in [Sessions -> Session] /\ T[x] = v
        /\ \A s \in Sessions \ {x} : T[s] = S[s]
    BY DEF Tables
  <1>2. Tables(C, T)  BY <1>1 DEF Tables
  <1>3. ASSUME NEW y \in Keys, NEW i \in 1..Len(C[y])
        PROVE  C[y][i] \in Sessions \ {x}
    BY <1>2 DEF Tables, Absent
  <1>4. Usable(C, T)  BY <1>1, <1>3 DEF Usable
  <1>5. Reusable(C, T)  BY <1>1, Zenon DEF Reusable, OthersReusable
  <1>6. QED  BY <1>2, <1>4, <1>5

LEMMA Remove ==
  ASSUME NEW C, NEW S, Tables(C, S), Usable(C, S), Reusable(C, S),
         NEW y \in Keys, NEW f \in 1..Len(C[y]), NEW q, Without(q, C[y], f),
         NEW x \in Sessions, x = C[y][f], NEW D, D = [C EXCEPT ![y] = q],
         NEW v \in Session, v.life = "up" => v.want > 0, NEW T,
         T = [S EXCEPT ![x] = v]
  PROVE  Tables(D, T) /\ Usable(D, T) /\ Reusable(D, T)
  <1>1. Tables(D, S) /\ Usable(D, S) /\ Absent(x, D) /\ Keeps(D, C, x)
    BY Shrink
  <1>2. OthersReusable(D, S, x)
    <2>1. ASSUME NEW s \in Sessions \ {x}, S[s].life = "up"
          PROVE  \/ S[s].want > 0
                 \/ \E i \in 1..Len(D[S[s].key]) : D[S[s].key][i] = s
      <3>1. CASE S[s].want > 0  BY <3>1
      <3>2. CASE \E i \in 1..Len(C[S[s].key]) : C[S[s].key][i] = s
        <4>1. S[s].key \in Keys  BY DEF Session, Tables
        <4>2. QED  BY <1>1, <3>2, <4>1 DEF Keeps
      <3>3. QED  BY <2>1, <3>1, <3>2 DEF Reusable
    <2>2. QED  BY <2>1, Zenon DEF OthersReusable
  <1>3. QED  BY <1>1, <1>2, Change

-----------------------------------------------------------------------------
(* How a handler ends: the caller is answered, or waits for a session *)

LEMMA Answered ==
  ASSUME TypeOK, NEW k \in Callers, NEW b \in {"open", "refused"},
         Ready(k, conns', sess'), Answer(k, b), UNCHANGED fault
  PROVE  IInv'
  <1>1. /\ call' \in [Callers -> {"idle", "waiting", "open", "refused"}]
        /\ at' \in [Callers -> Sessions \cup {NoSession}]
        /\ call'[k] = b
        /\ \A j \in Callers \ {k} : call'[j] = call[j] /\ at'[j] = at[j]
    BY DEF Answer, TypeOK
  <1>2. TypeOK'  BY <1>1 DEF TypeOK, Ready, Tables
  <1>3. Wanted(Callers, sess', call', at')
    BY <1>1, Zenon DEF Ready, Wanted
  <1>4. Waiting(Callers, sess', call', at')
    <2>1. ASSUME NEW j \in Callers, NEW s \in Sessions,
                 call'[j] = "waiting", at'[j] = s
          PROVE  /\ sess'[s].cb = j
                 /\ sess'[s].want > 0 \/ sess'[s].life \in {"leaving", "closed"}
      <3>1. j # k  BY <1>1, <2>1
      <3>2. call[j] = "waiting" /\ at[j] = s  BY <1>1, <2>1, <3>1
      <3>3. QED  BY <3>1, <3>2 DEF Ready, Waiting
    <2>2. QED  BY <2>1, Zenon DEF Waiting
  <1>5. QED  BY <1>2, <1>3, <1>4 DEF IInv, Ready

LEMMA Awaited ==
  ASSUME TypeOK, NEW k \in Callers, NEW S, NEW x \in Sessions,
         S \in [Sessions -> Session],
         Wanted(Callers \ {k}, S, call, at), Waiting(Callers \ {k}, S, call, at),
         S[x].want = 0, S[x].life \in {"unused", "up"},
         NEW v \in Session, v.cb = k, v.want = 1, v.life \in {"handshake", "up"},
         sess' = [S EXCEPT ![x] = v], Await(k, x), UNCHANGED fault,
         Tables(conns', sess'), Usable(conns', sess'), Reusable(conns', sess')
  PROVE  IInv'
  <1>1. /\ call' \in [Callers -> {"idle", "waiting", "open", "refused"}]
        /\ at' \in [Callers -> Sessions \cup {NoSession}]
        /\ call'[k] = "waiting" /\ at'[k] = x
        /\ \A j \in Callers \ {k} : call'[j] = call[j] /\ at'[j] = at[j]
    BY DEF Await, TypeOK
  <1>2. sess'[x] = v /\ \A s \in Sessions \ {x} : sess'[s] = S[s]
    OBVIOUS
  <1>3. TypeOK'  BY <1>1 DEF TypeOK, Tables
  <1>4. Wanted(Callers, sess', call', at')
    <2>1. ASSUME NEW s \in Sessions, sess'[s].want > 0
          PROVE  /\ sess'[s].want = 1 /\ sess'[s].life \in {"handshake", "up"}
                 /\ sess'[s].cb \in Callers /\ call'[sess'[s].cb] = "waiting"
                 /\ at'[sess'[s].cb] = s
      <3>1. CASE s = x  BY <1>1, <1>2, <3>1
      <3>2. CASE s # x
        <4>1. sess'[s] = S[s] /\ S[s].want > 0  BY <1>2, <2>1, <3>2
        <4>2. /\ S[s].want = 1 /\ S[s].life \in {"handshake", "up"}
              /\ S[s].cb \in Callers \ {k} /\ call[S[s].cb] = "waiting"
              /\ at[S[s].cb] = s
          BY <4>1, Zenon DEF Wanted
        <4>3. QED  BY <1>1, <4>1, <4>2
      <3>3. QED  BY <3>1, <3>2
    <2>2. QED  BY <2>1, Zenon DEF Wanted
  <1>5. Waiting(Callers, sess', call', at')
    <2>1. ASSUME NEW j \in Callers, NEW s \in Sessions,
                 call'[j] = "waiting", at'[j] = s
          PROVE  /\ sess'[s].cb = j
                 /\ sess'[s].want > 0 \/ sess'[s].life \in {"leaving", "closed"}
      <3>1. CASE j = k  BY <1>1, <1>2, <2>1, <3>1
      <3>2. CASE j # k
        <4>1. call[j] = "waiting" /\ at[j] = s  BY <1>1, <2>1, <3>2
        <4>2. /\ S[s].cb = j
              /\ S[s].want > 0 \/ S[s].life \in {"leaving", "closed"}
          BY <3>2, <4>1, Zenon DEF Waiting
        <4>3. s # x  BY <4>2
        <4>4. QED  BY <1>2, <4>2, <4>3
      <3>3. QED  BY <3>1, <3>2
    <2>2. QED  BY <2>1, Zenon DEF Waiting
  <1>6. QED  BY <1>3, <1>4, <1>5 DEF IInv

LEMMA FreshInv ==
  ASSUME TypeOK, NEW k \in Callers, NEW y \in Keys, NEW S,
         Ready(k, conns', S), quic_connect_fresh(k, y, S), UNCHANGED fault
  PROVE  IInv'
  <1>1. CASE sess' = S /\ Answer(k, "refused")
    BY <1>1, Answered
  <1>2. ASSUME NEW x \in Sessions, S[x].life = "unused",
               sess' = [S EXCEPT ![x] = [life |-> "handshake", key |-> y, cb |-> k,
                                         from_pool |-> FALSE, want |-> 1]],
               Await(k, x)
        PROVE  IInv'
    <2> DEFINE v == [life |-> "handshake", key |-> y, cb |-> k,
                     from_pool |-> FALSE, want |-> 1]
    <2>1. /\ v \in Session /\ v.cb = k /\ v.want = 1 /\ v.life = "handshake"
      BY DEF Session
    <2>2. sess' = [S EXCEPT ![x] = v]  BY <1>2
    <2> HIDE DEF v
    <2>3. Tables(conns', S) /\ Usable(conns', S) /\ Reusable(conns', S)
          /\ S \in [Sessions -> Session]
      BY DEF Ready, Tables
    <2>4. S[x].want = 0
      <3>1. S[x].want \in Nat  BY <2>3 DEF Session
      <3>2. ~(S[x].want > 0)
        <4>1. S[x].want > 0 => S[x].life \in {"handshake", "up"}
          BY Zenon DEF Ready, Wanted
        <4>2. QED  BY <1>2, <4>1
      <3>3. QED  BY <3>1, <3>2
    <2>5. Absent(x, conns')  BY <1>2, <2>3 DEF Usable, Absent
    <2>6. OthersReusable(conns', S, x)  BY <2>3, Zenon DEF Reusable, OthersReusable
    <2>7. Tables(conns', sess') /\ Usable(conns', sess') /\ Reusable(conns', sess')
      BY <2>1, <2>2, <2>3, <2>5, <2>6, Change
    <2>8. /\ Wanted(Callers \ {k}, S, call, at)
          /\ Waiting(Callers \ {k}, S, call, at)
      BY DEF Ready
    <2>9. v.life \in {"handshake", "up"} /\ S[x].life \in {"unused", "up"}
      BY <1>2, <2>1
    <2>10. Await(k, x)  BY <1>2
    <2>11. QED
      BY <2>1, <2>2, <2>3, <2>4, <2>7, <2>8, <2>9, <2>10, Awaited, Zenon
  <1>3. QED  BY <1>1, <1>2 DEF quic_connect_fresh

LEMMA ConnectInv ==
  ASSUME TypeOK, NEW k \in Callers, NEW y \in Keys, NEW C, NEW S,
         Ready(k, C, S), quic_connect(k, y, C, S), UNCHANGED fault
  PROVE  IInv'
  <1>1. CASE C[y] = <<>> /\ conns' = C /\ quic_connect_fresh(k, y, S)
    BY <1>1, FreshInv
  <1>2. CASE /\ C[y] # <<>>
             /\ conns' = [C EXCEPT ![y] = Tail(@)]
             /\ sess' = [S EXCEPT ![Head(C[y])] = async_open_stream(@, k, TRUE)]
             /\ Await(k, Head(C[y]))
    <2> DEFINE x == Head(C[y])
               v == async_open_stream(S[x], k, TRUE)
               q == Tail(C[y])
    <2>0. /\ Tables(C, S) /\ Usable(C, S) /\ Reusable(C, S)
          /\ S \in [Sessions -> Session] /\ C[y] \in Seq(Sessions)
      BY DEF Ready, Tables
    <2>1. /\ 1 \in 1..Len(C[y]) /\ C[y][1] = x /\ x \in Sessions
          /\ Without(q, C[y], 1)
      BY <1>2, <2>0, TailFacts
    <2>2. S[x].life = "up" /\ S[x].key = y /\ S[x].want = 0
      BY <2>0, <2>1 DEF Usable
    <2>3. /\ v \in Session /\ v.cb = k /\ v.want = 1 /\ v.life = "up"
      <3>1. S[x] \in Session  BY <2>0, <2>1
      <3> DEFINE r == S[x]
      <3>3. /\ r \in Session /\ r.life = "up" /\ r.want = 0
            /\ v = [r EXCEPT !.cb = k, !.from_pool = TRUE, !.want = 1]
        BY <2>2, <3>1 DEF async_open_stream, Live
      <3> HIDE DEF x, v, r
      <3>4. v.cb = k /\ v.want = 1 /\ v.life = "up"  BY <3>3 DEF Session
      <3>5. 1 \in Nat /\ TRUE \in BOOLEAN /\ k \in Callers \cup {NoCaller}
        OBVIOUS
      <3>6. v \in Session  BY <3>3, <3>5, Zenon DEF Session
      <3>7. QED  BY <3>4, <3>6
    <2>4. conns' = [C EXCEPT ![y] = q] /\ sess' = [S EXCEPT ![x] = v]
      BY <1>2
    <2> HIDE DEF v, q, x
    <2>5. v.life = "up" => v.want > 0  BY <2>3
    <2>8. Tables(conns', sess') /\ Usable(conns', sess') /\ Reusable(conns', sess')
      BY <2>0, <2>1, <2>3, <2>4, <2>5, Remove
    <2>9. /\ Wanted(Callers \ {k}, S, call, at)
          /\ Waiting(Callers \ {k}, S, call, at)
      BY DEF Ready
    <2>10. v.life \in {"handshake", "up"} /\ S[x].life \in {"unused", "up"}
      BY <2>2, <2>3
    <2>11. Await(k, x)  BY <1>2 DEF x
    <2>12. QED
      BY <2>0, <2>1, <2>2, <2>3, <2>4, <2>8, <2>9, <2>10, <2>11, Awaited, Zenon
  <1>3. QED  BY <1>1, <1>2 DEF quic_connect

-----------------------------------------------------------------------------
(* The actions *)

(* A session that a stream was opened on comes into the pool. *)
LEMMA Added ==
  ASSUME NEW C, NEW S, Tables(C, S), Usable(C, S), Reusable(C, S),
         NEW y \in Keys, NEW x \in Sessions, Absent(x, C),
         NEW v \in Session, v.life = "up", v.key = y, v.want = 0,
         NEW D, D = [C EXCEPT ![y] = Append(@, x)],
         NEW T, T = [S EXCEPT ![x] = v]
  PROVE  Tables(D, T) /\ Usable(D, T) /\ Reusable(D, T)
  <1>1. /\ C \in [Keys -> Seq(Sessions)] /\ S \in [Sessions -> Session]
        /\ \A z \in Keys : Len(C[z]) \in Nat
    BY DEF Tables
  <1>2. Tables(D, T)  BY <1>1 DEF Tables
  <1>3. T[x] = v /\ \A s \in Sessions \ {x} : T[s] = S[s]  BY <1>1
  <1>4. /\ \A z \in Keys \ {y} : D[z] = C[z]
        /\ Len(D[y]) = Len(C[y]) + 1 /\ D[y][Len(C[y]) + 1] = x
        /\ \A i \in 1..Len(C[y]) : D[y][i] = C[y][i]
    BY <1>1
  <1>5. ASSUME NEW z \in Keys, NEW i \in 1..Len(D[z])
        PROVE  \/ /\ i \in 1..Len(C[z]) /\ D[z][i] = C[z][i]
                  /\ D[z][i] \in Sessions \ {x}
               \/ z = y /\ i = Len(C[y]) + 1 /\ D[z][i] = x
    <2>1. CASE i \in 1..Len(C[z])
      <3>1. D[z][i] = C[z][i]  BY <1>4, <2>1
      <3>2. C[z][i] \in Sessions /\ C[z][i] # x  BY <1>1, <2>1 DEF Absent
      <3>3. QED  BY <2>1, <3>1, <3>2
    <2>2. CASE i \notin 1..Len(C[z])
      <3>1. z = y  BY <1>4, <2>2
      <3>2. i = Len(C[y]) + 1  BY <1>1, <1>4, <2>2, <3>1
      <3>3. QED  BY <1>4, <3>1, <3>2
    <2>3. QED  BY <2>1, <2>2
  <1>u. \A z, w \in Keys : \A n \in 1..Len(C[z]) : \A m \in 1..Len(C[w]) :
          C[w][m] = C[z][n] => w = z /\ m = n
    BY DEF Usable
  <1>6. Usable(D, T)
    <2>1. ASSUME NEW z \in Keys, NEW i \in 1..Len(D[z])
          PROVE  /\ T[D[z][i]].life = "up" /\ T[D[z][i]].key = z
                 /\ T[D[z][i]].want = 0
                 /\ \A w \in Keys : \A j \in 1..Len(D[w]) :
                      D[w][j] = D[z][i] => w = z /\ j = i
      <3>1. ASSUME NEW w \in Keys, NEW j \in 1..Len(D[w]), D[w][j] = D[z][i]
            PROVE  w = z /\ j = i
        BY <1>5, <1>u, <3>1
      <3>2. T[D[z][i]].life = "up" /\ T[D[z][i]].key = z /\ T[D[z][i]].want = 0
        <4>1. CASE D[z][i] = x  BY <1>3, <1>5, <4>1
        <4>2. CASE /\ i \in 1..Len(C[z]) /\ D[z][i] = C[z][i]
                   /\ D[z][i] \in Sessions \ {x}
          BY <1>3, <4>2 DEF Usable
        <4>3. QED  BY <1>5, <4>1, <4>2
      <3>3. QED  BY <3>1, <3>2
    <2>2. QED  BY <2>1 DEF Usable
  <1>7. Reusable(D, T)
    <2>1. ASSUME NEW s \in Sessions, T[s].life = "up"
          PROVE  \/ T[s].want > 0
                 \/ \E i \in 1..Len(D[T[s].key]) : D[T[s].key][i] = s
      <3>1. CASE s = x
        <4>1. Len(C[y]) + 1 \in 1..Len(D[y])  BY <1>1, <1>4
        <4>2. QED  BY <1>3, <1>4, <3>1, <4>1
      <3>2. CASE s # x
        <4>1. T[s] = S[s] /\ S[s].key \in Keys  BY <1>1, <1>3, <3>2 DEF Session
        <4>2. \/ S[s].want > 0
              \/ \E i \in 1..Len(C[S[s].key]) : C[S[s].key][i] = s
          BY <2>1, <4>1, Zenon DEF Reusable
        <4>3. \A z \in Keys : \A i \in 1..Len(C[z]) :
                i \in 1..Len(D[z]) /\ D[z][i] = C[z][i]
          BY <1>1, <1>4
        <4>4. QED  BY <4>1, <4>2, <4>3
      <3>3. QED  BY <3>1, <3>2
    <2>2. QED  BY <2>1, Zenon DEF Reusable
  <1>8. QED  BY <1>2, <1>6, <1>7

(* Whoever waits for a stream of s is left to the handler. *)
LEMMA Taken ==
  ASSUME IInv, NEW s \in Sessions, sess[s].want > 0, NEW v \in Session, v.want = 0
  PROVE  LET k == sess[s].cb
             T == [sess EXCEPT ![s] = v]
         IN  /\ k \in Callers /\ call[k] = "waiting" /\ at[k] = s
             /\ sess[s].want = 1 /\ Absent(s, conns)
             /\ Wanted(Callers \ {k}, T, call, at)
             /\ Waiting(Callers \ {k}, T, call, at)
  <1> DEFINE k == sess[s].cb
             T == [sess EXCEPT ![s] = v]
  <1>1. /\ sess \in [Sessions -> Session]
        /\ Wanted(Callers, sess, call, at) /\ Waiting(Callers, sess, call, at)
    BY DEF IInv, TypeOK
  <1>2. /\ k \in Callers /\ call[k] = "waiting" /\ at[k] = s /\ sess[s].want = 1
    BY <1>1, Zenon DEF Wanted
  <1>3. Absent(s, conns)
    BY <1>2 DEF IInv, Usable, Absent
  <1>4. T[s] = v /\ \A x \in Sessions \ {s} : T[x] = sess[x]  BY <1>1
  <1>5. Wanted(Callers \ {k}, T, call, at)
    <2>1. ASSUME NEW x \in Sessions, T[x].want > 0
          PROVE  /\ T[x].want = 1 /\ T[x].life \in {"handshake", "up"}
                 /\ T[x].cb \in Callers \ {k} /\ call[T[x].cb] = "waiting"
                 /\ at[T[x].cb] = x
      <3>1. x # s  BY <1>4, <2>1
      <3>2. T[x] = sess[x] /\ sess[x].want > 0  BY <1>4, <2>1, <3>1
      <3>3. /\ sess[x].want = 1 /\ sess[x].life \in {"handshake", "up"}
            /\ sess[x].cb \in Callers /\ call[sess[x].cb] = "waiting"
            /\ at[sess[x].cb] = x
        BY <1>1, <3>2, Zenon DEF Wanted
      <3>4. QED  BY <1>2, <3>1, <3>2, <3>3
    <2>2. QED  BY <2>1, Zenon DEF Wanted
  <1>6. Waiting(Callers \ {k}, T, call, at)
    <2>1. ASSUME NEW j \in Callers \ {k}, NEW x \in Sessions,
                 call[j] = "waiting", at[j] = x
          PROVE  /\ T[x].cb = j
                 /\ T[x].want > 0 \/ T[x].life \in {"leaving", "closed"}
      <3>1. /\ sess[x].cb = j
            /\ sess[x].want > 0 \/ sess[x].life \in {"leaving", "closed"}
        BY <1>1, <2>1, Zenon DEF Waiting
      <3>2. x # s  BY <3>1
      <3>3. QED  BY <1>4, <3>1, <3>2
    <2>2. QED  BY <2>1, Zenon DEF Waiting
  <1>7. QED  BY <1>2, <1>3, <1>5, <1>6

LEMMA IdleReady ==
  ASSUME IInv, NEW k \in Callers, call[k] # "waiting"
  PROVE  TypeOK /\ Ready(k, conns, sess)
  <1>1. Wanted(Callers \ {k}, sess, call, at)
    <2>1. ASSUME NEW s \in Sessions, sess[s].want > 0
          PROVE  /\ sess[s].want = 1 /\ sess[s].life \in {"handshake", "up"}
                 /\ sess[s].cb \in Callers \ {k} /\ call[sess[s].cb] = "waiting"
                 /\ at[sess[s].cb] = s
      BY <2>1 DEF IInv, Wanted
    <2>2. QED  BY <2>1, Zenon DEF Wanted
  <1>2. Waiting(Callers \ {k}, sess, call, at)
    BY Zenon DEF IInv, Waiting
  <1>3. QED  BY <1>1, <1>2 DEF IInv, Ready, Tables, TypeOK

LEMMA StreamOpenedInv ==
  ASSUME IInv, NEW s \in Sessions, StreamOpened(s)
  PROVE  IInv'
  <1> DEFINE k == sess[s].cb
             y == sess[s].key
             v == [sess[s] EXCEPT !.life = "up", !.want = 0]
  <1>1. TypeOK /\ sess \in [Sessions -> Session] /\ sess[s] \in Session
    BY DEF IInv, TypeOK
  <1>2. v \in Session /\ v.want = 0 /\ v.life = "up" /\ v.key = y /\ y \in Keys
    BY <1>1 DEF Session
  <1>3. sess[s].want > 0 /\ Answer(k, "open") /\ UNCHANGED fault
        /\ conns' = [conns EXCEPT ![y] = Append(@, s)]
    BY DEF StreamOpened
  <1>4. sess[s].want = 1  BY <1>3, Zenon DEF IInv, Wanted
  <1>5. sess' = [sess EXCEPT ![s] = v]
    BY <1>4 DEF StreamOpened
  <1> HIDE DEF k, y, v
  <1>7. /\ k \in Callers /\ Absent(s, conns)
        /\ Wanted(Callers \ {k}, sess', call, at)
        /\ Waiting(Callers \ {k}, sess', call, at)
    <2>1. v \in Session /\ v.want = 0 /\ sess[s].want > 0  BY <1>2, <1>3
    <2>2. QED  BY <1>5, <2>1, Taken, Zenon DEF k
  <1>8. Tables(conns, sess) /\ Usable(conns, sess) /\ Reusable(conns, sess)
    BY DEF IInv, TypeOK, Tables
  <1>9. Tables(conns', sess') /\ Usable(conns', sess') /\ Reusable(conns', sess')
    BY <1>2, <1>3, <1>5, <1>7, <1>8, Added
  <1>10. Ready(k, conns', sess')  BY <1>7, <1>9 DEF Ready
  <1>11. QED  BY <1>1, <1>3, <1>7, <1>10, Answered

LEMMA NullStreamInv ==
  ASSUME IInv, NEW s \in Sessions, NullStream(s)
  PROVE  IInv'
  <1> DEFINE k == sess[s].cb
             y == sess[s].key
             v == [sess[s] EXCEPT !.life = "leaving", !.want = 0]
             S == [sess EXCEPT ![s] = v]
             C == remove_quic_conn(conns, y, s)
  <1>1. TypeOK /\ sess \in [Sessions -> Session] /\ sess[s] \in Session
    BY DEF IInv, TypeOK
  <1>2. /\ v \in Session /\ v.want = 0 /\ v.life = "leaving" /\ v.cb = k
        /\ y \in Keys
    BY <1>1 DEF Session
  <1>3. sess[s].want > 0  BY DEF NullStream
  <1>4. sess[s].want = 1  BY <1>3, Zenon DEF IInv, Wanted
  <1>5. [sess EXCEPT ![s] = [sess[s] EXCEPT !.life = "leaving", !.want = @ - 1]] = S
    BY <1>4
  <1>6. \/ quic_connect(k, y, C, S) /\ UNCHANGED fault
        \/ conns' = C /\ sess' = S /\ Answer(k, "refused") /\ UNCHANGED fault
        \/ sess' = S /\ UNCHANGED <<conns, call, at, fault>>
        \/ fault' = "null_stream" /\ UNCHANGED <<conns, sess, call, at>>
    BY <1>5 DEF NullStream
  <1>7. k = sess[s].cb /\ S = [sess EXCEPT ![s] = v]  OBVIOUS
  <1>8. Absent(s, conns) => C = conns
    BY <1>2 DEF Absent, remove_quic_conn
  <1>9. S[s] = v /\ \A x \in Sessions \ {s} : S[x] = sess[x]  BY <1>1
  <1> HIDE DEF k, y, v, S, C
  <1>a. v \in Session /\ v.want = 0  BY <1>2
  <1>10. /\ k \in Callers /\ call[k] = "waiting" /\ at[k] = s /\ Absent(s, conns)
         /\ Wanted(Callers \ {k}, S, call, at)
         /\ Waiting(Callers \ {k}, S, call, at)
    BY <1>a, <1>3, Taken, Zenon DEF k, S
  <1>11. Tables(conns, sess) /\ Usable(conns, sess) /\ Reusable(conns, sess)
    BY DEF IInv, TypeOK, Tables
  <1>12. OthersReusable(conns, sess, s)
    BY <1>11, Zenon DEF Reusable, OthersReusable
  <1>13. Tables(conns, S) /\ Usable(conns, S) /\ Reusable(conns, S)
    BY <1>2, <1>7, <1>10, <1>11, <1>12, Change
  <1>14. Ready(k, C, S)  BY <1>8, <1>10, <1>13 DEF Ready
  <1>15. CASE quic_connect(k, y, C, S) /\ UNCHANGED fault
    BY <1>1, <1>2, <1>10, <1>14, <1>15, ConnectInv
  <1>16. CASE conns' = C /\ sess' = S /\ Answer(k, "refused") /\ UNCHANGED fault
    <2>1. Ready(k, conns', sess')  BY <1>14, <1>16
    <2>2. QED  BY <1>1, <1>10, <1>16, <2>1, Answered
  <1>17. CASE sess' = S /\ UNCHANGED <<conns, call, at, fault>>
    <2>1. Wanted(Callers, S, call, at)
      BY <1>10, Zenon DEF Wanted
    <2>2. Waiting(Callers, S, call, at)
      <3>1. ASSUME NEW j \in Callers, NEW x \in Sessions,
                   call[j] = "waiting", at[j] = x
            PROVE  /\ S[x].cb = j
                   /\ S[x].want > 0 \/ S[x].life \in {"leaving", "closed"}
        <4>1. CASE j = k  BY <1>2, <1>9, <1>10, <3>1, <4>1
        <4>2. CASE j # k  BY <1>10, <3>1, <4>2, Zenon DEF Waiting
        <4>3. QED  BY <4>1, <4>2
      <3>2. QED  BY <3>1, Zenon DEF Waiting
    <2>3. TypeOK'  BY <1>1, <1>13, <1>17 DEF TypeOK, Tables
    <2>4. QED  BY <1>13, <1>17, <2>1, <2>2, <2>3 DEF IInv
  <1>18. CASE fault' = "null_stream" /\ UNCHANGED <<conns, sess, call, at>>
    <2>1. TypeOK'  BY <1>1, <1>18 DEF TypeOK
    <2>2. QED  BY <1>18, <2>1 DEF IInv
  <1>19. QED  BY <1>6, <1>15, <1>16, <1>17, <1>18

LEMMA ConnClosedInv ==
  ASSUME IInv, NEW s \in Sessions, ConnClosed(s)
  PROVE  IInv'
  <1> DEFINE y == sess[s].key
             q == conns[y]
             v == [sess[s] EXCEPT !.life = "closed"]
  <1>1. /\ TypeOK /\ sess \in [Sessions -> Session] /\ sess[s] \in Session
        /\ conns \in [Keys -> Seq(Sessions)]
    BY DEF IInv, TypeOK
  <1>2. /\ v \in Session /\ v.want = sess[s].want /\ v.life = "closed"
        /\ v.cb = sess[s].cb /\ y \in Keys /\ q \in Seq(Sessions)
    BY <1>1 DEF Session
  <1>3. /\ sess' = [sess EXCEPT ![s] = v] /\ sess[s].want = 0
        /\ conns' = remove_quic_conn(conns, y, s) /\ UNCHANGED <<call, at, fault>>
    BY DEF ConnClosed
  <1>4. Tables(conns, sess) /\ Usable(conns, sess) /\ Reusable(conns, sess)
    BY DEF IInv, TypeOK, Tables
  <1>5. v.life = "up" => v.want > 0  BY <1>2
  <1>6. Tables(conns', sess') /\ Usable(conns', sess') /\ Reusable(conns', sess')
    <2>1. CASE \E i \in 1..Len(q) : q[i] = s
      <3> DEFINE P(i) == q[i] = s /\ \A j \in 1..i - 1 : q[j] # s
                 f == CHOOSE i \in 1..Len(q) : P(i)
                 p == SubSeq(q, 1, f - 1) \o SubSeq(q, f + 1, Len(q))
      <3>1. PICK i \in 1..Len(q) : q[i] = s  BY <2>1
      <3>2. \A j \in 1..Len(q) : q[j] = s => j = i
        BY <1>2, <1>4, <3>1 DEF Usable
      <3>3. P(i)
        <4>1. \A j \in 1..i - 1 : j \in 1..Len(q) /\ j # i
          <5>1. Len(q) \in Nat  BY <1>2
          <5>2. QED  BY <5>1
        <4>2. QED  BY <3>1, <3>2, <4>1
      <3> HIDE DEF P
      <3>4. f \in 1..Len(q) /\ P(f)  BY <3>3
      <3>5. q[f] = s  BY <3>4 DEF P
      <3>6. conns' = [conns EXCEPT ![y] = p]
        BY <1>3, <2>1, Zenon DEF remove_quic_conn, P
      <3> HIDE DEF f
      <3>7. Without(p, q, f)  BY <1>2, <3>4, DropFacts
      <3> HIDE DEF p, q, v, y
      <3>8. f \in 1..Len(conns[y]) /\ s = conns[y][f] /\ Without(p, conns[y], f)
        BY <3>4, <3>5, <3>7 DEF q
      <3>9. v \in Session /\ y \in Keys /\ sess' = [sess EXCEPT ![s] = v]
        BY <1>2, <1>3
      <3>10. QED
        BY <1>4, <1>5, <3>6, <3>8, <3>9, Remove
    <2>2. CASE ~(\E i \in 1..Len(q) : q[i] = s)
      <3>1. conns' = conns  BY <1>3, <2>2, Zenon DEF remove_quic_conn
      <3>2. Absent(s, conns)  BY <1>4, <2>2 DEF Usable, Absent
      <3>3. OthersReusable(conns, sess, s)
        BY <1>4, Zenon DEF Reusable, OthersReusable
      <3> HIDE DEF v
      <3>4. Tables(conns, sess') /\ Usable(conns, sess') /\ Reusable(conns, sess')
        BY <1>2, <1>3, <1>4, <1>5, <3>2, <3>3, Change
      <3>5. QED  BY <3>1, <3>4
    <2>3. QED  BY <2>1, <2>2
  <1> HIDE DEF v, y
  <1>7. sess'[s] = v /\ \A x \in Sessions \ {s} : sess'[x] = sess[x]
    BY <1>1, <1>3
  <1>8. Wanted(Callers, sess', call', at')
    <2>1. Wanted(Callers, sess, call, at)  BY DEF IInv
    <2>2. ASSUME NEW x \in Sessions, sess'[x].want > 0
          PROVE  /\ sess'[x].want = 1 /\ sess'[x].life \in {"handshake", "up"}
                 /\ sess'[x].cb \in Callers /\ call[sess'[x].cb] = "waiting"
                 /\ at[sess'[x].cb] = x
      <3>1. x # s  BY <1>2, <1>3, <1>7, <2>2
      <3>2. sess'[x] = sess[x]  BY <1>7, <3>1
      <3>3. QED  BY <2>1, <2>2, <3>2 DEF Wanted
    <2>3. QED  BY <1>3, <2>2, Zenon DEF Wanted
  <1>9. Waiting(Callers, sess', call', at')
    <2>1. Waiting(Callers, sess, call, at)  BY DEF IInv
    <2>2. ASSUME NEW j \in Callers, NEW x \in Sessions,
                 call[j] = "waiting", at[j] = x
          PROVE  /\ sess'[x].cb = j
                 /\ sess'[x].want > 0 \/ sess'[x].life \in {"leaving", "closed"}
      <3>1. /\ sess[x].cb = j
            /\ sess[x].want > 0 \/ sess[x].life \in {"leaving", "closed"}
        BY <2>1, <2>2, Zenon DEF Waiting
      <3>2. CASE x = s  BY <1>2, <1>7, <3>1, <3>2
      <3>3. CASE x # s  BY <1>7, <3>1, <3>3
      <3>4. QED  BY <3>2, <3>3
    <2>3. QED  BY <1>3, <2>2, Zenon DEF Waiting
  <1>10. TypeOK'  BY <1>1, <1>3, <1>6 DEF TypeOK, Tables
  <1>11. QED  BY <1>6, <1>8, <1>9, <1>10 DEF IInv

LEMMA DoneInv ==
  ASSUME IInv, NEW k \in Callers, Done(k)
  PROVE  IInv'
  <1>1. /\ call' \in [Callers -> {"idle", "waiting", "open", "refused"}]
        /\ call'[k] = "idle" /\ call[k] # "waiting"
        /\ \A j \in Callers \ {k} : call'[j] = call[j]
        /\ UNCHANGED <<conns, sess, at, fault>>
    BY DEF Done, IInv, TypeOK
  <1>2. TypeOK'  BY <1>1 DEF IInv, TypeOK
  <1>3. Wanted(Callers, sess', call', at')
    BY <1>1, Zenon DEF IInv, Wanted
  <1>4. Waiting(Callers, sess', call', at')
    <2>1. \A j \in Callers : call'[j] = "waiting" => call[j] = "waiting"
      BY <1>1
    <2>2. QED  BY <1>1, <2>1, Zenon DEF IInv, Waiting
  <1>5. QED  BY <1>1, <1>2, <1>3, <1>4 DEF IInv

LEMMA InitInv == Init => IInv
  <1> SUFFICES ASSUME Init PROVE IInv  OBVIOUS
  <1>1. NewSession \in Session /\ NewSession.life = "unused" /\ NewSession.want = 0
    <2>1. (CHOOSE y \in Keys : TRUE) \in Keys  BY QuicPoolAssumption
    <2>2. QED  BY <2>1 DEF NewSession, Session
  <1>2. \A y \in Keys : conns[y] = <<>> /\ Len(conns[y]) = 0  BY DEF Init
  <1>3. TypeOK  BY <1>1 DEF Init, TypeOK
  <1>4. Usable(conns, sess)  BY <1>2 DEF Usable
  <1>5. \A s \in Sessions : sess[s] = NewSession  BY DEF Init
  <1>6. Reusable(conns, sess)  BY <1>1, <1>5 DEF Reusable
  <1>7. Wanted(Callers, sess, call, at)  BY <1>1, <1>5 DEF Wanted
  <1>8. Waiting(Callers, sess, call, at)  BY DEF Init, Waiting
  <1>9. QED  BY <1>3, <1>4, <1>6, <1>7, <1>8 DEF IInv

LEMMA StepInv ==
  ASSUME IInv, [Next]_vars
  PROVE  IInv'
  <1>1. ASSUME NEW k \in Callers, NEW y \in Keys, async_connect(k, y)
        PROVE  IInv'
    <2>1. call[k] # "waiting" /\ quic_connect(k, y, conns, sess) /\ UNCHANGED fault
      BY <1>1 DEF async_connect
    <2>2. TypeOK /\ Ready(k, conns, sess)  BY <2>1, IdleReady
    <2>3. QED  BY <2>1, <2>2, ConnectInv
  <1>2. ASSUME NEW k \in Callers, NEW y \in Keys, async_connect_fresh(k, y)
        PROVE  IInv'
    <2>1. /\ call[k] # "waiting" /\ quic_connect_fresh(k, y, sess)
          /\ conns' = conns /\ UNCHANGED fault
      BY <1>2 DEF async_connect_fresh
    <2>2. TypeOK /\ Ready(k, conns, sess)  BY <2>1, IdleReady
    <2>3. Ready(k, conns', sess)  BY <2>1, <2>2
    <2>4. QED  BY <2>1, <2>2, <2>3, FreshInv
  <1>3. ASSUME NEW s \in Sessions, StreamOpened(s)  PROVE IInv'
    BY <1>3, StreamOpenedInv
  <1>4. ASSUME NEW s \in Sessions, NullStream(s)  PROVE IInv'
    BY <1>4, NullStreamInv
  <1>5. ASSUME NEW s \in Sessions, ConnClosed(s)  PROVE IInv'
    BY <1>5, ConnClosedInv
  <1>6. ASSUME NEW k \in Callers, Done(k)  PROVE IInv'
    BY <1>6, DoneInv
  <1>7. CASE UNCHANGED vars
    BY <1>7 DEF vars, IInv, TypeOK
  <1>8. QED  BY <1>1, <1>2, <1>3, <1>4, <1>5, <1>6, <1>7, Zenon DEF Next

-----------------------------------------------------------------------------
(* Theorems *)

(* The tables keep their types, and who waits for whom is as IInv says. *)
THEOREM Inductive == Spec => []IInv
  <1>1. IInv /\ [Next]_vars => IInv'  BY StepInv
  <1>2. QED  BY InitInv, <1>1, PTL DEF Spec

(* What quic_connect pops from quic_conns_ is an established connection to *)
(* the backend asked for, kept once, with no stream being opened on it.    *)
THEOREM PooledTheorem == Spec => []PooledUsable
  <1>1. IInv => PooledUsable  BY DEF IInv, Usable, PooledUsable
  <1>2. QED  BY Inductive, <1>1, PTL

(* async_open_stream never overwrites a callback that is still awaited. *)
THEOREM CallbackTheorem == Spec => []CallbackKept
  <1>1. IInv => CallbackKept  BY Zenon DEF IInv, Waiting, CallbackKept
  <1>2. QED  BY Inductive, <1>1, PTL

(* No established connection falls out of the pool: it is kept, or a       *)
(* stream is being opened on it.                                           *)
THEOREM NoneLostTheorem == Spec => []NoneLost
  <1>1. IInv => NoneLost  BY Zenon DEF IInv, Reusable, NoneLost
  <1>2. QED  BY Inductive, <1>1, PTL
=============================================================================
