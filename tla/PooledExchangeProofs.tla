------------------------ MODULE PooledExchangeProofs ------------------------
(***************************************************************************)
(* Proofs about the keep-alive pool, for every configuration of endpoints, *)
(* every number of relays and connections and every bound on the idle      *)
(* queues, and about the exchanges over its connections, for any number of *)
(* requests.  First UpstreamPool alone (IInv), then PooledExchange (XInv), *)
(* whose steps are steps of the pool, then the rotation of the pool        *)
(* (InTurn).                                                               *)
(***************************************************************************)
EXTENDS PooledExchange, TLAPS

-----------------------------------------------------------------------------
(* UpstreamPool *)

(* What makes the ownership of connections inductive: where a connection   *)
(* is agrees with its state, so that what is queued is held by nobody.     *)
Placed ==
  /\ \A k \in Callers : user[k] # NoConn => state[user[k]] \in {"dialing", "held"}
  /\ \A i \in Entry : \A m \in 1..Len(idle[i]) : state[idle[i][m]] = "idle"

HeldOnce ==
  \A k, l \in Callers : user[k] # NoConn /\ user[k] = user[l] => k = l

QueuedOnce ==
  \A i, j \in Entry : \A m \in 1..Len(idle[i]), n \in 1..Len(idle[j]) :
    idle[i][m] = idle[j][n] => i = j /\ m = n

IInv == /\ TypeOK /\ Placed /\ HeldOnce /\ QueuedOnce
        /\ QueuedWhereItLeads /\ IdleBounded

-----------------------------------------------------------------------------
(* Taking the front of a queue and adding to its back *)

LEMMA TailFacts ==
  ASSUME NEW S, NEW s \in Seq(S), s # <<>>
  PROVE  /\ Tail(s) \in Seq(S) /\ Len(Tail(s)) = Len(s) - 1
         /\ Len(s) \in Nat \ {0}
         /\ Head(s) = s[1] /\ Head(s) \in S
         /\ \A m \in 1..Len(Tail(s)) : Tail(s)[m] = s[m + 1]
                                       /\ m + 1 \in 1..Len(s)
  OBVIOUS

LEMMA AppendFacts ==
  ASSUME NEW S, NEW s \in Seq(S), NEW x \in S
  PROVE  /\ Append(s, x) \in Seq(S) /\ Len(Append(s, x)) = Len(s) + 1
         /\ Len(s) \in Nat
         /\ \A m \in 1..Len(Append(s, x)) :
              \/ m \in 1..Len(s) /\ Append(s, x)[m] = s[m]
              \/ m = Len(s) + 1 /\ Append(s, x)[m] = x
  OBVIOUS

LEMMA EntryBackends == \A i \in Entry : Backends[i] \in Endpoint
  BY PoolAssumption DEF Entry

-----------------------------------------------------------------------------
(* The initial state and each operation establish the invariant *)

LEMMA InitInv == Init => IInv
  <1> SUFFICES ASSUME Init PROVE IInv  OBVIOUS
  <1>1. TypeOK
    <2>1. (CHOOSE ep \in Endpoint : TRUE) \in Endpoint  BY PoolAssumption
    <2>2. QED  BY <2>1 DEF Init, TypeOK, State
  <1>2. \A i \in Entry : idle[i] = <<>>  BY DEF Init
  <1>3. \A k \in Callers : user[k] = NoConn  BY DEF Init
  <1>4. Placed /\ HeldOnce /\ QueuedOnce /\ QueuedWhereItLeads
    BY <1>2, <1>3 DEF Placed, HeldOnce, QueuedOnce, QueuedWhereItLeads
  <1>5. IdleBounded  BY <1>2, PoolAssumption DEF IdleBounded
  <1>6. QED  BY <1>1, <1>4, <1>5 DEF IInv

(* Starting a fresh connect for a caller that has none, or that drops the  *)
(* one it holds first.                                                     *)
LEMMA FreshInv ==
  ASSUME IInv, NEW k \in Callers, NEW ep \in Endpoint, NEW before,
         \/ user[k] = NoConn /\ before = state
         \/ user[k] # NoConn /\ before = [state EXCEPT ![user[k]] = "closed"],
         connect_fresh_to(k, ep, before), idle' = idle,
         rr_index' \in Nat, picks' \in [Entry -> Nat]
  PROVE  IInv'
  <1>0. before \in [Conns -> State]  BY Zenon DEF IInv, TypeOK, State
  <1>a. \A l \in Callers : l # k /\ user[l] # NoConn =>
           user[l] \in Conns /\ before[user[l]] = state[user[l]]
    <2> SUFFICES ASSUME NEW l \in Callers, l # k, user[l] # NoConn
                 PROVE  user[l] \in Conns /\ before[user[l]] = state[user[l]]
      OBVIOUS
    <2>1. user[l] \in Conns  BY DEF IInv, TypeOK
    <2>2. user[k] # NoConn => user[l] # user[k]  BY DEF IInv, HeldOnce
    <2>3. QED  BY <2>1, <2>2 DEF IInv, TypeOK
  <1>b. \A i \in Entry : \A m \in 1..Len(idle[i]) :
           idle[i][m] \in Conns /\ before[idle[i][m]] = "idle"
    <2> SUFFICES ASSUME NEW i \in Entry, NEW m \in 1..Len(idle[i])
                 PROVE  idle[i][m] \in Conns /\ before[idle[i][m]] = "idle"
      OBVIOUS
    <2>1. idle[i][m] \in Conns /\ state[idle[i][m]] = "idle"
      BY DEF IInv, TypeOK, Placed
    <2>2. user[k] # NoConn => user[k] # idle[i][m]
      BY <2>1 DEF IInv, Placed
    <2>3. QED  BY <2>1, <2>2 DEF IInv, TypeOK
  <1>c. QueuedOnce' /\ IdleBounded'
    BY DEF IInv, QueuedOnce, IdleBounded
  <1>1. CASE /\ fault' = "resolve" /\ state' = before
             /\ user' = [user EXCEPT ![k] = NoConn] /\ UNCHANGED target
    <2>1. TypeOK'  BY <1>1, <1>0 DEF IInv, TypeOK
    <2>2. \A l \in Callers : user'[l] = IF l = k THEN NoConn ELSE user[l]
      BY <1>1 DEF IInv, TypeOK
    <2>3. Placed'  BY <1>1, <1>a, <1>b, <2>2 DEF IInv, Placed
    <2>4. HeldOnce' /\ QueuedWhereItLeads'
      BY <1>1, <2>2 DEF IInv, HeldOnce, QueuedWhereItLeads
    <2>5. QED  BY <1>c, <2>1, <2>3, <2>4 DEF IInv
  <1>2. ASSUME NEW c \in Conns, before[c] = "unused",
               state' = [before EXCEPT ![c] = "dialing"],
               target' = [target EXCEPT ![c] = ep],
               user' = [user EXCEPT ![k] = c], UNCHANGED fault
        PROVE  IInv'
    <2>1. TypeOK'  BY <1>2, <1>0 DEF IInv, TypeOK, State
    <2>2. \A l \in Callers : l # k => user[l] # c
      BY <1>2, <1>a, PoolAssumption DEF IInv, Placed
    <2>3. \A l \in Callers : user'[l] = IF l = k THEN c ELSE user[l]
      BY <1>2 DEF IInv, TypeOK
    <2>4. \A i \in Entry : \A m \in 1..Len(idle[i]) : idle[i][m] # c
      BY <1>2, <1>b
    <2>5. Placed'
      <3>1. ASSUME NEW l \in Callers, user'[l] # NoConn
            PROVE  state'[user'[l]] \in {"dialing", "held"}
        <4>1. CASE l = k  BY <1>0, <1>2, <2>3, <4>1
        <4>2. CASE l # k
          <5>1. user'[l] = user[l] /\ user[l] \in Conns /\ user[l] # c
            BY <1>a, <2>2, <2>3, <3>1, <4>2
          <5>2. state'[user[l]] = before[user[l]]  BY <1>0, <1>2, <5>1
          <5>3. QED  BY <1>a, <3>1, <4>2, <5>1, <5>2 DEF IInv, Placed
        <4>3. QED  BY <4>1, <4>2
      <3>2. \A i \in Entry : \A m \in 1..Len(idle[i]) :
              state'[idle[i][m]] = "idle"
        BY <1>0, <1>2, <1>b, <2>4
      <3>3. QED  BY <3>1, <3>2 DEF Placed
    <2>6. HeldOnce'  BY <2>2, <2>3 DEF IInv, HeldOnce
    <2>7. QueuedWhereItLeads'
      BY <1>2, <1>b, <2>4 DEF IInv, QueuedWhereItLeads, TypeOK
    <2>8. QED  BY <1>c, <2>1, <2>5, <2>6, <2>7 DEF IInv
  <1>3. QED  BY <1>1, <1>2 DEF connect_fresh_to

LEMMA ConnectInv ==
  ASSUME IInv, NEW k \in Callers, NEW g \in Groups, async_connect(k, g)
  PROVE  IInv'
  <1>1. PICK i \in Entry :
          /\ picks' = [picks EXCEPT ![i] = @ + 1]
          /\ \/ /\ idle[i] # <<>>
                /\ idle' = [idle EXCEPT ![i] = Tail(@)]
                /\ user' = [user EXCEPT ![k] = Head(idle[i])]
                /\ state' = [state EXCEPT ![Head(idle[i])] = "held"]
                /\ UNCHANGED <<target, fault>>
             \/ /\ idle[i] = <<>>
                /\ UNCHANGED idle
                /\ connect_fresh_to(k, Backends[i], state)
    BY Zenon DEF async_connect, Candidates
  <1>2. user[k] = NoConn /\ rr_index' \in Nat /\ picks' \in [Entry -> Nat]
    <2>1. user[k] = NoConn /\ rr_index' = rr_index + 1  BY DEF async_connect
    <2>2. rr_index \in Nat /\ picks \in [Entry -> Nat]  BY DEF IInv, TypeOK
    <2>3. picks' = [picks EXCEPT ![i] = @ + 1]  BY <1>1
    <2>4. QED  BY <2>1, <2>2, <2>3
  <1>3. CASE idle[i] = <<>>
    BY <1>1, <1>2, <1>3, FreshInv, EntryBackends
  <1>4. CASE idle[i] # <<>>
    <2> DEFINE q == idle[i]
               c == Head(q)
    <2>1. /\ idle' = [idle EXCEPT ![i] = Tail(q)]
          /\ user' = [user EXCEPT ![k] = c]
          /\ state' = [state EXCEPT ![c] = "held"]
          /\ UNCHANGED <<target, fault>>
      BY <1>1, <1>4
    <2>2. q \in Seq(Conns)  BY DEF IInv, TypeOK
    <2>3. /\ Tail(q) \in Seq(Conns) /\ Len(Tail(q)) = Len(q) - 1
          /\ Len(q) \in Nat \ {0} /\ c = q[1] /\ c \in Conns
          /\ \A m \in 1..Len(Tail(q)) : Tail(q)[m] = q[m + 1]
                                        /\ m + 1 \in 1..Len(q)
      BY <1>4, <2>2, TailFacts
    <2>4. idle'[i] = Tail(q) /\ \A j \in Entry : j # i => idle'[j] = idle[j]
      BY <2>1 DEF IInv, TypeOK
    <2>5. TypeOK'
      BY <1>2, <2>1, <2>3 DEF IInv, TypeOK, State
    <2>6. state[c] = "idle" /\ 1 \in 1..Len(q)
      BY <2>3 DEF IInv, Placed
    <2>7. \A l \in Callers : user[l] # c
      <3>1. c # NoConn  BY <2>3, PoolAssumption
      <3>2. QED  BY <2>6, <3>1 DEF IInv, Placed
    (* Every place of the new queues is a place of the old ones, and none  *)
    (* of them is the front that was taken.                                *)
    <2>8. \A j \in Entry : \A m \in 1..Len(idle'[j]) :
            \E n \in 1..Len(idle[j]) :
              /\ idle'[j][m] = idle[j][n] /\ (j = i => n = m + 1)
              /\ (j # i => n = m)
      BY Zenon, <2>3, <2>4 DEF IInv, TypeOK
    <2>9. \A j \in Entry : \A n \in 1..Len(idle[j]) :
            idle[j][n] \in Conns /\ (idle[j][n] = c => j = i /\ n = 1)
      BY <2>3, <2>6 DEF IInv, QueuedOnce, TypeOK
    <2>10. \A j \in Entry : \A m \in 1..Len(idle'[j]) :
             /\ m \in Nat \ {0}
             /\ idle'[j][m] \in Conns /\ idle'[j][m] # c
      <3> SUFFICES ASSUME NEW j \in Entry, NEW m \in 1..Len(idle'[j])
                   PROVE  /\ m \in Nat \ {0}
                          /\ idle'[j][m] \in Conns /\ idle'[j][m] # c
        OBVIOUS
      <3>1. idle'[j] \in Seq(Conns)  BY <2>5 DEF TypeOK
      <3>2. m \in Nat \ {0}  BY <3>1
      <3>3. PICK n \in 1..Len(idle[j]) :
              idle'[j][m] = idle[j][n] /\ (j = i => n = m + 1)
        BY <2>8
      <3>4. QED  BY <2>9, <3>2, <3>3
    <2>11. Placed'
      <3>1. ASSUME NEW l \in Callers, user'[l] # NoConn
            PROVE  state'[user'[l]] \in {"dialing", "held"}
        BY <2>1, <2>3, <2>7, <3>1 DEF IInv, Placed, TypeOK
      <3>2. ASSUME NEW j \in Entry, NEW m \in 1..Len(idle'[j])
            PROVE  state'[idle'[j][m]] = "idle"
        <4>1. PICK n \in 1..Len(idle[j]) : idle'[j][m] = idle[j][n]
          BY <2>8
        <4>2. state[idle'[j][m]] = "idle"  BY <4>1 DEF IInv, Placed
        <4>3. QED  BY Zenon, <2>1, <2>10, <4>2 DEF IInv, TypeOK
      <3>3. QED  BY <3>1, <3>2 DEF Placed
    <2>12. HeldOnce'  BY <2>1, <2>7 DEF IInv, HeldOnce, TypeOK
    <2>13. QueuedOnce'
      <3> SUFFICES ASSUME NEW a \in Entry, NEW b \in Entry,
                          NEW m \in 1..Len(idle'[a]), NEW n \in 1..Len(idle'[b]),
                          idle'[a][m] = idle'[b][n]
                   PROVE  a = b /\ m = n
        BY DEF QueuedOnce
      <3>1. PICK m1 \in 1..Len(idle[a]) :
              /\ idle'[a][m] = idle[a][m1] /\ (a = i => m1 = m + 1)
              /\ (a # i => m1 = m)
        BY <2>8
      <3>2. PICK n1 \in 1..Len(idle[b]) :
              /\ idle'[b][n] = idle[b][n1] /\ (b = i => n1 = n + 1)
              /\ (b # i => n1 = n)
        BY <2>8
      <3>a. idle[a][m1] = idle[b][n1]  BY Zenon, <3>1, <3>2
      <3>3. a = b /\ m1 = n1  BY <3>a DEF IInv, QueuedOnce
      <3>4. m \in Nat /\ n \in Nat  BY <2>10
      <3>5. QED  BY <3>1, <3>2, <3>3, <3>4
    <2>14. QueuedWhereItLeads'
      <3> SUFFICES ASSUME NEW j \in Entry, NEW m \in 1..Len(idle'[j])
                   PROVE  target'[idle'[j][m]] = Backends[j]
        BY DEF QueuedWhereItLeads
      <3>1. PICK n \in 1..Len(idle[j]) : idle'[j][m] = idle[j][n]  BY <2>8
      <3>2. QED  BY <2>1, <3>1 DEF IInv, QueuedWhereItLeads
    <2>15. IdleBounded'
      <3> SUFFICES ASSUME NEW j \in Entry PROVE Len(idle'[j]) <= kMaxIdle
        BY DEF IdleBounded
      <3>1. Len(idle[j]) <= kMaxIdle /\ kMaxIdle \in Nat
        BY PoolAssumption DEF IInv, IdleBounded
      <3>2. CASE j # i  BY <2>4, <3>1, <3>2
      <3>3. CASE j = i
        <4> HIDE DEF q
        <4>1. Len(q) <= kMaxIdle  BY <3>1, <3>3 DEF q
        <4>2. Len(idle'[j]) = Len(q) - 1  BY Zenon, <2>3, <2>4, <3>3
        <4>3. Len(q) \in Nat  BY <2>3
        <4> DEFINE l == Len(q)
        <4> HIDE DEF l
        <4>4. l \in Nat /\ l <= kMaxIdle /\ kMaxIdle \in Nat
              /\ Len(idle'[j]) = l - 1
          BY <3>1, <4>1, <4>2, <4>3 DEF l
        <4>5. QED  BY <4>4
      <3>4. QED  BY <3>2, <3>3
    <2>16. QED  BY <2>5, <2>11, <2>12, <2>13, <2>14, <2>15 DEF IInv
  <1>5. QED  BY <1>3, <1>4

LEMMA ConnectFreshInv ==
  ASSUME IInv, NEW k \in Callers, NEW ep \in Endpoint,
         async_connect_fresh(k, ep)
  PROVE  IInv'
  <1>1. rr_index' \in Nat /\ picks' \in [Entry -> Nat]
    BY DEF async_connect_fresh, IInv, TypeOK
  <1>2. QED  BY <1>1, FreshInv DEF async_connect_fresh

LEMMA ReconnectInv ==
  ASSUME IInv, NEW k \in Callers, NEW ep \in Endpoint,
         reconnect_backend_fresh(k, ep)
  PROVE  IInv'
  <1>3. rr_index' \in Nat /\ picks' \in [Entry -> Nat]
    BY DEF reconnect_backend_fresh, IInv, TypeOK
  <1>4. QED  BY <1>3, FreshInv DEF reconnect_backend_fresh

(* A caller drops a connection that is then closed, or a connect succeeds. *)
LEMMA HeldStepInv ==
  ASSUME IInv, NEW k \in Callers, user[k] # NoConn,
         NEW u \in {user[k], NoConn}, NEW st \in {"held", "closed"},
         u # NoConn => st = "held",
         user' = [user EXCEPT ![k] = u],
         state' = [state EXCEPT ![user[k]] = st],
         UNCHANGED <<idle, rr_index, target, picks, fault>>
  PROVE  IInv'
  <1> DEFINE c == user[k]
  <1>1. c \in Conns /\ state[c] \in {"dialing", "held"}
    BY DEF IInv, TypeOK, Placed
  <1>2. TypeOK'  BY <1>1 DEF IInv, TypeOK, State
  <1>3. \A l \in Callers : l # k => user[l] # c
    BY DEF IInv, HeldOnce
  <1>4. \A i \in Entry : \A m \in 1..Len(idle[i]) :
          idle[i][m] # c /\ idle[i][m] \in Conns
    BY <1>1 DEF IInv, Placed, TypeOK
  <1>5. Placed'
    <2>1. ASSUME NEW l \in Callers, user'[l] # NoConn
          PROVE  state'[user'[l]] \in {"dialing", "held"}
      <3>1. CASE l = k  BY <1>1, <2>1, <3>1 DEF IInv, TypeOK
      <3>2. CASE l # k
        <4>1. user'[l] = user[l] /\ user[l] \in Conns /\ user[l] # c
          BY <1>3, <2>1, <3>2 DEF IInv, TypeOK
        <4>2. state'[user[l]] = state[user[l]]  BY <4>1 DEF IInv, TypeOK
        <4>3. QED  BY <2>1, <4>1, <4>2 DEF IInv, Placed
      <3>3. QED  BY <3>1, <3>2
    <2>2. ASSUME NEW i \in Entry, NEW m \in 1..Len(idle[i])
          PROVE  state'[idle[i][m]] = "idle"
      <3>1. idle[i][m] # c /\ idle[i][m] \in Conns  BY <1>4
      <3>2. state'[idle[i][m]] = state[idle[i][m]]
        BY <3>1 DEF IInv, TypeOK
      <3>3. QED  BY <3>2 DEF IInv, Placed
    <2>3. QED  BY <2>1, <2>2 DEF Placed
  <1>6. HeldOnce'  BY <1>3 DEF IInv, HeldOnce, TypeOK
  <1>7. QueuedOnce' /\ QueuedWhereItLeads' /\ IdleBounded'
    BY DEF IInv, QueuedOnce, QueuedWhereItLeads, IdleBounded
  <1>8. QED  BY <1>2, <1>5, <1>6, <1>7 DEF IInv

LEMMA ConnectDoneInv ==
  ASSUME IInv, NEW k \in Callers, ConnectDone(k)
  PROVE  IInv'
  <1>1. user[k] # NoConn /\ UNCHANGED <<idle, rr_index, target, picks>>
    BY DEF ConnectDone
  <1>2. CASE state' = [state EXCEPT ![user[k]] = "held"]
             /\ UNCHANGED <<user, fault>>
    <2>1. user' = [user EXCEPT ![k] = user[k]]  BY <1>2 DEF IInv, TypeOK
    <2>2. QED  BY Zenon, <1>1, <1>2, <2>1, HeldStepInv
  <1>3. CASE fault' = "remote_endpoint" /\ UNCHANGED <<state, user>>
    BY <1>1, <1>3 DEF IInv, TypeOK, Placed, HeldOnce, QueuedOnce,
                      QueuedWhereItLeads, IdleBounded
  <1>4. CASE /\ state' = [state EXCEPT ![user[k]] = "closed"]
             /\ user' = [user EXCEPT ![k] = NoConn]
             /\ UNCHANGED fault
    BY Zenon, <1>1, <1>4, HeldStepInv
  <1>5. QED  BY <1>2, <1>3, <1>4 DEF ConnectDone

LEMMA CloseInv == ASSUME IInv, NEW k \in Callers, Close(k) PROVE IInv'
  BY Zenon, HeldStepInv DEF Close

(* A held connection is appended to the queue of its own endpoint. *)
LEMMA QueueInv ==
  ASSUME IInv, NEW k \in Callers, user[k] # NoConn,
         NEW i \in Entry, Matches(i, target[user[k]]),
         Len(idle[i]) < kMaxIdle,
         idle' = [idle EXCEPT ![i] = Append(@, user[k])],
         state' = [state EXCEPT ![user[k]] = "idle"],
         user' = [user EXCEPT ![k] = NoConn],
         UNCHANGED <<rr_index, target, picks, fault>>
  PROVE  IInv'
  <1> DEFINE c == user[k]
             q == idle[i]
  <1>1. c \in Conns /\ state[c] \in {"dialing", "held"} /\ q \in Seq(Conns)
    BY SMTT(20) DEF IInv, TypeOK, Placed
  <1>2. /\ Append(q, c) \in Seq(Conns) /\ Len(Append(q, c)) = Len(q) + 1
        /\ Len(q) \in Nat
        /\ \A m \in 1..Len(Append(q, c)) :
             \/ m \in 1..Len(q) /\ Append(q, c)[m] = q[m]
             \/ m = Len(q) + 1 /\ Append(q, c)[m] = c
    BY <1>1, AppendFacts
  <1>3. /\ idle'[i] = Append(q, c)
        /\ \A j \in Entry : j # i => idle'[j] = idle[j]
    BY DEF IInv, TypeOK
  <1>4. TypeOK'  BY <1>1, <1>2 DEF IInv, TypeOK, State
  <1>5. \A l \in Callers : l # k => user[l] # c  BY DEF IInv, HeldOnce
  <1>6. \A j \in Entry : \A m \in 1..Len(idle[j]) :
          idle[j][m] # c /\ idle[j][m] \in Conns
    BY <1>1 DEF IInv, Placed, TypeOK
  (* A place of the new queues is an old place or the new one at the back. *)
  <1>7. \A j \in Entry : \A m \in 1..Len(idle'[j]) :
          \/ m \in 1..Len(idle[j]) /\ idle'[j][m] = idle[j][m]
          \/ j = i /\ m = Len(q) + 1 /\ idle'[j][m] = c
    BY <1>2, <1>3
  <1>8. Placed'
    <2>1. ASSUME NEW l \in Callers, user'[l] # NoConn
          PROVE  state'[user'[l]] \in {"dialing", "held"}
      <3>1. l # k  BY <2>1 DEF IInv, TypeOK
      <3>2. user'[l] = user[l] /\ user[l] \in Conns /\ user[l] # c
        BY <1>5, <2>1, <3>1 DEF IInv, TypeOK
      <3>3. state'[user[l]] = state[user[l]]  BY <3>2 DEF IInv, TypeOK
      <3>4. QED  BY <2>1, <3>2, <3>3 DEF IInv, Placed
    <2>2. ASSUME NEW j \in Entry, NEW m \in 1..Len(idle'[j])
          PROVE  state'[idle'[j][m]] = "idle"
      <3>1. CASE idle'[j][m] = c  BY <1>1, <3>1 DEF IInv, TypeOK
      <3>2. CASE m \in 1..Len(idle[j]) /\ idle'[j][m] = idle[j][m]
        <4>1. idle[j][m] # c /\ idle[j][m] \in Conns  BY <1>6, <3>2
        <4>2. state'[idle[j][m]] = state[idle[j][m]]
          BY <4>1 DEF IInv, TypeOK
        <4>3. QED  BY <3>2, <4>2 DEF IInv, Placed
      <3>3. QED  BY <1>7, <3>1, <3>2
    <2>3. QED  BY <2>1, <2>2 DEF Placed
  <1>9. HeldOnce'  BY <1>5 DEF IInv, HeldOnce, TypeOK
  <1>10. QueuedOnce'
    <2> SUFFICES ASSUME NEW a \in Entry, NEW b \in Entry,
                        NEW m \in 1..Len(idle'[a]), NEW n \in 1..Len(idle'[b]),
                        idle'[a][m] = idle'[b][n]
                 PROVE  a = b /\ m = n
      BY DEF QueuedOnce
    <2>1. \/ m \in 1..Len(idle[a]) /\ idle'[a][m] = idle[a][m]
          \/ a = i /\ m = Len(q) + 1 /\ idle'[a][m] = c
      BY <1>7
    <2>2. \/ n \in 1..Len(idle[b]) /\ idle'[b][n] = idle[b][n]
          \/ b = i /\ n = Len(q) + 1 /\ idle'[b][n] = c
      BY <1>7
    <2>3. CASE m \in 1..Len(idle[a]) /\ idle'[a][m] = idle[a][m]
      <3>1. idle'[b][n] # c  BY <1>6, <2>3
      <3>2. n \in 1..Len(idle[b]) /\ idle[a][m] = idle[b][n]
        BY <2>2, <2>3, <3>1
      <3>3. QED  BY <2>3, <3>2 DEF IInv, QueuedOnce
    <2>4. CASE a = i /\ m = Len(q) + 1 /\ idle'[a][m] = c
      <3>1. ~(n \in 1..Len(idle[b]) /\ idle'[b][n] = idle[b][n])
        BY <1>6, <2>4
      <3>2. QED  BY <2>2, <2>4, <3>1
    <2>5. QED  BY <2>1, <2>3, <2>4
  <1>11. QueuedWhereItLeads'
    <2> SUFFICES ASSUME NEW j \in Entry, NEW m \in 1..Len(idle'[j])
                 PROVE  target[idle'[j][m]] = Backends[j]
      BY DEF QueuedWhereItLeads
    <2>1. Backends[i] = target[c]  BY DEF Matches
    <2>2. QED  BY <1>7, <2>1 DEF IInv, QueuedWhereItLeads
  <1>12. IdleBounded'
    <2> SUFFICES ASSUME NEW j \in Entry PROVE Len(idle'[j]) <= kMaxIdle
      BY DEF IdleBounded
    <2>1. CASE j # i  BY <1>3, <2>1 DEF IInv, IdleBounded
    <2>2. CASE j = i
      <3>1. Len(q) < kMaxIdle /\ kMaxIdle \in Nat  BY PoolAssumption
      <3>2. Len(idle'[j]) = Len(q) + 1  BY <1>2, <1>3, <2>2
      <3> HIDE DEF q
      <3>3. QED  BY <1>2, <3>1, <3>2
    <2>3. QED  BY <2>1, <2>2
  <1>13. QED  BY <1>4, <1>8, <1>9, <1>10, <1>11, <1>12 DEF IInv

LEMMA ReleaseInv ==
  ASSUME IInv, NEW k \in Callers, release(k, target[user[k]])
  PROVE  IInv'
  <1>1. /\ user[k] # NoConn /\ user' = [user EXCEPT ![k] = NoConn]
        /\ UNCHANGED <<rr_index, target, picks, fault>>
    BY DEF release
  <1>2. CASE state' = [state EXCEPT ![user[k]] = "closed"] /\ UNCHANGED idle
    BY Zenon, <1>1, <1>2, HeldStepInv
  <1>3. CASE ~(state' = [state EXCEPT ![user[k]] = "closed"] /\ UNCHANGED idle)
    <2>1. PICK i \in Entry : FirstMatch(i, target[user[k]])
                             /\ push_back(i, user[k])
      BY <1>3 DEF release
    <2>2. /\ Matches(i, target[user[k]]) /\ Len(idle[i]) < kMaxIdle
          /\ idle' = [idle EXCEPT ![i] = Append(@, user[k])]
          /\ state' = [state EXCEPT ![user[k]] = "idle"]
      BY <1>3, <2>1 DEF FirstMatch, push_back
    <2>3. QED  BY Zenon, <1>1, <2>2, QueueInv
  <1>4. QED  BY <1>2, <1>3

-----------------------------------------------------------------------------

LEMMA NextInv == IInv /\ [Next]_vars => IInv'
  <1> SUFFICES ASSUME IInv, [Next]_vars PROVE IInv'  OBVIOUS
  <1>1. CASE UNCHANGED vars
    BY <1>1 DEF vars, IInv, TypeOK, Placed, HeldOnce, QueuedOnce,
                QueuedWhereItLeads, IdleBounded
  <1>2. ASSUME NEW k \in Callers, NEW g \in Groups, async_connect(k, g)
        PROVE  IInv'
    BY <1>2, ConnectInv
  <1>3. ASSUME NEW k \in Callers,
               NEW ep \in Targets \cup {Backends[i] : i \in Entry},
               async_connect_fresh(k, ep)
        PROVE  IInv'
    <2>1. ep \in Endpoint  BY PoolAssumption, EntryBackends
    <2>2. QED  BY <1>3, <2>1, ConnectFreshInv
  <1>4. ASSUME NEW k \in Callers,
               ConnectDone(k) \/ release(k, target[user[k]]) \/ Close(k)
        PROVE  IInv'
    BY <1>4, ConnectDoneInv, ReleaseInv, CloseInv
  <1>5. ASSUME NEW k \in Callers, user[k] # NoConn,
               reconnect_backend_fresh(k, target[user[k]])
        PROVE  IInv'
    <2>1. target[user[k]] \in Endpoint  BY <1>5 DEF IInv, TypeOK
    <2>2. QED  BY <1>5, <2>1, ReconnectInv
  <1>6. QED  BY <1>1, <1>2, <1>3, <1>4, <1>5 DEF Next

(* The inductive invariant holds in every state the pool can reach. *)
THEOREM Invariance == Spec => []IInv
  BY InitInv, NextInv, PTL DEF Spec

(* The pool's state keeps its type: no null connection is ever queued. *)
THEOREM TypeCorrect == Spec => []TypeOK
  <1>1. IInv => TypeOK  BY DEF IInv
  <1>2. QED  BY Invariance, <1>1, PTL

(* Two relays never share a backend connection, and none is handed out     *)
(* while it is queued or queued twice, however checkouts, failures and     *)
(* releases interleave.                                                    *)
THEOREM OneOwnerHolds == Spec => []OneOwner
  <1>1. IInv => OneOwner
    <2> SUFFICES ASSUME IInv PROVE OneOwner  OBVIOUS
    <2>1. ASSUME NEW k \in Callers, NEW i \in Entry,
                 NEW m \in 1..Len(idle[i])
          PROVE  user[k] # idle[i][m]
      <3>1. state[idle[i][m]] = "idle" /\ idle[i][m] \in Conns
        BY DEF IInv, Placed, TypeOK
      <3>2. idle[i][m] # NoConn  BY <3>1, PoolAssumption
      <3>3. QED  BY <3>1, <3>2 DEF IInv, Placed
    <2>2. QED  BY <2>1 DEF IInv, HeldOnce, QueuedOnce, OneOwner
  <1>2. QED  BY Invariance, <1>1, PTL

(* A queued connection leads to the endpoint it is queued under. *)
THEOREM QueuedHolds == Spec => []QueuedWhereItLeads
  <1>1. IInv => QueuedWhereItLeads  BY DEF IInv
  <1>2. QED  BY Invariance, <1>1, PTL

(* No idle queue grows past kMaxIdlePerEndpoint. *)
THEOREM BoundHolds == Spec => []IdleBounded
  <1>1. IInv => IdleBounded  BY DEF IInv
  <1>2. QED  BY Invariance, <1>1, PTL

-----------------------------------------------------------------------------
(* PooledExchange *)

(* What a connection with nothing left on it may owe to the exchange that  *)
(* uses it: parts of its own response, and no more of them than its head   *)
(* announces.                                                              *)
Fits(s, e) ==
  CASE e.at = "response" ->
         /\ \A m \in 1..Len(s) : s[m].q = e.q
         /\ s # <<>> /\ s[1].kind = "head" =>
              Len(s) <= IF s[1].body THEN 2 ELSE 1
    [] e.at = "reply" -> e.got = e.q /\ Len(s) <= IF e.more THEN 1 ELSE 0
    [] OTHER -> s = <<>>

Clean ==
  \A c \in Conns : c \notin left =>
    /\ (\A k \in Callers : user[k] # c) => owed[c] = <<>>
    /\ \A k \in Callers : user[k] = c => Fits(owed[c], exch[k])

(* Requests are numbered as they come, and one is written to a backend     *)
(* only while none has been given it.                                      *)
Numbered ==
  /\ \A q \in Request : served[q] <= 1 /\ (q > rr_index => served[q] = 0)
  /\ \A k \in Callers : exch[k].at # "none" => exch[k].q \in 1..rr_index
  /\ \A k \in Callers :
       exch[k].at \in {"connect", "write", "late"} => served[exch[k].q] = 0
  /\ \A k, l \in Callers :
       /\ exch[k].at # "none" /\ exch[l].at # "none"
       /\ exch[k].q = exch[l].q
       => k = l

NotedOK == backend_endpoint \in [Callers -> Endpoint]

XInv == /\ IInv /\ ExchangeTypeOK /\ HeldForExchange /\ Clean /\ Numbered
        /\ rr_index <= MaxPicks

-----------------------------------------------------------------------------
(* The exchanges keep to the pool's operations *)

(* A relay passes the pool the endpoint that its connection leads to, so   *)
(* that the steps of the two together are steps of UpstreamPool.           *)
LEMMA StepIsPoolStep ==
  ASSUME SentWherePicked, HeldForExchange, [ExchangeNext]_<<vars, xvars>>
  PROVE  [Next]_vars
  <1>1. ASSUME NEW k \in Callers, NEW g \in Groups, NEW b \in BOOLEAN,
               request_phase(k, g, b)
        PROVE  Next
    BY <1>1 DEF request_phase, Next
  <1>2. ASSUME NEW k \in Callers, exch[k].at \in {"write", "response", "reply"}
        PROVE  user[k] # NoConn /\ backend_endpoint[k] = target[user[k]]
    BY <1>2 DEF SentWherePicked, HeldForExchange
  <1>3. ASSUME NEW k \in Callers,
               \/ use_backend(k) \/ RequestWriteFailed(k) \/ ResponseFailed(k)
               \/ ResponseWritten(k) \/ ResponseWriteFailed(k)
        PROVE  Next
    <2>1. \/ ConnectDone(k) \/ Close(k)
          \/ /\ exch[k].at = "write"
             /\ reconnect_backend_fresh(k, backend_endpoint[k])
          \/ exch[k].at = "reply" /\ release(k, backend_endpoint[k])
      BY <1>3 DEF use_backend, RequestWriteFailed, ResponseFailed,
                  ResponseWritten, ResponseWriteFailed, finish_backend
    <2>2. QED  BY <1>2, <2>1 DEF Next
  <1>4. ASSUME NEW k \in Callers, teardown(k) PROVE Next \/ UNCHANGED vars
    BY Zenon, <1>4 DEF teardown, Next
  <1>5. ASSUME NEW k \in Callers, LateRequestWriteFailed(k)
        PROVE  Next \/ UNCHANGED vars
    <2>1. exch[k].at = "late"  BY <1>5 DEF LateRequestWriteFailed
    <2>2. backend_endpoint[k] \in {Backends[i] : i \in Entry}
      BY <2>1 DEF SentWherePicked
    <2>3. async_connect_fresh(k, backend_endpoint[k]) \/ UNCHANGED vars
      BY Zenon, <1>5 DEF LateRequestWriteFailed
    <2>4. QED  BY <2>2, <2>3 DEF Next
  <1>6. ASSUME NEW k \in Callers,
               RequestWritten(k) \/ LateRequestWritten(k) \/ ResponseParsed(k)
        PROVE  UNCHANGED vars
    BY Zenon, <1>6 DEF RequestWritten, LateRequestWritten, ResponseParsed
  <1>7. ASSUME NEW c \in Conns, BackendCloses(c)
        PROVE  UNCHANGED vars
    BY <1>7 DEF BackendCloses
  <1>8. CASE UNCHANGED <<vars, xvars>>  BY <1>8
  <1>9. QED  BY <1>1, <1>3, <1>4, <1>5, <1>6, <1>7, <1>8 DEF ExchangeNext

-----------------------------------------------------------------------------
(* What an operation of the pool by relay k leaves alone *)

Frame(k) ==
  /\ \A l \in Callers : l # k => user'[l] = user[l]
  /\ \A c \in Conns : c # user[k] /\ c # user'[k] => state'[c] = state[c]
  /\ user'[k] # NoConn /\ user'[k] # user[k] =>
       \A l \in Callers : user[l] # user'[k]
  /\ user[k] # NoConn /\ user'[k] # user[k] =>
       state'[user[k]] \in {"idle", "closed"}

LEMMA HeldFrame ==
  ASSUME IInv, NEW k \in Callers, NEW ep,
         ConnectDone(k) \/ Close(k) \/ release(k, ep)
  PROVE  Frame(k) /\ (~ConnectDone(k) => user[k] # NoConn /\ user'[k] = NoConn)
  <1>1. user[k] # NoConn /\ user[k] \in Conns
    BY SMTT(20) DEF ConnectDone, Close, release, IInv, TypeOK
  <1>2. \/ /\ state' = [state EXCEPT ![user[k]] = "held"]
           /\ user' = user /\ ConnectDone(k)
        \/ state' = state /\ user' = user /\ ConnectDone(k)
        \/ \E x \in {"idle", "closed"} :
             /\ state' = [state EXCEPT ![user[k]] = x]
             /\ user' = [user EXCEPT ![k] = NoConn]
    BY DEF ConnectDone, Close, release, push_back
  <1>3. user \in [Callers -> Conns \cup {NoConn}] /\ state \in [Conns -> State]
    BY DEF IInv, TypeOK
  <1>4. QED  BY <1>1, <1>2, <1>3 DEF Frame

LEMMA FreshFrame ==
  ASSUME IInv, NEW k \in Callers, NEW ep, NEW before,
         \/ user[k] = NoConn /\ before = state
         \/ user[k] # NoConn /\ before = [state EXCEPT ![user[k]] = "closed"],
         connect_fresh_to(k, ep, before)
  PROVE  /\ Frame(k)
         /\ user'[k] # NoConn =>
              /\ user'[k] # user[k] /\ user'[k] \in Conns
              /\ state'[user'[k]] = "dialing"
  <1>1. user \in [Callers -> Conns \cup {NoConn}] /\ state \in [Conns -> State]
    BY DEF IInv, TypeOK
  <1>2. before \in [Conns -> State]  BY <1>1 DEF State
  <1>3. CASE /\ state' = before
             /\ user' = [user EXCEPT ![k] = NoConn]
    BY <1>1, <1>2, <1>3 DEF Frame
  <1>4. ASSUME NEW c \in Conns, before[c] = "unused",
               state' = [before EXCEPT ![c] = "dialing"],
               user' = [user EXCEPT ![k] = c]
        PROVE  /\ Frame(k) /\ user'[k] # user[k] /\ user'[k] \in Conns
               /\ state'[user'[k]] = "dialing"
    <2>1. \A l \in Callers : user[l] # c
      <3> SUFFICES ASSUME NEW l \in Callers, user[l] = c PROVE FALSE  OBVIOUS
      <3>1. user[l] # NoConn /\ state[c] \in {"dialing", "held"}
        BY PoolAssumption DEF IInv, Placed
      <3>2. before[c] # state[c]  BY <1>4, <3>1
      <3>3. user[k] # NoConn /\ c = user[k] /\ before[c] = "closed"
        BY <1>1, <3>2
      <3>4. QED  BY <1>4, <3>3
    <2>2. user'[k] = c /\ (\A l \in Callers : l # k => user'[l] = user[l])
      BY <1>1, <1>4
    <2>3. state'[c] = "dialing"
          /\ \A d \in Conns : d # c => state'[d] = before[d]
      BY <1>2, <1>4
    <2>4. \A d \in Conns : d # user[k] => before[d] = state[d]  BY <1>1
    <2>5. user[k] # NoConn => state'[user[k]] = "closed"
      BY <1>1, <2>1, <2>3
    <2>6. QED  BY <2>1, <2>2, <2>3, <2>4, <2>5 DEF Frame
  <1>5. QED  BY <1>3, <1>4 DEF connect_fresh_to

LEMMA TakeFrame ==
  ASSUME IInv, NEW k \in Callers, NEW i \in Entry, idle[i] # <<>>,
         user[k] = NoConn,
         user' = [user EXCEPT ![k] = Head(idle[i])],
         state' = [state EXCEPT ![Head(idle[i])] = "held"]
  PROVE  /\ Frame(k) /\ user'[k] \in Conns /\ state'[user'[k]] = "held"
  <1>1. idle[i] \in Seq(Conns)  BY DEF IInv, TypeOK
  <1>2. Head(idle[i]) = idle[i][1] /\ Head(idle[i]) \in Conns
        /\ Len(idle[i]) \in Nat \ {0}
    BY <1>1, TailFacts
  <1>3. state[Head(idle[i])] = "idle"
    <2>1. 1 \in 1..Len(idle[i])  BY <1>2
    <2>2. QED  BY <1>2, <2>1 DEF IInv, Placed
  <1>4. \A l \in Callers : user[l] # Head(idle[i])
    BY <1>2, <1>3, PoolAssumption DEF IInv, Placed
  <1>5. user \in [Callers -> Conns \cup {NoConn}] /\ state \in [Conns -> State]
    BY DEF IInv, TypeOK
  <1> DEFINE c == Head(idle[i])
  <1> HIDE DEF c
  <1>6. c \in Conns /\ (\A l \in Callers : user[l] # c)
        /\ user' = [user EXCEPT ![k] = c] /\ state' = [state EXCEPT ![c] = "held"]
    BY <1>2, <1>4 DEF c
  <1>7. QED  BY <1>5, <1>6 DEF Frame

-----------------------------------------------------------------------------
(* The invariant after a step of relay k, from what k's own part of it is  *)

OnlyExch(k) == exch' \in [Callers -> Exchange]
               /\ \A l \in Callers : l # k => exch'[l] = exch[l]

(* What HeldForExchange says of one relay. *)
Holds(at, c, st) ==
  CASE at \in {"none", "late"} -> c = NoConn
    [] at = "connect" -> c # NoConn /\ st[c] = "dialing"
    [] OTHER -> c # NoConn /\ st[c] = "held"

LEMMA HeldKept ==
  ASSUME IInv, HeldForExchange, NEW k \in Callers, Frame(k), OnlyExch(k),
         Holds(exch'[k].at, user'[k], state')
  PROVE  HeldForExchange'
  <1>1. ASSUME NEW l \in Callers
        PROVE  Holds(exch'[l].at, user'[l], state')
    <2>1. CASE l = k  BY <2>1
    <2>2. CASE l # k
      <3>1. user'[l] = user[l] /\ exch'[l] = exch[l]
        BY <2>2 DEF Frame, OnlyExch
      <3>2. Holds(exch[l].at, user[l], state)  BY DEF HeldForExchange, Holds
      <3>3. user[l] # NoConn => state'[user[l]] = state[user[l]]
        <4> SUFFICES ASSUME user[l] # NoConn
                     PROVE  state'[user[l]] = state[user[l]]
          OBVIOUS
        <4>1. user[l] \in Conns  BY DEF IInv, TypeOK
        <4>2. user[l] # user[k]  BY <2>2 DEF IInv, HeldOnce
        <4>3. user[l] # user'[k]  BY <4>2 DEF Frame
        <4>4. QED  BY <4>1, <4>2, <4>3 DEF Frame
      <3>4. QED  BY <3>1, <3>2, <3>3 DEF Holds
    <2>3. QED  BY <2>1, <2>2
  <1>2. ASSUME NEW c \in Conns, state'[c] \in {"dialing", "held"}
        PROVE  \E l \in Callers : user'[l] = c
    <2>1. CASE user'[k] = c  BY <2>1
    <2>2. CASE user'[k] # c
      <3>1. c # user[k]
        <4> SUFFICES ASSUME c = user[k] PROVE FALSE  OBVIOUS
        <4>1. user[k] # NoConn /\ user'[k] # user[k]
          BY <2>2, PoolAssumption
        <4>2. state'[c] \in {"idle", "closed"}  BY <4>1 DEF Frame
        <4>3. QED  BY <1>2, <4>2
      <3>2. state'[c] = state[c]  BY <2>2, <3>1 DEF Frame
      <3>3. PICK l \in Callers : user[l] = c
        BY <1>2, <3>2 DEF HeldForExchange
      <3>4. user'[l] = c  BY SMTT(20), <3>1, <3>3 DEF Frame
      <3>5. QED  BY <3>4
    <2>3. QED  BY <2>1, <2>2
  <1>3. QED  BY <1>1, <1>2 DEF HeldForExchange, Holds

(* o and w are what the connections owe and those with something left, but *)
(* for the connections that the step closes.                               *)
Leaves(k, o, w) ==
  /\ left \subseteq w
  /\ \A c \in Conns : c # user[k] => o[c] = owed[c]
  /\ \A c \in Conns : \/ state'[c] = "closed" /\ owed'[c] = <<>>
                      \/ /\ owed'[c] = o[c] /\ (c \in w => c \in left')
                         /\ c = user[k] => state'[c] # "closed"
  /\ user[k] # NoConn /\ user[k] \notin w /\ user'[k] # user[k]
       /\ state'[user[k]] # "closed"
       => o[user[k]] = <<>>
  /\ user'[k] # NoConn /\ user'[k] \notin w => Fits(o[user'[k]], exch'[k])

LEMMA CleanKept ==
  ASSUME IInv, IInv', Clean, NEW k \in Callers, Frame(k), OnlyExch(k),
         NEW o, NEW w, Leaves(k, o, w)
  PROVE  Clean'
  <1> USE DEF Leaves
  <1> SUFFICES ASSUME NEW c \in Conns, c \notin left'
               PROVE  /\ (\A l \in Callers : user'[l] # c) => owed'[c] = <<>>
                      /\ \A l \in Callers : user'[l] = c =>
                           Fits(owed'[c], exch'[l])
    BY DEF Clean
  <1>0. c # NoConn  BY PoolAssumption
  <1>1. CASE state'[c] = "closed" /\ owed'[c] = <<>>
    <2>1. \A l \in Callers : user'[l] # c
      BY Zenon, <1>0, <1>1 DEF IInv, Placed
    <2>2. QED  BY ZenonT(30), <1>1, <2>1
  <1>2. CASE owed'[c] = o[c] /\ (c \in w => c \in left')
             /\ (c = user[k] => state'[c] # "closed")
    <2>1. c \notin w /\ c \notin left  BY <1>2
    <2>2. ASSUME \A l \in Callers : user'[l] # c PROVE owed'[c] = <<>>
      <3>1. CASE c = user[k]
        <4>1. user'[k] # user[k]  BY <2>2, <3>1
        <4>2. QED  BY <1>0, <1>2, <2>1, <3>1, <4>1
      <3>2. CASE c # user[k]
        <4>1. \A l \in Callers : user[l] # c  BY <2>2, <3>2 DEF Frame
        <4>2. owed[c] = <<>>  BY SMTT(20), <2>1, <4>1 DEF Clean
        <4>3. QED  BY <1>2, <3>2, <4>2
      <3>3. QED  BY <3>1, <3>2
    <2>3. ASSUME NEW l \in Callers, user'[l] = c
          PROVE  Fits(owed'[c], exch'[l])
      <3>1. CASE l = k  BY <1>0, <1>2, <2>1, <2>3, <3>1
      <3>2. CASE l # k
        <4>1. user[l] = c /\ exch'[l] = exch[l]
          BY <2>3, <3>2 DEF Frame, OnlyExch
        <4>2. c # user[k]  BY Zenon, <1>0, <3>2, <4>1 DEF IInv, HeldOnce
        <4>3. Fits(owed[c], exch[l])  BY Zenon, <2>1, <4>1 DEF Clean
        <4>4. QED  BY <1>2, <4>1, <4>2, <4>3
      <3>3. QED  BY <3>1, <3>2
    <2>4. QED  BY SMTT(20), <2>2, <2>3
  <1>3. QED  BY <1>1, <1>2

LEMMA NumberedKept ==
  ASSUME Numbered, NEW k \in Callers, OnlyExch(k),
         UNCHANGED <<served, rr_index>>,
         exch'[k].at # "none" => exch[k].at # "none" /\ exch'[k].q = exch[k].q,
         exch'[k].at \in {"connect", "write", "late"} =>
           exch[k].at \in {"connect", "write", "late"}
  PROVE  Numbered'
  <1>1. \A l \in Callers : exch'[l].at # "none" =>
           exch[l].at # "none" /\ exch'[l].q = exch[l].q
    BY DEF OnlyExch
  <1>2. \A l \in Callers : exch'[l].at \in {"connect", "write", "late"} =>
           exch[l].at \in {"connect", "write", "late"} /\ exch'[l].q = exch[l].q
    BY DEF OnlyExch
  <1>3. QED  BY <1>1, <1>2 DEF Numbered

LEMMA ShortSeq ==
  ASSUME NEW S, NEW s \in Seq(S)
  PROVE  /\ Len(s) <= 0 => s = <<>>
         /\ Len(s) <= 1 /\ s # <<>> => Len(s) = 1 /\ Tail(s) = <<>>
  <1>1. Len(s) \in Nat  OBVIOUS
  <1>2. Len(s) <= 0 => s = <<>>  BY <1>1
  <1>3. s # <<>> => Len(s) # 0  OBVIOUS
  <1>4. ASSUME Len(s) <= 1, s # <<>> PROVE Tail(s) = <<>>
    <2> DEFINE t == Tail(s)
    <2>1. t \in Seq(S) /\ Len(t) = Len(s) - 1  BY <1>4, TailFacts
    <2> HIDE DEF t
    <2>2. Len(t) = 0  BY <1>1, <1>3, <1>4, <2>1
    <2>3. t = <<>>  BY <2>1, <2>2
    <2>4. QED  BY <2>3 DEF t
  <1>5. ASSUME Len(s) <= 1, s # <<>> PROVE Len(s) = 1
    <2> DEFINE n == Len(s)
    <2>1. n \in Nat /\ n # 0 /\ n <= 1  BY <1>1, <1>3, <1>5
    <2> HIDE DEF n
    <2>2. n = 1  BY <2>1
    <2>3. QED  BY <2>2 DEF n
  <1>6. QED  BY <1>2, <1>4, <1>5, Zenon

LEMMA NoExchangeType == NoExchange \in Exchange
  <1>1. 0 \in 0..MaxPicks /\ 0 \in 0..Len(Backends)  BY PoolAssumption
  <1>2. FALSE \in BOOLEAN  OBVIOUS
  <1>3. QED  BY <1>1, <1>2 DEF NoExchange, Exchange

LEMMA NoExchangeAt == NoExchange.at = "none"
  BY DEF NoExchange

LEMMA SettledFacts ==
  ASSUME ExchangeTypeOK, NEW o \in [Conns -> Seq(Part)],
         NEW w \in SUBSET Conns, Settled(o, w)
  PROVE  /\ owed' \in [Conns -> Seq(Part)] /\ alive' \in [Conns -> BOOLEAN]
         /\ left' \subseteq Conns
         /\ \A c \in Conns : \/ state'[c] = "closed" /\ owed'[c] = <<>>
                             \/ /\ owed'[c] = o[c] /\ (c \in w => c \in left')
                                /\ state'[c] # "closed"
  <1>1. owed' = [c \in Conns |-> IF state'[c] = "closed" THEN <<>> ELSE o[c]]
        /\ left' = {c \in w : state'[c] # "closed"}
    BY DEF Settled
  <1>2. <<>> \in Seq(Part)  OBVIOUS
  <1>3. alive' \in [Conns -> BOOLEAN]  BY ZenonT(30) DEF Settled
  <1>4. QED  BY <1>1, <1>2, <1>3

(* Relay k gives its connection back or closes it; its exchange is over,   *)
(* but for a write that is still to complete.                              *)
LEMMA EndKept ==
  ASSUME XInv, IInv', NotedOK', NEW k \in Callers, NEW ep,
         Close(k) \/ release(k, ep), NEW x \in Exchange,
         \/ x.at = "none"
         \/ x.at = "late" /\ exch[k].at = "write" /\ x.q = exch[k].q,
         exch' = [exch EXCEPT ![k] = x], UNCHANGED served,
         NEW o \in [Conns -> Seq(Part)], NEW w \in SUBSET Conns,
         left \subseteq w, \A c \in Conns : c # user[k] => o[c] = owed[c],
         Settled(o, w),
         ~Close(k) /\ user[k] \notin w => o[user[k]] = <<>>
  PROVE  XInv'
  <1>1. ExchangeTypeOK /\ HeldForExchange /\ Clean /\ Numbered /\ IInv
    BY DEF XInv
  <1>2. OnlyExch(k) /\ exch'[k] = x
    BY <1>1 DEF OnlyExch, ExchangeTypeOK
  <1>3. Frame(k) /\ user[k] # NoConn /\ user'[k] = NoConn
    <2>1. ~ConnectDone(k)  BY Zenon DEF ConnectDone, Close, release
    <2>2. QED  BY Zenon, <1>1, <2>1, HeldFrame
  <1>4. HeldForExchange'
    <2>1. Holds(exch'[k].at, user'[k], state')
      BY SMTT(20), <1>2, <1>3 DEF Holds
    <2>2. QED  BY Zenon, <1>1, <1>2, <1>3, <2>1, HeldKept
  <1>5. ExchangeTypeOK'
    BY Zenon, <1>1, <1>2, SettledFacts DEF ExchangeTypeOK, OnlyExch, NotedOK
  <1>6. Clean'
    <2>1. state'[user[k]] # "closed" => ~Close(k)
      BY Zenon, <1>1 DEF Close, IInv, TypeOK
    <2>2. \A c \in Conns : \/ state'[c] = "closed" /\ owed'[c] = <<>>
                           \/ /\ owed'[c] = o[c] /\ (c \in w => c \in left')
                              /\ state'[c] # "closed"
      BY ZenonT(30), <1>1, SettledFacts
    <2>3. Leaves(k, o, w)  BY <1>3, <2>1, <2>2 DEF Leaves
    <2>4. QED  BY <1>1, <1>2, <1>3, <2>3, CleanKept
  <1>7. rr_index' = rr_index  BY Zenon DEF Close, release
  <1>8. Numbered'
    <2>1. \/ exch'[k].at = "none"
          \/ exch'[k].at = "late" /\ exch[k].at = "write" /\ exch'[k].q = exch[k].q
      BY <1>2
    <2>2. QED  BY SMTT(20), <1>1, <1>2, <1>7, <2>1, NumberedKept
  <1>9. QED  BY <1>4, <1>5, <1>6, <1>7, <1>8 DEF XInv

LEMMA FailKept ==
  ASSUME XInv, IInv', NotedOK', NEW k \in Callers, ResponseFailed(k)
  PROVE  XInv'
  <1>1. /\ Close(k) /\ exch' = [exch EXCEPT ![k] = NoExchange]
        /\ UNCHANGED served /\ Settled(owed, left)
    BY Zenon DEF ResponseFailed
  <1>2. owed \in [Conns -> Seq(Part)] /\ left \in SUBSET Conns
    BY SMTT(20) DEF XInv, ExchangeTypeOK
  <1>3. QED  BY Zenon, <1>1, <1>2, NoExchangeType, NoExchangeAt, EndKept

(* Relay k takes note of something while the pool is left alone. *)
LEMMA StayKept ==
  ASSUME XInv, IInv', NotedOK', NEW k \in Callers, UNCHANGED vars,
         UNCHANGED <<owed, alive, left>>, served' \in [Request -> Nat], Numbered',
         NEW x \in Exchange, exch' = [exch EXCEPT ![k] = x],
         \/ x.at = "none" /\ exch[k].at = "late"
         \/ x.at = "connect" /\ exch[k].at = "connect"
  PROVE  XInv'
  <1>1. ExchangeTypeOK /\ HeldForExchange /\ Clean /\ IInv
        /\ rr_index <= MaxPicks
    BY ZenonT(30) DEF XInv
  <1>2. user' = user /\ state' = state /\ rr_index' = rr_index  BY DEF vars
  <1>3. OnlyExch(k) /\ exch'[k] = x  BY SMTT(20), <1>1 DEF OnlyExch, ExchangeTypeOK
  <1>4. Frame(k)  BY <1>2 DEF Frame
  <1>5. Holds(exch'[k].at, user'[k], state')
    BY <1>1, <1>2, <1>3 DEF Holds, HeldForExchange
  <1>6. HeldForExchange'  BY Zenon, <1>1, <1>3, <1>4, <1>5, HeldKept
  <1>7. user[k] # NoConn /\ user[k] \notin left => Fits(owed[user[k]], x)
    <2> SUFFICES ASSUME user[k] # NoConn, user[k] \notin left
                 PROVE  Fits(owed[user[k]], x)
      OBVIOUS
    <2>1. x.at = "connect" /\ exch[k].at = "connect"
      BY <1>1 DEF HeldForExchange
    <2>2. user[k] \in Conns  BY <1>1 DEF IInv, TypeOK
    <2>3. Fits(owed[user[k]], exch[k])  BY <1>1, <2>2 DEF Clean
    <2>4. QED  BY <2>1, <2>3 DEF Fits
  <1>8. \A c \in Conns : state[c] = "closed" => c # user[k]
    BY <1>1, PoolAssumption DEF IInv, Placed
  <1>9. Leaves(k, owed, left)
    <2>1. user'[k] # NoConn /\ user'[k] \notin left
            => Fits(owed[user'[k]], exch'[k])
      BY SMTT(20), <1>2, <1>3, <1>7
    <2>2. \A c \in Conns : /\ owed'[c] = owed[c] /\ (c \in left => c \in left')
                           /\ c = user[k] => state'[c] # "closed"
      BY Zenon, <1>2, <1>8
    <2>3. QED  BY Zenon, <1>2, <2>1, <2>2 DEF Leaves
  <1>10. Clean'  BY Zenon, <1>1, <1>3, <1>4, <1>9, CleanKept
  <1>11. ExchangeTypeOK'
    BY Zenon, <1>1, <1>3 DEF ExchangeTypeOK, OnlyExch, NotedOK
  <1>12. QED  BY Zenon, <1>1, <1>2, <1>6, <1>10, <1>11 DEF XInv

LEMMA TeardownKept ==
  ASSUME XInv, IInv', NotedOK', NEW k \in Callers, teardown(k)
  PROVE  XInv'
  <1>1. /\ ExchangeTypeOK /\ Numbered /\ exch \in [Callers -> Exchange]
        /\ exch[k] \in Exchange /\ served \in [Request -> Nat]
        /\ owed \in [Conns -> Seq(Part)] /\ left \in SUBSET Conns
    BY SMTT(20) DEF XInv, ExchangeTypeOK
  <1>2. UNCHANGED served  BY Zenon DEF teardown
  <1>3. CASE /\ exch[k].at = "connect" /\ exch' = [exch EXCEPT ![k].done = TRUE]
             /\ UNCHANGED <<vars, owed, alive, left>>
    <2> DEFINE x == [exch[k] EXCEPT !.done = TRUE]
    <2>1. x \in Exchange /\ x.at = exch[k].at /\ x.q = exch[k].q
      BY Zenon, <1>1 DEF Exchange
    <2>2. exch' = [exch EXCEPT ![k] = x]  BY Zenon, <1>3
    <2> HIDE DEF x
    <2>3. OnlyExch(k) /\ exch'[k] = x  BY <1>1, <2>1, <2>2 DEF OnlyExch
    <2>4. rr_index' = rr_index  BY <1>3 DEF vars
    <2>5. Numbered'  BY SMTT(20), <1>1, <1>2, <1>3, <2>1, <2>3, <2>4, NumberedKept
    <2>6. QED  BY Zenon, <1>1, <1>2, <1>3, <2>1, <2>2, <2>5, StayKept
  <1>4. CASE /\ Close(k) /\ Settled(owed, left)
             /\ exch' = [exch EXCEPT ![k] =
                            IF @.at = "write"
                            THEN [@ EXCEPT !.at = "late", !.done = TRUE]
                            ELSE NoExchange]
    <2> DEFINE x == IF exch[k].at = "write"
                    THEN [exch[k] EXCEPT !.at = "late", !.done = TRUE]
                    ELSE NoExchange
    <2>1. exch' = [exch EXCEPT ![k] = x]  BY Zenon, <1>4
    <2>2. CASE exch[k].at = "write"
      <3>1. x = [exch[k] EXCEPT !.at = "late", !.done = TRUE]  BY <2>2
      <3>2. x \in Exchange /\ x.at = "late" /\ x.q = exch[k].q
        BY Zenon, <1>1, <3>1 DEF Exchange
      <3> HIDE DEF x
      <3>3. QED  BY Zenon, <1>1, <1>2, <1>4, <2>1, <2>2, <3>2, EndKept
    <2>3. CASE exch[k].at # "write"
      <3>1. x \in Exchange /\ x.at = "none"
        BY <2>3, NoExchangeType, NoExchangeAt
      <3> HIDE DEF x
      <3>2. QED  BY Zenon, <1>1, <1>2, <1>4, <2>1, <3>1, EndKept
    <2>4. QED  BY <2>2, <2>3
  <1>5. QED  BY Zenon, <1>3, <1>4 DEF teardown

(* The write of a torn-down relay completes and nothing is retried. *)
LEMMA LateOverKept ==
  ASSUME XInv, IInv', NotedOK', NEW k \in Callers, exch[k].at = "late",
         exch' = [exch EXCEPT ![k] = NoExchange], UNCHANGED vars,
         UNCHANGED <<owed, alive, left>>, NEW n \in {0, 1},
         served' = [served EXCEPT ![exch[k].q] = @ + n]
  PROVE  XInv'
  <1>1. /\ ExchangeTypeOK /\ Numbered /\ exch \in [Callers -> Exchange]
        /\ served \in [Request -> Nat] /\ rr_index \in Nat /\ MaxPicks \in Nat
        /\ rr_index <= MaxPicks
    BY SMTT(20), PoolAssumption DEF XInv, ExchangeTypeOK, IInv, TypeOK
  <1> DEFINE q == exch[k].q
  <1>2. q \in 1..rr_index /\ q \in Request /\ served[q] = 0
    BY <1>1 DEF Numbered, Request
  <1>3. OnlyExch(k) /\ exch'[k].at = "none" /\ rr_index' = rr_index
    BY <1>1, NoExchangeType, NoExchangeAt DEF OnlyExch, vars
  <1>4. /\ served' \in [Request -> Nat] /\ served'[q] = n
        /\ \A r \in Request : r # q => served'[r] = served[r]
    BY <1>1, <1>2
  <1>5. \A l \in Callers : exch'[l].at # "none" => l # k /\ exch'[l] = exch[l]
    BY <1>3 DEF OnlyExch
  <1>6. Numbered'
    <2>1. \A r \in Request :
            served'[r] <= 1 /\ (r > rr_index' => served'[r] = 0)
      <3> SUFFICES ASSUME NEW r \in Request
                   PROVE  served'[r] <= 1 /\ (r > rr_index => served'[r] = 0)
        BY <1>3
      <3>1. CASE r = q
        <4>1. ~(r > rr_index)
          <5> HIDE DEF q
          <5>1. QED  BY SMTT(20), <1>1, <1>2, <3>1
        <4>2. QED  BY <1>4, <3>1, <4>1
      <3>2. CASE r # q  BY SMTT(20), <1>1, <1>4, <3>2 DEF Numbered
      <3>3. QED  BY <3>1, <3>2
    <2>2. ASSUME NEW l \in Callers, exch'[l].at \in {"connect", "write", "late"}
          PROVE  served'[exch'[l].q] = 0
      <3>1. l # k /\ exch'[l] = exch[l] /\ exch[l].at # "none"  BY <1>5, <2>2
      <3>2. exch[l].q # q  BY <1>1, <3>1 DEF Numbered
      <3>3. exch[l].q \in 1..rr_index  BY <1>1, <3>1 DEF Numbered
      <3>4. exch[l].q \in Request  BY <1>1, <3>3 DEF Request
      <3>5. served[exch[l].q] = 0  BY <1>1, <2>2, <3>1 DEF Numbered
      <3>6. QED  BY <1>4, <3>1, <3>2, <3>4, <3>5
    <2>3. QED  BY ZenonT(30), <1>1, <1>3, <1>5, <2>1, <2>2 DEF Numbered
  <1>7. QED  BY Zenon, <1>4, <1>6, NoExchangeType, NoExchangeAt, StayKept

LEMMA WrittenKept ==
  ASSUME XInv, IInv', NotedOK', NEW k \in Callers,
         ResponseWritten(k) \/ ResponseWriteFailed(k)
  PROVE  XInv'
  <1> DEFINE c == user[k]
             ep == backend_endpoint[k]
  <1>1. /\ exch[k].at = "reply" /\ (Close(k) \/ release(k, ep))
        /\ exch' = [exch EXCEPT ![k] = NoExchange] /\ UNCHANGED served
    BY Zenon DEF ResponseWritten, ResponseWriteFailed, finish_backend
  <1>2. owed \in [Conns -> Seq(Part)] /\ left \in SUBSET Conns /\ c \in Conns
    BY <1>1 DEF XInv, ExchangeTypeOK, IInv, TypeOK, Close, release
  <1>0. NoExchange \in Exchange /\ NoExchange.at = "none"
    BY NoExchangeType, NoExchangeAt
  <1> HIDE DEF ep
  <1>3. c \notin left => Len(owed[c]) <= IF exch[k].more THEN 1 ELSE 0
    BY <1>1, <1>2 DEF XInv, Clean, Fits
  <1>4. owed[c] \in Seq(Part) /\ Len(owed[c]) \in Nat  BY <1>2
  <1>5. CASE exch[k].more /\ owed[c] # <<>>
             /\ Settled([owed EXCEPT ![c] = Tail(@)], left)
    <2>1. Tail(owed[c]) \in Seq(Part)  BY Zenon, <1>4, <1>5, TailFacts
    <2>2. c \notin left => Tail(owed[c]) = <<>>
      BY <1>3, <1>4, <1>5, ShortSeq
    <2> DEFINE o == [owed EXCEPT ![c] = Tail(@)]
    <2>3. o \in [Conns -> Seq(Part)] /\ o[c] = Tail(owed[c])
          /\ \A d \in Conns : d # c => o[d] = owed[d]
      BY <1>2, <2>1
    <2>4. Settled(o, left)  BY <1>5
    <2> HIDE DEF o
    <2>5. QED  BY ZenonT(30), <1>0, <1>1, <1>2, <2>2, <2>3, <2>4, EndKept
  <1>6. CASE Settled(owed, left)
             /\ (~exch[k].more \/ owed[c] = <<>>)
    <2>1. c \notin left => owed[c] = <<>>  BY <1>3, <1>4, <1>6
    <2>2. QED  BY Zenon, <1>0, <1>1, <1>2, <1>6, <2>1, EndKept
  <1>7. CASE Settled(owed, IF exch[k].more THEN left \cup {c} ELSE left)
             /\ exch[k].more
    <2>1. Settled(owed, left \cup {c}) /\ left \cup {c} \in SUBSET Conns
          /\ left \subseteq left \cup {c} /\ c \in left \cup {c}
      BY <1>2, <1>7
    <2> DEFINE w == left \cup {c}
    <2>2. Settled(owed, w) /\ w \in SUBSET Conns /\ left \subseteq w /\ c \in w
      BY <2>1
    <2> HIDE DEF w
    <2>3. QED  BY Zenon, <1>0, <1>1, <1>2, <2>2, EndKept
  <1>8. QED
    BY <1>5, <1>6, <1>7 DEF ResponseWritten, ResponseWriteFailed

-----------------------------------------------------------------------------
(* Steps after which relay k has, or waits for, a connection to write to *)

LEMMA ProceedsFacts ==
  ASSUME NEW k \in Callers, NEW e \in Exchange, IInv'
  PROVE  /\ Proceeds(k, e) \in Exchange
         /\ user'[k] = NoConn => Proceeds(k, e) = NoExchange
         /\ user'[k] # NoConn => /\ Proceeds(k, e).at \in {"connect", "write"}
                                 /\ Proceeds(k, e).q = e.q
                                 /\ Proceeds(k, e).pick = e.pick
         /\ Holds(Proceeds(k, e).at, user'[k], state')
  <1>1. CASE user'[k] = NoConn
    BY <1>1, NoExchangeType DEF Proceeds, Holds, NoExchange
  <1>2. CASE user'[k] # NoConn
    <2> DEFINE a == IF state'[user'[k]] = "held" THEN "write" ELSE "connect"
    <2>1. Proceeds(k, e) = [e EXCEPT !.at = a]  BY <1>2 DEF Proceeds
    <2>2. a \in {"connect", "write"}  OBVIOUS
    <2>3. Holds(a, user'[k], state')
      BY <1>2 DEF Holds, IInv, Placed
    <2> HIDE DEF a
    <2>4. [e EXCEPT !.at = a] \in Exchange /\ [e EXCEPT !.at = a].at = a
          /\ [e EXCEPT !.at = a].q = e.q /\ [e EXCEPT !.at = a].pick = e.pick
      BY <2>2 DEF Exchange
    <2>5. QED  BY <1>2, <2>1, <2>2, <2>3, <2>4
  <1>3. QED  BY <1>1, <1>2

LEMMA ProceedKept ==
  ASSUME XInv, IInv', NotedOK', NEW k \in Callers, Frame(k), NEW e \in Exchange,
         exch' = [exch EXCEPT ![k] = Proceeds(k, e)],
         owed' \in [Conns -> Seq(Part)], alive' \in [Conns -> BOOLEAN],
         left' \subseteq Conns, UNCHANGED served,
         \A c \in Conns : \/ state'[c] = "closed" /\ owed'[c] = <<>>
                          \/ /\ owed'[c] = owed[c] /\ (c \in left => c \in left')
                             /\ c = user[k] => state'[c] # "closed",
         user[k] # NoConn /\ user'[k] # user[k] => state'[user[k]] = "closed",
         user[k] # NoConn /\ user'[k] = user[k] => exch[k].at = "connect",
         Numbered', rr_index' <= MaxPicks
  PROVE  XInv'
  <1>1. ExchangeTypeOK /\ HeldForExchange /\ Clean /\ Numbered /\ IInv
    BY SMTT(20) DEF XInv
  <1> DEFINE x == Proceeds(k, e)
  <1>2. /\ x \in Exchange
        /\ user'[k] # NoConn => x.at \in {"connect", "write"}
        /\ Holds(x.at, user'[k], state')
    BY ProceedsFacts
  <1> HIDE DEF x
  <1>3. exch' = [exch EXCEPT ![k] = x]  BY SMTT(20) DEF x
  <1>4. OnlyExch(k) /\ exch'[k] = x
    BY SMTT(20), <1>1, <1>2, <1>3 DEF OnlyExch, ExchangeTypeOK
  <1>5. HeldForExchange'  BY <1>1, <1>2, <1>4, HeldKept
  <1>6. user'[k] # NoConn /\ user'[k] \notin left => owed[user'[k]] = <<>>
    <2> SUFFICES ASSUME user'[k] # NoConn, user'[k] \notin left
                 PROVE  owed[user'[k]] = <<>>
      BY Zenon
    <2>1. user'[k] \in Conns  BY Zenon DEF IInv, TypeOK
    <2>2. CASE user'[k] = user[k]
      <3>1. exch[k].at = "connect"  BY <2>2
      <3>2. Fits(owed[user[k]], exch[k])  BY Zenon, <1>1, <2>1, <2>2 DEF Clean
      <3>3. QED  BY SMTT(20), <2>2, <3>1, <3>2 DEF Fits
    <2>3. CASE user'[k] # user[k]
      <3>1. \A l \in Callers : user[l] # user'[k]  BY <2>3 DEF Frame
      <3>2. QED  BY <1>1, <2>1, <3>1 DEF Clean
    <2>4. QED  BY ZenonT(30), <2>2, <2>3
  <1>7. user'[k] # NoConn /\ user'[k] \notin left
          => Fits(owed[user'[k]], exch'[k])
    BY SMTT(20), <1>2, <1>4, <1>6 DEF Fits
  <1>8. Leaves(k, owed, left)  BY <1>7 DEF Leaves
  <1>9. Clean'  BY Zenon, <1>1, <1>4, <1>8, CleanKept
  <1>10. ExchangeTypeOK'  BY <1>1, <1>4 DEF ExchangeTypeOK, OnlyExch, NotedOK
  <1>11. QED  BY <1>5, <1>9, <1>10 DEF XInv

LEMMA UseBackendKept ==
  ASSUME XInv, IInv', NotedOK', NEW k \in Callers, use_backend(k)
  PROVE  XInv'
  <1>1. ExchangeTypeOK /\ HeldForExchange /\ Clean /\ Numbered /\ IInv
        /\ rr_index <= MaxPicks
    BY DEF XInv
  <1>2. /\ exch[k].at = "connect" /\ ConnectDone(k)
        /\ exch' = [exch EXCEPT ![k] = Proceeds(k, @)]
        /\ Settled(owed, left) /\ UNCHANGED served
    BY DEF use_backend
  <1>3. Frame(k)  BY Zenon, <1>1, <1>2, HeldFrame
  <1>4. exch \in [Callers -> Exchange] /\ owed \in [Conns -> Seq(Part)]
        /\ left \in SUBSET Conns /\ exch[k] \in Exchange
    BY <1>1 DEF ExchangeTypeOK
  <1>5. exch' = [exch EXCEPT ![k] = Proceeds(k, exch[k])]  BY <1>2
  <1>6. /\ owed' \in [Conns -> Seq(Part)] /\ alive' \in [Conns -> BOOLEAN]
        /\ left' \subseteq Conns
        /\ \A c \in Conns : \/ state'[c] = "closed" /\ owed'[c] = <<>>
                            \/ /\ owed'[c] = owed[c]
                               /\ (c \in left => c \in left')
                               /\ state'[c] # "closed"
    BY <1>1, <1>2, <1>4, SettledFacts
  <1>7. user[k] # NoConn /\ user'[k] # user[k] => state'[user[k]] = "closed"
    BY <1>1, <1>2 DEF ConnectDone, IInv, TypeOK
  <1>8. rr_index' = rr_index  BY <1>2 DEF ConnectDone
  <1>9. Numbered'
    <2>1. /\ OnlyExch(k) /\ exch'[k] = Proceeds(k, exch[k])
      BY <1>4, <1>5, ProceedsFacts DEF OnlyExch
    <2>2. exch'[k].at # "none" => exch'[k].q = exch[k].q
      BY Zenon, <2>1, <1>4, ProceedsFacts, NoExchangeAt
    <2>3. QED  BY <1>1, <1>2, <1>8, <2>1, <2>2, NumberedKept
  <1>10. QED  BY ZenonT(30), <1>1, <1>2, <1>3, <1>4, <1>5, <1>6, <1>7, <1>8, <1>9, ProceedKept

LEMMA WriteFailedKept ==
  ASSUME XInv, IInv', NotedOK', NEW k \in Callers, RequestWriteFailed(k)
  PROVE  XInv'
  <1>1. ExchangeTypeOK /\ HeldForExchange /\ Clean /\ Numbered /\ IInv
        /\ rr_index <= MaxPicks
    BY DEF XInv
  <1> DEFINE e == [exch[k] EXCEPT !.retry = FALSE]
             ep == backend_endpoint[k]
  <1>2. /\ exch[k].at = "write" /\ (reconnect_backend_fresh(k, ep) \/ Close(k))
        /\ exch' = [exch EXCEPT ![k] = Proceeds(k, e)]
        /\ Settled(owed, left) /\ UNCHANGED served
    BY DEF RequestWriteFailed
  <1>3. exch \in [Callers -> Exchange] /\ owed \in [Conns -> Seq(Part)]
        /\ left \in SUBSET Conns /\ exch[k] \in Exchange
        /\ user[k] \in Conns /\ state \in [Conns -> State]
    BY ZenonT(30), <1>1, <1>2 DEF ExchangeTypeOK, IInv, TypeOK, HeldForExchange
  <1>4. e \in Exchange /\ e.q = exch[k].q  BY Zenon, <1>3 DEF Exchange
  <1> HIDE DEF e, ep
  <1>5. /\ owed' \in [Conns -> Seq(Part)] /\ alive' \in [Conns -> BOOLEAN]
        /\ left' \subseteq Conns
        /\ \A c \in Conns : \/ state'[c] = "closed" /\ owed'[c] = <<>>
                            \/ /\ owed'[c] = owed[c]
                               /\ (c \in left => c \in left')
                               /\ state'[c] # "closed"
    BY Zenon, <1>1, <1>2, <1>3, SettledFacts
  <1>6. rr_index' = rr_index  BY <1>2 DEF Close, reconnect_backend_fresh
  <1>7. /\ Frame(k) /\ user'[k] # user[k] /\ user[k] # NoConn
        /\ state'[user[k]] = "closed"
    <2>1. CASE Close(k)
      <3>1. ~ConnectDone(k)  BY <2>1 DEF Close, ConnectDone
      <3>2. Frame(k) /\ user[k] # NoConn /\ user'[k] = NoConn
        BY <1>1, <2>1, <3>1, HeldFrame
      <3>3. state'[user[k]] = "closed"  BY <1>3, <2>1 DEF Close
      <3>4. QED  BY <3>2, <3>3
    <2>2. CASE reconnect_backend_fresh(k, ep)
      <3> DEFINE before == [state EXCEPT ![user[k]] = "closed"]
      <3>1. user[k] # NoConn /\ connect_fresh_to(k, ep, before)
        BY <2>2 DEF reconnect_backend_fresh
      <3>2. Frame(k) /\ (user'[k] # NoConn => user'[k] # user[k])
        BY <1>1, <3>1, FreshFrame
      <3>3. before[user[k]] = "closed" /\ before \in [Conns -> State]
        BY <1>3 DEF State
      <3> HIDE DEF before
      <3>4. state'[user[k]] = "closed"
        <4>1. CASE state' = before  BY <3>3, <4>1
        <4>2. ASSUME NEW c \in Conns, before[c] = "unused",
                     state' = [before EXCEPT ![c] = "dialing"]
              PROVE  state'[user[k]] = "closed"
          <5>1. c # user[k]  BY <3>3, <4>2
          <5>2. QED  BY <1>3, <3>3, <4>2, <5>1
        <4>3. QED  BY <3>1, <4>1, <4>2 DEF connect_fresh_to
      <3>5. QED  BY <3>1, <3>2, <3>4
    <2>3. QED  BY Zenon, <1>2, <2>1, <2>2
  <1>8. Numbered'
    <2>1. OnlyExch(k) /\ exch'[k] = Proceeds(k, e)
      BY Zenon, <1>2, <1>3, <1>4, ProceedsFacts DEF OnlyExch
    <2>2. exch'[k].at # "none" => exch'[k].q = exch[k].q
      <3>1. user'[k] = NoConn => exch'[k].at = "none"
        <4>1. user'[k] = NoConn => exch'[k] = NoExchange
          BY <2>1, <1>4, ProceedsFacts
        <4>2. QED  BY SMTT(20), <4>1 DEF NoExchange
      <3>2. user'[k] # NoConn => exch'[k].q = e.q
        BY <2>1, <1>4, ProceedsFacts
      <3>3. QED  BY <1>4, <3>1, <3>2
    <2>3. QED  BY <1>1, <1>2, <1>6, <2>1, <2>2, NumberedKept
  <1>9. QED  BY Zenon, <1>1, <1>2, <1>4, <1>5, <1>6, <1>7, <1>8, ProceedKept

(* A relay that was torn down dials again. *)
LEMMA LateRetryKept ==
  ASSUME XInv, IInv', NotedOK', NEW k \in Callers, exch[k].at = "late",
         NEW ep, async_connect_fresh(k, ep), NEW e \in Exchange, e.q = exch[k].q,
         exch' = [exch EXCEPT ![k] = Proceeds(k, e)],
         UNCHANGED <<owed, alive, served, left>>
  PROVE  XInv'
  <1>1. ExchangeTypeOK /\ HeldForExchange /\ Clean /\ Numbered /\ IInv
        /\ rr_index <= MaxPicks
    BY DEF XInv
  <1>2. user[k] = NoConn /\ connect_fresh_to(k, ep, state)
        /\ rr_index' = rr_index
    BY DEF async_connect_fresh
  <1>3. Frame(k)  BY ZenonT(30), <1>1, <1>2, FreshFrame
  <1>4. exch \in [Callers -> Exchange]  BY <1>1 DEF ExchangeTypeOK
  <1>5. OnlyExch(k) /\ exch'[k] = Proceeds(k, e)
    BY <1>4, ProceedsFacts DEF OnlyExch
  <1>6. exch'[k].at # "none" => exch'[k].q = exch[k].q
    BY ZenonT(30), <1>5, ProceedsFacts, NoExchangeAt
  <1>7. Numbered'  BY SMTT(20), <1>1, <1>2, <1>5, <1>6, NumberedKept
  <1>8. \A c \in Conns : c # user[k]  BY <1>2, PoolAssumption
  <1>9. /\ owed' \in [Conns -> Seq(Part)] /\ alive' \in [Conns -> BOOLEAN]
        /\ left' \subseteq Conns /\ rr_index' <= MaxPicks
    BY <1>1, <1>2 DEF ExchangeTypeOK
  <1>10. \A c \in Conns : /\ owed'[c] = owed[c] /\ (c \in left => c \in left')
                          /\ c = user[k] => state'[c] # "closed"
    BY Zenon, <1>8
  <1>11. QED
    BY Zenon, <1>2, <1>3, <1>7, <1>9, <1>10, ProceedKept

LEMMA LateFailedKept ==
  ASSUME XInv, IInv', NotedOK', NEW k \in Callers, LateRequestWriteFailed(k)
  PROVE  XInv'
  <1>1. /\ exch[k].at = "late" /\ UNCHANGED <<owed, alive, served, left>>
    BY Zenon DEF LateRequestWriteFailed
  <1>2. exch \in [Callers -> Exchange] /\ served \in [Request -> Nat]
    BY DEF XInv, ExchangeTypeOK
  <1>3. CASE /\ exch' = [exch EXCEPT ![k] = NoExchange] /\ UNCHANGED vars
    <2>1. exch[k].q \in Request
      <3>1. exch[k].q \in 1..rr_index  BY <1>1 DEF XInv, Numbered
      <3>2. rr_index \in Nat /\ MaxPicks \in Nat /\ rr_index <= MaxPicks
        BY PoolAssumption DEF XInv, IInv, TypeOK
      <3>3. QED  BY <3>1, <3>2 DEF Request
    <2>2. served' = [served EXCEPT ![exch[k].q] = @ + 0]  BY <1>1, <1>2, <2>1
    <2>3. QED  BY Zenon, <1>1, <1>3, <2>2, LateOverKept
  <1>4. CASE /\ async_connect_fresh(k, backend_endpoint[k])
             /\ exch' = [exch EXCEPT ![k] =
                            Proceeds(k, [@ EXCEPT !.retry = FALSE])]
    <2> DEFINE e == [exch[k] EXCEPT !.retry = FALSE]
    <2>1. e \in Exchange /\ e.q = exch[k].q  BY Zenon, <1>2 DEF Exchange
    <2>2. exch' = [exch EXCEPT ![k] = Proceeds(k, e)]  BY <1>4
    <2> HIDE DEF e
    <2>3. QED  BY Zenon, <1>1, <1>4, <2>1, <2>2, LateRetryKept
  <1>5. QED  BY Zenon, <1>3, <1>4 DEF LateRequestWriteFailed

LEMMA LateWrittenKept ==
  ASSUME XInv, IInv', NotedOK', NEW k \in Callers, LateRequestWritten(k)
  PROVE  XInv'
  BY Zenon, LateOverKept DEF LateRequestWritten

LEMMA RequestKept ==
  ASSUME XInv, IInv', NotedOK', NEW k \in Callers, NEW g \in Groups,
         NEW b \in BOOLEAN, request_phase(k, g, b)
  PROVE  XInv'
  <1>1. ExchangeTypeOK /\ HeldForExchange /\ Clean /\ Numbered /\ IInv
    BY DEF XInv
  <1> DEFINE r == state'[user'[k]] = "held" /\ ~b
  <1>0. PICK j \in Candidates(g) :
          exch' = [exch EXCEPT ![k] = Proceeds(k, [NoExchange EXCEPT
                     !.q = rr_index', !.pick = j, !.body = b, !.retry = r])]
    BY Zenon DEF request_phase
  <1> DEFINE e == [NoExchange EXCEPT !.q = rr_index', !.pick = j, !.body = b,
                                     !.retry = r]
  <1>2. /\ exch[k].at = "none" /\ async_connect(k, g)
        /\ exch' = [exch EXCEPT ![k] = Proceeds(k, e)]
        /\ UNCHANGED <<owed, alive, served, left>>
    BY Zenon, <1>0 DEF request_phase
  <1>3. user[k] = NoConn /\ rr_index < MaxPicks /\ rr_index' = rr_index + 1
        /\ rr_index \in Nat /\ MaxPicks \in Nat
    BY <1>1, <1>2, PoolAssumption DEF async_connect, IInv, TypeOK
  <1>4. e \in Exchange /\ e.q = rr_index'
    <2>1. rr_index' \in 0..MaxPicks  BY <1>3
    <2>2. r \in BOOLEAN  OBVIOUS
    <2>3. j \in 0..Len(Backends)  BY PoolAssumption DEF Candidates, Entry
    <2> HIDE DEF r
    <2>4. QED  BY Zenon, <2>1, <2>2, <2>3, NoExchangeType DEF Exchange, NoExchange
  <1> HIDE DEF e
  <1>5. Frame(k)
    <2>1. PICK i \in Entry :
            \/ /\ idle[i] # <<>>
               /\ user' = [user EXCEPT ![k] = Head(idle[i])]
               /\ state' = [state EXCEPT ![Head(idle[i])] = "held"]
            \/ connect_fresh_to(k, Backends[i], state)
      BY <1>2 DEF async_connect, Candidates
    <2>2. CASE connect_fresh_to(k, Backends[i], state)
      BY ZenonT(30), <1>1, <1>3, <2>2, FreshFrame
    <2>3. CASE ~connect_fresh_to(k, Backends[i], state)
      BY Zenon, <1>1, <1>3, <2>1, <2>3, TakeFrame
    <2>4. QED  BY <2>2, <2>3
  <1>6. exch \in [Callers -> Exchange]  BY <1>1 DEF ExchangeTypeOK
  <1>7. OnlyExch(k) /\ exch'[k] = Proceeds(k, e)
    BY <1>2, <1>4, <1>6, ProceedsFacts DEF OnlyExch
  <1>8. exch'[k].at # "none" => exch'[k].q = rr_index'
    BY ZenonT(30), <1>1, <1>4, <1>7, ProceedsFacts, NoExchangeAt
  <1>9. Numbered'
    <2>1. \A q \in Request : q > rr_index' => q > rr_index
      BY <1>3 DEF Request
    <2>2. rr_index' \in Request /\ rr_index' > rr_index
      BY <1>3 DEF Request
    <2>3. served[rr_index'] = 0  BY <1>1, <2>2 DEF Numbered
    <2>4. \A l \in Callers : l # k => exch'[l] = exch[l]  BY <1>7 DEF OnlyExch
    <2>5. \A l \in Callers : exch[l].at # "none" =>
             exch[l].q \in 1..rr_index'  /\ exch[l].q # rr_index'
      BY <1>1, <1>3 DEF Numbered
    <2>6. (\A q \in Request : served[q] <= 1 /\ (q > rr_index => served[q] = 0))'
      BY <1>1, <1>2, <2>1 DEF Numbered
    <2>7. \A l \in Callers : exch'[l].at # "none" => exch'[l].q \in 1..rr_index'
      <3>1. rr_index' \in 1..rr_index'  BY <1>3
      <3>2. QED  BY <1>8, <2>4, <2>5, <3>1
    <2>8. \A l \in Callers :
            exch'[l].at \in {"connect", "write", "late"} => served'[exch'[l].q] = 0
      <3> SUFFICES ASSUME NEW l \in Callers,
                          exch'[l].at \in {"connect", "write", "late"}
                   PROVE  served[exch'[l].q] = 0
        BY <1>2
      <3>1. CASE l = k  BY <1>8, <2>3, <3>1
      <3>2. CASE l # k  BY SMTT(20), <1>1, <2>4, <3>2 DEF Numbered
      <3>3. QED  BY <3>1, <3>2
    <2>9. ASSUME NEW l \in Callers, NEW n \in Callers,
                 exch'[l].at # "none", exch'[n].at # "none",
                 exch'[l].q = exch'[n].q
          PROVE  l = n
      BY <1>1, <1>8, <2>4, <2>5, <2>9 DEF Numbered
    <2>10. QED  BY Zenon, <2>6, <2>7, <2>8, <2>9 DEF Numbered
  <1>10. rr_index' <= MaxPicks  BY <1>3
  <1>11. \A c \in Conns : c # user[k]  BY <1>3, PoolAssumption
  <1>12. /\ owed' \in [Conns -> Seq(Part)] /\ alive' \in [Conns -> BOOLEAN]
         /\ left' \subseteq Conns
    BY <1>1, <1>2 DEF ExchangeTypeOK
  <1>13. \A c \in Conns : /\ owed'[c] = owed[c] /\ (c \in left => c \in left')
                          /\ c = user[k] => state'[c] # "closed"
    BY Zenon, <1>2, <1>11
  <1>14. QED
    BY Zenon, <1>2, <1>3, <1>4, <1>5, <1>9, <1>10, <1>12, <1>13, ProceedKept

-----------------------------------------------------------------------------
(* Steps that leave the pool alone *)

LEMMA SameKept ==
  ASSUME XInv, IInv', NotedOK', NEW k \in Callers, UNCHANGED vars,
         exch[k].at \in {"write", "response", "reply"},
         NEW x \in Exchange, exch' = [exch EXCEPT ![k] = x],
         x.at \in {"response", "reply"}, x.q = exch[k].q,
         owed' \in [Conns -> Seq(Part)], UNCHANGED alive,
         \A c \in Conns : c # user[k] => owed'[c] = owed[c],
         left \subseteq left', left' \subseteq Conns,
         served' \in [Request -> Nat], Numbered',
         user[k] \notin left' => Fits(owed'[user[k]], x)
  PROVE  XInv'
  <1>1. ExchangeTypeOK /\ HeldForExchange /\ Clean /\ IInv
        /\ rr_index <= MaxPicks
    BY ZenonT(30) DEF XInv
  <1>2. user' = user /\ state' = state /\ rr_index' = rr_index  BY Zenon DEF vars
  <1>3. OnlyExch(k) /\ exch'[k] = x  BY SMTT(20), <1>1 DEF OnlyExch, ExchangeTypeOK
  <1>4. Frame(k)  BY <1>2 DEF Frame
  <1>5. user[k] # NoConn /\ state[user[k]] = "held"
    BY <1>1 DEF HeldForExchange
  <1>6. Holds(exch'[k].at, user'[k], state')  BY <1>2, <1>3, <1>5 DEF Holds
  <1>7. HeldForExchange'  BY Zenon, <1>1, <1>3, <1>4, <1>6, HeldKept
  <1>8. Leaves(k, owed', left')
    <2>1. \A c \in Conns : c = user[k] => state'[c] # "closed"
      BY ZenonT(30), <1>2, <1>5
    <2>2. user'[k] # NoConn /\ user'[k] \notin left'
            => Fits(owed'[user'[k]], exch'[k])
      BY Zenon, <1>2, <1>3
    <2>3. user'[k] = user[k]  BY Zenon, <1>2
    <2>4. QED  BY Zenon, <2>1, <2>2, <2>3 DEF Leaves
  <1>9. Clean'  BY Zenon, <1>1, <1>3, <1>4, <1>8, CleanKept
  <1>10. ExchangeTypeOK'  BY <1>1, <1>3 DEF ExchangeTypeOK, OnlyExch, NotedOK
  <1>11. QED  BY Zenon, <1>1, <1>2, <1>7, <1>9, <1>10 DEF XInv

LEMMA ConcatFacts ==
  ASSUME NEW S, NEW s \in Seq(S), NEW t \in Seq(S)
  PROVE  /\ s \o t \in Seq(S) /\ Len(s \o t) = Len(s) + Len(t)
         /\ \A m \in 1..Len(s \o t) :
              \/ m \in 1..Len(s) /\ (s \o t)[m] = s[m]
              \/ m - Len(s) \in 1..Len(t) /\ (s \o t)[m] = t[m - Len(s)]
         /\ s = <<>> => s \o t = t
  OBVIOUS

(* The parts R are those of an answer to q, no more than its head says. *)
Answers(R, q) ==
  /\ R \in Seq(Part)
  /\ \A m \in 1..Len(R) : R[m].q = q
  /\ R # <<>> /\ R[1].kind = "head" => Len(R) <= IF R[1].body THEN 2 ELSE 1

LEMMA ResponseFacts ==
  ASSUME NEW q \in Request, NEW interim \in BOOLEAN, NEW body \in BOOLEAN,
         NEW keep \in BOOLEAN
  PROVE  Answers(Response(q, interim, body, keep), q)
  <1> DEFINE R == Response(q, interim, body, keep)
             i == [q |-> q, kind |-> "interim", body |-> FALSE, keep |-> TRUE]
             h == [q |-> q, kind |-> "head", body |-> body, keep |-> keep]
             d == [q |-> q, kind |-> "body", body |-> FALSE, keep |-> TRUE]
             f == IF body THEN <<h, d>> ELSE <<h>>
  <1>1. /\ i \in Part /\ h \in Part /\ d \in Part
        /\ i.q = q /\ h.q = q /\ d.q = q
        /\ i.kind = "interim" /\ h.kind = "head" /\ h.body = body
    BY Zenon DEF Part
  <1>2. R = IF interim THEN <<i>> \o f ELSE f
    BY Zenon DEF Response
  <1> HIDE DEF R, i, h, d
  <1>3. /\ f \in Seq(Part) /\ (\A m \in 1..Len(f) : f[m].q = q)
        /\ f[1].kind = "head" /\ Len(f) <= IF f[1].body THEN 2 ELSE 1
    <2>1. CASE body
      <3>1. f = <<h, d>>  BY <2>1
      <3>2. /\ f \in Seq(Part) /\ Len(f) = 2 /\ f[1] = h
            /\ \A m \in 1..2 : f[m] = h \/ f[m] = d
        BY <1>1, <3>1
      <3>3. h.body = TRUE  BY <1>1, <2>1
      <3> HIDE DEF f
      <3>4. f[1].body = TRUE /\ f[1].kind = "head"  BY Zenon, <1>1, <3>2, <3>3
      <3>5. \A m \in 1..Len(f) : f[m].q = q  BY <1>1, <3>2
      <3>6. Len(f) <= IF f[1].body THEN 2 ELSE 1  BY <3>2, <3>4
      <3>7. QED  BY <3>2, <3>4, <3>5, <3>6, Zenon
    <2>2. CASE ~body
      <3>1. f = <<h>>  BY <2>2
      <3>2. /\ f \in Seq(Part) /\ Len(f) = 1 /\ f[1] = h
            /\ \A m \in 1..1 : f[m] = h
        BY <1>1, <3>1
      <3>3. h.body = FALSE  BY <1>1, <2>2
      <3> HIDE DEF f
      <3>4. QED  BY <1>1, <3>2, <3>3
    <2>3. QED  BY <2>1, <2>2
  <1> HIDE DEF f
  <1>4. CASE ~interim  BY <1>2, <1>3, <1>4 DEF R, Answers
  <1>5. CASE interim
    <2>1. R = <<i>> \o f /\ <<i>> \in Seq(Part) /\ Len(<<i>>) = 1 /\ <<i>>[1] = i
      BY <1>1, <1>2, <1>5
    <2> DEFINE s == <<i>>
    <2>2. R = s \o f /\ s \in Seq(Part) /\ Len(s) = 1 /\ s[1] = i  BY <2>1
    <2> HIDE DEF s
    <2>3. /\ R \in Seq(Part) /\ Len(R) = 1 + Len(f) /\ Len(f) \in Nat
          /\ \A m \in 1..Len(R) : \/ m \in 1..1 /\ R[m] = s[m]
                                  \/ m - 1 \in 1..Len(f) /\ R[m] = f[m - 1]
      <3>1. f \in Seq(Part) /\ s \in Seq(Part)  BY <1>3, <2>2
      <3>2. /\ s \o f \in Seq(Part) /\ Len(s \o f) = Len(s) + Len(f)
            /\ \A m \in 1..Len(s \o f) :
                 \/ m \in 1..Len(s) /\ (s \o f)[m] = s[m]
                 \/ m - Len(s) \in 1..Len(f) /\ (s \o f)[m] = f[m - Len(s)]
        BY <3>1, ConcatFacts, Zenon
      <3>3. R = s \o f /\ Len(s) = 1 /\ Len(f) \in Nat  BY <2>2, <3>1
      <3>4. QED  BY <3>2, <3>3, Zenon
    <2>4. 1 \in 1..Len(R) /\ R[1] = i  BY <2>2, <2>3
    <2>5. \A m \in 1..Len(R) : R[m].q = q  BY <1>1, <1>3, <2>2, <2>3
    <2>6. QED  BY <1>1, <2>3, <2>4, <2>5 DEF R, Answers
  <1>6. QED  BY <1>4, <1>5

LEMMA SubSeqFacts ==
  ASSUME NEW S, NEW s \in Seq(S), NEW a \in Nat \ {0}, NEW z \in 0..Len(s)
  PROVE  /\ SubSeq(s, a, z) \in Seq(S)
         /\ Len(SubSeq(s, a, z)) = IF a <= z THEN z - a + 1 ELSE 0
         /\ \A m \in 1..Len(SubSeq(s, a, z)) : SubSeq(s, a, z)[m] = s[a + m - 1]
  OBVIOUS

LEMMA AfterHeadFacts ==
  ASSUME NEW p \in Part, NEW rest \in Seq(Part), NEW n \in Nat
  PROVE  /\ AfterHead(p, rest, n) \in Seq(Part)
         /\ Len(AfterHead(p, rest, n)) \in Nat
         /\ Len(AfterHead(p, rest, n)) <= Len(rest)
  <1> DEFINE b == IF p.body /\ rest # <<>> THEN 1 ELSE 0
             x == SubSeq(rest, 1, b)
             y == SubSeq(rest, b + n + 1, Len(rest))
             l == Len(rest)
  <1>1. l \in Nat /\ b \in 0..l
    <2>1. l \in Nat /\ (rest # <<>> => l # 0)  OBVIOUS
    <2> HIDE DEF l
    <2>2. QED  BY <2>1
  <1>2. b + n + 1 \in Nat \ {0}  BY <1>1
  <1>3. AfterHead(p, rest, n) = x \o y  BY DEF AfterHead
  <1> HIDE DEF b
  <1>4. x \in Seq(Part) /\ Len(x) = IF 1 <= b THEN b - 1 + 1 ELSE 0
    BY <1>1, SubSeqFacts
  <1>5. y \in Seq(Part)
        /\ Len(y) = IF b + n + 1 <= l THEN l - (b + n + 1) + 1 ELSE 0
    BY <1>1, <1>2, SubSeqFacts
  <1> HIDE DEF x, y
  <1>6. x \o y \in Seq(Part) /\ Len(x \o y) = Len(x) + Len(y)
    BY <1>4, <1>5, ConcatFacts
  <1> DEFINE i == Len(x)
             j == Len(y)
  <1>7. i = (IF 1 <= b THEN b - 1 + 1 ELSE 0)
        /\ j = (IF b + n + 1 <= l THEN l - (b + n + 1) + 1 ELSE 0)
    BY <1>4, <1>5
  <1>8. Len(x \o y) = i + j  BY <1>6
  <1> HIDE DEF i, j, l
  <1>9. i + j \in Nat /\ i + j <= l  BY <1>1, <1>7
  <1>10. QED  BY <1>3, <1>6, <1>8, <1>9 DEF l

LEMMA RequestWrittenKept ==
  ASSUME XInv, IInv', NotedOK', NEW k \in Callers, RequestWritten(k)
  PROVE  XInv'
  <1>1. ExchangeTypeOK /\ HeldForExchange /\ Clean /\ Numbered /\ IInv
    BY DEF XInv
  <1> DEFINE c == user[k]
             q == exch[k].q
             x == [exch[k] EXCEPT !.at = "response", !.body = FALSE,
                                  !.retry = FALSE]
  <1>2. /\ exch[k].at = "write" /\ UNCHANGED <<vars, alive, left>>
        /\ exch' = [exch EXCEPT ![k] = x]
    BY Zenon DEF RequestWritten
  <1>3. /\ exch \in [Callers -> Exchange] /\ owed \in [Conns -> Seq(Part)]
        /\ left \subseteq Conns /\ served \in [Request -> Nat]
        /\ exch[k] \in Exchange
    BY <1>1 DEF ExchangeTypeOK
  <1>4. c \in Conns
    <2>1. exch[k].at = "write"  BY <1>2
    <2>2. c # NoConn  BY <1>1, <2>1 DEF HeldForExchange
    <2>3. QED  BY <1>1, <2>2 DEF IInv, TypeOK
  <1>5. rr_index \in Nat /\ MaxPicks \in Nat /\ rr_index <= MaxPicks
    BY PoolAssumption DEF XInv, IInv, TypeOK
  <1>6. q \in 1..rr_index /\ q \in Request /\ served[q] = 0
    BY <1>1, <1>2, <1>5 DEF Numbered, Request
  <1>7. x \in Exchange /\ x.at = "response" /\ x.q = q
    BY Zenon, <1>3 DEF Exchange
  <1>8. c \notin left => owed[c] = <<>>
    BY <1>1, <1>2, <1>4 DEF Clean, Fits
  <1> HIDE DEF x
  <1>9. OnlyExch(k) /\ exch'[k] = x  BY <1>2, <1>3, <1>7 DEF OnlyExch
  <1>10. CASE UNCHANGED <<served, owed>>
    <2>1. Numbered'
      BY SMTT(20), <1>1, <1>2, <1>7, <1>9, <1>10, NumberedKept DEF vars
    <2>2. c \notin left' => Fits(owed'[c], x)
      <3>1. Fits(<<>>, x)  BY <1>7 DEF Fits
      <3>2. QED  BY <1>2, <1>8, <1>10, <3>1
    <2>3. /\ owed' \in [Conns -> Seq(Part)] /\ served' \in [Request -> Nat]
          /\ left \subseteq left' /\ left' \subseteq Conns
          /\ \A d \in Conns : d # c => owed'[d] = owed[d]
      BY <1>2, <1>3, <1>10
    <2>4. QED  BY Zenon, <1>2, <1>7, <2>1, <2>2, <2>3, SameKept
  <1>11. ASSUME NEW interim \in BOOLEAN, NEW body \in BOOLEAN,
                NEW keep \in BOOLEAN,
                served' = [served EXCEPT ![q] = @ + 1],
                owed' = [owed EXCEPT ![c] =
                           @ \o Response(q, interim, body, keep)]
         PROVE  XInv'
    <2> DEFINE R == Response(q, interim, body, keep)
    <2>1. /\ R \in Seq(Part) /\ (\A m \in 1..Len(R) : R[m].q = q)
          /\ R # <<>> /\ R[1].kind = "head" =>
               Len(R) <= IF R[1].body THEN 2 ELSE 1
      <3>1. Answers(R, q)  BY <1>6, ResponseFacts
      <3>2. QED  BY <3>1 DEF Answers
    <2>2. owed' = [owed EXCEPT ![c] = @ \o R]  BY SMTT(20), <1>11
    <2> HIDE DEF R
    <2>3. owed[c] \o R \in Seq(Part) /\ (owed[c] = <<>> => owed[c] \o R = R)
      BY SMTT(20), <1>3, <1>4, <2>1, ConcatFacts
    <2>4. /\ owed' \in [Conns -> Seq(Part)] /\ owed'[c] = owed[c] \o R
          /\ \A d \in Conns : d # c => owed'[d] = owed[d]
      BY <1>3, <1>4, <2>2, <2>3
    <2>5. c \notin left' => Fits(owed'[c], x)
      <3>1. Fits(R, x)  BY <1>7, <2>1 DEF Fits
      <3>2. QED  BY Zenon, <1>2, <1>8, <2>3, <2>4, <3>1
    <2>6. /\ served' \in [Request -> Nat] /\ served'[q] = 1
          /\ \A r \in Request : r # q => served'[r] = served[r]
      BY <1>3, <1>6, <1>11
    <2>7. Numbered'
      <3>1. rr_index' = rr_index  BY <1>2 DEF vars
      <3>2. \A l \in Callers : l # k => exch'[l] = exch[l]
        BY <1>9 DEF OnlyExch
      <3>3. \A l \in Callers : exch'[l].at # "none" =>
              exch[l].at # "none" /\ exch'[l].q = exch[l].q
        BY <1>2, <1>7, <1>9, <3>2
      <3>4. \A r \in Request :
              served'[r] <= 1 /\ (r > rr_index' => served'[r] = 0)
        <4> SUFFICES ASSUME NEW r \in Request
                     PROVE  served'[r] <= 1 /\ (r > rr_index => served'[r] = 0)
          BY <3>1
        <4>1. CASE r = q
          <5>1. ~(r > rr_index)
            <6> HIDE DEF q
            <6>1. QED  BY SMTT(20), <1>5, <1>6, <4>1
          <5>2. QED  BY <2>6, <4>1, <5>1
        <4>2. CASE r # q  BY SMTT(20), <1>1, <2>6, <4>2 DEF Numbered
        <4>3. QED  BY <4>1, <4>2
      <3>5. ASSUME NEW l \in Callers, exch'[l].at \in {"connect", "write", "late"}
            PROVE  served'[exch'[l].q] = 0
        <4>1. l # k  BY <1>7, <1>9, <3>5
        <4>2. exch'[l] = exch[l]  BY <3>2, <4>1
        <4>3. exch[l].q # q  BY <1>1, <1>2, <3>5, <4>1, <4>2 DEF Numbered
        <4>4. exch[l].q \in Request
          <5>1. exch[l].q \in 1..rr_index
            <6>1. exch[l].at # "none"  BY <3>5, <4>2
            <6>2. QED  BY <1>1, <6>1 DEF Numbered
          <5>2. QED  BY <1>5, <5>1 DEF Request
        <4>5. served[exch[l].q] = 0  BY <1>1, <3>5, <4>2 DEF Numbered
        <4>6. QED  BY <2>6, <4>2, <4>3, <4>4, <4>5
      <3>6. QED  BY ZenonT(30), <1>1, <3>1, <3>3, <3>4, <3>5 DEF Numbered
    <2>8. left \subseteq left' /\ left' \subseteq Conns  BY <1>2, <1>3
    <2>9. QED  BY Zenon, <1>2, <1>7, <2>4, <2>5, <2>6, <2>7, <2>8, SameKept
  <1>12. QED  BY Zenon, <1>10, <1>11 DEF RequestWritten

LEMMA ParsedKept ==
  ASSUME XInv, IInv', NotedOK', NEW k \in Callers, ResponseParsed(k)
  PROVE  XInv'
  <1>1. ExchangeTypeOK /\ HeldForExchange /\ Clean /\ Numbered /\ IInv
    BY DEF XInv
  <1> DEFINE c == user[k]
             s == owed[c]
             p == Head(s)
             x == [exch[k] EXCEPT !.at = "reply", !.got = p.q,
                                  !.more = p.body, !.keep = p.keep]
  <1>2. /\ exch[k].at = "response" /\ UNCHANGED <<vars, alive, served>>
        /\ exch' = [exch EXCEPT ![k] = x] /\ s # <<>> /\ p.kind # "body"
        /\ left' = IF p.kind = "interim" THEN left \cup {c} ELSE left
    BY Zenon DEF ResponseParsed
  <1>3. PICK n \in 0..Len(s) :
          owed' = [owed EXCEPT ![c] = AfterHead(p, Tail(s), n)]
    BY Zenon DEF ResponseParsed
  <1>4. /\ exch \in [Callers -> Exchange] /\ owed \in [Conns -> Seq(Part)]
        /\ left \subseteq Conns /\ served \in [Request -> Nat]
        /\ exch[k] \in Exchange
    BY <1>1 DEF ExchangeTypeOK
  <1>5. c \in Conns
    <2>1. exch[k].at = "response"  BY <1>2
    <2>2. c # NoConn  BY <1>1, <2>1 DEF HeldForExchange
    <2>3. QED  BY <1>1, <2>2 DEF IInv, TypeOK
  <1>6. s \in Seq(Part)  BY <1>4, <1>5
  <1>7. /\ Tail(s) \in Seq(Part) /\ Len(Tail(s)) = Len(s) - 1
        /\ Len(s) \in Nat \ {0} /\ p = s[1] /\ p \in Part
    <2>1. s # <<>>  BY <1>2
    <2>2. QED  BY <1>6, <2>1, TailFacts
  <1> DEFINE t == AfterHead(p, Tail(s), n)
  <1>8. t \in Seq(Part) /\ Len(t) \in Nat /\ Len(t) <= Len(s) - 1
    <2> DEFINE r == Tail(s)
    <2>1. r \in Seq(Part) /\ Len(r) = Len(s) - 1 /\ n \in Nat
      BY <1>7
    <2> HIDE DEF r
    <2>2. /\ AfterHead(p, r, n) \in Seq(Part) /\ Len(AfterHead(p, r, n)) \in Nat
          /\ Len(AfterHead(p, r, n)) <= Len(r)
      BY <1>7, <2>1, AfterHeadFacts
    <2>3. QED  BY <2>1, <2>2 DEF r
  <1>9. owed' = [owed EXCEPT ![c] = t]  BY <1>3
  <1>10. x \in Exchange /\ x.at = "reply" /\ x.q = exch[k].q
         /\ x.got = p.q /\ x.more = p.body
    <2>1. p.q \in 0..MaxPicks  BY <1>7, PoolAssumption DEF Part, Request
    <2>2. p.body \in BOOLEAN /\ p.keep \in BOOLEAN  BY <1>7 DEF Part
    <2> HIDE DEF p
    <2>3. QED  BY Zenon, <1>4, <2>1, <2>2 DEF Exchange
  <1> HIDE DEF x, t
  <1>11. /\ owed' \in [Conns -> Seq(Part)] /\ owed'[c] = t
         /\ \A d \in Conns : d # c => owed'[d] = owed[d]
    BY <1>4, <1>5, <1>8, <1>9
  <1>12. left \subseteq left' /\ left' \subseteq Conns /\ UNCHANGED alive
         /\ served' \in [Request -> Nat]
    BY SMTT(20), <1>2, <1>4, <1>5
  <1>13. OnlyExch(k) /\ exch'[k] = x  BY SMTT(20), <1>2, <1>4, <1>10 DEF OnlyExch
  <1>14. Numbered'
    BY <1>1, <1>2, <1>10, <1>13, NumberedKept DEF vars
  <1>15. ASSUME c \notin left' PROVE Fits(owed'[c], x)
    <2>1. p.kind = "head" /\ c \notin left
      <3>1. p.kind \in {"interim", "head", "body"}  BY <1>7 DEF Part
      <3>2. p.kind # "interim"  BY SMTT(20), <1>2, <1>15
      <3>3. QED  BY Zenon, <1>2, <1>12, <1>15, <3>1, <3>2
    <2>2. Fits(s, exch[k])  BY <1>1, <1>5, <2>1 DEF Clean
    <2>3. (\A m \in 1..Len(s) : s[m].q = exch[k].q)
          /\ Len(s) <= IF s[1].body THEN 2 ELSE 1
      BY SMTT(20), <1>2, <1>7, <2>1, <2>2 DEF Fits
    <2>4. p.q = exch[k].q
      <3>1. 1 \in 1..Len(s)  BY <1>7
      <3>2. QED  BY <1>7, <2>3, <3>1
    <2>5. Len(t) <= IF p.body THEN 1 ELSE 0
      <3> DEFINE a == Len(s)
                 b == Len(t)
      <3>1. a \in Nat /\ b \in Nat /\ b <= a - 1  BY <1>7, <1>8
      <3>2. a <= IF p.body THEN 2 ELSE 1  BY <1>7, <2>3
      <3> HIDE DEF a, b, p
      <3>3. b <= IF p.body THEN 1 ELSE 0  BY <3>1, <3>2
      <3>4. QED  BY <3>3 DEF b
    <2> HIDE DEF p
    <2>6. x.got = x.q /\ Len(t) <= IF x.more THEN 1 ELSE 0
      BY <1>10, <2>4, <2>5
    <2>7. QED  BY <1>10, <1>11, <2>6 DEF Fits
  <1>16. QED
    BY Zenon, <1>2, <1>10, <1>11, <1>12, <1>14, <1>15, SameKept

LEMMA BackendClosesKept ==
  ASSUME XInv, IInv', NotedOK', NEW c \in Conns, BackendCloses(c)
  PROVE  XInv'
  <1>1. ExchangeTypeOK /\ HeldForExchange /\ Clean /\ Numbered /\ IInv
        /\ rr_index <= MaxPicks
    BY DEF XInv
  <1>2. /\ UNCHANGED <<vars, exch, served, left>>
        /\ alive' = [alive EXCEPT ![c] = FALSE]
    BY DEF BackendCloses
  <1>3. PICK n \in 0..Len(owed[c]) :
          owed' = [owed EXCEPT ![c] = SubSeq(owed[c], 1, n)]
    BY Zenon DEF BackendCloses
  <1> DEFINE s == owed[c]
             t == SubSeq(s, 1, n)
  <1>4. owed \in [Conns -> Seq(Part)] /\ s \in Seq(Part) /\ Len(s) \in Nat
    BY <1>1 DEF ExchangeTypeOK
  <1>5. t \in Seq(Part) /\ Len(t) = n
        /\ \A m \in 1..Len(t) : t[m] = s[m]
    <2>1. /\ t \in Seq(Part) /\ Len(t) = IF 1 <= n THEN n - 1 + 1 ELSE 0
          /\ \A m \in 1..Len(t) : t[m] = s[1 + m - 1]
      BY <1>4, SubSeqFacts
    <2>2. n \in Nat  BY <1>4
    <2> HIDE DEF t
    <2>3. Len(t) = n  BY <2>1, <2>2
    <2>4. \A m \in 1..Len(t) : 1 + m - 1 = m  BY <2>2, <2>3
    <2>5. QED  BY <2>1, <2>3, <2>4
  <1> HIDE DEF t
  <1>6. /\ owed' \in [Conns -> Seq(Part)] /\ owed'[c] = t
        /\ \A d \in Conns : d # c => owed'[d] = owed[d]
    BY <1>3, <1>4, <1>5 DEF t
  <1>7. alive' \in [Conns -> BOOLEAN]
    BY <1>1, <1>2 DEF ExchangeTypeOK
  <1>8. ExchangeTypeOK'  BY <1>1, <1>2, <1>6, <1>7 DEF ExchangeTypeOK, NotedOK
  <1>9. HeldForExchange' /\ Numbered' /\ rr_index' <= MaxPicks
    BY <1>1, <1>2 DEF HeldForExchange, Numbered, vars
  (* What is cut off at the end leaves a connection as clean as it was. *)
  <1>10. s = <<>> => t = <<>>
    <2>1. s = <<>> => n = 0  BY <1>4
    <2>2. QED  BY <1>5, <2>1
  <1>11. ASSUME NEW e \in Exchange, Fits(s, e) PROVE Fits(t, e)
    <2> DEFINE i == Len(s)
               j == Len(t)
    <2>1. i \in Nat /\ j \in Nat /\ j <= i  BY <1>4, <1>5
    <2>2. CASE e.at = "response"
      <3>1. /\ \A m \in 1..i : s[m].q = e.q
            /\ s # <<>> /\ s[1].kind = "head" => i <= IF s[1].body THEN 2 ELSE 1
        BY <1>11, <2>2 DEF Fits
      <3>2. \A m \in 1..j : m \in 1..i /\ t[m] = s[m]
        <4>1. \A m \in 1..j : t[m] = s[m]  BY <1>5
        <4> HIDE DEF i, j
        <4>2. \A m \in 1..j : m \in 1..i  BY <2>1
        <4>3. QED  BY <4>1, <4>2
      <3>3. t # <<>> => s # <<>> /\ t[1] = s[1]
        <4>1. t # <<>> => 1 \in 1..j  BY <1>5
        <4>2. QED  BY <1>10, <3>2, <4>1
      <3>4. \A m \in 1..j : t[m].q = e.q  BY <3>1, <3>2
      <3>5. t # <<>> /\ t[1].kind = "head" => j <= IF t[1].body THEN 2 ELSE 1
        <4> SUFFICES ASSUME t # <<>>, t[1].kind = "head"
                     PROVE  j <= IF t[1].body THEN 2 ELSE 1
          OBVIOUS
        <4>1. i <= IF t[1].body THEN 2 ELSE 1  BY <3>1, <3>3
        <4> HIDE DEF i, j
        <4>2. QED  BY <2>1, <4>1
      <3>6. QED  BY <2>2, <3>4, <3>5 DEF Fits
    <2>3. CASE e.at = "reply"
      <3>1. e.got = e.q /\ i <= IF e.more THEN 1 ELSE 0
        BY <1>11, <2>3 DEF Fits
      <3>2. j <= IF e.more THEN 1 ELSE 0
        <4> HIDE DEF i, j
        <4>1. QED  BY <2>1, <3>1
      <3>3. QED  BY <2>3, <3>1, <3>2 DEF Fits
    <2>4. CASE e.at \notin {"response", "reply"}
      BY <1>10, <1>11, <2>4 DEF Fits
    <2>5. QED  BY <2>2, <2>3, <2>4
  <1>12. Clean'
    <2> SUFFICES ASSUME NEW d \in Conns, d \notin left
                 PROVE  /\ (\A k \in Callers : user[k] # d) => owed'[d] = <<>>
                        /\ \A k \in Callers : user[k] = d =>
                             Fits(owed'[d], exch[k])
      BY <1>2 DEF Clean, vars
    <2>1. CASE d # c  BY <1>1, <1>6, <2>1 DEF Clean
    <2>2. CASE d = c
      <3>1. /\ (\A k \in Callers : user[k] # c) => s = <<>>
            /\ \A k \in Callers : user[k] = c => Fits(s, exch[k])
        BY <1>1, <2>2 DEF Clean
      <3>2. \A k \in Callers : exch[k] \in Exchange
        BY <1>1 DEF ExchangeTypeOK
      <3>3. \A k \in Callers : user[k] = c => Fits(t, exch[k])
        BY <1>11, <3>1, <3>2
      <3>4. QED  BY SMTT(20), <1>6, <1>10, <2>2, <3>1, <3>3
    <2>3. QED  BY <2>1, <2>2
  <1>13. QED  BY <1>8, <1>9, <1>12 DEF XInv

-----------------------------------------------------------------------------
(* Where the requests are sent *)

SentTo(e, c, tg, ep) ==
  /\ e.at # "none" => e.pick \in Entry
  /\ e.at \in {"connect", "write", "response", "reply"} =>
       tg[c] = Backends[e.pick]
  /\ e.at \in {"write", "late", "response", "reply"} => ep = Backends[e.pick]

LEMMA StepNoted ==
  ASSUME XInv, [ExchangeNext]_<<vars, xvars>>
  PROVE  NotedOK'
  <1>1. backend_endpoint \in [Callers -> Endpoint] /\ IInv
    BY DEF XInv, ExchangeTypeOK
  <1>2. ASSUME NEW k \in Callers, NEW ep \in Endpoint, Noted(k, ep)
        PROVE  NotedOK'
    BY <1>1, <1>2 DEF Noted, NotedOK
  <1>3. ASSUME NEW k \in Callers, NEW g \in Groups, NEW b \in BOOLEAN,
               request_phase(k, g, b)
        PROVE  NotedOK'
    <2>1. PICK i \in Candidates(g) : Noted(k, Backends[i])
      BY Zenon, <1>3 DEF request_phase
    <2>2. Backends[i] \in Endpoint  BY EntryBackends DEF Candidates
    <2>3. QED  BY <1>2, <2>1, <2>2
  <1>4. ASSUME NEW k \in Callers, use_backend(k) PROVE NotedOK'
    <2>1. user[k] # NoConn /\ Noted(k, target[user[k]])
      BY Zenon, <1>4 DEF use_backend, ConnectDone
    <2>2. target[user[k]] \in Endpoint  BY <1>1, <2>1 DEF IInv, TypeOK
    <2>3. QED  BY <1>2, <2>1, <2>2
  <1>5. CASE UNCHANGED backend_endpoint  BY SMTT(20), <1>1, <1>5 DEF NotedOK
  <1>6. QED
    BY Zenon, <1>3, <1>4, <1>5
       DEF ExchangeNext, xvars, RequestWritten, RequestWriteFailed,
           LateRequestWritten, LateRequestWriteFailed, ResponseParsed,
           ResponseFailed, ResponseWritten, ResponseWriteFailed, teardown,
           BackendCloses

(* What relay k does leaves alone where the others send their requests. *)
LEMMA SentKept ==
  ASSUME IInv', SentWherePicked, HeldForExchange, HeldForExchange',
         NEW k \in Callers,
         \A l \in Callers : l # k => /\ exch'[l] = exch[l] /\ user'[l] = user[l]
                                     /\ backend_endpoint'[l] = backend_endpoint[l],
         \A c \in Conns : c # user'[k] => target'[c] = target[c],
         SentTo(exch'[k], user'[k], target', backend_endpoint'[k])
  PROVE  SentWherePicked'
  <1>1. ASSUME NEW l \in Callers
        PROVE  SentTo(exch'[l], user'[l], target', backend_endpoint'[l])
    <2>1. CASE l = k  BY <2>1
    <2>2. CASE l # k
      <3>1. SentTo(exch[l], user[l], target, backend_endpoint[l])
        BY SMTT(20) DEF SentWherePicked, SentTo
      <3>2. ASSUME exch'[l].at \in {"connect", "write", "response", "reply"}
            PROVE  target'[user'[l]] = target[user[l]]
        <4>1. user'[l] # NoConn  BY SMTT(20), <3>2 DEF HeldForExchange
        <4>2. user'[l] \in Conns  BY SMTT(20), <4>1 DEF IInv, TypeOK
        <4>3. user'[l] # user'[k]  BY <2>2, <4>1 DEF IInv, HeldOnce
        <4>4. QED  BY <2>2, <4>2, <4>3
      <3>3. QED  BY <2>2, <3>1, <3>2 DEF SentTo
    <2>3. QED  BY Zenon, <2>1, <2>2
  <1>2. QED  BY SMTT(20), <1>1 DEF SentWherePicked, SentTo

(* A fresh connection leads where it was dialled to. *)
LEMMA FreshSent ==
  ASSUME IInv, NEW k \in Callers, NEW ep, NEW before, connect_fresh_to(k, ep, before)
  PROVE  /\ \A c \in Conns : c # user'[k] => target'[c] = target[c]
         /\ user'[k] # NoConn => target'[user'[k]] = ep
         /\ \A l \in Callers : l # k => user'[l] = user[l]
  <1>1. /\ user \in [Callers -> Conns \cup {NoConn}]
        /\ target \in [Conns -> Endpoint]
    BY DEF IInv, TypeOK
  <1>2. CASE user' = [user EXCEPT ![k] = NoConn] /\ UNCHANGED target
    BY <1>1, <1>2
  <1>3. ASSUME NEW c \in Conns, target' = [target EXCEPT ![c] = ep],
               user' = [user EXCEPT ![k] = c]
        PROVE  /\ \A d \in Conns : d # user'[k] => target'[d] = target[d]
               /\ user'[k] # NoConn => target'[user'[k]] = ep
               /\ \A l \in Callers : l # k => user'[l] = user[l]
    BY SMTT(20), <1>1, <1>3
  <1>4. QED  BY <1>2, <1>3 DEF connect_fresh_to

LEMMA ProceedsSent ==
  ASSUME NEW k \in Callers, NEW e \in Exchange, NEW tg, NEW ep,
         e.pick \in Entry, user'[k] # NoConn =>
           /\ tg[user'[k]] = Backends[e.pick]
           /\ state'[user'[k]] = "held" => ep = Backends[e.pick]
  PROVE  SentTo(Proceeds(k, e), user'[k], tg, ep)
  <1>1. CASE user'[k] = NoConn
    <2>1. Proceeds(k, e).at = "none"  BY <1>1, NoExchangeAt DEF Proceeds
    <2>2. QED  BY <2>1 DEF SentTo
  <1>2. CASE user'[k] # NoConn
    <2> DEFINE p == Proceeds(k, e)
    <2>1. /\ p.pick = e.pick
          /\ p.at = IF state'[user'[k]] = "held" THEN "write" ELSE "connect"
      BY <1>2 DEF Proceeds, Exchange
    <2> HIDE DEF p
    <2>2. SentTo(p, user'[k], tg, ep)  BY <1>2, <2>1 DEF SentTo
    <2>3. QED  BY <2>2 DEF p
  <1>3. QED  BY <1>1, <1>2

LEMMA RequestSent ==
  ASSUME XInv, XInv', SentWherePicked, NEW k \in Callers, NEW g \in Groups,
         NEW b \in BOOLEAN, request_phase(k, g, b)
  PROVE  SentWherePicked'
  <1>1. IInv /\ IInv' /\ HeldForExchange /\ HeldForExchange' /\ ExchangeTypeOK
        /\ ExchangeTypeOK'
    BY DEF XInv
  <1>2. PICK i \in Candidates(g) :
          /\ picks'[i] # picks[i] /\ Noted(k, Backends[i])
          /\ exch' = [exch EXCEPT ![k] = Proceeds(k, [NoExchange EXCEPT
                        !.q = rr_index', !.pick = i, !.body = b,
                        !.retry = state'[user'[k]] = "held" /\ ~b])]
    BY Zenon DEF request_phase
  <1>3. PICK j \in Candidates(g) :
          /\ picks' = [picks EXCEPT ![j] = @ + 1]
          /\ \/ /\ idle[j] # <<>>
                /\ user' = [user EXCEPT ![k] = Head(idle[j])]
                /\ state' = [state EXCEPT ![Head(idle[j])] = "held"]
                /\ UNCHANGED target
             \/ connect_fresh_to(k, Backends[j], state)
    BY Zenon DEF request_phase, async_connect
  <1>4. i = j /\ i \in Entry /\ Backends[i] \in Endpoint
    <2>1. i \in Entry /\ j \in Entry  BY DEF Candidates
    <2>2. picks \in [Entry -> Nat]  BY SMTT(20), <1>1 DEF IInv, TypeOK
    <2>3. QED  BY <1>2, <1>3, <2>1, <2>2, EntryBackends
  <1>5. /\ \A c \in Conns : c # user'[k] => target'[c] = target[c]
        /\ user'[k] # NoConn => target'[user'[k]] = Backends[i]
        /\ \A l \in Callers : l # k => user'[l] = user[l]
    <2>1. CASE connect_fresh_to(k, Backends[j], state)
      BY Zenon, <1>1, <1>4, <2>1, FreshSent
    <2>2. CASE idle[j] # <<>> /\ user' = [user EXCEPT ![k] = Head(idle[j])]
               /\ UNCHANGED target
      <3>1. idle[j] \in Seq(Conns)  BY <1>1, <1>4 DEF IInv, TypeOK
      <3>2. Head(idle[j]) = idle[j][1] /\ 1 \in 1..Len(idle[j])
        <4> DEFINE q == idle[j]
        <4>1. q \in Seq(Conns) /\ q # <<>>  BY <2>2, <3>1
        <4> HIDE DEF q
        <4>2. Head(q) = q[1] /\ Len(q) \in Nat \ {0}  BY <4>1, TailFacts
        <4>3. 1 \in 1..Len(q)  BY SMTT(20), <4>2
        <4>4. QED  BY <4>2, <4>3 DEF q
      <3>3. target[Head(idle[j])] = Backends[j]
        BY ZenonT(30), <1>1, <1>4, <3>2 DEF IInv, QueuedWhereItLeads
      <3>4. user \in [Callers -> Conns \cup {NoConn}]  BY <1>1 DEF IInv, TypeOK
      <3>5. QED  BY <1>4, <2>2, <3>3, <3>4
    <2>3. QED  BY Zenon, <1>3, <2>1, <2>2
  <1> DEFINE r == state'[user'[k]] = "held" /\ ~b
             e == [NoExchange EXCEPT !.q = rr_index', !.pick = i, !.body = b,
                                     !.retry = r]
  <1>6. exch \in [Callers -> Exchange] /\ backend_endpoint \in [Callers -> Endpoint]
    BY <1>1 DEF ExchangeTypeOK
  <1>7. exch' = [exch EXCEPT ![k] = Proceeds(k, e)] /\ e.pick = i /\ e \in Exchange
    <2>1. rr_index' \in 0..MaxPicks
      <3>1. rr_index' \in Nat  BY <1>1 DEF IInv, TypeOK
      <3>2. rr_index' <= MaxPicks  BY Zenon DEF XInv
      <3>3. QED  BY <3>1, <3>2, PoolAssumption
    <2>2. r \in BOOLEAN /\ i \in 0..Len(Backends)
      BY <1>4, PoolAssumption DEF Entry
    <2> HIDE DEF r
    <2>3. e \in Exchange /\ e.pick = i
      BY Zenon, <2>1, <2>2, NoExchangeType DEF Exchange, NoExchange
    <2>4. QED  BY Zenon, <1>2, <2>3 DEF r
  <1> HIDE DEF e
  <1>8. exch'[k] = Proceeds(k, e) /\ \A l \in Callers : l # k => exch'[l] = exch[l]
    BY <1>6, <1>7
  <1>9. /\ \A l \in Callers : l # k => backend_endpoint'[l] = backend_endpoint[l]
        /\ user'[k] # NoConn /\ state'[user'[k]] = "held" =>
             backend_endpoint'[k] = Backends[i]
    BY <1>2, <1>6 DEF Noted
  <1>10. SentTo(exch'[k], user'[k], target', backend_endpoint'[k])
    <2>1. /\ e.pick \in Entry
          /\ user'[k] # NoConn =>
               /\ target'[user'[k]] = Backends[e.pick]
               /\ state'[user'[k]] = "held" =>
                    backend_endpoint'[k] = Backends[e.pick]
      BY Zenon, <1>4, <1>5, <1>7, <1>9
    <2>2. SentTo(Proceeds(k, e), user'[k], target', backend_endpoint'[k])
      BY Zenon, <1>7, <2>1, ProceedsSent
    <2>3. QED  BY Zenon, <1>8, <2>2
  <1>11. QED  BY Zenon, <1>1, <1>5, <1>8, <1>9, <1>10, SentKept

LEMMA UseBackendSent ==
  ASSUME XInv, XInv', SentWherePicked, NEW k \in Callers, use_backend(k)
  PROVE  SentWherePicked'
  <1>1. IInv /\ IInv' /\ HeldForExchange /\ HeldForExchange' /\ ExchangeTypeOK
    BY DEF XInv
  <1>2. /\ exch[k].at = "connect" /\ exch' = [exch EXCEPT ![k] = Proceeds(k, @)]
        /\ Noted(k, target[user[k]]) /\ user[k] # NoConn /\ UNCHANGED target
        /\ user' = user \/ user' = [user EXCEPT ![k] = NoConn]
    BY Zenon DEF use_backend, ConnectDone
  <1>3. exch \in [Callers -> Exchange] /\ backend_endpoint \in [Callers -> Endpoint]
        /\ user \in [Callers -> Conns \cup {NoConn}]
    BY <1>1 DEF ExchangeTypeOK, IInv, TypeOK
  <1>4. /\ exch'[k] = Proceeds(k, exch[k])
        /\ \A l \in Callers : l # k => exch'[l] = exch[l] /\ user'[l] = user[l]
        /\ user'[k] # NoConn => user'[k] = user[k]
    BY SMTT(20), <1>2, <1>3
  <1>5. exch[k].pick \in Entry /\ target[user[k]] = Backends[exch[k].pick]
    BY SMTT(20), <1>2 DEF SentWherePicked
  <1>6. /\ \A l \in Callers : l # k => backend_endpoint'[l] = backend_endpoint[l]
        /\ user'[k] # NoConn /\ state'[user'[k]] = "held" =>
             backend_endpoint'[k] = Backends[exch[k].pick]
    BY ZenonT(30), <1>2, <1>3, <1>5 DEF Noted
  <1>7. SentTo(exch'[k], user'[k], target', backend_endpoint'[k])
    BY Zenon, <1>2, <1>3, <1>4, <1>5, <1>6, ProceedsSent
  <1>8. QED  BY Zenon, <1>1, <1>2, <1>4, <1>6, <1>7, SentKept

LEMMA RetrySent ==
  ASSUME XInv, XInv', SentWherePicked, NEW k \in Callers,
         RequestWriteFailed(k) \/ LateRequestWriteFailed(k)
  PROVE  SentWherePicked'
  <1>1. IInv /\ IInv' /\ HeldForExchange /\ HeldForExchange' /\ ExchangeTypeOK
    BY DEF XInv
  <1> DEFINE e == [exch[k] EXCEPT !.retry = FALSE]
             ep == backend_endpoint[k]
  <1>2. exch \in [Callers -> Exchange] /\ exch[k] \in Exchange
        /\ user \in [Callers -> Conns \cup {NoConn}]
    BY <1>1 DEF ExchangeTypeOK, IInv, TypeOK
  <1>3. /\ exch[k].at \in {"write", "late"} /\ UNCHANGED backend_endpoint
        /\ \/ exch' = [exch EXCEPT ![k] = Proceeds(k, e)]
           \/ exch' = [exch EXCEPT ![k] = NoExchange] /\ UNCHANGED vars
    BY Zenon DEF RequestWriteFailed, LateRequestWriteFailed
  <1>4. \/ \E before : connect_fresh_to(k, ep, before)
        \/ user' = [user EXCEPT ![k] = NoConn] /\ UNCHANGED target
        \/ UNCHANGED vars /\ exch' = [exch EXCEPT ![k] = NoExchange]
    BY Zenon DEF RequestWriteFailed, LateRequestWriteFailed, Close,
                 reconnect_backend_fresh, async_connect_fresh
  <1>5. e \in Exchange /\ e.pick = exch[k].pick  BY Zenon, <1>2 DEF Exchange
  <1>6. exch[k].pick \in Entry /\ ep = Backends[exch[k].pick]
    BY <1>3 DEF SentWherePicked
  <1>7. \A l \in Callers : l # k => exch'[l] = exch[l]  BY <1>2, <1>3
  <1> HIDE DEF e
  <1>8. CASE exch' = [exch EXCEPT ![k] = NoExchange] /\ UNCHANGED vars
    <2>1. user' = user /\ target' = target  BY <1>8 DEF vars
    <2>2. exch'[k].at = "none"  BY <1>2, <1>8, NoExchangeAt
    <2>3. SentTo(exch'[k], user'[k], target', backend_endpoint'[k])
      BY <2>2 DEF SentTo
    <2>4. QED  BY Zenon, <1>1, <1>3, <1>7, <2>1, <2>3, SentKept
  <1>9. CASE /\ exch' = [exch EXCEPT ![k] = Proceeds(k, e)]
             /\ ~(exch' = [exch EXCEPT ![k] = NoExchange] /\ UNCHANGED vars)
    <2>1. exch'[k] = Proceeds(k, e)  BY <1>2, <1>9
    <2>2. /\ \A c \in Conns : c # user'[k] => target'[c] = target[c]
          /\ user'[k] # NoConn => target'[user'[k]] = ep
          /\ \A l \in Callers : l # k => user'[l] = user[l]
      <3>1. ASSUME NEW before, connect_fresh_to(k, ep, before)
            PROVE  /\ \A c \in Conns : c # user'[k] => target'[c] = target[c]
                   /\ user'[k] # NoConn => target'[user'[k]] = ep
                   /\ \A l \in Callers : l # k => user'[l] = user[l]
        BY Zenon, <1>1, <3>1, FreshSent
      <3>2. CASE user' = [user EXCEPT ![k] = NoConn] /\ UNCHANGED target
        BY <1>2, <3>2
      <3>3. QED  BY ZenonT(30), <1>4, <1>9, <3>1, <3>2
    <2>3. SentTo(exch'[k], user'[k], target', backend_endpoint'[k])
      <3>1. /\ e.pick \in Entry
            /\ user'[k] # NoConn =>
                 /\ target'[user'[k]] = Backends[e.pick]
                 /\ state'[user'[k]] = "held" =>
                      backend_endpoint'[k] = Backends[e.pick]
        BY Zenon, <1>3, <1>5, <1>6, <2>2
      <3>2. SentTo(Proceeds(k, e), user'[k], target', backend_endpoint'[k])
        BY Zenon, <1>5, <3>1, ProceedsSent
      <3>3. QED  BY Zenon, <2>1, <3>2
    <2>4. QED  BY Zenon, <1>1, <1>3, <1>7, <2>2, <2>3, SentKept
  <1>10. QED  BY <1>3, <1>8, <1>9

(* Steps that dial nobody: the exchange goes on with its connection, gives *)
(* it up, or is over.                                                      *)
LEMMA OtherSent ==
  ASSUME XInv, XInv', SentWherePicked, NEW k \in Callers,
         UNCHANGED <<target, backend_endpoint>>, NEW x,
         exch' = [exch EXCEPT ![k] = x],
         \A l \in Callers : l # k => user'[l] = user[l],
         \/ x.at = "none"
         \/ /\ x.pick = exch[k].pick /\ exch[k].at # "none"
            /\ \/ x.at = "late" /\ exch[k].at = "write"
               \/ /\ user'[k] = user[k]
                  /\ \/ x.at = "connect" /\ exch[k].at = "connect"
                     \/ /\ x.at \in {"response", "reply"}
                        /\ exch[k].at \in {"write", "response", "reply"}
  PROVE  SentWherePicked'
  <1>1. IInv /\ IInv' /\ HeldForExchange /\ HeldForExchange' /\ ExchangeTypeOK
    BY DEF XInv
  <1>2. exch \in [Callers -> Exchange]  BY <1>1 DEF ExchangeTypeOK
  <1>3. exch'[k] = x /\ \A l \in Callers : l # k => exch'[l] = exch[l]
    BY <1>2
  <1>4. SentTo(exch[k], user[k], target, backend_endpoint[k])
    BY DEF SentWherePicked, SentTo
  <1>5. SentTo(x, user'[k], target, backend_endpoint[k])
    BY SMTT(20), <1>4 DEF SentTo
  <1>6. QED  BY Zenon, <1>1, <1>3, <1>5, SentKept

LEMMA GoOnSent ==
  ASSUME XInv, XInv', SentWherePicked, NEW k \in Callers,
         RequestWritten(k) \/ ResponseParsed(k)
  PROVE  SentWherePicked'
  <1>1. exch \in [Callers -> Exchange] /\ exch[k] \in Exchange
    BY DEF XInv, ExchangeTypeOK
  <1>2. user' = user /\ target' = target /\ backend_endpoint' = backend_endpoint
    BY Zenon DEF RequestWritten, ResponseParsed, vars
  <1>3. CASE RequestWritten(k)
    <2> DEFINE x == [exch[k] EXCEPT !.at = "response", !.body = FALSE,
                                    !.retry = FALSE]
    <2>1. exch' = [exch EXCEPT ![k] = x] /\ exch[k].at = "write"
      BY Zenon, <1>3 DEF RequestWritten
    <2>2. x.at = "response" /\ x.pick = exch[k].pick  BY Zenon, <1>1 DEF Exchange
    <2> HIDE DEF x
    <2>3. QED  BY Zenon, <1>2, <2>1, <2>2, OtherSent
  <1>4. CASE ResponseParsed(k)
    <2> DEFINE p == Head(owed[user[k]])
               x == [exch[k] EXCEPT !.at = "reply", !.got = p.q,
                                    !.more = p.body, !.keep = p.keep]
    <2>1. exch' = [exch EXCEPT ![k] = x] /\ exch[k].at = "response"
      BY Zenon, <1>4 DEF ResponseParsed
    <2> HIDE DEF p
    <2>2. x.at = "reply" /\ x.pick = exch[k].pick  BY Zenon, <1>1 DEF Exchange
    <2> HIDE DEF x
    <2>3. QED  BY Zenon, <1>2, <2>1, <2>2, OtherSent
  <1>5. QED  BY <1>3, <1>4

LEMMA OverSent ==
  ASSUME XInv, XInv', SentWherePicked, NEW k \in Callers,
         \/ LateRequestWritten(k) \/ ResponseFailed(k)
         \/ ResponseWritten(k) \/ ResponseWriteFailed(k)
  PROVE  SentWherePicked'
  <1>1. /\ exch' = [exch EXCEPT ![k] = NoExchange]
        /\ UNCHANGED <<target, backend_endpoint>>
        /\ user' = user \/ user' = [user EXCEPT ![k] = NoConn]
    BY Zenon DEF LateRequestWritten, ResponseFailed, ResponseWritten,
                 ResponseWriteFailed, finish_backend, Close, release, vars
  <1>2. user \in [Callers -> Conns \cup {NoConn}]  BY DEF XInv, IInv, TypeOK
  <1>3. \A l \in Callers : l # k => user'[l] = user[l]  BY <1>1, <1>2
  <1>4. QED  BY Zenon, <1>1, <1>3, NoExchangeAt, OtherSent

LEMMA TeardownSent ==
  ASSUME XInv, XInv', SentWherePicked, NEW k \in Callers, teardown(k)
  PROVE  SentWherePicked'
  <1>1. exch \in [Callers -> Exchange] /\ exch[k] \in Exchange
        /\ user \in [Callers -> Conns \cup {NoConn}]
    BY DEF XInv, ExchangeTypeOK, IInv, TypeOK
  <1>2. UNCHANGED <<target, backend_endpoint>>
        /\ (user' = user \/ user' = [user EXCEPT ![k] = NoConn])
    BY Zenon DEF teardown, Close, vars
  <1>3. \A l \in Callers : l # k => user'[l] = user[l]  BY <1>1, <1>2
  <1>4. CASE /\ exch[k].at = "connect" /\ UNCHANGED vars
             /\ exch' = [exch EXCEPT ![k].done = TRUE]
    <2> DEFINE x == [exch[k] EXCEPT !.done = TRUE]
    <2>1. x.at = exch[k].at /\ x.pick = exch[k].pick  BY Zenon, <1>1 DEF Exchange
    <2>2. exch' = [exch EXCEPT ![k] = x] /\ user' = user  BY Zenon, <1>4 DEF vars
    <2> HIDE DEF x
    <2>3. QED  BY Zenon, <1>2, <1>3, <1>4, <2>1, <2>2, OtherSent
  <1>5. CASE exch' = [exch EXCEPT ![k] =
                        IF @.at = "write"
                        THEN [@ EXCEPT !.at = "late", !.done = TRUE]
                        ELSE NoExchange]
    <2> DEFINE y == [exch[k] EXCEPT !.at = "late", !.done = TRUE]
               x == IF exch[k].at = "write" THEN y ELSE NoExchange
    <2>1. y.at = "late" /\ y.pick = exch[k].pick  BY Zenon, <1>1 DEF Exchange
    <2>2. exch' = [exch EXCEPT ![k] = x]  BY Zenon, <1>5
    <2> HIDE DEF y
    <2>3. \/ x.at = "none"
          \/ x.at = "late" /\ exch[k].at = "write" /\ x.pick = exch[k].pick
      BY <2>1, NoExchangeAt
    <2> HIDE DEF x
    <2>4. QED  BY Zenon, <1>2, <1>3, <2>2, <2>3, OtherSent
  <1>6. QED  BY Zenon, <1>4, <1>5 DEF teardown

LEMMA ExchangeInitSent == ExchangeInit => SentWherePicked
  <1> SUFFICES ASSUME ExchangeInit, NEW k \in Callers
               PROVE  exch[k].at = "none"
    BY DEF SentWherePicked
  <1> QED  BY NoExchangeAt DEF ExchangeInit

-----------------------------------------------------------------------------
(* The theorems *)

LEMMA ExchangeInitInv == ExchangeInit => XInv
  <1> SUFFICES ASSUME ExchangeInit PROVE XInv  OBVIOUS
  <1>1. IInv  BY InitInv DEF ExchangeInit
  <1>2. /\ exch = [k \in Callers |-> NoExchange]
        /\ owed = [c \in Conns |-> <<>>] /\ alive = [c \in Conns |-> TRUE]
        /\ served = [q \in Request |-> 0] /\ left = {}
        /\ backend_endpoint = [k \in Callers |-> CHOOSE ep \in Endpoint : TRUE]
        /\ rr_index = 0 /\ user = [k \in Callers |-> NoConn]
        /\ state = [c \in Conns |-> "unused"]
    BY DEF ExchangeInit, Init
  <1>3. \A k \in Callers : exch[k] = NoExchange /\ exch[k].at = "none"
    BY <1>2 DEF NoExchange
  <1>4. ExchangeTypeOK
    <2>1. exch \in [Callers -> Exchange]  BY <1>2, NoExchangeType
    <2>2. alive \in [Conns -> BOOLEAN]  BY <1>2
    <2>3. owed \in [Conns -> Seq(Part)]
      <3>1. <<>> \in Seq(Part)  OBVIOUS
      <3>2. QED  BY <1>2, <3>1
    <2>4. served \in [Request -> Nat] /\ left \subseteq Conns  BY <1>2
    <2>5. backend_endpoint \in [Callers -> Endpoint]
      <3>1. (CHOOSE ep \in Endpoint : TRUE) \in Endpoint  BY PoolAssumption
      <3>2. QED  BY <1>2, <3>1
    <2>6. QED  BY <2>1, <2>2, <2>3, <2>4, <2>5 DEF ExchangeTypeOK
  <1>5. HeldForExchange  BY <1>2, <1>3 DEF HeldForExchange
  <1>6. Clean
    <2>1. \A c \in Conns : owed[c] = <<>>  BY <1>2
    <2>2. \A k \in Callers : user[k] = NoConn  BY <1>2
    <2>3. QED  BY <2>1, <2>2, PoolAssumption DEF Clean
  <1>7. Numbered
    <2>1. \A q \in Request : served[q] = 0  BY <1>2
    <2>2. QED  BY <1>3, <2>1 DEF Numbered
  <1>8. rr_index <= MaxPicks  BY <1>2, PoolAssumption
  <1>9. QED  BY <1>1, <1>4, <1>5, <1>6, <1>7, <1>8 DEF XInv

LEMMA ExchangeStepInv ==
  ASSUME XInv, SentWherePicked, [ExchangeNext]_<<vars, xvars>>
  PROVE  XInv'
  <1>0. IInv'
    <2>1. [Next]_vars  BY StepIsPoolStep DEF XInv
    <2>2. QED  BY <2>1, NextInv DEF XInv
  <1>1. NotedOK'  BY StepNoted
  <1>2. CASE UNCHANGED <<vars, xvars>>
    <2>1. /\ UNCHANGED <<user, state, rr_index>>
          /\ UNCHANGED <<exch, backend_endpoint, owed, alive, served, left>>
      BY <1>2 DEF vars, xvars
    <2>2. ExchangeTypeOK' /\ HeldForExchange' /\ Clean' /\ Numbered'
          /\ rr_index' <= MaxPicks
      BY <2>1 DEF XInv, ExchangeTypeOK, HeldForExchange, Clean, Numbered
    <2>3. QED  BY <1>0, <2>2 DEF XInv
  <1>3. ASSUME NEW k \in Callers, NEW g \in Groups, NEW b \in BOOLEAN,
               request_phase(k, g, b)
        PROVE  XInv'
    BY <1>0, <1>1, <1>3, RequestKept
  <1>4. ASSUME NEW k \in Callers,
               \/ use_backend(k) \/ RequestWritten(k) \/ RequestWriteFailed(k)
               \/ LateRequestWritten(k) \/ LateRequestWriteFailed(k)
        PROVE  XInv'
    BY <1>0, <1>1, <1>4, UseBackendKept, RequestWrittenKept, WriteFailedKept,
       LateWrittenKept, LateFailedKept
  <1>5. ASSUME NEW k \in Callers,
               \/ ResponseParsed(k) \/ ResponseFailed(k) \/ ResponseWritten(k)
               \/ ResponseWriteFailed(k) \/ teardown(k)
        PROVE  XInv'
    BY <1>0, <1>1, <1>5, ParsedKept, FailKept, WrittenKept, TeardownKept
  <1>6. ASSUME NEW c \in Conns, BackendCloses(c) PROVE XInv'
    BY <1>0, <1>1, <1>6, BackendClosesKept
  <1>7. QED  BY <1>2, <1>3, <1>4, <1>5, <1>6 DEF ExchangeNext

LEMMA SentStep ==
  ASSUME XInv, SentWherePicked, [ExchangeNext]_<<vars, xvars>>
  PROVE  SentWherePicked'
  <1>0. XInv'  BY ExchangeStepInv
  <1>1. CASE UNCHANGED <<vars, xvars>>
    BY SMTT(20), <1>1 DEF vars, xvars, SentWherePicked
  <1>2. ASSUME NEW c \in Conns, BackendCloses(c) PROVE SentWherePicked'
    BY <1>2 DEF BackendCloses, vars, SentWherePicked
  <1>3. ASSUME NEW k \in Callers, NEW g \in Groups, NEW b \in BOOLEAN,
               request_phase(k, g, b)
        PROVE  SentWherePicked'
    BY <1>0, <1>3, RequestSent
  <1>4. ASSUME NEW k \in Callers,
               use_backend(k) \/ RequestWriteFailed(k) \/ LateRequestWriteFailed(k)
        PROVE  SentWherePicked'
    BY <1>0, <1>4, UseBackendSent, RetrySent
  <1>5. ASSUME NEW k \in Callers, RequestWritten(k) \/ ResponseParsed(k)
        PROVE  SentWherePicked'
    BY <1>0, <1>5, GoOnSent
  <1>6. ASSUME NEW k \in Callers,
               \/ LateRequestWritten(k) \/ ResponseFailed(k)
               \/ ResponseWritten(k) \/ ResponseWriteFailed(k)
        PROVE  SentWherePicked'
    BY <1>0, <1>6, OverSent
  <1>7. ASSUME NEW k \in Callers, teardown(k) PROVE SentWherePicked'
    BY <1>0, <1>7, TeardownSent
  <1>8. QED  BY <1>1, <1>2, <1>3, <1>4, <1>5, <1>6, <1>7 DEF ExchangeNext

(* The inductive invariant of the relays and the pool together: that the   *)
(* relays keep to the pool's operations rests on SentWherePicked, and this *)
(* on what the pool then keeps.                                            *)
THEOREM ExchangeInvariance == ExchangeSpec => [](XInv /\ SentWherePicked)
  <1>1. ExchangeInit => XInv /\ SentWherePicked
    BY ExchangeInitInv, ExchangeInitSent
  <1>2. XInv /\ SentWherePicked /\ [ExchangeNext]_<<vars, xvars>>
          => (XInv /\ SentWherePicked)'
    BY ExchangeStepInv, SentStep
  <1>3. QED  BY <1>1, <1>2, PTL DEF ExchangeSpec

(* A request is sent to the endpoint that was picked for it and to no      *)
(* other, whatever is retried and however late.                            *)
THEOREM SentTheorem == ExchangeSpec => []SentWherePicked
  BY ExchangeInvariance, PTL

(* No connection stays out of the pool when its exchange is over, and none *)
(* is used by an exchange that does not hold it.                           *)
THEOREM HeldTheorem == ExchangeSpec => []HeldForExchange
  <1>1. XInv => HeldForExchange  BY DEF XInv
  <1>2. QED  BY ExchangeInvariance, <1>1, PTL

(* A relay passes on the response to its own request, unless an earlier    *)
(* exchange left part of its response on the connection.                   *)
THEOREM OwnResponseTheorem == ExchangeSpec => []OwnResponseUnlessLeft
  <1>1. XInv => OwnResponseUnlessLeft
    <2> SUFFICES ASSUME XInv, NEW k \in Callers, exch[k].at = "reply",
                        user[k] \notin left
                 PROVE  exch[k].got = exch[k].q
      BY DEF OwnResponseUnlessLeft
    <2>1. user[k] \in Conns
      BY SMTT(20) DEF XInv, HeldForExchange, IInv, TypeOK
    <2>2. Fits(owed[user[k]], exch[k])  BY <2>1 DEF XInv, Clean
    <2>3. QED  BY <2>2 DEF Fits
  <1>2. QED  BY ExchangeInvariance, <1>1, PTL

(* A connection waits in the pool at a message boundary, unless part of a  *)
(* response was left on it.                                                *)
THEOREM QuietTheorem == ExchangeSpec => []QuietUnlessLeft
  <1>1. XInv => QuietUnlessLeft
    <2> SUFFICES ASSUME XInv, NEW c \in Conns, state[c] = "idle", c \notin left
                 PROVE  owed[c] = <<>>
      BY DEF QuietUnlessLeft
    <2>1. \A k \in Callers : user[k] # c
      BY PoolAssumption DEF XInv, IInv, Placed
    <2>2. QED  BY <2>1 DEF XInv, Clean
  <1>2. QED  BY ExchangeInvariance, <1>1, PTL

(* No request is given to backends twice. *)
THEOREM ServedTheorem == ExchangeSpec => []ServedOnce
  <1>1. XInv => ServedOnce  BY DEF XInv, Numbered, ServedOnce
  <1>2. QED  BY ExchangeInvariance, <1>1, PTL

-----------------------------------------------------------------------------
(* The rotation of UpstreamPool *)

Size(g) == Cardinality(Candidates(g))
Rank(g, i) == Cardinality({j \in Candidates(g) : j < i})
Alone(g) == \A i \in Entry \ Candidates(g) : picks[i] = 0

(* While a group is alone, rr_index counts its picks: q rounds are over,   *)
(* and r endpoints have had their turn in the round that goes on.          *)
InTurn ==
  \A g \in Groups : Alone(g) /\ Candidates(g) # {} =>
    \E q, r \in Nat :
      /\ r < Size(g) /\ rr_index = Size(g) * q + r
      /\ \A i \in Candidates(g) : picks[i] = IF Rank(g, i) < r THEN q + 1 ELSE q

Counting(S) == LET CS[T \in SUBSET S] == IF T = {} THEN 0
                                          ELSE 1 + CS[T \ {CHOOSE x : x \in T}]
               IN  CS[S]

LEMMA RankCounts ==
  ASSUME NEW g
  PROVE  /\ Size(g) = Counting(Candidates(g))
         /\ \A i : Rank(g, i) = Counting({j \in Candidates(g) : j < i})
  <1>1. \A S : Cardinality(S) = Counting(S)  BY Zenon DEF Cardinality, Counting
  <1>2. QED  BY Zenon, <1>1 DEF Size, Rank

(* Only what follows needs theorems about finite sets.  They come with a   *)
(* Cardinality of their own, which counts in the same way.                 *)
LOCAL INSTANCE FiniteSetTheorems

LEMMA CardinalityCounts == \A S : Cardinality(S) = Counting(S)
  BY Zenon DEF Cardinality, Counting

LEMMA RankFacts ==
  ASSUME NEW g
  PROVE  /\ Size(g) \in Nat /\ (Candidates(g) # {} => Size(g) > 0)
         /\ \A i \in Candidates(g) : Rank(g, i) \in Nat /\ Rank(g, i) < Size(g)
         /\ \A i, j \in Candidates(g) : Rank(g, i) = Rank(g, j) => i = j
<1> DEFINE C == Candidates(g)
           Under(i) == {j \in C : j < i}
<1>1. C \subseteq Entry /\ Len(Backends) \in Nat /\ Entry \subseteq Nat
  BY PoolAssumption DEF Candidates, Entry
<1>2. IsFiniteSet(C)
  <2>1. IsFiniteSet(Entry)
    BY <1>1, FS_Interval DEF Entry
  <2> QED BY <1>1, <2>1, FS_Subset
<1>3. Cardinality(C) \in Nat /\ (C # {} => Cardinality(C) # 0)
  BY <1>2, FS_CardinalityType, FS_EmptySet
<1>4. \A i \in C : /\ Under(i) \subseteq C /\ i \notin Under(i)
                   /\ IsFiniteSet(Under(i)) /\ Cardinality(Under(i)) \in Nat
  <2>1. SUFFICES ASSUME NEW i \in C
                 PROVE  /\ Under(i) \subseteq C /\ i \notin Under(i)
                        /\ IsFiniteSet(Under(i)) /\ Cardinality(Under(i)) \in Nat
    OBVIOUS
  <2>2. Under(i) \in SUBSET C /\ i \notin Under(i)
    <3> HIDE DEF C
    <3>1. i \in Nat
      BY <1>1, <2>1
    <3>2. ~(i < i)
      BY <3>1
    <3> QED BY <3>2
  <2>3. IsFiniteSet(Under(i))
    BY <1>2, <2>2, FS_Subset
  <2> QED BY <2>2, <2>3, FS_CardinalityType
<1>5. ASSUME NEW i \in C PROVE Cardinality(Under(i)) < Cardinality(C)
  <2>1. Under(i) # C /\ Under(i) \in SUBSET C
    BY <1>4
  <2>2. /\ Cardinality(Under(i)) <= Cardinality(C)
        /\ Cardinality(C) = Cardinality(Under(i)) => C = Under(i)
    BY <1>2, <2>1, FS_Subset
  <2> QED BY <1>3, <1>4, <2>1, <2>2
<1>6. ASSUME NEW i \in C, NEW j \in C, i < j
      PROVE  Cardinality(Under(i)) < Cardinality(Under(j))
  <2>1. Under(i) \in SUBSET Under(j) /\ i \in Under(j)
    <3>1. i \in Nat /\ j \in Nat /\ C \subseteq Nat
      BY Zenon, <1>1
    <3>2. \A k \in C : k < i => k < j
      BY <1>6, <3>1
    <3> QED BY <1>6, <3>2
  <2>2. /\ Cardinality(Under(i)) <= Cardinality(Under(j))
        /\ Cardinality(Under(j)) = Cardinality(Under(i)) => Under(j) = Under(i)
    BY <1>4, <2>1, FS_Subset
  <2> QED BY <1>4, <2>1, <2>2
<1>7. ASSUME NEW i \in C, NEW j \in C, Cardinality(Under(i)) = Cardinality(Under(j))
      PROVE  i = j
  <2> HIDE DEF Under, C
  <2>1. i \in Nat /\ j \in Nat /\ Cardinality(Under(i)) \in Nat
    BY <1>1, <1>4
  <2>2. ~(i < j)
    BY <1>6, <1>7, <2>1
  <2>3. ~(j < i)
    BY <1>6, <1>7, <2>1
  <2> QED BY <2>1, <2>2, <2>3
<1>8. Size(g) = Cardinality(C) /\ \A i \in C : Rank(g, i) = Cardinality(Under(i))
  BY Zenon, RankCounts, CardinalityCounts
<1> HIDE DEF Under
<1> QED BY <1>3, <1>4, <1>5, <1>7, <1>8

LEMMA Remainder ==
  ASSUME NEW n \in Nat \ {0}, NEW q \in Nat, NEW r \in Nat, r < n
  PROVE  /\ (n * q + r) % n = r
         /\ r + 1 < n => n * q + r + 1 = n * q + (r + 1)
         /\ r + 1 = n => n * q + r + 1 = n * (q + 1) + 0
  OBVIOUS

(* A group that is alone after a pick was alone before it and made it. *)
LEMMA TurnKept ==
  ASSUME TypeOK, InTurn, NEW h \in Groups, NEW i \in Candidates(h), Picked(h, i),
         rr_index' = rr_index + 1, picks' = [picks EXCEPT ![i] = @ + 1]
  PROVE  InTurn'
<1>1. SUFFICES ASSUME NEW g \in Groups, Alone(g)', Candidates(g) # {}
               PROVE  \E q, r \in Nat :
                        /\ r < Size(g) /\ rr_index' = Size(g) * q + r
                        /\ \A j \in Candidates(g) :
                             picks'[j] = IF Rank(g, j) < r THEN q + 1 ELSE q
  BY Zenon DEF InTurn, Size, Rank, Candidates, Entry
<1>2. /\ picks \in [Entry -> Nat] /\ i \in Entry /\ picks'[i] = picks[i] + 1
      /\ \A j \in Entry \ {i} : picks'[j] = picks[j]
      /\ Candidates(g) \subseteq Entry
  BY DEF TypeOK, Candidates
<1>3. i \in Candidates(g) /\ Alone(g)
  <2>1. picks'[i] # 0
    BY <1>2
  <2>2. \A j \in Entry \ Candidates(g) : picks'[j] = 0
    BY <1>1 DEF Alone, Candidates, Entry
  <2>3. i \in Candidates(g)
    BY <1>2, <2>1, <2>2
  <2> QED BY <1>2, <2>2, <2>3 DEF Alone
<1>4. h = g
  BY <1>3 DEF Candidates
<1>5. PICK q \in Nat, r \in Nat :
         /\ r < Size(g) /\ rr_index = Size(g) * q + r
         /\ \A j \in Candidates(g) : picks[j] = IF Rank(g, j) < r THEN q + 1 ELSE q
  BY <1>1, <1>3 DEF InTurn
<1>6. /\ Size(g) \in Nat \ {0}
      /\ \A j \in Candidates(g) : Rank(g, j) \in Nat /\ Rank(g, j) < Size(g)
      /\ \A j, k \in Candidates(g) : Rank(g, j) = Rank(g, k) => j = k
  BY <1>1, RankFacts
<1>7. Rank(g, i) = r
  <2>1. Rank(g, i) = rr_index % Size(g)
    BY <1>4 DEF Picked, Rank, Size
  <2> QED BY <1>5, <1>6, <2>1, Remainder
<1>8. picks'[i] = q + 1 /\ \A j \in Candidates(g) \ {i} : /\ Rank(g, j) # r
                                                          /\ picks'[j] = picks[j]
  BY SMTT(20), <1>2, <1>3, <1>5, <1>6, <1>7
<1>9. CASE r + 1 < Size(g)
  <2>1. rr_index' = Size(g) * q + (r + 1)
    BY <1>5, <1>6, <1>9, Remainder
  <2>2. \A j \in Candidates(g) : picks'[j] = IF Rank(g, j) < r + 1 THEN q + 1 ELSE q
    <3>1. SUFFICES ASSUME NEW j \in Candidates(g)
                   PROVE  picks'[j] = IF Rank(g, j) < r + 1 THEN q + 1 ELSE q
      OBVIOUS
    <3>2. CASE j = i
      BY <1>7, <1>8, <3>2
    <3>3. CASE j # i
      <4>1. Rank(g, j) \in Nat /\ Rank(g, j) # r /\ picks'[j] = picks[j]
        BY <1>6, <1>8, <3>3
      <4>2. Rank(g, j) < r + 1 <=> Rank(g, j) < r
        BY <4>1
      <4> QED BY <1>5, <4>1, <4>2
    <3> QED BY <3>2, <3>3
  <2>3. r + 1 \in Nat
    OBVIOUS
  <2> QED BY SMTT(20), <1>9, <2>1, <2>2, <2>3
<1>10. CASE ~(r + 1 < Size(g))
  <2>1. r + 1 = Size(g)
    BY SMTT(20), <1>5, <1>6, <1>10
  <2>2. rr_index' = Size(g) * (q + 1) + 0
    BY <1>5, <1>6, <2>1, Remainder
  <2>3. \A j \in Candidates(g) : picks'[j] = IF Rank(g, j) < 0 THEN q + 1 + 1 ELSE q + 1
    <3>1. SUFFICES ASSUME NEW j \in Candidates(g)
                   PROVE  picks'[j] = IF Rank(g, j) < 0 THEN q + 1 + 1 ELSE q + 1
      OBVIOUS
    <3>2. CASE j = i
      BY <1>7, <1>8, <3>2
    <3>3. CASE j # i
      <4>1. Rank(g, j) \in Nat /\ Rank(g, j) # r /\ picks'[j] = picks[j]
            /\ Rank(g, j) < Size(g)
        BY <1>6, <1>8, <3>3
      <4>2. Rank(g, j) < r /\ ~(Rank(g, j) < 0)
        BY <2>1, <4>1
      <4> QED BY SMTT(20), <1>5, <4>1, <4>2
    <3> QED BY <3>2, <3>3
  <2>4. q + 1 \in Nat /\ 0 \in Nat /\ 0 < Size(g)
    BY <1>6
  <2> QED BY <2>2, <2>3, <2>4
<1> QED BY <1>9, <1>10

LEMMA TurnStep == TypeOK /\ InTurn /\ [Next]_vars => InTurn'
<1>1. SUFFICES ASSUME TypeOK, InTurn, [Next]_vars PROVE InTurn'
  OBVIOUS
<1>2. ASSUME NEW k \in Callers, NEW g \in Groups, async_connect(k, g) PROVE InTurn'
  <2>1. PICK i \in Candidates(g) : Picked(g, i) /\ picks' = [picks EXCEPT ![i] = @ + 1]
    BY Zenon, <1>2 DEF async_connect
  <2>2. rr_index' = rr_index + 1
    BY <1>2 DEF async_connect
  <2> QED BY Zenon, <1>1, <2>1, <2>2, TurnKept
<1>3. ASSUME UNCHANGED <<rr_index, picks>> PROVE InTurn'
  BY <1>1, <1>3 DEF InTurn, Alone
<1> QED BY Zenon, <1>1, <1>2, <1>3 DEF Next, vars, async_connect_fresh, reconnect_backend_fresh,
           ConnectDone, release, Close

(* The endpoints of a group that is alone are picked in turn, for any      *)
(* configuration: none is ever two picks ahead of another.  That is for as *)
(* many calls as std::size_t counts: where rr_index_ wraps the turn starts *)
(* anew at the first endpoint.                                             *)
THEOREM TakenInTurn == Spec => []EvenWhileAlone
<1>1. Init => InTurn
  <2>1. SUFFICES ASSUME Init, NEW g \in Groups, Candidates(g) # {}
                 PROVE  /\ 0 < Size(g) /\ rr_index = Size(g) * 0 + 0
                        /\ \A i \in Candidates(g) :
                             picks[i] = IF Rank(g, i) < 0 THEN 0 + 1 ELSE 0
    BY DEF InTurn
  <2>2. rr_index = 0 /\ \A i \in Candidates(g) : picks[i] = 0
    BY <2>1 DEF Init, Candidates
  <2> QED BY <2>1, <2>2, RankFacts
<1>2. InTurn => EvenWhileAlone
  <2>1. SUFFICES ASSUME InTurn, NEW g \in Groups, Alone(g),
                        NEW i \in Candidates(g), NEW j \in Candidates(g)
                 PROVE  picks[i] <= picks[j] + 1
    BY DEF EvenWhileAlone, Even, Alone
  <2>2. PICK q \in Nat, r \in Nat :
          \A k \in Candidates(g) : picks[k] = IF Rank(g, k) < r THEN q + 1 ELSE q
    BY <2>1 DEF InTurn
  <2> QED BY <2>2
<1> QED BY <1>1, <1>2, TypeCorrect, TurnStep, PTL DEF Spec
=============================================================================
