----------------------------- MODULE QuicRouting -----------------------------
(***************************************************************************)
(* Inbound datagrams of the QUIC server: QuicPacketDemux of                *)
(* src/transport/quic_demux.cpp, which receives them on the ingress        *)
(* thread, and the QuicServerEngine of each worker                         *)
(* (src/transport/quic_transport.cpp), which is posted the ones that carry *)
(* its connection IDs (CIDs).  lsquic is external: it issues and retires   *)
(* CIDs through the engine's callbacks.                                    *)
(***************************************************************************)
EXTENDS Integers, Sequences, FiniteSets

CONSTANTS
  N,            \* workers_.size()
  Byte,         \* values of the first byte of a CID (256)
  Names,        \* the other bytes of a CID
  Hash,         \* FNV-1a of a CID, modulo N
  MaxReceived   \* bound: datagrams that arrive

Workers == 0..N - 1
Cid == [byte : 0..Byte - 1, rest : Names]

ASSUME RoutingAssumption ==
  /\ N \in Nat \ {0} /\ Byte \in Nat /\ N <= Byte
  /\ Hash \in [Cid -> Workers]
  /\ MaxReceived \in Nat

Datagram == [cid : Cid, no : Nat]
Fam == {"v4", "v6"}

VARIABLES
  table,     \* cid_to_worker_
  inbox,     \* per worker: datagrams whose deliver_packet is posted
  got,       \* datagrams that the engines were given, with the worker
  received,  \* datagrams so far
  recv       \* sockets with a pending receive

vars == <<table, inbox, got, received, recv>>

(* start: the IPv6 socket is there if dual_stack is set and it was bound. *)
Init ==
  /\ table = [c \in {} |-> 0]
  /\ inbox = [w \in Workers |-> << >>]
  /\ got = << >>
  /\ received = 0
  /\ recv \in {Fam, {"v4"}}

-----------------------------------------------------------------------------

Unlisted(c) == IF c.byte < N THEN c.byte ELSE Hash[c]

(* Altered: a CID that is not in the table is always hashed. *)
route_Hashed(c) == IF c \in DOMAIN table THEN table[c] ELSE Hash[c]

(* A known CID by the table, another one by its routing byte or its hash. *)
route(c) == IF c \in DOMAIN table THEN table[c] ELSE Unlisted(c)

register_cid(c, w) ==
  table' = [x \in DOMAIN table \cup {c} |-> IF x = c THEN w ELSE table[x]]

remove_cid(c) == table' = [x \in DOMAIN table \ {c} |-> table[x]]

(* The CIDs that the engine of w may issue: ea_generate_scid puts the      *)
(* worker's index, cut to a byte, in front.                                *)
generate_scid(w) == {c \in Cid : c.byte = w % Byte}

Given(w) == {got[i].d.cid : i \in {j \in DOMAIN got : got[j].w = w}}

(* lsquic announces CIDs of the engine's connections: those it issued, and *)
(* at most those that a client chose for a first flight it was given.      *)
on_new_scids(w) ==
  \E c \in generate_scid(w) \cup Given(w) :
    /\ register_cid(c, w)
    /\ UNCHANGED <<inbox, got, received, recv>>

on_old_scids(w) ==
  \E c \in DOMAIN table :
    /\ table[c] = w
    /\ remove_cid(c)
    /\ UNCHANGED <<inbox, got, received, recv>>

(* A datagram with the CID c: a copy is posted to the worker, and the      *)
(* socket receives again.                                                  *)
on_packet(f, c) ==
  /\ f \in recv /\ received < MaxReceived
  /\ received' = received + 1
  /\ inbox' = [inbox EXCEPT ![route(c)] =
                 Append(@, [cid |-> c, no |-> received])]
  /\ UNCHANGED <<table, got, recv>>

(* A datagram without a readable CID is dropped, a receive error is        *)
(* skipped; the socket receives again.                                     *)
on_packet_Dropped(f) ==
  /\ f \in recv /\ received < MaxReceived
  /\ received' = received + 1
  /\ UNCHANGED <<table, inbox, got, recv>>

(* Altered: the engine is given the datagram that came last. *)
deliver_packet_Newest(w) ==
  /\ inbox[w] # << >>
  /\ got' = Append(got, [d |-> inbox[w][Len(inbox[w])], w |-> w])
  /\ inbox' = [inbox EXCEPT ![w] = SubSeq(@, 1, Len(@) - 1)]
  /\ UNCHANGED <<table, received, recv>>

(* The posted handler: lsquic_engine_packet_in. *)
deliver_packet(w) ==
  /\ inbox[w] # << >>
  /\ got' = Append(got, [d |-> Head(inbox[w]), w |-> w])
  /\ inbox' = [inbox EXCEPT ![w] = Tail(@)]
  /\ UNCHANGED <<table, received, recv>>

(* Cancels the receives; what is posted is still delivered. *)
stop ==
  /\ recv # {}
  /\ recv' = {}
  /\ UNCHANGED <<table, inbox, got, received>>

Next == \/ \E w \in Workers : on_new_scids(w) \/ on_old_scids(w) \/ deliver_packet(w)
        \/ \E f \in Fam : on_packet_Dropped(f) \/ \E c \in Cid : on_packet(f, c)
        \/ stop

Spec == Init /\ [][Next]_vars

-----------------------------------------------------------------------------
(* Properties *)

(* The table and the queues lead to workers that exist, and all else has  *)
(* its type.                                                               *)
TypeOK ==
  /\ DOMAIN table \subseteq Cid /\ \A c \in DOMAIN table : table[c] \in Workers
  /\ inbox \in [Workers -> Seq(Datagram)]
  /\ got \in Seq([d : Datagram, w : Workers])
  /\ received \in 0..MaxReceived
  /\ recv \subseteq Fam

(* A datagram with a CID that an engine issues is given to that engine and *)
(* to no other, whether it arrives before the CID is registered, while it  *)
(* is, or after it was removed: what SCID[0] is for                        *)
(* (quic_transport.cpp, "without a registration table").                   *)
IssuedLeadsHome ==
  \A i \in DOMAIN got : \A w \in Workers :
    got[i].d.cid \in generate_scid(w) => got[i].w = w

(* All datagrams with one CID reach one engine, in the order of arrival,   *)
(* though CIDs are registered and removed by the workers while datagrams   *)
(* are routed and queued: retransmissions "stay on the same worker"        *)
(* (quic_demux.cpp, route).                                                *)
OneEngineInOrder ==
  \A i, j \in DOMAIN got :
    i < j /\ got[i].d.cid = got[j].d.cid
      => got[i].w = got[j].w /\ got[i].d.no < got[j].d.no
=============================================================================
