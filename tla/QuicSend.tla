------------------------------ MODULE QuicSend ------------------------------
(***************************************************************************)
(* send_specs of src/transport/quic_demux.cpp, with which every QUIC       *)
(* engine sends a batch of datagrams, and what lsquic makes of the count   *)
(* it returns: lsquic takes it as that of a prefix of the batch, forgets   *)
(* the prefix and holds the rest back until it is told to flush.  The      *)
(* server's engines (QuicOutput) and the client's (QuicClient) differ in   *)
(* how they come to flush.                                                 *)
(***************************************************************************)
EXTENDS Integers, Sequences, FiniteSets

CONSTANTS
  MaxPackets,   \* bound: datagrams that the engines produce
  MaxErrors     \* bound: batches in which a send fails other than by blocking

ASSUME SendAssumption == {MaxPackets, MaxErrors} \subseteq Nat

Fam == {"v4", "v6"}
Datagram == [id : Nat, fam : Fam]

(* unsent: datagrams that lsquic keeps.  held: it waits to be told to      *)
(* flush.  again: because a send would have blocked.                       *)
Queue == [unsent : Seq(Datagram), held : BOOLEAN, again : BOOLEAN]
NoQueue == [unsent |-> << >>, held |-> FALSE, again |-> FALSE]

(* made: datagrams produced.  sent: ids put on the wire.  lost: ids that   *)
(* lsquic forgot unsent.  gap: in some batch a send succeeded after one    *)
(* that did not.  errors: batches in which a send failed other than by     *)
(* blocking.  hit: ids in such batches.                                    *)
Log == [made : Nat, sent : SUBSET Nat, lost : SUBSET Nat, gap : BOOLEAN,
        errors : Nat, hit : SUBSET Nat]
NoLog == [made |-> 0, sent |-> {}, lost |-> {}, gap |-> FALSE,
          errors |-> 0, hit |-> {}]

Some(r, x) == \E i \in DOMAIN r : r[i] = x

(* What sendmsg may make of each datagram of the batch q.  (A family       *)
(* without a socket, which send_specs skips, has no peers.)                *)
Results(q, L) ==
  {r \in [1..Len(q) -> {"sent", "again", "error"}] :
     Some(r, "error") => L.errors < MaxErrors}

(* Altered: a datagram that failed is counted. *)
send_specs_Counts(r) == Cardinality({i \in DOMAIN r : r[i] \in {"sent", "error"}})

(* The count that send_specs returns, and whether it sets *blocked. *)
send_specs(r) == Cardinality({i \in DOMAIN r : r[i] = "sent"})
Blocked(r) == Some(r, "again")

(* lsquic with the results r of the batch q. *)
Kept(q, r) ==
  LET n == send_specs(r) IN
  [unsent |-> SubSeq(q, n + 1, Len(q)), held |-> n < Len(q),
   again |-> n < Len(q) /\ Blocked(r)]

Ids(q, S) == {q[i].id : i \in S}

Logged(L, q, r) ==
  LET out == {i \in DOMAIN r : r[i] = "sent"}
      sent == L.sent \cup Ids(q, out)
  IN  [L EXCEPT !.sent = sent,
                !.lost = @ \cup (Ids(q, 1..send_specs(r)) \ sent),
                !.gap = @ \/ \E i, j \in DOMAIN r :
                               i < j /\ r[i] # "sent" /\ r[j] = "sent",
                !.errors = IF Some(r, "error") THEN @ + 1 ELSE @,
                !.hit = IF Some(r, "error") THEN @ \cup Ids(q, DOMAIN r) ELSE @]

(* Batches of up to two new datagrams to peers of the families fams. *)
News(L, fams) ==
  UNION {{[i \in 1..k |-> [id |-> L.made + i, fam |-> fs[i]]] : fs \in [1..k -> fams]} :
           k \in {n \in 0..2 : L.made + n <= MaxPackets}}

Made(L, new) == [L EXCEPT !.made = @ + Len(new)]
=============================================================================
