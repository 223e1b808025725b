--------------------------- MODULE MCQuicRouting ---------------------------
(* Small instances of QuicRouting for TLC. *)
EXTENDS QuicRouting

(* A CID whose first byte is no worker's goes to the last worker. *)
MCHash == [c \in Cid |-> N - 1]
=============================================================================
