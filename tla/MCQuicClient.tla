---------------------------- MODULE MCQuicClient ----------------------------
(* Small instances of QuicClient for TLC. *)
EXTENDS QuicClient
=============================================================================
