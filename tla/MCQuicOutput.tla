---------------------------- MODULE MCQuicOutput ----------------------------
(* Small instances of QuicOutput for TLC. *)
EXTENDS QuicOutput
=============================================================================
