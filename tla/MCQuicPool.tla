----------------------------- MODULE MCQuicPool -----------------------------
(* Small instances of QuicPool for TLC. *)
EXTENDS QuicPool

(* Everything lsquic_stream_conn may make of the null stream. *)
MCAnyOutcome == {"found", "lost", "crash"}
=============================================================================
