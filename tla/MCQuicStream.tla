---------------------------- MODULE MCQuicStream ----------------------------
(* One H3 request stream with responses of two writes of one to three units. *)
EXTENDS QuicStream
=============================================================================
