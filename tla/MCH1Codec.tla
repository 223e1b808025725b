----------------------------- MODULE MCH1Codec -----------------------------
(* Small instances of H1Codec for TLC. *)
EXTENDS H1Codec

Msg(framing, len, old, conn) ==
  [framing |-> framing, len |-> len, old |-> old, conn |-> conn]

(* Every framing, bodies of up to three units, a message that is not kept. *)
MCMessages ==
  {Msg("bare", 0, FALSE, "none"), Msg("length", 0, FALSE, "none"),
   Msg("length", 1, TRUE, "keep-alive"), Msg("length", 3, FALSE, "none"),
   Msg("length", 2, TRUE, "none"), Msg("length", 1, FALSE, "close"),
   Msg("chunked", 0, FALSE, "none"), Msg("chunked", 2, FALSE, "none"),
   Msg("close", 2, FALSE, "none")}
=============================================================================
