--------------------------- MODULE MCRelaySession ---------------------------
(* Small instances of RelaySession for TLC. *)
EXTENDS RelaySession

Req(kind, valid, upgrade, body, keep_alive) ==
  [kind |-> kind, valid |-> valid, upgrade |-> upgrade,
   body |-> body, keep_alive |-> keep_alive]

(* Every branch of request_phase: routed GET, upgrade and POST, no route,  *)
(* absolute-form, CONNECT, and a client that does not keep alive.          *)
MCRequests ==
  {Req("origin", TRUE, FALSE, FALSE, TRUE),
   Req("origin", TRUE, TRUE, FALSE, TRUE),
   Req("origin", TRUE, TRUE, TRUE, FALSE),
   Req("origin", TRUE, FALSE, TRUE, TRUE),
   Req("origin", FALSE, FALSE, TRUE, FALSE),
   Req("absolute", TRUE, FALSE, FALSE, FALSE),
   Req("connect", TRUE, FALSE, FALSE, TRUE),
   Req("connect", TRUE, FALSE, TRUE, FALSE),
   Req("connect", FALSE, FALSE, FALSE, TRUE)}
=============================================================================
