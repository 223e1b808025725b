--------------------------- MODULE MCProxyServer ----------------------------
(* Small instances of ProxyServer for TLC. *)
EXTENDS ProxyServer
=============================================================================
