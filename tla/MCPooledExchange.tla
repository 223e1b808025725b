-------------------------- MODULE MCPooledExchange --------------------------
(* Small instances of PooledExchange for TLC. *)
EXTENDS PooledExchange, TLC

(* Two endpoints: every second request may reuse what those before it left *)
(* in the queue of its endpoint, and must not be sent to the other.        *)
MCBackends == <<[group |-> "a", addr |-> "x"], [group |-> "a", addr |-> "y"]>>

MCSymmetry == Permutations(Conns) \cup Permutations(Callers)
=============================================================================
