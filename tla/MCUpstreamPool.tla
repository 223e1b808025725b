--------------------------- MODULE MCUpstreamPool ---------------------------
(* Small instances of UpstreamPool for TLC. *)
EXTENDS UpstreamPool, TLC

Ep(g, a) == [group |-> g, addr |-> a]

(* Group a has two endpoints; group b shares one of the addresses. *)
MCBackends == <<Ep("a", "x"), Ep("b", "x"), Ep("a", "y")>>

MCTargets == {Ep("none", "x"), Ep("none", "z")}

MCSymmetry == Permutations(Conns) \cup Permutations(Callers)
=============================================================================
