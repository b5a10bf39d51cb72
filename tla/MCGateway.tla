----------------------------- MODULE MCGateway -----------------------------
(* Small instances of the gateway.                                         *)
EXTENDS Gateway, TLC

Symmetry == Permutations(Conns) \cup Permutations(Players)
=============================================================================
