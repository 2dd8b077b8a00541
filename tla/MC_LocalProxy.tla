--------------------------- MODULE MC_LocalProxy ---------------------------
(* Instances of LocalProxy for TLC. *)
EXTENDS LocalProxy, TLC

\* Every client connection is the same to the proxy.
ConnSymmetry == Permutations(Conns)
=============================================================================
