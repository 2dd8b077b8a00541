------------------------------ MODULE MC_KeyLog ------------------------------
(* Instances of KeyLog for TLC. *)
EXTENDS KeyLog

=============================================================================
