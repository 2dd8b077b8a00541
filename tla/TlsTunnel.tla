------------------------------ MODULE TlsTunnel ------------------------------
(***************************************************************************)
(* What a connection that tunnels TLS through an HTTP proxy promises to    *)
(* the TLS layer above it: the bytes the caller reads are exactly the      *)
(* bytes the origin server sent, in order, without loss, duplication or    *)
(* any byte of the proxy's own HTTP response, and once the connection has  *)
(* reported an error nothing more is delivered.                            *)
(***************************************************************************)
EXTENDS Naturals, Sequences

CONSTANT Stream         \* the byte stream the origin server produces

VARIABLES received,     \* bytes handed to the TLS layer so far
          broken        \* an error has been returned to the TLS layer

vars == <<received, broken>>

Init == received = <<>> /\ broken = FALSE

\* Some further bytes of the server's stream reach the caller.
Receive ==
    /\ ~broken
    /\ \E k \in 1..(Len(Stream) - Len(received)) :
          received' = SubSeq(Stream, 1, Len(received) + k)
    /\ UNCHANGED broken

\* The connection fails; this is final.
Break ==
    /\ ~broken
    /\ broken' = TRUE
    /\ UNCHANGED received

Spec == Init /\ [][Receive \/ Break]_vars
=============================================================================
