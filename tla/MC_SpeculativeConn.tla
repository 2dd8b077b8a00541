------------------------- MODULE MC_SpeculativeConn -------------------------
(* Instances of SpeculativeConn for TLC: the caller programs of an HTTP/1  *)
(* exchange on one goroutine and of HTTP/2, whose reader goroutine reads   *)
(* while the writer still has a request to send.                           *)
EXTENDS SpeculativeConn

\* HTTP/1.1: handshake, then request and response on one goroutine; any
\* other goroutine only waits for the handshake to complete.
ProgramH1 == [t \in Threads |->
                 IF t = "writer" THEN <<"W_CH", "R_SH", "W_REQ", "R_RESP">>
                                 ELSE <<"AWAIT_HS">>]

\* HTTP/2: the handshake goroutine then writes the request, while the
\* connection's read loop starts reading as soon as the handshake is done.
ProgramH2 == [t \in Threads |->
                 IF t = "writer" THEN <<"W_CH", "R_SH", "W_REQ">>
                                 ELSE <<"AWAIT_HS", "R_RESP">>]

MCMalformed == 0
=============================================================================
