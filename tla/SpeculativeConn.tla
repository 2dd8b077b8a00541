--------------------------- MODULE SpeculativeConn ---------------------------
(***************************************************************************)
(* The speculative-TLS connection wrapper of transport/speculative_conn.go *)
(* and the proxy, origin server and TLS caller around it.                  *)
(*                                                                         *)
(* The first Write sends the CONNECT request and the ClientHello in one    *)
(* TCP send; Read strips the proxy's HTTP response from the inbound        *)
(* stream, validates its status and hands only TLS bytes to the caller.    *)
(* Both hold the wrapper's mutex for the whole call, including the         *)
(* blocking read on the underlying connection.                             *)
(*                                                                         *)
(* Bytes are abstracted: the proxy's response is HdrByte ... HdrByte       *)
(* EndMark (EndMark stands for the CRLFCRLF terminator), and the origin's  *)
(* TLS stream is 1, 2, ..., so a delivered byte names its own position.    *)
(* The caller is the TLS/HTTP layer, given as a program per thread.        *)
(***************************************************************************)
EXTENDS Naturals, Sequences, SequencesExt, FiniteSets

CONSTANTS
    Threads,      \* caller goroutines using the connection
    Program,      \* Program[t]: the calls thread t makes, in order
    NoOwner,      \* mu is free
    HeaderLens,   \* possible numbers of header bytes before the terminator
    HeaderLimit,  \* the 16 KiB bound of readAndStripHTTPResponse
    ReadChunk,    \* most bytes one underlying Read returns (tempBuf size)
    BufSizes,     \* len(b) of the caller's Read buffers
    Statuses,     \* statuses the proxy may answer CONNECT with
    Malformed,    \* a proxy response http.ReadResponse cannot parse
    SHLen,        \* bytes of the server's first TLS flight
    RespLen       \* bytes of the server's answer to the request

Ops == {"W_CH", "W_REQ", "R_SH", "R_RESP", "AWAIT_HS"}

ASSUME /\ NoOwner \notin Threads
       /\ Program \in [Threads -> Seq(Ops)]
       /\ HeaderLimit \in Nat /\ ReadChunk \in Nat \ {0}
       /\ BufSizes \subseteq Nat \ {0}
       /\ 200 \in Statuses

HdrByte == 0
EndMark == -1
ServerStream == [i \in 1..(SHLen + RespLen) |-> i]
Errors == {"none", "spec_write", "spec_read", "parse", "status", "conn"}

VARIABLES
    \* SpeculativeConn fields
    firstWrite, httpResponseDone, headerBuffer, readBuffer, mu,
    \* per caller thread: position in Program, stage of the current Read
    \* ("idle", blocked in the header loop, blocked in a plain read), len(b)
    pc, phase, bsz,
    \* the error the connection returned to its caller, if any
    err,
    \* the network: bytes written to the proxy, bytes waiting to be read
    toProxy, fromProxy,
    \* the proxy's answer and how many client records the server consumed
    status, headerLen, proxyAnswered, srvIn,
    \* history: every byte Read returned to the caller
    delivered

connVars == <<firstWrite, httpResponseDone, headerBuffer, readBuffer, mu>>
envVars  == <<toProxy, fromProxy, status, headerLen, proxyAnswered, srvIn>>
vars == <<connVars, pc, phase, bsz, err, envVars, delivered>>

Op(t) == Program[t][pc[t]]
Running(t) == pc[t] <= Len(Program[t]) /\ err = "none"
Target(o) == IF o = "R_SH" THEN SHLen ELSE SHLen + RespLen
Satisfied(t) == Len(delivered) >= Target(Op(t))
Record(o) == IF o = "W_CH" THEN "CH" ELSE "REQ"
Take(s, k) == SubSeq(s, 1, k)
Drop(s, k) == SubSeq(s, k + 1, Len(s))
MinOf(a, b) == IF a <= b THEN a ELSE b
\* Faulty variant: TLS data taken from one byte before the terminator's end.
EndAtShort(s) ==
    LET i == SelectInSeq(s, LAMBDA x : x = EndMark) IN IF i > 0 THEN i - 1 ELSE 0
EndAt(s) == SelectInSeq(s, LAMBDA x : x = EndMark)

\* Returning from Read: unlock mu and leave the blocking stage.
Return(t) == mu' = NoOwner /\ phase' = [phase EXCEPT ![t] = "idle"]

TypeOK ==
    /\ firstWrite \in BOOLEAN /\ httpResponseDone \in BOOLEAN
    /\ headerBuffer \in Seq(Int) /\ readBuffer \in Seq(Nat)
    /\ mu \in Threads \cup {NoOwner}
    /\ pc \in [Threads -> Nat \ {0}]
    /\ phase \in [Threads -> {"idle", "hdr", "direct"}]
    /\ bsz \in [Threads -> BufSizes \cup {0}]
    /\ err \in Errors
    /\ toProxy \in Seq({"CONNECT", "CH", "REQ"})
    /\ fromProxy \in Seq(Int) /\ delivered \in Seq(Nat)
    /\ status \in Statuses \cup {Malformed} /\ headerLen \in HeaderLens
    /\ proxyAnswered \in BOOLEAN /\ srvIn \in Nat

-----------------------------------------------------------------------------
(* NewSpeculativeConn: a fresh wrapper over a TCP connection to the proxy, *)
(* whose answer (status, header size) is not yet known to the client.      *)
Init ==
    /\ firstWrite = FALSE /\ httpResponseDone = FALSE
    /\ headerBuffer = <<>> /\ readBuffer = <<>> /\ mu = NoOwner
    /\ pc = [t \in Threads |-> 1]
    /\ phase = [t \in Threads |-> "idle"]
    /\ bsz = [t \in Threads |-> 0]
    /\ err = "none"
    /\ toProxy = <<>> /\ fromProxy = <<>>
    /\ status \in Statuses \cup {Malformed} /\ headerLen \in HeaderLens
    /\ proxyAnswered = FALSE /\ srvIn = 1
    /\ delivered = <<>>

(* Write: under mu, the first call prepends the CONNECT request to the     *)
(* record and sends both at once; later calls pass through.                *)
Write(t) ==
    /\ Running(t) /\ Op(t) \in {"W_CH", "W_REQ"} /\ mu = NoOwner
    /\ IF ~firstWrite
         THEN /\ toProxy' = toProxy \o <<"CONNECT", Record(Op(t))>>
              /\ firstWrite' = TRUE
         ELSE /\ toProxy' = Append(toProxy, Record(Op(t)))
              /\ UNCHANGED firstWrite
    /\ pc' = [pc EXCEPT ![t] = @ + 1]
    /\ UNCHANGED <<httpResponseDone, headerBuffer, readBuffer, mu, phase,
                   bsz, err, fromProxy, status, headerLen, proxyAnswered,
                   srvIn, delivered>>

(* The underlying Write fails: a SpeculativeTLSError{Op:"write"} on the    *)
(* first call (firstWrite stays false), the plain error afterwards.        *)
WriteFails(t) ==
    /\ Running(t) /\ Op(t) \in {"W_CH", "W_REQ"} /\ mu = NoOwner
    /\ err' = IF firstWrite THEN "conn" ELSE "spec_write"
    /\ UNCHANGED <<connVars, pc, phase, bsz, envVars, delivered>>

(* Plausible faults of Read and readAndStripHTTPResponse, used to show   *)
(* that the properties below can detect a broken wrapper.                  *)

\* Read consults httpResponseDone before the leftover readBuffer.
ReadIgnoringBuffer(t) ==
    /\ Running(t) /\ Op(t) \in {"R_SH", "R_RESP"} /\ ~Satisfied(t)
    /\ phase[t] = "idle" /\ mu = NoOwner
    /\ \E n \in BufSizes :
         IF readBuffer # <<>> /\ ~httpResponseDone
           THEN LET k == MinOf(n, Len(readBuffer)) IN
                /\ delivered' = delivered \o Take(readBuffer, k)
                /\ readBuffer' = Drop(readBuffer, k)
                /\ UNCHANGED <<mu, phase, bsz>>
           ELSE /\ mu' = t
                /\ phase' = [phase EXCEPT ![t] =
                                IF httpResponseDone THEN "direct" ELSE "hdr"]
                /\ bsz' = [bsz EXCEPT ![t] = n]
                /\ UNCHANGED <<readBuffer, delivered>>
    /\ UNCHANGED <<firstWrite, httpResponseDone, headerBuffer, pc, err,
                   envVars>>

\* The TLS bytes that do not fit in b are dropped instead of buffered.
ReadHeaderNoLeftover(t) ==
    /\ phase[t] = "hdr" /\ err = "none" /\ fromProxy # <<>>
    /\ \E k \in 1..MinOf(ReadChunk, Len(fromProxy)) :
       LET data == headerBuffer \o Take(fromProxy, k)
           e    == EndAt(data)
           tls  == Drop(data, e)
           c    == MinOf(bsz[t], Len(tls))
       IN /\ fromProxy' = Drop(fromProxy, k)
          /\ CASE e = 0 /\ Len(data) > HeaderLimit ->
                    /\ err' = "parse" /\ Return(t)
                    /\ UNCHANGED <<headerBuffer, readBuffer,
                                   httpResponseDone, delivered>>
               [] e = 0 ->
                    /\ headerBuffer' = data
                    /\ UNCHANGED <<err, mu, phase, readBuffer,
                                   httpResponseDone, delivered>>
               [] status # 200 ->
                    /\ err' = IF status = Malformed THEN "parse" ELSE "status"
                    /\ Return(t)
                    /\ UNCHANGED <<headerBuffer, readBuffer,
                                   httpResponseDone, delivered>>
               [] tls # <<>> ->
                    /\ httpResponseDone' = TRUE /\ headerBuffer' = <<>>
                    /\ delivered' = delivered \o Take(tls, c)
                    /\ UNCHANGED readBuffer
                    /\ Return(t) /\ UNCHANGED err
               [] OTHER ->
                    /\ httpResponseDone' = TRUE /\ headerBuffer' = <<>>
                    /\ phase' = [phase EXCEPT ![t] = "direct"]
                    /\ UNCHANGED <<err, mu, readBuffer, delivered>>
    /\ UNCHANGED <<firstWrite, pc, bsz, toProxy, status, headerLen,
                   proxyAnswered, srvIn>>

\* Faulty variant: the 16 KiB check dropped, the header read on and on.
ReadHeaderUnbounded(t) ==
    /\ phase[t] = "hdr" /\ err = "none" /\ fromProxy # <<>>
    /\ \E k \in 1..MinOf(ReadChunk, Len(fromProxy)) :
       LET data == headerBuffer \o Take(fromProxy, k)
           e    == EndAt(data)
           tls  == Drop(data, e)
           c    == MinOf(bsz[t], Len(tls))
       IN /\ fromProxy' = Drop(fromProxy, k)
          /\ CASE e = 0 ->
                    /\ headerBuffer' = data
                    /\ UNCHANGED <<err, mu, phase, readBuffer,
                                   httpResponseDone, delivered>>
               [] status # 200 ->
                    /\ err' = IF status = Malformed THEN "parse" ELSE "status"
                    /\ Return(t)
                    /\ UNCHANGED <<headerBuffer, readBuffer,
                                   httpResponseDone, delivered>>
               [] tls # <<>> ->
                    /\ httpResponseDone' = TRUE /\ headerBuffer' = <<>>
                    /\ delivered' = delivered \o Take(tls, c)
                    /\ readBuffer' = readBuffer \o Drop(tls, c)
                    /\ Return(t) /\ UNCHANGED err
               [] OTHER ->
                    /\ httpResponseDone' = TRUE /\ headerBuffer' = <<>>
                    /\ phase' = [phase EXCEPT ![t] = "direct"]
                    /\ UNCHANGED <<err, mu, readBuffer, delivered>>
    /\ UNCHANGED <<firstWrite, pc, bsz, toProxy, status, headerLen,
                   proxyAnswered, srvIn>>

(* Read(b) takes mu. Buffered TLS bytes left over from the header read are *)
(* returned first; otherwise the call blocks, still holding mu, in the     *)
(* header loop or in a plain read of the underlying connection.            *)
Read(t) ==
    /\ Running(t) /\ Op(t) \in {"R_SH", "R_RESP"} /\ ~Satisfied(t)
    /\ phase[t] = "idle" /\ mu = NoOwner
    /\ \E n \in BufSizes :
         IF readBuffer # <<>>
           THEN LET k == MinOf(n, Len(readBuffer)) IN
                /\ delivered' = delivered \o Take(readBuffer, k)
                /\ readBuffer' = Drop(readBuffer, k)
                /\ UNCHANGED <<mu, phase, bsz>>
           ELSE /\ mu' = t
                /\ phase' = [phase EXCEPT ![t] =
                                IF httpResponseDone THEN "direct" ELSE "hdr"]
                /\ bsz' = [bsz EXCEPT ![t] = n]
                /\ UNCHANGED <<readBuffer, delivered>>
    /\ UNCHANGED <<firstWrite, httpResponseDone, headerBuffer, pc, err,
                   envVars>>

(* readAndStripHTTPResponse, one underlying Read per step: append what     *)
(* arrived to headerBuffer; without a terminator, fail past HeaderLimit or *)
(* read again; with one, check the status, then hand over the TLS bytes    *)
(* that followed (buffering what does not fit in b) or, if none did, fall  *)
(* through to a plain read.                                                *)
ReadHeader(t) ==
    /\ phase[t] = "hdr" /\ err = "none" /\ fromProxy # <<>>
    /\ \E k \in 1..MinOf(ReadChunk, Len(fromProxy)) :
       LET data == headerBuffer \o Take(fromProxy, k)
           e    == EndAt(data)
           tls  == Drop(data, e)
           c    == MinOf(bsz[t], Len(tls))
       IN /\ fromProxy' = Drop(fromProxy, k)
          /\ CASE e = 0 /\ Len(data) > HeaderLimit ->
                    /\ err' = "parse" /\ Return(t)
                    /\ UNCHANGED <<headerBuffer, readBuffer,
                                   httpResponseDone, delivered>>
               [] e = 0 ->
                    /\ headerBuffer' = data
                    /\ UNCHANGED <<err, mu, phase, readBuffer,
                                   httpResponseDone, delivered>>
               [] status # 200 ->
                    /\ err' = IF status = Malformed THEN "parse" ELSE "status"
                    /\ Return(t)
                    /\ UNCHANGED <<headerBuffer, readBuffer,
                                   httpResponseDone, delivered>>
               [] tls # <<>> ->
                    /\ httpResponseDone' = TRUE /\ headerBuffer' = <<>>
                    /\ delivered' = delivered \o Take(tls, c)
                    /\ readBuffer' = readBuffer \o Drop(tls, c)
                    /\ Return(t) /\ UNCHANGED err
               [] OTHER ->
                    /\ httpResponseDone' = TRUE /\ headerBuffer' = <<>>
                    /\ phase' = [phase EXCEPT ![t] = "direct"]
                    /\ UNCHANGED <<err, mu, readBuffer, delivered>>
    /\ UNCHANGED <<firstWrite, pc, bsz, toProxy, status, headerLen,
                   proxyAnswered, srvIn>>

(* c.Conn.Read(b) after the proxy response was stripped.                   *)
ReadDirect(t) ==
    /\ phase[t] = "direct" /\ err = "none" /\ fromProxy # <<>>
    /\ \E k \in 1..MinOf(bsz[t], Len(fromProxy)) :
          /\ delivered' = delivered \o Take(fromProxy, k)
          /\ fromProxy' = Drop(fromProxy, k)
    /\ Return(t)
    /\ UNCHANGED <<firstWrite, httpResponseDone, headerBuffer, readBuffer,
                   pc, bsz, err, toProxy, status, headerLen, proxyAnswered,
                   srvIn>>

(* The blocked underlying Read fails (reset, deadline): wrapped as         *)
(* SpeculativeTLSError{Op:"read"} in the header loop, plain afterwards.    *)
ReadFails(t) ==
    /\ phase[t] \in {"hdr", "direct"} /\ err = "none"
    /\ err' = IF phase[t] = "hdr" THEN "spec_read" ELSE "conn"
    /\ Return(t)
    /\ UNCHANGED <<firstWrite, httpResponseDone, headerBuffer, readBuffer,
                   pc, bsz, envVars, delivered>>

-----------------------------------------------------------------------------
(* The caller: a Read op is repeated until its bytes have arrived; a       *)
(* thread with AWAIT_HS waits for the handshake (ServerHello) to finish.   *)
CallerNext(t) ==
    /\ Running(t) /\ phase[t] = "idle"
    /\ \/ Op(t) \in {"R_SH", "R_RESP"} /\ Satisfied(t)
       \/ Op(t) = "AWAIT_HS" /\ Len(delivered) >= SHLen
    /\ pc' = [pc EXCEPT ![t] = @ + 1]
    /\ UNCHANGED <<connVars, phase, bsz, err, envVars, delivered>>

(* The proxy reads the CONNECT request and answers with its response       *)
(* header; a 200 opens the tunnel, which forwards what the client sent.    *)
ProxyAnswer ==
    /\ ~proxyAnswered /\ toProxy # <<>>
    /\ fromProxy' = fromProxy \o
         ([i \in 1..headerLen |-> HdrByte] \o <<EndMark>>)
    /\ proxyAnswered' = TRUE
    /\ UNCHANGED <<connVars, pc, phase, bsz, err, toProxy, status, headerLen,
                   srvIn, delivered>>

(* Through an open tunnel the server consumes the next client record and   *)
(* answers a ClientHello with its first flight, a request with a response. *)
ServerRecv ==
    /\ proxyAnswered /\ status = 200 /\ srvIn < Len(toProxy)
    /\ LET r == toProxy[srvIn + 1] IN
       fromProxy' = fromProxy \o
         CASE r = "CH"  -> SubSeq(ServerStream, 1, SHLen)
           [] r = "REQ" -> SubSeq(ServerStream, SHLen + 1, SHLen + RespLen)
           [] OTHER     -> <<>>
    /\ srvIn' = srvIn + 1
    /\ UNCHANGED <<connVars, pc, phase, bsz, err, toProxy, status, headerLen,
                   proxyAnswered, delivered>>

Next ==
    \/ \E t \in Threads :
          \/ Write(t) \/ WriteFails(t) \/ Read(t) \/ ReadHeader(t)
          \/ ReadDirect(t) \/ ReadFails(t) \/ CallerNext(t)
    \/ ProxyAnswer \/ ServerRecv

(* Every goroutine keeps running while it can; the network delivers what   *)
(* was sent. Failures (WriteFails, ReadFails) are not forced.              *)
Fairness ==
    /\ \A t \in Threads :
          /\ WF_vars(Write(t)) /\ WF_vars(Read(t)) /\ WF_vars(CallerNext(t))
          /\ WF_vars(ReadHeader(t)) /\ WF_vars(ReadDirect(t))
    /\ WF_vars(ProxyAnswer) /\ WF_vars(ServerRecv)

Spec == Init /\ [][Next]_vars /\ Fairness

-----------------------------------------------------------------------------
Finished == \A t \in Threads : pc[t] > Len(Program[t])
Failed == err # "none"

(* Refinement: the wrapper implements TlsTunnel. What Read returns is a    *)
(* prefix of the origin's TLS stream: no proxy header byte, lost,          *)
(* duplicated or reordered byte ever reaches the TLS layer, whatever the   *)
(* read sizes and chunking, and nothing arrives after an error.            *)
Tunnel == INSTANCE TlsTunnel WITH
    Stream <- ServerStream, received <- delivered, broken <- (err # "none")
TunnelRefinement == Tunnel!Spec

(* Every exchange the caller starts ends: all threads complete their       *)
(* programs or the connection reports an error (Read and Write never       *)
(* block each other forever on mu).                                        *)
Termination == <>(Finished \/ Failed)

(* spec 4.2 bounds header accumulation to 16 KiB. readAndStripHTTPResponse *)
(* checks headerBuffer.Len() only after a read that brought no terminator, *)
(* so the bound it really keeps, across any number of recursive reads, is  *)
(* the limit plus one read: no longer proxy response is accepted.          *)
HeaderBoundedByOneRead ==
    httpResponseDone => headerLen + 1 <= HeaderLimit + ReadChunk
=============================================================================
