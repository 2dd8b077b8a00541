----------------------------- MODULE UpstreamDial -----------------------------
(***************************************************************************)
(* How one request of the local proxy (local_proxy.go) reaches its target: *)
(* extractUpstreamProxy's per-request override, dialTarget's choice of     *)
(* SOCKS5, HTTP CONNECT or a direct dial, dialThroughHTTPProxy's CONNECT   *)
(* exchange with the upstream proxy, handleCONNECT's 200 and the tunnel's  *)
(* target-to-client copy; and, for plain http, handleHTTPDirect's choice   *)
(* of http.Client (createProxyClient).                                     *)
(*                                                                         *)
(* Proxy URLs are records: the scheme the code tests for, and whether      *)
(* url.Parse accepts the string. Bytes on the proxy connection are         *)
(* abstracted as in SpeculativeConn: the proxy's response is HdrByte       *)
(* EndMark, the target's stream is 1, 2, ....                              *)
(***************************************************************************)
EXTENDS Naturals, Sequences, SequencesExt

CONSTANTS
    ProxyURLs,       \* proxy URL strings a config or a header may carry
    NoProxy,         \* the empty string: no proxy
    Statuses,        \* statuses the upstream proxy may answer CONNECT with
    ReadChunk,       \* most bytes one Read of the proxy connection returns
    TargetLen,       \* bytes the target sends through the tunnel
    ServerFirst,     \* the target speaks before the client (SSH, SMTP, FTP)
    ProxyResponsive  \* the upstream proxy eventually answers CONNECT

ASSUME /\ NoProxy \notin ProxyURLs
       /\ \A u \in ProxyURLs :
            u.scheme \in {"http", "https", "socks5", "other"} /\ u.valid \in BOOLEAN
       /\ 200 \in Statuses /\ ReadChunk \in Nat \ {0}
       /\ ServerFirst \in BOOLEAN /\ ProxyResponsive \in BOOLEAN

HdrByte == 0
EndMark == -1
TargetStream == [i \in 1..TargetLen |-> i]

\* A request as the handler sees it: CONNECT or plain http, and the
\* "Proxy-Authorization: HTTPCloak <url>" / X-Upstream-Proxy header values.
Requests == [kind : {"connect", "http"},
             auth : ProxyURLs \cup {NoProxy}, upstream : ProxyURLs \cup {NoProxy}]

VARIABLES
    req,          \* the request being handled
    tcpProxy,     \* p.tcpProxy
    pc,           \* "start", "await_reply" (in ReadResponse), "tunnel",
                  \* "answered" (plain http done), "failed" (error answered)
    dialed,       \* where the TCP connection went: "none", "proxy", "target"
    wire,         \* bytes the proxy connection holds for the handler
    answered,     \* the upstream proxy has sent its response
    status,       \* the status it sent
    upstreamOpen, \* the target end of the connection is open
    proxyClosed,  \* the upstream proxy closed without answering
    srvSent,      \* bytes of TargetStream the target has sent
    delivered     \* history: bytes the tunnel copied to the client

vars == <<req, tcpProxy, pc, dialed, wire, answered, status, upstreamOpen,
          proxyClosed, srvSent, delivered>>

TypeOK ==
    /\ req \in Requests /\ tcpProxy \in ProxyURLs \cup {NoProxy}
    /\ pc \in {"start", "await_reply", "tunnel", "answered", "failed"}
    /\ dialed \in {"none", "proxy", "target"}
    /\ wire \in Seq({HdrByte, EndMark} \cup 1..TargetLen)
    /\ answered \in BOOLEAN /\ status \in Statuses
    /\ upstreamOpen \in BOOLEAN /\ proxyClosed \in BOOLEAN
    /\ srvSent \in 0..TargetLen
    /\ delivered \in Seq(1..TargetLen)

-----------------------------------------------------------------------------
(* extractUpstreamProxy: the HTTPCloak Proxy-Authorization value when      *)
(* present, else X-Upstream-Proxy (possibly empty).                         *)
ExtractUpstreamProxy(r) == IF r.auth # NoProxy THEN r.auth ELSE r.upstream

\* proxy.IsSOCKS5URL: a socks5:// or socks5h:// URL.
IsSOCKS5URL(u) == u.scheme = "socks5"

\* dialTarget: the override, when non-empty, takes precedence.
ProxyURL(r) ==
    IF ExtractUpstreamProxy(r) # NoProxy THEN ExtractUpstreamProxy(r) ELSE tcpProxy

\* The index of the CRLFCRLF terminator in a chunk, 0 if absent.
EndAt(s) == SelectInSeq(s, LAMBDA b : b = EndMark)

Fail == pc' = "failed"

Init ==
    /\ req \in Requests /\ tcpProxy \in ProxyURLs \cup {NoProxy}
    /\ pc = "start" /\ dialed = "none" /\ wire = <<>>
    /\ answered = FALSE /\ status = 200 /\ upstreamOpen = FALSE
    /\ proxyClosed = FALSE
    /\ srvSent = 0 /\ delivered = <<>>

(* dialTarget's three ways to the target: a SOCKS5 proxy, an http(s)      *)
(* proxy through dialThroughHTTPProxy, or a direct net.Dialer dial for no   *)
(* proxy and for any other URL.                                             *)
Route(u) ==
    CASE u # NoProxy /\ IsSOCKS5URL(u)                 -> "socks5"
      [] u # NoProxy /\ u.scheme \in {"http", "https"} -> "connect"
      [] OTHER                                          -> "direct"

(* handleCONNECT up to its first blocking read: dialTarget under p.timeout; *)
(* for a proxy, url.Parse of its URL (NewSOCKS5Dialer, dialThroughHTTPProxy) *)
(* and, for an http(s) proxy, the dial to it and the CONNECT write. A       *)
(* failure answers 502; a finished direct or SOCKS5 dial answers 200 and    *)
(* starts the tunnel.                                                       *)
DialTarget ==
    /\ pc = "start" /\ req.kind = "connect"
    /\ \E ok \in BOOLEAN :
         LET u == ProxyURL(req) IN
         IF Route(u) # "direct" /\ ~u.valid
           THEN Fail /\ UNCHANGED <<dialed, upstreamOpen>>
           ELSE /\ dialed' = IF Route(u) = "direct" THEN "target" ELSE "proxy"
                /\ upstreamOpen' = (ok /\ Route(u) # "connect")
                /\ pc' = CASE ~ok                  -> "failed"
                           [] Route(u) = "connect" -> "await_reply"
                           [] OTHER                -> "tunnel"
    /\ UNCHANGED <<req, tcpProxy, wire, answered, status, proxyClosed,
                   srvSent, delivered>>

\* Faulty variant: the response taken as complete after the first Read.
ReadReplyEarly ==
    /\ pc = "await_reply" /\ wire # <<>>
    /\ \E k \in 1..Min({ReadChunk, Len(wire)}) :
         /\ wire' = SubSeq(wire, k + 1, Len(wire))
         /\ pc' = IF status = 200 THEN "tunnel" ELSE "failed"
    /\ UNCHANGED <<req, tcpProxy, dialed, answered, status, upstreamOpen,
                   proxyClosed, srvSent, delivered>>

\* Faulty variant: EOF before the response not treated as an error.
ReadReplyIgnoringEOF ==
    /\ pc = "await_reply" /\ wire # <<>>
    /\ \E k \in 1..Min({ReadChunk, Len(wire)}) :
         /\ wire' = SubSeq(wire, k + 1, Len(wire))
         /\ IF EndAt(SubSeq(wire, 1, k)) = 0 THEN UNCHANGED pc
            ELSE pc' = IF status = 200 THEN "tunnel" ELSE "failed"
    /\ UNCHANGED <<req, tcpProxy, dialed, answered, status, upstreamOpen,
                   proxyClosed, srvSent, delivered>>

(* dialThroughHTTPProxy: http.ReadResponse on a bufio.Reader over the      *)
(* connection, which blocks until the header is complete. Each step is one *)
(* Read filling the reader. On the terminator: a non-200 status fails, a   *)
(* 200 returns conn itself, so what the reader buffered after the header   *)
(* is dropped; handleCONNECT then answers 200. EOF fails.                  *)
ReadReply ==
    /\ pc = "await_reply"
    /\ \/ /\ wire # <<>>
          /\ \E k \in 1..Min({ReadChunk, Len(wire)}) :
               /\ wire' = SubSeq(wire, k + 1, Len(wire))
               /\ IF EndAt(SubSeq(wire, 1, k)) = 0 THEN UNCHANGED pc
                  ELSE pc' = IF status = 200 THEN "tunnel" ELSE "failed"
       \/ /\ wire = <<>> /\ proxyClosed
          /\ Fail /\ UNCHANGED wire
    /\ UNCHANGED <<req, tcpProxy, dialed, answered, status, upstreamOpen,
                   proxyClosed, srvSent, delivered>>

(* tunnel, target to client: io.CopyBuffer writes what it reads.           *)
TunnelCopy ==
    /\ pc = "tunnel" /\ wire # <<>>
    /\ delivered' = Append(delivered, Head(wire))
    /\ wire' = Tail(wire)
    /\ UNCHANGED <<req, tcpProxy, pc, dialed, answered, status, upstreamOpen,
                   proxyClosed, srvSent>>

(* createProxyClient, and the http.Transport it builds: where client.Do   *)
(* connects. p.httpClient, which has no proxy, when url.Parse fails; an    *)
(* error for a scheme other than http, https, socks5.                      *)
CreateProxyClient(o) ==
    CASE ~o.valid           -> "target"
      [] o.scheme = "other" -> "none"
      [] OTHER              -> "proxy"

(* handleHTTPDirect: p.httpClient unless the request names a proxy, then   *)
(* createProxyClient's. The request runs under p.timeout; its answer, or   *)
(* 502, is written back.                                                   *)
ForwardDirect ==
    /\ pc = "start" /\ req.kind = "http"
    /\ LET o == ExtractUpstreamProxy(req) IN
         dialed' = IF o = NoProxy THEN "target" ELSE CreateProxyClient(o)
    /\ pc' = "answered"
    /\ UNCHANGED <<req, tcpProxy, wire, answered, status, upstreamOpen,
                   proxyClosed, srvSent, delivered>>
-----------------------------------------------------------------------------
(* The upstream proxy answers CONNECT; on 200 it opens the target.         *)
ProxyAnswer ==
    /\ pc = "await_reply" /\ ~answered /\ ~proxyClosed
    /\ \E s \in Statuses :
         /\ status' = s /\ upstreamOpen' = (s = 200)
         /\ wire' = wire \o <<HdrByte, EndMark>>
    /\ answered' = TRUE
    /\ UNCHANGED <<req, tcpProxy, pc, dialed, proxyClosed, srvSent, delivered>>

(* The upstream proxy drops the connection without answering.              *)
ProxyClose ==
    /\ pc = "await_reply" /\ ~answered /\ ~proxyClosed
    /\ proxyClosed' = TRUE
    /\ UNCHANGED <<req, tcpProxy, pc, dialed, wire, answered, status,
                   upstreamOpen, srvSent, delivered>>

(* The target sends its next byte: at once if it speaks first, otherwise   *)
(* once the client, told 200, has started its own protocol.                *)
ServerSend ==
    /\ upstreamOpen /\ srvSent < TargetLen
    /\ ServerFirst \/ pc = "tunnel"
    /\ srvSent' = srvSent + 1
    /\ wire' = Append(wire, srvSent + 1)
    /\ UNCHANGED <<req, tcpProxy, pc, dialed, answered, status, upstreamOpen,
                   proxyClosed, delivered>>

Next ==
    \/ DialTarget \/ ReadReply \/ TunnelCopy \/ ForwardDirect
    \/ ProxyAnswer \/ ProxyClose \/ ServerSend

(* The handler's steps end: dials and forwarded requests by p.timeout, a   *)
(* Read once bytes or EOF are there, the copy while bytes wait. The target *)
(* sends its stream. The upstream proxy answers only where ProxyResponsive *)
(* says so: nothing in the handler makes it.                               *)
Fairness ==
    /\ WF_vars(DialTarget) /\ WF_vars(ReadReply) /\ WF_vars(TunnelCopy)
    /\ WF_vars(ForwardDirect) /\ WF_vars(ServerSend)
    /\ ProxyResponsive => WF_vars(ProxyAnswer)

Spec == Init /\ [][Next]_vars /\ Fairness

-----------------------------------------------------------------------------
(* Every request is answered: the handler leaves dialTarget and the        *)
(* CONNECT exchange with a tunnel, a response or an error (spec 4.3: the   *)
(* CONNECT response is read under a connect_timeout deadline).             *)
ConnectAnswered ==
    pc \in {"start", "await_reply"} ~> pc \in {"tunnel", "answered", "failed"}

(* An upstream proxy, configured (TCPProxy) or named by the request, is    *)
(* never bypassed: the target is dialled from this host only when no proxy *)
(* applies to the request.                                                 *)
ProxyNotBypassed == dialed = "target" => ProxyURL(req) = NoProxy
=============================================================================
