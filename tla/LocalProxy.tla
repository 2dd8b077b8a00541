----------------------------- MODULE LocalProxy -----------------------------
(***************************************************************************)
(* The local HTTP proxy of local_proxy.go: the accept loop with its        *)
(* connection limit, one handler goroutine per client connection (read the *)
(* request under a deadline, then tunnel a CONNECT, forward over a         *)
(* fingerprinting Session, or forward plain HTTP directly), the session    *)
(* registry the embedding application edits concurrently, and Stop, which  *)
(* waits for the handlers at most 10 seconds before closing the default    *)
(* session.                                                                *)
(*                                                                         *)
(* activeConns and the WaitGroup are kept as the counters the code keeps;  *)
(* what a handler does with bytes is left out, only which stage it is in   *)
(* and which Session it holds.                                             *)
(***************************************************************************)
EXTENDS Naturals, FiniteSets

CONSTANTS
    Conns,          \* client connections that may reach the listener
    MaxConnections, \* LocalProxyConfig.MaxConnections
    SessionIDs,     \* values of the X-HTTPCloak-Session header
    Sessions,       \* Session objects the application may register
    Default,        \* the proxy's own Session (p.session)
    NoSession,      \* a registry slot that is empty
    NoID,           \* the empty session identifier / no session header
    Ports           \* ports a CONNECT request may name

ASSUME /\ MaxConnections \in Nat
       /\ Default \notin Sessions /\ NoSession \notin Sessions \cup {Default}
       /\ NoID \notin SessionIDs

\* What ReadRequest may return, abstracted to what decides the handler's path:
\* a read error or timeout, a CONNECT naming a port, an https (or
\* scheme-upgraded) request with its X-HTTPCloak-Session header, a plain
\* http request.
Requests ==
    [kind : {"bad", "http"}, port : {"443"}, sid : {NoID}]
    \cup [kind : {"connect"}, port : Ports, sid : {NoID}]
    \cup [kind : {"https"}, port : {"443"}, sid : SessionIDs \cup {NoID}]

\* isPortAllowed: SMTP and Telnet ports are refused.
IsPortAllowed(port) == port \notin {"25", "465", "587", "23"}

\* Stages of a client connection. "queued": in the listener's backlog;
\* "rejected": closed by the accept loop at the limit; "refused": dropped
\* with the listener; the rest are stages of handleConnection.
Handling == {"reading", "dialing", "connectReply", "tunnel", "session", "direct"}
Stages == {"idle", "queued", "rejected", "refused", "closed"} \cup Handling

VARIABLES
    running, shuttingDown, ctxDone, listenerOpen,
    acceptLoop,     \* "loop" while acceptLoop runs, "done" after it returned
    activeConns,    \* p.activeConns
    wg,             \* the count of p.wg
    stage,          \* stage[c]: where connection c is
    held,           \* held[c]: the Session the handler of c forwards with
    heldID,         \* heldID[c]: the X-HTTPCloak-Session ID it was selected by
    registry,       \* p.sessionRegistry, NoSession where absent
    ident,          \* ident[s]: what SetSessionIdentifier last gave s
    stopState,      \* Stop: "none", "waiting" for wg or the timer, "stopped"
    waiter,         \* Stop's goroutine around p.wg.Wait: "none", "waiting", "exited"
    closedSessions  \* Sessions that Stop has closed

vars == <<running, shuttingDown, ctxDone, listenerOpen, acceptLoop,
          activeConns, wg, stage, held, heldID, registry, ident, stopState,
          waiter, closedSessions>>
regVars == <<registry, ident>>
useVars == <<held, heldID>>

TypeOK ==
    /\ running \in BOOLEAN /\ shuttingDown \in BOOLEAN
    /\ ctxDone \in BOOLEAN /\ listenerOpen \in BOOLEAN
    /\ acceptLoop \in {"loop", "done"}
    /\ activeConns \in Nat /\ wg \in Nat
    /\ stage \in [Conns -> Stages]
    /\ held \in [Conns -> Sessions \cup {Default, NoSession}]
    /\ heldID \in [Conns -> SessionIDs \cup {NoID}]
    /\ registry \in [SessionIDs -> Sessions \cup {NoSession}]
    /\ ident \in [Sessions -> SessionIDs \cup {NoID}]
    /\ stopState \in {"none", "waiting", "stopped"}
    /\ waiter \in {"none", "waiting", "exited"}
    /\ closedSessions \subseteq Sessions \cup {Default}

-----------------------------------------------------------------------------
(* StartLocalProxy: listening, the accept loop counted in the WaitGroup,   *)
(* an empty registry.                                                      *)
Init ==
    /\ running = TRUE /\ shuttingDown = FALSE /\ ctxDone = FALSE
    /\ listenerOpen = TRUE /\ acceptLoop = "loop"
    /\ activeConns = 0 /\ wg = 1
    /\ stage = [c \in Conns |-> "idle"]
    /\ held = [c \in Conns |-> NoSession]
    /\ heldID = [c \in Conns |-> NoID]
    /\ registry = [id \in SessionIDs |-> NoSession]
    /\ ident = [s \in Sessions |-> NoID]
    /\ stopState = "none" /\ waiter = "none" /\ closedSessions = {}

\* A client connects while the listener is open.
ClientConnect(c) ==
    /\ listenerOpen /\ stage[c] = "idle"
    /\ stage' = [stage EXCEPT ![c] = "queued"]
    /\ UNCHANGED <<running, shuttingDown, ctxDone, listenerOpen, acceptLoop,
                   activeConns, wg, useVars, regVars, stopState, waiter, closedSessions>>

(* acceptLoop, one accepted connection: closed at once when activeConns    *)
(* has reached the limit, otherwise counted and handed to a goroutine.     *)
Accept(c) ==
    /\ acceptLoop = "loop" /\ listenerOpen /\ stage[c] = "queued"
    /\ IF activeConns >= MaxConnections
         THEN /\ stage' = [stage EXCEPT ![c] = "rejected"]
              /\ UNCHANGED <<activeConns, wg>>
         ELSE /\ stage' = [stage EXCEPT ![c] = "reading"]
              /\ activeConns' = activeConns + 1 /\ wg' = wg + 1
    /\ UNCHANGED <<running, shuttingDown, ctxDone, listenerOpen, acceptLoop,
                   useVars, regVars, stopState, waiter, closedSessions>>

\* Faulty variant: acceptLoop returning without its deferred wg.Done.
AcceptExitNoDone ==
    /\ acceptLoop = "loop" /\ ~listenerOpen /\ shuttingDown
    /\ acceptLoop' = "done"
    /\ UNCHANGED <<running, shuttingDown, ctxDone, listenerOpen, activeConns, wg,
                   stage, useVars, regVars, stopState, waiter, closedSessions>>

(* acceptLoop: Accept fails on the closed listener; with shuttingDown set  *)
(* the loop returns and its deferred wg.Done runs.                         *)
AcceptExit ==
    /\ acceptLoop = "loop" /\ ~listenerOpen /\ shuttingDown
    /\ acceptLoop' = "done" /\ wg' = wg - 1
    /\ UNCHANGED <<running, shuttingDown, ctxDone, listenerOpen, activeConns,
                   stage, useVars, regVars, stopState, waiter, closedSessions>>

\* Faulty variant: the handler goroutine without its deferred wg.Done.
FinishNoDone(c) ==
    /\ stage' = [stage EXCEPT ![c] = "closed"]
    /\ activeConns' = activeConns - 1 /\ UNCHANGED wg

\* Faulty variant: activeConns decremented by both a deferred and an
\* explicit Add(-1).
FinishTwice(c) ==
    /\ stage' = [stage EXCEPT ![c] = "closed"]
    /\ activeConns' = activeConns - 2 /\ wg' = wg - 1

\* The handler goroutine returns: conn.Close, then the deferred
\* activeConns.Add(-1) and wg.Done.
Finish(c) ==
    /\ stage' = [stage EXCEPT ![c] = "closed"]
    /\ activeConns' = activeConns - 1 /\ wg' = wg - 1

\* GetSession: the registered session under the ID, under the read lock.
GetSession(id) == registry[id]

(* handleHTTPWithSession's choice: the registered session for a non-empty  *)
(* X-HTTPCloak-Session header (NoSession if unknown), else the default one. *)
SelectedSession(sid) == IF sid = NoID THEN Default ELSE GetSession(sid)

(* handleConnection: ReadRequest under the 30 s deadline, then dispatch:   *)
(* an error answers 400; CONNECT checks the port (handleCONNECT);          *)
(* https selects the registered session or the default one, answering 400 *)
(* for an unknown ID (handleHTTPWithSession); plain http goes direct.      *)
ReadRequest(c) ==
    /\ stage[c] = "reading"
    /\ \E r \in Requests :
         LET s == SelectedSession(r.sid) IN
         CASE r.kind = "bad" \/ (r.kind = "connect" /\ ~IsPortAllowed(r.port)) ->
                /\ Finish(c) /\ UNCHANGED useVars
           [] r.kind = "connect" ->
                /\ stage' = [stage EXCEPT ![c] = "dialing"]
                /\ UNCHANGED <<activeConns, wg, useVars>>
           [] r.kind = "https" /\ s = NoSession ->
                /\ Finish(c) /\ UNCHANGED useVars
           [] r.kind = "https" ->
                /\ stage' = [stage EXCEPT ![c] = "session"]
                /\ held' = [held EXCEPT ![c] = s]
                /\ heldID' = [heldID EXCEPT ![c] = r.sid]
                /\ UNCHANGED <<activeConns, wg>>
           [] OTHER ->
                /\ stage' = [stage EXCEPT ![c] = "direct"]
                /\ UNCHANGED <<activeConns, wg, useVars>>
    /\ UNCHANGED <<running, shuttingDown, ctxDone, listenerOpen, acceptLoop,
                   regVars, stopState, waiter, closedSessions>>

\* Faulty variant: the TCP dial not bound to the context derived from p.ctx.
DialIgnoringCtx(c) ==
    /\ stage[c] = "dialing"
    /\ \E ok \in BOOLEAN, viaHTTPProxy \in BOOLEAN :
         CASE ~ok          -> Finish(c)
           [] viaHTTPProxy -> /\ stage' = [stage EXCEPT ![c] = "connectReply"]
                              /\ UNCHANGED <<activeConns, wg>>
           [] OTHER        -> /\ stage' = [stage EXCEPT ![c] = "tunnel"]
                              /\ UNCHANGED <<activeConns, wg>>
    /\ UNCHANGED <<running, shuttingDown, ctxDone, listenerOpen, acceptLoop,
                   useVars, regVars, stopState, waiter, closedSessions>>

(* handleCONNECT and dialTarget: the TCP dial (to the target, to a SOCKS5  *)
(* proxy through its handshake, or to an upstream HTTP proxy) runs under   *)
(* a context derived from p.ctx; failed or cancelled, it answers 502. A    *)
(* direct or SOCKS5 dial that succeeds answers 200 and tunnels; through an *)
(* HTTP proxy (chosen by the per-request override or tcpProxy) the CONNECT *)
(* request is written and its reply awaited.                               *)
Dial(c) ==
    /\ stage[c] = "dialing"
    /\ \E ok \in BOOLEAN, viaHTTPProxy \in BOOLEAN :
         CASE ~ok \/ ctxDone -> Finish(c)
           [] viaHTTPProxy   -> /\ stage' = [stage EXCEPT ![c] = "connectReply"]
                                /\ UNCHANGED <<activeConns, wg>>
           [] OTHER          -> /\ stage' = [stage EXCEPT ![c] = "tunnel"]
                                /\ UNCHANGED <<activeConns, wg>>
    /\ UNCHANGED <<running, shuttingDown, ctxDone, listenerOpen, acceptLoop,
                   useVars, regVars, stopState, waiter, closedSessions>>

(* dialThroughHTTPProxy: http.ReadResponse on the proxy connection, with   *)
(* no deadline and not watching the context: a 200 answers the client and *)
(* tunnels even after Stop has cancelled p.ctx; an error or another status *)
(* answers 502.                                                            *)
ProxyReply(c) ==
    /\ stage[c] = "connectReply"
    /\ \E ok \in BOOLEAN :
         IF ok THEN /\ stage' = [stage EXCEPT ![c] = "tunnel"]
                    /\ UNCHANGED <<activeConns, wg>>
               ELSE Finish(c)
    /\ UNCHANGED <<running, shuttingDown, ctxDone, listenerOpen, acceptLoop,
                   useVars, regVars, stopState, waiter, closedSessions>>

(* tunnel: both copy goroutines end only when the client or the target     *)
(* closes; nothing ties them to p.ctx.                                     *)
TunnelEnd(c) ==
    /\ stage[c] = "tunnel"
    /\ Finish(c)
    /\ UNCHANGED <<running, shuttingDown, ctxDone, listenerOpen, acceptLoop,
                   useVars, regVars, stopState, waiter, closedSessions>>

(* handleHTTPWithSession / handleHTTPDirect: the request runs under the    *)
(* proxy's timeout (or fails at once once p.ctx is cancelled) and the      *)
(* response is copied back; then the handler returns.                      *)
Forward(c) ==
    /\ stage[c] \in {"session", "direct"}
    /\ Finish(c)
    /\ held' = [held EXCEPT ![c] = NoSession]
    /\ heldID' = [heldID EXCEPT ![c] = NoID]
    /\ UNCHANGED <<running, shuttingDown, ctxDone, listenerOpen, acceptLoop,
                   regVars, stopState, waiter, closedSessions>>
-----------------------------------------------------------------------------
(* Stop, up to the wait: set shuttingDown, cancel p.ctx, close the        *)
(* listener (which drops the connections still in its backlog), and start *)
(* the goroutine that closes done once p.wg.Wait returns.                  *)
StopBegin ==
    /\ running /\ stopState = "none"
    /\ shuttingDown' = TRUE /\ ctxDone' = TRUE /\ listenerOpen' = FALSE
    /\ stage' = [c \in Conns |->
                   IF stage[c] = "queued" THEN "refused" ELSE stage[c]]
    /\ stopState' = "waiting" /\ waiter' = "waiting"
    /\ UNCHANGED <<running, acceptLoop, activeConns, wg, useVars, regVars,
                   closedSessions>>

\* After the select in Stop: close the default session, CloseIdleConnections,
\* running = false.
StopFinish ==
    /\ closedSessions' = closedSessions \cup {Default}
    /\ running' = FALSE /\ stopState' = "stopped"

(* Stop's waiter goroutine: p.wg.Wait returns once the count is zero,     *)
(* and done is closed. It runs whether or not Stop is still selecting.    *)
WaiterExit ==
    /\ waiter = "waiting" /\ wg = 0
    /\ waiter' = "exited"
    /\ UNCHANGED <<running, shuttingDown, ctxDone, listenerOpen, acceptLoop,
                   activeConns, wg, stage, useVars, regVars, stopState,
                   closedSessions>>

\* Stop's select: done is closed.
StopWaitDone ==
    /\ stopState = "waiting" /\ waiter = "exited"
    /\ StopFinish
    /\ UNCHANGED <<shuttingDown, ctxDone, listenerOpen, acceptLoop,
                   activeConns, wg, stage, useVars, regVars, waiter>>

\* Stop's select: the 10 s timer fires first, whatever is still running.
StopTimeout ==
    /\ stopState = "waiting"
    /\ StopFinish
    /\ UNCHANGED <<shuttingDown, ctxDone, listenerOpen, acceptLoop,
                   activeConns, wg, stage, useVars, regVars, waiter>>

(* RegisterSession: refuses an ID already present; otherwise gives the    *)
(* session the ID as its identifier and stores it.                        *)
RegisterSession(id, s) ==
    /\ registry[id] = NoSession
    /\ ident' = [ident EXCEPT ![s] = id]
    /\ registry' = [registry EXCEPT ![id] = s]
    /\ UNCHANGED <<running, shuttingDown, ctxDone, listenerOpen, acceptLoop,
                   activeConns, wg, stage, useVars, stopState, waiter, closedSessions>>

(* UnregisterSession: clears the identifier of the session found under    *)
(* the ID and removes the entry; the session is not closed.               *)
UnregisterSession(id) ==
    /\ registry[id] # NoSession
    /\ ident' = [ident EXCEPT ![registry[id]] = NoID]
    /\ registry' = [registry EXCEPT ![id] = NoSession]
    /\ UNCHANGED <<running, shuttingDown, ctxDone, listenerOpen, acceptLoop,
                   activeConns, wg, stage, useVars, stopState, waiter, closedSessions>>

(* The application closes a session it has unregistered, as the comment   *)
(* of UnregisterSession leaves to it ("caller is responsible for closing   *)
(* it"). Session.Close is not in this repository.                          *)
CloseSession(s) ==
    /\ s \notin closedSessions
    /\ \A id \in SessionIDs : registry[id] # s
    /\ closedSessions' = closedSessions \cup {s}
    /\ UNCHANGED <<running, shuttingDown, ctxDone, listenerOpen, acceptLoop,
                   activeConns, wg, stage, useVars, regVars, stopState, waiter>>

(* Nothing is left to run: Stop has returned, the accept loop and every    *)
(* handler are gone, and the application has closed all its sessions.     *)
Terminated ==
    /\ stopState = "stopped" /\ acceptLoop = "done"
    /\ \A c \in Conns : stage[c] \notin Handling \cup {"queued"}
    /\ closedSessions = Sessions \cup {Default}
    /\ UNCHANGED vars

Next ==
    \/ \E c \in Conns :
          \/ ClientConnect(c) \/ Accept(c) \/ ReadRequest(c) \/ Dial(c)
          \/ ProxyReply(c) \/ TunnelEnd(c) \/ Forward(c)
    \/ AcceptExit \/ StopBegin \/ WaiterExit \/ StopWaitDone \/ StopTimeout
    \* the application registers the sessions it has not closed
    \/ \E id \in SessionIDs, s \in Sessions \ closedSessions :
          RegisterSession(id, s)
    \/ \E id \in SessionIDs : UnregisterSession(id)
    \/ \E s \in Sessions : CloseSession(s)
    \/ Terminated

(* The proxy's goroutines run; reads return by their deadline, dials and  *)
(* forwarded requests by p.timeout, and the 10 s timer fires. Clients,    *)
(* tunnel peers, the application and the caller of Stop are not forced,   *)
(* nor is an upstream HTTP proxy's CONNECT reply, which has no deadline.  *)
(* Stop's waiter goroutine runs once wg.Wait can return.                  *)
Fairness ==
    /\ \A c \in Conns : /\ WF_vars(Accept(c)) /\ WF_vars(ReadRequest(c))
                        /\ WF_vars(Dial(c)) /\ WF_vars(Forward(c))
    /\ WF_vars(AcceptExit) /\ WF_vars(WaiterExit)
    /\ WF_vars(StopWaitDone) /\ WF_vars(StopTimeout)

Spec == Init /\ [][Next]_vars /\ Fairness

-----------------------------------------------------------------------------
Live == {c \in Conns : stage[c] \in Handling}

(* activeConns and the WaitGroup count exactly the live handlers (and the *)
(* accept loop): every exit path of a handler, the 400/403/502 answers    *)
(* included, gives back what Accept took, so Stop's wg.Wait can return.  *)
ConnAccounting ==
    /\ activeConns = Cardinality(Live)
    /\ wg = Cardinality(Live) + (IF acceptLoop = "loop" THEN 1 ELSE 0)

(* The goroutine Stop leaves blocked in p.wg.Wait (when its timer wins)   *)
(* leaks only while a tunnel is open or an upstream HTTP proxy has not yet *)
(* answered a CONNECT: once Stop has cancelled p.ctx and closed the        *)
(* listener and neither remains, every dial fails on the cancelled context *)
(* so no tunnel can start, every other handler and the accept loop return *)
(* and call wg.Done, and the waiter exits.                                 *)
WaiterExits ==
    (waiter = "waiting" /\ \A c \in Conns : stage[c] \notin {"tunnel", "connectReply"})
        ~> waiter = "exited"

(* A handler forwards with a session that stays usable and isolated: the  *)
(* Session it selected is not closed under it (by Stop's timeout or by the *)
(* application after UnregisterSession), and a registered one keeps the    *)
(* X-HTTPCloak-Session ID as its identifier, the TLS cache-key isolator    *)
(* RegisterSession sets, until the request is done.                        *)
SessionInUseIntact ==
    \A c \in Conns : stage[c] = "session" =>
        /\ held[c] \notin closedSessions
        /\ held[c] # Default => ident[held[c]] = heldID[c]
=============================================================================
