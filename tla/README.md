# TLA+ models of httpcloak

This directory holds TLA+ models of the parts of httpcloak whose source is in
this repository, the TLC configurations that check them, and a record of what
the checks show (`PROJECT.json`). Every action is translated from the Go
source. `PROJECT.json` ("map") names the lines each definition stands for.

## The system and its parts

httpcloak is an HTTP client that imitates browsers. The spec describes a
session layer, three protocol dialers with a racing arbiter and a pool, a
cookie jar, presets and bindings. Only part of that code is under `src/`:

| Part | Source | State and operations | Model |
|---|---|---|---|
| Speculative TLS wrapper | `transport/speculative_conn.go` 1-228 | `firstWrite`, `httpResponseDone`, `headerBuffer`, `readBuffer`, `mu`; `Write`, `Read`, `readAndStripHTTPResponse` | `SpeculativeConn`, refines `TlsTunnel` |
| Local proxy | `local_proxy.go` 1-951 | `running`, `shuttingDown`, `activeConns`, `wg`, `ctx`, listener, `sessionRegistry`; `acceptLoop`, `handleConnection` and its handlers, `tunnel`, `Stop`, `RegisterSession`, `UnregisterSession`, `GetSession`, `isPortAllowed` | `LocalProxy` |
| Upstream routing of one request | `local_proxy.go` 493-536, 663-919 | `extractUpstreamProxy`, `dialTarget`, `dialThroughHTTPProxy`, `createProxyClient`, `handleHTTPDirect`, `tunnel` | `UpstreamDial` |
| Key-log sink | `transport/keylog.go` | `globalKeyLogWriter` under `globalKeyLogMu`; `initKeyLogFromEnv`, `SetKeyLogFile`, `SetKeyLogWriter`, `CloseKeyLog` | `KeyLog` |
| Header coherence | `session/state.go` 41-377 | a caller's header map; `calculateFetchSite`, `getRegistrableDomain`, the context constructors, `GenerateSecFetchHeaders`, `ApplyToHeaders` | `HeaderCoherence` |
| Session state types | `session/state.go` 1-40 | types only | not modelled |
| SOCKS5 UDP header | `unnamed/part_004` (tests only) | encoder/decoder not present | planned, from the spec |
| Bindings, examples, `cmd/`, docs | various | no state of their own | not modelled |

The rest of the file `transport/speculative_conn.go` (from line 229) is its
test file. The rest of `local_proxy.go` (from line 952) is an older copy
without the registry. Its accept loop, `Stop` and handlers have the same
control as the current ones, without the upstream-proxy routes, so it is
not modelled separately.

How the parts interact: the dialers (not in `src/`) wrap a proxy TCP
connection in a `SpeculativeConn` and run the uTLS handshake and the HTTP/1.1
or HTTP/2 client over it. The local proxy forwards its clients' HTTPS
requests through a `Session`, which uses those dialers. The key-log writer
is read by the TLS configuration of every new connection.

## Hard behaviours, per part

- **SpeculativeConn.** `Read` and `Write` both take `mu`, and `Read` keeps it
  through a blocking `Conn.Read`. The proxy's response may arrive split
  across any number of reads. The terminator may share a read with TLS data,
  which may be larger than the caller's buffer. The 16 KiB bound is checked
  per read. A non-200 status or a malformed header is an error.
- **LocalProxy.** Accepting and handling run concurrently: a load, a compare
  and then an add on `activeConns` in the accept goroutine, with deferred
  decrements in the handlers. `Stop` cancels the context, closes the
  listener, then waits on the WaitGroup or a 10 s timer. Tunnels are not tied
  to the context. The registry is edited by the application while handlers
  read it.
- **UpstreamDial.** A CONNECT through an upstream HTTP proxy writes the
  CONNECT, then reads the reply through a `bufio.Reader` that is dropped
  afterwards. It has no read deadline. The upstream proxy is chosen per
  request (`Proxy-Authorization`, then `X-Upstream-Proxy`) or from the
  configured `tcpProxy`, with different rules for CONNECT and plain HTTP.
- **KeyLog.** Every setter closes the current writer if it is an
  `io.Closer` before installing the next one.

## Modules

- `TlsTunnel`: the abstract promise of the wrapper to the TLS layer. It
  delivers a growing prefix of the origin's byte stream, and nothing after
  an error.
- `SpeculativeConn`: the wrapper, plus the caller goroutines (`Program`), the
  proxy (`ProxyAnswer`) and the origin (`ServerRecv`). Bytes are abstract:
  header bytes are `0`, the CRLFCRLF terminator is `EndMark` (-1), and the
  origin's stream is `1, 2, ...`.
  - `Write`/`WriteFails` are `SpeculativeConn.Write`.
  - `Read` is `Read` up to the point where it blocks, holding `mu`.
  - `ReadHeader` is one underlying read of `readAndStripHTTPResponse`. The
    code's recursion becomes a further `ReadHeader` step, and the step
    includes the status check, `Reset` and leftover buffering.
  - `ReadDirect` is the plain `Conn.Read`.
  - `ReadFails` is a failed underlying read.

  The refinement maps `received` to the bytes `Read` returned (`delivered`)
  and `broken` to "an error was returned".
- `LocalProxy`: the accept loop (`Accept`, `AcceptExit`) and one handler per
  connection, whose `stage` follows `handleConnection`:
  - `ReadRequest` reads the request and dispatches it, including the port
    check and the registry lookup.
  - `Dial` is `handleCONNECT`'s `dialTarget`: the TCP dial under the proxy
    context, failing once `Stop` has cancelled it. A direct or SOCKS5 dial
    goes on to the tunnel; a dial to an upstream HTTP proxy goes on to
    `"connectReply"`.
  - `ProxyReply` is `dialThroughHTTPProxy` reading the upstream proxy's
    answer to CONNECT with `http.ReadResponse`. That read is not under the
    context and has no deadline, so a stopped proxy can still open a tunnel
    after it.
  - `TunnelEnd` ends a tunnel.
  - `Forward` is `handleHTTPWithSession`/`handleHTTPDirect` running to
    completion.

  `heldID` records the `X-HTTPCloak-Session` ID a handler selected its
  session by. `CloseSession` is the application closing a session it has
  unregistered, which `UnregisterSession`'s comment leaves to it.
  `Terminated` is the stop of the whole system, once `Stop` has returned
  and every session is closed.

  `Finish` is the deferred `Add(-1)` and `wg.Done`. `Stop` is three actions:
  `StopBegin`, then `StopWaitDone` or `StopTimeout` (the two cases of its
  `select`), each of which includes the session close that follows.
  `StopBegin` also starts the goroutine around `p.wg.Wait` (`waiter`);
  `WaiterExit` is that goroutine closing `done`, which it does whether or
  not `Stop` is still selecting.
- `UpstreamDial`: one request through `handleCONNECT` or
  `handleHTTPDirect`, with the upstream proxy (`ProxyAnswer`, `ProxyClose`)
  and the target (`ServerSend`) as environment actions.
  - `DialTarget` is `dialTarget`'s choice among SOCKS5, HTTP CONNECT and a
    direct dial.
  - `ReadReply` is one `Read` of the `bufio.Reader` in
    `dialThroughHTTPProxy`, which is dropped after the status check.
  - `TunnelCopy` is the target-to-client half of `tunnel`.
  - `ForwardDirect` is `handleHTTPDirect`'s client choice, from
    `createProxyClient`.

  `ServerFirst` lets the target send before the client has spoken.
  `ProxyResponsive` says whether the upstream proxy ever answers.
  The refinement maps the bytes that reach the client to `TlsTunnel`.
- `KeyLog`: one action per setter; each holds the mutex for its whole body.
- `HeaderCoherence`: the header map is the state, and `ApplyToHeaders(c)` is
  the one action. `c` is any context the constructors build (the site is
  computed by `CalculateFetchSite` from URL records) or any literal
  `RequestContext`. Applying again to the same map models a preset-derived
  map reused across requests. `SameOriginRef`, `RegistrableRef` and
  `SameSiteRef` are reference definitions (URL Standard origin, and Fetch
  schemeful site with a public-suffix set) for what `Sec-Fetch-Site` is meant
  to say.
- `MC_*`: constants for TLC (caller programs, model values).

## Runs

| Run | Checks | Result and meaning |
|---|---|---|
| `spec_h1` | `TypeOK`, `HeaderBoundedByOneRead`, `TunnelRefinement`, `Termination` | pass. HTTP/1.1 with a waiting goroutine. It covers proxy answers 200, 407 and malformed; headers of 1, 3 or 5 bytes against a limit of 2; reads of 1-3 bytes; caller buffers of 1-2 bytes; write and read failures. The wrapper implements `TlsTunnel`, and every exchange finishes or fails. A header is accepted only up to the limit plus one read: the 16 KiB check runs only after reads that end without the terminator, so the spec's bound is exceeded by at most one read. |
| `spec_h2_deadlock` | `Termination` | violation: the HTTP/2 shape. The read loop blocks in `Read` holding `mu` while the writer still has the request to send. |
| `proxy` | `TypeOK`, `ConnAccounting`, `WaiterExits` | pass. Three clients against a limit of two, every request kind, allowed and blocked ports, direct and upstream-proxy CONNECTs, registry edits, the application closing sessions, and `Stop` at any time. `activeConns` and the WaitGroup count exactly the live handlers. The goroutine `Stop` leaves in `wg.Wait` when its timer wins exits once no tunnel is open and no upstream CONNECT reply is pending (`WaiterExits`): a dial started before `Stop` fails on the cancelled context, and neither a handler nor the accept loop keeps a WaitGroup count. A silent upstream proxy (`upstream_silent`) or a tunnel open after `Stop` holds the waiter. |
| `proxy_session` | `SessionInUseIntact` | violation: a handler forwarding with a registered session has it unregistered under it. Its identifier, the TLS cache-key isolator, is cleared while the request runs. The same property also covers the application then closing it, and `Stop`'s timeout closing the default session. |
| `keylog` | `TypeOK`, `NoLeakedHandle` | pass: no handle the package opened is ever lost unclosed. |
| `keylog_foreign` | `OnlyOwnClosed` | violation: an application's `io.Closer` writer is closed by a setter. This includes `SetKeyLogWriter(w)` with `w` already installed, which closes `w` and keeps it. |
| `headers` | `TypeOK` | pass. Any sequence of constructed and literal contexts on a Chrome, hard-refresh or XHR starting map: it fires every header-building step that the `headers_websocket` and `headers_site` runs rely on. |
| `headers_websocket` | `UIRIffNavigate` | violation: websocket leaves `Upgrade-Insecure-Requests` from the preset. |
| `headers_site` | `FetchSiteAgrees` | violation: `calculateFetchSite` against the origin and site a browser computes. It errs for an explicit default port (same-site for one origin), for `co.uk` sites, for IPv4 hosts that share their last two octets (same-site for different sites), and for IPv6 literals, whose bracketed host is cut at the port colon or compared whole. TLC reports the port case. |
| `upstream` | `TypeOK`, `ConnectAnswered` | pass. CONNECT and plain HTTP with every mix of per-request, header and configured upstream proxies (http, https, socks5, other scheme, invalid), proxy answers 200 and 407, reads of 1-2 bytes, and a proxy that may close. A CONNECT is answered or fails while the proxy answers. |
| `upstream_silent` | `ConnectAnswered` | violation: an upstream proxy that accepts the TCP connection and never answers leaves the handler in `http.ReadResponse` forever. No deadline is set, and the dial timeout covers only the dial. |
| `upstream_bypass` | `ProxyNotBypassed` | violation: a plain-HTTP request with a configured `tcpProxy` and no per-request proxy is forwarded direct. |

Each property of a passing run has a mutant in `PROJECT.json`: a plausible
bug in the mapped definition that TLC then reports. The findings the
violation runs show are listed in `PROJECT.json` ("findings").

## Bounds

- **SpeculativeConn.** The limit, the read size and the header lengths are
  scaled down together: a limit of 2, reads of at most 3, headers of 1 or 3
  bytes plus the terminator. This produces headers split across reads, a
  terminator sharing a read with one or two TLS bytes, leftovers larger
  than the caller's buffer, and headers over the limit both rejected and
  accepted. A 3-byte server flight makes a lost or reordered leftover
  visible to the refinement.
- **LocalProxy.** Three connections against a limit of two exercise the
  limit with a third client waiting. One session under one ID lets a
  registered lookup both succeed and fail.
- **HeaderCoherence.** Three https URLs on two sites, one with a subdomain,
  with a malformed and an empty referrer, give every branch of
  `calculateFetchSite`. The `headers_site` run adds a default and an
  explicit port, an http URL, two sites under `co.uk`, two IPv4 hosts and
  two IPv6 literals, written as colon-separated label sequences.
- **UpstreamDial.** Four proxy URLs (valid http, invalid http, socks5, and
  an unknown scheme) cover every branch of `dialTarget` and
  `createProxyClient`. A 2-byte proxy reply and reads of at most 2 bytes
  let the reply arrive whole or split across reads.
- **KeyLog.** Three handles are enough for env, file and replacement.

## Fairness

- **SpeculativeConn.** Weak fairness on every caller step and on the proxy
  and origin: goroutines are scheduled, and the network delivers what was
  sent. Failures are not fair.
- **UpstreamDial.** Weak fairness on the handler's steps and on the
  target. Weak fairness on the proxy's answer holds only under
  `ProxyResponsive`: the code sets no deadline, so an answer is not
  guaranteed. `upstream_silent` drops it.
- **LocalProxy.** Weak fairness on the accept loop and on the handler steps
  that end by a deadline or a timeout:
  - the 30 s read deadline;
  - `p.timeout` on dials and forwarded requests;
  - Stop's wait and its 10 s timer;
  - the goroutine around `wg.Wait`, which the Go scheduler runs once the
    count is zero.

  Weak fairness on `Dial` stands for `p.timeout` bounding the TCP dial.
  `ProxyReply`, the CONNECT reply from an upstream HTTP proxy, gets none:
  that read has no deadline (see `upstream_silent`). Client arrival, tunnel peers, the application and the caller of `Stop`
  get no fairness.
- **KeyLog.** No liveness is claimed.

## Not modelled, and why

- **Code outside `src/`.** The `Session` runtime (`DoStream`, `Close`), the
  dialers, the arbiter, the pool, the HTTP/2 and HTTP/3 transports, the
  cookie jar and the uTLS consumer of the key-log writer are described by the
  spec but have no source here. The spec also calls for a proxy read
  deadline around header parsing. `SpeculativeConn` sets none, so the
  deadline is the dialer's, which is not in `src/`.
- **Recursion in `readAndStripHTTPResponse`.** The spec says "iteratively
  (never recursively)", but the code recurses. The recursion depth is
  bounded by the 16 KiB check, so it behaves like the loop it is modelled
  as.
- **LocalProxy details.** Header filtering and response copying transform
  data without changing the proxy's control state. In `LocalProxy` the
  upstream choice is abstracted to the stage it leads to; `UpstreamDial`
  models it for one request. `extractTLSOnly` is never called, so the
  per-request TLS-only header has no effect.
- **Server-first targets.** With `ServerFirst = TRUE`, bytes the target
  sends before the client speaks arrive with the proxy's 200. They stay in
  the dropped `bufio.Reader` and never reach the client. TLS targets never
  send first, so the `upstream` run keeps it `FALSE` and no run checks it.
  The hazard is listed in `PROJECT.json`.
- **Two concurrent `Stop` calls** both pass the `running` check and close
  the default session twice. Whether that is harmful depends on
  `Session.Close`, which is not in `src/`.
- **Key-log writer in use.** A TLS connection takes `GetKeyLogWriter`'s
  writer once, so a later setter can close it under a handshake. The
  consumers are not in `src/`.
- **Header key spelling.** `GenerateNavigationHeaders` copies the preset's
  keys as spelled, `GenerateXHRHeaders` reads them in lower case, and
  `ApplyToHeaders` writes canonical keys. The preset tables are not in
  `src/`, so `HeaderCoherence` treats every key as canonical.
- **Per-address dial budget.** `dialFirstSuccessful`, which divides the
  deadline across addresses, is not in `src/`. The test file copies its loop
  (`TestPerAddressTimeoutPreventsStarvation`). In that copy the `break`
  under `ctx.Done()` leaves only the `select`, not the loop, so later
  addresses are still tried after the deadline. They get a budget of zero or
  less and fail at once.
- **Examples and `cmd/`.** They are single-threaded demonstration programs
  over the client API, with no state of their own.

## Plan for later sittings

1. `HeaderCoherence`: the Accept table keyed by (mode, dest).
2. SOCKS5 UDP header encode/decode round trip, from the spec and its tests,
   and the per-address dial budget. Each needs a run of its own.
3. `LocalProxy`: two concurrent `Stop` calls, and `UpstreamDial` composed
   into the handlers' `Dial` and `ProxyReply`.
