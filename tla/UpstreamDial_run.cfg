\* Every request kind, override and configured proxy; a proxy answering 200
\* or 407 in reads of up to 2 bytes; a client-first (TLS) target.
CONSTANTS
    ProxyURLs <- MCProxyURLs
    NoProxy = NoProxy
    Statuses = {200, 407}
    ReadChunk = 2
    TargetLen = 2
    ServerFirst = FALSE
    ProxyResponsive = TRUE
SPECIFICATION Spec
INVARIANT TypeOK
PROPERTIES ConnectAnswered
\* A handled request, answered or tunnelled to its end, has nothing left to do.
CHECK_DEADLOCK FALSE
