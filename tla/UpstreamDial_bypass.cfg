\* Which requests reach their target without the proxy that applies to them.
CONSTANTS
    ProxyURLs <- MCProxyURLs
    NoProxy = NoProxy
    Statuses = {200, 407}
    ReadChunk = 2
    TargetLen = 2
    ServerFirst = FALSE
    ProxyResponsive = TRUE
SPECIFICATION Spec
INVARIANT ProxyNotBypassed
\* A handled request, answered or tunnelled to its end, has nothing left to do.
CHECK_DEADLOCK FALSE
