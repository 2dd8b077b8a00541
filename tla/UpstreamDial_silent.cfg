\* An upstream proxy that accepts the TCP connection and never answers.
CONSTANTS
    ProxyURLs <- MCProxyURLs
    NoProxy = NoProxy
    Statuses = {200, 407}
    ReadChunk = 2
    TargetLen = 2
    ServerFirst = FALSE
    ProxyResponsive = FALSE
SPECIFICATION Spec
PROPERTY ConnectAnswered
\* A handled request, answered or tunnelled to its end, has nothing left to do.
CHECK_DEADLOCK FALSE
