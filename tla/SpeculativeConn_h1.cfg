\* One goroutine: proxy answers 200, 407 or garbage, with a short header or
\* one longer than the limit; every read size and chunking.
CONSTANTS
    Threads = {"writer", "waiter"}
    Program <- ProgramH1
    NoOwner = NoOwner
    HeaderLens = {1, 3, 5}
    HeaderLimit = 2
    ReadChunk = 3
    BufSizes = {1, 2}
    Statuses = {200, 407, 0}
    Malformed <- MCMalformed
    SHLen = 3
    RespLen = 1
SPECIFICATION Spec
INVARIANT TypeOK
INVARIANT HeaderBoundedByOneRead
PROPERTIES TunnelRefinement Termination
\* A connection that has finished its exchange or failed has nothing left to do.
CHECK_DEADLOCK FALSE
