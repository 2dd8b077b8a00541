\* HTTP/2: the read loop blocks in Read holding mu while the writer still
\* has to send its request through Write, which needs mu.
CONSTANTS
    Threads = {"writer", "reader"}
    Program <- ProgramH2
    NoOwner = NoOwner
    HeaderLens = {1}
    HeaderLimit = 2
    ReadChunk = 2
    BufSizes = {2}
    Statuses = {200}
    Malformed <- MCMalformed
    SHLen = 2
    RespLen = 1
SPECIFICATION Spec
PROPERTY Termination
CHECK_DEADLOCK FALSE
