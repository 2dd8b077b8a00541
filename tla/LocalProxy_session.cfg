\* One client, one registrable session under one ID, the default session, and
\* Stop, registry edits and the application closing sessions at any time.
CONSTANTS
    Conns = {c1}
    MaxConnections = 1
    SessionIDs = {A}
    Sessions = {S1}
    Default = Default
    NoSession = NoSession
    NoID = NoID
    Ports = {"443", "25"}
SPECIFICATION Spec
INVARIANT SessionInUseIntact
