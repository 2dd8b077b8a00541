\* Three clients against a limit of two; one registrable session under one ID.
CONSTANTS
    Conns = {c1, c2, c3}
    MaxConnections = 2
    SessionIDs = {A}
    Sessions = {S1}
    Default = Default
    NoSession = NoSession
    NoID = NoID
    Ports = {"443", "25"}
SPECIFICATION Spec
INVARIANTS TypeOK ConnAccounting
PROPERTIES WaiterExits
