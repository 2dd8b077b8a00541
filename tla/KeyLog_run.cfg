\* Three file handles, two closable application writers and a buffer.
CONSTANTS
    Handles = {h1, h2, h3}
    CallerClosers = {cw1, cw2}
    CallerPlain = {buf}
    Nil = Nil
SPECIFICATION Spec
INVARIANTS TypeOK NoLeakedHandle
