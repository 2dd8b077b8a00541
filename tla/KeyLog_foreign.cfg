\* An application writer that is an io.Closer, replaced through a setter.
CONSTANTS
    Handles = {h1}
    CallerClosers = {cw1}
    CallerPlain = {buf}
    Nil = Nil
SPECIFICATION Spec
INVARIANT OnlyOwnClosed
