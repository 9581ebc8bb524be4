CONSTANTS
    None = None
    Payloads = {0, 2, Streamed}  \* nothing, more than a pipe holds, a reader
    Streamed = Streamed
    Caps = {None, 0, 1}  \* all of the output, none of it, up to one unit
    PipeCap = 1
    Many = 2
    Timeout = 1
    Failing = {"stdout"}
    Forks = TRUE
SPECIFICATION Spec
INVARIANTS
    TypeOK
    NoChildOutlivesItsInvocation
    OutcomesAreComplete
    ErrorsHaveTheirCause
PROPERTY OnlyKnownWaysToBlock
CHECK_DEADLOCK FALSE
