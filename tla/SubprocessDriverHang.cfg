CONSTANTS
    None = None
    Payloads = {0, 2}  \* nothing, and more than a pipe holds
    Streamed = Streamed
    Caps = {None, 0, 1}  \* all of the output, none of it, up to one unit
    PipeCap = 1
    Many = 2
    Timeout = 1
    Failing = {}
    Forks = FALSE
SPECIFICATION Spec
PROPERTY TimeoutsEndInvocations
CHECK_DEADLOCK FALSE
