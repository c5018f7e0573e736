\* Start twice: bc.running is never set, so two loop goroutines run.
CONSTANTS
    b1 = b1  b2 = b2
    Callers <- MCCallers
    NoOwner = NoOwner
    Heights = {1, 2}
    MaxCalls = 4
SPECIFICATION Spec
CHECK_DEADLOCK FALSE
INVARIANT AtMostOneLoop
