\* Stop returns before the loop goroutine it was to wait for has even run wg.Add(1).
CONSTANTS
    b1 = b1  b2 = b2
    Callers <- MCCallers
    NoOwner = NoOwner
    Heights = {1, 2}
    MaxCalls = 4
SPECIFICATION Spec
CHECK_DEADLOCK FALSE
PROPERTY StopWaitsForLoops
