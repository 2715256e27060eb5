\* Two verify requests, messages expiring at 1 s and 1.75 s, a clock in 250 ms steps up to 1.5 s.
CONSTANTS
    r1 = r1
    r2 = r2
    NoExpiry = NoExpiry
    Requests <- MCRequests
    Expirations <- MCExpirations
    Step = 250
    MaxTime = 1500
SPECIFICATION Spec
INVARIANT TokenNotBeyondMessage
\* Both requests settle and the clock reaches its bound: nothing is left to do.
CHECK_DEADLOCK FALSE
