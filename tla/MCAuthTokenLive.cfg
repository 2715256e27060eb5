\* A message that has not expired when verify starts gets a token that is already expired.
CONSTANTS
    r1 = r1
    r2 = r2
    NoExpiry = NoExpiry
    Requests <- MCRequests
    Expirations <- MCExpirations
    Step = 250
    MaxTime = 1500
SPECIFICATION Spec
INVARIANT TokenLiveAtIssue
\* Both requests settle and the clock reaches its bound: nothing is left to do.
CHECK_DEADLOCK FALSE
