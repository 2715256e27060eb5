\* Concurrent relay requests sharing rate-limit counters: the overshoot
\* past the limit stays below the number of concurrent requests.
CONSTANTS
    k1 = k1
    k2 = k2
    r1 = r1
    r2 = r2
    r3 = r3
    Keys <- MCKeys
    Req <- MCReq
    Capacity = 2
SPECIFICATION Spec
SYMMETRY MCSymmetry
INVARIANT TypeOK
INVARIANT OvershootBound
