\* The quota of spec section 3 (consumed <= capacity) under concurrent requests.
CONSTANTS
    k1 = k1
    k2 = k2
    r1 = r1
    r2 = r2
    r3 = r3
    Keys <- MCKeys
    Req <- MCReq
    Capacity = 2
SPECIFICATION Spec
SYMMETRY MCSymmetry
INVARIANT QuotaNeverExceeded
