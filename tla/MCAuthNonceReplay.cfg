\* Two overlapping verify requests presenting the same signed message.
CONSTANTS
    n1 = n1
    n2 = n2
    r1 = r1
    r2 = r2
    r3 = r3
    NoNonce = NoNonce
    Nonces <- MCNonces
    Req <- MCReq
SPECIFICATION Spec
SYMMETRY MCSymmetry
INVARIANT NonceSingleUse
CHECK_DEADLOCK FALSE
