\* Concurrent SiWe verify requests against the nonce cache: no replay of a
\* nonce by a request that starts after another verify of it has finished.
CONSTANTS
    n1 = n1
    n2 = n2
    r1 = r1
    r2 = r2
    r3 = r3
    NoNonce = NoNonce
    Nonces <- MCNonces
    Req <- MCReq
SPECIFICATION Spec
SYMMETRY MCSymmetry
INVARIANT NoSequentialReplay
PROPERTY ImplementsNonceStore
\* Every request is one-shot and there are finitely many nonces: once all
\* are used the server is idle, which is not a deadlock of the code.
CHECK_DEADLOCK FALSE
