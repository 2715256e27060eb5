\* A getBalances fetch racing the webhook's invalidation.
CONSTANTS
    s1 = s1
    g1 = g1
    g2 = g2
    Miss = Miss
    Safes <- MCSafes
    Readers <- MCReaders
    MaxVersion = 2
    MaxRestarts = 0
SPECIFICATION Spec
INVARIANT NoStaleAfterHook
