\* Read-your-writes of createTargetedSafes against a concurrent getTargetedSafe.
CONSTANTS
    s1 = s1
    s2 = s2
    g1 = g1
    g2 = g2
    c1 = c1
    NoSafe = NoSafe
    Safes <- MCSafes
    Readers <- MCReaders
    Creators <- MCCreators
SPECIFICATION Spec
INVARIANT CreatedSafeNotHidden
