\* Readers and a creator of targeted Safes racing on the outreach cache:
\* a cached "not found" for an existing Safe always expires.
CONSTANTS
    s1 = s1
    s2 = s2
    g1 = g1
    g2 = g2
    c1 = c1
    NoSafe = NoSafe
    Safes <- MCSafes
    Readers <- MCReaders
    Creators <- MCCreators
SPECIFICATION Spec
PROPERTY StaleNotFoundExpires
