\* Every Authorization header of up to four characters over "B", "x" and space.
CONSTANTS
    Undefined = Undefined
    Headers <- MCHeaders
    TokenTypes <- MCTokenTypes
SPECIFICATION Spec
INVARIANT TokenFromScheme
\* A request is read once: getAccessToken has returned.
CHECK_DEADLOCK FALSE
