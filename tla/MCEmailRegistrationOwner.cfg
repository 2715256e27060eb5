\* An owner of the Safe registering an email through saveEmail.
CONSTANTS
    sa = sa
    sb = sb
    a1 = a1
    a2 = a2
    a3 = a3
    c1 = c1
    c2 = c2
    NoSafe = NoSafe
    Safes <- MCSafes
    Addresses <- MCAddresses
    Owners <- MCOwners
    Calls <- MCCalls
SPECIFICATION Spec
INVARIANT OwnerNotRefused
CHECK_DEADLOCK FALSE
