\* The wallet built by createUserWithWallet against the wallets schema.
CONSTANTS
    c1 = c1
    c2 = c2
    c3 = c3
    a1 = a1
    a2 = a2
    Null = Null
    Calls <- MCCalls
    Addresses <- MCAddresses
SPECIFICATION Spec
INVARIANT WalletSatisfiesSchema
CHECK_DEADLOCK FALSE
