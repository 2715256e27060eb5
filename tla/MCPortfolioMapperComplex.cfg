\* Complex positions with assets: mapChainPortfolio throws for a supported chain.
CONSTANTS
    a1 = a1
    a2 = a2
    Undefined = Undefined
    ChainKeys <- MCChainKeys
    ChainIds <- MCChainIds
    Portfolios <- MCPortfolios
SPECIFICATION Spec
INVARIANT SupportedChainMapped
\* One request is mapped by one synchronous call, after which nothing is left to do.
CHECK_DEADLOCK FALSE
