\* Requests for supported and unsupported chains over small portfolios: the page is the chain's part.
CONSTANTS
    a1 = a1
    a2 = a2
    Undefined = Undefined
    ChainKeys <- MCChainKeys
    ChainIds <- MCChainIds
    Portfolios <- MCPortfolios
SPECIFICATION Spec
INVARIANT PageMatchesChain
\* One request is mapped by one synchronous call, after which nothing is left to do.
CHECK_DEADLOCK FALSE
