\* Balance reads, webhook events, timers and one restart: stale balances are always replaced.
CONSTANTS
    s1 = s1
    g1 = g1
    g2 = g2
    Miss = Miss
    Safes <- MCSafes
    Readers <- MCReaders
    MaxVersion = 2
    MaxRestarts = 1
SPECIFICATION Spec
PROPERTY StaleBalanceReplaced
\* Once every change is delivered and cached, the instance only serves cache hits
\* (no state change) until a key expires or a new change arrives.
CHECK_DEADLOCK FALSE
