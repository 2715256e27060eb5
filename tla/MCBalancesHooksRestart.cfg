\* Webhook events across a restart of the instance.
CONSTANTS
    s1 = s1
    g1 = g1
    g2 = g2
    Miss = Miss
    Safes <- MCSafes
    Readers <- MCReaders
    MaxVersion = 2
    MaxRestarts = 1
SPECIFICATION Spec
PROPERTY AckedEventProcessed
