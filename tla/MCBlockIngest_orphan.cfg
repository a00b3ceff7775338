\* Scenario S5: b2 before b1.  The waiter of b1 reprocesses the orphan
\* while it holds orphanLock; the goroutine blocks, so deadlock is not
\* checked and the liveness property reports it.
CONSTANTS
    g = g  b1 = b1  b1x = b1x  b2 = b2  pA = pA  pM = pM  pH = pH
    Blocks <- MCBlocks
    Genesis = g
    Height <- MCHeight
    Parent <- MCParent
    Valid = {g, b1, b1x, b2}
    Peers = {pA, pH}
    Honest = {pA, pH}
    Announce <- OrphanAnnounce
    Requests <- NoCalls
    MayShutdown = FALSE
SPECIFICATION FairSpec
PROPERTY OrphanEventuallyConnected
CHECK_DEADLOCK FALSE
