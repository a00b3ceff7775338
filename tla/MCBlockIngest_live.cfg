\* Liveness of the pipeline without orphans: height-1 blocks from honest
\* peers, b1 twice, no shutdown.  Every goroutine returns, so deadlock is
\* checked.
CONSTANTS
    g = g  b1 = b1  b1x = b1x  b2 = b2  pA = pA  pM = pM  pH = pH
    Blocks <- MCBlocks
    Genesis = g
    Height <- MCHeight
    Parent <- MCParent
    Valid = {g, b1, b1x, b2}
    Peers = {pA, pH}
    Honest = {pA, pH}
    Announce <- LiveAnnounce
    Requests <- NoCalls
    MayShutdown = FALSE
SPECIFICATION FairSpec
PROPERTY FinalizedEventuallyConnected
PROPERTY InventoryEventuallyDrained
PROPERTY AbstractFairSpec
