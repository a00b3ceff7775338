\* Scenario S6: the engine requests b1 once.  requestBlock read-locks
\* inflightLock twice and then waits in Lock forever.
CONSTANTS
    g = g  b1 = b1  b1x = b1x  b2 = b2  pA = pA  pM = pM  pH = pH
    Blocks <- MCBlocks
    Genesis = g
    Height <- MCHeight
    Parent <- MCParent
    Valid = {g, b1, b1x, b2}
    Peers = {pA, pH}
    Honest = {pA, pH}
    Announce <- NoCalls
    Requests <- RequestOnly
    MayShutdown = FALSE
SPECIFICATION FairSpec
PROPERTY RequestBlockReturns
CHECK_DEADLOCK FALSE
