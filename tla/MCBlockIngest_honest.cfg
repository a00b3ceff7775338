\* b1 arrives from two honest peers; one copy collides in the mempool and
\* is repaired while the other is connected: the recheck costs 34.
CONSTANTS
    g = g  b1 = b1  b1x = b1x  b2 = b2  pA = pA  pM = pM  pH = pH
    Blocks <- MCBlocks
    Genesis = g
    Height <- MCHeight
    Parent <- MCParent
    Valid = {g, b1, b1x, b2}
    Peers = {pA, pH}
    Honest = {pA, pH}
    Announce <- DupAnnounce
    Requests <- NoCalls
    MayShutdown = FALSE
SPECIFICATION Spec
INVARIANT HonestNeverPenalized
