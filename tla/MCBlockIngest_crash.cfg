\* A malicious relayer sends a valid block that collides in our mempool and
\* refuses the txid list: the repair fails and the node panics.
CONSTANTS
    g = g  b1 = b1  b1x = b1x  b2 = b2  pA = pA  pM = pM  pH = pH
    Blocks <- MCBlocks
    Genesis = g
    Height <- MCHeight
    Parent <- MCParent
    Valid = {g, b1, b1x, b2}
    Peers = {pA, pM}
    Honest = {pA}
    Announce <- CrashAnnounce
    Requests <- NoCalls
    MayShutdown = FALSE
SPECIFICATION Spec
INVARIANT NoCrash
