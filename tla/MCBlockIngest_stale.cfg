\* Stale orphan verdict: b2 from pA, b1 from pA, b2 again from pH.  pA's
\* CheckConnectBlock says orphan before b1 connects; pH's copy of b2 then
\* passes, enters activeInventory and connects, and pA's goroutine stores
\* the stale orphan afterwards.  Only safety is checked; the waiter may
\* block on orphanLock, so deadlock is not checked.
CONSTANTS
    g = g  b1 = b1  b1x = b1x  b2 = b2  pA = pA  pM = pM  pH = pH
    Blocks <- MCBlocks
    Genesis = g
    Height <- MCHeight
    Parent <- MCParent
    Valid = {g, b1, b1x, b2}
    Peers = {pA, pH}
    Honest = {pA, pH}
    Announce <- StaleOrphanAnnounce
    Requests <- NoCalls
    MayShutdown = FALSE
SPECIFICATION Spec
INVARIANT OrphansNotConnected
CHECK_DEADLOCK FALSE
