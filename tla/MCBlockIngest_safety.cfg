\* Safety of the ingest pipeline with orphans, repair, invalid blocks,
\* requestBlock and shutdown.  Goroutines really block for good here
\* (orphan reprocessing, requestBlock), so deadlock is not checked.
CONSTANTS
    g = g  b1 = b1  b1x = b1x  b2 = b2  pA = pA  pM = pM  pH = pH
    Blocks <- MCBlocks
    Genesis = g
    Height <- MCHeight
    Parent <- MCParent
    Valid = {g, b1, b2}
    Peers = {pA, pM, pH}
    Honest = {pA, pH}
    Announce <- SafetyAnnounce
    Requests <- SafetyRequests
    MayShutdown = TRUE
SPECIFICATION Spec
INVARIANT TypeOK
INVARIANT HelpersNeverPenalized
PROPERTY AbstractSpec
CHECK_DEADLOCK FALSE
