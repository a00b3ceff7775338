--------------------------- MODULE MCBlockIngest ---------------------------
(***************************************************************************)
(* Instances of BlockIngest for TLC.  Four blocks: the genesis g, b1 and  *)
(* its competitor b1x at height 1, and b2 at height 2 on b1.  Peers: pA   *)
(* and pH honest, pM malicious (any answer, or none).                     *)
(***************************************************************************)
EXTENDS BlockIngest, TLC

CONSTANTS g, b1, b1x, b2, pA, pM, pH

MCBlocks == {g, b1, b1x, b2}
MCHeight == (g :> 0) @@ (b1 :> 1) @@ (b1x :> 1) @@ (b2 :> 2)
MCParent == (g :> g) @@ (b1 :> g) @@ (b1x :> g) @@ (b2 :> b1)

Ann(b, p) == [blk |-> b, peer |-> p]

\* Safety: b2 may arrive before b1 (orphan), b1x is invalid and relayed by
\* pM, pH only ever helps, and the engine requests b2 from pA.
SafetyAnnounce == <<Ann(b1, pA), Ann(b2, pM), Ann(b1x, pM)>>
SafetyRequests == <<Ann(b2, pA)>>

\* Liveness: only height-1 blocks, from honest peers; b1 arrives twice.
LiveAnnounce == <<Ann(b1, pA), Ann(b1x, pH), Ann(b1, pH)>>

\* A malicious relayer of a valid block.
CrashAnnounce == <<Ann(b1, pM)>>

\* The same block from two honest peers.
DupAnnounce == <<Ann(b1, pA), Ann(b1, pH)>>

\* The child first, then its parent.
OrphanAnnounce == <<Ann(b2, pA), Ann(b1, pA)>>

\* The child, its parent, and the child again from another peer.
StaleOrphanAnnounce == <<Ann(b2, pA), Ann(b1, pA), Ann(b2, pH)>>

\* One requestBlock call and nothing announced.
RequestOnly == <<Ann(b1, pA)>>
NoCalls == <<>>
=============================================================================
