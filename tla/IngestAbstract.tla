--------------------------- MODULE IngestAbstract ---------------------------
(***************************************************************************)
(* What the block-ingest coordinator promises the rest of the node, at    *)
(* the level of spec.md sections 4.4, 4.5 and 5, with decoding, repair,   *)
(* orphans, locks and scoring left out:                                    *)
(*   - a block is handed to consensus (NewBlock) only after it passed      *)
(*     CheckConnectBlock: it is valid and it extended the chain, so its   *)
(*     parent is connected and it sits one height above it;              *)
(*   - the chain grows only by a block that was handed to consensus and   *)
(*     that consensus finalized, appended on the tip.                     *)
(* Handing the same block over twice is a step that changes nothing here. *)
(***************************************************************************)
EXTENDS Sequences, SequencesExt

CONSTANTS
    Blocks, Genesis,
    Height,     \* Height[b]: the header height of b
    Parent,     \* Parent[b]: the header parent of b
    Valid,      \* blocks that pass the rules
    Verdicts    \* the consensus outcomes the engine may reach

VARIABLES
    chain,      \* the connected chain, from Genesis
    submitted,  \* the blocks handed to consensus
    verdict     \* the outcome consensus reaches for each block

vars == <<chain, submitted, verdict>>

Tip == Last(chain)

Init ==
    /\ chain = <<Genesis>>
    /\ submitted = {}
    /\ verdict \in Verdicts

\* A block that passed CheckConnectBlock goes to consensus.
Submit(b) ==
    /\ b \in Valid
    /\ Parent[b] \in ToSet(chain)
    /\ Height[b] = Height[Parent[b]] + 1
    /\ submitted' = submitted \cup {b}
    /\ UNCHANGED <<chain, verdict>>

\* A finalized block is connected on the tip.
Connect(b) ==
    /\ b \in submitted
    /\ verdict[b] = "fin"
    /\ Parent[b] = Tip
    /\ chain' = Append(chain, b)
    /\ UNCHANGED <<submitted, verdict>>

Next == \E b \in Blocks : Submit(b) \/ Connect(b)

Spec == Init /\ [][Next]_vars

\* Without shutdown, a finalized block handed to consensus whose parent is
\* the tip does not wait for ever.
FairSpec == Spec /\ \A b \in Blocks : WF_vars(Connect(b))
=============================================================================
