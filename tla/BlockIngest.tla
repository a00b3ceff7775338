---------------------------- MODULE BlockIngest ----------------------------
(***************************************************************************)
(* The block-ingestion pipeline of the ilxd full node (Server in          *)
(* src/unnamed/part_004, package main): handleIncomingBlock,              *)
(* decodeXthinner, processBlock with its txroot repair (fetchBlockTxids), *)
(* the consensus waiter goroutine, requestBlock and Close.                *)
(*                                                                         *)
(* Every goroutine is a process with a program counter pc[p] and local    *)
(* variables lv[p]:                                                        *)
(*   - Handlers: one handleIncomingBlock call per entry of Announce       *)
(*     (the gossip validator runs them concurrently);                     *)
(*   - Requesters: one requestBlock call per entry of Requests (invoked   *)
(*     by the consensus engine);                                           *)
(*   - Waiters: the goroutine processBlock spawns after NewBlock; a       *)
(*     waiter id is idle until a NewBlock call takes it.                  *)
(* A lock scope that covers a single map operation is one atomic step,    *)
(* enabled only when the lock is free.  orphanLock is a variable because  *)
(* the waiter holds it across a nested processBlock; inflightLock keeps   *)
(* its reader count because requestBlock read-locks it twice.             *)
(*                                                                         *)
(* The chain view (CheckConnectBlock, ConnectBlock), the chain-service    *)
(* RPCs and the consensus engine are not under src/: they are modelled    *)
(* from the contracts in spec.md sections 4.2, 4.5 and 4.6.               *)
(***************************************************************************)
EXTENDS Naturals, Sequences, SequencesExt

CONSTANTS
    Blocks,       \* block ids
    Genesis,      \* the block the chain starts with
    Height,       \* Height[b]: the header height of b
    Parent,       \* Parent[b]: the header parent of b
    Valid,        \* blocks whose header and transactions pass the rules
    Peers,        \* the connected peers, network.Host().Network().Peers()
    Honest,       \* peers that answer every request for a valid block
    Announce,     \* sequence of [blk, peer]: xthinner blocks received
    Requests,     \* sequence of [blk, peer]: requestBlock calls
    MayShutdown   \* whether Close may be called during the run

ASSUME /\ Genesis \in Blocks /\ Valid \subseteq Blocks
       /\ Height \in [Blocks -> Nat] /\ Parent \in [Blocks -> Blocks]
       /\ Honest \subseteq Peers
       /\ Announce \in Seq([blk : Blocks, peer : Peers])
       /\ Requests \in Seq([blk : Blocks, peer : Peers])
       /\ MayShutdown \in BOOLEAN

\* Process ids.  Each handler spawns at most one waiter (a nested
\* processBlock inside a waiter cannot reach NewBlock, see OrphanDelete),
\* so MaxWaiters waiter ids are enough.
NA == Len(Announce)
NR == Len(Requests)
MaxWaiters == NA
Handlers == 1..NA
Requesters == NA + 1 .. NA + NR
Waiters == NA + NR + 1 .. NA + NR + MaxWaiters
Procs == 1 .. NA + NR + MaxWaiters
NoProc == 0

\* Ban-score deltas used by server.go.
RepairFailPenalty == 34
InvalidBlockPenalty == 101
RaceTransientPenalty == 10

VARIABLES
    chain,            \* the connected chain, a sequence of blocks
    orphanBlocks,     \* s.orphanBlocks: block -> [peer, body]
    activeInventory,  \* s.activeInventory: the set of its keys
    inflightRequests, \* s.inflightRequests: the set of its keys
    orphanHolder,     \* the process holding s.orphanLock, or NoProc
    inflightReaders,  \* read locks held on s.inflightLock
    banscore,         \* behavioral ban score added per peer
    transient,        \* transient ban score added per peer
    pc, lv,           \* program counter and locals of every goroutine
    nWaiters,         \* waiter ids taken so far
    newBlockCalls,    \* engine.NewBlock calls per block
    connectCalls,     \* blockchain.ConnectBlock calls per block
    verdict,          \* the consensus outcome each block will get
    cancelled,        \* s.ctx is done (Close was called)
    crashed           \* the node process panicked

vars == <<chain, orphanBlocks, activeInventory, inflightRequests,
          orphanHolder, inflightReaders, banscore, transient, pc, lv,
          nWaiters, newBlockCalls, connectCalls, verdict, cancelled, crashed>>

Bodies == {"ok", "bad"}  \* "bad": the local copy's txroot does not match
Locals == [blk : Blocks, body : Bodies, peer : Peers, recheck : BOOLEAN,
           ret : {"done", "w_unlock"}, untried : SUBSET Peers,
           collided : BOOLEAN]

Tip == Last(chain)
Connected == ToSet(chain)
Stopped == cancelled \/ crashed
RelayingPeers == {Announce[i].peer : i \in 1..NA} \cup {Requests[i].peer : i \in 1..NR}

\* The consensus engine's decisions (spec 4.5): each block gets one
\* outcome, at most one block per height is finalized, and an invalid
\* block (which never reaches NewBlock) is never finalized.
Verdicts == {v \in [Blocks -> {"fin", "rej"}] :
               /\ v[Genesis] = "fin"
               /\ \A b \in Blocks \ Valid : v[b] = "rej"
               /\ \A b, c \in Blocks :
                    (b # c /\ Height[b] = Height[c] /\ v[b] = "fin") => v[c] = "rej"}

(***************************************************************************)
(* Collaborators modelled from spec.md.                                   *)
(***************************************************************************)
\* CheckConnectBlock (spec 4.6): OrphanBlockError above tip+1,
\* ErrDoesNotConnect when not extending the tip, a rule error for an
\* invalid block, ErrInvalidTxRoot when the local transactions do not hash
\* to the header's txroot.
CheckConnectBlock(b, body) ==
    CASE Height[b] > Height[Tip] + 1         -> "orphan"
      [] Height[b] # Height[Tip] + 1
         \/ Parent[b] # Tip                  -> "doesNotConnect"
      [] b \notin Valid                      -> "ruleInvalid"
      [] body = "bad"                        -> "invalidTxRoot"
      [] OTHER                               -> "ok"

\* What a chain-service RPC (GetBlockTxs, GetBlockTxids) to peer p about
\* block b can return: the right data, wrong data, or an error.  Honest
\* peers serve valid blocks and answer NotFound for invalid ones; after
\* Close every RPC fails with the cancelled context.
Outcomes(p, b) ==
    IF cancelled THEN {"fail"}
    ELSE IF p \in Honest THEN (IF b \in Valid THEN {"ok"} ELSE {"fail"})
    ELSE {"ok", "bad", "fail"}

\* Mutant: ConnectBlock that accepts a block only one height too far.
ConnectBlockOffByOne(b) ==
    IF Parent[b] = Tip /\ Height[b] = Height[Tip] + 2
    THEN chain' = Append(chain, b) ELSE UNCHANGED chain

\* ConnectBlock (spec 4.6) applies a block that extends the tip and
\* returns an error (only logged by the waiter) for any other block.
ConnectBlock(b) ==
    IF Parent[b] = Tip THEN chain' = Append(chain, b) ELSE UNCHANGED chain

(***************************************************************************)
(* Helpers of server.go.                                                  *)
(***************************************************************************)
\* network.IncreaseBanscore(peer, persistent, transient)
IncreaseBanscore(p, persistent, trans) ==
    /\ banscore' = [banscore EXCEPT ![p] = @ + persistent]
    /\ transient' = [transient EXCEPT ![p] = @ + trans]

\* Return from processBlock to its caller: the end of the handler, or the
\* waiter's orphan loop.
Return(p) == pc' = [pc EXCEPT ![p] = lv[p].ret]

\* The body after filling the missing slots with what a peer sent.
Filled(p, o) == IF o = "ok" THEN lv[p].body ELSE "bad"

\* fetchBlock, the chain service's BlockFetcher: activeInventory first,
\* then the connected chain.
FetchBlock(b) == b \in activeInventory \/ b \in Connected

Scores == <<banscore, transient>>
Maps == <<orphanBlocks, activeInventory, inflightRequests>>
Locks == <<orphanHolder, inflightReaders>>
Calls == <<nWaiters, newBlockCalls, connectCalls>>
Env == <<chain, verdict, cancelled, crashed>>

\* No goroutine is waiting in inflightLock.Lock(): Go's RWMutex blocks new
\* readers while a writer waits.
ReadLockFree == \A q \in Procs : pc[q] # "rq_lock"

Init ==
    /\ chain = <<Genesis>>
    /\ orphanBlocks = <<>>
    /\ activeInventory = {}
    /\ inflightRequests = {}
    /\ orphanHolder = NoProc
    /\ inflightReaders = 0
    /\ banscore = [p \in Peers |-> 0]
    /\ transient = [p \in Peers |-> 0]
    /\ pc = [p \in Procs |-> CASE p \in Handlers   -> "dx_decode"
                               [] p \in Requesters -> "rq_rlock1"
                               [] OTHER            -> "idle"]
    /\ lv = [p \in Procs |->
               LET call == CASE p \in Handlers   -> Announce[p]
                             [] p \in Requesters -> Requests[p - NA]
                             [] OTHER -> [blk |-> Genesis, peer |-> CHOOSE q \in Peers : TRUE]
               IN [blk |-> call.blk, body |-> "ok", peer |-> call.peer,
                   recheck |-> FALSE, ret |-> "done", untried |-> {},
                   collided |-> FALSE]]
    /\ nWaiters = 0
    /\ newBlockCalls = [b \in Blocks |-> 0]
    /\ connectCalls = [b \in Blocks |-> 0]
    /\ verdict \in Verdicts
    /\ cancelled = FALSE
    /\ crashed = FALSE

(***************************************************************************)
(* handleIncomingBlock and decodeXthinner.                                *)
(***************************************************************************)
\* mempool.DecodeXthinner: a best-effort block, possibly with missing
\* slots, possibly with a colliding mempool transaction in some slot.
Decode(p) ==
    /\ pc[p] = "dx_decode"
    /\ \E missing, collided \in BOOLEAN :
          /\ lv' = [lv EXCEPT ![p].collided = collided,
                              ![p].body = IF collided THEN "bad" ELSE "ok"]
          /\ pc' = [pc EXCEPT ![p] = IF missing THEN "dx_relayer" ELSE "pb_check"]
    /\ UNCHANGED <<Scores, Maps, Locks, Calls, Env>>

\* GetBlockTxs(relayingPeer, missing): on success the slots are filled
\* and the block goes to processBlock; on error the relayer gets +34 and
\* every connected peer is tried in turn.
DecodeFetchRelayer(p) ==
    /\ pc[p] = "dx_relayer"
    /\ \E o \in Outcomes(lv[p].peer, lv[p].blk) :
          \/ /\ o # "fail"
             /\ lv' = [lv EXCEPT ![p].body = Filled(p, o)]
             /\ pc' = [pc EXCEPT ![p] = "pb_check"]
             /\ UNCHANGED <<banscore, transient>>
          \/ /\ o = "fail"
             /\ IncreaseBanscore(lv[p].peer, RepairFailPenalty, 0)
             /\ lv' = [lv EXCEPT ![p].untried = Peers]
             /\ pc' = [pc EXCEPT ![p] = "dx_peers"]
    /\ UNCHANGED <<Maps, Locks, Calls, Env>>

\* Mutant: the helper that fails to answer is penalized.
DecodeFetchPeerBlamesHelper(p) ==
    /\ pc[p] = "dx_peers"
    /\ \E pid \in lv[p].untried : \E o \in Outcomes(pid, lv[p].blk) :
          \/ /\ o # "fail"
             /\ lv' = [lv EXCEPT ![p].body = Filled(p, o)]
             /\ pc' = [pc EXCEPT ![p] = "pb_check"]
             /\ UNCHANGED <<banscore, transient>>
          \/ /\ o = "fail"
             /\ lv' = [lv EXCEPT ![p].untried = @ \ {pid}]
             /\ IncreaseBanscore(pid, RepairFailPenalty, 0)
             /\ UNCHANGED pc
    /\ UNCHANGED <<Maps, Locks, Calls, Env>>

\* One iteration of the loop over Peers(): the first peer that answers
\* fills the slots; a peer that fails is not penalized.
DecodeFetchPeer(p) ==
    /\ pc[p] = "dx_peers"
    /\ \E pid \in lv[p].untried : \E o \in Outcomes(pid, lv[p].blk) :
          \/ /\ o # "fail"
             /\ lv' = [lv EXCEPT ![p].body = Filled(p, o)]
             /\ pc' = [pc EXCEPT ![p] = "pb_check"]
          \/ /\ o = "fail"
             /\ lv' = [lv EXCEPT ![p].untried = @ \ {pid}]
             /\ UNCHANGED pc
    /\ UNCHANGED <<Scores, Maps, Locks, Calls, Env>>

\* No peer answered: the block goes on with its slots empty.
DecodePeersExhausted(p) ==
    /\ pc[p] = "dx_peers"
    /\ lv[p].untried = {}
    /\ lv' = [lv EXCEPT ![p].body = "bad"]
    /\ pc' = [pc EXCEPT ![p] = "pb_check"]
    /\ UNCHANGED <<Scores, Maps, Locks, Calls, Env>>

(***************************************************************************)
(* processBlock(blk, relayingPeer, recheck).                              *)
(***************************************************************************)
\* CheckConnectBlock and the switch on its error.  Any rule error on a
\* recheck costs the relayer 34; otherwise an invalid txroot goes to the
\* repair, a block that does not connect costs 10 transient, and any other
\* rule error 101.
CheckConnect(p) ==
    /\ pc[p] = "pb_check"
    /\ LET r == CheckConnectBlock(lv[p].blk, lv[p].body)
           peer == lv[p].peer
       IN \/ /\ r = "orphan"
             /\ pc' = [pc EXCEPT ![p] = "pb_orphan"]
             /\ UNCHANGED Scores
          \/ /\ r = "ok"
             /\ pc' = [pc EXCEPT ![p] = "pb_inv"]
             /\ UNCHANGED Scores
          \/ /\ r \notin {"orphan", "ok"}
             /\ lv[p].recheck
             /\ IncreaseBanscore(peer, RepairFailPenalty, 0)
             /\ Return(p)
          \/ /\ r = "invalidTxRoot"
             /\ ~lv[p].recheck
             /\ pc' = [pc EXCEPT ![p] = "pb_txids"]
             /\ UNCHANGED Scores
          \/ /\ r = "doesNotConnect"
             /\ ~lv[p].recheck
             /\ IncreaseBanscore(peer, 0, RaceTransientPenalty)
             /\ Return(p)
          \/ /\ r = "ruleInvalid"
             /\ ~lv[p].recheck
             /\ IncreaseBanscore(peer, InvalidBlockPenalty, 0)
             /\ Return(p)
    /\ UNCHANGED <<lv, Maps, Locks, Calls, Env>>

\* Mutant of StoreOrphan: the orphan map keyed by the relaying peer's id
\* instead of the block's.
StoreOrphanWrongKey(p) ==
    /\ pc[p] = "pb_orphan"
    /\ orphanHolder = NoProc
    /\ orphanBlocks' = (lv[p].peer :> [peer |-> lv[p].peer, body |-> lv[p].body])
                         @@ orphanBlocks
    /\ Return(p)
    /\ UNCHANGED <<lv, Scores, activeInventory, inflightRequests, Locks, Calls, Env>>

\* Mutant of StoreOrphan: no return after storing the orphan, so the
\* block falls through to the activeInventory insert and NewBlock.
StoreOrphanNoReturn(p) ==
    /\ pc[p] = "pb_orphan"
    /\ orphanHolder = NoProc
    /\ orphanBlocks' = (lv[p].blk :> [peer |-> lv[p].peer, body |-> lv[p].body])
                         @@ orphanBlocks
    /\ pc' = [pc EXCEPT ![p] = "pb_inv"]
    /\ UNCHANGED <<lv, Scores, activeInventory, inflightRequests, Locks, Calls, Env>>

\* OrphanBlockError: store the block under orphanLock and return.
StoreOrphan(p) ==
    /\ pc[p] = "pb_orphan"
    /\ orphanHolder = NoProc
    /\ orphanBlocks' = (lv[p].blk :> [peer |-> lv[p].peer, body |-> lv[p].body])
                         @@ orphanBlocks
    /\ Return(p)
    /\ UNCHANGED <<lv, Scores, activeInventory, inflightRequests, Locks, Calls, Env>>

\* ErrInvalidTxRoot: fetchBlockTxids from the relayer (GetBlockTxids, then
\* GetBlockTxs for the slots whose id differs).  Success rechecks the
\* patched block.  On error the relayer gets 34 and the loop over Peers()
\* calls fetchBlockTxids(nil, pid): the error return shadowed blk with nil,
\* and blk.ID() dereferences it, so the node panics (Peers() holds at least
\* the relayer).
FetchBlockTxids(p) ==
    /\ pc[p] = "pb_txids"
    /\ \E o \in Outcomes(lv[p].peer, lv[p].blk) :
          \/ /\ o # "fail"
             /\ lv' = [lv EXCEPT ![p].body = IF o = "ok" THEN "ok" ELSE "bad",
                                 ![p].recheck = TRUE]
             /\ pc' = [pc EXCEPT ![p] = "pb_check"]
             /\ UNCHANGED <<Scores, crashed>>
          \/ /\ o = "fail"
             /\ IncreaseBanscore(lv[p].peer, RepairFailPenalty, 0)
             /\ crashed' = TRUE
             /\ UNCHANGED <<pc, lv>>
    /\ UNCHANGED <<Maps, Locks, Calls, chain, verdict, cancelled>>

\* activeInventory[blk.ID()] = blk under inventoryLock.
InventoryAdd(p) ==
    /\ pc[p] = "pb_inv"
    /\ activeInventory' = activeInventory \cup {lv[p].blk}
    /\ pc' = [pc EXCEPT ![p] = "pb_orphan_del"]
    /\ UNCHANGED <<lv, Scores, orphanBlocks, inflightRequests, Locks, Calls, Env>>

\* delete(orphanBlocks, blk.ID()) under orphanLock.
OrphanDelete(p) ==
    /\ pc[p] = "pb_orphan_del"
    /\ orphanHolder = NoProc
    /\ orphanBlocks' = Restrict(orphanBlocks, DOMAIN orphanBlocks \ {lv[p].blk})
    /\ pc' = [pc EXCEPT ![p] = "pb_newblock"]
    /\ UNCHANGED <<lv, Scores, activeInventory, inflightRequests, Locks, Calls, Env>>

\* Mutant of NewBlock: the block is handed to the engine but no waiter
\* goroutine is started for its callback.
NewBlockNoWaiter(p) ==
    /\ pc[p] = "pb_newblock"
    /\ nWaiters < MaxWaiters
    /\ pc' = [pc EXCEPT ![p] = lv[p].ret]
    /\ UNCHANGED lv
    /\ nWaiters' = nWaiters + 1
    /\ newBlockCalls' = [newBlockCalls EXCEPT ![lv[p].blk] = @ + 1]
    /\ UNCHANGED <<Scores, Maps, Locks, connectCalls, Env>>

\* engine.NewBlock(blk.ID(), true, callback) and `go func` for the waiter.
NewBlock(p) ==
    /\ pc[p] = "pb_newblock"
    /\ nWaiters < MaxWaiters
    /\ LET w == NA + NR + nWaiters + 1
       IN /\ pc' = [pc EXCEPT ![p] = lv[p].ret, ![w] = "w_wait"]
          /\ lv' = [lv EXCEPT ![w].blk = lv[p].blk]
    /\ nWaiters' = nWaiters + 1
    /\ newBlockCalls' = [newBlockCalls EXCEPT ![lv[p].blk] = @ + 1]
    /\ UNCHANGED <<Scores, Maps, Locks, connectCalls, Env>>

(***************************************************************************)
(* The waiter goroutine of processBlock.                                  *)
(***************************************************************************)
\* callback yields StatusFinalized: ConnectBlock, whose error is only logged.
Finalized(w) ==
    /\ pc[w] = "w_wait"
    /\ verdict[lv[w].blk] = "fin"
    /\ ConnectBlock(lv[w].blk)
    /\ connectCalls' = [connectCalls EXCEPT ![lv[w].blk] = @ + 1]
    /\ pc' = [pc EXCEPT ![w] = "w_delinv"]
    /\ UNCHANGED <<lv, Scores, Maps, Locks, nWaiters, newBlockCalls,
                   verdict, cancelled, crashed>>

\* Mutant: on StatusRejected the waiter skips the inventory delete.
RejectedKeepsInventory(w) ==
    /\ pc[w] = "w_wait"
    /\ verdict[lv[w].blk] = "rej"
    /\ pc' = [pc EXCEPT ![w] = "w_orphans"]
    /\ UNCHANGED <<lv, Scores, Maps, Locks, Calls, Env>>

\* callback yields StatusRejected: only logged.
Rejected(w) ==
    /\ pc[w] = "w_wait"
    /\ verdict[lv[w].blk] = "rej"
    /\ pc' = [pc EXCEPT ![w] = "w_delinv"]
    /\ UNCHANGED <<lv, Scores, Maps, Locks, Calls, Env>>

\* <-s.ctx.Done(): return without touching activeInventory.
WaiterCancelled(w) ==
    /\ pc[w] = "w_wait"
    /\ cancelled
    /\ pc' = [pc EXCEPT ![w] = "done"]
    /\ UNCHANGED <<lv, Scores, Maps, Locks, Calls, Env>>

\* delete(activeInventory, blk.ID()) under inventoryLock.
ReleaseInventory(w) ==
    /\ pc[w] = "w_delinv"
    /\ activeInventory' = activeInventory \ {lv[w].blk}
    /\ pc' = [pc EXCEPT ![w] = "w_orphans"]
    /\ UNCHANGED <<lv, Scores, orphanBlocks, inflightRequests, Locks, Calls, Env>>

\* Orphans one height above the decided block.
Successors(w) == {o \in DOMAIN orphanBlocks : Height[o] = Height[lv[w].blk] + 1}

\* orphanLock.Lock() and the range over orphanBlocks finds no successor.
OrphanScanNone(w) ==
    /\ pc[w] = "w_orphans"
    /\ orphanHolder = NoProc
    /\ Successors(w) = {}
    /\ orphanHolder' = w
    /\ pc' = [pc EXCEPT ![w] = "w_unlock"]
    /\ UNCHANGED <<lv, Scores, Maps, inflightReaders, Calls, Env>>

\* orphanLock.Lock(), then the first successor met in map order is passed
\* to processBlock(orphan.blk, orphan.relayingPeer, false), still holding
\* orphanLock; processBlock returns to the Unlock.
ReprocessOrphan(w) ==
    /\ pc[w] = "w_orphans"
    /\ orphanHolder = NoProc
    /\ \E o \in Successors(w) :
          lv' = [lv EXCEPT ![w] = [blk |-> o, body |-> orphanBlocks[o].body,
                                   peer |-> orphanBlocks[o].peer,
                                   recheck |-> FALSE, ret |-> "w_unlock",
                                   untried |-> {}, collided |-> FALSE]]
    /\ orphanHolder' = w
    /\ pc' = [pc EXCEPT ![w] = "pb_check"]
    /\ UNCHANGED <<Scores, Maps, inflightReaders, Calls, Env>>

\* orphanLock.Unlock() and the goroutine ends.
UnlockOrphans(w) ==
    /\ pc[w] = "w_unlock"
    /\ orphanHolder' = NoProc
    /\ pc' = [pc EXCEPT ![w] = "done"]
    /\ UNCHANGED <<lv, Scores, Maps, inflightReaders, Calls, Env>>

(***************************************************************************)
(* requestBlock(blockID, remotePeer).                                     *)
(***************************************************************************)
\* inflightLock.RLock()
RequestRLock(r) ==
    /\ pc[r] = "rq_rlock1"
    /\ ReadLockFree
    /\ inflightReaders' = inflightReaders + 1
    /\ pc' = [pc EXCEPT ![r] = "rq_check"]
    /\ UNCHANGED <<lv, Scores, Maps, orphanHolder, Calls, Env>>

\* A block already in flight: RUnlock and return.  Otherwise the code
\* calls inflightLock.RLock() a second time where RUnlock was meant.
RequestCheck(r) ==
    /\ pc[r] = "rq_check"
    /\ IF lv[r].blk \in inflightRequests
       THEN /\ inflightReaders' = inflightReaders - 1
            /\ pc' = [pc EXCEPT ![r] = "done"]
       ELSE /\ pc' = [pc EXCEPT ![r] = "rq_rlock2"]
            /\ UNCHANGED inflightReaders
    /\ UNCHANGED <<lv, Scores, Maps, orphanHolder, Calls, Env>>

\* The second inflightLock.RLock().  The goroutine then waits in
\* inflightLock.Lock() for the read locks it holds itself: no step leaves
\* "rq_lock", so the insertion into inflightRequests, GetBlock,
\* processBlock and the five-minute time.AfterFunc are never reached.
RequestRLockAgain(r) ==
    /\ pc[r] = "rq_rlock2"
    /\ ReadLockFree
    /\ inflightReaders' = inflightReaders + 1
    /\ pc' = [pc EXCEPT ![r] = "rq_lock"]
    /\ UNCHANGED <<lv, Scores, Maps, orphanHolder, Calls, Env>>

(***************************************************************************)
(* Close and the specification.                                           *)
(***************************************************************************)
\* s.cancelFunc(): every RPC and every waiter sees the cancelled context.
Close ==
    /\ MayShutdown
    /\ ~cancelled
    /\ cancelled' = TRUE
    /\ UNCHANGED <<pc, lv, Scores, Maps, Locks, Calls, chain, verdict, crashed>>

\* The node panicked, or every goroutine has returned.
Terminated ==
    /\ crashed \/ \A p \in Procs : pc[p] \in {"done", "idle"}
    /\ UNCHANGED vars

Step(p) ==
    \/ Decode(p) \/ DecodeFetchRelayer(p) \/ DecodeFetchPeer(p)
    \/ DecodePeersExhausted(p)
    \/ CheckConnect(p) \/ StoreOrphan(p) \/ FetchBlockTxids(p)
    \/ InventoryAdd(p) \/ OrphanDelete(p) \/ NewBlock(p)
    \/ Finalized(p) \/ Rejected(p) \/ WaiterCancelled(p)
    \/ ReleaseInventory(p) \/ OrphanScanNone(p) \/ ReprocessOrphan(p)
    \/ UnlockOrphans(p)
    \/ RequestRLock(p) \/ RequestCheck(p) \/ RequestRLockAgain(p)

Next ==
    \/ ~crashed /\ \E p \in Procs : Step(p)
    \/ ~crashed /\ Close
    \/ Terminated

\* Goroutines are scheduled, RPCs return (a peer answers or the stream
\* fails) and the engine emits one status per NewBlock (spec 4.5).
Fairness == \A p \in Procs : WF_vars(~crashed /\ Step(p))

Spec == Init /\ [][Next]_vars
FairSpec == Spec /\ Fairness

-----------------------------------------------------------------------------
(***************************************************************************)
(* Refinement: the blocks handed to consensus are those NewBlock was      *)
(* called for; the chain and the verdicts are the same in both.           *)
(***************************************************************************)
Submitted == {b \in Blocks : newBlockCalls[b] > 0}

Abstract == INSTANCE IngestAbstract WITH submitted <- Submitted, Verdicts <- Verdicts

-----------------------------------------------------------------------------
(***************************************************************************)
(* Properties.                                                            *)
(***************************************************************************)
TypeOK ==
    /\ chain \in Seq(Blocks) /\ Len(chain) >= 1
    /\ DOMAIN orphanBlocks \subseteq Blocks
    /\ \A b \in DOMAIN orphanBlocks : orphanBlocks[b] \in [peer : Peers, body : Bodies]
    /\ activeInventory \subseteq Blocks /\ inflightRequests \subseteq Blocks
    /\ orphanHolder \in Procs \cup {NoProc} /\ inflightReaders \in Nat
    /\ banscore \in [Peers -> Nat] /\ transient \in [Peers -> Nat]
    /\ pc \in [Procs -> {"dx_decode", "dx_relayer", "dx_peers", "pb_check",
                         "pb_orphan", "pb_txids", "pb_inv", "pb_orphan_del",
                         "pb_newblock", "w_wait", "w_delinv", "w_orphans",
                         "w_unlock", "rq_rlock1", "rq_check", "rq_rlock2",
                         "rq_lock", "idle", "done"}]
    /\ lv \in [Procs -> Locals]
    /\ nWaiters \in 0..MaxWaiters
    /\ newBlockCalls \in [Blocks -> Nat] /\ connectCalls \in [Blocks -> Nat]
    /\ verdict \in Verdicts
    /\ cancelled \in BOOLEAN /\ crashed \in BOOLEAN

\* Ban scores fall only on relayers (the comment in decodeXthinner and
\* spec 4.4): a peer that never sent us a block or was never asked by the
\* engine for one is never penalized, even when it fails the repair
\* requests made to every connected peer.
HelpersNeverPenalized ==
    \A p \in Peers \ RelayingPeers : banscore[p] = 0 /\ transient[p] = 0

\* A block whose txroot cannot be repaired is discarded with +34 for its
\* relayer and the node keeps running (spec 8, scenario S4).
NoCrash == ~crashed

\* NewBlock is called at most once per block id (spec 4.4: the insert into
\* activeInventory and NewBlock must not run twice for the same block).
NewBlockOncePerBlock == \A b \in Blocks : newBlockCalls[b] <= 1

\* An honest peer, which relays only valid blocks and answers every
\* request, never gets a behavioral ban score (spec 4.1 keeps the
\* behavioral delta for provable misbehavior; a height race costs only
\* transient score).
HonestNeverPenalized == \A p \in Honest : banscore[p] = 0

\* A connected block is never left in orphanBlocks (spec 3: a block id is
\* in at most one of orphanBlocks, activeInventory and the chain).
OrphansNotConnected == \A b \in DOMAIN orphanBlocks : b \notin Connected

\* Every block the engine will finalize that some peer announced is
\* eventually connected, unless the node stops.
FinalizedEventuallyConnected ==
    \A i \in 1..NA :
        verdict[Announce[i].blk] = "fin" =>
            <>(Announce[i].blk \in Connected \/ Stopped)

\* activeInventory is eventually empty for good once the announcements are
\* processed, unless the node stops (spec 8.1: no entry leaks).
InventoryEventuallyDrained == <>[](activeInventory = {} \/ Stopped)

\* Scenario S5: an orphan whose parent is connected and which consensus
\* finalizes is itself connected after the parent's finalization.
OrphanEventuallyConnected ==
    \A b \in Blocks :
        (b \in DOMAIN orphanBlocks /\ Parent[b] \in Connected /\ verdict[b] = "fin")
            ~> (b \in Connected \/ Stopped)

\* Every requestBlock call returns (spec 4.4 and scenario S6: one GetBlock
\* is issued and the call returns).
RequestBlockReturns == \A r \in Requesters : <>(pc[r] = "done")

\* The coordinator implements IngestAbstract: NewBlock is called only for
\* a block whose CheckConnectBlock passed (valid, on a connected parent),
\* however stale that check is by the time of the call, and the waiter
\* connects only a block it handed to consensus and consensus finalized.
AbstractSpec == Abstract!Spec

\* With the fairness the coordinator gets from the scheduler, the RPCs and
\* the engine, it also implements the abstract promise that a finalized
\* submitted block on the tip is connected.
AbstractFairSpec == Abstract!FairSpec

=============================================================================
