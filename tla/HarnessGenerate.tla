-------------------------- MODULE HarnessGenerate --------------------------
(***************************************************************************)
(* TestHarness.generateBlocks (src/blockchain/harness/generate.go): the   *)
(* test harness extends the chain by nBlocks blocks, each spending up to  *)
(* txsPerBlock of the harness's spendable notes and splitting each into   *)
(* outputsPerTx new notes, starting from the genesis createGenesisBlock   *)
(* builds.                                                                 *)
(*                                                                         *)
(* A note is an id with its amount and the commitment index baked into    *)
(* its nullifier.  The accumulator is the sequence of commitments in      *)
(* insertion order.  Keys, salts, scripts, signatures and proofs are left *)
(* out: nothing below depends on them.  Amounts are unsigned integers of  *)
(* AmountWidth bits, and wrap like types.Amount (a uint64).               *)
(***************************************************************************)
EXTENDS Naturals, FiniteSets, Sequences, SequencesExt

CONSTANTS
    TxsPerBlock,    \* h.txsPerBlock
    NBlocks,        \* nBlocks
    InitialCoins,   \* createGenesisBlock's initialCoins
    NAdditional,    \* len(additionalOutputs) given to createGenesisBlock
    AmountWidth     \* bits of types.Amount

ASSUME /\ TxsPerBlock \in Nat /\ NBlocks \in Nat /\ AmountWidth \in Nat \ {0}
       /\ InitialCoins \in Nat /\ NAdditional \in Nat

VARIABLES
    pc,             \* "begin", "tx", "done", "panic" or "error"
    n,              \* the block loop counter
    acc,            \* the cloned accumulator
    nCommitments,
    bestHeight,
    remainingNotes, \* id -> [amount |-> a, index |-> i]
    outputsPerTx, numTxs,
    notes,          \* the notes of this block, in map iteration order
    i,              \* the transaction loop counter
    toDelete,       \* nullifiers spent by this block
    blockOutputs,   \* commitments of this block's outputs, in order
    spentLog,       \* every nullifier spent, in order (history)
    txLog           \* [in, out] value of every transaction (history)

vars == <<pc, n, acc, nCommitments, bestHeight, remainingNotes, outputsPerTx,
          numTxs, notes, i, toDelete, blockOutputs, spentLog, txLog>>

Fee == 1
Modulus == 2^AmountWidth

\* Mutant of AmountSub: signed subtraction.
AmountSubSigned(a, b) == a - b

\* Unsigned arithmetic of types.Amount.
AmountSub(a, b) == (a - b) % Modulus

\* The id of output x of transaction t of block b (the initial notes are
\* numbered as block 0).
OutputId(b, t, x) == <<b + 1, t, x>>

(***************************************************************************)
(* createGenesisBlock.  The coinbase pays initialCoins/2 to each of two    *)
(* notes; its outputs are commitment1, commitment2, then the additional   *)
(* outputs, and the accumulator takes them in that order.  Each note's    *)
(* nullifier bakes in a commitment index; note1 is staked, note2 is        *)
(* returned as the harness's spendable note.  The harness starts          *)
(* generateBlocks from this accumulator and this note.                    *)
(***************************************************************************)
Note1 == <<0, 0, 1>>
Note2 == <<0, 0, 2>>

\* The amount of each genesis note: types.Amount(initialCoins) / 2.
GenesisNoteAmount == (InitialCoins \div 2) % Modulus

\* coinbaseTx.Outputs: the two notes' commitments, then additionalOutputs.
GenesisOutputs == <<Note1, Note2>> \o [k \in 1..NAdditional |-> <<0, 0, 2 + k>>]

\* Mutant of GenesisNullifierIndex: the two indices swapped.
GenesisNullifierIndexSwapped == Note1 :> 1 @@ Note2 :> 0

\* CalculateNullifier(0, salt1, ...) and CalculateNullifier(1, salt2, ...).
GenesisNullifierIndex == Note1 :> 0 @@ Note2 :> 1

\* The spendable note createGenesisBlock returns: note2.
GenesisSpendable ==
    Note2 :> [amount |-> GenesisNoteAmount, index |-> GenesisNullifierIndex[Note2]]

Init ==
    /\ pc = "begin"
    /\ n = 0
    /\ acc = GenesisOutputs
    /\ nCommitments = Len(GenesisOutputs)
    /\ bestHeight = 0
    /\ remainingNotes = GenesisSpendable
    /\ outputsPerTx = 0 /\ numTxs = 0 /\ notes = <<>> /\ i = 0
    /\ toDelete = <<>> /\ blockOutputs = <<>>
    /\ spentLog = <<>> /\ txLog = <<>>

(***************************************************************************)
(* Top of the block loop: how many transactions, how many outputs each,   *)
(* and the notes in Go's map iteration order, which is unspecified; only  *)
(* the first numTxs of them are ever read, so only those are kept.  The   *)
(* integer division panics when no note remains.                          *)
(***************************************************************************)
DivisionByZero(rem) == rem < TxsPerBlock /\ rem = 0

\* Mutant of BeginBlock: the division with its operands swapped.
BeginBlockSwappedDivision ==
    /\ pc = "begin"
    /\ n < NBlocks
    /\ LET rem == Cardinality(DOMAIN remainingNotes) IN
       IF DivisionByZero(rem)
       THEN /\ pc' = "panic"
            /\ UNCHANGED <<outputsPerTx, numTxs, notes>>
       ELSE /\ outputsPerTx' = IF rem < TxsPerBlock THEN rem \div TxsPerBlock
                                                    ELSE TxsPerBlock
            /\ numTxs' = IF rem < TxsPerBlock THEN rem ELSE TxsPerBlock
            /\ \E order \in [1..numTxs' -> DOMAIN remainingNotes] :
                   /\ IsInjective(order)
                   /\ notes' = order
            /\ pc' = "tx"
    /\ i' = 0 /\ toDelete' = <<>> /\ blockOutputs' = <<>>
    /\ UNCHANGED <<n, acc, nCommitments, bestHeight, remainingNotes, spentLog, txLog>>

BeginBlock ==
    /\ pc = "begin"
    /\ n < NBlocks
    /\ LET rem == Cardinality(DOMAIN remainingNotes) IN
       IF DivisionByZero(rem)
       THEN /\ pc' = "panic"
            /\ UNCHANGED <<outputsPerTx, numTxs, notes>>
       ELSE /\ outputsPerTx' = IF rem < TxsPerBlock THEN TxsPerBlock \div rem
                                                    ELSE TxsPerBlock
            /\ numTxs' = IF rem < TxsPerBlock THEN rem ELSE TxsPerBlock
            /\ \E order \in [1..numTxs' -> DOMAIN remainingNotes] :
                   /\ IsInjective(order)
                   /\ notes' = order
            /\ pc' = "tx"
    /\ i' = 0 /\ toDelete' = <<>> /\ blockOutputs' = <<>>
    /\ UNCHANGED <<n, acc, nCommitments, bestHeight, remainingNotes, spentLog, txLog>>

EndLoop ==
    /\ pc = "begin"
    /\ n >= NBlocks
    /\ pc' = "done"
    /\ UNCHANGED <<n, acc, nCommitments, bestHeight, remainingNotes, outputsPerTx,
                   numTxs, notes, i, toDelete, blockOutputs, spentLog, txLog>>

(***************************************************************************)
(* One transaction: spend notes[i] (its inclusion proof must exist in the *)
(* accumulator), create outputsPerTx outputs of amount/outputsPerTx - fee, *)
(* each numbered with the next commitment index and added to               *)
(* remainingNotes at once.                                                 *)
(***************************************************************************)
\* Mutant of NewOutputs: nCommitments incremented after the nullifier is
\* computed instead of before.
NewOutputsIndexAfter(sn, base) ==
    [o \in {OutputId(n, i, x) : x \in 1..outputsPerTx} |->
        [amount |-> AmountSub(remainingNotes[sn].amount \div outputsPerTx, Fee),
         index  |-> base + o[3]]]

\* The notes created by spending sn, the first numbered base.
NewOutputs(sn, base) ==
    [o \in {OutputId(n, i, x) : x \in 1..outputsPerTx} |->
        [amount |-> AmountSub(remainingNotes[sn].amount \div outputsPerTx, Fee),
         index  |-> base + o[3] - 1]]

SpendNote ==
    /\ pc = "tx"
    /\ i < numTxs
    /\ LET sn   == notes[i + 1]
           outs == NewOutputs(sn, nCommitments)
       IN  IF sn \notin ToSet(acc)
           THEN /\ pc' = "error"
                /\ UNCHANGED <<nCommitments, remainingNotes, i, toDelete,
                               blockOutputs, spentLog, txLog>>
           ELSE /\ nCommitments' = nCommitments + outputsPerTx
                /\ remainingNotes' = outs @@ remainingNotes
                /\ toDelete' = Append(toDelete, sn)
                /\ blockOutputs' = blockOutputs \o [x \in 1..outputsPerTx |-> OutputId(n, i, x)]
                /\ spentLog' = Append(spentLog, sn)
                /\ txLog' = Append(txLog,
                       [in  |-> remainingNotes[sn].amount,
                        out |-> FoldFunction(LAMBDA o, t : o.amount + t, 0, outs)])
                /\ i' = i + 1
                /\ pc' = "tx"
    /\ UNCHANGED <<n, acc, bestHeight, outputsPerTx, numTxs, notes>>

(***************************************************************************)
(* After the transactions: the block is built on the best block, its      *)
(* outputs are inserted into the accumulator in order, and the spent       *)
(* notes are deleted.                                                      *)
(***************************************************************************)
\* Mutant of SealBlock: the spent notes are not deleted.
SealBlockKeepsSpent ==
    /\ pc = "tx"
    /\ i >= numTxs
    /\ acc' = acc \o blockOutputs
    /\ bestHeight' = bestHeight + 1
    /\ n' = n + 1
    /\ pc' = "begin"
    /\ UNCHANGED <<remainingNotes, nCommitments, outputsPerTx, numTxs, notes, i,
                   toDelete, blockOutputs, spentLog, txLog>>

SealBlock ==
    /\ pc = "tx"
    /\ i >= numTxs
    /\ acc' = acc \o blockOutputs
    /\ remainingNotes' = [id \in DOMAIN remainingNotes \ ToSet(toDelete) |->
                              remainingNotes[id]]
    /\ bestHeight' = bestHeight + 1
    /\ n' = n + 1
    /\ pc' = "begin"
    /\ UNCHANGED <<nCommitments, outputsPerTx, numTxs, notes, i, toDelete,
                   blockOutputs, spentLog, txLog>>

Terminated == pc \in {"done", "panic", "error"} /\ UNCHANGED vars

Next == BeginBlock \/ EndLoop \/ SpendNote \/ SealBlock \/ Terminated

Spec == Init /\ [][Next]_vars

(***************************************************************************)
(* Properties.                                                             *)
(***************************************************************************)

TypeOK ==
    /\ pc \in {"begin", "tx", "done", "panic", "error"}
    /\ n \in 0..NBlocks /\ i \in 0..numTxs
    /\ \A id \in DOMAIN remainingNotes :
           /\ remainingNotes[id].amount \in 0..(Modulus - 1)
           /\ remainingNotes[id].index \in Nat
    /\ nCommitments \in Nat /\ acc \in Seq(Nat \X Nat \X Nat)

\* No note is spent twice across the generated blocks: a block's spent
\* notes are deleted from remainingNotes at its end, and the outputs it
\* adds to remainingNotes mid-block are not in this block's notes slice.
NoDoubleSpend == IsInjective(spentLog)

\* At the top of every block each spendable note is in the accumulator at
\* exactly the commitment index its nullifier was computed with
\* (nCommitments - 1 when it was created), so GetProof finds it and the
\* nullifier matches the position the chain will give the commitment.
SpendableNotesProvable ==
    pc = "begin" =>
        \A id \in DOMAIN remainingNotes :
            LET k == remainingNotes[id].index
            IN  k < Len(acc) /\ acc[k + 1] = id

\* Starting from at least one spendable note, the division by
\* len(remainingNotes) never divides by zero: every spent note is replaced
\* by at least one output.
NoDivisionByZero == pc # "panic"

\* No generated transaction creates value: its outputs plus the fee never
\* exceed the note it spends (amount/outputsPerTx - fee is unsigned).
ValueNotCreated ==
    \A t \in 1..Len(txLog) : txLog[t].out + Fee <= txLog[t].in
=============================================================================
