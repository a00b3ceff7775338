\* Four blocks of two transactions from a genesis of 56 coins and one
\* additional output: the spendable note2 of 28 sits at commitment index 1
\* between note1 and the additional output; its outputs are 13, 5, 1, then
\* wrapped: blocks with fewer notes than txsPerBlock and blocks with more,
\* in every map iteration order.
CONSTANTS
    TxsPerBlock = 2
    NBlocks = 4
    InitialCoins = 56
    NAdditional = 1
    AmountWidth = 6
SPECIFICATION Spec
INVARIANT TypeOK
INVARIANT NoDoubleSpend
INVARIANT SpendableNotesProvable
INVARIANT NoDivisionByZero
