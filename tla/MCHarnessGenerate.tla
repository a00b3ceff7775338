------------------------- MODULE MCHarnessGenerate -------------------------
(***************************************************************************)
(* Inputs for HarnessGenerate: the genesis createGenesisBlock builds from *)
(* initialCoins and a number of additional coinbase outputs.             *)
(***************************************************************************)
EXTENDS HarnessGenerate, TLC
=============================================================================
