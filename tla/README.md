# TLA+ models of ilxd: block ingest, the Lurk macro preprocessor and the test harness

This directory holds TLA+ modules and TLC configurations for the parts of
ilxd that are under `src/`. Each definition is translated from the Go source.
Collaborators that live outside `src/` (the chain, the consensus engine, the
peer-scoring gateway, the chain-service RPC) are modelled from `spec.md` and
marked `spec_modelled` in `PROJECT.json`.

## The system and its parts

| Part | Source | Model |
|---|---|---|
| Block-ingest coordinator: `handleIncomingBlock`, `decodeXthinner`, `processBlock`, `fetchBlockTxids`, the consensus waiter goroutine | `src/unnamed/part_004` (server.go) 235-407 | `BlockIngest` |
| `requestBlock`, the inflight map | part_004 420-448 | `BlockIngest` (up to the deadlock) |
| `fetchBlock` (serving blocks to peers) | part_004 409-418 | `BlockIngest!FetchBlock` |
| `Close` | part_004 452-465 | `BlockIngest!Close` |
| `BuildServer` (initial maps and locks) | part_004 212-228 | `BlockIngest!Init` |
| Chain view, consensus engine, peer scoring, chain-service RPC, compact-block decoder | not under `src/` | abstract operators in `BlockIngest` |
| Lurk macro preprocessor: import expansion | `src/zk/lurk/macros/preprocessor.go` 40-50, 102-359 | `ImportExpansion` |
| Lurk macro preprocessor: `preProcess` and the macro passes | preprocessor.go 51-75, 361-823 | `MacroPreprocess` |
| Test harness block generator (`generateBlocks`) | `src/blockchain/harness/generate.go` 23-257 | `HarnessGenerate` |
| Genesis params, blockchain options, lurk scripts, transfer script, CI, Cargo, regtest launcher | part_005, part_006, `*.lurk`, part_000-003 | not modelled: data, configuration or circuits |

How the ingest parts interact:
- A gossip handler decodes a compact block. Missing transactions are fetched
  first from the relayer, then from each connected peer. It then calls
  `processBlock`.
- `processBlock` classifies the block with `CheckConnectBlock`:
  - an orphan is stored under `orphanLock`;
  - an invalid tx root is repaired from the txid list and rechecked;
  - other rule errors score the relayer;
  - a block that connects is put in `activeInventory` and removed from the
    orphans, and `NewBlock` hands it to consensus.
- A waiter goroutine per `NewBlock` waits for the verdict. It connects a
  finalized block, then deletes the inventory entry. Last, it holds
  `orphanLock` while it reprocesses the first orphan at the next height.
- `requestBlock` fetches a block that the engine asked for and guards it with
  `inflightRequests`.

## The module `BlockIngest`

Goroutines are processes:
- handlers are numbered `1..Len(Announce)`, one per gossiped block;
- requesters follow, one per `requestBlock` call;
- waiters come last, one per `NewBlock`.

`pc[p]` is the point in the code where process p stands, and `lv[p]` holds its
locals: `blk`, `relayingPeer`, `recheck`, the decoded body, the peers not yet
tried, and the return point of a nested `processBlock`.

How the code's synchronisation maps to the model:
- A lock scope that wraps a single map operation is one atomic step.
- `orphanLock` is the variable `orphanHolder`, because the waiter holds it
  across a nested `processBlock`.
- `inflightLock` is the multiset of readers `inflightReaders`, plus Go's rule
  that a pending writer blocks new readers (`ReadLockFree`).
- `Close` cancels the context. After that every RPC fails and every waiter
  returns.
- The panic at line 278 is modelled as `crashed`.

Each action is named after the code it translates, and the map in
`PROJECT.json` gives its lines:

| Action | Code |
|---|---|
| `Decode`, `DecodeFetchRelayer`, `DecodeFetchPeer`, `DecodePeersExhausted` | decodeXthinner |
| `CheckConnect` | the switch at 247-301 |
| `StoreOrphan` | 255-261 |
| `FetchBlockTxids` | the repair, with the nil-block panic |
| `InventoryAdd`, `OrphanDelete`, `NewBlock` | 307-317 |
| `Finalized`, `Rejected`, `ReleaseInventory`, `OrphanScanNone`, `ReprocessOrphan`, `UnlockOrphans`, `WaiterCancelled` | the waiter |
| `RequestRLock`, `RequestCheck`, `RequestRLockAgain` | requestBlock |

Abstractions (spec-modelled):
- **Chain.** The chain is a sequence of block ids from genesis.
  `CheckConnectBlock` returns orphan, does-not-connect, rule error or
  invalid-tx-root, in that order. `ConnectBlock` appends only on the tip.
- **Consensus.** The engine's verdict for each block is fixed in `Init`:
  - genesis is finalized;
  - invalid blocks are rejected;
  - at most one block per height is finalized.
- **Peers.** An honest peer's RPC returns the right data or fails. Any other
  peer may return wrong data.
- **Scores.** Scores are per-peer behavioral and transient counters.

## The abstract module `IngestAbstract`, and the refinement

`IngestAbstract` states what the coordinator promises (spec 4.4, 4.5, 5)
with decoding, repair, orphans, locks and scores left out. Its state is the
chain, the set of blocks handed to consensus, and the consensus verdicts.
It has two actions:
- `Submit(b)`: a valid block whose parent is connected and which sits one
  height above it goes to consensus;
- `Connect(b)`: a submitted, finalized block whose parent is the tip is
  appended.

`BlockIngest` instantiates it with
`Abstract == INSTANCE IngestAbstract WITH submitted <- Submitted`, where
`Submitted` is the set of blocks with a `NewBlock` call. `chain` and
`verdict` map to the variables of the same name. Every other step of the
coordinator is a stuttering step of the abstract one; a second `NewBlock` for
one block stutters too, so the known duplicate path does not break the
refinement. `AbstractSpec` is checked in the safety run, and
`AbstractFairSpec` (weak fairness on every `Connect`) in the liveness run.

## Runs

| Run | Config | Expect | What it shows |
|---|---|---|---|
| ingest_safety | `MCBlockIngest_safety.cfg` | pass | With orphans, repair, an invalid block, a malicious relayer, `requestBlock` and shutdown: the helper peers asked during repair are never scored (`HelpersNeverPenalized`), and the coordinator refines `IngestAbstract` (`AbstractSpec`), so `NewBlock` only follows a passing check and only finalized blocks connect. |
| ingest_liveness | `MCBlockIngest_live.cfg` | pass | Under fairness, every finalized announced block gets connected and `activeInventory` drains, and the coordinator refines `IngestAbstract` with its fairness (`AbstractFairSpec`). |
| repair_failure_panics | `MCBlockIngest_crash.cfg` | violation | A failed repair from the relayer dereferences a nil block (line 273 shadows `blk`). |
| recheck_race_penalty | `MCBlockIngest_honest.cfg` | violation | An honest relayer whose repaired block lost a race is scored 34. |
| orphan_reprocess_deadlock | `MCBlockIngest_orphan.cfg` | violation | Scenario S5: the waiter re-locks `orphanLock` in the nested `processBlock` and the orphan never connects. |
| request_block_deadlock | `MCBlockIngest_request.cfg` | violation | Scenario S6: `RLock` where `RUnlock` was meant, so `requestBlock` never returns. |
| orphan_stale_verdict | `MCBlockIngest_stale.cfg` | violation | `b2` from `pA`, `b1`, then `b2` from `pH`. `pA`'s orphan verdict is acted on (line 247) after `pH`'s copy has passed, entered `activeInventory` and connected, so `b2` stays in `orphanBlocks` while connected, and nothing evicts it (line 340). Spec 3 allows a block id in at most one of the three places. |

The findings these violations support are listed in `PROJECT.json`.
No invariant says that `activeInventory` does not leak. In the safety run
the S5 path does leak `b2`: its `processBlock` goroutine waits for good on
`orphanLock` at line 311, held by the blocked waiter, so no state-based notion
of a "live owner" is honest. The leak is stated as liveness instead:
`InventoryEventuallyDrained` in the liveness run, where there are no orphans,
and `OrphanEventuallyConnected` in `orphan_reprocess_deadlock`, which shows
the S5 path.
One more property of `BlockIngest` is stated and found violated by TLC,
but is not among the runs: `NewBlockOncePerBlock`, with
`Announce <- DupAnnounce`. Two arrivals of one block both call `NewBlock`,
where spec 4.4 asks for a compare-and-set. It is recorded as a hazard. So
are two more configurations of properties that the runs do check:
- `HonestNeverPenalized` with shutdown enabled and a single announcement of
  `b1` from `pA`: a `GetBlockTxs` failing because `Close` cancelled the
  context still scores the honest relayer 34 (line 356), where spec 7 says
  cancellation is not scored;
- `OrphanEventuallyConnected` with announcements `b2`, `b1x`, `b1`: the
  waiter of the rejected `b1x` scans orphans by height, reprocesses `b2`
  before `b1` connects, and blocks holding `orphanLock` (line 337).

Bounds:
- **Blocks.** Four blocks: genesis `g`, `b1` and its competitor `b1x` at
  height 1, and `b2` on `b1`. This is the smallest set with an orphan, a
  height race and an invalid block (`b1x` is invalid in the safety run).
- **Peers.** Three peers: an honest relayer `pA`, a malicious `pM` and an
  honest helper `pH`.
- **Announcements.** Two or three per run, plus at most one `requestBlock`.
  This is enough for duplicates, an orphan arriving before its parent, and a
  race at one height. Each scenario is chosen so that its interleavings are
  exhaustive.
- **Deadlock checking.** It is off where goroutines really block forever
  (shutdown, the orphan lock, `requestBlock`). It stays on in the liveness run.

Fairness: weak fairness on every process's step.
- Go schedules every runnable goroutine.
- The chain-service RPCs return (with an error on cancellation).
- The engine answers every `NewBlock` (spec 6).
- Nothing depends on strong fairness.

## The module `ImportExpansion`

`Preprocess` runs `macroExpandImport` when the program contains
`!(import`. This module models that call and the helpers it uses.

How the text is abstracted:
- A dependency directory (`lib`) maps each directory path to the modules
  its `.lurk` files declare, in file order.
- A module's content is a sequence of items. An item is an import, or a
  `def`, `defun` or `defrec` whose body holds the imports written in it.
- The output is the sequence of definitions pasted in.

How the operators correspond to the code:
- `Resolve` is the two-pass lookup at 291-342. The first pass treats the
  path as a module in a directory. Only when that directory cannot be read
  does the second pass treat it as an expression in a module.
- `ExtractModule` and `ExtractModuleExpression` are the two extract
  functions.
- `ReadName` is the prefix test of 178-226. It tests `"!(def"` before
  `"!(defrec"`, so a defrec is read by the def branch and named `"ec"`.
- `ExpandItems` and `ExpandItem` are the scanning loop, with the copy of
  the dependency chain made for each import.

The runs are checked against a reference: the import graph of the library
(`ImportEdges`) and reachability computed by a fixpoint (`ReachableFrom`).

| Run | Config | Expect | What it shows |
|---|---|---|---|
| import_errors | `MCImportExpansion_errors.cfg` | pass | Over 172,032 pairs of a small library and a program of one or two imports, expansion fails exactly when a reachable import is circular or unresolved. "circular imports" is reported only for a real cycle, never for a diamond or a repeated import. |
| defrec_import_empty | `MCImportExpansion_defrec.cfg` | violation | Importing an expression defined with `!(defrec` succeeds and pastes nothing (line 198). |

Bounds:
- **Library.** One `std` directory holds modules `a` and `b`. `a` may
  import others at its top level. Its expression `f` may be any of the
  three keywords and may import inside its body. `b` may be declared twice.
- **Programs.** One or two imports, drawn from paths that hit each
  outcome: a module, an expression, a missing module, a missing directory,
  and a bare name.
- **Unreachable outcome.** "nofile" cannot occur, because the root directory
  always exists.

## The module `MacroPreprocess`

This module models `preProcess` and the passes it runs, over token
sequences:
- `"("` and `")"`;
- a macro opener such as `"!def"`, standing for the text `!(def`;
- the comment opener `";;"` and the line break `"\n"`;
- words.

The token form assumes one space between tokens, so a scan that stops at a
space stops at the end of a word. Line breaks are tokens because
`removeComments` works line by line.

How the operators correspond to the code:
- `CloseScopes` is the parenthesis counting of 768-812. A nested macro
  (def, defrec, defun, assert, assert-eq) owes a `)` at its enclosing level,
  and the owed `)` are written when that list closes.
- `DefLoop`, `DefunLoop` and `ListLoop` repeat their pass while the macro
  remains, as the code does.
- `AssertPass`, `AssertEqPass` and `ParamPass` run once, as in the code.
- `Arg` is the code's "ParseSExpr at `(`, else read up to `)`".
- `ParamPass` scans for params as `macroExpandParam` does (361-531), and
  `ParamExpansion` gives the text of one param (375-522). The
  public params come from `paramMap`. `nullifiers`, `priv-in`, `priv-out`
  and `pub-out` select element i of a list with `CarCdr` (i cdrs, then car),
  and optionally one field through `inputMap`, `outputMap` or `pubOutMap`.
  An unknown field selects the whole element, as in the code.
- `ParamPass` returns not-ok when `strconv.Atoi` rejects an index. The code
  then returns `""` for the whole program.
- `RemoveComments` is `removeComments` (825-838): `Lines` is the
  `bufio.Scanner` split, and a line whose first token is `;;` is dropped.
- `DefunBody` is defun's body check (743-752): it removes comment lines and
  whitespace and looks at the second character.
- `CloseScopes` ends the text with a line break before the owed closers,
  as line 811 writes them.
- `Preprocess` is `MacroPreprocessor.Preprocess` (53-63): it applies
  `preProcess`, then `removeComments` when that option is set (the variable
  `removeComments`, chosen in `Init`), then `IsValidLurk`.

Spec-modelled parts, whose code is not in the repository:
- `ParseSExpr` (`SExpr`): the balanced expression, where a macro opener
  counts as `(`.
- `ReadUntil` (`UntilClose`).
- `IsValidLurk` (`Depths`): the parentheses balance. The empty text counts
  as valid.

`Reference` parses the program into a tree and expands each macro where it
stands. The scope of a nested macro runs to the end of the list around it.
Its comment handling is written independently of the code: `Uncomment`
drops a `;;` that starts a line through its line break, and `Uncommented`
skips comments among the forms of a defun body. `ExpansionMatchesReference`
compares the output with the reference with line breaks ignored, since they
are layout.

| Run | Config | Expect | What it shows |
|---|---|---|---|
| macro_scripts | `MCMacroPreprocess_scripts.cfg` | pass | 1800 programs of one or two script-style forms, each placed at the top level, in a lambda and inside a list, and each run with and without `removeComments`. The forms include a def of a param (as in multisig_script.lurk), a defun whose body is a list of forms with a def in it, a list nested in a list element, every kind of param with and without a field, and comment lines, including one inside a defun body after its first list. Every program is accepted and equals the reference, so the scope closing is right for these shapes. |
| macro_nullifier_index | `MCMacroPreprocess_nullifier_index.cfg` | violation | `!(param nullifiers z)` turns the whole program into `""`, with no error. |

TLC also finds these violated under configurations that are not among the
runs:
- `ExpansionMatchesReference` with `AssertEqWordPrograms`:
  `!(assert-eq x (f x))` reads its first argument up to the next `)`, so
  the result is `(eq (eq x (f x) nil) ...`, and it is accepted (line 633);
- `ExpansionMatchesReference` with `NestedAssertPrograms`: an assert inside
  an assert body is rejected as mismatched, because the assert pass runs
  once;
- `MacrosExpanded` with `ListMacroPrograms`: `!(list !(param sighash))`
  keeps a macro in its output;
- `ExpansionMatchesReference` with a defun whose body is
  `( ;; c` on one line, then `(f x))`: the comment is on the body's first
  line, so `removeComments` keeps that line, the body check sees `;`, and the
  outer parentheses stay (line 744).

Comments holding unbalanced parentheses are not checked: the code and the
reference both count them, and nothing states what they should mean.

## The module `HarnessGenerate`

`generateBlocks` is a single sequential loop, and this module models it
step by step. It starts from the genesis `createGenesisBlock` builds:
- note 1, staked, and note 2, spendable, each worth `InitialCoins/2`;
- the coinbase outputs in accumulator order: the two notes, then
  `NAdditional` extra outputs;
- the nullifier indices baked in by hand: 0 for note 1, 1 for note 2.

Keys, salts, signatures and proofs are not modelled. Neither is the stake
transaction's amount: it declares `initialCoins` while the staked note holds
`initialCoins/2`, and no property here reads it.

State and actions:
- `pc` is the point reached in the loop.
- Go's map iteration over `remainingNotes` is an arbitrary injective
  choice of notes.
- The accumulator is the sequence of commitments.
- A note is an id with its amount and the commitment index baked into its
  nullifier.
- Amounts wrap modulo `2^AmountWidth`, where `AmountWidth = 6` stands in for
  uint64.
- The actions are `BeginBlock` (35-48), `SpendNote` (50-201),
  `SealBlock` (203-253) and `EndLoop` (254-257).

| Run | Config | Expect | What it shows |
|---|---|---|---|
| harness_safety | `MCHarnessGenerate_safety.cfg` | pass | Over four blocks of two transactions from the genesis (56 coins, one additional output), and every map order: no note is spent twice; every spendable note sits in the accumulator at the index its nullifier was computed with; the outputs-per-transaction division never divides by zero. |

`ValueNotCreated` is also stated. With `InitialCoins = 24`, `NAdditional = 1`
and `NBlocks = 3` it is
violated: `amount/outputsPerTx - fee` underflows at line 96. That
configuration is not among the runs, and it is recorded as a hazard.

## Not modelled, and why

- The log lines, `firstSeen` and `startTime` are not modelled: no property
  reads them.
- Banning and score decay live outside `src/`.
- The lines after `inflightLock.Lock()` in `requestBlock` (429-447) are
  unreachable: the goroutine never gets past line 428.
- Genesis parameters, configuration options, CI, build files and the regtest
  shell script have no state machine.
- The Lurk circuits rest on opaque hash and signature primitives.
- Preprocessor spaces and tabs are not modelled; line breaks and comments
  are. The scanners skip a fixed number of characters after each macro
  name, so spacing does change their results (see the hazard at line 541).
  The token model assumes exactly one space.
- `generateBlockWithTransactions` (generate.go 260-307) builds one block
  from transactions its caller supplies; no caller in the repository uses
  it, so there is no input set to draw from faithfully.
- `TransferScript` (transfer.go) is a pure check: a type assertion on each
  argument, one script parameter, and a signature verification. It has no
  state, and its outcome rests on the opaque signature primitive.

## Further work

1. **Ingest:** a run of its own for cancellation scoring and for the double
   `NewBlock`; today both are shown by stated properties under the
   configurations named above.
2. **Preprocessor:** a run over missing imported expressions, for the
   same reason.
