# TLA+ models of the eigensdk-go AVS registry read path

This directory models the part of `ethos-eigensdk-go` that an AVS uses to read
its operator set from the chain:

- the registry reader `AvsRegistryChainReader`
  (`src/chainio/clients/avsregistry/reader.go`);
- the service built on it, `AvsRegistryServiceChainCaller`
  (`src/services/avsregistry/avsregistry_chaincaller.go`);
- the bindings that issue its eth_calls
  (`src/contracts/bindings/OperatorStateRetriever/binding.go`);
- the test double `FakeAvsRegistryService`
  (`src/services/avsregistry/avsregistry_fake.go`);
- the client builder `BuildAll`, which wires the bindings together
  (`src/chainio/clients/builder.go`, `src/chainio/utils/bindings.go`).

TLC explores every interleaving of caller steps, RPC failures and new blocks
within the bounds given below.

## 1. Inventory

### Components and how they interact

| Component | Source | State | Operations |
|---|---|---|---|
| Registry contracts (RegistryCoordinator, StakeRegistry, IndexRegistry, OperatorStateRetriever) | not in src/; spec 4.2. Call mechanics: `binding.go` | Per block: each operator's stake in each quorum, its quorum bitmap and its status. Historical state is immutable. | `getOperatorState` (two overloads), `getCurrentQuorumBitmap`, `getCurrentStake`, `getOperatorStatus`, `quorumCount` |
| Go bindings | `binding.go` | none | `Call(opts, ...)` executes at `opts.BlockNumber`, or at the latest block when it is nil |
| Bitmap decoder | `types.BitmapToQuorumIds` (not in src/; spec 4.1) | none (pure) | bitmap → ascending quorum ids |
| `AvsRegistryChainReader` | `reader.go` | none of its own. Per call: `curBlock`, and the caller's `opts` (which the reader mutates) | The 9 read methods of the `AvsRegistryReader` interface |
| `AvsRegistryServiceChainCaller` | `avsregistry_chaincaller.go` | none of its own. Per call: the map being built | `GetOperatorsAvsStateAtBlock`, `GetQuorumsAvsStateAtBlock` |
| `FakeAvsRegistryService` | `avsregistry_fake.go` | a fixed map of operators, built by `NewFake` | the same two methods, answered from the map |
| Client builder | `chainio/clients/builder.go`, `chainio/utils/bindings.go` | the bindings being built | `BuildAll`, `buildElClients`, `buildAvsClients`, `validate` |
| Mocks, types | `chainio/mocks`, `types/avs.go` | generated code and data types | none |

Each layer calls the one below it synchronously:

- the service calls the reader (one `GetOperatorsStakeInQuorumsAtBlock`);
- the reader calls the bindings (one or more eth_calls, plus `eth_blockNumber`);
- the bindings call a node, whose head advances independently.

Nothing is shared between calls except the chain itself and the caller's
`*bind.CallOpts`. One method writes into the CallOpts; `reader.go:216` tells
its callers not to reuse them, and the modelled callers (like the service)
pass fresh ones.

### What makes it hard

- **Head advancing mid-call.** The `*AtCurrentBlock` methods first read the
  head, then query at it. Blocks are mined between the two steps, and between
  the several eth_calls of `GetOperatorStakeInQuorumsOfOperatorAtCurrentBlock`.
- **uint32 narrowing** of the head (`reader.go:140-143`).
- **logger.Fatal as error handling.** The production logger exits the
  process. The no-op logger used in tests returns, and execution continues
  past the check (`avsregistry_chaincaller.go:39`, `builder.go:99-106`).
- **Aggregation across quorums.** One operator appears in several tables.
  Its entry must collect every quorum's stake. This works only because the
  copied struct shares the `StakePerQuorum` map (`avsregistry_chaincaller.go:47-58`).
- **RPC failure** at any step. Every read returns a wrapped error.
- **Block arguments nobody checks.** `opts.BlockNumber` and the service's
  `blockNumber` may name a block older or newer than the one being asked
  about. The contracts then answer with the state of another block, with no
  error.

### Properties per component

| Component | Property |
|---|---|
| Reader | A current-block result equals the registry at the one height it resolved, and that height lies between the call's start and return. A head past uint32 is refused, never wrapped around. |
| Reader | The racy `GetOperatorStakeInQuorumsOfOperatorAtCurrentBlock` returns exactly the quorums of one bitmap read during the call. Each stake is the current stake at some block no earlier than that read. |
| Service | The per-operator view equals the registry at the requested block, for the requested quorums, for as long as the caller holds it. For a block not yet mined, the code violates this. |
| Service | The per-quorum totals equal the registry at the requested block. Empty quorums get 0, and repeated quorums are not double-counted. |
| Service | A misaligned retriever answer becomes a returned error (spec 4.3/9). The code violates this. |
| Fake | Its stored map and answers are well formed: entries keyed by their own operator and stamped with the recorded block, totals one per requested quorum. |
| Fake | Every answer is one the chain caller could give for the registry the test operators describe (the abstract contract). The code violates this when a caller requests a subset of quorums, when a test operator has no stake, and when a caller edits a map it was given. |
| Builder | Clients returned without error are bound to the right contracts, never to a zero address left by a missing config field or a failed fetch. |

## 2. Modules

| Module | Models | State and actions |
|---|---|---|
| `BitmapDecoder` | `types.BitmapToQuorumIds`, modelled from the spec | `BitmapToQuorumIds` (RECURSIVE) and `QuorumIdsToBitmap`, used by the reader and the contracts. It has no run of its own: it is not code under src/, and a check against a reference written from the same spec would hold whatever the code does. |
| `AvsChain` | the contracts and bindings | `head`, `hist` (the registry state of every block up to head). `Mine` appends one block with at most one registry update. The contract views (`GetOperatorState0`, `GetOperatorState`, `GetCurrentStake`, ...) are operators on `hist`, and `CallBlock`/`StateAt` give the binding's execution block. |
| `AvsRegistryReader` | `reader.go` (EXTENDS AvsChain) | Per caller: `pc`, `call`, `curBlock`, `optsBlock` (opts.BlockNumber), `pending`/`acc` (the stake loop), `result`, `started`. There is one action per RPC step of each method, including `GetQuorumCount`. Every action has a failure disjunct. Each call starts with fresh CallOpts. |
| `AvsRegistryServiceSpec` | the `AvsRegistryService` contract (spec 3, 4.3, 4.4, 6, 7) | `registry` (recorded block states, append-only), and per caller `spc`, `scall`, `sresult`. `Answer` returns an error, or the whole `OperatorsView`/`QuorumsView` of a recorded block. |
| `AvsRegistryService` | `avsregistry_chaincaller.go` (EXTENDS AvsChain) | Per caller: `spc`, `scall`, `sresult`, `aligned`. Global: `process` (running/exited/panicked). One action per method is the whole handler: the RPC, the length check with the Fatal outcomes, the panic, then the fold that builds the map. `BuildOperatorsAvsState` and `QuorumsAvsState` translate the loops as `FoldLeft`. `ServiceSpec` instantiates the contract with `registry <- hist`; its views are the expected answers of the service properties. `FutureBlocks` lets callers pass a block above the head, as the code allows. |
| `FakeAvsRegistryService` | `avsregistry_fake.go` | `operators` (the map NewFakeAvsRegistryService builds from a list of test operators at one block), and per caller `spc`, `scall`, `sresult`. One action per method. `GetOperatorsAvsStateAtBlock` hands out the stored map itself (`Alias`), and `AbstractResult` reads a held result through it. `ServiceSpec` instantiates the contract with `registry <- FakeRegistry`: the test operators' stakes, as the state of every block up to the fake's one block. |
| `ClientBuilder` | `builder.go`, `utils/bindings.go` | `logger` (production or no-op), `config` (each field set or empty), `pc`/`phase` (the next step, and which of the two NewAVSRegistryContractBindings runs), `addr` (the local address variables), `process`, `result`. There is one action per address-reading eth_call, in program order, and `validate` and `NewClient` are actions too. `buildElClients` and `buildAvsClients` are the steps of each phase. |
| `MC_*` | instances for TLC | small model values and sets. `MC_FakeAvsRegistryService` also defines `EditResult`, a caller that deletes an entry from the map it holds, and `EditSpec`, which adds that caller to the fake. |

How the modules correspond to the code:

- Each RPC is one atomic step, and a new block may be mined between any two
  steps. This is exactly the granularity at which the code can observe a new
  head.
- `logger.Fatal` has two behaviours. In the service it is a nondeterministic
  choice between `process' = "exited"` and falling through. The builder
  chooses its logger once, in `Init`, because a process has one logger.
- `Terminated` lets the chain keep growing after the process has died, so
  that the end of the process is not reported as a deadlock.
- In the builder, an address is the name of the contract deployed there, or
  `Zero`. A getter called at an address without code fails, as
  `bind.ErrNoCode` does. Creating a binding makes no call, so it cannot fail.
- Refinement: the fake is checked against the service contract as a
  `PROPERTY` (`FakeImplementsServiceSpec`) in its violation runs. Error values
  are mapped to the contract's single failure outcome.

## 3. Runs

| Run | cfg | Checks | Bounds |
|---|---|---|---|
| `reader_pinned` | `MC_AvsRegistryReader.cfg` | `TypeOK`, `CurrentReadsPinned`, `StakesFreshPerEntry` | 2 operators, quorums {0,1}, stakes {1,2}, heads 0..2, `BlockWidth = 1` (MaxUint32 becomes 1), 1 caller, RPCs may fail |
| `service_views` | `MC_AvsRegistryService.cfg` | `TypeOK`, `OperatorsViewMatchesChain`, `QuorumTotalsMatchChain` | the same operators and quorums, heads 0..3, quorum lists `<<0,1>>`, `<<1,0>>`, `<<1,1>>`, a misaligned retriever allowed, blocks up to the head |
| `service_future` | `MC_AvsRegistryService_future.cfg` | `OperatorsViewMatchesChain` (expected violation) | as `service_views`, with blocks above the head and an aligned retriever |
| `service_mismatch` | `MC_AvsRegistryService_mismatch.cfg` | `MismatchRejected` (expected violation) | as above |
| `fake_types` | `MC_FakeAvsRegistryService.cfg` | `TypeOK` | blocks 0..2, up to 2 test operators (duplicates allowed), each with stake in quorum 0, quorum 1 or both; callers request `<<0,1>>` or `<<1,0>>` |
| `fake_quorums` | `MC_FakeAvsRegistryService_quorums.cfg` | `FakeImplementsServiceSpec` (expected violation) | as above, plus the request `<<1>>` and test operators with no stake |
| `fake_edit` | `MC_FakeAvsRegistryService_edit.cfg` | `FakeImplementsServiceSpec` under `EditSpec` (expected violation) | as `fake_types`, with a caller that edits its result |
| `builder` | `MC_ClientBuilder.cfg` | `ProductionClientsBound` | both loggers, every mix of empty config fields, every eth_call may fail |
| `builder_noop` | `MC_ClientBuilder_noop.cfg` | `ClientsBoundToContracts` (expected violation) | as above |

Why these bounds are enough:

- **Heads.** Up to 3 blocks let an operator register, change its stake and
  deregister within one call.
- **Narrowing.** `BlockWidth = 1` puts head 2 above "MaxUint32", so the
  narrowing check is exercised.
- **Operators.** Two operators give tables that are ordered and contain
  more than one operator.
- **Quorums.** Two quorums let one operator be in both.
- **Quorum lists.** Reversed and repeated lists exercise the aggregation.
- **Racy reader method.** With 2 mined blocks, a stake can change or vanish
  between the bitmap read and the stake reads.
- **Builder.** It is straight-line code. Every path through it, for every
  combination of inputs and failures, is explored.

One caller suffices for the reader and the service. Every call takes fresh
`CallOpts`, and the callers share nothing but the chain, whose changes `Mine`
already produces in every interleaving.

`BuildAll` runs once and stops, so its cfgs say `CHECK_DEADLOCK FALSE`.

**Results.** All passing runs hold. The violation runs show five
disagreements with the spec, or gaps in it. The details are in `findings` in
`PROJECT.json`.

- **`service_future`**, violated in 4 steps. A call for block 1 at head 0
  returns block 0's operators stamped with block 1. Block 1 is then mined
  with a registry change, and the answer the caller holds is not block 1's
  view. The spec does not say what a block above the head should yield. The
  fake returns "block number not found" for it.
- **`service_mismatch`**, violated at depth 3. When the retriever returns the
  wrong number of tables, `logger.Fatal` exits the process; the trace shows
  that exit. With the no-op logger the model also reaches a panic (too few
  tables) and a result built from the first tables (too many).
- **`fake_quorums`**. The fake returns its stored map whatever quorums are
  requested. Its entries can hold unrequested quorums, and test operators
  without stake appear as empty entries.
- **`fake_edit`**, violated in 4 steps. A caller asks for the operators at
  the fake's block and gets the fake's own map. It deletes one operator from
  that map, and the fake's recorded block has changed: every later answer
  for that block lacks the operator. The chain caller builds a fresh map on
  every call, and spec 3 says results are not mutated after construction.
- **`builder_noop`**. A failed `AvsDirectory()` fetch or a missing
  `OperatorStateRetrieverAddr` gets past `logger.Fatal`. `BuildAll` then
  returns Clients bound to the zero address, with no error.

**Mutants.** Each property is broken by a plausible bug in the definition it
is about:

| Property | Mutant |
|---|---|
| `CurrentReadsPinned` | dropping the `> MaxUint32` check |
| `StakesFreshPerEntry` | the stake stored under the loop index |
| `TypeOK` (reader) | decoding the bitmap from 1 |
| `OperatorsViewMatchesChain` | creating a fresh entry instead of extending the existing one |
| `QuorumTotalsMatchChain` | not resetting `totalStake` per quorum |
| `TypeOK` (service) | keying `StakePerQuorum` by quorumIdx |
| `TypeOK` (fake) | the stored OperatorAvsState left with a zero BlockNumber |
| `ProductionClientsBound` | `validate` without the `OperatorStateRetrieverAddr` check |

## 4. Fairness

No run checks liveness, so no spec assumes fairness. The reader's calls and
`BuildAll` are straight-line sequences of RPCs plus a `range` over a finite
slice. They end as soon as every RPC returns. But the RPCs go out with a bare
`bind.CallOpts{}` and no deadline, so whether they return is up to the node,
which the model does not describe. A leads-to property would hold only by the
shape of the model, under a fairness assumption the code does not enforce.

## 5. Not modelled, and the plan

Not modelled:

- The reader's constructors. `NewAvsRegistryChainReader` only fills a struct,
  and `BuildAvsRegistryChainReader` has no caller in src/.
- `getQuorumBitmapsAtBlockNumber`.
- Event filterers and transactors.
- Generated mocks, and `types/avs.go`, which declares data types only.
- The decoder and the contracts' status enum have no property of their own.
  They are not code under src/, so a property about them would be checked
  against a reference written from the same spec.
- Callers that reuse `CallOpts` after
  `GetOperatorsStakeInQuorumsOfOperatorAtCurrentBlock`. `reader.go:216` and
  spec 5 already say this leaks the resolved height into the next call.
- The constructors of `ELChainReader`/`ELChainWriter` and
  `AvsRegistryChainWriter`, which are outside src/. Only the writer's
  `BlsApkRegistry` read is kept, as a fallible call.

Plan for the next sittings:

1. **Composed read path.** A module that composes the reader and the service
   into one read path (`GetOperatorsStakeInQuorumsAtCurrentBlock`, then
   aggregation) and checks spec example D end to end.
2. **Larger instances.** 3 operators, and longer quorum lists in the
   service runs.
