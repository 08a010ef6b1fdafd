# Verification of zimulatoor

zimulatoor forks an Ethereum-like chain inside a browser page. A **simulation
engine** executes calls and transactions against state that it fetches lazily
from the real chain; a **provider** puts an ethers JSON-RPC face on the engine, so
that ordinary dapp code talks to the simulation without knowing it.

Everything runs on one JavaScript thread. There are no locks: what runs between
two `await`s is atomic, and at every `await` any other pending operation may go
on. Most of what is hard in this code follows from that, from its shared mutable
state (one checkpoint stack, one code cache, one block counter, one module-wide
invented block number), and from `finally` blocks that undo state which another
operation may have written meanwhile.

This directory holds TLA+ models of the parts that keep such state, TLC
configurations that check them on small instances, and proofs, checked by TLAPS,
that hold for every instance. Source paths below are relative to the repository.

## Inventory

| Component | Source | State | Operations |
|---|---|---|---|
| World state | `src/vm/index.ts` (`OverriddenStateManager`) | account and storage caches, checkpoint stack, code cache, `#deployedContracts` | `checkpoint`, `commit`, `revert`, `putContractCode`, `getAccount`, `getAccountFromProvider` |
| VM creation | `src/vm/index.ts` (`createVM`) | the start of the polling | asks for the chain id, polls the fork block until a deadline, builds the VM and its blockchain |
| Simulation engine | `src/simulation/index.ts`, `src/simulation/tx.ts`, `src/tx.ts` | `#blockNumber`, `#lastTimestamp`, the VM, the indexer, the matcher | `create`, `impersonateAccount`, `setBalance`, `setStorage`, `call`, `estimateGas`, `execute`, `executeTypedTransaction`, `executeBundle` |
| Transaction indexer | `src/simulation/transaction-indexer.ts` | map from hash to transaction, result and block | `indexTransaction`, `getTransaction` |
| Signature matcher | `src/simulation/signature-matcher.ts` | `#addressPublicKeys`, `#wallets`, `#reverseAddresses` | `registerSimulationPublicKey`, `getSimulationPrivateKey`, the `ecrecover` hook |
| Simulation provider | `src/ethers/index.ts` | `#engine` | `send`, `_send`, `_start`, `getImpersonatedSigner` |
| JSON-RPC functions | `src/jsonrpcapi/index.ts` | `blocklessSimulationBlockNumber`, one per page | dispatcher and seventeen handlers |
| Network list, fetch rotation | `src/networks/index.ts` | the list of URLs of each network | `getMappedUrl`; `fetch`, patched to try the URLs of a network one after another |
| Revert reasons | `src/util/index.ts`, `src/simulation/error.ts` | none | `addErrorMessage` |
| Log indexer | `src/simulation/log-indexer.ts` | none: the file is commented out | |
| Types, entry points, manual test script | `src/simulation/types.ts`, `src/index.ts`, `src/test/index.ts` | none | |

**How they interact.** A client's request goes `send` → (create the engine if
there is none) → ethers' batch → `_send` → one handler after another → the engine
→ checkpoints on the world state → the EVM library → back. The matcher is called
while a transaction is prepared and, as the `ecrecover` hook, from inside the EVM.
The indexer is written when results are prepared and read by the lookups.
Different batches, and different engine operations of any callers, overlap at
every `await`.

**What is hard, and what would make each part correct.**

* *World state.* The stack is anonymous: `commit` and `revert` act on the latest
  checkpoint, whoever took it. The code cache lies outside the checkpoints, and
  `revert` refills it in an awaiting loop under which another `revert` may empty
  it. Accounts are fetched on first use, and put into the cache when they come.
  Correct: stack and open operations stay in step; no code is lost for good;
  nobody can tell a fetched account from one that was always there.
* *Creation.* The node that told the latest block need not be the one asked for
  it; nodes lag, fail, or refuse; the last poll may be answered after the deadline.
  Correct: creation ends; one healthy URL is enough; a block all nodes know is
  found.
* *Engine.* `executeBundle` prepares its transactions in parallel under
  `Promise.all`; estimates take checkpoints of their own; setters write after an
  `await`; `#blockNumber` is read again after the block has run. Correct: one
  request at a time, a request takes effect all at once or not at all; for
  overlapping ones, the state under the checkpoints moves only by success, every
  checkpoint is given back, every promise settles, and what resolved is indexed
  under its own block.
* *Matcher.* Tables keyed by strings, one address in two spellings. Correct: no
  transaction is attributed to a third account, and none changes its sender later.
* *Provider.* Check-then-act on `#engine` across an `await`; a batch is rejected
  as a whole. Correct: a client finds again what it was told has been sent.
* *JSON-RPC.* A counter shared by all engines and batches that lookups move.
  Correct: no client sees time go backwards, no two lookups get the same block.

`PROJECT.json` lists the hazards one by one, each at its line, with the
properties that cover it or the reason why none does yet.

## Modules

| Module | What it is |
|---|---|
| `StateManager` | the world state: `Checkpoint`, `Commit`, `RevertCaches` and `RestoreContract`, `Write`, `EndExecution`, `EndFailedExecution` |
| `SimulationEngine` | the engine over `StateManager` (EXTENDS), with preparation, gas estimation and the indexer |
| `Ledger` | what the engine promises a caller who makes one request at a time; `SimulationEngine!LedgerView` is the refinement mapping |
| `AccountStore` | what the world state promises about accounts: all there from the start, each read or changed at one moment |
| `AccountLoading` | accounts fetched on first use, by reads, by `setBalance` and by executions; shown to implement `AccountStore` |
| `ForkCreation` | `SimulationEngine.create`, the polling of `createVM` and the patched `fetch` |
| `SignatureMatcher` | the matcher and its two users |
| `SimulationProvider` | engine creation and batches |
| `JsonRpcApi` | the dispatcher and handlers over `SimulationProvider` (EXTENDS) |
| `MCSimulationEngine`, `MCAccountLoading`, `MCForkCreation`, `MCSignatureMatcher`, `MCJsonRpcApi` | the values TLC gets |
| `SimulationEngine_proofs`, `EngineProgress_proofs` and `LedgerRefinement_proofs` (both over the former), `AccountLoading_proofs`, `ForkCreation_proofs`, `SignatureMatcher_proofs`, `JsonRpcApi_proofs` | theorems and their proofs |

Definitions marked `(mutant)` in a comment are deliberately wrong variants of the
definition below them, used to confirm that a property notices the mistake. No
specification uses them.

### StateManager and SimulationEngine

One action is one stretch of code between two `await`s.

*Data.* Account contents are abstracted to the set of **effects** visible in them:
`DataOf(s, i)`, what transaction `i` of section `s` changes, and `NonceOf(s, i)`,
the increment of its sender's nonce. A checkpoint is a remembered set. Nonces are
computed from the effects (`Nonce`), because preparation reads them and execution
in a block checks them. What else a transaction says (recipient, data, value, fees)
is its `payload`; executing one of `Factories` may create a contract besides.
Contracts are kept as the set of those whose code is in `contractCache` and of those
in `deployedContracts`, and nothing is ever taken out of the latter, as in the code.

*The index* is a function from hashes that entries overwrite (`Overwritten`), as
`Map.set` does. The hash of a signed transaction is a record of what was signed and
by whom (`Hash`), so that equal transactions have equal hashes; one without a
signature gets a hash of its own, as `#prepareResults` gives it random bytes.

*Sections.* Every operation that touches state is a `try` that opens with
`checkpoint()` and a `finally` that commits or reverts. Such a **section** goes
through `head` (waiting for the last block), `running`, `inside` (the library
executes, under a checkpoint of its own), `returning`, and `restoring` (the
`finally` block's `revert()` is in its loop); `undoing` is the library's own
revert when it throws. `<<r, 0>>` is the section of request `r`, `<<r, i>>` the
gas estimate made while transaction `i` of its bundle is prepared.

| Action | Code |
|---|---|
| `Call`, `CallWithoutTo`, `EstimateGas`, `ExecuteTyped`, `ExecuteBundle`, `SetState` | the public methods of `SimulationEngine` up to their first `await` |
| `SetStateLands`, `SetStateFails` | `setBalance`, `setStorage` after it |
| `ReadNonce`, `Populated`, `PrepareFails` | `populateTransaction`, one chain for each transaction of a bundle |
| `StartExecution` | `Promise.all` has resolved; `#executeTransactions` takes its checkpoint |
| `BeginBlock`, `NoLastBlock` | `#executeTransactionsInBlock` once the head block is known |
| `EnterRun`, `RunCall`, `RunTransaction`, `RunThrows`, `RunThrown` | `evm.runCall`, `vm.runTx`, `vm.runBlock`: success, an EVM exception, a thrown error |
| `SectionThrows`, `ReturnResults` | the rest of the `try` block, `#prepareResults` with the indexer |
| `CommitSection`, `RevertSection`, `RestoreCode`, `FinishRevert` | the `finally` block and the loop of `revert()` |

`Admission` is the discipline of the callers, which nothing in the code enforces:
`free` (they never wait), `awaited` (each promise is awaited before the next
request), `exclusive` (and nothing of earlier requests is still running, which an
awaiting caller cannot even see: that difference is the finding of
`EngineAwaited`). `Careful` is what the ledger needs of callers: `exclusive`, or
`awaited` with a workload in which no transaction has its gas estimated beside
another one of its bundle (`EstimatesAlone`), as where callers use `execute(tx)` or
give the gas limits of their bundles. The estimates are the only thing a rejected
bundle leaves running that touches state.

*Abstracted.* One checkpoint level inside the library stands for the ones it opens
per message; a failed execution's own `revert()`, with its awaiting loop, is folded
into the one step `EndFailedExecution`, which keeps its lasting traces: the refilled
code cache, and the code of contracts that were created within the execution before
it failed. (The awaiting loop itself, and what overlaps it, is modelled where the
engine calls `revert()`, and where the library does before it throws.) The two
statements of `putContractCode` are one step, although an `await` is between them:
the inherited `putContractCode` it awaits has nothing of its own to wait for once
the account is there, and nobody else's `revert()` can begin and end its loop in the
few microtasks between. The write of a setter is
one step. Loading is folded into steps that may fail; `AccountLoading` has it
await by await. `HeadNumber == 0` since
nothing in the code puts a block into the blockchain. `Wallet` and `Mapped` say of
each account what `SignatureMatcher` models in detail: the account its simulation
wallet has, and whether the hook finds the way back.

### Ledger

One set of effects; `Succeed` adds all the effects of a request at once, `Fail`
adds none, `Observe` shows a call the ledger. The mapping takes `ledger` to `Base`,
the world under the oldest open checkpoint.

### AccountStore and AccountLoading

Here a cache entry is an account (balance, nonce, and whether its code hash is
that of no code, of some code, or the zero hash), `Gone` or `Missing`, and the
code that `StateManager` folds into one step is taken await by await.

| Action | Code |
|---|---|
| `AskForAccount`, `LookUp` | a read of one account, or `setBalance`, up to the first `await` in `getAccount` |
| `AskToExecute`, `ExecutionReads` | an execution: its checkpoint, then its first `getAccount` |
| `ProofLands`, `ProofFails` | `eth_getProof`; what it gives goes into the cache when it comes |
| `FallbackLands`, `FallbackFails` | the three requests that take its place, two at the fork block and the code at `latest` |
| `GiveAccount` | the rest of `getAccount`: a zero hash becomes that of no code |
| `SetDeletes` | `putAccount` without an account, where there was none: it deletes what is there |
| `SetReadsAgain`, `SetWrites` | `modifyAccountFields`, which reads the account a second time and writes it |
| `ExecutionWrites`, `Commit`, `Revert` | the execution and its `finally` |
| `NewHead` | the real chain moves on, which `latest` follows |

The mapping takes the store's accounts to what the oldest open checkpoint, or the
cache if there is none, shows of them: an entry as it is, put right, or the account
of the fork block where there is no entry.

`Quiet` is a discipline of callers: one call writes at a time, and nobody else
touches the account it writes. The code does not enforce it, and it is needed in
all its parts. A load that comes late puts the account of the fork block over one
written meanwhile (`LoadingLate`); `setBalance` is a read followed by a write; and
a write made while an execution is open goes with its revert. With it, reads of
other accounts may overlap everything, loads of one account may overlap each
other, and an account may be loaded under a checkpoint and forgotten by its revert.
Executions touch one account, and one checkpoint level is in use: nesting and
crossed checkpoints are `SimulationEngine`'s matter. Only balances are set.

### ForkCreation

One creation, from the call of `create` with a chain id or with a provider to the
engine or the error. A provider brings one URL or, made by `SimulationProvider` of a
chain id, that behind which there is a list (`ProviderUrls`). The creation waits in
`detecting`, `counting`, `joining` and `polling` (four requests) and in `pausing`
(the half second between two polls). Each request starts with the first URL:
`NextUrl` is an error status or an exception, `Refused` a JSON-RPC error, which is
an answer to `fetch`; `ChainDetected`, `HeightTold`, `BeginPolling` and `Polled`
are the answers. `elapsed` counts pauses up to the timeout (30 in the code), and
passes while a poll is out too, so that an answer may come after the deadline.
`behind` remembers which nodes did not know the block when the polling began.

`faults` says what may be wrong with each node, and stays as it is: a node with a
fault may answer or fail each time, one without always answers. What ethers itself
sends, repeats or asks first for one call of its provider is folded into one
request. The list of the code has one URL for every network today; the loop over
URLs is code all the same, and is checked with three.

### SignatureMatcher

Strings are records `[of, spelling]`: an account and `lower`, `checksum` or `key`.
`AllLower` are the addresses whose EIP-55 checksum has no capital letter, so that
both spellings are the same string. `RegisterSimulationPublicKey` keys by what
`bytesToHex` gives, `MakeWallet` keys the way back by ethers' `wallet.address`,
and `Recovered` is the hook, which looks up lower case. It recovers every signature
for chain id 1, which the library refuses for a legacy transaction of another chain
(`Recoverable`): `Mainnet` says whether the forked chain has the id 1, and a
transaction sent is legacy or not, whoever it is from. All of it is synchronous:
`ImpersonateAccount`, `InitializeSigned` and `InitializeUnsigned` are whole calls.

### SimulationProvider and JsonRpcApi

A batch goes `starting` (in `_start`, only if there was no engine) → `queued`
(ethers collects) → `running` → `settled` or `rejected`. A request of it is
answered by one handler action. Handlers read or write the shared state in one
stretch, so that one action is faithful; the exceptions are the sends, which take
`BeginTransaction`, `BeginBlock` and `EndTransaction`, and forwarding, which takes
`Forwarded`. What an execution does to the engine's state is `SimulationEngine`'s
matter; the handlers see the engine's block number and its index.
`getImpersonatedSigner`, which may also create an engine, is a batch without
requests; with a public key it ends by throwing. Parameters that cannot be read
are answered with an error or reject the batch (`InvalidParams`), as the checks
themselves throw where a string is missing. `indexed` has one entry for each request
that sends: within one engine no two of them have the same hash, because unsigned
transactions are given random ones and of the signed ones an engine indexes at most
one (see `EngineBlocks`). The layout of replies is left out, except for the block numbers
they carry; `told` and `before` record what clients have been told, and what they
had been told when each batch was sent.

`StartAlone` says that clients leave the provider alone while it creates its
engine. The code does not enforce it; `RpcRace` shows what happens without it.

## Runs

| Run | What it shows |
|---|---|
| `EngineExclusive` | 3 requests, 13 contents, each made at rest: the engine implements `Ledger` (`ImplementsLedger`), loses nothing that succeeded (`SucceededStays`) and of accounts and storage keeps nothing else (`FailedLeaveNoEffects`) |
| `EngineFree` | 2 overlapping requests: `TypeOK`, `SectionsBalanced`, `CodeRestored`, `ResultsIndexed`, `BaseMovesByCommit`; no work is set back (`WorkAdvances`), every promise settles (`Settles`) and every section of every request closes (`SectionsClose`) |
| `EngineAwaited` | *violates* `SucceededStays` |
| `EngineBlocks` | *violates* `LastBlockFound` |
| `Matcher` | On a chain whose id is not 1: `TypeOK`, `NoThirdSender`, `WalletsOneToOne`, `SenderStable`, and when exactly a simulation signature is accepted (`AcceptedWithoutCapitals`) |
| `MatcherAccepted` | *violates* `SignatureAccepted`, even on the chain with id 1 |
| `MatcherImpersonation` | *violates* `ImpersonationReturnsKey` |
| `Rpc` | 3 overlapping batches: `TypeOK`, `TimeMovesForward`, `InventedBlocksDistinct`, `AcknowledgedStaysLocal` |
| `RpcRace` | *violates* `AcknowledgedStaysLocal`, engine creation unprotected |
| `Loading` | 4 calls that keep quiet: `TypeOK`, loading implements the store (`ImplementsStore`), and a balance that was set is read (`LatestBalanceRead`) |
| `LoadingLate` | *violates* `LatestBalanceRead`, by calls that do not |
| `Creation` | `TypeOK`, `OneHealthyEnough`, `KnownBlockFound`, every step leaves less to do (`AlwaysLessLeft`), and creation ends (`Resolves`) |

To repeat one: `tlc -config EngineFree.cfg MCSimulationEngine.tla`.

**Bounds.**

* `MaxBundle = 2`: two transactions are the least that lets one fail after another
  has written, two preparations overlap, and two nonces of a sender collide.
* Two overlapping requests, up to five sections between them (each request has its
  own and those of its estimates), already produce every pair of overlapping
  sections: commits and reverts crossed, reverts inside each other's loops, a
  setter landing in a foreign checkpoint. The theorems remove the bound for the
  safety properties.
* `Factories`: one payload that creates contracts and one that does not, so that code
  is deployed by successes, by failures and by estimates; the same transaction is
  offered alone, in a bundle of its own and in a mixed one, so that entries of the
  index are overwritten. Two equal transactions in one bundle that share an entry
  and are not both in a block would need a bundle of three; the proof covers it.
* Three requests one at a time: one that prepares the state, one that succeeds or
  fails, one that observes it.
* Accounts: one without a registered key and with a nonce of its own on the fork,
  one with a registered key, and that one's wallet. No account is `Mapped` in the
  runs: the hook misses for all but about one random address in four thousand
  (`(13/16)^40`, the odds that no hex digit of forty is a capital).
* The matcher: two accounts in two spellings need at most four wallets, so the
  supply never runs out. One account and one wallet are spelled one way only.
* Batches: three, so that a number can be told in one, another be sent, and a third
  move the counter in between; two engines, the least that lose something.
  `MaxRequests = 4` is the longest batch offered. `FirstBlockless = 5` stands for
  the large constant the code starts from; all that matters is that it lies above
  the fork block, and `ApiAssumption` says so. The counter needs no bound of its
  own: each lookup of a batch moves it once.

* Loading: four calls on two addresses, one with an account in the fork block and
  one without (so that its hash may be zero and an execution may delete it): one to
  load, one to change, one to fail and forget, one to see. `LaterBlock` differs
  from the fork block in balance and nonce and not in code, which is what the
  comment in the fallback supposes.
* Creation: three nodes, so that there is a first, a middle and a last URL;
  `MaxHeight = 2` lets a node be two blocks behind, and `Timeout = 2` lets a poll
  be early, in time and late. All values of `faults` and of the heights are tried.

Requests, batches and calls are symmetric in every run without liveness. Requests
and batches are used once each and a creation is over when it is over, so that the
system really comes to an end: `CHECK_DEADLOCK FALSE` in the engine, RPC and
creation runs. The matcher never stops, nor does the real chain in the loading
runs, and these check for deadlock.

**Fairness.** `FairSpec` adds `WF_vars(Continue)`: as long as some pending
operation can go on, some operation eventually does. That is the event loop, plus
the assumption that every request to the real chain ends with an answer or a
failure, as `fetch` and ethers' own timeout arrange. No fairness between operations
is needed, and none is assumed of callers. `ForkCreation` has `WF_vars(Proceed)`,
requests end one way or the other, and `WF_vars(Tick)`, timers fire; nobody owes the
creation a block. The other runs need no fairness: their properties are safety
properties.

## What the violated runs show

* **A success may be undone (`EngineAwaited`).** When one preparation of a bundle
  fails, `Promise.all` rejects at once and the estimate of another transaction goes
  on in the background, holding a checkpoint. The caller's next operation is told
  it succeeded, and the estimate's `finally` then reverts it.
* **A second signed transaction fails (`EngineBlocks`).** The engine insists on a
  head block other than the genesis once it has run a block, but nothing puts the
  block into the blockchain.
* **`impersonateAccount` always throws (`MatcherImpersonation`).** It registers
  under the address and asks under the public key.
* **The wallet's signature is not accepted (`MatcherAccepted`).** The way back is
  keyed by the checksummed spelling and looked up in lower case.
* **Two engines (`RpcRace`).** Two first uses that overlap create two engines; the
  second takes the place of the first, whose transactions are then looked for on
  the real chain.
* **A set balance is lost (`LoadingLate`).** A read has asked the provider for an
  account; `setBalance` of the same account loads it, writes it and resolves; the
  read's answer then puts the account of the fork block back.

Seen on the way, and stated by no line of the repository, so that no run is about
them:

* The code that a transaction deployed stays in `#deployedContracts`, and each
  `revert()` puts it back into the code cache, also where the transaction belongs to
  a bundle that was rolled back, failed after it had created a contract, or was only
  estimated. The accounts are taken back, so that it is code without an account, but
  `getContractCode` finds it. `FailedLeaveNoEffects` and `Ledger` are about accounts
  and storage and do not cover it.
* The index entries of a bundle that was rolled back stay too, with the status of
  each transaction by itself.
* A signed transaction can be executed twice, since the nonce it was prepared with
  only matters in a block and may still be that of its account: a simulation
  signature moves the nonce of the wallet it recovers to. Both runs have one hash,
  and the second entry takes the place of the first: after a mixed bundle, which
  runs without a block, the block number of the first run is gone. Two equal ones in
  one bundle share an entry as well. `ResultsIndexed` allows for both, and says what
  still holds.
* The hook recovers signatures with the chain id 1 (`signature-matcher.ts:17`). On
  any other chain a legacy transaction that is signed, by a simulation wallet or by
  its own account, throws in it. In `SimulationEngine` this is one of the reasons
  why an execution may throw at any time (`RunThrows`).
* `eth_getBlockByNumber` (`src/jsonrpcapi/index.ts:241`) takes a block for the real
  chain's where its siblings (`:320`) take it for a simulated one, and the other
  way round.
* The errors of a failed gas estimate are answered without the transaction being
  indexed, although it has a hash; the client that asks for it by hash is sent to
  the real chain.
* In `createVM`, a poll answered with `null` is repeated and one that fails is not.
* The patched `fetch` makes an exception of an error status, 429 among them; ethers,
  which waits and tries again when throttled, never sees it. A JSON-RPC error that
  comes with status 200 does not make it try the next URL.

## Proofs

`tlapm SimulationEngine_proofs.tla` and so on check everything from nothing in
a few minutes altogether. The theorems hold for all values of the constants
that satisfy `EngineAssumption`, `LoadingAssumption`, `CreationAssumption`,
`MatcherAssumption`, `ProviderAssumption` and `ApiAssumption`: any number of
requests, accounts, batches, engines and contents; the one finiteness assumed is of the set of requests, because the balance of the
stack counts sections.

**Engine** (any `Admission`):

* `TypeCorrect`: `Spec => []TypeOK`. `TypeOK` alone is not inductive: that the
  transaction a section runs is one the bundle has needs `ResultsFit` (a section
  has no more results than transactions) and `PrepFits` (only transactions of the
  bundle are prepared).
* `StackBalanced`: `Spec => []SectionsBalanced`, from
  `IInv == TypeInv /\ AnswerFits /\ SectionsBalanced`. Each step is shown to leave
  the stack alone, to push one checkpoint while exactly one section or execution
  opens, or to pop one while exactly one closes (`LeavesStack`, `PushesStack`,
  `PopsStack`), and set cardinalities follow. `AnswerFits` says that a section
  being executed belongs to a request still waiting, so that a section is never
  opened or closed twice.
* `BaseMovesOnlyByCommit`: `Spec => BaseMovesByCommit`, from the balance: where
  more than one section is open the stack is deeper than one, so that a commit or
  a revert leaves the oldest checkpoint in place.
* `CodeAlwaysRestored`: `Spec => []CodeRestored`. The property speaks of moments
  when no `revert()` is in its loop and says nothing of the ones in between, so it
  is not inductive. `CodeComing` is: whatever the code cache lacks, some `revert()`
  in its loop has still to put back.
* `ResultsAlwaysIndexed`: `Spec => []ResultsIndexed`, from `ExecFits` and an
  invariant of the index: every entry fits a run that has ended (`IndexFits`), and
  all that a resolved execution ran has an entry under its hash (`HasIndexed`).
  An overwriting keeps both, because the new entry is of the last transaction with
  that hash in its own execution (`LastPosition`, whose `CHOOSE` has a value because a
  set of positions that is not empty has a largest). The number
  written into the index is read after the block's awaits, when it might be
  another's. It is not, because an execution runs in the first block or in none:
  every later one fails for want of a last block, as `EngineBlocks` shows. The
  proof rests on that failure: who mends it has to look at this number again.

* `WorkAlwaysAdvances`: `Spec => WorkAdvances` (`EngineProgress_proofs`), from `IInv`
  and `EstimatesOnce` (the section of an estimate is not open before its
  transaction is populated). No step sets a section, a preparation or a promise
  back, and each step that is not a caller's brings one forward. What a section has
  to get through is bounded (`WorkBounded`: six stages, no more results than
  transactions, each contract once), so that the engine cannot work for ever on
  finitely many requests. That is `Settles` and `SectionsClose` but for fairness and
  for there always being a step to take, which TLC checks.

**Ledger** (`Careful`): `LedgerImplemented`, `Careful => (Spec => ImplementsLedger)`,
over `IInv` and two more parts, `Alone` and `RunFits`. `Alone` says that at most one
request is `Active`, that is, has anything to do that touches the world or gives an
answer; its section is then the only one open and the stack no deeper than that
section and what runs in it. A rejected bundle may go on preparing transactions
that need no estimate: such steps (`Strays`) change nothing a ledger sees. Under
`exclusive` nothing is left when a request is made; under `awaited` with
`EstimatesAlone` nothing active is left, since an answer comes after the only
estimate (`Attended`). `RunFits`: under an
execution that has not thrown the world is the ledger and what its transactions
have done so far, and an execution that returns has run them all. Making a request
is then `AskFor`, a call's `EnterRun` is `Observe`, `CommitSection` and a setter's
write are `Succeed`, a failed preparation, a failed estimate and the end of a
`revert()` are `Fail` (or `Succeed` with nothing, for a call or an estimate that
went well), and every other step is no step of `Ledger`, as the base of the stack
stays where it is. `SucceededAlwaysStays` and `FailedAlwaysLeaveNoEffects`: what has
succeeded is in the ledger for good, nothing else is, and at rest the world is the
ledger. Without `Careful` these do not hold: `EngineAwaited` shows a success lost by
a caller that awaits but lets two estimates run side by side.

**Loading**: `StoreImplemented`: `Quiet` and `CodeDoesNotChange` (what the comment in
the fallback says) imply `Spec => ImplementsStore`. The
invariant says that a call holds, or is about to be given, just the account that
the store has (`HeldFits`), that the cache shows the same as the oldest checkpoint
except where an execution has written (`CacheFits`), and that whoever writes is
alone with what it writes (`Alone`), which is where `Quiet` comes in. Each action is
then a step of the store or one nobody sees: a read takes place when it gets its
account, `setBalance` when it writes, an execution when it commits.
`LatestBalanceAlwaysRead`, under the same conditions, says of the store's history
what `ImplementsStore` says of its steps: whoever reads an account after a
`setBalance` that no other write followed is given that balance. `LoadingLate`
violates the same property without `Quiet`.
`TypeCorrect` needs no condition at all. Which accounts the tasks hold follows from
their phases (`HoldsAccount`), and that no `finally` block finds the stack of
checkpoints empty from its being as deep as there are executions under way
(`StackFits`).

**Creation**: `TypeCorrect` (`fetch` never leaves its list of URLs),
`OneHealthyAlwaysEnough`, from `TriedInv` (every URL before the current one cannot
be counted on), and `KnownBlockAlwaysFound`, from `BehindInv` (as nodes only learn
blocks, whoever answers `null` was behind at the start), for lists of any length,
any number of nodes and any timeout. `AlwaysLess`: `Spec => AlwaysLessLeft`; every
step of `create()` leaves less of it in the lexicographic order of the awaits to
come, the time to the deadline, the rest of the turn of the loop and the URLs to
try. These are natural numbers (`LeftNatural`), so that there is no endless
creation: `Resolves`, but for fairness.

**Matcher**: `TypeCorrect`, `NoThirdSenderEver`, `WalletsAlwaysOneToOne`, `SenderAlwaysStable`
and `AcceptedOnlyWithoutCapitals` (the exact extent of the finding of
`MatcherAccepted`: the hook works for the wallets whose checksummed address happens
to have no capital letter, and for no other; and of legacy transactions only for
those of the chain with id 1), from `TablesInv`: the two tables are inverse to each other up to the spelling of
the wallet's address (`WalletsReversed`, `ReverseOnlyWallets`), wallets exist only
for registered spellings, every signer is the wallet of the spelling it signed
for, and keys are registered in lower case.

**JSON-RPC**: `TypeCorrect`, `TimeAlwaysForward`, `InventedAlwaysDistinct`, from
`ClockInv`: every number told, or written into a reply not yet delivered, is at
most the counter (`NothingAhead`), so the next one invented is larger than all.
`AcknowledgedAlwaysLocal`: `StartAlone` implies `Spec => AcknowledgedStaysLocal`,
from `AckInv`: executions in progress use the one engine there is (`OneEngine`),
and it has indexed all it has acknowledged (`AcknowledgedIndexed`).

**Only model-checked**: the liveness properties (`Settles`, `SectionsClose`,
`Resolves`); liveness under fairness, `ENABLED` and facts about recursive
definitions are beyond the prover used. The parts of them that are safety, that all
work advances and none is repeated, are proved (`WorkAlwaysAdvances`, `AlwaysLess`).
Every invariant, every action property and both refinements that a passing run
checks are proved as well.

## Not modelled

* Loading of code and storage, which the class leaves to the library; it goes the
  way of accounts.
* The revert reasons (`addErrorMessage`): a pure decoder of revert data into the
  wording of a message; decoding is ethers'. That there is an error is in the
  models that use it.
* The construction of the VM in `createVM`, which asks nobody: part of the last step.
* Gas amounts, values, logs, and the layout of blocks, receipts and replies: no
  property is about them.
* The log indexer (commented out), declarations, and the manual test script, which
  was read for what it expects of the engine.
* The EVM library and ethers are external: they are modelled by what the code uses
  of them.

## Plan

Done, in this order: `StateManager`, `SimulationEngine`, `Ledger`, their runs and
proofs; `SignatureMatcher`; `SimulationProvider` and `JsonRpcApi`; `AccountStore` and
`AccountLoading`; `ForkCreation`; the ledger for callers that merely await, the
progress of the engine and of a creation.

Next: an abstract specification of the block numbers that clients are told, over
engines and batches, and `JsonRpcApi` shown to implement it.
