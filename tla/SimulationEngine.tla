-------------------------- MODULE SimulationEngine --------------------------
(***************************************************************************)
(* SimulationEngine (src/simulation/index.ts) with populateTransaction and *)
(* estimateGas (src/simulation/tx.ts), initializeSimulationTransaction     *)
(* (src/tx.ts) and the TransactionIndexer.                                 *)
(*                                                                         *)
(* The engine is one object on one JavaScript thread: what runs between    *)
(* two awaits is atomic, and at every await any other pending operation    *)
(* may continue.  An action below is one such stretch.  The engine has no  *)
(* lock, so operations interleave as the caller lets them: Admission says  *)
(* when the caller issues the next request.                                *)
(*                                                                         *)
(* A SECTION is a try block that opens with checkpoint() and whose finally *)
(* block reverts or commits.  Section <<r, 0>> is the one of request r     *)
(* itself; section <<r, i>> is the estimateGas run while transaction i of  *)
(* a bundle is prepared.  execute(tx) is a bundle of one transaction.      *)
(***************************************************************************)
EXTENDS StateManager, FiniteSets

CONSTANTS
  Requests,     \* identities of the requests callers make, each used once
  Accounts,     \* account addresses
  ForkNonce,    \* ForkNonce[a]: the nonce of account a in the forked state
  Registered,   \* accounts whose public key the signature matcher knows
  Wallet,       \* Wallet[a]: the account of a's simulation wallet
  Mapped,       \* accounts whose simulation signatures recover to themselves
  Payloads,     \* what else a transaction says: recipient, data, value, fees ...
  Factories,    \* the payloads whose execution may create contracts
  MaxBundle,    \* bound: the longest bundle
  Workload,     \* the request contents callers choose from
  Admission     \* "exclusive", "awaited" or "free"

\* create: it has no recipient; gas: it says its gas limit.
Tx == [from: Accounts, create: BOOLEAN, gas: BOOLEAN, payload: Payloads]

Kinds == {"call", "estimate", "bundle", "raw", "set"}

\* nonce is the nonce a raw transaction was signed with.
Descriptor ==
  [kind: Kinds, txs: UNION {[1..n -> Tx] : n \in 0..MaxBundle}, nonce: Nat]

ASSUME EngineAssumption ==
  /\ IsFiniteSet(Requests)
  /\ MaxBundle \in Nat \ {0}
  /\ ForkNonce \in [Accounts -> Nat]
  /\ Registered \subseteq Accounts
  /\ Wallet \in [Registered -> Accounts]
  /\ Mapped \subseteq Registered
  /\ Factories \subseteq Payloads
  /\ Workload \subseteq Descriptor
  /\ \A d \in Workload : d.kind \in {"call", "estimate", "raw"} => Len(d.txs) = 1
  /\ Admission \in {"exclusive", "awaited", "free"}

Sections == Requests \X (0..MaxBundle)
Main(r) == <<r, 0>>

\* An effect names the section and the transaction of it that wrote it: the
\* sender's nonce increment, or what the transaction itself changes.
Effect == [sec: Sections, tx: 1..MaxBundle, part: {"nonce", "data"}]
NonceOf(s, i) == [sec |-> s, tx |-> i, part |-> "nonce"]
DataOf(s, i) == [sec |-> s, tx |-> i, part |-> "data"]
EffectsOf(s, i) == {NonceOf(s, i), DataOf(s, i)}

\* A transaction, by its request and its place in it.  It also names what the
\* transaction creates, which is the same when it is estimated.
Contract == Requests \X (1..MaxBundle)

\* The hash of a signed transaction is decided by what was signed and by whom;
\* one that is not signed is given a random hash.
Hash ==
  [signer: Accounts, create: BOOLEAN, payload: Payloads, nonce: Nat]
    \union [request: Requests, position: 1..MaxBundle]

VARIABLES
  request,          \* what each request asks, NoRequest before it is made
  prep,             \* how far #prepareTransaction is for each transaction
  txNonce,          \* the nonce each transaction carries
  phase,            \* how far each section is
  results,          \* the outcomes of the transactions a section has run
  threw,            \* has the section's try block thrown
  restored,         \* the contracts a section's revert() has put back
  block,            \* number of the block a request executes in, 0 for none
  blockNumber,      \* #blockNumber
  lastTimestamp,    \* #lastTimestamp, counted from the engine's creation
  index,            \* the transaction indexer's maps, by hash
  answer,           \* how the promise of each request settled
  seen              \* the world a call ran against

vars == <<stateVars, request, prep, txNonce, phase, results, threw, restored,
          block, blockNumber, lastTimestamp, index, answer, seen>>

NoRequest == [kind |-> "none", txs |-> <<>>, nonce |-> 0]

PrepStates == {"none", "nonce", "populate", "estimate", "ready", "failed"}

\* head: waiting for the last block; inside: the library is executing;
\* undoing: it threw and its revert() is in its loop; returning: about to run
\* the finally block; restoring: the finally block's revert() is in its loop.
Phases == {"idle", "head", "running", "inside", "undoing", "returning",
           "restoring", "closed"}
Answers == {"none", "ok", "error", "rejected"}
Outcomes == {"ok", "exception"}
IndexEntry ==
  [tx: Contract, status: Outcomes, block: Nat]

TypeOK ==
  /\ StateTypeOK(Effect, Contract)
  /\ request \in [Requests -> Workload \union {NoRequest}]
  /\ prep \in [Requests -> [1..MaxBundle -> PrepStates]]
  /\ txNonce \in [Requests -> [1..MaxBundle -> Nat]]
  /\ phase \in [Sections -> Phases]
  /\ results \in [Sections -> Seq(Outcomes)]
  /\ threw \in [Sections -> BOOLEAN]
  /\ restored \in [Sections -> SUBSET Contract]
  /\ block \in [Requests -> Nat]
  /\ blockNumber \in Nat
  /\ lastTimestamp \in Nat
  /\ DOMAIN index \subseteq Hash
  /\ index \in [DOMAIN index -> IndexEntry]
  /\ answer \in [Requests -> Answers]
  /\ seen \in [Requests -> SUBSET Effect]

Init ==
  /\ StateInit
  /\ request = [r \in Requests |-> NoRequest]
  /\ prep = [r \in Requests |-> [i \in 1..MaxBundle |-> "none"]]
  /\ txNonce = [r \in Requests |-> [i \in 1..MaxBundle |-> 0]]
  /\ phase = [s \in Sections |-> "idle"]
  /\ results = [s \in Sections |-> <<>>]
  /\ threw = [s \in Sections |-> FALSE]
  /\ restored = [s \in Sections |-> {}]
  /\ block = [r \in Requests |-> 0]
  /\ blockNumber = 0
  /\ lastTimestamp = 0
  /\ index = [h \in {} |-> {}]
  /\ answer = [r \in Requests |-> "none"]
  /\ seen = [r \in Requests |-> {}]

-----------------------------------------------------------------------------
(* Which transactions a section runs, and who they are from. *)

Index(s) == s[2]
Owner(s) == s[1]
IsMain(s) == Index(s) = 0
Kind(s) == request[Owner(s)].kind
SectionTxs(s) ==
  IF IsMain(s) THEN request[Owner(s)].txs
               ELSE <<request[Owner(s)].txs[Index(s)]>>

Executes(s) == IsMain(s) /\ Kind(s) \in {"bundle", "raw"}

\* A transaction without a signature cannot go into a block, and one such
\* transaction keeps the whole bundle out.
Signed(r, tx) == request[r].kind = "raw" \/ tx.from \in Registered
InBlock(s) ==
  Executes(s) /\ \A i \in DOMAIN SectionTxs(s) : Signed(Owner(s), SectionTxs(s)[i])

\* A simulation signature is made with the key of the account's wallet.
Signer(r, tx) == IF request[r].kind = "raw" THEN tx.from ELSE Wallet[tx.from]

\* The hash of a transaction that has run: transaction.hash(), or where that
\* throws for want of a signature, one of its own.  The gas limit of a prepared
\* transaction is always the same in it; that of a raw one is in its payload.
HashOf(r, i) ==
  LET tx == request[r].txs[i] IN
  IF Signed(r, tx)
  THEN [signer |-> Signer(r, tx), create |-> tx.create, payload |-> tx.payload,
        nonce |-> txNonce[r][i]]
  ELSE [request |-> r, position |-> i]

\* The account the library takes for the sender.  A raw transaction and an
\* unsigned one are from their sender; a simulation signature recovers to the
\* account itself only where the matcher's hook is in force and maps it.
Sender(s, i) ==
  LET tx == SectionTxs(s)[i] IN
  IF Kind(s) = "raw" \/ tx.from \notin Registered THEN tx.from
  ELSE IF Executes(s) /\ tx.from \in Mapped THEN tx.from
  ELSE Wallet[tx.from]

Nonce(a) ==
  ForkNonce[a]
    + Cardinality({e \in world : e.part = "nonce" /\ Sender(e.sec, e.tx) = a})

-----------------------------------------------------------------------------
(* Requests: what runs up to the first await. *)

Asked(r) == request[r] # NoRequest
Outstanding(r) == Asked(r) /\ answer[r] = "none"
OpenPhases == {"head", "running", "inside", "undoing", "returning"}
Busy(r) ==
  \/ \E i \in 0..MaxBundle : phase[<<r, i>>] \in OpenPhases \union {"restoring"}
  \/ \E i \in 1..MaxBundle : prep[r][i] \in {"nonce", "populate", "estimate"}

\* free: callers never wait.  awaited: one caller awaits each promise before
\* it goes on.  exclusive: and nothing of earlier requests is still running.
Admitted ==
  /\ Admission # "free" => \A r \in Requests : ~Outstanding(r)
  /\ Admission = "exclusive" => \A r \in Requests : ~Busy(r)

Ask(r, d) ==
  /\ ~Asked(r)
  /\ Admitted
  /\ request' = [request EXCEPT ![r] = d]

OpenSection(s, ph) ==
  /\ phase' = [phase EXCEPT ![s] = ph]
  /\ Checkpoint

\* call() and the public estimateGas() checkpoint before their first await.
Call(r, d) ==
  /\ d.kind = "call"
  /\ ~d.txs[1].create
  /\ Ask(r, d)
  /\ OpenSection(Main(r), "running")
  /\ UNCHANGED <<prep, txNonce, results, threw, restored, block, blockNumber,
                 lastTimestamp, index, answer, seen>>

CallWithoutTo(r, d) ==
  /\ d.kind = "call"
  /\ d.txs[1].create
  /\ Ask(r, d)
  /\ answer' = [answer EXCEPT ![r] = "rejected"]
  /\ UNCHANGED <<stateVars, prep, txNonce, phase, results, threw, restored,
                 block, blockNumber, lastTimestamp, index, seen>>

EstimateGas(r, d) ==
  /\ d.kind = "estimate"
  /\ Ask(r, d)
  /\ OpenSection(Main(r), "running")
  /\ UNCHANGED <<prep, txNonce, results, threw, restored, block, blockNumber,
                 lastTimestamp, index, answer, seen>>

\* executeTypedTransaction(): the transaction comes signed.
ExecuteTyped(r, d) ==
  /\ d.kind = "raw"
  /\ Ask(r, d)
  /\ OpenSection(Main(r), "head")
  /\ txNonce' = [txNonce EXCEPT ![r][1] = d.nonce]
  /\ UNCHANGED <<prep, results, threw, restored, block, blockNumber,
                 lastTimestamp, index, answer, seen>>

\* execute() and executeBundle(): every transaction starts being prepared.
ExecuteBundle(r, d) ==
  /\ d.kind = "bundle"
  /\ Ask(r, d)
  /\ prep' = [prep EXCEPT ![r] =
                [i \in 1..MaxBundle |->
                   IF i \in DOMAIN d.txs THEN "nonce" ELSE "none"]]
  /\ UNCHANGED <<stateVars, txNonce, phase, results, threw, restored, block,
                 blockNumber, lastTimestamp, index, answer, seen>>

\* setBalance() and setStorage(): nothing is written before the first await.
SetState(r, d) ==
  /\ d.kind = "set"
  /\ Ask(r, d)
  /\ UNCHANGED <<stateVars, prep, txNonce, phase, results, threw, restored,
                 block, blockNumber, lastTimestamp, index, answer, seen>>

\* The setter's write, into whatever state is live by then.
SetStateLands(r) ==
  /\ request[r].kind = "set"
  /\ answer[r] = "none"
  /\ Write({DataOf(Main(r), 1)})
  /\ answer' = [answer EXCEPT ![r] = "ok"]
  /\ UNCHANGED <<request, prep, txNonce, phase, results, threw, restored,
                 block, blockNumber, lastTimestamp, index, seen>>

\* The account could not be fetched from the provider.
SetStateFails(r) ==
  /\ request[r].kind = "set"
  /\ answer[r] = "none"
  /\ answer' = [answer EXCEPT ![r] = "rejected"]
  /\ UNCHANGED <<stateVars, request, prep, txNonce, phase, results, threw,
                 restored, block, blockNumber, lastTimestamp, index, seen>>

-----------------------------------------------------------------------------
(* #prepareTransaction: one pending chain for each transaction of a bundle. *)

\* (mutant) A failed preparation is swallowed.
RejectNothing(r) == UNCHANGED answer

\* Promise.all rejects with the first failure and does not stop the others.
RejectFirst(r) ==
  answer' = IF answer[r] = "none" THEN [answer EXCEPT ![r] = "rejected"]
                                  ELSE answer

\* getAccountNonce reads the live state.
ReadNonce(r, i) ==
  /\ prep[r][i] = "nonce"
  /\ txNonce' = [txNonce EXCEPT ![r][i] = Nonce(request[r].txs[i].from)]
  /\ prep' = [prep EXCEPT ![r][i] = "populate"]
  /\ UNCHANGED <<stateVars, request, phase, results, threw, restored, block,
                 blockNumber, lastTimestamp, index, answer, seen>>

\* A gas limit is estimated when none is given, except for a contract creation.
Estimates(tx) == ~tx.gas /\ ~tx.create

\* The provider has populated the transaction.
Populated(r, i) ==
  /\ prep[r][i] = "populate"
  /\ LET tx == request[r].txs[i] IN
     \/ /\ ~Estimates(tx)
        /\ prep' = [prep EXCEPT ![r][i] = "ready"]
        /\ UNCHANGED <<stateVars, phase>>
     \/ /\ Estimates(tx)
        /\ prep' = [prep EXCEPT ![r][i] = "estimate"]
        /\ OpenSection(<<r, i>>, "running")
  /\ UNCHANGED <<request, txNonce, results, threw, restored, block,
                 blockNumber, lastTimestamp, index, answer, seen>>

\* An invalid sender, a failed account load or a failed provider request.
PrepareFails(r, i) ==
  /\ prep[r][i] \in {"nonce", "populate"}
  /\ prep' = [prep EXCEPT ![r][i] = "failed"]
  /\ RejectFirst(r)
  /\ UNCHANGED <<stateVars, request, txNonce, phase, results, threw, restored,
                 block, blockNumber, lastTimestamp, index, seen>>

\* Every transaction is ready: #executeTransactions opens its section.
StartExecution(r) ==
  /\ request[r].kind = "bundle"
  /\ answer[r] = "none"
  /\ phase[Main(r)] = "idle"
  /\ \A i \in DOMAIN request[r].txs : prep[r][i] = "ready"
  /\ OpenSection(Main(r), IF InBlock(Main(r)) THEN "head" ELSE "running")
  /\ UNCHANGED <<request, prep, txNonce, results, threw, restored, block,
                 blockNumber, lastTimestamp, index, answer, seen>>

-----------------------------------------------------------------------------
(* Inside a section. *)

\* The try block throws.
Throw(s, ph) ==
  /\ threw' = [threw EXCEPT ![s] = TRUE]
  /\ phase' = [phase EXCEPT ![s] = ph]
  /\ UNCHANGED <<request, prep, txNonce, results, block, blockNumber,
                 lastTimestamp, index, answer, seen>>

\* The head of vm.blockchain: the genesis block made from the fork block.
\* runBlock does not add the block it runs, and nothing else adds one.
HeadNumber == 0

\* (mutant) The last block is not looked at.
BeginAnyBlock(r) ==
  /\ phase[Main(r)] = "head"
  /\ blockNumber' = blockNumber + 1
  /\ lastTimestamp' = lastTimestamp + 1
  /\ block' = [block EXCEPT ![r] = blockNumber + 1]
  /\ phase' = [phase EXCEPT ![Main(r)] = "running"]
  /\ UNCHANGED <<stateVars, request, prep, txNonce, results, threw, restored,
                 index, answer, seen>>

\* getCanonicalHeadBlock has answered.
BeginBlock(r) ==
  /\ phase[Main(r)] = "head"
  /\ ~(HeadNumber = 0 /\ blockNumber # 0)
  /\ blockNumber' = blockNumber + 1
  /\ lastTimestamp' = lastTimestamp + 1
  /\ block' = [block EXCEPT ![r] = blockNumber + 1]
  /\ phase' = [phase EXCEPT ![Main(r)] = "running"]
  /\ UNCHANGED <<stateVars, request, prep, txNonce, results, threw, restored,
                 index, answer, seen>>

\* throw new Error('Failed to get last block')
NoLastBlock(r) ==
  /\ phase[Main(r)] = "head"
  /\ HeadNumber = 0 /\ blockNumber # 0
  /\ Throw(Main(r), "returning")
  /\ UNCHANGED <<stateVars, restored>>

HasRun(s) == Len(results[s]) = Len(SectionTxs(s))

\* The library begins to execute a call or the next transaction.
EnterRun(s) ==
  /\ phase[s] = "running"
  /\ ~HasRun(s)
  /\ phase' = [phase EXCEPT ![s] = "inside"]
  /\ seen' = IF Kind(s) = "call" THEN [seen EXCEPT ![Owner(s)] = world] ELSE seen
  /\ Checkpoint
  /\ UNCHANGED <<request, prep, txNonce, results, threw, restored, block,
                 blockNumber, lastTimestamp, index, answer>>

Ran(s, outcome) ==
  /\ phase' = [phase EXCEPT ![s] = "running"]
  /\ results' = [results EXCEPT ![s] = Append(@, outcome)]
  /\ UNCHANGED <<request, prep, txNonce, threw, restored, block, blockNumber,
                 lastTimestamp, index, answer, seen>>

\* evm.runCall: no nonce, no contract, and nothing on an exception.
RunCall(s) ==
  /\ phase[s] = "inside"
  /\ Kind(s) = "call"
  /\ \/ Ran(s, "ok") /\ EndExecution({DataOf(s, 1)}, {})
     \/ Ran(s, "exception") /\ EndFailedExecution({}, {})

\* What the execution of a transaction may have created before it failed, or
\* even though it has no recipient: a contract that executes can create others.
\* Nothing takes their code out of deployedContracts again.
MayCreate(s, i) ==
  IF SectionTxs(s)[i].payload \in Factories
  THEN {{}, {<<Owner(s), IF IsMain(s) THEN i ELSE Index(s)>>}}
  ELSE {{}}

Creates(s, i) ==
  IF SectionTxs(s)[i].create
  THEN {{<<Owner(s), IF IsMain(s) THEN i ELSE Index(s)>>}}
  ELSE MayCreate(s, i)

\* vm.runTx, on its own or inside vm.runBlock.  Only in a block is the nonce
\* checked.  An exception undoes all the transaction did but its nonce and the
\* code it deployed.
RunTransaction(s) ==
  LET i == Len(results[s]) + 1 IN
  /\ phase[s] = "inside"
  /\ Kind(s) # "call"
  /\ InBlock(s) => txNonce[Owner(s)][i] = Nonce(Sender(s, i))
  /\ \/ /\ Ran(s, "ok")
        /\ \E created \in Creates(s, i) : EndExecution(EffectsOf(s, i), created)
     \/ /\ Ran(s, "exception")
        /\ \E created \in MayCreate(s, i) :
             EndFailedExecution({NonceOf(s, i)}, created)

\* An address or a transaction that does not parse, a block that cannot be
\* read or built: an error outside the library's own checkpoint.
SectionThrows(s) ==
  /\ phase[s] = "head" \/ (phase[s] = "running" /\ ~HasRun(s))
  /\ Throw(s, "returning")
  /\ UNCHANGED <<stateVars, restored>>

\* revert() up to its loop, which is still to visit every contract; created is
\* what the execution it undoes has deployed.
StartRevert(s, created) ==
  /\ RevertCaches(created)
  /\ restored' = [restored EXCEPT ![s] = {}]

\* A nonce that does not match, a provider request that fails: the library
\* reverts its checkpoint through the overridden revert() before it throws.
RunThrows(s) ==
  /\ phase[s] = "inside"
  /\ \E created \in IF Kind(s) = "call" THEN {{}} ELSE MayCreate(s, Len(results[s]) + 1) :
       StartRevert(s, created)
  /\ Throw(s, "undoing")

RunThrown(s) ==
  /\ phase[s] = "undoing"
  /\ deployedContracts \subseteq restored[s]
  /\ phase' = [phase EXCEPT ![s] = "returning"]
  /\ UNCHANGED <<stateVars, request, prep, txNonce, results, threw, restored,
                 block, blockNumber, lastTimestamp, index, answer, seen>>

\* The last of the transactions that ran with a hash.
LastWith(s, h) ==
  CHOOSE i \in DOMAIN results[s] :
    /\ HashOf(Owner(s), i) = h
    /\ \A j \in DOMAIN results[s] : HashOf(Owner(s), j) = h => j <= i

HashesOf(s) == {HashOf(Owner(s), i) : i \in DOMAIN results[s]}

\* (mutant) A transaction is indexed under its position counted from zero.
IndexedFromZero(s) ==
  [h \in HashesOf(s) |->
     [tx |-> <<Owner(s), LastWith(s, h) - 1>>,
      status |-> results[s][LastWith(s, h)],
      block |-> IF InBlock(s) THEN blockNumber ELSE 0]]

\* #prepareResults indexes every transaction that ran, failed ones too, under
\* the engine's CURRENT block number when they ran in a block.  Of equal ones
\* the last is kept.
IndexedResults(s) ==
  [h \in HashesOf(s) |->
     [tx |-> <<Owner(s), LastWith(s, h)>>,
      status |-> results[s][LastWith(s, h)],
      block |-> IF InBlock(s) THEN blockNumber ELSE 0]]

\* Map.set puts an entry over the one its hash had.
Overwritten(old, new) ==
  [h \in DOMAIN old \union DOMAIN new |->
     IF h \in DOMAIN new THEN new[h] ELSE old[h]]

ReturnResults(s) ==
  /\ phase[s] = "running"
  /\ HasRun(s)
  /\ index' = IF Executes(s) THEN Overwritten(index, IndexedResults(s)) ELSE index
  /\ phase' = [phase EXCEPT ![s] = "returning"]
  /\ UNCHANGED <<stateVars, request, prep, txNonce, results, threw, restored,
                 block, blockNumber, lastTimestamp, answer, seen>>

HasException(s) == \E i \in DOMAIN results[s] : results[s][i] = "exception"

\* (mutant) hasError forgets the errors of the results.
CommitsUnlessThrown(s) == Executes(s) /\ ~threw[s]

\* (mutant) Only where a bundle runs in a block is hasError cleared.
CommitsInBlock(s) == InBlock(s) /\ ~threw[s] /\ ~HasException(s)

Commits(s) == Executes(s) /\ ~threw[s] /\ ~HasException(s)

\* finally, without an error: only an execution ever commits.
CommitSection(s) ==
  /\ phase[s] = "returning"
  /\ Commits(s)
  /\ Commit
  /\ phase' = [phase EXCEPT ![s] = "closed"]
  /\ answer' = [answer EXCEPT ![Owner(s)] = "ok"]
  /\ UNCHANGED <<request, prep, txNonce, results, threw, restored, block,
                 blockNumber, lastTimestamp, index, seen>>

\* (mutant) The revert stands after the try block, where nothing thrown gets.
RevertSectionUnlessThrown(s) ==
  /\ phase[s] = "returning"
  /\ ~Commits(s)
  /\ IF threw[s] THEN UNCHANGED <<stateVars, restored>> ELSE StartRevert(s, {})
  /\ phase' = [phase EXCEPT ![s] = "restoring"]
  /\ UNCHANGED <<request, prep, txNonce, results, threw, block, blockNumber,
                 lastTimestamp, index, answer, seen>>

\* (mutant) finally commits whatever did not throw.
CommitSectionUnlessThrown(s) ==
  /\ phase[s] = "returning"
  /\ ~Commits(s)
  /\ IF threw[s] THEN StartRevert(s, {}) ELSE Commit /\ UNCHANGED restored
  /\ phase' = [phase EXCEPT ![s] = "restoring"]
  /\ UNCHANGED <<request, prep, txNonce, results, threw, block, blockNumber,
                 lastTimestamp, index, answer, seen>>

\* finally, otherwise.
RevertSection(s) ==
  /\ phase[s] = "returning"
  /\ ~Commits(s)
  /\ StartRevert(s, {})
  /\ phase' = [phase EXCEPT ![s] = "restoring"]
  /\ UNCHANGED <<request, prep, txNonce, results, threw, block, blockNumber,
                 lastTimestamp, index, answer, seen>>

Restoring(s) == phase[s] \in {"undoing", "restoring"}

\* (mutant) Putting a code back moves its entry to the end of the map, where the
\* loop meets it again.
RestoreCodeAgain(s, c) ==
  /\ Restoring(s)
  /\ c \in deployedContracts \ restored[s]
  /\ RestoreContract(c)
  /\ UNCHANGED <<restored, request, prep, txNonce, phase, results, threw, block,
                 blockNumber, lastTimestamp, index, answer, seen>>

\* revert() iterates the live map, so it also visits contracts deployed by
\* other operations while it runs.
RestoreCode(s, c) ==
  /\ Restoring(s)
  /\ c \in deployedContracts \ restored[s]
  /\ RestoreContract(c)
  /\ restored' = [restored EXCEPT ![s] = @ \union {c}]
  /\ UNCHANGED <<request, prep, txNonce, phase, results, threw, block,
                 blockNumber, lastTimestamp, index, answer, seen>>

\* revert() returns.  A call answers with its exception, an execution with its
\* results; estimateGas throws, and so fails the preparation it belongs to.
RevertedAnswer(s) ==
  IF threw[s] THEN "rejected"
  ELSE IF ~HasException(s) THEN "ok"
  ELSE IF Kind(s) = "estimate" THEN "rejected" ELSE "error"

\* (mutant) revert() does not await its loop.
FinishRevertAtOnce(s) ==
  /\ phase[s] = "restoring"
  /\ phase' = [phase EXCEPT ![s] = "closed"]
  /\ IF IsMain(s)
     THEN /\ answer' = [answer EXCEPT ![Owner(s)] = RevertedAnswer(s)]
          /\ UNCHANGED prep
     ELSE /\ prep' = [prep EXCEPT ![Owner(s)][Index(s)] = "ready"]
          /\ UNCHANGED answer
  /\ UNCHANGED <<stateVars, request, txNonce, results, threw, restored, block,
                 blockNumber, lastTimestamp, index, seen>>

FinishRevert(s) ==
  LET r == Owner(s)
      failed == threw[s] \/ HasException(s)
  IN
  /\ phase[s] = "restoring"
  /\ deployedContracts \subseteq restored[s]
  /\ phase' = [phase EXCEPT ![s] = "closed"]
  /\ \/ /\ IsMain(s)
        /\ answer' = [answer EXCEPT ![r] = RevertedAnswer(s)]
        /\ UNCHANGED prep
     \/ /\ ~IsMain(s)
        /\ prep' = [prep EXCEPT ![r][Index(s)] = IF failed THEN "failed" ELSE "ready"]
        /\ IF failed THEN RejectFirst(r) ELSE UNCHANGED answer
  /\ UNCHANGED <<stateVars, request, txNonce, results, threw, restored, block,
                 blockNumber, lastTimestamp, index, seen>>

-----------------------------------------------------------------------------

Submit(r) ==
  \E d \in Workload :
    \/ Call(r, d)
    \/ CallWithoutTo(r, d)
    \/ EstimateGas(r, d)
    \/ ExecuteTyped(r, d)
    \/ ExecuteBundle(r, d)
    \/ SetState(r, d)

Prepare(r) ==
  \E i \in 1..MaxBundle :
    \/ ReadNonce(r, i)
    \/ Populated(r, i)
    \/ PrepareFails(r, i)

RequestStep(r) ==
  \/ SetStateLands(r)
  \/ SetStateFails(r)
  \/ StartExecution(r)
  \/ BeginBlock(r)
  \/ NoLastBlock(r)

SectionStep(s) ==
  \/ EnterRun(s)
  \/ RunCall(s)
  \/ RunTransaction(s)
  \/ SectionThrows(s)
  \/ RunThrows(s)
  \/ RunThrown(s)
  \/ ReturnResults(s)
  \/ CommitSection(s)
  \/ RevertSection(s)
  \/ \E c \in Contract : RestoreCode(s, c)
  \/ FinishRevert(s)

Continue ==
  \/ \E r \in Requests : Prepare(r) \/ RequestStep(r)
  \/ \E s \in Sections : SectionStep(s)

Next == Continue \/ \E r \in Requests : Submit(r)

Spec == Init /\ [][Next]_vars

\* A pending promise is continued once the event loop reaches it, and every
\* provider request ends with an answer or a failure.  Callers owe nothing.
FairSpec == Spec /\ WF_vars(Continue)

-----------------------------------------------------------------------------
(* Properties of every use of the engine, however callers overlap. *)

OpenSections == {s \in Sections : phase[s] \in OpenPhases}
InsideSections == {s \in Sections : phase[s] = "inside"}

\* Whatever operations overlap, throw or fail half-way, the stack holds one
\* checkpoint for each section still open and one for each execution in it: no
\* finally block reverts a checkpoint that was never taken, and an engine at
\* rest has none left over (the try/finally blocks of call, estimateGas and
\* #executeTransactions).
SectionsBalanced ==
  Len(checkpoints) = Cardinality(OpenSections) + Cardinality(InsideSections)

\* The inherited revert() empties the code cache, and overlapping reverts empty
\* it under each other's loops.  Once no revert() is in its loop, every
\* deployed contract has its code again (OverriddenStateManager.revert).
CodeRestored ==
  (\A s \in Sections : ~Restoring(s)) => deployedContracts \subseteq contractCache

\* The state underneath the checkpoints moves only when an execution without
\* any error commits while no other section is open, or when a setter's write
\* lands while none is.  In particular calls, estimates and failed executions
\* that overlap one another in any order leave the engine as they found it.
BaseMovesByCommit ==
  [][Base' # Base =>
       \/ \E s \in Sections :
            /\ OpenSections = {s}
            /\ Commits(s)
            /\ answer[Owner(s)] = "none" /\ answer'[Owner(s)] = "ok"
       \/ /\ OpenSections = {}
          /\ \E r \in Requests :
               request[r].kind = "set" /\ answer[r] = "none" /\ answer'[r] = "ok"
    ]_vars

\* An entry is of one run of a transaction with its hash, and of that run has
\* both the outcome and the number of the block it ran in.
EntryFits(h) ==
  LET q == index[h].tx[1]
      j == index[h].tx[2]
  IN
  /\ j \in DOMAIN results[Main(q)]
  /\ HashOf(q, j) = h
  /\ index[h].status = results[Main(q)][j]
  /\ index[h].block = block[q]

\* Once an execution resolves, its client finds every transaction of it in the
\* indexer by its hash, and what he finds is one run of that very transaction:
\* its own, or where the same signed transaction was executed again, perhaps
\* that one, but never the outcome of one run under the block of another.
\* #prepareResults reads #blockNumber only after runBlock's awaits, when another
\* execution may have moved it, and the nonce in the hash was read before all of
\* them.
ResultsIndexed ==
  \A r \in Requests :
    request[r].kind \in {"bundle", "raw"} /\ answer[r] \in {"ok", "error"} =>
      \A i \in DOMAIN request[r].txs :
        HashOf(r, i) \in DOMAIN index /\ EntryFits(HashOf(r, i))

\* Every promise settles: no preparation, section or revert loop of one
\* operation can keep another waiting for ever.
Settles == \A r \in Requests : Asked(r) ~> (answer[r] # "none")

\* Every section of a request that takes a checkpoint gives it back and finishes
\* restoring code, and so do the others it has meanwhile, even where the request
\* was rejected long before (Promise.all).
SectionsClose ==
  \A r \in Requests :
    (\E i \in 0..MaxBundle : <<r, i>> \in OpenSections)
      ~> (\A i \in 0..MaxBundle : phase[<<r, i>>] \in {"idle", "closed"})

\* How far sections and preparations are.
Stage(ph) ==
  CASE ph = "idle" -> 0
    [] ph = "head" -> 1
    [] ph \in {"running", "inside"} -> 2
    [] ph = "undoing" -> 3
    [] ph = "returning" -> 4
    [] ph = "restoring" -> 5
    [] ph = "closed" -> 6

PrepStage(p) ==
  CASE p = "none" -> 0
    [] p = "nonce" -> 1
    [] p = "populate" -> 2
    [] p = "estimate" -> 3
    [] p \in {"ready", "failed"} -> 4

\* A section comes to a later stage; or to another result, which it has no more
\* of than transactions; or into a run, or its loop to a contract that it has
\* not visited.
SectionAdvances(s) ==
  \/ Stage(phase[s]) < Stage(phase'[s])
  \/ /\ Stage(phase[s]) = Stage(phase'[s])
     /\ Len(results[s]) < Len(results'[s])
  \/ /\ results'[s] = results[s]
     /\ \/ phase[s] = "running" /\ phase'[s] = "inside"
        \/ /\ phase'[s] = phase[s]
           /\ restored[s] \subseteq restored'[s] /\ restored[s] # restored'[s]

SectionStays(s) == UNCHANGED <<phase[s], results[s], restored[s]>>

PrepAdvances(r, i) == PrepStage(prep[r][i]) < PrepStage(prep'[r][i])

WorkStep ==
  /\ \A s \in Sections : SectionAdvances(s) \/ SectionStays(s)
  /\ \A r \in Requests, i \in 1..MaxBundle :
       PrepAdvances(r, i) \/ prep'[r][i] = prep[r][i]
  /\ \A r \in Requests : answer[r] # "none" => answer'[r] = answer[r]
  /\ \/ \E s \in Sections : SectionAdvances(s)
     \/ \E r \in Requests, i \in 1..MaxBundle : PrepAdvances(r, i)
     \/ \E r \in Requests : answer[r] # answer'[r] \/ request[r] # request'[r]

\* However operations overlap, no section, preparation or promise of one is
\* ever set back by another, and what the engine does by itself always brings
\* one of them forward: no section opens twice, no promise settles twice, and no
\* revert() is kept in its loop by contracts that others deploy meanwhile.
WorkAdvances == [][WorkStep]_vars

-----------------------------------------------------------------------------
(* What callers may rely on when they use the engine one request at a time. *)

\* No transaction has its gas estimated beside another one of its bundle, as
\* where callers use execute(tx), or give the gas limits of their bundles.
EstimatesAlone ==
  \A d \in Workload :
    d.kind = "bundle" /\ (\E i \in DOMAIN d.txs : Estimates(d.txs[i])) => Len(d.txs) = 1

\* The callers the engine is a ledger for: nothing is left running when they
\* make a request, because they wait for it or because it cannot be.
Careful == Admission = "exclusive" \/ (Admission = "awaited" /\ EstimatesAlone)

RequestEffects(r, d) ==
  CASE d.kind = "set" -> {DataOf(Main(r), 1)}
    [] d.kind \in {"bundle", "raw"} ->
         UNION {EffectsOf(Main(r), i) : i \in DOMAIN d.txs}
    [] OTHER -> {}

LedgerView ==
  INSTANCE Ledger WITH
    Descriptors <- Workload,
    EffectsFor <- RequestEffects,
    Nothing <- NoRequest,
    ledger <- Base, asked <- request, answered <- answer

\* The engine implements the ledger: a request takes effect all at once, when
\* it succeeds, or not at all, and a call runs against the ledger.
ImplementsLedger == LedgerView!Spec

AtRest == \A r \in Requests : ~Busy(r)

\* A caller that awaits every promise keeps what it was told has succeeded:
\* once the engine rests, no failure has undone it, neither a later one nor one
\* still running in the background (the finally blocks of #executeTransactions
\* and of estimateGas).  Awaiting is not enough for it; waiting until nothing of
\* earlier requests is still running is.
SucceededStays ==
  AtRest => \A r \in Requests :
              answer[r] = "ok" => RequestEffects(r, request[r]) \subseteq world

\* And of accounts and storage nothing else is kept: once the engine rests, they
\* have what succeeded and no effect of what failed on the way, of calls or of
\* estimates, however many transactions of a failed bundle had gone through and
\* whatever was left running when it was rejected (#executeTransactions,
\* Promise.all).  Code is not taken back: what a failed bundle or an estimate
\* deployed stays in deployedContracts, and revert() itself puts it in the cache.
FailedLeaveNoEffects ==
  AtRest => world \subseteq UNION {RequestEffects(r, request[r]) :
                                     r \in {q \in Requests : answer[q] = "ok"}}

\* Signed transactions go into blocks one after another: an execution never
\* fails for want of a last block (#executeTransactionsInBlock).
LastBlockFound == [][\A r \in Requests : ~NoLastBlock(r)]_vars

=============================================================================
