----------------------------- MODULE JsonRpcApi -----------------------------
(***************************************************************************)
(* executeJsonRpcFunction and its handlers (src/jsonrpcapi/index.ts),      *)
(* called by SimulationProvider for one request at a time.                 *)
(*                                                                         *)
(* Of a simulation engine a handler sees the number of the last block it   *)
(* started and the transactions it has indexed; what an execution does     *)
(* beyond that is SimulationEngine's.  Nothing ever puts a block into the  *)
(* engine's blockchain, so getBlock finds the genesis block, which stands  *)
(* for the fork block, and throws for every other number or hash.          *)
(*                                                                         *)
(* Transactions executed without a block are reported in invented blocks,  *)
(* numbered by blocklessSimulationBlockNumber: one variable of the module, *)
(* shared by all engines.                                                  *)
(***************************************************************************)
EXTENDS SimulationProvider

CONSTANTS
  ForkBlockNumber,   \* the block the engines are forked from
  FirstBlockless,    \* where blocklessSimulationBlockNumber starts
  MaxRequests        \* bound: the longest batch

\* A transaction is known by the request that sent it.  A prepared one has a
\* hash of its own: unsigned, it is hashed with random numbers.  Signed ones run
\* in a block, and an engine indexes at most one of those, because the second
\* execution in a block throws.
Hashes == Batches \X (1..MaxRequests)
NoHash == <<>>

\* A request has a method; what kind of argument it comes with; and the hash or
\* the block number it asks about, where it asks about one.
ASSUME ApiAssumption ==
  /\ ForkBlockNumber \in Nat
  /\ FirstBlockless \in Nat
  /\ ForkBlockNumber < FirstBlockless
  /\ MaxRequests \in Nat
  /\ \A q \in Payload : q.hash \in Hashes \union {NoHash} /\ q.number \in Nat
  /\ \A p \in Workload : Len(p) <= MaxRequests

VARIABLES
  blocklessSimulationBlockNumber,
  blockNumber,    \* #blockNumber of each engine
  indexed         \* each engine's index: in which kind of block a transaction ran

apiVars == <<blocklessSimulationBlockNumber, blockNumber, indexed>>
vars == <<providerVars, apiVars>>

IndexEntries == {"none", "blockless", "block"}

TypeOK ==
  /\ ProviderTypeOK
  /\ blocklessSimulationBlockNumber \in Nat
  /\ blockNumber \in [Engines -> Nat]
  /\ indexed \in [Engines -> [Hashes -> IndexEntries]]

Init ==
  /\ ProviderInit
  /\ blocklessSimulationBlockNumber = FirstBlockless
  /\ blockNumber = [e \in Engines |-> 0]
  /\ indexed = [e \in Engines |-> [h \in Hashes |-> "none"]]

-----------------------------------------------------------------------------
(* The dispatcher. *)

At(b, methods) == phase[b] = "running" /\ Current(b).method \in methods

\* A result with a numeric code is put into the reply as its error.
Result(b, number) == Answer(b, [kind |-> "result", number |-> number])
Error(b) == Answer(b, [kind |-> "error", number |-> 0])

\* (mutant) null becomes the reply.
NullReply(b) == Answer(b, [kind |-> "null", number |-> 0])

\* A handler that answers null: reading its code is a TypeError.
Null(b) == Reject(b)

\* A method without a handler.
Unsupported(b) ==
  /\ At(b, {"other"})
  /\ Forward(b)
  /\ UNCHANGED apiVars

Forwarded(b) ==
  /\ phase[b] = "forwarding"
  /\ \/ Answer(b, [kind |-> "provider", number |-> 0])
     \/ Reject(b)
  /\ UNCHANGED apiVars

\* Parameters a handler refuses before it does anything, or cannot read: a
\* missing string is a TypeError.
InvalidParams(b) ==
  /\ phase[b] = "running"
  /\ Current(b).method \notin {"other", "eth_blockNumber"}
  /\ Current(b).arg = "invalid"
  /\ Error(b) \/ Reject(b)
  /\ UNCHANGED apiVars

Valid(b, methods) == At(b, methods) /\ Current(b).arg # "invalid"

-----------------------------------------------------------------------------
(* Handlers that read the engine. *)

\* (mutant) The number of the engine's last block.
EthBlockNumberOfEngine(b) ==
  /\ Valid(b, {"eth_blockNumber"})
  /\ Result(b, ForkBlockNumber + blockNumber[engine])
  /\ UNCHANGED apiVars

EthBlockNumber(b) ==
  /\ Valid(b, {"eth_blockNumber"})
  /\ Result(b, blocklessSimulationBlockNumber)
  /\ UNCHANGED apiVars

\* eth_call and eth_estimateGas leave the engine as it was.  genericException-
\* Handler answers an EVM error and rethrows anything else.
EthCallOrEstimate(b) ==
  /\ Valid(b, {"eth_call", "eth_estimateGas"})
  /\ Result(b, 0) \/ Error(b) \/ Reject(b)
  /\ UNCHANGED apiVars

\* A state read may have to fetch from the provider, and fail.
StateRead(b) == (Result(b, 0) \/ Reject(b)) /\ UNCHANGED apiVars

EthGetBalance(b) == Valid(b, {"eth_getBalance"}) /\ StateRead(b)
EthGetCodeOrStorageAt(b) ==
  Valid(b, {"eth_getCode", "eth_getStorageAt"}) /\ StateRead(b)
EthGetTransactionCount(b) == Valid(b, {"eth_getTransactionCount"}) /\ StateRead(b)

EthGetState(b) ==
  EthGetBalance(b) \/ EthGetCodeOrStorageAt(b) \/ EthGetTransactionCount(b)

\* Only the genesis block has a hash the engine knows.
GenesisRead(b) ==
  /\ IF Current(b).arg = "genesis" THEN Result(b, 0) ELSE Forward(b)
  /\ UNCHANGED apiVars

EthGetBlockByHash(b) == Valid(b, {"eth_getBlockByHash"}) /\ GenesisRead(b)
EthGetBlockTransactionCountByHash(b) ==
  Valid(b, {"eth_getBlockTransactionCountByHash"}) /\ GenesisRead(b)

EthGetByBlockHash(b) == EthGetBlockByHash(b) \/ EthGetBlockTransactionCountByHash(b)

\* It has no transactions, so that every index is out of range.
EthGetTransactionByBlockHashAndIndex(b) ==
  /\ Valid(b, {"eth_getTransactionByBlockHashAndIndex"})
  /\ IF Current(b).arg = "genesis" THEN Null(b) ELSE Forward(b)
  /\ UNCHANGED apiVars

\* A block number given in hexadecimal, or a tag for the engine's last block.
BlockParam(b) ==
  IF Current(b).arg = "tag" THEN ForkBlockNumber + blockNumber[engine]
                            ELSE Current(b).number

EthGetBlockByNumber(b) ==
  /\ Valid(b, {"eth_getBlockByNumber"})
  /\ IF Current(b).arg = "earliest" \/ BlockParam(b) > ForkBlockNumber THEN Forward(b)
     ELSE IF BlockParam(b) = ForkBlockNumber THEN Result(b, 0)
     ELSE Reject(b)
  /\ UNCHANGED apiVars

\* The other two methods that take a number test it the other way round.
LaterBlockRead(b) ==
  /\ IF Current(b).arg = "earliest" \/ BlockParam(b) <= ForkBlockNumber
     THEN Forward(b) ELSE Reject(b)
  /\ UNCHANGED apiVars

EthGetBlockTransactionCountByNumber(b) ==
  Valid(b, {"eth_getBlockTransactionCountByNumber"}) /\ LaterBlockRead(b)
EthGetTransactionByBlockNumberAndIndex(b) ==
  Valid(b, {"eth_getTransactionByBlockNumberAndIndex"}) /\ LaterBlockRead(b)

EthGetByBlockNumber(b) ==
  EthGetBlockTransactionCountByNumber(b) \/ EthGetTransactionByBlockNumberAndIndex(b)

-----------------------------------------------------------------------------
(* Handlers that look a transaction up. *)

Entry(b) == indexed[engine][Current(b).hash]

\* (mutant) Lookups leave the counter alone.
SameBlock(b) ==
  /\ Result(b, blocklessSimulationBlockNumber)
  /\ UNCHANGED apiVars

\* Every lookup of a transaction without a block invents another block for it.
InventBlock(b) ==
  /\ blocklessSimulationBlockNumber' = blocklessSimulationBlockNumber + 1
  /\ Result(b, blocklessSimulationBlockNumber')
  /\ UNCHANGED <<blockNumber, indexed>>

\* The effective gas price is divided by the gas the execution used, which is
\* zero where no code ran; the counter has moved by then.
ReceiptThrows(b) ==
  /\ blocklessSimulationBlockNumber' = blocklessSimulationBlockNumber + 1
  /\ Reject(b)
  /\ UNCHANGED <<blockNumber, indexed>>

\* The block of a transaction executed in one is never found: getBlock throws.
BlockOfTransaction(b) == Reject(b) /\ UNCHANGED apiVars

EthGetTransactionReceipt(b) ==
  /\ Valid(b, {"eth_getTransactionReceipt"})
  /\ \/ Entry(b) = "none" /\ Forward(b) /\ UNCHANGED apiVars
     \/ Entry(b) = "block" /\ BlockOfTransaction(b)
     \/ Entry(b) = "blockless" /\ InventBlock(b)
     \/ Entry(b) = "blockless" /\ ReceiptThrows(b)

EthGetTransactionByHash(b) ==
  /\ Valid(b, {"eth_getTransactionByHash"})
  /\ Current(b).arg # "object"
  /\ \/ Entry(b) = "none" /\ Forward(b) /\ UNCHANGED apiVars
     \/ Entry(b) = "block" /\ BlockOfTransaction(b)
     \/ Entry(b) = "blockless" /\ InventBlock(b)

\* ethers gives back a failure in place of a hash.
EthGetTransactionByFailure(b) ==
  /\ Valid(b, {"eth_getTransactionByHash"})
  /\ Current(b).arg = "object"
  /\ Error(b)
  /\ UNCHANGED apiVars

-----------------------------------------------------------------------------
(* Handlers that execute a transaction: in a block if it is signed. *)

SignedRequest(b) ==
  Current(b).method = "eth_sendRawTransaction" \/ Current(b).arg = "registered"

SendMethods == {"eth_sendRawTransaction", "eth_sendTransaction"}

\* The engine, whichever it is by now, is asked to execute.
BeginTransaction(b) ==
  /\ Valid(b, SendMethods)
  /\ Execute(b)
  /\ UNCHANGED apiVars

\* The blockchain's head stays the genesis block, so a second execution in a
\* block throws.
BeginBlock(b) ==
  /\ phase[b] = "executing"
  /\ SignedRequest(b)
  /\ blockNumber[using[b]] = 0
  /\ blockNumber' = [blockNumber EXCEPT ![using[b]] = @ + 1]
  /\ phase' = [phase EXCEPT ![b] = "inBlock"]
  /\ UNCHANGED <<engine, created, payload, replies, using, told, before,
                 blocklessSimulationBlockNumber, indexed>>

\* (mutant) Only what ran in a block is indexed.
EndTransactionUnindexed(b) ==
  /\ phase[b] \in {"executing", "inBlock"}
  /\ SignedRequest(b) => phase[b] = "inBlock"
  /\ indexed' = IF SignedRequest(b)
                THEN [indexed EXCEPT ![using[b]][<<b, Position(b)>>] = "block"]
                ELSE indexed
  /\ Result(b, 0) \/ Error(b)
  /\ UNCHANGED <<blocklessSimulationBlockNumber, blockNumber>>

\* The transaction has run, and is indexed whether it succeeded or not.
EndTransaction(b) ==
  /\ phase[b] \in {"executing", "inBlock"}
  /\ SignedRequest(b) => phase[b] = "inBlock"
  /\ indexed' = [indexed EXCEPT ![using[b]][<<b, Position(b)>>] =
                   IF SignedRequest(b) THEN "block" ELSE "blockless"]
  /\ Result(b, 0) \/ Error(b)
  /\ UNCHANGED <<blocklessSimulationBlockNumber, blockNumber>>

\* The estimate made while the transaction is prepared ends with an EVM error,
\* which genericExceptionHandler answers: nothing has run, nothing is indexed.
PreparationFails(b) ==
  /\ phase[b] = "executing"
  /\ Current(b).method = "eth_sendTransaction"
  /\ Error(b)
  /\ UNCHANGED apiVars

\* Parameters that do not parse, a refused transaction, no last block, no answer
\* of the provider.
TransactionThrows(b) ==
  /\ Valid(b, SendMethods) \/ phase[b] \in {"executing", "inBlock"}
  /\ Reject(b)
  /\ UNCHANGED apiVars

-----------------------------------------------------------------------------

Provide(b) ==
  /\ \/ \E p \in Workload : Send(b, p)
     \/ EngineCreated(b)
     \/ EngineCreationFails(b)
     \/ Drain(b)
  /\ UNCHANGED apiVars

Handle(b) ==
  \/ Unsupported(b)
  \/ Forwarded(b)
  \/ InvalidParams(b)
  \/ EthBlockNumber(b)
  \/ EthCallOrEstimate(b)
  \/ EthGetState(b)
  \/ EthGetByBlockHash(b)
  \/ EthGetTransactionByBlockHashAndIndex(b)
  \/ EthGetBlockByNumber(b)
  \/ EthGetByBlockNumber(b)
  \/ EthGetTransactionReceipt(b)
  \/ EthGetTransactionByHash(b)
  \/ EthGetTransactionByFailure(b)
  \/ BeginTransaction(b)
  \/ BeginBlock(b)
  \/ EndTransaction(b)
  \/ PreparationFails(b)
  \/ TransactionThrows(b)

Next == \E b \in Batches : Provide(b) \/ Handle(b)

Spec == Init /\ [][Next]_vars

-----------------------------------------------------------------------------

LookupMethods == {"eth_getTransactionReceipt", "eth_getTransactionByHash"}

\* What reply i of batch b tells about the invented blocks.
Told(b, i, methods) ==
  /\ i \in DOMAIN replies[b]
  /\ payload[b][i].method \in methods
  /\ replies[b][i].kind = "result"

\* However batches overlap, and over every engine of the page, a client never
\* sees time go backwards: eth_blockNumber is at least every block number told
\* before its batch was sent, and the block a transaction is looked up in is
\* later than all of them.  ethers counts confirmations from the two.
TimeMovesForward ==
  \A b \in Batches : \A i \in DOMAIN replies[b] : \A n \in before[b] :
    /\ Told(b, i, {"eth_blockNumber"}) => replies[b][i].number >= n
    /\ Told(b, i, LookupMethods) => replies[b][i].number > n

\* No two lookups report the same invented block, not even in batches that
\* overlap or for transactions of different engines: block numbers and hashes
\* identify what was looked up.
InventedBlocksDistinct ==
  \A b, c \in Batches : \A i \in DOMAIN replies[b], j \in DOMAIN replies[c] :
    /\ Told(b, i, LookupMethods) /\ Told(c, j, LookupMethods)
    /\ replies[b][i].number = replies[c][j].number
    => b = c /\ i = j

\* The engine has answered the request that sent h with its hash.
Acknowledged(h) ==
  /\ h # NoHash
  /\ Told(h[1], h[2], SendMethods)

Forwards(b, methods) ==
  /\ phase[b] = "running" /\ phase'[b] = "forwarding"
  /\ Current(b).method \in methods

\* A transaction the simulation has acknowledged, to this batch or to another
\* one, is never looked for on the real chain.  This needs one engine: it holds
\* where clients let the provider create its engine alone.
AcknowledgedStaysLocal ==
  [][\A b \in Batches :
       Forwards(b, LookupMethods) => ~Acknowledged(Current(b).hash)]_vars

=============================================================================
