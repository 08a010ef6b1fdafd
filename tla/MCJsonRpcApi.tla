---------------------------- MODULE MCJsonRpcApi ----------------------------
(***************************************************************************)
(* Instances of JsonRpcApi for TLC.                                        *)
(***************************************************************************)
EXTENDS JsonRpcApi, TLC

CONSTANTS b1, b2, b3,   \* batches
          e1, e2        \* engines

Ask(method, arg) == [method |-> method, arg |-> arg, hash |-> NoHash, number |-> 0]
AskBlock(method, n) == [Ask(method, "number") EXCEPT !.number = n]
AskTx(method, h) == [Ask(method, "hash") EXCEPT !.hash = h]

ASend == Ask("eth_sendTransaction", "plain")
ASignedSend == Ask("eth_sendTransaction", "registered")
ARawSend == Ask("eth_sendRawTransaction", "signed")
ANumber == Ask("eth_blockNumber", "none")

\* The transaction sent by the first request of some batch.
Lookup(method) == {AskTx(method, <<b, 1>>) : b \in Batches}
Receipts == Lookup("eth_getTransactionReceipt")

\* Requests that send or look up.
Simulating ==
  {<<ASend>>, <<ASignedSend>>, <<ARawSend>>, <<ANumber>>, <<ASend, ANumber>>, <<>>}
    \union {<<q>> : q \in Receipts \union Lookup("eth_getTransactionByHash")}
    \union {<<ASend, q>> : q \in Receipts}
    \union {<<q, ANumber>> : q \in Receipts}

\* And everything else a client can ask; what is bound to throw comes last.
Asking ==
  {<<Ask("eth_call", "invalid"), Ask("eth_getTransactionByHash", "object"),
     Ask("eth_getBlockByHash", "genesis"), Ask("eth_call", "transaction")>>,
   <<Ask("eth_getBlockTransactionCountByHash", "unknown"), Ask("other", "none"),
     Ask("eth_getBalance", "address"),
     Ask("eth_getTransactionByBlockHashAndIndex", "genesis")>>,
   <<AskBlock("eth_getBlockByNumber", 1), Ask("eth_getBlockByNumber", "earliest"),
     Ask("eth_getBlockByNumber", "tag"), AskBlock("eth_getBlockByNumber", 0)>>,
   <<Ask("eth_getCode", "address"), Ask("eth_getTransactionCount", "address"),
     Ask("eth_getTransactionByBlockNumberAndIndex", "tag"),
     AskBlock("eth_getBlockTransactionCountByNumber", 1)>>}

AnyRequest == Simulating \union Asking

MCPayload == UNION {{p[i] : i \in DOMAIN p} : p \in AnyRequest}

BatchSymmetry == Permutations(Batches) \union Permutations(Engines)

=============================================================================
