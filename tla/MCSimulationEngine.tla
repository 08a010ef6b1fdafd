------------------------- MODULE MCSimulationEngine -------------------------
(***************************************************************************)
(* Instances of SimulationEngine for TLC.                                  *)
(***************************************************************************)
EXTENDS SimulationEngine, TLC

CONSTANTS r1, r2, r3,          \* requests
          alice, bob, wallet,  \* accounts
          plain, factory       \* payloads

MCAccounts == {alice, bob, wallet}

MCForkNonce == [a \in MCAccounts |-> IF a = alice THEN 1 ELSE 0]

\* bob's public key is registered, and his simulation wallet does not map.
MCRegistered == {bob}
MCWallet == [a \in {bob} |-> wallet]
NoneMapped == {}

Transfer(a) == [from |-> a, create |-> FALSE, gas |-> FALSE, payload |-> plain]
TransferWithGas(a) == [Transfer(a) EXCEPT !.gas = TRUE]
Deploy(a) == [Transfer(a) EXCEPT !.create = TRUE]
DeployByFactory(a) == [Transfer(a) EXCEPT !.payload = factory]

Ask1(kind, tx) == [kind |-> kind, txs |-> <<tx>>, nonce |-> 1]
Bundle(txs) == [kind |-> "bundle", txs |-> txs, nonce |-> 0]

ACall == Ask1("call", Transfer(alice))
ACallWithoutTo == Ask1("call", Deploy(alice))
ADeployEstimate == Ask1("estimate", Deploy(alice))
AFactoryEstimate == Ask1("estimate", DeployByFactory(alice))
ARaw == Ask1("raw", Transfer(alice))
ALateRaw == [Ask1("raw", Transfer(alice)) EXCEPT !.nonce = 2]
ASet == [kind |-> "set", txs |-> <<>>, nonce |-> 0]

\* Every kind of request one at a time, bundles of two, the empty bundle, a
\* bundle in a block and a mixed one.
OneAtATime ==
  {ACall, ACallWithoutTo, ADeployEstimate, ARaw, ALateRaw, ASet,
   Bundle(<<>>), Bundle(<<Transfer(alice)>>), Bundle(<<Deploy(alice)>>),
   Bundle(<<TransferWithGas(bob)>>),
   Bundle(<<Transfer(alice), Deploy(alice)>>),
   Bundle(<<TransferWithGas(bob), TransferWithGas(bob)>>),
   Bundle(<<TransferWithGas(bob), TransferWithGas(alice)>>)}

\* Requests that overlap.  What bob signs is the same transaction, in a block
\* and in a mixed bundle.
Overlapping ==
  {ACall, AFactoryEstimate, ARaw, ASet, Bundle(<<Deploy(alice)>>),
   Bundle(<<TransferWithGas(bob)>>),
   Bundle(<<Transfer(alice), TransferWithGas(bob)>>)}

\* Signed transactions, in the order of their nonces or not.
Signatures == {ARaw, ALateRaw}

RequestSymmetry == Permutations(Requests)

=============================================================================
