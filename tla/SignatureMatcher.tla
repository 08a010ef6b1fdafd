-------------------------- MODULE SignatureMatcher --------------------------
(***************************************************************************)
(* SignatureMatcher (src/simulation/signature-matcher.ts) with its two     *)
(* users: impersonateAccount (src/simulation/index.ts) and                 *)
(* initializeSimulationTransaction (src/tx.ts).                            *)
(*                                                                         *)
(* An account whose public key is registered gets a random simulation      *)
(* wallet.  Transactions from it are signed by the wallet, and the EVM's   *)
(* ecrecover is replaced by a hook that maps the wallet back to it.        *)
(*                                                                         *)
(* All tables are keyed by STRINGS, and one address has two spellings: the *)
(* lower-case one and the mixed-case checksum of EIP-55.  The two are the  *)
(* same string only for the addresses in AllLower, whose checksum capitals *)
(* no letter.  Everything here is synchronous: an action is one call.      *)
(***************************************************************************)

CONSTANTS
  Accounts,    \* accounts whose public keys callers know
  Wallets,     \* accounts Wallet.createRandom() can make
  AllLower,    \* addresses that are spelled one way only
  Mainnet,     \* is the chain forked the one with id 1
  None         \* no account: no entry in a table, no signer, no sender

Lower(a) == [of |-> a, spelling |-> "lower"]
Checksum(a) ==
  IF a \in AllLower THEN Lower(a) ELSE [of |-> a, spelling |-> "checksum"]

\* The hex string of a's public key: no spelling of any address.
PublicKey(a) == [of |-> a, spelling |-> "key"]

Spelling ==
  [of: Accounts \union Wallets, spelling: {"lower", "checksum", "key"}]

ASSUME MatcherAssumption ==
  /\ Accounts \intersect Wallets = {}
  /\ Mainnet \in BOOLEAN
  /\ None \notin Accounts \union Wallets \union Spelling

\* What a caller can put into a transaction's from field.
FromStrings ==
  {Lower(a) : a \in Accounts} \union {Checksum(a) : a \in Accounts}

VARIABLES
  addressPublicKeys,   \* the addresses whose public key is registered
  wallets,             \* the simulation wallet of each address
  reverseAddresses,    \* the address each wallet was made for
  sent,                \* the transactions initialized, and who signed them
  impersonated         \* how impersonateAccount ended for each account

vars == <<addressPublicKeys, wallets, reverseAddresses, sent, impersonated>>

TypeOK ==
  /\ addressPublicKeys \subseteq Spelling
  /\ wallets \in [Spelling -> Wallets \union {None}]
  /\ reverseAddresses \in [Spelling -> Spelling \union {None}]
  /\ sent \subseteq
       [from: FromStrings, signer: Wallets \union {None}, legacy: BOOLEAN]
  /\ impersonated \in [Accounts -> {"never", "returned", "threw"}]

Init ==
  /\ addressPublicKeys = {}
  /\ wallets = [s \in Spelling |-> None]
  /\ reverseAddresses = [s \in Spelling |-> None]
  /\ sent = {}
  /\ impersonated = [a \in Accounts |-> "never"]

-----------------------------------------------------------------------------

\* Keyed by what bytesToHex gives, which is lower-case.
RegisterSimulationPublicKey(a) ==
  addressPublicKeys' = addressPublicKeys \union {Lower(a)}

\* (mutant) The random wallets come from a fixed seed.
SeededWallets == Wallets

FreshWallets == {w \in Wallets : \A s \in Spelling : wallets[s] # w}

\* (mutant) Each table gets the other's entry.
MakeWalletSwapped(s) ==
  \E w \in FreshWallets :
    /\ wallets' = [wallets EXCEPT ![Checksum(w)] = s]
    /\ reverseAddresses' = [reverseAddresses EXCEPT ![s] = w]

MakeWallet(s) ==
  \E w \in FreshWallets :
    /\ wallets' = [wallets EXCEPT ![s] = w]
    /\ reverseAddresses' = [reverseAddresses EXCEPT ![Checksum(w)] = s]

\* (mutant) Every call makes a wallet.
GetNewPrivateKey(s) == MakeWallet(s)

\* (mutant) The reverse entry is made only when the wallet is asked for again.
GetPrivateKeyLate(s) ==
  IF wallets[s] = None
  THEN /\ \E w \in FreshWallets : wallets' = [wallets EXCEPT ![s] = w]
       /\ UNCHANGED reverseAddresses
  ELSE /\ reverseAddresses' = [reverseAddresses EXCEPT ![Checksum(wallets[s])] = s]
       /\ UNCHANGED wallets

\* Past the check that s is registered.  The reverse entry is keyed by ethers'
\* wallet.address, a checksummed string.
GetSimulationPrivateKey(s) ==
  IF wallets[s] = None THEN MakeWallet(s)
                       ELSE UNCHANGED <<wallets, reverseAddresses>>

\* impersonateAccount registers the public key under its address and then asks
\* for the wallet of the public key.
ImpersonateAccount(a) ==
  /\ RegisterSimulationPublicKey(a)
  /\ IF PublicKey(a) \in addressPublicKeys'
     THEN /\ GetSimulationPrivateKey(PublicKey(a))
          /\ impersonated' = [impersonated EXCEPT ![a] = "returned"]
     ELSE /\ impersonated' = [impersonated EXCEPT ![a] = "threw"]
          /\ UNCHANGED <<wallets, reverseAddresses>>
  /\ UNCHANGED sent

\* initializeSimulationTransaction for a registered spelling of the sender.
\* Which class the transaction has, the legacy one or one with a type, does not
\* depend on the sender.
InitializeSigned(s, legacy) ==
  /\ s \in addressPublicKeys
  /\ GetSimulationPrivateKey(s)
  /\ sent' = sent \union {[from |-> s, signer |-> wallets'[s], legacy |-> legacy]}
  /\ UNCHANGED <<addressPublicKeys, impersonated>>

\* Otherwise the transaction only says who it is from.
InitializeUnsigned(s, legacy) ==
  /\ s \notin addressPublicKeys
  /\ sent' = sent \union {[from |-> s, signer |-> None, legacy |-> legacy]}
  /\ UNCHANGED <<addressPublicKeys, wallets, reverseAddresses, impersonated>>

Next ==
  \/ \E a \in Accounts : ImpersonateAccount(a)
  \/ \E s \in FromStrings, legacy \in BOOLEAN :
       InitializeSigned(s, legacy) \/ InitializeUnsigned(s, legacy)

Spec == Init /\ [][Next]_vars

-----------------------------------------------------------------------------
(* Whom an execution takes for the sender, by the ecrecover hook.             *)

\* (mutant) The hook recovers with the chain id it is given.
RecoverableAnywhere(t) == TRUE

\* The hook recovers every signature as one for chain id 1.  A signature of a
\* legacy transaction holds the id of its own chain and is invalid for another;
\* those of other types hold none.
Recoverable(t) == Mainnet \/ ~t.legacy

\* It looks the signer up in lower case, and throws, here None, where the
\* signature is invalid or the address it finds has no public key.
Recovered(t) ==
  LET simulationAddress == reverseAddresses[Lower(t.signer)] IN
  IF ~Recoverable(t) THEN None
  ELSE IF simulationAddress = None THEN t.signer
  ELSE IF simulationAddress \in addressPublicKeys THEN simulationAddress.of
  ELSE None

SenderOf(t) == IF t.signer = None THEN t.from.of ELSE Recovered(t)

-----------------------------------------------------------------------------

\* A transaction is taken to come from the account it names or from that
\* account's own simulation wallet, never from a third account, and where its
\* signature can be recovered the hook always finds the public key it needs
\* (customCrypto.ecrecover).
NoThirdSender ==
  \A t \in sent :
    \/ SenderOf(t) \in {t.from.of, t.signer} \ {None}
    \/ SenderOf(t) = None /\ t.signer # None /\ ~Recoverable(t)

\* One spelling of an address keeps one wallet, which is nobody else's: the
\* tables wallets and reverseAddresses stay inverse to one another.
WalletsOneToOne ==
  \A t, u \in sent :
    t.signer # None /\ u.signer # None => (t.from = u.from <=> t.signer = u.signer)

\* Whatever is registered or initialized later, a transaction already signed
\* keeps its sender: it may be executed long after it was prepared.
SenderStable == [][\A t \in sent : SenderOf(t)' = SenderOf(t)]_vars

\* The account's own transaction is what a signed one is taken for exactly where
\* the checksum of the wallet's address has no capital letter, as the hook looks
\* addresses up in lower case and the reverse entries are keyed by ethers'
\* checksummed strings, and where besides it is not a legacy one of a chain other
\* than that with id 1, as the hook recovers signatures for no other.
AcceptedWithoutCapitals ==
  \A t \in sent :
    SenderOf(t) = t.from.of <=>
      \/ t.signer = None
      \/ t.signer \in AllLower /\ (t.legacy => Mainnet)

\* The signature of the wallet is accepted in place of the original account's
\* (the comment on getSimulationPrivateKey).
SignatureAccepted == \A t \in sent : SenderOf(t) = t.from.of

\* impersonateAccount returns the impersonation private key (its comment).
ImpersonationReturnsKey == \A a \in Accounts : impersonated[a] # "threw"

=============================================================================
