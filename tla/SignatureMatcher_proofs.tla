----------------------- MODULE SignatureMatcher_proofs -----------------------
(***************************************************************************)
(* What SignatureMatcher guarantees for any accounts, wallets and          *)
(* spellings: its two tables stay inverse to one another, so a simulation  *)
(* signature never makes a transaction come from a third account, and no   *)
(* later call changes whom a signed transaction comes from.                *)
(***************************************************************************)
EXTENDS SignatureMatcher, TLAPS

\* reverseAddresses leads from a wallet back to the address it was made for.
WalletsReversed ==
  \A s \in Spelling :
    wallets[s] # None => reverseAddresses[Checksum(wallets[s])] = s

\* And it has no other entries.
ReverseOnlyWallets ==
  \A k \in Spelling :
    reverseAddresses[k] # None =>
      \E w \in Wallets : k = Checksum(w) /\ wallets[reverseAddresses[k]] = w

\* A wallet is made only for a registered address, and none is unregistered.
WalletsRegistered ==
  \A s \in Spelling : wallets[s] # None => s \in addressPublicKeys

\* A signed transaction was signed with the wallet of the address it is from.
SignedByWallet ==
  \A t \in sent : t.signer # None => wallets[t.from] = t.signer

\* Public keys are registered under lower-case addresses.
KeysLower == \A s \in addressPublicKeys : s.spelling = "lower"

TablesInv ==
  /\ TypeOK
  /\ WalletsReversed
  /\ ReverseOnlyWallets
  /\ WalletsRegistered
  /\ SignedByWallet
  /\ KeysLower

-----------------------------------------------------------------------------
(* Spellings. *)

\* Every spelling of an address tells the address.
LEMMA SpellingOf ==
  \A a : Checksum(a).of = a /\ Lower(a).of = a
BY DEF Checksum, Lower

\* Addresses have spellings, and None is none of them.
LEMMA SpellingType ==
  /\ \A a \in Accounts \union Wallets :
       Lower(a) \in Spelling /\ Checksum(a) \in Spelling /\ PublicKey(a) \in Spelling
  /\ FromStrings \subseteq Spelling
BY DEF Lower, Checksum, PublicKey, Spelling, FromStrings

-----------------------------------------------------------------------------
(* The invariant is inductive. *)

\* What making a wallet changes.
LEMMA WalletMade ==
  ASSUME TablesInv, NEW s \in addressPublicKeys, MakeWallet(s), wallets[s] = None,
         UNCHANGED addressPublicKeys
  PROVE  /\ wallets' \in [Spelling -> Wallets \union {None}]
         /\ reverseAddresses' \in [Spelling -> Spelling \union {None}]
         /\ WalletsReversed'
         /\ ReverseOnlyWallets'
         /\ WalletsRegistered'
         /\ \A u \in Spelling : wallets[u] # None => wallets'[u] = wallets[u]
         /\ wallets'[s] \in Wallets /\ wallets'[s] # None
         /\ \A k \in Spelling :
              reverseAddresses'[k] # reverseAddresses[k] =>
                \E w \in FreshWallets : k = Checksum(w)
<1> USE MatcherAssumption
<1>1. PICK w \in FreshWallets :
        /\ wallets' = [wallets EXCEPT ![s] = w]
        /\ reverseAddresses' = [reverseAddresses EXCEPT ![Checksum(w)] = s]
  BY DEF MakeWallet
<1>2. w \in Wallets /\ w # None /\ s \in Spelling /\ Checksum(w) \in Spelling
      /\ \A u \in Spelling : wallets[u] # w
  BY SpellingType DEF FreshWallets, TablesInv, TypeOK
<1>3. wallets' \in [Spelling -> Wallets \union {None}]
      /\ reverseAddresses' \in [Spelling -> Spelling \union {None}]
  BY <1>1, <1>2 DEF TablesInv, TypeOK
<1>4. \A u \in Spelling : wallets'[u] = IF u = s THEN w ELSE wallets[u]
  BY <1>1 DEF TablesInv, TypeOK
<1>5. \A k \in Spelling :
        reverseAddresses'[k] = IF k = Checksum(w) THEN s ELSE reverseAddresses[k]
  BY <1>1 DEF TablesInv, TypeOK
<1>6. \A v : Checksum(v) = Checksum(w) => v = w
  BY SpellingOf
<1>7. WalletsReversed'
  <2> SUFFICES ASSUME NEW u \in Spelling, wallets'[u] # None
               PROVE  reverseAddresses'[Checksum(wallets'[u])] = u
    BY DEF WalletsReversed
  <2>1. CASE u = s
    BY <2>1, <1>4, <1>5, <1>2
  <2>2. CASE u # s
    <3>1. wallets'[u] = wallets[u] /\ wallets[u] \in Wallets /\ wallets[u] # w
      BY <2>2, <1>4, <1>2 DEF TablesInv, TypeOK
    <3>2. Checksum(wallets[u]) # Checksum(w) /\ Checksum(wallets[u]) \in Spelling
      BY <3>1, <1>6, SpellingType
    <3>3. reverseAddresses[Checksum(wallets[u])] = u
      BY <3>1 DEF TablesInv, WalletsReversed
    <3> QED BY <3>1, <3>2, <3>3, <1>5
  <2> QED BY <2>1, <2>2
<1>8. ReverseOnlyWallets'
  <2> SUFFICES ASSUME NEW k \in Spelling, reverseAddresses'[k] # None
               PROVE  \E v \in Wallets :
                        k = Checksum(v) /\ wallets'[reverseAddresses'[k]] = v
    BY DEF ReverseOnlyWallets
  <2>1. CASE k = Checksum(w)
    BY <2>1, <1>2, <1>4, <1>5
  <2>2. CASE k # Checksum(w)
    <3>1. reverseAddresses'[k] = reverseAddresses[k] /\ reverseAddresses[k] \in Spelling
      BY <2>2, <1>5 DEF TablesInv, TypeOK
    <3>2. PICK v \in Wallets : k = Checksum(v) /\ wallets[reverseAddresses[k]] = v
      BY <3>1 DEF TablesInv, ReverseOnlyWallets
    <3>3. reverseAddresses[k] # s
      BY <3>2, MatcherAssumption
    <3> QED BY <3>1, <3>2, <3>3, <1>4
  <2> QED BY <2>1, <2>2
<1>9. WalletsRegistered'
  BY <1>4 DEF TablesInv, WalletsRegistered
<1> QED
  BY <1>2, <1>3, <1>4, <1>5, <1>7, <1>8, <1>9 DEF TablesInv

\* What asking for a private key changes.
LEMMA KeyTaken ==
  ASSUME TablesInv, NEW s \in addressPublicKeys, GetSimulationPrivateKey(s),
         UNCHANGED addressPublicKeys
  PROVE  /\ wallets' \in [Spelling -> Wallets \union {None}]
         /\ reverseAddresses' \in [Spelling -> Spelling \union {None}]
         /\ WalletsReversed'
         /\ ReverseOnlyWallets'
         /\ WalletsRegistered'
         /\ \A u \in Spelling : wallets[u] # None => wallets'[u] = wallets[u]
         /\ wallets'[s] \in Wallets /\ wallets'[s] # None
         /\ \A k \in Spelling :
              reverseAddresses'[k] # reverseAddresses[k] =>
                \E w \in FreshWallets : k = Checksum(w)
<1>1. CASE wallets[s] = None
  BY <1>1, WalletMade DEF GetSimulationPrivateKey
<1>2. CASE wallets[s] # None
  <2>1. UNCHANGED <<wallets, reverseAddresses>>
    BY <1>2 DEF GetSimulationPrivateKey
  <2>2. s \in Spelling
    BY DEF TablesInv, TypeOK
  <2> QED
    BY <1>2, <2>1, <2>2
    DEF TablesInv, TypeOK, WalletsReversed, ReverseOnlyWallets, WalletsRegistered
<1> QED BY <1>1, <1>2

\* impersonateAccount never gets to ask for a private key.
LEMMA ImpersonationMoves ==
  ASSUME TablesInv, NEW a \in Accounts, ImpersonateAccount(a)
  PROVE  /\ addressPublicKeys' = addressPublicKeys \union {Lower(a)}
         /\ impersonated' = [impersonated EXCEPT ![a] = "threw"]
         /\ UNCHANGED <<wallets, reverseAddresses, sent>>
<1>1. addressPublicKeys' = addressPublicKeys \union {Lower(a)}
  BY DEF ImpersonateAccount, RegisterSimulationPublicKey
<1>2. PublicKey(a).spelling = "key" /\ Lower(a).spelling = "lower"
  BY DEF PublicKey, Lower
<1>3. PublicKey(a) \notin addressPublicKeys'
  BY <1>1, <1>2 DEF TablesInv, KeysLower
<1> QED BY <1>1, <1>3 DEF ImpersonateAccount

\* The tables start out empty.
LEMMA TablesInit == Init => TablesInv
BY DEF Init, TablesInv, TypeOK, WalletsReversed, ReverseOnlyWallets,
       WalletsRegistered, SignedByWallet, KeysLower

\* Every call keeps the tables inverse to one another.
LEMMA TablesNext == TablesInv /\ [Next]_vars => TablesInv'
<1> SUFFICES ASSUME TablesInv, [Next]_vars
             PROVE  TablesInv'
  OBVIOUS
<1>1. ASSUME NEW a \in Accounts, ImpersonateAccount(a)
      PROVE  TablesInv'
  <2>1. /\ addressPublicKeys' = addressPublicKeys \union {Lower(a)}
        /\ impersonated' = [impersonated EXCEPT ![a] = "threw"]
        /\ UNCHANGED <<wallets, reverseAddresses, sent>>
    BY <1>1, ImpersonationMoves
  <2>2. Lower(a) \in Spelling /\ Lower(a).spelling = "lower"
    BY SpellingType DEF Lower
  <2>3. TypeOK'
    BY <2>1, <2>2 DEF TablesInv, TypeOK
  <2>4. WalletsReversed' /\ ReverseOnlyWallets' /\ WalletsRegistered'
        /\ SignedByWallet' /\ KeysLower'
    BY <2>1, <2>2 DEF TablesInv, WalletsReversed, ReverseOnlyWallets,
                      WalletsRegistered, SignedByWallet, KeysLower
  <2> QED BY <2>3, <2>4 DEF TablesInv
<1>2. ASSUME NEW s \in FromStrings, NEW legacy \in BOOLEAN, InitializeSigned(s, legacy)
      PROVE  TablesInv'
  <2>1. /\ s \in addressPublicKeys
        /\ GetSimulationPrivateKey(s)
        /\ sent' = sent \union {[from |-> s, signer |-> wallets'[s], legacy |-> legacy]}
        /\ UNCHANGED <<addressPublicKeys, impersonated>>
    BY <1>2 DEF InitializeSigned
  <2>2. /\ wallets' \in [Spelling -> Wallets \union {None}]
        /\ reverseAddresses' \in [Spelling -> Spelling \union {None}]
        /\ WalletsReversed' /\ ReverseOnlyWallets' /\ WalletsRegistered'
        /\ \A u \in Spelling : wallets[u] # None => wallets'[u] = wallets[u]
        /\ wallets'[s] \in Wallets
    BY <2>1, KeyTaken
  <2>3. TypeOK'
    BY <2>1, <2>2 DEF TablesInv, TypeOK
  <2>4. SignedByWallet'
    <3> SUFFICES ASSUME NEW t \in sent', t.signer # None
                 PROVE  wallets'[t.from] = t.signer
      BY DEF SignedByWallet
    <3>1. CASE t \in sent
      <4>1. t.from \in Spelling
        BY <3>1, SpellingType DEF TablesInv, TypeOK
      <4> QED BY <3>1, <4>1, <2>2 DEF TablesInv, SignedByWallet
    <3>2. CASE t = [from |-> s, signer |-> wallets'[s], legacy |-> legacy]
      BY <3>2
    <3> QED BY <3>1, <3>2, <2>1
  <2>5. KeysLower'
    BY <2>1 DEF TablesInv, KeysLower
  <2> QED BY <2>2, <2>3, <2>4, <2>5 DEF TablesInv
<1>3. ASSUME NEW s \in FromStrings, NEW legacy \in BOOLEAN, InitializeUnsigned(s, legacy)
      PROVE  TablesInv'
  <2>1. sent' = sent \union {[from |-> s, signer |-> None, legacy |-> legacy]}
        /\ UNCHANGED <<addressPublicKeys, wallets, reverseAddresses, impersonated>>
    BY <1>3 DEF InitializeUnsigned
  <2>2. TypeOK'
    BY <2>1 DEF TablesInv, TypeOK
  <2> QED
    BY <2>1, <2>2 DEF TablesInv, WalletsReversed, ReverseOnlyWallets,
                      WalletsRegistered, SignedByWallet, KeysLower
<1>4. CASE UNCHANGED vars
  BY <1>4 DEF vars, TablesInv, TypeOK, WalletsReversed, ReverseOnlyWallets,
              WalletsRegistered, SignedByWallet, KeysLower
<1> QED BY <1>1, <1>2, <1>3, <1>4 DEF Next

\* The tables are inverse to one another in every reachable state.
LEMMA TablesAlways == Spec => []TablesInv
BY TablesInit, TablesNext, PTL DEF Spec

\* The matcher's tables lead from known strings to known wallets and back, and a
\* transaction's signer is a wallet or missing.
THEOREM TypeCorrect == Spec => []TypeOK
<1>1. TablesInv => TypeOK
  BY DEF TablesInv
<1> QED BY <1>1, TablesAlways, PTL

-----------------------------------------------------------------------------
(* What follows from it. *)

\* If a wallet has a reverse entry where the hook looks, it is the one made for
\* the address the transaction is from.
LEMMA HookFinds ==
  ASSUME TablesInv, NEW t \in sent, t.signer # None,
         reverseAddresses[Lower(t.signer)] # None
  PROVE  /\ reverseAddresses[Lower(t.signer)] = t.from
         /\ t.from \in addressPublicKeys
<1> DEFINE k == Lower(t.signer)
<1>1. t.signer \in Wallets /\ t.from \in Spelling /\ k \in Spelling
  BY SpellingType DEF TablesInv, TypeOK
<1>2. PICK w \in Wallets : k = Checksum(w) /\ wallets[reverseAddresses[k]] = w
  BY <1>1 DEF TablesInv, ReverseOnlyWallets
<1>3. w = t.signer
  BY <1>2, SpellingOf
<1>4. wallets[t.from] = t.signer
  BY DEF TablesInv, SignedByWallet
<1>5. reverseAddresses[Checksum(t.signer)] = t.from
  BY <1>1, <1>4 DEF TablesInv, WalletsReversed
<1>6. t.from \in addressPublicKeys
  BY <1>1, <1>4 DEF TablesInv, WalletsRegistered
<1> QED BY <1>2, <1>3, <1>5, <1>6

\* A transaction comes from the account it names or from that account's own
\* wallet, whatever wallets are made and however addresses are spelled.
THEOREM NoThirdSenderEver == Spec => []NoThirdSender
<1>1. TablesInv => NoThirdSender
  <2> SUFFICES ASSUME TablesInv, NEW t \in sent
               PROVE  \/ SenderOf(t) \in {t.from.of, t.signer} \ {None}
                      \/ SenderOf(t) = None /\ t.signer # None /\ ~Recoverable(t)
    BY DEF NoThirdSender
  <2>0. t.from.of # None
    <3>1. t.from \in Spelling
      BY SpellingType DEF TablesInv, TypeOK
    <3> QED BY <3>1, MatcherAssumption DEF Spelling
  <2>1. CASE t.signer = None
    BY <2>0, <2>1 DEF SenderOf
  <2>2. CASE t.signer # None
    <3>1. CASE reverseAddresses[Lower(t.signer)] = None
      BY <2>2, <3>1 DEF SenderOf, Recovered, Recoverable
    <3>2. CASE reverseAddresses[Lower(t.signer)] # None
      BY <2>0, <2>2, <3>2, HookFinds DEF SenderOf, Recovered, Recoverable
    <3> QED BY <3>1, <3>2
  <2> QED BY <2>1, <2>2
<1> QED BY <1>1, TablesAlways, PTL

\* A simulation signature is accepted for the account it was made for exactly
\* where the wallet's checksummed address has no capital letter and the signature
\* is one that chain id 1 recovers, for any wallets and any chain
\* (customCrypto.ecrecover and getSimulationPrivateKey).
THEOREM AcceptedOnlyWithoutCapitals == Spec => []AcceptedWithoutCapitals
<1>1. TablesInv => AcceptedWithoutCapitals
  <2> SUFFICES ASSUME TablesInv, NEW t \in sent
               PROVE  SenderOf(t) = t.from.of
                        <=> \/ t.signer = None
                            \/ t.signer \in AllLower /\ (t.legacy => Mainnet)
    BY DEF AcceptedWithoutCapitals
  <2>1. /\ t.from.of \in Accounts /\ t.from \in Spelling
        /\ t.signer \in Wallets \union {None}
        /\ t.from.of # None
        /\ Recoverable(t) <=> (t.legacy => Mainnet)
    BY SpellingOf, SpellingType, MatcherAssumption
    DEF TablesInv, TypeOK, FromStrings, Recoverable
  <2>2. CASE t.signer = None
    BY <2>2 DEF SenderOf
  <2>5. CASE t.signer \in Wallets /\ ~Recoverable(t)
    BY <2>1, <2>5, MatcherAssumption DEF SenderOf, Recovered, Recoverable
  <2>3. CASE t.signer \in Wallets /\ t.signer \in AllLower /\ Recoverable(t)
    <3>1. t.signer # None /\ wallets[t.from] = t.signer
      BY <2>3, MatcherAssumption DEF TablesInv, SignedByWallet
    <3>2. reverseAddresses[Lower(t.signer)] = t.from
      BY <2>1, <2>3, <3>1 DEF TablesInv, WalletsReversed, Checksum
    <3>3. t.from # None /\ t.from \in addressPublicKeys
      <4>1. t.from \in addressPublicKeys
        BY <2>1, <3>1 DEF TablesInv, WalletsRegistered
      <4> QED BY <2>1, <4>1, MatcherAssumption
    <3> QED BY <2>1, <2>3, <3>1, <3>2, <3>3 DEF SenderOf, Recovered, Recoverable
  <2>4. CASE t.signer \in Wallets /\ t.signer \notin AllLower /\ Recoverable(t)
    <3>1. t.signer # None /\ t.signer \notin Accounts
      BY <2>4, MatcherAssumption
    <3>2. \A w \in Wallets : Lower(t.signer) # Checksum(w)
      BY <2>4, SpellingOf DEF Checksum, Lower
    <3>3. reverseAddresses[Lower(t.signer)] = None
      BY <2>4, <3>2, SpellingType DEF TablesInv, ReverseOnlyWallets
    <3>4. SenderOf(t) = t.signer
      BY <2>4, <3>1, <3>3 DEF SenderOf, Recovered, Recoverable
    <3> QED BY <2>1, <2>4, <3>1, <3>4
  <2> QED BY <2>1, <2>2, <2>3, <2>4, <2>5
<1> QED BY <1>1, TablesAlways, PTL

\* One spelling keeps one wallet, and no wallet serves two spellings.
THEOREM WalletsAlwaysOneToOne == Spec => []WalletsOneToOne
<1>1. TablesInv => WalletsOneToOne
  <2> SUFFICES ASSUME TablesInv, NEW t \in sent, NEW u \in sent,
                      t.signer # None, u.signer # None
               PROVE  t.from = u.from <=> t.signer = u.signer
    BY DEF WalletsOneToOne
  <2>1. wallets[t.from] = t.signer /\ wallets[u.from] = u.signer
    BY DEF TablesInv, SignedByWallet
  <2>2. t.from \in Spelling /\ u.from \in Spelling
    BY SpellingType DEF TablesInv, TypeOK
  <2>3. reverseAddresses[Checksum(t.signer)] = t.from
        /\ reverseAddresses[Checksum(u.signer)] = u.from
    BY <2>1, <2>2 DEF TablesInv, WalletsReversed
  <2> QED BY <2>1, <2>3
<1> QED BY <1>1, TablesAlways, PTL

\* No later registration or wallet changes whom a signed transaction is from.
THEOREM SenderAlwaysStable == Spec => SenderStable
<1>1. TablesInv /\ TablesInv' /\ [Next]_vars
        => [\A t \in sent : SenderOf(t)' = SenderOf(t)]_vars
  <2> SUFFICES ASSUME TablesInv, TablesInv', Next, NEW t \in sent
               PROVE  SenderOf(t)' = SenderOf(t)
    OBVIOUS
  <2>1. t.signer \in Wallets \union {None} /\ t.from \in Spelling
    BY SpellingType DEF TablesInv, TypeOK
  <2>2. CASE t.signer = None
    BY <2>2 DEF SenderOf
  <2>3. CASE t.signer # None
    <3> DEFINE k == Lower(t.signer)
    <3>1. k \in Spelling
      BY <2>1, <2>3, SpellingType
    <3>2. wallets[t.from] = t.signer
      BY <2>3 DEF TablesInv, SignedByWallet
    <3>3. \A w \in FreshWallets : k # Checksum(w)
      BY <2>1, <3>2, SpellingOf DEF FreshWallets
    <3>4. reverseAddresses'[k] = reverseAddresses[k]
          /\ addressPublicKeys \subseteq addressPublicKeys'
      <4>1. ASSUME NEW a \in Accounts, ImpersonateAccount(a)
            PROVE  reverseAddresses'[k] = reverseAddresses[k]
                   /\ addressPublicKeys \subseteq addressPublicKeys'
        BY <4>1, ImpersonationMoves
      <4>2. ASSUME NEW s \in FromStrings, NEW legacy \in BOOLEAN,
                   InitializeSigned(s, legacy)
            PROVE  reverseAddresses'[k] = reverseAddresses[k]
                   /\ addressPublicKeys \subseteq addressPublicKeys'
        BY <4>2, <3>1, <3>3, KeyTaken DEF InitializeSigned
      <4>3. ASSUME NEW s \in FromStrings, NEW legacy \in BOOLEAN,
                   InitializeUnsigned(s, legacy)
            PROVE  reverseAddresses'[k] = reverseAddresses[k]
                   /\ addressPublicKeys \subseteq addressPublicKeys'
        BY <4>3 DEF InitializeUnsigned
      <4> QED BY <4>1, <4>2, <4>3 DEF Next
    <3>5. CASE reverseAddresses[k] = None
      BY <2>3, <3>4, <3>5 DEF SenderOf, Recovered, Recoverable
    <3>6. CASE reverseAddresses[k] # None
      <4>1. reverseAddresses[k] \in addressPublicKeys
        BY <2>3, <3>6, HookFinds
      <4> QED BY <2>3, <3>4, <3>6, <4>1 DEF SenderOf, Recovered, Recoverable
    <3> QED BY <3>5, <3>6
  <2> QED BY <2>2, <2>3
<1> QED BY <1>1, TablesAlways, PTL DEF Spec, SenderStable

=============================================================================
