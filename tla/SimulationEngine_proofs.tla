---------------------- MODULE SimulationEngine_proofs ----------------------
(***************************************************************************)
(* Theorems about SimulationEngine, for every set of requests, accounts    *)
(* and workload, every bundle length and every way callers overlap.        *)
(***************************************************************************)
EXTENDS SimulationEngine, FiniteSetTheorems, SequenceTheorems,
        WellFoundedInduction, TLAPS

(***************************************************************************)
(* Facts about the constants and the sequences of the model.               *)
(***************************************************************************)

\* A request's transactions are a sequence no longer than MaxBundle (the txs
\* of #prepareTransaction's callers).
LEMMA RequestTxs ==
  ASSUME NEW d \in Workload \union {NoRequest}
  PROVE  /\ d.txs \in Seq(Tx)
         /\ Len(d.txs) \in 0..MaxBundle
         /\ d.kind \in Kinds \union {"none"}
         /\ d.nonce \in Nat
<1>1. CASE d = NoRequest
  BY <1>1, EngineAssumption DEF NoRequest, EngineAssumption
<1>2. CASE d \in Workload
  <2>1. d \in Descriptor
    BY <1>2, EngineAssumption DEF EngineAssumption
  <2>2. PICK n \in 0..MaxBundle : d.txs \in [1..n -> Tx]
    BY <2>1 DEF Descriptor
  <2>3. n \in Nat /\ d.txs \in Seq(Tx) /\ Len(d.txs) = n
    BY <2>2, EngineAssumption DEF EngineAssumption
  <2> QED
    BY <2>1, <2>2, <2>3 DEF Descriptor
<1> QED
  BY <1>1, <1>2

\* There are finitely many sections.
LEMMA SectionsFinite == IsFiniteSet(Sections)
<1>1. IsFiniteSet(0..MaxBundle)
  BY EngineAssumption, FS_Interval DEF EngineAssumption
<1> QED
  BY <1>1, EngineAssumption, FS_Product DEF EngineAssumption, Sections

\* Dropping the last element of a stack (Commit, revert).
LEMMA Pop ==
  ASSUME NEW S, NEW q \in Seq(S), q # <<>>
  PROVE  LET p == SubSeq(q, 1, Len(q) - 1) IN
         /\ p \in Seq(S)
         /\ Len(p) = Len(q) - 1
         /\ q[Len(q)] \in S
         /\ \A i \in 1..Len(p) : p[i] = q[i]
         /\ p # <<>> => Head(p) = Head(q)
         /\ p = <<>> => q[Len(q)] = Head(q)
<1>1. Len(q) \in Nat \ {0} /\ \A i \in 1..Len(q) : q[i] \in S
  BY EmptySeq, LenProperties, ElementOfSeq
<1> DEFINE p == SubSeq(q, 1, Len(q) - 1)
<1>2. /\ p \in Seq(S)
      /\ Len(p) = Len(q) - 1
      /\ \A i \in 1..Len(p) : p[i] = q[i]
  <2> DEFINE n == Len(q) - 1
  <2>1. n \in Nat /\ \A i \in 1..n : q[i] \in S
    BY <1>1
  <2> HIDE DEF n
  <2>2. /\ SubSeq(q, 1, n) \in Seq(S)
        /\ Len(SubSeq(q, 1, n)) = IF 1 <= n THEN n - 1 + 1 ELSE 0
        /\ \A i \in 1..(n - 1 + 1) : SubSeq(q, 1, n)[i] = q[1 + i - 1]
    BY <2>1, SubSeqProperties
  <2>3. /\ SubSeq(q, 1, n) \in Seq(S)
        /\ Len(SubSeq(q, 1, n)) = n
        /\ \A i \in 1..n : SubSeq(q, 1, n)[i] = q[i]
    BY <2>1, <2>2
  <2> QED
    BY <2>3 DEF n
<1> HIDE DEF p
<1>3. ASSUME p # <<>> PROVE Head(p) = Head(q)
  <2>1. Len(p) # 0
    BY <1>2, <1>3, EmptySeq
  <2> QED
    BY <1>1, <1>2, <2>1
<1>4. ASSUME p = <<>> PROVE q[Len(q)] = Head(q)
  <2>1. Len(q) = 1
    BY <1>1, <1>2, <1>4
  <2> QED
    BY <2>1
<1>5. p # <<>> => Head(p) = Head(q)
  BY <1>3
<1>6. p = <<>> => q[Len(q)] = Head(q)
  BY <1>4
<1> QED
  BY <1>1, <1>2, <1>5, <1>6 DEF p

\* Remembering the current world on the stack (checkpoint).
LEMMA Push ==
  ASSUME NEW S, NEW q \in Seq(S), NEW x \in S
  PROVE  /\ Append(q, x) \in Seq(S)
         /\ Len(Append(q, x)) = Len(q) + 1
         /\ Append(q, x) # <<>>
         /\ Head(Append(q, x)) = IF q = <<>> THEN x ELSE Head(q)
         /\ \A i \in 1..Len(q) : Append(q, x)[i] = q[i]
         /\ Append(q, x)[Len(q) + 1] = x
  OBVIOUS

\* Among finitely many positions there is a last one.
LEMMA LastPosition ==
  ASSUME NEW n \in Nat, NEW J \in SUBSET (1..n), J # {}
  PROVE  \E m \in J : \A j \in J : j <= m
<1> DEFINE T == {n - j : j \in J}
<1>1. T \subseteq Nat /\ T # {}
  <2>1. \A j \in J : n - j \in Nat
    <3>1. \A j \in J : j \in 1..n
      OBVIOUS
    <3> QED
      BY <3>1
  <2>2. PICK k \in J : TRUE
    OBVIOUS
  <2>3. n - k \in T
    OBVIOUS
  <2> QED
    BY <2>1, <2>3
<1>2. PICK x \in T : \A y \in T : <<y, x>> \notin OpToRel(<, Nat)
  <2> HIDE DEF T
  <2> QED
    BY <1>1, WFMin, NatLessThanWellFounded, Zenon
<1>3. \A y \in T : ~(y < x)
  <2>1. \A y \in T : y \in Nat /\ x \in Nat
    BY <1>1
  <2> HIDE DEF T
  <2> QED
    BY <1>2, <2>1, Zenon DEF OpToRel
<1>4. PICK m \in J : x = n - m
  OBVIOUS
<1>5. ASSUME NEW j \in J PROVE j <= m
  <2>1. ~(n - j < n - m)
    BY <1>3, <1>4
  <2>2. j \in 1..n /\ m \in 1..n
    OBVIOUS
  <2> QED
    BY <2>1, <2>2
<1> QED
  BY <1>5

(***************************************************************************)
(* The world state: every operation of StateManager keeps its types, and   *)
(* the worlds it remembers finite.                                         *)
(***************************************************************************)

Worlds == {w \in SUBSET Effect : IsFiniteSet(w)}

StateInv ==
  /\ world \in Worlds
  /\ checkpoints \in Seq(Worlds)
  /\ contractCache \subseteq Contract
  /\ deployedContracts \subseteq Contract

\* The checkpointing operations keep the world state well formed.
LEMMA StackKeepsState ==
  ASSUME StateInv,
         \/ Checkpoint
         \/ Commit
         \/ \E created \in SUBSET Contract : RevertCaches(created)
         \/ \E c \in Contract : RestoreContract(c)
         \/ UNCHANGED stateVars
  PROVE  StateInv'
<1>1. CASE Checkpoint
  BY <1>1, Push DEF StateInv, Checkpoint
<1>2. CASE Commit
  BY <1>2, Pop DEF StateInv, Commit
<1>3. CASE \E created \in SUBSET Contract : RevertCaches(created)
  BY <1>3, Pop DEF StateInv, RevertCaches
<1>4. CASE \E c \in Contract : RestoreContract(c)
  BY <1>4 DEF StateInv, RestoreContract
<1>5. CASE UNCHANGED stateVars
  BY <1>5 DEF StateInv, stateVars
<1> QED
  BY <1>1, <1>2, <1>3, <1>4, <1>5

\* So do the writes, of finitely many effects and of contracts.
LEMMA WritesKeepState ==
  ASSUME StateInv,
         NEW effects \in Worlds, NEW created \in SUBSET Contract,
         \/ Write(effects)
         \/ EndExecution(effects, created)
         \/ EndFailedExecution(effects, created)
  PROVE  StateInv'
<1>1. world \union effects \in Worlds
  BY FS_Union DEF StateInv, Worlds
<1>2. CASE Write(effects)
  BY <1>1, <1>2 DEF StateInv, Write
<1>3. CASE EndExecution(effects, created)
  BY <1>1, <1>3, Pop DEF StateInv, EndExecution
<1>4. CASE EndFailedExecution(effects, created)
  BY <1>1, <1>4, Pop DEF StateInv, EndFailedExecution
<1> QED
  BY <1>2, <1>3, <1>4

\* What one transaction writes is a finite set of effects.
LEMMA EffectsAreWorlds ==
  ASSUME NEW s \in Sections, NEW i \in 1..MaxBundle
  PROVE  /\ EffectsOf(s, i) \in Worlds
         /\ {NonceOf(s, i)} \in Worlds
         /\ {DataOf(s, i)} \in Worlds
         /\ {} \in Worlds
<1>1. NonceOf(s, i) \in Effect /\ DataOf(s, i) \in Effect
  BY DEF NonceOf, DataOf, Effect
<1>2. EffectsOf(s, i) = {NonceOf(s, i)} \union {DataOf(s, i)}
  BY DEF EffectsOf
<1>3. IsFiniteSet({NonceOf(s, i)}) /\ IsFiniteSet({DataOf(s, i)})
  BY FS_Singleton
<1>4. IsFiniteSet(EffectsOf(s, i)) /\ IsFiniteSet({})
  BY <1>2, <1>3, FS_Union, FS_EmptySet
<1> QED
  BY <1>1, <1>2, <1>3, <1>4 DEF Worlds

\* A nonce is a natural number (getAccountNonce).
LEMMA NonceIsNat ==
  ASSUME StateInv, NEW a \in Accounts
  PROVE  Nonce(a) \in Nat
<1> DEFINE E == {e \in world : e.part = "nonce" /\ Sender(e.sec, e.tx) = a}
<1>1. IsFiniteSet(world) /\ E \subseteq world
  BY DEF StateInv, Worlds
<1>2. IsFiniteSet(E)
  BY <1>1, FS_Subset
<1>3. Cardinality(E) \in Nat
  BY <1>2, FS_CardinalityType
<1>4. ForkNonce[a] \in Nat
  BY EngineAssumption DEF EngineAssumption
<1> QED
  BY <1>3, <1>4 DEF Nonce

(***************************************************************************)
(* Type correctness.  A section never runs more transactions than it has:  *)
(* without this the index, the effects and the contracts would leave their *)
(* types.                                                                  *)
(***************************************************************************)

ResultsFit ==
  \A s \in Sections :
    /\ Len(results[s]) <= Len(SectionTxs(s))
    /\ phase[s] = "inside" => Len(results[s]) < Len(SectionTxs(s))

\* Only a bundle is prepared, and only its own transactions; the section of an
\* estimate belongs to a transaction that waits for it.
PrepFits ==
  \A r \in Requests, i \in 1..MaxBundle :
    /\ prep[r][i] # "none" => /\ request[r].kind = "bundle"
                              /\ i \in DOMAIN request[r].txs
    /\ phase[<<r, i>>] \notin {"idle", "closed"} => prep[r][i] = "estimate"

TypeInv == TypeOK /\ StateInv /\ ResultsFit /\ PrepFits

\* The parts of a section: its request and its place in it.
LEMMA SectionParts ==
  ASSUME NEW s \in Sections
  PROVE  /\ Owner(s) \in Requests
         /\ Index(s) \in 0..MaxBundle
         /\ s = <<Owner(s), Index(s)>>
  BY DEF Sections, Owner, Index

\* The transactions a section runs, and who sends them.
LEMMA SectionTxsBounded ==
  ASSUME TypeOK, NEW s \in Sections
  PROVE  /\ SectionTxs(s) \in Seq(Tx) \/ ~IsMain(s)
         /\ Len(SectionTxs(s)) \in 0..MaxBundle
<1>1. request[Owner(s)] \in Workload \union {NoRequest}
  BY SectionParts DEF TypeOK
<1>2. request[Owner(s)].txs \in Seq(Tx) /\ Len(request[Owner(s)].txs) \in 0..MaxBundle
  BY <1>1, RequestTxs
<1>3. 1 \in 0..MaxBundle
  BY EngineAssumption DEF EngineAssumption
<1>4. CASE IsMain(s)
  BY <1>2, <1>4 DEF SectionTxs
<1>5. CASE ~IsMain(s)
  BY <1>3, <1>5 DEF SectionTxs
<1> QED
  BY <1>4, <1>5

\* What a transaction creates, whether it fails or not, are contracts.
LEMMA CreatedAreContracts ==
  ASSUME NEW s \in Sections, NEW i \in 1..MaxBundle
  PROVE  /\ MayCreate(s, i) \subseteq SUBSET Contract
         /\ Creates(s, i) \subseteq SUBSET Contract
<1> DEFINE c == <<Owner(s), IF IsMain(s) THEN i ELSE Index(s)>>
<1>1. c \in Contract
  BY SectionParts, EngineAssumption DEF EngineAssumption, Contract, IsMain
<1>2. \A x \in MayCreate(s, i) : x = {} \/ x = {c}
  BY DEF MayCreate
<1>3. \A x \in Creates(s, i) : x = {} \/ x = {c}
  BY <1>2 DEF Creates
<1> QED
  BY <1>1, <1>2, <1>3

\* The section of a request, and those of its estimates, are sections.
LEMMA MainIsSection ==
  ASSUME NEW r \in Requests
  PROVE  /\ Main(r) \in Sections
         /\ Owner(Main(r)) = r
         /\ IsMain(Main(r))
         /\ \A i \in 1..MaxBundle : <<r, i>> \in Sections /\ <<r, i>> # Main(r)
  BY EngineAssumption DEF EngineAssumption, Main, Sections, Owner, IsMain, Index

\* Only EnterRun and the end of a run touch ResultsFit.
LEMMA FitKept ==
  ASSUME ResultsFit,
         UNCHANGED <<request, results>>,
         \A s \in Sections : phase'[s] = "inside" => phase[s] = "inside"
  PROVE  ResultsFit'
  BY DEF ResultsFit, SectionTxs, IsMain, Index, Owner

\* Nothing but preparing a transaction opens the section of its estimate.
LEMMA PrepKept ==
  ASSUME PrepFits,
         UNCHANGED <<request, prep>>,
         \A s \in Sections : /\ ~IsMain(s)
                             /\ phase'[s] \notin {"idle", "closed"}
                             => phase[s] \notin {"idle", "closed"}
  PROVE  PrepFits'
<1> SUFFICES ASSUME NEW r \in Requests, NEW i \in 1..MaxBundle
             PROVE  /\ prep[r][i] # "none" => /\ request[r].kind = "bundle"
                                              /\ i \in DOMAIN request[r].txs
                    /\ phase'[<<r, i>>] \notin {"idle", "closed"} => prep[r][i] = "estimate"
  BY DEF PrepFits
<1>1. <<r, i>> \in Sections /\ ~IsMain(<<r, i>>)
  BY EngineAssumption DEF EngineAssumption, Sections, IsMain, Index
<1> QED
  BY <1>1 DEF PrepFits

\* A request that was never made has no results and runs nothing.
LEMMA FitAsked ==
  ASSUME TypeOK, ResultsFit,
         NEW r \in Requests, NEW d \in Workload, Ask(r, d),
         UNCHANGED results,
         \A s \in Sections : phase'[s] = "inside" => phase[s] = "inside"
  PROVE  ResultsFit'
<1>1. d.txs \in Seq(Tx) /\ Len(d.txs) \in Nat
  BY RequestTxs, EngineAssumption DEF EngineAssumption
<1>2. request[r] = NoRequest /\ request' = [request EXCEPT ![r] = d]
  BY DEF Ask, Asked
<1>3. request' \in [Requests -> Workload \union {NoRequest}]
  BY <1>2 DEF TypeOK
<1> SUFFICES ASSUME NEW s \in Sections
             PROVE  /\ Len(results'[s]) <= Len(SectionTxs(s)')
                    /\ phase'[s] = "inside" => Len(results'[s]) < Len(SectionTxs(s)')
  BY DEF ResultsFit
<1>4. /\ Len(results[s]) <= Len(SectionTxs(s))
      /\ phase'[s] = "inside" => Len(results[s]) < Len(SectionTxs(s))
  BY DEF ResultsFit
<1>5. Len(results[s]) \in Nat
  BY DEF TypeOK
<1>6. CASE IsMain(s) /\ Owner(s) = r
  <2>1. SectionTxs(s) = <<>> /\ SectionTxs(s)' = d.txs
    BY <1>2, <1>6, <1>3 DEF SectionTxs, NoRequest, TypeOK, IsMain, Index, Owner
  <2> QED
    BY <2>1, <1>1, <1>4, <1>5
<1>7. CASE IsMain(s) /\ Owner(s) # r
  <2>1. SectionTxs(s)' = SectionTxs(s)
    BY <1>2, <1>7, SectionParts DEF SectionTxs, TypeOK, IsMain, Index, Owner
  <2> QED
    BY <2>1, <1>4
<1>8. CASE ~IsMain(s)
  <2>1. Len(SectionTxs(s)') = 1 /\ Len(SectionTxs(s)) = 1
    BY <1>8 DEF SectionTxs, IsMain, Index, Owner
  <2> QED
    BY <2>1, <1>4
<1> QED
  BY <1>6, <1>7, <1>8

\* The initial states are well formed.
LEMMA TypeInit == Init => TypeInv
<1> SUFFICES ASSUME Init PROVE TypeInv
  OBVIOUS
<1>1. StateInv
  BY FS_EmptySet DEF Init, StateInit, StateInv, Worlds
<1>2. TypeOK
  BY <1>1 DEF Init, TypeOK, StateTypeOK, StateInv, Worlds, PrepStates, Phases, Answers
<1>3. ResultsFit
  BY <1>2, SectionTxsBounded DEF Init, ResultsFit
<1>4. PrepFits
  <2>1. \A r \in Requests, i \in 1..MaxBundle : prep[r][i] = "none"
    BY DEF Init
  <2>2. \A r \in Requests, i \in 1..MaxBundle : phase[<<r, i>>] = "idle"
    BY MainIsSection DEF Init
  <2> QED
    BY <2>1, <2>2 DEF PrepFits
<1> QED
  BY <1>1, <1>2, <1>3, <1>4 DEF TypeInv

\* TypeOK of the variables that are not the world state's.
LEMMA TypesFromState ==
  ASSUME StateInv'
  PROVE  StateTypeOK(Effect, Contract)'
<1>1. Worlds \subseteq SUBSET Effect
  BY DEF Worlds
<1>2. checkpoints' \in Seq(SUBSET Effect)
  <2>1. checkpoints' \in Seq(Worlds)
    BY DEF StateInv
  <2>2. PICK n \in Nat : checkpoints' \in [1..n -> Worlds]
    BY <2>1, SeqDef
  <2>3. checkpoints' \in [1..n -> SUBSET Effect]
    BY <2>2, <1>1
  <2> QED
    BY <2>3, SeqDef
<1> QED
  BY <1>1, <1>2 DEF StateInv, StateTypeOK

\* Making a request.
LEMMA TypeSubmit ==
  ASSUME TypeInv, NEW r \in Requests, Submit(r)
  PROVE  TypeInv'
<1> USE DEF TypeInv
<1> PICK d \in Workload :
      \/ Call(r, d) \/ CallWithoutTo(r, d) \/ EstimateGas(r, d)
      \/ ExecuteTyped(r, d) \/ ExecuteBundle(r, d) \/ SetState(r, d)
  BY DEF Submit
<1>1. Main(r) \in Sections
  BY MainIsSection
<1>2. d.nonce \in Nat
  BY RequestTxs
<1>3. request' \in [Requests -> Workload \union {NoRequest}]
  BY DEF TypeOK, Call, CallWithoutTo, EstimateGas, ExecuteTyped, ExecuteBundle, SetState, Ask
<1>4. PrepFits'
  <2>1. request[r] = NoRequest /\ request' = [request EXCEPT ![r] = d]
    BY DEF Call, CallWithoutTo, EstimateGas, ExecuteTyped, ExecuteBundle, SetState, Ask, Asked
  <2>2. \A i \in 1..MaxBundle : prep[r][i] = "none"
    <3>1. request[r].kind = "none"
      BY <2>1 DEF NoRequest
    <3> QED
      BY <3>1 DEF PrepFits
  <2>3. \/ prep' = prep
        \/ /\ d.kind = "bundle"
           /\ prep' = [prep EXCEPT ![r] =
                         [i \in 1..MaxBundle |->
                            IF i \in DOMAIN d.txs THEN "nonce" ELSE "none"]]
    BY DEF Call, CallWithoutTo, EstimateGas, ExecuteTyped, ExecuteBundle, SetState
  <2>4. ASSUME NEW q \in Requests, NEW i \in 1..MaxBundle, prep'[q][i] # "none"
        PROVE  request'[q].kind = "bundle" /\ i \in DOMAIN request'[q].txs
    <3>1. CASE q # r
      <4>1. request'[q] = request[q] /\ prep'[q] = prep[q]
        BY <2>1, <2>3, <3>1 DEF TypeOK
      <4> QED
        BY <2>4, <4>1 DEF PrepFits
    <3>2. CASE q = r
      <4>1. request'[r] = d
        BY <2>1 DEF TypeOK
      <4>2. prep'[r][i] # prep[r][i]
        BY <2>2, <2>4, <3>2
      <4>3. /\ d.kind = "bundle"
            /\ prep'[r][i] = IF i \in DOMAIN d.txs THEN "nonce" ELSE "none"
        BY <2>3, <4>2 DEF TypeOK
      <4>4. i \in DOMAIN d.txs
        BY <2>4, <3>2, <4>3
      <4> QED
        BY <3>2, <4>1, <4>3, <4>4
    <3> QED
      BY <3>1, <3>2
  <2>5. ASSUME NEW q \in Requests, NEW i \in 1..MaxBundle,
               phase'[<<q, i>>] \notin {"idle", "closed"}
        PROVE  prep'[q][i] = "estimate"
    <3>1. phase'[<<q, i>>] = phase[<<q, i>>]
      <4>1. <<q, i>> \in Sections /\ <<q, i>> # Main(r)
        BY MainIsSection DEF Main
      <4>2. UNCHANGED phase \/ \E ph \in Phases : phase' = [phase EXCEPT ![Main(r)] = ph]
        BY DEF Call, CallWithoutTo, EstimateGas, ExecuteTyped, ExecuteBundle, SetState,
               OpenSection, Phases
      <4> QED
        BY <4>1, <4>2 DEF TypeOK
    <3>2. prep[q][i] = "estimate"
      BY <2>5, <3>1 DEF PrepFits
    <3>3. q # r
      BY <2>2, <3>2
    <3> QED
      BY <2>3, <3>2, <3>3 DEF TypeOK
  <2> QED
    BY <2>4, <2>5 DEF PrepFits
<1>5. CASE Call(r, d) \/ EstimateGas(r, d)
  <2>1. StateInv'
    BY <1>5, StackKeepsState DEF Call, EstimateGas, OpenSection
  <2>2. TypeOK'
    BY <1>1, <1>3, <1>5, <2>1, TypesFromState
    DEF TypeOK, Call, EstimateGas, OpenSection, Phases
  <2>3. ResultsFit'
    BY <1>1, <1>5, FitAsked DEF Call, EstimateGas, OpenSection, TypeOK
  <2> QED
    BY <2>1, <2>2, <2>3, <1>4
<1>6. CASE ExecuteTyped(r, d)
  <2>1. StateInv'
    BY <1>6, StackKeepsState DEF ExecuteTyped, OpenSection
  <2>2. 1 \in 1..MaxBundle
    BY EngineAssumption DEF EngineAssumption
  <2>3. TypeOK'
    BY <1>1, <1>2, <1>3, <1>6, <2>1, <2>2, TypesFromState
    DEF TypeOK, ExecuteTyped, OpenSection, Phases
  <2>4. ResultsFit'
    BY <1>1, <1>6, FitAsked DEF ExecuteTyped, OpenSection, TypeOK
  <2> QED
    BY <2>1, <2>3, <2>4, <1>4
<1>7. CASE CallWithoutTo(r, d) \/ ExecuteBundle(r, d) \/ SetState(r, d)
  <2>1. StateInv'
    BY <1>7, StackKeepsState DEF CallWithoutTo, ExecuteBundle, SetState, stateVars
  <2>2. prep' \in [Requests -> [1..MaxBundle -> PrepStates]]
    BY <1>7 DEF TypeOK, CallWithoutTo, ExecuteBundle, SetState, PrepStates
  <2>3. answer' \in [Requests -> Answers]
    BY <1>7 DEF TypeOK, CallWithoutTo, ExecuteBundle, SetState, Answers
  <2>4. TypeOK'
    BY <1>3, <1>7, <2>1, <2>2, <2>3, TypesFromState
    DEF TypeOK, CallWithoutTo, ExecuteBundle, SetState
  <2>5. ResultsFit'
    BY <1>7, FitAsked DEF CallWithoutTo, ExecuteBundle, SetState
  <2> QED
    BY <2>1, <2>4, <2>5, <1>4
<1> QED
  BY <1>5, <1>6, <1>7

\* Preparing a transaction of a bundle.
LEMMA TypePrepare ==
  ASSUME TypeInv, NEW r \in Requests, NEW i \in 1..MaxBundle,
         ReadNonce(r, i) \/ Populated(r, i) \/ PrepareFails(r, i)
  PROVE  TypeInv'
<1> USE DEF TypeInv
<1>1. <<r, i>> \in Sections
  BY MainIsSection
<1>2. ASSUME prep[r][i] # "none" PROVE request[r].txs[i].from \in Accounts
  <2>1. request[r] \in Workload \union {NoRequest}
    BY DEF TypeOK
  <2>2. request[r].txs \in Seq(Tx)
    BY <2>1, RequestTxs
  <2>3. i \in DOMAIN request[r].txs
    BY <1>2 DEF PrepFits
  <2>4. request[r].txs[i] \in Tx
    BY <2>2, <2>3
  <2> QED
    BY <2>4 DEF Tx
<1>3. PrepFits'
  <2>1. \/ UNCHANGED prep
        \/ \E p \in PrepStates :
             prep[r][i] # "none" /\ prep' = [prep EXCEPT ![r][i] = p]
    BY DEF ReadNonce, Populated, PrepareFails, PrepStates
  <2>2. UNCHANGED request
    BY DEF ReadNonce, Populated, PrepareFails
  <2>3. \A q \in Requests, j \in 1..MaxBundle :
          prep'[q][j] # "none" => prep[q][j] # "none"
    BY <2>1 DEF TypeOK
  <2>4. ASSUME NEW q \in Requests, NEW j \in 1..MaxBundle,
               phase'[<<q, j>>] \notin {"idle", "closed"}
        PROVE  prep'[q][j] = "estimate"
    <3>1. CASE q = r /\ j = i
      <4>1. prep[r][i] # "estimate"
        BY DEF ReadNonce, Populated, PrepareFails
      <4>2. phase'[<<r, i>>] # phase[<<r, i>>]
        BY <2>4, <3>1, <4>1 DEF PrepFits
      <4>3. Populated(r, i) /\ prep' = [prep EXCEPT ![r][i] = "estimate"]
        BY <4>2 DEF ReadNonce, Populated, PrepareFails
      <4> QED
        BY <3>1, <4>3 DEF TypeOK
    <3>2. CASE ~(q = r /\ j = i)
      <4>1. phase'[<<q, j>>] = phase[<<q, j>>]
        <5>1. <<q, j>> \in Sections /\ <<q, j>> # <<r, i>>
          BY <3>2, MainIsSection
        <5>2. UNCHANGED phase \/ phase' = [phase EXCEPT ![<<r, i>>] = "running"]
          BY DEF ReadNonce, Populated, PrepareFails, OpenSection
        <5> QED
          BY <5>1, <5>2 DEF TypeOK
      <4>2. prep'[q][j] = prep[q][j]
        BY <2>1, <3>2 DEF TypeOK
      <4> QED
        BY <2>4, <4>1, <4>2 DEF PrepFits
    <3> QED
      BY <3>1, <3>2
  <2>5. ASSUME NEW q \in Requests, NEW j \in 1..MaxBundle, prep'[q][j] # "none"
        PROVE  request'[q].kind = "bundle" /\ j \in DOMAIN request'[q].txs
    <3>1. prep[q][j] # "none"
      BY <2>3, <2>5
    <3>2. request[q].kind = "bundle" /\ j \in DOMAIN request[q].txs
      BY <3>1 DEF PrepFits
    <3> QED
      BY <2>2, <3>2
  <2> QED
    BY <2>4, <2>5 DEF PrepFits
<1>4. CASE ReadNonce(r, i)
  <2>1. StateInv'
    BY <1>4, StackKeepsState DEF ReadNonce
  <2>2. Nonce(request[r].txs[i].from) \in Nat
    BY <1>2, <1>4, NonceIsNat DEF ReadNonce
  <2>3. TypeOK'
    BY <1>4, <2>1, <2>2, TypesFromState DEF TypeOK, ReadNonce, PrepStates
  <2>4. ResultsFit'
    BY <1>4, FitKept DEF ReadNonce
  <2> QED
    BY <2>1, <2>3, <2>4, <1>3
<1>5. CASE Populated(r, i)
  <2>1. StateInv'
    BY <1>5, StackKeepsState DEF Populated, OpenSection
  <2>2. prep' \in [Requests -> [1..MaxBundle -> PrepStates]]
    <3>1. PICK p \in {"ready", "estimate"} : prep' = [prep EXCEPT ![r][i] = p]
      BY <1>5 DEF Populated
    <3> QED
      BY <3>1 DEF TypeOK, PrepStates
  <2>3. phase' \in [Sections -> Phases]
    BY <1>1, <1>5 DEF TypeOK, Populated, OpenSection, Phases
  <2>4. TypeOK'
    BY <1>5, <2>1, <2>2, <2>3, TypesFromState DEF TypeOK, Populated
  <2>5. ResultsFit'
    BY <1>1, <1>5, FitKept DEF Populated, OpenSection, TypeOK
  <2> QED
    BY <2>1, <2>4, <2>5, <1>3
<1>6. CASE PrepareFails(r, i)
  <2>1. StateInv'
    BY <1>6, StackKeepsState DEF PrepareFails
  <2>2. TypeOK'
    BY <1>6, <2>1, TypesFromState
    DEF TypeOK, PrepareFails, RejectFirst, PrepStates, Answers
  <2>3. ResultsFit'
    BY <1>6, FitKept DEF PrepareFails
  <2> QED
    BY <2>1, <2>2, <2>3, <1>3
<1> QED
  BY <1>4, <1>5, <1>6

\* A request or one of its executions goes on.
LEMMA TypeRequestStep ==
  ASSUME TypeInv, NEW r \in Requests, RequestStep(r)
  PROVE  TypeInv'
<1> USE DEF TypeInv
<1>1. Main(r) \in Sections
  BY MainIsSection
<1>2. CASE SetStateLands(r)
  <2>1. 1 \in 1..MaxBundle
    BY EngineAssumption DEF EngineAssumption
  <2>2. StateInv'
    BY <1>1, <1>2, <2>1, WritesKeepState, EffectsAreWorlds DEF SetStateLands
  <2>3. TypeOK'
    BY <1>2, <2>2, TypesFromState DEF TypeOK, SetStateLands, Answers
  <2>4. ResultsFit' /\ PrepFits'
    BY <1>2, FitKept, PrepKept DEF SetStateLands, Main, IsMain, Index
  <2> QED
    BY <2>2, <2>3, <2>4
<1>3. CASE SetStateFails(r)
  <2>1. StateInv'
    BY <1>3, StackKeepsState DEF SetStateFails
  <2>2. TypeOK'
    BY <1>3, <2>1, TypesFromState DEF TypeOK, SetStateFails, Answers
  <2>3. ResultsFit' /\ PrepFits'
    BY <1>3, FitKept, PrepKept DEF SetStateFails, Main, IsMain, Index
  <2> QED
    BY <2>1, <2>2, <2>3
<1>4. CASE StartExecution(r)
  <2>1. StateInv'
    BY <1>4, StackKeepsState DEF StartExecution, OpenSection
  <2>2. TypeOK'
    BY <1>1, <1>4, <2>1, TypesFromState DEF TypeOK, StartExecution, OpenSection, Phases
  <2>3. ResultsFit' /\ PrepFits'
    BY <1>1, <1>4, FitKept, PrepKept DEF StartExecution, OpenSection, TypeOK, Main, IsMain, Index
  <2> QED
    BY <2>1, <2>2, <2>3
<1>5. CASE BeginBlock(r)
  <2>1. StateInv'
    BY <1>5, StackKeepsState DEF BeginBlock
  <2>2. TypeOK'
    BY <1>1, <1>5, <2>1, TypesFromState DEF TypeOK, BeginBlock, Phases
  <2>3. ResultsFit' /\ PrepFits'
    BY <1>1, <1>5, FitKept, PrepKept DEF BeginBlock, TypeOK, Main, IsMain, Index
  <2> QED
    BY <2>1, <2>2, <2>3
<1>6. CASE NoLastBlock(r)
  <2>1. StateInv'
    BY <1>6, StackKeepsState DEF NoLastBlock
  <2>2. TypeOK'
    BY <1>1, <1>6, <2>1, TypesFromState DEF TypeOK, NoLastBlock, Throw, Phases
  <2>3. ResultsFit' /\ PrepFits'
    BY <1>1, <1>6, FitKept, PrepKept DEF NoLastBlock, Throw, TypeOK, Main, IsMain, Index
  <2> QED
    BY <2>1, <2>2, <2>3
<1> QED
  BY <1>2, <1>3, <1>4, <1>5, <1>6 DEF RequestStep

\* What the transactions of an execution run under is their hash.
LEMMA HashOfIsHash ==
  ASSUME TypeOK, NEW r \in Requests, NEW i \in DOMAIN request[r].txs
  PROVE  i \in 1..MaxBundle /\ HashOf(r, i) \in Hash
<1>1. request[r] \in Workload \union {NoRequest}
  BY DEF TypeOK
<1>2. request[r].txs \in Seq(Tx) /\ Len(request[r].txs) \in 0..MaxBundle
  BY <1>1, RequestTxs
<1>3. i \in 1..MaxBundle /\ request[r].txs[i] \in Tx
  BY <1>2, EngineAssumption DEF EngineAssumption
<1>4. txNonce[r][i] \in Nat
  <2>1. txNonce[r] \in [1..MaxBundle -> Nat]
    BY DEF TypeOK
  <2> QED
    BY <1>3, <2>1
<1> DEFINE tx == request[r].txs[i]
<1>5. tx.from \in Accounts /\ tx.create \in BOOLEAN /\ tx.payload \in Payloads
  BY <1>3 DEF Tx
<1>6. CASE Signed(r, tx)
  <2>1. Signer(r, tx) \in Accounts
    BY <1>5, <1>6, EngineAssumption DEF EngineAssumption, Signer, Signed
  <2>2. HashOf(r, i) = [signer |-> Signer(r, tx), create |-> tx.create,
                        payload |-> tx.payload, nonce |-> txNonce[r][i]]
    BY <1>6 DEF HashOf
  <2> QED
    BY <1>3, <1>4, <1>5, <2>1, <2>2 DEF Hash
<1>7. CASE ~Signed(r, tx)
  BY <1>3, <1>7 DEF HashOf, Hash
<1> QED
  BY <1>6, <1>7

\* An execution has run transactions of its own request only, and of those with
\* one hash there is a last.
LEMMA LastIsRun ==
  ASSUME TypeOK, ResultsFit, NEW s \in Sections, Executes(s)
  PROVE  /\ DOMAIN results[s] \subseteq DOMAIN request[Owner(s)].txs
         /\ \A h \in HashesOf(s) : /\ LastWith(s, h) \in DOMAIN results[s]
                                   /\ HashOf(Owner(s), LastWith(s, h)) = h
<1>1. Owner(s) \in Requests
  BY SectionParts
<1>2. results[s] \in Seq(Outcomes) /\ Len(results[s]) <= Len(SectionTxs(s))
  BY DEF ResultsFit, TypeOK
<1>3. SectionTxs(s) = request[Owner(s)].txs
  BY DEF Executes, SectionTxs
<1>4. request[Owner(s)].txs \in Seq(Tx)
  BY <1>1, RequestTxs DEF TypeOK
<1>5. Len(results[s]) \in Nat /\ DOMAIN results[s] = 1..Len(results[s])
  BY <1>2
<1>6. DOMAIN results[s] \subseteq DOMAIN request[Owner(s)].txs
  BY <1>2, <1>3, <1>4, <1>5
<1>7. ASSUME NEW h \in HashesOf(s)
      PROVE  LastWith(s, h) \in DOMAIN results[s] /\ HashOf(Owner(s), LastWith(s, h)) = h
  <2> DEFINE J == {j \in DOMAIN results[s] : HashOf(Owner(s), j) = h}
  <2>1. J \subseteq 1..Len(results[s]) /\ J # {}
    BY <1>5 DEF HashesOf
  <2>2. PICK m \in J : \A j \in J : j <= m
    <3> HIDE DEF J
    <3> QED
      BY <1>5, <2>1, LastPosition
  <2>3. \E i \in DOMAIN results[s] :
          /\ HashOf(Owner(s), i) = h
          /\ \A j \in DOMAIN results[s] : HashOf(Owner(s), j) = h => j <= i
    BY <2>2
  <2> QED
    BY <2>3 DEF LastWith
<1> QED
  BY <1>6, <1>7

\* The entries an execution adds are entries.
LEMMA IndexStaysTyped ==
  ASSUME TypeOK, ResultsFit, NEW s \in Sections,
         index' = IF Executes(s) THEN Overwritten(index, IndexedResults(s)) ELSE index
  PROVE  DOMAIN index' \subseteq Hash /\ index' \in [DOMAIN index' -> IndexEntry]
<1>1. CASE ~Executes(s)
  BY <1>1 DEF TypeOK
<1>2. CASE Executes(s)
  <2> DEFINE new == IndexedResults(s)
  <2>1. Owner(s) \in Requests
    BY SectionParts
  <2>2. DOMAIN new = HashesOf(s) /\ HashesOf(s) \subseteq Hash
    BY <1>2, <2>1, LastIsRun, HashOfIsHash DEF IndexedResults, HashesOf
  <2>3. ASSUME NEW h \in DOMAIN new PROVE new[h] \in IndexEntry
    <3> DEFINE i == LastWith(s, h)
    <3>1. i \in DOMAIN results[s] /\ i \in 1..MaxBundle
      BY <1>2, <2>1, <2>2, <2>3, LastIsRun, HashOfIsHash
    <3>2. results[s][i] \in Outcomes
      BY <3>1 DEF TypeOK
    <3>3. blockNumber \in Nat
      BY DEF TypeOK
    <3>4. new[h] = [tx |-> <<Owner(s), i>>, status |-> results[s][i],
                    block |-> IF InBlock(s) THEN blockNumber ELSE 0]
      BY <2>2, <2>3 DEF IndexedResults
    <3> QED
      BY <2>1, <3>1, <3>2, <3>3, <3>4 DEF IndexEntry, Contract
  <2> HIDE DEF new
  <2>4. index' = Overwritten(index, new)
    BY <1>2 DEF new
  <2>5. DOMAIN index \subseteq Hash /\ index \in [DOMAIN index -> IndexEntry]
    BY DEF TypeOK
  <2> QED
    BY <2>2, <2>3, <2>4, <2>5 DEF Overwritten
<1> QED
  BY <1>1, <1>2

\* A section runs, ends, or puts code back.
LEMMA TypeSectionStep ==
  ASSUME TypeInv, NEW s \in Sections, SectionStep(s)
  PROVE  TypeInv'
<1> USE DEF TypeInv
<1>1. Owner(s) \in Requests /\ Index(s) \in 0..MaxBundle
  BY SectionParts
<1>2. CASE EnterRun(s)
  <2>1. StateInv'
    BY <1>2, StackKeepsState DEF EnterRun
  <2>2. TypeOK'
    BY <1>1, <1>2, <2>1, TypesFromState
    DEF TypeOK, EnterRun, Phases, StateInv, Worlds
  <2>3. Len(results[s]) < Len(SectionTxs(s))
    BY <1>2, SectionTxsBounded DEF EnterRun, HasRun, ResultsFit, TypeOK
  <2>4. ResultsFit'
    BY <1>2, <2>3 DEF EnterRun, ResultsFit, TypeOK, SectionTxs, IsMain, Index, Owner
  <2>5. PrepFits'
    BY <1>2, PrepKept DEF EnterRun, TypeOK
  <2> QED
    BY <2>1, <2>2, <2>4, <2>5
<1>3. ASSUME NEW outcome \in Outcomes, phase[s] = "inside", Ran(s, outcome), StateInv'
      PROVE  TypeInv'
  <2>1. results[s] \in Seq(Outcomes) /\ Len(results[s]) < Len(SectionTxs(s))
    BY <1>3 DEF ResultsFit, TypeOK
  <2>2. TypeOK'
    BY <1>3, <2>1, TypesFromState DEF TypeOK, Ran, Phases
  <2>3. Len(results'[s]) = Len(results[s]) + 1
    BY <1>3, <2>1 DEF Ran, TypeOK
  <2>4. ASSUME NEW t \in Sections
        PROVE  /\ Len(results'[t]) <= Len(SectionTxs(t))
               /\ phase'[t] = "inside" => Len(results'[t]) < Len(SectionTxs(t))
    <3>1. CASE t = s
      BY <1>3, <2>1, <2>3, <3>1, SectionTxsBounded DEF Ran, TypeOK
    <3>2. CASE t # s
      BY <1>3, <3>2 DEF Ran, TypeOK, ResultsFit
    <3> QED
      BY <3>1, <3>2
  <2>5. ResultsFit'
    BY <1>3, <2>4 DEF Ran, ResultsFit, SectionTxs, IsMain, Index, Owner
  <2>6. PrepFits'
    BY <1>3, PrepKept DEF Ran, TypeOK
  <2> QED
    BY <1>3, <2>2, <2>5, <2>6
<1>4. CASE RunCall(s)
  <2>1. 1 \in 1..MaxBundle
    BY EngineAssumption DEF EngineAssumption
  <2>3. {DataOf(s, 1)} \in Worlds /\ {} \in Worlds
    BY <2>1, EffectsAreWorlds
  <2>2. StateInv'
    BY <1>4, <2>3, WritesKeepState DEF RunCall
  <2> QED
    BY <1>3, <1>4, <2>2 DEF RunCall, Outcomes
<1>13. ASSUME phase[s] = "inside"
       PROVE  /\ Len(results[s]) + 1 \in 1..MaxBundle
              /\ MayCreate(s, Len(results[s]) + 1) \subseteq SUBSET Contract
              /\ Creates(s, Len(results[s]) + 1) \subseteq SUBSET Contract
  <2>1. Len(results[s]) \in Nat /\ Len(results[s]) < Len(SectionTxs(s))
    BY <1>13 DEF ResultsFit, TypeOK
  <2>2. Len(SectionTxs(s)) \in 0..MaxBundle /\ MaxBundle \in Nat
    BY SectionTxsBounded, EngineAssumption DEF EngineAssumption
  <2>3. Len(results[s]) + 1 \in 1..MaxBundle
    BY <2>1, <2>2
  <2> QED
    BY <2>3, CreatedAreContracts
<1>5. CASE RunTransaction(s)
  <2> DEFINE i == Len(results[s]) + 1
  <2>1. /\ i \in 1..MaxBundle
        /\ MayCreate(s, i) \subseteq SUBSET Contract
        /\ Creates(s, i) \subseteq SUBSET Contract
    BY <1>5, <1>13 DEF RunTransaction
  <2>3. EffectsOf(s, i) \in Worlds /\ {NonceOf(s, i)} \in Worlds
    BY <2>1, EffectsAreWorlds
  <2>4. \/ /\ Ran(s, "ok")
           /\ \E created \in Creates(s, i) : EndExecution(EffectsOf(s, i), created)
        \/ /\ Ran(s, "exception")
           /\ \E created \in MayCreate(s, i) :
                EndFailedExecution({NonceOf(s, i)}, created)
    BY <1>5 DEF RunTransaction
  <2> HIDE DEF i
  <2>5. StateInv'
    BY <2>1, <2>3, <2>4, WritesKeepState
  <2> QED
    BY <1>3, <1>5, <2>4, <2>5 DEF RunTransaction, Outcomes
<1>6. CASE SectionThrows(s) \/ RunThrows(s)
  <2>1. StateInv'
    <3>1. CASE SectionThrows(s)
      BY <3>1, StackKeepsState DEF SectionThrows
    <3>2. CASE RunThrows(s)
      <4>1. \E created \in SUBSET Contract : RevertCaches(created)
        BY <1>13, <3>2 DEF RunThrows, StartRevert
      <4> QED
        BY <4>1, StackKeepsState
    <3> QED
      BY <1>6, <3>1, <3>2
  <2>2. PICK ph \in {"returning", "undoing"} : Throw(s, ph)
    BY <1>6 DEF SectionThrows, RunThrows
  <2>3. TypeOK'
    <3>1. restored' \in [Sections -> SUBSET Contract]
      BY <1>6 DEF TypeOK, SectionThrows, RunThrows, StartRevert
    <3> QED
      BY <2>1, <2>2, <3>1, TypesFromState DEF TypeOK, Throw, Phases
  <2>4. phase[s] \in {"head", "running", "inside"}
    BY <1>6 DEF SectionThrows, RunThrows
  <2>5. ResultsFit' /\ PrepFits'
    BY <2>2, <2>4, FitKept, PrepKept DEF Throw, TypeOK, Main, IsMain, Index
  <2> QED
    BY <2>1, <2>3, <2>5
<1>7. CASE RunThrown(s)
  <2>1. StateInv'
    BY <1>7, StackKeepsState DEF RunThrown
  <2>2. TypeOK'
    BY <1>7, <2>1, TypesFromState DEF TypeOK, RunThrown, Phases
  <2>3. ResultsFit' /\ PrepFits'
    BY <1>7, FitKept, PrepKept DEF RunThrown, TypeOK, Main, IsMain, Index
  <2> QED
    BY <2>1, <2>2, <2>3
<1>8. CASE ReturnResults(s)
  <2>1. StateInv'
    BY <1>8, StackKeepsState DEF ReturnResults
  <2>2. DOMAIN index' \subseteq Hash /\ index' \in [DOMAIN index' -> IndexEntry]
    BY <1>8, IndexStaysTyped DEF ReturnResults
  <2>3. TypeOK'
    BY <1>8, <2>1, <2>2, TypesFromState DEF TypeOK, ReturnResults, Phases
  <2>4. ResultsFit' /\ PrepFits'
    BY <1>8, FitKept, PrepKept DEF ReturnResults, TypeOK, Main, IsMain, Index
  <2> QED
    BY <2>1, <2>3, <2>4
<1>9. CASE CommitSection(s)
  <2>1. StateInv'
    BY <1>9, StackKeepsState DEF CommitSection
  <2>2. TypeOK'
    BY <1>1, <1>9, <2>1, TypesFromState DEF TypeOK, CommitSection, Phases, Answers
  <2>3. ResultsFit' /\ PrepFits'
    BY <1>9, FitKept, PrepKept DEF CommitSection, TypeOK, Main, IsMain, Index
  <2> QED
    BY <2>1, <2>2, <2>3
<1>10. CASE RevertSection(s)
  <2>1. StateInv'
    BY <1>10, StackKeepsState DEF RevertSection, StartRevert
  <2>2. TypeOK'
    BY <1>10, <2>1, TypesFromState DEF TypeOK, RevertSection, StartRevert, Phases
  <2>3. ResultsFit' /\ PrepFits'
    BY <1>10, FitKept, PrepKept DEF RevertSection, TypeOK, Main, IsMain, Index
  <2> QED
    BY <2>1, <2>2, <2>3
<1>11. CASE \E c \in Contract : RestoreCode(s, c)
  <2>1. StateInv'
    BY <1>11, StackKeepsState DEF RestoreCode
  <2>2. TypeOK'
    BY <1>11, <2>1, TypesFromState DEF TypeOK, RestoreCode
  <2>3. ResultsFit' /\ PrepFits'
    BY <1>11, FitKept, PrepKept DEF RestoreCode, Main, IsMain, Index
  <2> QED
    BY <2>1, <2>2, <2>3
<1>12. CASE FinishRevert(s)
  <2>1. StateInv'
    BY <1>12, StackKeepsState DEF FinishRevert
  <2>2. phase' \in [Sections -> Phases]
    BY <1>12 DEF TypeOK, FinishRevert, Phases
  <2>3. answer' \in [Requests -> Answers]
    BY <1>1, <1>12 DEF TypeOK, FinishRevert, RejectFirst, RevertedAnswer, Answers
  <2>4. ASSUME ~IsMain(s)
        PROVE  /\ prep[Owner(s)][Index(s)] = "estimate"
               /\ Index(s) \in 1..MaxBundle
    <3>1. Index(s) \in 1..MaxBundle
      BY <1>1, <2>4 DEF IsMain
    <3> QED
      BY <1>1, <1>12, <3>1, SectionParts DEF FinishRevert, PrepFits
  <2>5. \/ UNCHANGED prep /\ IsMain(s)
        \/ ~IsMain(s) /\ \E p \in PrepStates :
             prep' = [prep EXCEPT ![Owner(s)][Index(s)] = p]
    BY <1>12 DEF FinishRevert, PrepStates
  <2>6. prep' \in [Requests -> [1..MaxBundle -> PrepStates]]
    <3>1. CASE IsMain(s)
      BY <2>5, <3>1 DEF TypeOK
    <3>2. CASE ~IsMain(s)
      <4>1. PICK p \in PrepStates : prep' = [prep EXCEPT ![Owner(s)][Index(s)] = p]
        BY <2>5, <3>2
      <4> QED
        BY <1>1, <2>4, <3>2, <4>1 DEF TypeOK
    <3> QED
      BY <3>1, <3>2
  <2>7. TypeOK'
    BY <1>12, <2>1, <2>2, <2>3, <2>6, TypesFromState DEF TypeOK, FinishRevert
  <2>8. ResultsFit'
    BY <1>12, FitKept DEF FinishRevert, TypeOK
  <2>9. PrepFits'
    <3>1. UNCHANGED request /\ phase' = [phase EXCEPT ![s] = "closed"]
      BY <1>12 DEF FinishRevert
    <3>2. CASE IsMain(s)
      BY <2>5, <3>1, <3>2, PrepKept DEF TypeOK
    <3>3. CASE ~IsMain(s)
      <4>1. PICK p \in PrepStates : prep' = [prep EXCEPT ![Owner(s)][Index(s)] = p]
        BY <2>5, <3>3
      <4>2. SUFFICES ASSUME NEW q \in Requests, NEW j \in 1..MaxBundle
                     PROVE  /\ prep'[q][j] # "none" => prep[q][j] # "none"
                            /\ phase'[<<q, j>>] \notin {"idle", "closed"}
                                 => prep'[q][j] = "estimate"
        BY <3>1 DEF PrepFits
      <4>3. <<q, j>> \in Sections /\ s = <<Owner(s), Index(s)>>
        BY MainIsSection, SectionParts
      <4>4. CASE q = Owner(s) /\ j = Index(s)
        <5>1. phase'[<<q, j>>] = "closed"
          BY <3>1, <4>3, <4>4 DEF TypeOK
        <5>2. prep[q][j] = "estimate"
          BY <2>4, <3>3, <4>4
        <5> QED
          BY <5>1, <5>2
      <4>5. CASE ~(q = Owner(s) /\ j = Index(s))
        <5>1. <<q, j>> # s
          BY <4>3, <4>5
        <5>2. phase'[<<q, j>>] = phase[<<q, j>>]
          BY <3>1, <4>3, <5>1 DEF TypeOK
        <5>3. prep'[q][j] = prep[q][j]
          BY <1>1, <4>1, <4>5, <2>4, <3>3 DEF TypeOK
        <5> QED
          BY <5>2, <5>3 DEF PrepFits
      <4> QED
        BY <4>4, <4>5
    <3> QED
      BY <3>2, <3>3
  <2> QED
    BY <2>1, <2>7, <2>8, <2>9
<1> QED
  BY <1>2, <1>4, <1>5, <1>6, <1>7, <1>8, <1>9, <1>10, <1>11, <1>12 DEF SectionStep

\* Every step keeps the types.
LEMMA TypeNext == TypeInv /\ [Next]_vars => TypeInv'
<1> SUFFICES ASSUME TypeInv, [Next]_vars PROVE TypeInv'
  OBVIOUS
<1>1. ASSUME NEW r \in Requests, Submit(r) PROVE TypeInv'
  BY <1>1, TypeSubmit
<1>2. ASSUME NEW r \in Requests, Prepare(r) PROVE TypeInv'
  BY <1>2, TypePrepare DEF Prepare
<1>3. ASSUME NEW r \in Requests, RequestStep(r) PROVE TypeInv'
  BY <1>3, TypeRequestStep
<1>4. ASSUME NEW s \in Sections, SectionStep(s) PROVE TypeInv'
  BY <1>4, TypeSectionStep
<1>5. CASE UNCHANGED vars
  BY <1>5 DEF vars, stateVars, TypeInv, TypeOK, StateTypeOK, StateInv, ResultsFit, PrepFits,
              SectionTxs, IsMain, Index, Owner
<1> QED
  BY <1>1, <1>2, <1>3, <1>4, <1>5 DEF Next, Continue

\* The engine's state always has its declared types: in particular no
\* transaction of a bundle is run, indexed or deployed that the bundle does not
\* have (#executeTransactions, #prepareResults).
THEOREM TypeCorrect == Spec => []TypeOK
<1>1. TypeInv => TypeOK
  BY DEF TypeInv
<1> QED
  BY <1>1, TypeInit, TypeNext, PTL DEF Spec

(***************************************************************************)
(* The checkpoint stack.  Depth(ph) is how many checkpoints a section in   *)
(* phase ph has on it.                                                     *)
(***************************************************************************)

Depth(ph) == IF ph = "inside" THEN 2 ELSE IF ph \in OpenPhases THEN 1 ELSE 0

\* Moving one element in or out of a finite set.
LEMMA CountMoves ==
  ASSUME NEW A, NEW B, NEW x, IsFiniteSet(A),
         \/ x \in B /\ B = A \union {x}
         \/ x \notin B /\ B = A \ {x}
  PROVE  /\ IsFiniteSet(B)
         /\ Cardinality(A) \in Nat
         /\ Cardinality(B) \in Nat
         /\ Cardinality(B) = Cardinality(A) + (IF x \in B THEN 1 ELSE 0)
                                           - (IF x \in A THEN 1 ELSE 0)
<1>1. Cardinality(A) \in Nat
  BY FS_CardinalityType
<1>2. CASE x \in B /\ B = A \union {x}
  <2>1. /\ IsFiniteSet(B)
        /\ Cardinality(B) = IF x \in A THEN Cardinality(A) ELSE Cardinality(A) + 1
    BY <1>2, FS_AddElement
  <2> QED
    BY <1>1, <1>2, <2>1
<1>3. CASE x \notin B /\ B = A \ {x}
  <2>1. /\ IsFiniteSet(B)
        /\ Cardinality(B) = IF x \in A THEN Cardinality(A) - 1 ELSE Cardinality(A)
    BY <1>3, FS_RemoveElement
  <2>2. Cardinality(B) \in Nat
    BY <2>1, FS_CardinalityType
  <2> QED
    BY <1>1, <1>3, <2>1, <2>2
<1> QED
  BY <1>2, <1>3

\* A section that moves to another phase changes the number of checkpoints the
\* sections hold by the difference of the depths.
LEMMA DepthMoves ==
  ASSUME TypeOK, NEW s \in Sections, NEW ph \in Phases,
         phase' = [phase EXCEPT ![s] = ph]
  PROVE  /\ Cardinality(OpenSections) + Cardinality(InsideSections) \in Nat
         /\ Cardinality(OpenSections') + Cardinality(InsideSections') =
              Cardinality(OpenSections) + Cardinality(InsideSections)
                + Depth(ph) - Depth(phase[s])
<1>1. phase \in [Sections -> Phases] /\ phase' \in [Sections -> Phases]
  BY DEF TypeOK
<1>2. IsFiniteSet(OpenSections) /\ IsFiniteSet(InsideSections)
  BY SectionsFinite, FS_Subset DEF OpenSections, InsideSections
<1>3. \/ s \in OpenSections' /\ OpenSections' = OpenSections \union {s}
      \/ s \notin OpenSections' /\ OpenSections' = OpenSections \ {s}
  BY <1>1 DEF OpenSections
<1>4. \/ s \in InsideSections' /\ InsideSections' = InsideSections \union {s}
      \/ s \notin InsideSections' /\ InsideSections' = InsideSections \ {s}
  BY <1>1 DEF InsideSections
<1>5. /\ Cardinality(OpenSections) \in Nat
      /\ Cardinality(OpenSections') \in Nat
      /\ Cardinality(OpenSections') = Cardinality(OpenSections)
            + (IF s \in OpenSections' THEN 1 ELSE 0) - (IF s \in OpenSections THEN 1 ELSE 0)
  BY <1>2, <1>3, CountMoves
<1>6. /\ Cardinality(InsideSections) \in Nat
      /\ Cardinality(InsideSections') \in Nat
      /\ Cardinality(InsideSections') = Cardinality(InsideSections)
            + (IF s \in InsideSections' THEN 1 ELSE 0)
            - (IF s \in InsideSections THEN 1 ELSE 0)
  BY <1>2, <1>4, CountMoves
<1>7. Depth(ph) = (IF s \in OpenSections' THEN 1 ELSE 0)
                    + (IF s \in InsideSections' THEN 1 ELSE 0)
  BY <1>1 DEF Depth, OpenSections, InsideSections, OpenPhases
<1>8. Depth(phase[s]) = (IF s \in OpenSections THEN 1 ELSE 0)
                         + (IF s \in InsideSections THEN 1 ELSE 0)
  BY <1>1 DEF Depth, OpenSections, InsideSections, OpenPhases
<1> QED
  BY <1>5, <1>6, <1>7, <1>8

(***************************************************************************)
(* A request's own section and its answer.  An answer comes only once: a   *)
(* section that is open belongs to a request that has not been answered,   *)
(* and a bundle that executes has nothing left to prepare.                 *)
(***************************************************************************)

AnswerFitsFor(r) ==
  /\ request[r].kind = "none" => answer[r] = "none"
  /\ phase[Main(r)] # "idle" =>
       /\ request[r].kind \in {"call", "estimate", "bundle", "raw"}
       /\ request[r].kind = "bundle" =>
            \A i \in DOMAIN request[r].txs : prep[r][i] = "ready"
  /\ phase[Main(r)] \notin {"idle", "closed"} => answer[r] = "none"

AnswerFits == \A r \in Requests : AnswerFitsFor(r)

\* Most steps only move a section on.
LEMMA AnswersKept ==
  ASSUME AnswerFits,
         UNCHANGED <<request, prep, answer>>,
         \A s \in Sections :
           /\ phase'[s] # "idle" => phase[s] # "idle"
           /\ phase'[s] \notin {"idle", "closed"} => phase[s] \notin {"idle", "closed"}
  PROVE  AnswerFits'
  BY MainIsSection DEF AnswerFits, AnswerFitsFor, Main

\* Making a request keeps answers and phases in agreement.
LEMMA AnswersSubmit ==
  ASSUME TypeInv, AnswerFits, NEW r \in Requests, Submit(r)
  PROVE  AnswerFits'
<1> PICK d \in Workload :
      \/ Call(r, d) \/ CallWithoutTo(r, d) \/ EstimateGas(r, d)
      \/ ExecuteTyped(r, d) \/ ExecuteBundle(r, d) \/ SetState(r, d)
  BY DEF Submit
<1>1. /\ request[r] = NoRequest
      /\ request' = [request EXCEPT ![r] = d]
      /\ request \in [Requests -> Workload \union {NoRequest}]
  BY DEF Call, CallWithoutTo, EstimateGas, ExecuteTyped, ExecuteBundle, SetState, Ask, Asked,
         TypeInv, TypeOK
<1>2. request[r].kind = "none" /\ answer[r] = "none" /\ phase[Main(r)] = "idle"
  <2>1. request[r].kind = "none"
    BY <1>1 DEF NoRequest
  <2> QED
    BY <2>1 DEF AnswerFits, AnswerFitsFor
<1>3. d.kind \in Kinds
  BY EngineAssumption DEF EngineAssumption, Descriptor
<1>4. \/ UNCHANGED phase
      \/ /\ d.kind \in {"call", "estimate", "raw"}
         /\ \E ph \in Phases : phase' = [phase EXCEPT ![Main(r)] = ph]
         /\ UNCHANGED answer
  BY DEF Call, CallWithoutTo, EstimateGas, ExecuteTyped, ExecuteBundle, SetState, OpenSection,
         Phases
<1>5. UNCHANGED answer \/ answer' = [answer EXCEPT ![r] = "rejected"]
  BY DEF Call, CallWithoutTo, EstimateGas, ExecuteTyped, ExecuteBundle, SetState
<1>6. UNCHANGED prep \/ \E f : prep' = [prep EXCEPT ![r] = f]
  BY DEF Call, CallWithoutTo, EstimateGas, ExecuteTyped, ExecuteBundle, SetState
<1>7. Main(r) \in Sections
  BY MainIsSection
<1> SUFFICES ASSUME NEW q \in Requests
             PROVE  AnswerFitsFor(q)'
  BY DEF AnswerFits, AnswerFitsFor
<1>8. CASE q = r
  <2>1. request'[r] = d /\ d.kind # "none"
    BY <1>1, <1>3 DEF Kinds
  <2>2. phase'[Main(r)] # "idle" => d.kind \in {"call", "estimate", "raw"} /\ answer'[r] = "none"
    BY <1>2, <1>4
  <2> QED
    BY <1>8, <2>1, <2>2 DEF AnswerFitsFor, Main
<1>9. CASE q # r
  <2>1. Main(q) \in Sections /\ Main(q) # Main(r)
    BY <1>9, MainIsSection DEF Main
  <2>2. /\ request'[q] = request[q] /\ answer'[q] = answer[q] /\ prep'[q] = prep[q]
        /\ phase'[Main(q)] = phase[Main(q)]
    BY <1>1, <1>4, <1>5, <1>6, <1>7, <1>9, <2>1 DEF TypeInv, TypeOK
  <2> QED
    BY <2>2 DEF AnswerFits, AnswerFitsFor, Main
<1> QED
  BY <1>8, <1>9

\* So does preparing a transaction, which can only reject its own bundle.
LEMMA AnswersPrepare ==
  ASSUME TypeInv, AnswerFits, NEW r \in Requests, Prepare(r)
  PROVE  AnswerFits'
<1> PICK i \in 1..MaxBundle : ReadNonce(r, i) \/ Populated(r, i) \/ PrepareFails(r, i)
  BY DEF Prepare
<1>1. prep[r][i] \in {"nonce", "populate"}
  BY DEF ReadNonce, Populated, PrepareFails
<1>2. request[r].kind = "bundle" /\ i \in DOMAIN request[r].txs
  BY <1>1 DEF TypeInv, PrepFits
<1>3. phase[Main(r)] = "idle"
  BY <1>1, <1>2 DEF AnswerFits, AnswerFitsFor
<1>4. /\ UNCHANGED request
      /\ UNCHANGED answer \/ answer' = [answer EXCEPT ![r] = "rejected"]
      /\ UNCHANGED phase \/ phase' = [phase EXCEPT ![<<r, i>>] = "running"]
      /\ \E p : prep' = [prep EXCEPT ![r][i] = p]
  BY DEF ReadNonce, Populated, PrepareFails, RejectFirst, OpenSection
<1>5. ASSUME NEW q \in Requests
      PROVE  /\ Main(q) \in Sections
             /\ phase'[Main(q)] = phase[Main(q)]
             /\ q # r => answer'[q] = answer[q] /\ prep'[q] = prep[q]
  <2>1. Main(q) \in Sections /\ Main(q) # <<r, i>>
    BY MainIsSection DEF Main
  <2> QED
    BY <1>4, <2>1 DEF TypeInv, TypeOK
<1>6. phase'[Main(r)] = "idle" /\ request'[r].kind # "none"
  BY <1>2, <1>3, <1>4, <1>5
<1> SUFFICES ASSUME NEW q \in Requests
             PROVE  AnswerFitsFor(q)'
  BY DEF AnswerFits
<1>7. CASE q = r
  BY <1>6, <1>7 DEF AnswerFitsFor, Main
<1>8. CASE q # r
  BY <1>4, <1>5, <1>8 DEF AnswerFits, AnswerFitsFor, Main
<1> QED
  BY <1>7, <1>8

\* An answer to a request that has no open section of its own, or the section
\* closing as it answers.
LEMMA AnswersGiven ==
  ASSUME TypeInv, AnswerFits, NEW r \in Requests, request[r].kind # "none",
         UNCHANGED <<request, prep>>,
         \A q \in Requests : q # r => answer'[q] = answer[q],
         \A q \in Requests : q # r => phase'[Main(q)] = phase[Main(q)],
         phase'[Main(r)] \in {"idle", "closed"},
         phase'[Main(r)] # "idle" => phase[Main(r)] # "idle"
  PROVE  AnswerFits'
<1> SUFFICES ASSUME NEW q \in Requests
             PROVE  AnswerFitsFor(q)'
  BY DEF AnswerFits
<1>1. CASE q = r
  BY <1>1 DEF AnswerFits, AnswerFitsFor, Main
<1>2. CASE q # r
  BY <1>2 DEF AnswerFits, AnswerFitsFor, Main
<1> QED
  BY <1>1, <1>2

\* So do setters and the start of an execution.
LEMMA AnswersRequestStep ==
  ASSUME TypeInv, AnswerFits, NEW r \in Requests, RequestStep(r)
  PROVE  AnswerFits'
<1>1. /\ Main(r) \in Sections
      /\ \A q \in Requests : Main(q) \in Sections /\ (q # r => Main(q) # Main(r))
      /\ phase \in [Sections -> Phases]
      /\ answer \in [Requests -> Answers]
  BY MainIsSection DEF Main, TypeInv, TypeOK
<1>2. CASE SetStateLands(r) \/ SetStateFails(r)
  <2>1. phase[Main(r)] = "idle" /\ request[r].kind = "set"
    BY <1>2 DEF SetStateLands, SetStateFails, AnswerFits, AnswerFitsFor
  <2> QED
    BY <1>1, <1>2, <2>1, AnswersGiven DEF SetStateLands, SetStateFails
<1>3. CASE StartExecution(r)
  <2>1. PICK ph \in Phases : phase' = [phase EXCEPT ![Main(r)] = ph]
    BY <1>3 DEF StartExecution, OpenSection, Phases
  <2> SUFFICES ASSUME NEW q \in Requests
               PROVE  AnswerFitsFor(q)'
    BY DEF AnswerFits
  <2>2. CASE q = r
    BY <1>3, <2>2 DEF StartExecution, AnswerFits, AnswerFitsFor, Main
  <2>3. CASE q # r
    BY <1>1, <1>3, <2>1, <2>3 DEF StartExecution, AnswerFits, AnswerFitsFor, Main
  <2> QED
    BY <2>2, <2>3
<1>4. CASE BeginBlock(r) \/ NoLastBlock(r)
  BY <1>1, <1>4, AnswersKept DEF BeginBlock, NoLastBlock, Throw
<1> QED
  BY <1>2, <1>3, <1>4 DEF RequestStep

\* So does a section, which settles at most the request it belongs to.
LEMMA AnswersSectionStep ==
  ASSUME TypeInv, AnswerFits, NEW s \in Sections, SectionStep(s)
  PROVE  AnswerFits'
<1>1. /\ Owner(s) \in Requests
      /\ \A q \in Requests : /\ Main(q) \in Sections
                             /\ Main(q) = s => IsMain(s) /\ q = Owner(s)
      /\ IsMain(s) => s = Main(Owner(s))
      /\ phase \in [Sections -> Phases]
      /\ answer \in [Requests -> Answers]
  BY MainIsSection, SectionParts DEF Main, Owner, Index, IsMain, TypeInv, TypeOK
<1>2. CASE \/ EnterRun(s) \/ RunCall(s) \/ RunTransaction(s) \/ SectionThrows(s)
           \/ RunThrows(s) \/ RunThrown(s) \/ ReturnResults(s) \/ RevertSection(s)
           \/ \E c \in Contract : RestoreCode(s, c)
  <2>1. UNCHANGED <<request, prep, answer>>
    BY <1>2 DEF EnterRun, RunCall, RunTransaction, Ran, SectionThrows, RunThrows, Throw,
                RunThrown, ReturnResults, RevertSection, RestoreCode
  <2>2. \/ UNCHANGED phase
        \/ /\ phase[s] \notin {"idle", "closed"}
           /\ \E ph \in Phases : phase' = [phase EXCEPT ![s] = ph]
    BY <1>2 DEF EnterRun, RunCall, RunTransaction, Ran, SectionThrows, RunThrows, Throw,
                RunThrown, ReturnResults, RevertSection, RestoreCode, Phases
  <2> QED
    BY <1>1, <2>1, <2>2, AnswersKept
<1>3. CASE CommitSection(s)
  <2>1. IsMain(s) /\ request[Owner(s)].kind # "none"
    BY <1>3 DEF CommitSection, Commits, Executes, Kind
  <2> QED
    BY <1>1, <1>3, <2>1, AnswersGiven DEF CommitSection
<1>4. CASE FinishRevert(s) /\ IsMain(s)
  <2>1. phase[Main(Owner(s))] = "restoring"
    BY <1>1, <1>4 DEF FinishRevert
  <2>2. request[Owner(s)].kind # "none"
    BY <1>1, <2>1 DEF AnswerFits, AnswerFitsFor
  <2> QED
    BY <1>1, <1>4, <2>1, <2>2, AnswersGiven DEF FinishRevert
<1>5. CASE FinishRevert(s) /\ ~IsMain(s)
  <2> DEFINE r == Owner(s)
             i == Index(s)
  <2>1. i \in 1..MaxBundle /\ s = <<r, i>>
    BY <1>5, SectionParts DEF IsMain
  <2>2. prep[r][i] = "estimate"
    BY <1>1, <1>5, <2>1 DEF FinishRevert, TypeInv, PrepFits
  <2>3. request[r].kind = "bundle" /\ i \in DOMAIN request[r].txs
    BY <1>1, <2>1, <2>2 DEF TypeInv, PrepFits
  <2>4. phase[Main(r)] = "idle"
    BY <1>1, <2>2, <2>3 DEF AnswerFits, AnswerFitsFor
  <2>5. /\ UNCHANGED request
        /\ phase' = [phase EXCEPT ![s] = "closed"]
        /\ \E p : prep' = [prep EXCEPT ![r][i] = p]
        /\ UNCHANGED answer \/ answer' = [answer EXCEPT ![r] = "rejected"]
    BY <1>5 DEF FinishRevert, RejectFirst
  <2>6. \A q \in Requests : phase'[Main(q)] = phase[Main(q)]
    BY <1>1, <1>5, <2>5
  <2>7. \A q \in Requests : q # r => prep'[q] = prep[q] /\ answer'[q] = answer[q]
    BY <1>1, <2>5 DEF TypeInv, TypeOK
  <2> HIDE DEF r, i
  <2> SUFFICES ASSUME NEW q \in Requests
               PROVE  AnswerFitsFor(q)'
    BY DEF AnswerFits
  <2>8. CASE q = r
    BY <2>3, <2>4, <2>5, <2>6, <2>8 DEF AnswerFitsFor, Main
  <2>9. CASE q # r
    BY <2>5, <2>6, <2>7, <2>9 DEF AnswerFits, AnswerFitsFor, Main
  <2> QED
    BY <2>8, <2>9
<1> QED
  BY <1>2, <1>3, <1>4, <1>5 DEF SectionStep

(***************************************************************************)
(* What a step may do to the stack: leave it, push the current world for a *)
(* section that goes one deeper, pop it for one that comes one up, or, for *)
(* a setter, write beside it.                                              *)
(***************************************************************************)

MovesTo(s, ph) == phase' = [phase EXCEPT ![s] = ph]

LeavesStack ==
  /\ UNCHANGED <<world, checkpoints>>
  /\ \/ UNCHANGED phase
     \/ \E s \in Sections, ph \in Phases : MovesTo(s, ph) /\ Depth(ph) = Depth(phase[s])

PushesStack ==
  /\ checkpoints' = Append(checkpoints, world)
  /\ UNCHANGED world
  /\ \E s \in Sections, ph \in Phases : MovesTo(s, ph) /\ Depth(ph) = Depth(phase[s]) + 1

PopsStack ==
  /\ checkpoints # <<>>
  /\ checkpoints' = SubSeq(checkpoints, 1, Len(checkpoints) - 1)
  /\ \E s \in Sections, ph \in Phases :
       /\ MovesTo(s, ph)
       /\ Depth(phase[s]) = Depth(ph) + 1
       /\ \/ world' = checkpoints[Len(checkpoints)]
          \/ phase[s] = "inside"
          \/ /\ phase[s] = "returning"
             /\ Commits(s)
             /\ answer' = [answer EXCEPT ![Owner(s)] = "ok"]

StackStep ==
  \/ LeavesStack
  \/ PushesStack
  \/ PopsStack
  \/ UNCHANGED phase /\ \E r \in Requests : SetStateLands(r)

\* Opening a section pushes one world.
LEMMA OpenPushes ==
  ASSUME NEW s \in Sections, NEW ph \in {"running", "head"}, OpenSection(s, ph),
         phase[s] \in {"idle", "closed"}
  PROVE  StackStep
<1>1. Depth(ph) = 1 /\ Depth(phase[s]) = 0
  BY DEF Depth, OpenPhases
<1>2. Depth(ph) = Depth(phase[s]) + 1 /\ ph \in Phases
  BY <1>1 DEF Phases
<1> QED
  BY <1>2 DEF StackStep, PushesStack, OpenSection, Checkpoint, MovesTo

\* Making a request opens one section with one checkpoint, or none.
LEMMA SubmitMoves ==
  ASSUME TypeInv, AnswerFits, NEW r \in Requests, Submit(r)
  PROVE  StackStep
<1> PICK d \in Workload :
      \/ Call(r, d) \/ CallWithoutTo(r, d) \/ EstimateGas(r, d)
      \/ ExecuteTyped(r, d) \/ ExecuteBundle(r, d) \/ SetState(r, d)
  BY DEF Submit
<1>1. Main(r) \in Sections
  BY MainIsSection
<1>2. phase[Main(r)] = "idle"
  <2>1. request[r].kind = "none"
    BY DEF Call, CallWithoutTo, EstimateGas, ExecuteTyped, ExecuteBundle, SetState, Ask, Asked,
           NoRequest
  <2> QED
    BY <2>1 DEF AnswerFits, AnswerFitsFor
<1>3. CASE Call(r, d) \/ EstimateGas(r, d) \/ ExecuteTyped(r, d)
  <2>1. PICK ph \in {"running", "head"} : OpenSection(Main(r), ph)
    BY <1>3 DEF Call, EstimateGas, ExecuteTyped
  <2> QED
    BY <1>1, <1>2, <2>1, OpenPushes
<1>4. CASE CallWithoutTo(r, d) \/ ExecuteBundle(r, d) \/ SetState(r, d)
  BY <1>4 DEF StackStep, LeavesStack, CallWithoutTo, ExecuteBundle, SetState, stateVars
<1> QED
  BY <1>3, <1>4

\* A preparation opens the section of its estimate, or none.
LEMMA PrepareMoves ==
  ASSUME TypeInv, NEW r \in Requests, Prepare(r)
  PROVE  StackStep
<1> PICK i \in 1..MaxBundle : ReadNonce(r, i) \/ Populated(r, i) \/ PrepareFails(r, i)
  BY DEF Prepare
<1>1. CASE UNCHANGED <<stateVars, phase>>
  BY <1>1 DEF StackStep, LeavesStack, stateVars
<1>2. CASE ~UNCHANGED <<stateVars, phase>>
  <2>1. prep[r][i] = "populate" /\ OpenSection(<<r, i>>, "running")
    BY <1>2 DEF ReadNonce, Populated, PrepareFails
  <2>2. <<r, i>> \in Sections
    BY MainIsSection
  <2>3. phase[<<r, i>>] \in {"idle", "closed"}
    BY <2>1 DEF TypeInv, PrepFits
  <2> QED
    BY <2>1, <2>2, <2>3, OpenPushes
<1> QED
  BY <1>1, <1>2

\* A step of a request opens its section or moves within it.
LEMMA RequestStepMoves ==
  ASSUME TypeInv, NEW r \in Requests, RequestStep(r)
  PROVE  StackStep
<1>1. Main(r) \in Sections
  BY MainIsSection
<1>2. CASE SetStateLands(r)
  BY <1>2 DEF StackStep, SetStateLands
<1>3. CASE SetStateFails(r)
  BY <1>3 DEF StackStep, LeavesStack, SetStateFails, stateVars
<1>4. CASE StartExecution(r)
  BY <1>1, <1>4, OpenPushes DEF StartExecution
<1>5. CASE BeginBlock(r) \/ NoLastBlock(r)
  <2>1. PICK ph \in {"running", "returning"} : MovesTo(Main(r), ph)
    BY <1>5 DEF BeginBlock, NoLastBlock, Throw, MovesTo
  <2>2. Depth(ph) = 1 /\ Depth(phase[Main(r)]) = 1 /\ ph \in Phases
    BY <1>5 DEF BeginBlock, NoLastBlock, Depth, OpenPhases, Phases
  <2>3. UNCHANGED stateVars
    BY <1>5 DEF BeginBlock, NoLastBlock
  <2> QED
    BY <1>1, <2>1, <2>2, <2>3 DEF StackStep, LeavesStack, stateVars
<1> QED
  BY <1>2, <1>3, <1>4, <1>5 DEF RequestStep

\* A section opens or ends a run, or closes, with one checkpoint each time.
LEMMA SectionStepMoves ==
  ASSUME TypeInv, NEW s \in Sections, SectionStep(s)
  PROVE  StackStep
<1>1. CASE EnterRun(s)
  <2>1. Depth("inside") = Depth(phase[s]) + 1 /\ "inside" \in Phases
    BY <1>1 DEF EnterRun, Depth, OpenPhases, Phases
  <2> QED
    BY <1>1, <2>1 DEF StackStep, PushesStack, EnterRun, Checkpoint, MovesTo
<1>2. CASE RunCall(s) \/ RunTransaction(s)
  <2>1. MovesTo(s, "running") /\ phase[s] = "inside"
    BY <1>2 DEF RunCall, RunTransaction, Ran, MovesTo
  <2>2. Depth(phase[s]) = Depth("running") + 1 /\ "running" \in Phases
    BY <2>1 DEF Depth, OpenPhases, Phases
  <2>3. /\ checkpoints # <<>>
        /\ checkpoints' = SubSeq(checkpoints, 1, Len(checkpoints) - 1)
    BY <1>2 DEF RunCall, RunTransaction, EndExecution, EndFailedExecution
  <2> QED
    BY <2>1, <2>2, <2>3 DEF StackStep, PopsStack
<1>3. CASE RunThrows(s)
  <2>1. MovesTo(s, "undoing") /\ phase[s] = "inside"
    BY <1>3 DEF RunThrows, Throw, MovesTo
  <2>2. Depth(phase[s]) = Depth("undoing") + 1 /\ "undoing" \in Phases
    BY <2>1 DEF Depth, OpenPhases, Phases
  <2> QED
    BY <1>3, <2>1, <2>2 DEF StackStep, PopsStack, RunThrows, StartRevert, RevertCaches
<1>4. CASE SectionThrows(s) \/ RunThrown(s) \/ ReturnResults(s)
  <2>1. MovesTo(s, "returning") /\ phase[s] \in {"head", "running", "undoing"}
    BY <1>4 DEF SectionThrows, Throw, RunThrown, ReturnResults, MovesTo
  <2>2. Depth("returning") = Depth(phase[s]) /\ "returning" \in Phases
    BY <2>1 DEF Depth, OpenPhases, Phases
  <2>3. UNCHANGED stateVars
    BY <1>4 DEF SectionThrows, RunThrown, ReturnResults
  <2> QED
    BY <2>1, <2>2, <2>3 DEF StackStep, LeavesStack, stateVars
<1>5. CASE CommitSection(s)
  <2>1. Depth(phase[s]) = Depth("closed") + 1 /\ "closed" \in Phases
    BY <1>5 DEF CommitSection, Depth, OpenPhases, Phases
  <2> QED
    BY <1>5, <2>1 DEF StackStep, PopsStack, CommitSection, Commit, MovesTo
<1>6. CASE RevertSection(s)
  <2>1. Depth(phase[s]) = Depth("restoring") + 1 /\ "restoring" \in Phases
    BY <1>6 DEF RevertSection, Depth, OpenPhases, Phases
  <2> QED
    BY <1>6, <2>1 DEF StackStep, PopsStack, RevertSection, StartRevert, RevertCaches, MovesTo
<1>7. CASE \E c \in Contract : RestoreCode(s, c)
  BY <1>7 DEF StackStep, LeavesStack, RestoreCode, RestoreContract
<1>8. CASE FinishRevert(s)
  <2>1. Depth(phase[s]) = Depth("closed") /\ "closed" \in Phases
    BY <1>8 DEF FinishRevert, Depth, OpenPhases, Phases
  <2> QED
    BY <1>8, <2>1 DEF StackStep, LeavesStack, FinishRevert, stateVars, MovesTo
<1> QED
  BY <1>1, <1>2, <1>3, <1>4, <1>5, <1>6, <1>7, <1>8 DEF SectionStep

\* Every step is one of those moves.
LEMMA NextMoves ==
  ASSUME TypeInv, AnswerFits, [Next]_vars
  PROVE  StackStep
<1>1. CASE UNCHANGED vars
  BY <1>1 DEF vars, stateVars, StackStep, LeavesStack
<1> QED
  BY <1>1, SubmitMoves, PrepareMoves, RequestStepMoves, SectionStepMoves DEF Next, Continue

\* Every step keeps answers and phases in agreement.
LEMMA AnswersNext ==
  ASSUME TypeInv, AnswerFits, [Next]_vars
  PROVE  AnswerFits'
<1>1. CASE UNCHANGED vars
  BY <1>1, AnswersKept DEF vars
<1> QED
  BY <1>1, AnswersSubmit, AnswersPrepare, AnswersRequestStep, AnswersSectionStep
  DEF Next, Continue

\* Each move keeps the stack as deep as sections and runs are open.
LEMMA BalanceNext ==
  ASSUME TypeInv, SectionsBalanced, StackStep
  PROVE  SectionsBalanced'
<1> DEFINE Held == Cardinality(OpenSections) + Cardinality(InsideSections)
<1>1. TypeOK /\ checkpoints \in Seq(Worlds) /\ world \in Worlds
  BY DEF TypeInv, StateInv
<1>2. Len(checkpoints) \in Nat /\ Len(checkpoints) = Held
  BY <1>1, LenProperties DEF SectionsBalanced
<1>3. ASSUME UNCHANGED phase PROVE Held' = Held
  BY <1>3 DEF OpenSections, InsideSections
<1>4. ASSUME NEW s \in Sections, NEW ph \in Phases, MovesTo(s, ph)
      PROVE  Held' = Held + Depth(ph) - Depth(phase[s])
  BY <1>1, <1>4, DepthMoves DEF MovesTo
<1> SUFFICES Len(checkpoints') = Held'
  BY DEF SectionsBalanced
<1> HIDE DEF Held
<1>5. \A ph \in Phases : Depth(ph) \in Nat
  BY DEF Depth
<1>6. phase \in [Sections -> Phases]
  BY <1>1 DEF TypeOK
<1>7. CASE LeavesStack
  BY <1>2, <1>3, <1>4, <1>5, <1>6, <1>7 DEF LeavesStack
<1>8. CASE PushesStack
  <2>1. Len(checkpoints') = Len(checkpoints) + 1
    BY <1>1, <1>8, Push DEF PushesStack
  <2> QED
    BY <1>2, <1>4, <1>5, <1>6, <1>8, <2>1 DEF PushesStack
<1>9. CASE PopsStack
  <2>1. Len(checkpoints') = Len(checkpoints) - 1
    BY <1>1, <1>9, Pop DEF PopsStack
  <2> QED
    BY <1>2, <1>4, <1>5, <1>6, <1>9, <2>1 DEF PopsStack
<1>10. CASE UNCHANGED phase /\ \E r \in Requests : SetStateLands(r)
  BY <1>2, <1>3, <1>10 DEF SetStateLands, Write
<1> QED
  BY <1>7, <1>8, <1>9, <1>10 DEF StackStep

(***************************************************************************)
(* The inductive invariant: types, answers and the balance of the stack.   *)
(***************************************************************************)

IInv == TypeInv /\ AnswerFits /\ SectionsBalanced

\* The invariant holds at first.
LEMMA InitIInv == Init => IInv
<1> SUFFICES ASSUME Init PROVE IInv
  OBVIOUS
<1>1. AnswerFits
  <2>1. \A r \in Requests : request[r].kind = "none" /\ phase[Main(r)] = "idle"
    BY MainIsSection DEF Init, NoRequest
  <2> QED
    BY <2>1 DEF Init, AnswerFits, AnswerFitsFor
<1>2. SectionsBalanced
  <2>1. OpenSections = {} /\ InsideSections = {}
    BY DEF Init, OpenSections, InsideSections, OpenPhases
  <2>2. Cardinality({}) = 0
    BY FS_EmptySet
  <2> QED
    BY <2>1, <2>2 DEF Init, StateInit, SectionsBalanced
<1> QED
  BY <1>1, <1>2, TypeInit DEF IInv

\* The invariant is inductive.
LEMMA NextIInv == IInv /\ [Next]_vars => IInv'
  BY TypeNext, AnswersNext, NextMoves, BalanceNext DEF IInv

\* However callers overlap calls, estimates, executions and setters, and
\* wherever they throw, the stack holds one checkpoint for each open section and
\* one for each run inside it (call, estimateGas, #executeTransactions).
THEOREM StackBalanced == Spec => []SectionsBalanced
<1>1. IInv => SectionsBalanced
  BY DEF IInv
<1> QED
  BY <1>1, InitIInv, NextIInv, PTL DEF Spec

(***************************************************************************)
(* The state underneath the checkpoints.                                   *)
(***************************************************************************)

BaseMoves ==
  Base' # Base =>
    \/ \E s \in Sections :
         /\ OpenSections = {s}
         /\ Commits(s)
         /\ answer[Owner(s)] = "none" /\ answer'[Owner(s)] = "ok"
    \/ /\ OpenSections = {}
       /\ \E r \in Requests :
            request[r].kind = "set" /\ answer[r] = "none" /\ answer'[r] = "ok"

\* A pop that empties the stack is the last section's own.
LEMMA LastPop ==
  ASSUME IInv, PopsStack, Base' # Base
  PROVE  \E s \in Sections :
           /\ OpenSections = {s}
           /\ Commits(s)
           /\ answer[Owner(s)] = "none" /\ answer'[Owner(s)] = "ok"
<1>1. TypeOK /\ checkpoints \in Seq(Worlds)
  BY DEF IInv, TypeInv, StateInv
<1>2. /\ Len(checkpoints') = Len(checkpoints) - 1
      /\ checkpoints' # <<>> => Head(checkpoints') = Head(checkpoints)
      /\ checkpoints' = <<>> => checkpoints[Len(checkpoints)] = Head(checkpoints)
      /\ checkpoints' \in Seq(Worlds)
  BY <1>1, Pop DEF PopsStack
<1>3. checkpoints # <<>>
  BY DEF PopsStack
<1>4. checkpoints' = <<>>
  BY <1>2, <1>3 DEF Base
<1>5. Len(checkpoints) = 1
  BY <1>1, <1>2, <1>4, LenProperties
<1>6. Base = checkpoints[Len(checkpoints)] /\ Base' = world'
  BY <1>2, <1>3, <1>4 DEF Base
<1>7. PICK s \in Sections :
        /\ phase[s] \in {"inside", "returning"}
        /\ \/ phase[s] = "inside"
           \/ Commits(s) /\ answer' = [answer EXCEPT ![Owner(s)] = "ok"]
  BY <1>6 DEF PopsStack
<1>8. IsFiniteSet(OpenSections) /\ IsFiniteSet(InsideSections)
  BY SectionsFinite, FS_Subset DEF OpenSections, InsideSections
<1>9. /\ Cardinality(OpenSections) \in Nat
      /\ Cardinality(InsideSections) \in Nat
      /\ Cardinality(OpenSections) + Cardinality(InsideSections) = 1
  BY <1>5, <1>8, FS_CardinalityType DEF IInv, SectionsBalanced
<1>10. s \in OpenSections
  BY <1>7 DEF OpenSections, OpenPhases
<1>11. Cardinality(OpenSections) # 0
  BY <1>8, <1>10, FS_EmptySet
<1>12. Cardinality(OpenSections) = 1 /\ Cardinality(InsideSections) = 0
  BY <1>9, <1>11
<1>13. OpenSections = {s}
  BY <1>8, <1>10, <1>12, FS_Singleton
<1>14. phase[s] = "returning"
  <2>1. InsideSections = {}
    BY <1>8, <1>12, FS_EmptySet
  <2> QED
    BY <1>7, <2>1 DEF InsideSections
<1>15. Commits(s) /\ answer' = [answer EXCEPT ![Owner(s)] = "ok"]
  BY <1>7, <1>14
<1>16. s = Main(Owner(s)) /\ Owner(s) \in Requests
  BY <1>15, SectionParts DEF Commits, Executes, IsMain, Main
<1>17. answer[Owner(s)] = "none"
  BY <1>14, <1>16 DEF IInv, AnswerFits, AnswerFitsFor
<1> QED
  BY <1>1, <1>13, <1>15, <1>16, <1>17 DEF TypeOK

\* Where the base moves, one section was open and commits, or none was and a setter writes.
LEMMA BaseStep ==
  ASSUME IInv, [Next]_vars
  PROVE  BaseMoves
<1>1. TypeOK /\ checkpoints \in Seq(Worlds) /\ world \in Worlds
  BY DEF IInv, TypeInv, StateInv
<1>2. StackStep
  BY NextMoves DEF IInv
<1>3. CASE LeavesStack
  BY <1>3 DEF LeavesStack, Base, BaseMoves
<1>4. CASE PushesStack
  BY <1>1, <1>4, Push DEF PushesStack, Base, BaseMoves
<1>5. CASE PopsStack
  BY <1>5, LastPop DEF BaseMoves
<1>6. ASSUME NEW r \in Requests, SetStateLands(r) PROVE BaseMoves
  <2>1. CASE checkpoints # <<>>
    BY <1>6, <2>1 DEF SetStateLands, Write, Base, BaseMoves
  <2>2. CASE checkpoints = <<>>
    <3>1. IsFiniteSet(OpenSections) /\ IsFiniteSet(InsideSections)
      BY SectionsFinite, FS_Subset DEF OpenSections, InsideSections
    <3>2. /\ Cardinality(OpenSections) \in Nat
          /\ Cardinality(InsideSections) \in Nat
          /\ Cardinality(OpenSections) + Cardinality(InsideSections) = 0
      BY <2>2, <3>1, FS_CardinalityType DEF IInv, SectionsBalanced
    <3>3. OpenSections = {}
      BY <3>1, <3>2, FS_EmptySet
    <3> QED
      BY <1>1, <1>6, <3>3 DEF SetStateLands, BaseMoves, TypeOK
  <2> QED
    BY <2>1, <2>2
<1> QED
  BY <1>2, <1>3, <1>4, <1>5, <1>6 DEF StackStep

\* Underneath all open sections the state moves only when a faultless execution
\* commits alone or a setter writes alone: calls, estimates and failed
\* executions leave the engine as they found it, in every overlap
\* (call, estimateGas, #executeTransactions, setBalance, setStorage).
THEOREM BaseMovesOnlyByCommit == Spec => BaseMovesByCommit
<1>1. IInv /\ [Next]_vars => [BaseMoves]_vars
  BY BaseStep
<1>2. Spec => [][BaseMoves]_vars
  BY <1>1, InitIInv, NextIInv, PTL DEF Spec
<1> QED
  BY <1>2 DEF BaseMovesByCommit, BaseMoves

(***************************************************************************)
(* Deployed code.  CodeRestored says nothing while a revert() is in its    *)
(* loop, so it is not inductive.  CodeComing is: what the code cache lacks *)
(* some revert() in its loop has still to put back.                        *)
(***************************************************************************)

CodeComing ==
  \A c \in deployedContracts \ contractCache :
    \E s \in Sections : Restoring(s) /\ c \notin restored[s]

\* A step that neither reverts nor ends a revert() keeps what is coming.
LEMMA CodeKept ==
  ASSUME CodeComing,
         deployedContracts' \ contractCache' \subseteq deployedContracts \ contractCache,
         UNCHANGED restored,
         \A s \in Sections : Restoring(s) => Restoring(s)'
  PROVE  CodeComing'
  BY DEF CodeComing

\* Every section but the one that moves stays in its loop.
LEMMA RestoringKept ==
  ASSUME TypeOK, NEW s \in Sections, ~Restoring(s),
         UNCHANGED phase \/ \E ph \in Phases : phase' = [phase EXCEPT ![s] = ph]
  PROVE  \A t \in Sections : Restoring(t) => Restoring(t)'
  BY DEF TypeOK, Restoring

\* A section's step leaves every missing code to some revert()'s loop.
LEMMA CodeSectionStep ==
  ASSUME IInv, CodeComing, NEW s \in Sections, SectionStep(s)
  PROVE  CodeComing'
<1>1. TypeOK
  BY DEF IInv, TypeInv
<1>2. CASE EnterRun(s) \/ SectionThrows(s) \/ ReturnResults(s) \/ CommitSection(s)
  <2>1. ~Restoring(s) /\ UNCHANGED <<contractCache, deployedContracts, restored>>
    BY <1>2 DEF EnterRun, SectionThrows, ReturnResults, CommitSection, Restoring, Checkpoint,
                Commit, stateVars
  <2>2. \E ph \in Phases : phase' = [phase EXCEPT ![s] = ph]
    BY <1>2 DEF EnterRun, SectionThrows, Throw, ReturnResults, CommitSection, Phases
  <2> QED
    BY <1>1, <2>1, <2>2, RestoringKept, CodeKept
<1>3. CASE RunCall(s) \/ RunTransaction(s)
  <2>1. /\ ~Restoring(s) /\ UNCHANGED restored
        /\ \E ph \in Phases : phase' = [phase EXCEPT ![s] = ph]
    BY <1>3 DEF RunCall, RunTransaction, Ran, Restoring, Phases
  <2>2. deployedContracts' \ contractCache' \subseteq deployedContracts \ contractCache
    BY <1>3 DEF RunCall, RunTransaction, EndExecution, EndFailedExecution
  <2> QED
    BY <1>1, <2>1, <2>2, RestoringKept, CodeKept
<1>4. CASE RunThrows(s) \/ RevertSection(s)
  <2>1. /\ restored' = [restored EXCEPT ![s] = {}]
        /\ \E ph \in {"undoing", "restoring"} : phase' = [phase EXCEPT ![s] = ph]
    BY <1>4 DEF RunThrows, RevertSection, StartRevert, Throw
  <2>2. Restoring(s)' /\ restored'[s] = {}
    BY <1>1, <2>1 DEF TypeOK, Restoring
  <2> QED
    BY <2>2 DEF CodeComing
<1>5. ASSUME NEW c \in Contract, RestoreCode(s, c) PROVE CodeComing'
  <2> SUFFICES ASSUME NEW d \in deployedContracts' \ contractCache'
               PROVE  \E t \in Sections : Restoring(t)' /\ d \notin restored'[t]
    BY DEF CodeComing
  <2>1. d \in deployedContracts \ contractCache /\ d # c
    BY <1>5 DEF RestoreCode, RestoreContract
  <2>2. PICK t \in Sections : Restoring(t) /\ d \notin restored[t]
    BY <2>1 DEF CodeComing
  <2>3. Restoring(t)' /\ d \notin restored'[t]
    BY <1>1, <1>5, <2>1, <2>2 DEF RestoreCode, Restoring, TypeOK
  <2> QED
    BY <2>3
<1>6. CASE RunThrown(s) \/ FinishRevert(s)
  <2> SUFFICES ASSUME NEW d \in deployedContracts' \ contractCache'
               PROVE  \E t \in Sections : Restoring(t)' /\ d \notin restored'[t]
    BY DEF CodeComing
  <2>1. /\ UNCHANGED <<contractCache, deployedContracts, restored>>
        /\ deployedContracts \subseteq restored[s]
        /\ \E ph \in Phases : phase' = [phase EXCEPT ![s] = ph]
    BY <1>6 DEF RunThrown, FinishRevert, stateVars, Phases
  <2>2. PICK t \in Sections : Restoring(t) /\ d \notin restored[t]
    BY <2>1 DEF CodeComing
  <2>3. t # s
    BY <2>1, <2>2
  <2>4. Restoring(t)'
    BY <1>1, <2>1, <2>2, <2>3 DEF Restoring, TypeOK
  <2> QED
    BY <2>1, <2>2, <2>4
<1> QED
  BY <1>2, <1>3, <1>4, <1>5, <1>6 DEF SectionStep

\* So does every step.
LEMMA CodeNext ==
  ASSUME IInv, CodeComing, [Next]_vars
  PROVE  CodeComing'
<1>1. TypeOK
  BY DEF IInv, TypeInv
<1>2. ASSUME NEW r \in Requests, Submit(r) PROVE CodeComing'
  <2>1. UNCHANGED <<contractCache, deployedContracts, restored>>
    BY <1>2 DEF Submit, Call, CallWithoutTo, EstimateGas, ExecuteTyped, ExecuteBundle, SetState,
                OpenSection, Checkpoint, stateVars
  <2>2. Main(r) \in Sections /\ ~Restoring(Main(r))
    <3>1. request[r].kind = "none"
      BY <1>2 DEF Submit, Call, CallWithoutTo, EstimateGas, ExecuteTyped, ExecuteBundle, SetState,
                  Ask, Asked, NoRequest
    <3> QED
      BY <3>1, MainIsSection DEF IInv, AnswerFits, AnswerFitsFor, Restoring
  <2>3. UNCHANGED phase \/ \E ph \in Phases : phase' = [phase EXCEPT ![Main(r)] = ph]
    BY <1>2 DEF Submit, Call, CallWithoutTo, EstimateGas, ExecuteTyped, ExecuteBundle, SetState,
                OpenSection, Phases
  <2> QED
    BY <1>1, <2>1, <2>2, <2>3, RestoringKept, CodeKept
<1>3. ASSUME NEW r \in Requests, Prepare(r) PROVE CodeComing'
  <2>1. PICK i \in 1..MaxBundle : ReadNonce(r, i) \/ Populated(r, i) \/ PrepareFails(r, i)
    BY <1>3 DEF Prepare
  <2>2. UNCHANGED <<contractCache, deployedContracts, restored>>
    BY <2>1 DEF ReadNonce, Populated, PrepareFails, OpenSection, Checkpoint, stateVars
  <2>3. <<r, i>> \in Sections /\ ~Restoring(<<r, i>>)
    <3>1. prep[r][i] # "estimate"
      BY <2>1 DEF ReadNonce, Populated, PrepareFails
    <3> QED
      BY <3>1, MainIsSection DEF IInv, TypeInv, PrepFits, Restoring
  <2>4. UNCHANGED phase \/ \E ph \in Phases : phase' = [phase EXCEPT ![<<r, i>>] = ph]
    BY <2>1 DEF ReadNonce, Populated, PrepareFails, OpenSection, Phases
  <2> QED
    BY <1>1, <2>2, <2>3, <2>4, RestoringKept, CodeKept
<1>4. ASSUME NEW r \in Requests, RequestStep(r) PROVE CodeComing'
  <2>1. UNCHANGED <<contractCache, deployedContracts, restored>>
    BY <1>4 DEF RequestStep, SetStateLands, SetStateFails, StartExecution, BeginBlock,
                NoLastBlock, Write, OpenSection, Checkpoint, stateVars
  <2>2. UNCHANGED phase \/ ~Restoring(Main(r))
    BY <1>4 DEF RequestStep, SetStateLands, SetStateFails, StartExecution, BeginBlock,
                NoLastBlock, Restoring
  <2>3. UNCHANGED phase \/ \E ph \in Phases : phase' = [phase EXCEPT ![Main(r)] = ph]
    BY <1>4 DEF RequestStep, SetStateLands, SetStateFails, StartExecution, BeginBlock,
                NoLastBlock, Throw, OpenSection, Phases
  <2>4. Main(r) \in Sections
    BY MainIsSection
  <2>5. \A t \in Sections : Restoring(t) => Restoring(t)'
    BY <1>1, <2>2, <2>3, <2>4, RestoringKept DEF Restoring
  <2> QED
    BY <2>1, <2>5, CodeKept
<1>5. ASSUME NEW s \in Sections, SectionStep(s) PROVE CodeComing'
  BY <1>5, CodeSectionStep
<1>6. CASE UNCHANGED vars
  BY <1>6 DEF vars, stateVars, CodeComing, Restoring
<1> QED
  BY <1>2, <1>3, <1>4, <1>5, <1>6 DEF Next, Continue

\* Reverts that empty the code cache under each other's loops lose no code: when
\* none is in its loop, every deployed contract is found
\* (OverriddenStateManager.revert).
THEOREM CodeAlwaysRestored == Spec => []CodeRestored
<1>1. Init => CodeComing
  BY DEF Init, StateInit, CodeComing
<1>2. IInv /\ CodeComing /\ [Next]_vars => CodeComing'
  BY CodeNext
<1>3. CodeComing => CodeRestored
  BY DEF CodeComing, CodeRestored
<1> QED
  BY <1>1, <1>2, <1>3, InitIInv, NextIInv, PTL DEF Spec

(***************************************************************************)
(* The blocks.  An execution runs in the first block or in none, because   *)
(* no other block finds a last one; that is why the number read after the  *)
(* awaits is still the block's own.                                        *)
(***************************************************************************)

ExecFitsFor(r) ==
  /\ phase[Main(r)] \in {"idle", "head"} => block[r] = 0
  /\ phase[Main(r)] = "head" => InBlock(Main(r))
  /\ phase[Main(r)] = "undoing" => threw[Main(r)]
  /\ phase[Main(r)] \in {"idle", "head", "running", "inside"} => ~threw[Main(r)]
  /\ phase[Main(r)] \notin {"idle", "head"} /\ ~threw[Main(r)] =>
       /\ InBlock(Main(r)) => block[r] = 1 /\ blockNumber = 1
       /\ ~InBlock(Main(r)) => block[r] = 0
  /\ answer[r] \in {"ok", "error"} /\ Executes(Main(r)) =>
       phase[Main(r)] = "closed" /\ ~threw[Main(r)]

ExecFits == \A r \in Requests : ExecFitsFor(r)

\* What a request asks for decides whether it executes, and where.
LEMMA AskedDecides ==
  ASSUME NEW r \in Requests
  PROVE  /\ Executes(Main(r)) <=> request[r].kind \in {"bundle", "raw"}
         /\ InBlock(Main(r)) => Executes(Main(r))
         /\ SectionTxs(Main(r)) = request[r].txs
         /\ request[r].kind = "raw" => InBlock(Main(r))
         /\ request'[r] = request[r] =>
              /\ Executes(Main(r))' = Executes(Main(r))
              /\ InBlock(Main(r))' = InBlock(Main(r))
  BY DEF Executes, InBlock, Signed, SectionTxs, Kind, IsMain, Index, Owner, Main

\* A step of others, which may at most reject the request.
LEMMA ExecKept ==
  ASSUME NEW r \in Requests, ExecFitsFor(r),
         request'[r] = request[r],
         phase'[Main(r)] = phase[Main(r)],
         threw'[Main(r)] = threw[Main(r)],
         block'[r] = block[r],
         blockNumber' = blockNumber \/ blockNumber # 1,
         answer'[r] \in {answer[r], "rejected"}
  PROVE  ExecFitsFor(r)'
<1>1. /\ Executes(Main(r))' = Executes(Main(r))
      /\ InBlock(Main(r))' = InBlock(Main(r))
      /\ Main(r)' = Main(r)
  BY AskedDecides DEF Main
<1> QED
  BY <1>1 DEF ExecFitsFor

\* Different requests have different sections of their own.
LEMMA MainsDiffer ==
  \A q, r \in Requests : q # r => Main(q) # Main(r)
  BY DEF Main

\* Making a request.
LEMMA ExecSubmit ==
  ASSUME TypeInv, AnswerFits, ExecFits, NEW r \in Requests, Submit(r)
  PROVE  ExecFits'
<1> PICK d \in Workload :
      \/ Call(r, d) \/ CallWithoutTo(r, d) \/ EstimateGas(r, d)
      \/ ExecuteTyped(r, d) \/ ExecuteBundle(r, d) \/ SetState(r, d)
  BY DEF Submit
<1>1. /\ request[r] = NoRequest
      /\ request' = [request EXCEPT ![r] = d]
      /\ request \in [Requests -> Workload \union {NoRequest}]
      /\ UNCHANGED <<threw, block, blockNumber, index>>
  BY DEF Call, CallWithoutTo, EstimateGas, ExecuteTyped, ExecuteBundle, SetState, Ask, Asked,
         TypeInv, TypeOK
<1>2. request[r].kind = "none" /\ answer[r] = "none" /\ phase[Main(r)] = "idle"
  <2>1. request[r].kind = "none"
    BY <1>1 DEF NoRequest
  <2> QED
    BY <2>1 DEF AnswerFits, AnswerFitsFor
<1>3. /\ phase \in [Sections -> Phases] /\ answer \in [Requests -> Answers]
      /\ Main(r) \in Sections
  BY MainIsSection DEF TypeInv, TypeOK
<1>4. \/ UNCHANGED phase
      \/ /\ d.kind \in {"call", "estimate"}
         /\ phase' = [phase EXCEPT ![Main(r)] = "running"]
         /\ UNCHANGED answer
      \/ /\ d.kind = "raw"
         /\ phase' = [phase EXCEPT ![Main(r)] = "head"]
         /\ UNCHANGED answer
  BY DEF Call, CallWithoutTo, EstimateGas, ExecuteTyped, ExecuteBundle, SetState, OpenSection
<1>5. UNCHANGED answer \/ answer' = [answer EXCEPT ![r] = "rejected"]
  BY DEF Call, CallWithoutTo, EstimateGas, ExecuteTyped, ExecuteBundle, SetState
<1> SUFFICES ASSUME NEW q \in Requests
             PROVE  ExecFitsFor(q)'
  BY DEF ExecFits
<1>6. CASE q # r
  <2>1. /\ request'[q] = request[q] /\ answer'[q] \in {answer[q], "rejected"}
        /\ phase'[Main(q)] = phase[Main(q)]
    BY <1>1, <1>3, <1>4, <1>5, <1>6, MainsDiffer, MainIsSection
  <2> QED
    BY <1>1, <2>1, ExecKept DEF ExecFits
<1>7. CASE q = r
  <2>1. block'[r] = 0 /\ answer'[r] \in {"none", "rejected"} /\ ~threw'[Main(r)]
    BY <1>1, <1>2, <1>3, <1>5 DEF ExecFits, ExecFitsFor
  <2>2. \/ phase'[Main(r)] = "idle"
        \/ phase'[Main(r)] = "running" /\ d.kind \in {"call", "estimate"}
        \/ phase'[Main(r)] = "head" /\ d.kind = "raw"
    BY <1>2, <1>3, <1>4
  <2>3. request'[r] = d
    BY <1>1
  <2>4. /\ (d.kind = "raw" => InBlock(Main(r))')
        /\ (d.kind \in {"call", "estimate"} => ~InBlock(Main(r))' /\ ~Executes(Main(r))')
    BY <2>3 DEF Executes, InBlock, Signed, SectionTxs, Kind, IsMain, Index, Owner, Main
  <2>5. Main(r)' = Main(r)
    BY DEF Main
  <2> QED
    BY <1>7, <2>1, <2>2, <2>4, <2>5 DEF ExecFitsFor
<1> QED
  BY <1>6, <1>7

\* Preparing a transaction opens no section of a request's own.
LEMMA ExecPrepare ==
  ASSUME TypeInv, ExecFits, NEW r \in Requests, Prepare(r)
  PROVE  ExecFits'
<1>1. PICK i \in 1..MaxBundle : ReadNonce(r, i) \/ Populated(r, i) \/ PrepareFails(r, i)
  BY DEF Prepare
<1>2. /\ UNCHANGED <<request, threw, block, blockNumber, index>>
      /\ UNCHANGED phase \/ phase' = [phase EXCEPT ![<<r, i>>] = "running"]
      /\ UNCHANGED answer \/ answer' = [answer EXCEPT ![r] = "rejected"]
  BY <1>1 DEF ReadNonce, Populated, PrepareFails, OpenSection, RejectFirst
<1> SUFFICES ASSUME NEW q \in Requests
             PROVE  ExecFitsFor(q)'
  BY DEF ExecFits
<1>3. Main(q) \in Sections /\ Main(q) # <<r, i>>
  BY MainIsSection DEF Main
<1>4. phase'[Main(q)] = phase[Main(q)] /\ answer'[q] \in {answer[q], "rejected"}
  BY <1>2, <1>3 DEF TypeInv, TypeOK
<1> QED
  BY <1>2, <1>4, ExecKept DEF ExecFits

\* Setters, the start of an execution, the beginning of its block.
LEMMA ExecRequestStep ==
  ASSUME TypeInv, AnswerFits, ExecFits, NEW r \in Requests, RequestStep(r)
  PROVE  ExecFits'
<1>1. /\ phase \in [Sections -> Phases] /\ answer \in [Requests -> Answers]
      /\ threw \in [Sections -> BOOLEAN] /\ block \in [Requests -> Nat]
      /\ blockNumber \in Nat
      /\ Main(r) \in Sections /\ Main(r)' = Main(r)
      /\ UNCHANGED <<request, index>>
  BY MainIsSection DEF TypeInv, TypeOK, Main, RequestStep, SetStateLands, SetStateFails,
                       StartExecution, BeginBlock, NoLastBlock, Throw
<1>2. /\ blockNumber' = blockNumber \/ blockNumber # 1
      /\ \A q \in Requests : q # r =>
           /\ phase'[Main(q)] = phase[Main(q)] /\ threw'[Main(q)] = threw[Main(q)]
           /\ block'[q] = block[q] /\ answer'[q] = answer[q]
  <2>1. CASE SetStateLands(r) \/ SetStateFails(r)
    BY <1>1, <2>1 DEF SetStateLands, SetStateFails
  <2>2. CASE StartExecution(r)
    BY <1>1, <2>2, MainsDiffer, MainIsSection DEF StartExecution, OpenSection
  <2>3. CASE BeginBlock(r)
    BY <1>1, <2>3, MainsDiffer, MainIsSection DEF BeginBlock, HeadNumber
  <2>4. CASE NoLastBlock(r)
    BY <1>1, <2>4, MainsDiffer, MainIsSection DEF NoLastBlock, Throw
  <2> QED
    BY <2>1, <2>2, <2>3, <2>4 DEF RequestStep
<1>3. ExecFitsFor(r)'
  <2>1. /\ Executes(Main(r))' = Executes(Main(r))
        /\ InBlock(Main(r))' = InBlock(Main(r))
        /\ ExecFitsFor(r)
    BY <1>1, AskedDecides DEF ExecFits
  <2>2. CASE SetStateLands(r) \/ SetStateFails(r)
    <3>1. ~Executes(Main(r)) /\ phase[Main(r)] = "idle"
      BY <2>2, AskedDecides DEF SetStateLands, SetStateFails, AnswerFits, AnswerFitsFor
    <3>2. UNCHANGED <<phase, threw, block, blockNumber>>
      BY <2>2 DEF SetStateLands, SetStateFails
    <3> QED
      BY <1>1, <2>1, <3>1, <3>2 DEF ExecFitsFor
  <2>3. CASE StartExecution(r)
    <3>1. /\ phase[Main(r)] = "idle" /\ answer'[r] = "none" /\ block'[r] = block[r]
          /\ UNCHANGED threw
          /\ phase'[Main(r)] = IF InBlock(Main(r)) THEN "head" ELSE "running"
      BY <1>1, <2>3 DEF StartExecution, OpenSection
    <3> QED
      BY <1>1, <2>1, <3>1 DEF ExecFitsFor
  <2>4. CASE BeginBlock(r)
    <3>1. /\ phase[Main(r)] = "head" /\ phase'[Main(r)] = "running"
          /\ blockNumber' = 1 /\ block'[r] = 1 /\ UNCHANGED <<answer, threw>>
      BY <1>1, <2>4 DEF BeginBlock, HeadNumber
    <3> QED
      BY <1>1, <2>1, <3>1 DEF ExecFitsFor
  <2>5. CASE NoLastBlock(r)
    <3>1. /\ phase[Main(r)] = "head" /\ phase'[Main(r)] = "returning"
          /\ threw'[Main(r)] /\ UNCHANGED <<answer, block, blockNumber>>
      BY <1>1, <2>5 DEF NoLastBlock, Throw
    <3> QED
      BY <1>1, <2>1, <3>1 DEF ExecFitsFor
  <2> QED
    BY <2>2, <2>3, <2>4, <2>5 DEF RequestStep
<1> SUFFICES ASSUME NEW q \in Requests
             PROVE  ExecFitsFor(q)'
  BY DEF ExecFits
<1>4. CASE q # r
  BY <1>1, <1>2, <1>4, ExecKept DEF ExecFits
<1> QED
  BY <1>3, <1>4

\* A step of a section leaves the executions of all other requests alone, and
\* that of an estimate leaves those of all requests alone.
LEMMA ExecOthers ==
  ASSUME TypeInv, NEW s \in Sections, SectionStep(s), NEW q \in Requests, Main(q) # s
  PROVE  /\ phase'[Main(q)] = phase[Main(q)]
         /\ threw'[Main(q)] = threw[Main(q)]
         /\ answer'[q] \in {answer[q], "rejected"}
<1>1. /\ phase \in [Sections -> Phases] /\ threw \in [Sections -> BOOLEAN]
      /\ answer \in [Requests -> Answers] /\ Main(q) \in Sections
      /\ Owner(s) \in Requests
      /\ s = <<Owner(s), Index(s)>> /\ (IsMain(s) => q # Owner(s))
  BY MainIsSection, SectionParts DEF TypeInv, TypeOK, IsMain, Main
<1>2. \/ UNCHANGED phase
      \/ \E ph \in Phases : phase' = [phase EXCEPT ![s] = ph]
  BY DEF SectionStep, EnterRun, RunCall, RunTransaction, Ran, SectionThrows, RunThrows, Throw,
         RunThrown, ReturnResults, CommitSection, RevertSection, RestoreCode, FinishRevert,
         Phases
<1>3. UNCHANGED threw \/ threw' = [threw EXCEPT ![s] = TRUE]
  BY DEF SectionStep, EnterRun, RunCall, RunTransaction, Ran, SectionThrows, RunThrows, Throw,
         RunThrown, ReturnResults, CommitSection, RevertSection, RestoreCode, FinishRevert
<1>4. \/ UNCHANGED answer
      \/ answer' = [answer EXCEPT ![Owner(s)] = "rejected"]
      \/ IsMain(s) /\ \E a \in Answers : answer' = [answer EXCEPT ![Owner(s)] = a]
  <2>1. CASE CommitSection(s)
    BY <2>1 DEF CommitSection, Commits, Executes, Answers
  <2>2. CASE FinishRevert(s)
    BY <2>2 DEF FinishRevert, RejectFirst, RevertedAnswer, Answers
  <2> QED
    BY <2>1, <2>2
       DEF SectionStep, EnterRun, RunCall, RunTransaction, Ran, SectionThrows, RunThrows,
           Throw, RunThrown, ReturnResults, RevertSection, RestoreCode
<1> QED
  BY <1>1, <1>2, <1>3, <1>4

\* A step of an execution's own section.
LEMMA ExecOwn ==
  ASSUME TypeInv, AnswerFits, ExecFits, NEW r \in Requests, SectionStep(Main(r))
  PROVE  ExecFitsFor(r)'
<1> DEFINE m == Main(r)
<1>1. /\ phase \in [Sections -> Phases] /\ threw \in [Sections -> BOOLEAN]
      /\ answer \in [Requests -> Answers]
      /\ m \in Sections /\ Owner(m) = r /\ IsMain(m) /\ m' = m
      /\ UNCHANGED <<request, block, blockNumber>>
  BY MainIsSection
     DEF TypeInv, TypeOK, Main, SectionStep, EnterRun, RunCall, RunTransaction, Ran,
         SectionThrows, RunThrows, Throw, RunThrown, ReturnResults, CommitSection,
         RevertSection, RestoreCode, FinishRevert
<1>2. /\ Executes(m)' = Executes(m)
      /\ InBlock(m)' = InBlock(m)
      /\ ExecFitsFor(r)
  BY <1>1, AskedDecides DEF ExecFits
<1>4. phase[m] \notin {"idle", "closed"} => answer[r] = "none"
  BY DEF AnswerFits, AnswerFitsFor
<1> HIDE DEF m
<1>5. CASE EnterRun(m) \/ RunCall(m) \/ RunTransaction(m)
  <2>1. /\ phase[m] \in {"running", "inside"} /\ phase'[m] \in {"running", "inside"}
        /\ UNCHANGED <<threw, answer>>
    BY <1>1, <1>5 DEF EnterRun, RunCall, RunTransaction, Ran
  <2> QED
    BY <1>1, <1>2, <1>4, <2>1 DEF ExecFitsFor, m
<1>6. CASE SectionThrows(m) \/ RunThrows(m)
  <2>1. /\ phase[m] \notin {"idle", "closed"} /\ phase'[m] \in {"returning", "undoing"}
        /\ threw'[m] /\ UNCHANGED answer
    BY <1>1, <1>6 DEF SectionThrows, RunThrows, Throw
  <2> QED
    BY <1>1, <1>2, <1>4, <2>1 DEF ExecFitsFor, m
<1>7. CASE RunThrown(m)
  <2>1. /\ phase[m] = "undoing" /\ phase'[m] = "returning" /\ UNCHANGED <<threw, answer>>
    BY <1>1, <1>7 DEF RunThrown
  <2> QED
    BY <1>1, <1>2, <1>4, <2>1 DEF ExecFitsFor, m
<1>8. CASE ReturnResults(m)
  <2>1. /\ phase[m] = "running" /\ phase'[m] = "returning" /\ UNCHANGED <<threw, answer>>
    BY <1>1, <1>8 DEF ReturnResults
  <2> QED
    BY <1>1, <1>2, <1>4, <2>1 DEF ExecFitsFor, m
<1>9. CASE CommitSection(m)
  <2>1. /\ phase[m] = "returning" /\ phase'[m] = "closed" /\ UNCHANGED threw /\ ~threw[m]
    BY <1>1, <1>9 DEF CommitSection, Commits
  <2> QED
    BY <1>1, <1>2, <2>1 DEF ExecFitsFor, m
<1>10. CASE RevertSection(m)
  <2>1. /\ phase[m] = "returning" /\ phase'[m] = "restoring" /\ UNCHANGED <<threw, answer>>
    BY <1>1, <1>10 DEF RevertSection
  <2> QED
    BY <1>1, <1>2, <1>4, <2>1 DEF ExecFitsFor, m
<1>11. CASE \E c \in Contract : RestoreCode(m, c)
  <2>1. UNCHANGED <<phase, threw, answer>>
    BY <1>11 DEF RestoreCode
  <2> QED
    BY <1>1, <1>2, <2>1 DEF ExecFitsFor, m
<1>12. CASE FinishRevert(m)
  <2>1. /\ phase[m] = "restoring" /\ phase'[m] = "closed" /\ UNCHANGED threw
        /\ answer'[r] = RevertedAnswer(m)
    BY <1>1, <1>12 DEF FinishRevert
  <2>2. threw[m] => answer'[r] = "rejected"
    BY <2>1 DEF RevertedAnswer
  <2> QED
    BY <1>1, <1>2, <2>1, <2>2 DEF ExecFitsFor, m
<1> QED
  BY <1>5, <1>6, <1>7, <1>8, <1>9, <1>10, <1>11, <1>12 DEF SectionStep, m

\* Every step keeps executions and blocks in agreement.
LEMMA ExecNext ==
  ASSUME IInv, ExecFits, [Next]_vars
  PROVE  ExecFits'
<1>1. TypeInv /\ AnswerFits
  BY DEF IInv
<1>2. ASSUME NEW s \in Sections, SectionStep(s) PROVE ExecFits'
  <2> SUFFICES ASSUME NEW q \in Requests
               PROVE  ExecFitsFor(q)'
    BY DEF ExecFits
  <2>1. CASE Main(q) = s
    BY <1>1, <1>2, <2>1, ExecOwn
  <2>2. CASE Main(q) # s
    <3>1. UNCHANGED <<request, block, blockNumber>>
      BY <1>2
         DEF SectionStep, EnterRun, RunCall, RunTransaction, Ran, SectionThrows, RunThrows,
             Throw, RunThrown, ReturnResults, CommitSection, RevertSection, RestoreCode,
             FinishRevert
    <3> QED
      BY <1>1, <1>2, <2>2, <3>1, ExecOthers, ExecKept DEF ExecFits
  <2> QED
    BY <2>1, <2>2
<1>3. CASE UNCHANGED vars
  <2> SUFFICES ASSUME NEW q \in Requests
               PROVE  ExecFitsFor(q)'
    BY DEF ExecFits
  <2> QED
    BY <1>3, ExecKept DEF vars, ExecFits
<1> QED
  BY <1>1, <1>2, <1>3, ExecSubmit, ExecPrepare, ExecRequestStep DEF Next, Continue

(***************************************************************************)
(* The index.  Once an execution has indexed its results, nothing of what  *)
(* an entry is made from changes any more: the nonce in the hash was read  *)
(* before the execution began.                                             *)
(***************************************************************************)

\* The executions that have indexed their results.
HasIndexed(q) ==
  /\ Executes(Main(q))
  /\ phase[Main(q)] \in {"returning", "restoring", "closed"}
  /\ ~threw[Main(q)]

IndexFits ==
  /\ \A r \in Requests : HasIndexed(r) =>
       \A i \in DOMAIN request[r].txs : HashOf(r, i) \in DOMAIN index
  /\ \A h \in DOMAIN index :
       \E q \in Requests : \E j \in DOMAIN request[q].txs :
         index[h].tx = <<q, j>> /\ HasIndexed(q) /\ EntryFits(h)


\* Nothing an entry of the index is made from changes once it is there.
LEMMA IndexedFrozen ==
  ASSUME TypeInv, AnswerFits, [Next]_vars, NEW q \in Requests, HasIndexed(q)
  PROVE  /\ HasIndexed(q)'
         /\ request'[q] = request[q]
         /\ results'[Main(q)] = results[Main(q)]
         /\ block'[q] = block[q]
         /\ \A i \in DOMAIN request[q].txs : HashOf(q, i)' = HashOf(q, i)
<1> DEFINE m == Main(q)
<1>1. /\ phase \in [Sections -> Phases] /\ threw \in [Sections -> BOOLEAN]
      /\ results \in [Sections -> Seq(Outcomes)]
      /\ request \in [Requests -> Workload \union {NoRequest}]
      /\ block \in [Requests -> Nat]
      /\ txNonce \in [Requests -> [1..MaxBundle -> Nat]]
      /\ m \in Sections /\ Owner(m) = q /\ m' = m
      /\ \A r \in Requests : Main(r) \in Sections /\ (r # q => Main(r) # m)
      /\ \A r \in Requests, i \in 1..MaxBundle : <<r, i>> \in Sections /\ <<r, i>> # m
  BY MainIsSection, MainsDiffer DEF TypeInv, TypeOK, Main
<1>2. /\ request[q].kind \in {"bundle", "raw"} /\ request[q] # NoRequest
      /\ phase[m] \in {"returning", "restoring", "closed"} /\ ~threw[m]
  BY AskedDecides DEF HasIndexed, NoRequest
<1>3. \A i \in 1..MaxBundle : prep[q][i] # "nonce"
  BY <1>2 DEF TypeInv, PrepFits, AnswerFits, AnswerFitsFor
<1>4. \A i \in DOMAIN request[q].txs : i \in 1..MaxBundle
  BY HashOfIsHash DEF TypeInv
<1> DEFINE Frozen ==
      /\ request'[q] = request[q] /\ block'[q] = block[q]
      /\ phase'[m] \in {"returning", "restoring", "closed"} /\ ~threw'[m]
      /\ results'[m] = results[m]
      /\ txNonce'[q] = txNonce[q]
<1>5. ASSUME NEW r \in Requests, Submit(r) PROVE Frozen
  <2> PICK d \in Workload :
        \/ Call(r, d) \/ CallWithoutTo(r, d) \/ EstimateGas(r, d)
        \/ ExecuteTyped(r, d) \/ ExecuteBundle(r, d) \/ SetState(r, d)
    BY <1>5 DEF Submit
  <2>1. /\ request[r] = NoRequest
        /\ request' = [request EXCEPT ![r] = d]
        /\ UNCHANGED phase \/ \E ph \in Phases : phase' = [phase EXCEPT ![Main(r)] = ph]
        /\ UNCHANGED txNonce \/ txNonce' = [txNonce EXCEPT ![r][1] = d.nonce]
        /\ UNCHANGED <<threw, results, block>>
    BY DEF Call, CallWithoutTo, EstimateGas, ExecuteTyped, ExecuteBundle, SetState, Ask, Asked,
           OpenSection, Phases
  <2>2. r # q
    BY <1>2, <2>1
  <2> QED
    BY <1>1, <1>2, <2>1, <2>2
<1>6. ASSUME NEW r \in Requests, Prepare(r) PROVE Frozen
  <2>1. PICK i \in 1..MaxBundle : ReadNonce(r, i) \/ Populated(r, i) \/ PrepareFails(r, i)
    BY <1>6 DEF Prepare
  <2>2. /\ UNCHANGED <<request, threw, results, block>>
        /\ UNCHANGED phase \/ phase' = [phase EXCEPT ![<<r, i>>] = "running"]
    BY <2>1 DEF ReadNonce, Populated, PrepareFails, OpenSection
  <2>3. txNonce'[q] = txNonce[q]
    <3>1. CASE ReadNonce(r, i)
      <4>1. r # q
        BY <1>3, <3>1 DEF ReadNonce
      <4> QED
        BY <1>1, <3>1, <4>1 DEF ReadNonce
    <3>2. CASE ~ReadNonce(r, i)
      BY <2>1, <3>2 DEF Populated, PrepareFails
    <3> QED
      BY <3>1, <3>2
  <2> QED
    BY <1>1, <1>2, <2>2, <2>3
<1>7. ASSUME NEW r \in Requests, RequestStep(r) PROVE Frozen
  <2>1. /\ UNCHANGED <<request, results, txNonce>>
        /\ UNCHANGED block \/ \E n \in Nat : block' = [block EXCEPT ![r] = n]
        /\ UNCHANGED phase \/ \E ph \in Phases : phase' = [phase EXCEPT ![Main(r)] = ph]
        /\ UNCHANGED threw \/ threw' = [threw EXCEPT ![Main(r)] = TRUE]
    BY <1>7
       DEF RequestStep, SetStateLands, SetStateFails, StartExecution, OpenSection, BeginBlock,
           NoLastBlock, Throw, Phases, TypeInv, TypeOK
  <2>2. r # q \/ UNCHANGED <<phase, threw, block>>
    BY <1>2, <1>7
       DEF RequestStep, SetStateLands, SetStateFails, StartExecution, BeginBlock, NoLastBlock
  <2> QED
    BY <1>1, <1>2, <2>1, <2>2
<1>8. ASSUME NEW s \in Sections, SectionStep(s) PROVE Frozen
  <2>1. UNCHANGED <<request, txNonce, block>>
    BY <1>8
       DEF SectionStep, EnterRun, RunCall, RunTransaction, Ran, SectionThrows, RunThrows,
           Throw, RunThrown, ReturnResults, CommitSection, RevertSection, RestoreCode,
           FinishRevert
  <2>2. CASE s # m
    <3>1. UNCHANGED results \/ \E o \in Outcomes : results' = [results EXCEPT ![s] = Append(@, o)]
      BY <1>8
         DEF SectionStep, EnterRun, RunCall, RunTransaction, Ran, SectionThrows, RunThrows,
             Throw, RunThrown, ReturnResults, CommitSection, RevertSection, RestoreCode,
             FinishRevert, Outcomes
    <3> QED
      BY <1>1, <1>2, <1>8, <2>1, <2>2, <3>1, ExecOthers
  <2>3. CASE s = m
    <3>1. \/ CommitSection(m) \/ RevertSection(m) \/ FinishRevert(m)
          \/ \E c \in Contract : RestoreCode(m, c)
      BY <1>2, <1>8, <2>3
         DEF SectionStep, EnterRun, RunCall, RunTransaction, SectionThrows, RunThrows,
             RunThrown, ReturnResults
    <3>2. /\ UNCHANGED <<results, threw>>
          /\ \/ UNCHANGED phase
             \/ \E ph \in {"returning", "restoring", "closed"} :
                  phase' = [phase EXCEPT ![m] = ph]
      BY <3>1 DEF CommitSection, RevertSection, FinishRevert, RestoreCode
    <3> QED
      BY <1>1, <1>2, <2>1, <3>2
  <2> QED
    BY <2>2, <2>3
<1>9. ASSUME UNCHANGED vars PROVE Frozen
  BY <1>2, <1>9 DEF vars
<1>10. Frozen
  <2> HIDE DEF Frozen
  <2> QED
    BY <1>5, <1>6, <1>7, <1>8, <1>9 DEF Next, Continue
<1> HIDE DEF m
<1>11. HasIndexed(q)'
  <2>1. Executes(Main(q))'
    BY <1>2, <1>10 DEF Executes, IsMain, Kind, Owner, Index, Main
  <2> QED
    BY <1>1, <1>10, <2>1 DEF HasIndexed, m
<1>12. \A i \in DOMAIN request[q].txs : HashOf(q, i)' = HashOf(q, i)
  BY <1>10 DEF HashOf, Signed, Signer
<1> QED
  BY <1>10, <1>11, <1>12 DEF m

\* An execution is done when it returns its results without an error thrown.
LEMMA IndexedByReturning ==
  ASSUME TypeInv, AnswerFits, ExecFits, [Next]_vars,
         NEW q \in Requests, HasIndexed(q)', ~HasIndexed(q)
  PROVE  ReturnResults(Main(q)) /\ Executes(Main(q)) /\ ~threw[Main(q)]
<1> DEFINE m == Main(q)
<1>1. /\ phase \in [Sections -> Phases] /\ threw \in [Sections -> BOOLEAN]
      /\ request \in [Requests -> Workload \union {NoRequest}]
      /\ m \in Sections /\ Owner(m) = q /\ m' = m
      /\ \A r \in Requests : Main(r) \in Sections /\ (r # q => Main(r) # m)
      /\ \A r \in Requests, i \in 1..MaxBundle : <<r, i>> \in Sections /\ <<r, i>> # m
  BY MainIsSection, MainsDiffer DEF TypeInv, TypeOK, Main
<1>2. phase'[m] \in {"returning", "restoring", "closed"} /\ ~threw'[m] /\ Executes(m)'
  BY <1>1 DEF HasIndexed
<1>3. ASSUME phase[m] \in {"returning", "restoring", "closed"}, ~threw[m],
             request'[q] = request[q]
      PROVE  FALSE
  <2>1. Executes(m)
    BY <1>2, <1>3, AskedDecides
  <2> QED
    BY <1>3, <2>1 DEF HasIndexed
<1>4. /\ phase[m] = "undoing" => threw[m]
      /\ phase[m] \in {"idle", "head", "running", "inside"} => ~threw[m]
  BY DEF ExecFits, ExecFitsFor
<1>5. ASSUME NEW r \in Requests, Submit(r) PROVE FALSE
  <2> PICK d \in Workload :
        \/ Call(r, d) \/ CallWithoutTo(r, d) \/ EstimateGas(r, d)
        \/ ExecuteTyped(r, d) \/ ExecuteBundle(r, d) \/ SetState(r, d)
    BY <1>5 DEF Submit
  <2>1. /\ request[r] = NoRequest
        /\ request' = [request EXCEPT ![r] = d]
        /\ \/ UNCHANGED phase
           \/ \E ph \in {"running", "head"} : phase' = [phase EXCEPT ![Main(r)] = ph]
        /\ UNCHANGED threw
    BY DEF Call, CallWithoutTo, EstimateGas, ExecuteTyped, ExecuteBundle, SetState, Ask, Asked,
           OpenSection
  <2>2. r # q
    <3>1. phase[m] # "idle" => request[q].kind # "none"
      BY DEF AnswerFits, AnswerFitsFor
    <3>2. r = q => phase[m] # "idle"
      BY <1>1, <1>2, <2>1
    <3> QED
      BY <2>1, <3>1, <3>2 DEF NoRequest
  <2> QED
    BY <1>1, <1>2, <1>3, <2>1, <2>2
<1>6. ASSUME NEW r \in Requests, Prepare(r) PROVE FALSE
  <2>1. PICK i \in 1..MaxBundle : ReadNonce(r, i) \/ Populated(r, i) \/ PrepareFails(r, i)
    BY <1>6 DEF Prepare
  <2>2. /\ UNCHANGED <<request, threw>>
        /\ UNCHANGED phase \/ phase' = [phase EXCEPT ![<<r, i>>] = "running"]
    BY <2>1 DEF ReadNonce, Populated, PrepareFails, OpenSection
  <2> QED
    BY <1>1, <1>2, <1>3, <2>2
<1>7. ASSUME NEW r \in Requests, RequestStep(r) PROVE FALSE
  <2>1. /\ UNCHANGED request
        /\ UNCHANGED threw \/ threw' = [threw EXCEPT ![Main(r)] = TRUE]
        /\ \/ UNCHANGED phase
           \/ \E ph \in {"running", "head"} : phase' = [phase EXCEPT ![Main(r)] = ph]
           \/ /\ phase' = [phase EXCEPT ![Main(r)] = "returning"]
              /\ threw' = [threw EXCEPT ![Main(r)] = TRUE]
    BY <1>7
       DEF RequestStep, SetStateLands, SetStateFails, StartExecution, OpenSection, BeginBlock,
           NoLastBlock, Throw
  <2> QED
    BY <1>1, <1>2, <1>3, <2>1
<1>8. ASSUME NEW s \in Sections, SectionStep(s)
      PROVE  s = m /\ ReturnResults(m) /\ Executes(m)
  <2>1. UNCHANGED request
    BY <1>8
       DEF SectionStep, EnterRun, RunCall, RunTransaction, Ran, SectionThrows, RunThrows,
           Throw, RunThrown, ReturnResults, CommitSection, RevertSection, RestoreCode,
           FinishRevert
  <2>2. s = m
    BY <1>1, <1>2, <1>3, <1>8, <2>1, ExecOthers
  <2>3. ~(SectionThrows(m) \/ RunThrows(m))
    BY <1>1, <1>2 DEF SectionThrows, RunThrows, Throw
  <2>4. ~(EnterRun(m) \/ RunCall(m) \/ RunTransaction(m))
    BY <1>1, <1>2 DEF EnterRun, RunCall, RunTransaction, Ran
  <2>5. ~RunThrown(m)
    BY <1>1, <1>2, <1>4 DEF RunThrown
  <2>6. ~(CommitSection(m) \/ RevertSection(m) \/ FinishRevert(m)
             \/ \E c \in Contract : RestoreCode(m, c))
    <3>1. ASSUME CommitSection(m) \/ RevertSection(m) \/ FinishRevert(m)
                  \/ \E c \in Contract : RestoreCode(m, c)
          PROVE  phase[m] \in {"returning", "restoring", "undoing"} /\ UNCHANGED threw
      BY <3>1 DEF CommitSection, RevertSection, FinishRevert, RestoreCode, Restoring
    <3> QED
      BY <1>2, <1>3, <1>4, <2>1, <3>1
  <2>7. ReturnResults(m)
    BY <1>8, <2>2, <2>3, <2>4, <2>5, <2>6 DEF SectionStep
  <2>8. Executes(m)
    BY <1>2, <2>1, AskedDecides
  <2> QED
    BY <2>2, <2>7, <2>8
<1>9. CASE UNCHANGED vars
  BY <1>2, <1>3, <1>9 DEF vars
<1>10. ReturnResults(m) /\ Executes(m)
  BY <1>5, <1>6, <1>7, <1>8, <1>9 DEF Next, Continue
<1>11. ~threw[m]
  BY <1>4, <1>10 DEF ReturnResults
<1> QED
  BY <1>10, <1>11 DEF m

\* A step that adds nothing to the index leaves it right.
LEMMA IndexKept ==
  ASSUME TypeInv, AnswerFits, ExecFits, IndexFits, [Next]_vars, UNCHANGED index,
         \A r \in Requests : ~(ReturnResults(Main(r)) /\ Executes(Main(r)))
  PROVE  IndexFits'
<1>1. ASSUME NEW r \in Requests, HasIndexed(r)', NEW i \in DOMAIN request'[r].txs
      PROVE  HashOf(r, i)' \in DOMAIN index'
  <2>1. HasIndexed(r)
    BY <1>1, IndexedByReturning
  <2>2. request'[r] = request[r] /\ HashOf(r, i)' = HashOf(r, i)
    BY <1>1, <2>1, IndexedFrozen
  <2> QED
    BY <1>1, <2>1, <2>2 DEF IndexFits
<1>2. ASSUME NEW h \in DOMAIN index'
      PROVE  \E q \in Requests : \E j \in DOMAIN request'[q].txs :
               index'[h].tx = <<q, j>> /\ HasIndexed(q)' /\ EntryFits(h)'
  <2>1. PICK q \in Requests : \E j \in DOMAIN request[q].txs :
          index[h].tx = <<q, j>> /\ HasIndexed(q) /\ EntryFits(h)
    BY <1>2 DEF IndexFits
  <2>2. PICK j \in DOMAIN request[q].txs :
          index[h].tx = <<q, j>> /\ HasIndexed(q) /\ EntryFits(h)
    BY <2>1
  <2>3. /\ HasIndexed(q)' /\ request'[q] = request[q] /\ results'[Main(q)] = results[Main(q)]
        /\ block'[q] = block[q] /\ HashOf(q, j)' = HashOf(q, j)
    BY <2>2, IndexedFrozen
  <2>4. /\ j \in DOMAIN results[Main(q)] /\ HashOf(q, j) = h
        /\ index[h].status = results[Main(q)][j] /\ index[h].block = block[q]
    BY <2>2 DEF EntryFits
  <2>5. EntryFits(h)'
    BY <2>2, <2>3, <2>4 DEF EntryFits, Main
  <2> QED
    BY <2>2, <2>3, <2>5
<1> QED
  BY <1>1, <1>2 DEF IndexFits

\* An execution that returns its results puts all of them into the index, under
\* its own block and outcomes.
LEMMA IndexReturned ==
  ASSUME TypeInv, AnswerFits, ExecFits, IndexFits, [Next]_vars,
         NEW r \in Requests, ReturnResults(Main(r)), Executes(Main(r))
  PROVE  IndexFits'
<1> DEFINE m == Main(r)
           new == IndexedResults(m)
<1>1. /\ m \in Sections /\ Owner(m) = r /\ m' = m
      /\ phase \in [Sections -> Phases]
  BY MainIsSection DEF TypeInv, TypeOK, Main
<1>2. /\ phase[m] = "running" /\ phase'[m] = "returning"
      /\ index' = Overwritten(index, new)
      /\ UNCHANGED <<request, results, block, txNonce, threw>>
      /\ HasRun(m)
  BY <1>1 DEF ReturnResults
<1>3. ~threw[m] /\ block[r] = IF InBlock(m) THEN blockNumber ELSE 0
  BY <1>2 DEF ExecFits, ExecFitsFor
<1>4. HasIndexed(r)'
  <2>1. Executes(Main(r))'
    BY <1>2, AskedDecides
  <2> QED
    BY <1>1, <1>2, <1>3, <2>1 DEF HasIndexed
<1>5. \A q \in Requests, i \in 1..MaxBundle : HashOf(q, i)' = HashOf(q, i)
  BY <1>2 DEF HashOf, Signed, Signer
<1>6. DOMAIN new = HashesOf(m) /\ DOMAIN index' = DOMAIN index \union DOMAIN new
  BY <1>2 DEF IndexedResults, Overwritten
<1>7. DOMAIN results[m] = DOMAIN request[r].txs
  <2>1. request[r].txs \in Seq(Tx) /\ results[m] \in Seq(Outcomes)
    BY <1>1, RequestTxs DEF TypeInv, TypeOK
  <2>2. Len(results[m]) = Len(request[r].txs)
    BY <1>2, AskedDecides DEF HasRun
  <2> QED
    BY <2>1, <2>2
<1>8. \A q \in Requests : \A i \in DOMAIN request[q].txs : i \in 1..MaxBundle
  BY HashOfIsHash DEF TypeInv
<1>9. ASSUME NEW q \in Requests, HasIndexed(q)', NEW i \in DOMAIN request'[q].txs
      PROVE  HashOf(q, i)' \in DOMAIN index'
  <2>1. i \in DOMAIN request[q].txs /\ HashOf(q, i)' = HashOf(q, i)
    BY <1>2, <1>5, <1>8, <1>9
  <2>2. CASE HasIndexed(q)
    BY <1>6, <2>1, <2>2 DEF IndexFits
  <2>3. CASE ~HasIndexed(q)
    <3>1. ReturnResults(Main(q)) /\ Executes(Main(q))
      BY <1>9, <2>3, IndexedByReturning
    <3>2. q = r
      <4>1. /\ phase' = [phase EXCEPT ![m] = "returning"]
            /\ phase' = [phase EXCEPT ![Main(q)] = "returning"]
            /\ phase[m] = "running"
        BY <3>1 DEF ReturnResults
      <4>2. Main(q) \in Sections /\ (q # r => Main(q) # m)
        BY MainIsSection, MainsDiffer
      <4> HIDE DEF m
      <4> QED
        BY <1>1, <4>1, <4>2
    <3>3. HashOf(r, i) \in HashesOf(m)
      BY <1>1, <1>7, <2>1, <3>2 DEF HashesOf
    <3> QED
      BY <1>6, <2>1, <3>2, <3>3
  <2> QED
    BY <2>2, <2>3
<1>10. ASSUME NEW h \in DOMAIN index'
       PROVE  \E q \in Requests : \E j \in DOMAIN request'[q].txs :
                index'[h].tx = <<q, j>> /\ HasIndexed(q)' /\ EntryFits(h)'
  <2>1. CASE h \in DOMAIN new
    <3>1. PICK j \in DOMAIN results[m] : j = LastWith(m, h) /\ HashOf(r, j) = h
      BY <1>1, <1>6, <2>1, LastIsRun DEF TypeInv
    <3>2. j \in DOMAIN request[r].txs /\ j \in 1..MaxBundle
      BY <1>7, <1>8, <3>1
    <3>3. new[h] = [tx |-> <<r, j>>, status |-> results[m][j],
                    block |-> IF InBlock(m) THEN blockNumber ELSE 0]
      BY <1>1, <1>6, <2>1, <3>1 DEF IndexedResults
    <3> HIDE DEF new
    <3>4. index'[h] = new[h]
      BY <1>2, <1>6, <2>1 DEF Overwritten
    <3>5. /\ index'[h].tx = <<r, j>> /\ index'[h].status = results[m][j]
          /\ index'[h].block = block[r]
      BY <1>3, <3>3, <3>4
    <3>6. HashOf(r, j)' = h
      BY <1>5, <3>1, <3>2
    <3>7. EntryFits(h)'
      BY <1>1, <1>2, <3>1, <3>5, <3>6 DEF EntryFits
    <3> QED
      BY <1>2, <1>4, <3>2, <3>5, <3>7
  <2>2. CASE h \notin DOMAIN new
    <3>1. h \in DOMAIN index /\ index'[h] = index[h]
      BY <1>2, <1>6, <1>10, <2>2 DEF Overwritten
    <3>2. PICK q \in Requests : \E j \in DOMAIN request[q].txs :
            index[h].tx = <<q, j>> /\ HasIndexed(q) /\ EntryFits(h)
      BY <3>1 DEF IndexFits
    <3>3. PICK j \in DOMAIN request[q].txs :
            index[h].tx = <<q, j>> /\ HasIndexed(q) /\ EntryFits(h)
      BY <3>2
    <3>4. HasIndexed(q)'
      BY <3>3, IndexedFrozen
    <3>5. /\ j \in DOMAIN results[Main(q)] /\ HashOf(q, j) = h
          /\ index[h].status = results[Main(q)][j] /\ index[h].block = block[q]
      BY <3>3 DEF EntryFits
    <3>6. HashOf(q, j)' = h
      BY <1>5, <1>8, <3>5
    <3>7. EntryFits(h)'
      BY <1>2, <3>1, <3>3, <3>5, <3>6 DEF EntryFits, Main
    <3> QED
      BY <1>2, <3>1, <3>3, <3>4, <3>7
  <2> QED
    BY <2>1, <2>2
<1> QED
  BY <1>9, <1>10 DEF IndexFits

\* Every step keeps the index right.
LEMMA IndexNext ==
  ASSUME IInv, ExecFits, IndexFits, [Next]_vars
  PROVE  IndexFits'
<1>1. TypeInv /\ AnswerFits
  BY DEF IInv
<1>2. CASE \E r \in Requests : ReturnResults(Main(r)) /\ Executes(Main(r))
  BY <1>1, <1>2, IndexReturned
<1>3. CASE ~\E r \in Requests : ReturnResults(Main(r)) /\ Executes(Main(r))
  <2>1. ASSUME NEW s \in Sections, SectionStep(s) PROVE UNCHANGED index
    <3>1. CASE ReturnResults(s)
      <4>1. ~Executes(s)
        <5>1. IsMain(s) => s = Main(Owner(s)) /\ Owner(s) \in Requests
          BY SectionParts DEF IsMain, Main
        <5> QED
          BY <1>3, <3>1, <5>1 DEF Executes
      <4> QED
        BY <3>1, <4>1 DEF ReturnResults
    <3>2. CASE ~ReturnResults(s)
      BY <2>1, <3>2
         DEF SectionStep, EnterRun, RunCall, RunTransaction, Ran, SectionThrows, RunThrows,
             Throw, RunThrown, CommitSection, RevertSection, RestoreCode, FinishRevert
    <3> QED
      BY <3>1, <3>2
  <2>2. ASSUME NEW r \in Requests, Submit(r) \/ Prepare(r) \/ RequestStep(r)
        PROVE  UNCHANGED index
    <3>1. CASE Submit(r)
      BY <3>1 DEF Submit, Call, CallWithoutTo, EstimateGas, ExecuteTyped, ExecuteBundle, SetState
    <3>2. CASE Prepare(r)
      BY <3>2 DEF Prepare, ReadNonce, Populated, PrepareFails
    <3>3. CASE RequestStep(r)
      BY <3>3 DEF RequestStep, SetStateLands, SetStateFails, StartExecution, BeginBlock,
                  NoLastBlock, Throw
    <3> QED
      BY <2>2, <3>1, <3>2, <3>3
  <2>3. UNCHANGED index
    BY <2>1, <2>2 DEF Next, Continue, vars
  <2> QED
    BY <1>1, <1>3, <2>3, IndexKept
<1> QED
  BY <1>2, <1>3

\* The client of an execution that resolved finds each of its transactions in the
\* indexer by its hash, and finds one run of it, with the outcome and the block
\* of that very run: although an equal signed transaction overwrites the entry,
\* and although #prepareResults reads #blockNumber after awaits.
THEOREM ResultsAlwaysIndexed == Spec => []ResultsIndexed
<1>1. Init => ExecFits /\ IndexFits
  <2> SUFFICES ASSUME Init PROVE ExecFits /\ IndexFits
    OBVIOUS
  <2>1. \A r \in Requests : phase[Main(r)] = "idle" /\ ~threw[Main(r)]
    BY MainIsSection DEF Init
  <2>2. ExecFits
    BY <2>1 DEF Init, ExecFits, ExecFitsFor
  <2>3. DOMAIN index = {}
    BY DEF Init
  <2> QED
    BY <2>1, <2>2, <2>3 DEF IndexFits, HasIndexed
<1>2. IInv /\ ExecFits /\ IndexFits /\ [Next]_vars => ExecFits' /\ IndexFits'
  BY ExecNext, IndexNext
<1>3. ExecFits /\ IndexFits => ResultsIndexed
  <2> SUFFICES ASSUME ExecFits, IndexFits, NEW r \in Requests,
                      request[r].kind \in {"bundle", "raw"}, answer[r] \in {"ok", "error"},
                      NEW i \in DOMAIN request[r].txs
               PROVE  HashOf(r, i) \in DOMAIN index /\ EntryFits(HashOf(r, i))
    BY DEF ResultsIndexed
  <2>1. HasIndexed(r)
    BY AskedDecides DEF ExecFits, ExecFitsFor, HasIndexed
  <2> QED
    BY <2>1 DEF IndexFits
<1> QED
  BY <1>1, <1>2, <1>3, InitIInv, NextIInv, PTL DEF Spec

=============================================================================
