------------------------ MODULE ForkCreation_proofs ------------------------
(***************************************************************************)
(* Theorems about ForkCreation, for any number of nodes and chains, lists  *)
(* of URLs of any length and any timeout.                                  *)
(***************************************************************************)
EXTENDS ForkCreation, TLAPS

\* The URLs before the one being tried cannot be counted on.
TriedInv ==
  phase \in Asking \union Pausing => \A i \in 1..(at - 1) : "unreachable" \in faults[urls[i]]

\* While create() polls, behind holds every node that does not know the block,
\* and once an answer was null it holds one.
BehindInv ==
  /\ phase \in {"polling"} \union Pausing =>
       \A n \in Range(urls) : height[n] < blockNumber => n \in behind
  /\ phase \in Pausing => behind # {}

IInv == TypeOK /\ TriedInv /\ OneHealthyEnough /\ BehindInv /\ KnownBlockFound

\* A sequence of URLs that is not empty still has one when cut to its first.
LEMMA MappedUrlsTried ==
  ASSUME NEW c \in Chains, Networks[c] # <<>>
  PROVE  /\ MappedUrls(c) \in Seq(Nodes)
         /\ 1 \in DOMAIN MappedUrls(c)
<1>1. Networks[c] \in Seq(Nodes) /\ Len(Networks[c]) >= 1
  BY CreationAssumption
<1>2. /\ SubSeq(Networks[c], 1, 1) \in Seq(Nodes)
      /\ Len(SubSeq(Networks[c], 1, 1)) = 1
  BY <1>1
<1>. QED
  BY <1>1, <1>2 DEF MappedUrls

\* A provider has at least one URL.
LEMMA ProviderUrlsTried ==
  ASSUME NEW list \in ProviderUrls
  PROVE  list \in Seq(Nodes) /\ 1 \in DOMAIN list
<1>1. \A n \in Nodes : <<n>> \in Seq(Nodes) /\ 1 \in DOMAIN <<n>>
  OBVIOUS
<1>. QED
  BY <1>1, MappedUrlsTried DEF ProviderUrls

\* The URL being tried is one of the URLs, and so is every other.
LEMMA NodeInRange ==
  ASSUME NEW s \in Seq(Nodes), NEW i \in DOMAIN s
  PROVE  s[i] \in Range(s) /\ s[i] \in Nodes
BY DEF Range

LEMMA InitInv == Init => IInv
BY CreationAssumption
   DEF Init, IInv, TypeOK, TriedInv, OneHealthyEnough, BehindInv, KnownBlockFound,
       Asking, Pausing, Phases, Ends

-----------------------------------------------------------------------------
(* Types. *)

\* Every step preserves the types.
LEMMA TypeStep == TypeOK /\ [Next]_vars => TypeOK'
<1>. SUFFICES ASSUME TypeOK, [Next]_vars PROVE TypeOK'
  OBVIOUS
<1>. USE CreationAssumption DEF TypeOK, Asking, Pausing, Ends, Phases, Faults
<1>1. ASSUME NEW c \in Chains, NEW number \in 0..MaxHeight \union {NoBlock},
             CreateForChain(c, number)
      PROVE  TypeOK'
  BY <1>1, MappedUrlsTried DEF CreateForChain, AfterChainId
<1>2. ASSUME NEW list \in ProviderUrls, NEW number \in 0..MaxHeight \union {NoBlock},
             CreateForProvider(list, number)
      PROVE  TypeOK'
  BY <1>2, ProviderUrlsTried DEF CreateForProvider
<1>3. ASSUME NEW c \in Chains, CreateUnsupported(c) PROVE TypeOK'
  BY <1>3 DEF CreateUnsupported
<1>4. CASE NextUrl
  BY <1>4 DEF NextUrl
<1>5. CASE Refused
  BY <1>5 DEF Refused
<1>6. CASE ChainDetected
  BY <1>6 DEF ChainDetected, Answered, AfterChainId
<1>7. CASE HeightTold
  BY <1>7, NodeInRange DEF HeightTold, Answered, Node
<1>8. CASE BeginPolling
  BY <1>8, NodeInRange DEF BeginPolling, Answered, Range
<1>9. CASE Polled
  BY <1>9 DEF Polled, Answered
<1>10. CASE PollAgain
  BY <1>10 DEF PollAgain
<1>11. CASE Tick
  BY <1>11 DEF Tick
<1>12. ASSUME NEW n \in Nodes, NodeAdvances(n) PROVE TypeOK'
  BY <1>12 DEF NodeAdvances
<1>13. CASE UNCHANGED vars
  BY <1>13 DEF vars
<1>. QED
  BY <1>1, <1>2, <1>3, <1>4, <1>5, <1>6, <1>7, <1>8, <1>9, <1>10, <1>11, <1>12, <1>13
     DEF Next, Proceed

-----------------------------------------------------------------------------
(* URLs tried. *)

\* The URLs are given up one by one, and only if they cannot be counted on.
LEMMA TriedStep ==
  TypeOK /\ TriedInv /\ OneHealthyEnough /\ [Next]_vars
    => TriedInv' /\ OneHealthyEnough'
<1>. SUFFICES ASSUME TypeOK, TriedInv, OneHealthyEnough, [Next]_vars
     PROVE  TriedInv' /\ OneHealthyEnough'
  OBVIOUS
<1>. USE DEF TypeOK, TriedInv, OneHealthyEnough, Asking, Pausing, Ends, Phases
<1>1. ASSUME NEW c \in Chains, NEW number \in 0..MaxHeight \union {NoBlock},
             CreateForChain(c, number)
      PROVE  TriedInv' /\ OneHealthyEnough'
  BY <1>1 DEF CreateForChain, AfterChainId
<1>2. ASSUME NEW list \in ProviderUrls, NEW number \in 0..MaxHeight \union {NoBlock},
             CreateForProvider(list, number)
      PROVE  TriedInv' /\ OneHealthyEnough'
  BY <1>2 DEF CreateForProvider
<1>3. ASSUME NEW c \in Chains, CreateUnsupported(c) PROVE TriedInv' /\ OneHealthyEnough'
  BY <1>3 DEF CreateUnsupported
<1>4. CASE NextUrl
  <2>1. CASE at < Len(urls)
    BY <1>4, <2>1 DEF NextUrl, Node
  <2>2. CASE ~(at < Len(urls))
    <3>1. at = Len(urls) /\ DOMAIN urls = 1..Len(urls)
      BY <1>4, <2>2 DEF NextUrl
    <3>2. \A i \in DOMAIN urls : "unreachable" \in faults[urls[i]]
      BY <1>4, <3>1 DEF NextUrl, Node
    <3>. QED
      BY <1>4, <2>2, <3>2 DEF NextUrl, Range
  <2>. QED
    BY <2>1, <2>2
<1>5. CASE Refused
  BY <1>5, NodeInRange DEF Refused, Node
<1>6. CASE ChainDetected \/ HeightTold \/ BeginPolling \/ Polled
  BY <1>6 DEF ChainDetected, HeightTold, BeginPolling, Polled, Answered, AfterChainId
<1>7. CASE PollAgain
  BY <1>7 DEF PollAgain
<1>8. CASE Tick
  BY <1>8 DEF Tick
<1>9. ASSUME NEW n \in Nodes, NodeAdvances(n) PROVE TriedInv' /\ OneHealthyEnough'
  BY <1>9 DEF NodeAdvances
<1>10. CASE UNCHANGED vars
  BY <1>10 DEF vars
<1>. QED
  BY <1>1, <1>2, <1>3, <1>4, <1>5, <1>6, <1>7, <1>8, <1>9, <1>10 DEF Next, Proceed

-----------------------------------------------------------------------------
(* Nodes that lag behind. *)

\* A block that all nodes know stays known, and is never answered with null.
LEMMA BehindStep ==
  TypeOK /\ BehindInv /\ KnownBlockFound /\ [Next]_vars
    => BehindInv' /\ KnownBlockFound'
<1>. SUFFICES ASSUME TypeOK, BehindInv, KnownBlockFound, [Next]_vars
     PROVE  BehindInv' /\ KnownBlockFound'
  OBVIOUS
<1>. USE DEF TypeOK, BehindInv, KnownBlockFound, Asking, Pausing, Ends, Phases
<1>1. ASSUME NEW c \in Chains, NEW number \in 0..MaxHeight \union {NoBlock},
             CreateForChain(c, number)
      PROVE  BehindInv' /\ KnownBlockFound'
  BY <1>1 DEF CreateForChain, AfterChainId
<1>2. ASSUME NEW list \in ProviderUrls, NEW number \in 0..MaxHeight \union {NoBlock},
             CreateForProvider(list, number)
      PROVE  BehindInv' /\ KnownBlockFound'
  BY <1>2 DEF CreateForProvider
<1>3. ASSUME NEW c \in Chains, CreateUnsupported(c) PROVE BehindInv' /\ KnownBlockFound'
  BY <1>3 DEF CreateUnsupported
<1>4. CASE NextUrl
  BY <1>4 DEF NextUrl
<1>5. CASE Refused
  BY <1>5 DEF Refused
<1>6. CASE ChainDetected \/ HeightTold
  BY <1>6 DEF ChainDetected, HeightTold, Answered, AfterChainId
<1>7. CASE BeginPolling
  BY <1>7 DEF BeginPolling, Answered
<1>8. CASE Polled
  <2>1. Node \in Range(urls) /\ height[Node] \in Nat /\ blockNumber \in Nat
    BY <1>8, NodeInRange, CreationAssumption DEF Polled, Answered, Node
  <2>2. ~KnowsBlock(Node) => Node \in behind
    BY <1>8, <2>1 DEF Polled, Answered, KnowsBlock
  <2>. QED
    BY <1>8, <2>2 DEF Polled, Answered
<1>9. CASE PollAgain
  BY <1>9 DEF PollAgain
<1>10. CASE Tick
  BY <1>10 DEF Tick
<1>11. ASSUME NEW n \in Nodes, NodeAdvances(n) PROVE BehindInv' /\ KnownBlockFound'
  <2>1. \A m \in Range(urls) : m \in Nodes
    BY DEF Range
  <2>2. blockNumber # NoBlock => blockNumber \in Nat
    OBVIOUS
  <2>3. \A m \in Nodes : height[m] \in Nat /\ height'[m] \in Nat /\ height'[m] >= height[m]
    BY <1>11, CreationAssumption DEF NodeAdvances
  <2>. QED
    BY <1>11, <2>1, <2>2, <2>3 DEF NodeAdvances
<1>12. CASE UNCHANGED vars
  BY <1>12 DEF vars
<1>. QED
  BY <1>1, <1>2, <1>3, <1>4, <1>5, <1>6, <1>7, <1>8, <1>9, <1>10, <1>11, <1>12
     DEF Next, Proceed

-----------------------------------------------------------------------------
(* What is left to do. *)

\* How each component of Left may be the first that falls.
LEMMA Falls ==
  ASSUME \/ Awaits' < Awaits
         \/ /\ Awaits' = Awaits
            /\ \/ Timeout - elapsed' < Timeout - elapsed
               \/ /\ Timeout - elapsed' = Timeout - elapsed
                  /\ \/ Turn' < Turn
                     \/ Turn' = Turn /\ Len(urls)' - at' < Len(urls) - at
  PROVE  Less(Left', Left)
<1>1. /\ Left'[1] = Awaits' /\ Left'[2] = Timeout - elapsed'
      /\ Left'[3] = Turn' /\ Left'[4] = Len(urls)' - at'
  BY DEF Left
<1>2. /\ Left[1] = Awaits /\ Left[2] = Timeout - elapsed
      /\ Left[3] = Turn /\ Left[4] = Len(urls) - at
  BY DEF Left
<1>3. CASE Awaits' < Awaits
  BY <1>1, <1>2, <1>3 DEF Less
<1>4. CASE Awaits' = Awaits /\ Timeout - elapsed' < Timeout - elapsed
  BY <1>1, <1>2, <1>4 DEF Less
<1>5. CASE /\ Awaits' = Awaits
           /\ Timeout - elapsed' = Timeout - elapsed
           /\ Turn' < Turn
  <2>1. \A j \in 1..(3 - 1) : j = 1 \/ j = 2
    OBVIOUS
  <2>. QED
    BY <1>1, <1>2, <1>5, <2>1 DEF Less
<1>6. CASE /\ Awaits' = Awaits
           /\ Timeout - elapsed' = Timeout - elapsed
           /\ Turn' = Turn
           /\ Len(urls)' - at' < Len(urls) - at
  <2>1. \A j \in 1..(4 - 1) : j = 1 \/ j = 2 \/ j = 3
    OBVIOUS
  <2>. QED
    BY <1>1, <1>2, <1>6, <2>1 DEF Less
<1>. QED
  BY <1>3, <1>4, <1>5, <1>6

\* While create() is under way, what is left of it is a tuple of natural numbers:
\* it cannot go on getting less for ever.
LEMMA LeftNatural ==
  TypeOK /\ phase \in Asking \union Pausing => Left \in Nat \X Nat \X Nat \X Nat
<1>. SUFFICES ASSUME TypeOK, phase \in Asking \union Pausing
     PROVE  Left \in Nat \X Nat \X Nat \X Nat
  OBVIOUS
<1>1. Awaits \in Nat
  BY DEF Awaits, Asking, Pausing
<1>2. Timeout - elapsed \in Nat
  BY CreationAssumption DEF TypeOK
<1>3. Turn \in Nat
  BY DEF Turn
<1>4. Len(urls) - at \in Nat
  BY DEF TypeOK
<1>. QED
  BY <1>1, <1>2, <1>3, <1>4 DEF Left

LEMMA LessLeftStep == TypeOK /\ [Next]_vars => Less(Left', Left) \/ UNCHANGED <<phase, urls, at, elapsed>>
<1>. SUFFICES ASSUME TypeOK, [Next]_vars, ~UNCHANGED <<phase, urls, at, elapsed>>
     PROVE  Less(Left', Left)
  OBVIOUS
<1>. USE CreationAssumption DEF TypeOK, Asking, Pausing, Ends, Phases
<1>1. ASSUME NEW c \in Chains, NEW number \in 0..MaxHeight \union {NoBlock},
             CreateForChain(c, number)
      PROVE  Less(Left', Left)
  BY <1>1, Falls DEF CreateForChain, AfterChainId, Awaits
<1>2. ASSUME NEW list \in ProviderUrls, NEW number \in 0..MaxHeight \union {NoBlock},
             CreateForProvider(list, number)
      PROVE  Less(Left', Left)
  BY <1>2, Falls DEF CreateForProvider, Awaits
<1>3. ASSUME NEW c \in Chains, CreateUnsupported(c) PROVE Less(Left', Left)
  BY <1>3, Falls DEF CreateUnsupported, Awaits
<1>4. CASE NextUrl
  <2>1. CASE at < Len(urls)
    <3>1. Len(urls)' - at' < Len(urls) - at
      BY <1>4, <2>1 DEF NextUrl
    <3>2. Awaits' = Awaits /\ Turn' = Turn /\ elapsed' = elapsed
      BY <1>4, <2>1 DEF NextUrl, Awaits, Turn
    <3>. QED
      BY <3>1, <3>2, Falls
  <2>2. CASE ~(at < Len(urls))
    BY <1>4, <2>2, Falls DEF NextUrl, Awaits
  <2>. QED
    BY <2>1, <2>2
<1>5. CASE Refused
  BY <1>5, Falls DEF Refused, Awaits
<1>6. CASE ChainDetected \/ HeightTold \/ BeginPolling
  BY <1>6, Falls DEF ChainDetected, HeightTold, BeginPolling, Answered, AfterChainId, Awaits
<1>7. CASE Polled
  <2>1. phase = "polling" /\ elapsed' = elapsed /\ phase' \in {"created", "pausing"}
    BY <1>7 DEF Polled, Answered
  <2>2. CASE phase' = "created"
    BY <2>1, <2>2, Falls DEF Awaits
  <2>3. CASE phase' = "pausing"
    BY <2>1, <2>3, Falls DEF Awaits, Turn
  <2>. QED
    BY <2>1, <2>2, <2>3
<1>8. CASE PollAgain
  <2>1. CASE elapsed < Timeout
    BY <1>8, <2>1, Falls DEF PollAgain, Awaits, Turn
  <2>2. CASE ~(elapsed < Timeout)
    BY <1>8, <2>2, Falls DEF PollAgain, Awaits
  <2>. QED
    BY <2>1, <2>2
<1>9. CASE Tick
  <2>1. Awaits' = Awaits
    BY <1>9 DEF Tick, Awaits
  <2>2. CASE elapsed < Timeout
    BY <1>9, <2>1, <2>2, Falls DEF Tick
  <2>3. CASE ~(elapsed < Timeout)
    BY <1>9, <2>1, <2>3, Falls DEF Tick, Turn
  <2>. QED
    BY <2>2, <2>3
<1>10. ASSUME NEW n \in Nodes, NodeAdvances(n) PROVE Less(Left', Left)
  BY <1>10 DEF NodeAdvances
<1>11. CASE UNCHANGED vars
  BY <1>11 DEF vars
<1>. QED
  BY <1>1, <1>2, <1>3, <1>4, <1>5, <1>6, <1>7, <1>8, <1>9, <1>10, <1>11 DEF Next, Proceed

-----------------------------------------------------------------------------

\* The three invariants are inductive together.
LEMMA AlwaysInv == Spec => []IInv
<1>1. IInv /\ [Next]_vars => IInv'
  BY TypeStep, TriedStep, BehindStep DEF IInv
<1>. QED
  BY <1>1, InitInv, PTL DEF Spec

\* Every variable keeps its type; in particular fetch never runs past the end of
\* its list of URLs.
THEOREM TypeCorrect == Spec => []TypeOK
BY AlwaysInv, PTL DEF IInv

\* create() gives up for want of a network only if no URL can be counted on or a
\* node refused (fetch in src/networks/index.ts).
THEOREM OneHealthyAlwaysEnough == Spec => []OneHealthyEnough
BY AlwaysInv, PTL DEF IInv

\* However slow the answers are, a block that every node knew when the polling
\* began is never called invalid (createVM in src/vm/index.ts).
THEOREM KnownBlockAlwaysFound == Spec => []KnownBlockFound
BY AlwaysInv, PTL DEF IInv

\* create() only ever comes closer to its end, whatever the timeout, the length of
\* the lists and the delays: the argument for Resolves, short of fairness.
THEOREM AlwaysLess == Spec => AlwaysLessLeft
<1>1. TypeOK /\ [Next]_vars => [Less(Left', Left) \/ UNCHANGED <<phase, urls, at, elapsed>>]_vars
  BY LessLeftStep
<1>. QED
  BY <1>1, AlwaysInv, PTL DEF Spec, IInv, AlwaysLessLeft

=============================================================================
