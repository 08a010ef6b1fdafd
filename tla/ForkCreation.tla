---------------------------- MODULE ForkCreation ----------------------------
(***************************************************************************)
(* How an engine gets the fork block it starts from:                       *)
(* SimulationEngine.create (src/simulation/index.ts), the polling of       *)
(* createVM (src/vm/index.ts) and the fetch that tries the URLs of a       *)
(* network one after another (src/networks/index.ts).                      *)
(*                                                                         *)
(* One creation is followed.  Nodes lag behind each other, may not be      *)
(* reachable, and may refuse a request with a JSON-RPC error, which to     *)
(* fetch is a good response.  What ethers sends for one call of its        *)
(* provider counts as one request.                                         *)
(***************************************************************************)
EXTENDS Naturals, Sequences, Functions

CONSTANTS
  Nodes,       \* the nodes of the real chain, one behind each URL
  Chains,      \* chain ids
  Networks,    \* networks: the URLs of each chain, none if it is not supported
  Patched,     \* isFetchPatched
  NoBlock,     \* no block number was given
  MaxHeight,   \* bound: the last block of the real chain
  Timeout      \* fetchBlockTimeout, in pauses between two polls

VARIABLES
  phase,       \* the await that create() is in, or how it ended
  urls,        \* what a request of the engine's provider tries, in this order
  at,          \* the position in urls of the one being tried
  blockNumber, \* the block to fork from, or NoBlock
  height,      \* the last block each node knows
  faults,      \* what may be wrong with each node
  elapsed,     \* the time since startTime, up to Timeout
  behind       \* the nodes that did not know the fork block at startTime

vars == <<phase, urls, at, blockNumber, height, faults, elapsed, behind>>

ASSUME CreationAssumption ==
  /\ Networks \in [Chains -> Seq(Nodes)]
  /\ Patched \in BOOLEAN
  /\ MaxHeight \in Nat
  /\ NoBlock \notin Nat
  /\ Timeout \in Nat \ {0}

\* unreachable: no answer, or an error status; refusing: a JSON-RPC error.
Faults == {"unreachable", "refusing"}

\* detecting, counting, joining, polling: create() waits for eth_chainId of the
\* provider it was given, eth_blockNumber, eth_chainId in createVM, the block.
\* pausing, paused: between two polls.
Asking == {"detecting", "counting", "joining", "polling"}
Pausing == {"pausing", "paused"}
Ends == {"created", "unsupported", "unavailable", "invalid"}
Phases == {"idle"} \union Asking \union Pausing \union Ends

TypeOK ==
  /\ phase \in Phases
  /\ urls \in Seq(Nodes)
  /\ phase \in Asking \union Pausing => at \in DOMAIN urls
  /\ phase \in {"joining", "polling"} \union Pausing => blockNumber # NoBlock
  /\ blockNumber \in Nat \union {NoBlock}
  /\ height \in [Nodes -> 0..MaxHeight]
  /\ faults \in [Nodes -> SUBSET Faults]
  /\ elapsed \in 0..Timeout
  /\ behind \subseteq Nodes

Init ==
  /\ phase = "idle"
  /\ urls = <<>>
  /\ at = 1
  /\ blockNumber = NoBlock
  /\ height \in [Nodes -> 0..MaxHeight]
  /\ faults \in [Nodes -> SUBSET Faults]
  /\ elapsed = 0
  /\ behind = {}

-----------------------------------------------------------------------------
(* Calling create(). *)

\* After the chain id, the block number is asked for unless it was given.
AfterChainId(number) == IF number = NoBlock THEN "counting" ELSE "joining"

\* The URLs behind the one that getMappedUrl makes up for a chain.  Where fetch
\* cannot be patched it is the first one itself.
MappedUrls(c) == IF Patched THEN Networks[c] ELSE SubSeq(Networks[c], 1, 1)

CreateForChain(c, number) ==
  /\ phase = "idle"
  /\ Networks[c] # <<>>
  /\ phase' = AfterChainId(number)
  /\ urls' = MappedUrls(c)
  /\ at' = 1
  /\ blockNumber' = number
  /\ UNCHANGED <<height, faults, elapsed, behind>>

CreateUnsupported(c) ==
  /\ phase = "idle"
  /\ Networks[c] = <<>>
  /\ phase' = "unsupported"
  /\ UNCHANGED <<urls, at, blockNumber, height, faults, elapsed, behind>>

\* A provider brings its own URL, or the one of a chain: SimulationProvider makes
\* one of a chain id that way.
ProviderUrls ==
  {<<n>> : n \in Nodes} \union {MappedUrls(c) : c \in {d \in Chains : Networks[d] # <<>>}}

CreateForProvider(list, number) ==
  /\ phase = "idle"
  /\ phase' = "detecting"
  /\ urls' = list
  /\ at' = 1
  /\ blockNumber' = number
  /\ UNCHANGED <<height, faults, elapsed, behind>>

-----------------------------------------------------------------------------
(* Sending a request. *)

Node == urls[at]

\* (mutant) An exception of one URL ends the request.
NextUrlAfterStatus ==
  /\ phase \in Asking
  /\ "unreachable" \in faults[Node]
  /\ IF at < Len(urls)
     THEN \/ at' = at + 1 /\ UNCHANGED phase
          \/ phase' = "unavailable" /\ UNCHANGED at
     ELSE phase' = "unavailable" /\ UNCHANGED at
  /\ UNCHANGED <<urls, blockNumber, height, faults, elapsed, behind>>

\* (mutant) There is always a next one.
NextUrlPastEnd ==
  /\ phase \in Asking
  /\ "unreachable" \in faults[Node]
  /\ IF at <= Len(urls)
     THEN at' = at + 1 /\ UNCHANGED phase
     ELSE phase' = "unavailable" /\ UNCHANGED at
  /\ UNCHANGED <<urls, blockNumber, height, faults, elapsed, behind>>

\* An error status or an exception of one URL, and fetch goes on to the next.
\* After the last one it throws, and create() rejects.
NextUrl ==
  /\ phase \in Asking
  /\ "unreachable" \in faults[Node]
  /\ IF at < Len(urls)
     THEN at' = at + 1 /\ UNCHANGED phase
     ELSE phase' = "unavailable" /\ UNCHANGED at
  /\ UNCHANGED <<urls, blockNumber, height, faults, elapsed, behind>>

\* fetch is content with a JSON-RPC error, and create() rejects.
Refused ==
  /\ phase \in Asking
  /\ "refusing" \in faults[Node]
  /\ phase' = "unavailable"
  /\ UNCHANGED <<urls, at, blockNumber, height, faults, elapsed, behind>>

\* The request that waits in phase p is answered; the next one, if any, starts
\* from the first URL.
Answered(p) ==
  /\ phase = p
  /\ at' = 1
  /\ UNCHANGED <<urls, height, faults>>

ChainDetected ==
  /\ Answered("detecting")
  /\ phase' = AfterChainId(blockNumber)
  /\ UNCHANGED <<blockNumber, elapsed, behind>>

HeightTold ==
  /\ Answered("counting")
  /\ phase' = "joining"
  /\ blockNumber' = height[Node]
  /\ UNCHANGED <<elapsed, behind>>

\* The network of createVM is known: the polling begins.
BeginPolling ==
  /\ Answered("joining")
  /\ phase' = "polling"
  /\ elapsed' = 0
  /\ behind' = {n \in Range(urls) : height[n] < blockNumber}
  /\ UNCHANGED blockNumber

-----------------------------------------------------------------------------
(* Polling for the fork block. *)

KnowsBlock(n) == height[n] >= blockNumber

\* (mutant) An answer that comes after the deadline is not looked at.
PolledInTime ==
  /\ Answered("polling")
  /\ phase' = IF elapsed = Timeout THEN "invalid"
              ELSE IF KnowsBlock(Node) THEN "created" ELSE "pausing"
  /\ UNCHANGED <<blockNumber, elapsed, behind>>

\* getBlock answers, with null if the node does not know the block yet.  However
\* late it is, an answer with a block is good.
Polled ==
  /\ Answered("polling")
  /\ phase' = IF KnowsBlock(Node) THEN "created" ELSE "pausing"
  /\ UNCHANGED <<blockNumber, elapsed, behind>>

\* A pause of 500 ms goes by, in any phase; the pause between polls ends.
Tick ==
  /\ phase \in {"polling"} \union Pausing
  /\ elapsed < Timeout \/ phase = "pausing"
  /\ elapsed' = IF elapsed < Timeout THEN elapsed + 1 ELSE elapsed
  /\ phase' = IF phase = "pausing" THEN "paused" ELSE phase
  /\ UNCHANGED <<urls, at, blockNumber, height, faults, behind>>

\* (mutant) The time is measured from the latest poll.
PollAgainAfresh ==
  /\ phase = "paused"
  /\ IF elapsed < Timeout
     THEN phase' = "polling" /\ elapsed' = 0
     ELSE phase' = "invalid" /\ UNCHANGED elapsed
  /\ UNCHANGED <<urls, at, blockNumber, height, faults, behind>>

\* The condition of the loop.
PollAgain ==
  /\ phase = "paused"
  /\ phase' = IF elapsed < Timeout THEN "polling" ELSE "invalid"
  /\ UNCHANGED <<urls, at, blockNumber, height, faults, elapsed, behind>>

\* A node learns of another block.
NodeAdvances(n) ==
  /\ phase \notin Ends
  /\ height[n] < MaxHeight
  /\ height' = [height EXCEPT ![n] = @ + 1]
  /\ UNCHANGED <<phase, urls, at, blockNumber, faults, elapsed, behind>>

-----------------------------------------------------------------------------

\* create() goes on: a request ends, or time passes.
Proceed ==
  \/ NextUrl
  \/ Refused
  \/ ChainDetected
  \/ HeightTold
  \/ BeginPolling
  \/ Polled
  \/ PollAgain

Next ==
  \/ \E number \in 0..MaxHeight \union {NoBlock} :
       \/ \E c \in Chains : CreateForChain(c, number)
       \/ \E list \in ProviderUrls : CreateForProvider(list, number)
  \/ \E c \in Chains : CreateUnsupported(c)
  \/ Proceed
  \/ Tick
  \/ \E n \in Nodes : NodeAdvances(n)

Spec == Init /\ [][Next]_vars

\* Requests end, timers fire.
FairSpec == Spec /\ WF_vars(Proceed) /\ WF_vars(Tick)

-----------------------------------------------------------------------------

\* create() gives up for want of a network only if no URL of the network can be
\* counted on, or a node refused: one healthy URL, wherever it is in the list,
\* is enough for every request.
OneHealthyEnough ==
  phase = "unavailable" =>
    \/ \A n \in Range(urls) : "unreachable" \in faults[n]
    \/ \E n \in Range(urls) : "refusing" \in faults[n]

\* A block is only called invalid if some node that may be asked did not know it
\* when the polling began: however slow the answers are, a block that all know
\* is found, and so is the latest block of a single node.
KnownBlockFound ==
  phase = "invalid" => behind # {}

\* What is left of a creation, the most significant first: the awaits to come,
\* the time to the deadline, the rest of a turn of the loop, the URLs to try.
\* At the deadline a turn ends with the condition of the loop, before it with
\* the pause in which time goes by.
Awaits ==
  CASE phase = "idle" -> 5
    [] phase = "detecting" -> 4
    [] phase = "counting" -> 3
    [] phase = "joining" -> 2
    [] phase \in {"polling"} \union Pausing -> 1
    [] phase \in Ends -> 0

Turn ==
  CASE phase = "polling" -> IF elapsed < Timeout THEN 1 ELSE 2
    [] phase = "pausing" -> IF elapsed < Timeout THEN 0 ELSE 1
    [] phase = "paused" -> IF elapsed < Timeout THEN 2 ELSE 0
    [] OTHER -> 0

Left == <<Awaits, Timeout - elapsed, Turn, Len(urls) - at>>

Less(a, b) ==
  \E i \in 1..4 : a[i] < b[i] /\ \A j \in 1..(i - 1) : a[j] = b[j]

\* Each step of create() leaves less of it to do, and a node that advances
\* changes nothing of that: no URL is tried twice for one request, no await is
\* come back to, and the loop does not put off its own deadline.
AlwaysLessLeft == [][Less(Left', Left) \/ UNCHANGED <<phase, urls, at, elapsed>>]_vars

\* Every create() comes to an end, even if nobody ever knows the block.
Resolves == phase \in Asking ~> phase \in Ends

=============================================================================
