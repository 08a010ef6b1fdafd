------------------------- MODULE SimulationProvider -------------------------
(***************************************************************************)
(* SimulationProvider (src/ethers/index.ts): how JSON-RPC requests reach a *)
(* simulation engine.                                                      *)
(*                                                                         *)
(* send() waits for _start(), which creates the engine if there is none,   *)
(* and hands its request to ethers' JsonRpcApiProvider.  That collects     *)
(* requests into a BATCH and calls _send(), which answers them one after   *)
(* another; different batches overlap at every await.  If _send() throws,  *)
(* every request of the batch is rejected.                                 *)
(*                                                                         *)
(* A batch with no request stands for getImpersonatedSigner: it creates an *)
(* engine if there is none, and gives a signer for an address; asked with  *)
(* a public key it throws in impersonateAccount (see SignatureMatcher).    *)
(***************************************************************************)
EXTENDS Naturals, Sequences

CONSTANTS
  Batches,      \* identities of the batches clients send, each used once
  Engines,      \* the simulation engines that can be created
  Payload,      \* a request
  Workload,     \* the sequences of requests clients send
  NoEngine,     \* #engine is undefined
  StartAlone    \* do clients leave the provider alone while it creates an engine

ASSUME ProviderAssumption ==
  /\ Workload \subseteq Seq(Payload)
  /\ NoEngine \notin Engines
  /\ StartAlone \in BOOLEAN

VARIABLES
  engine,     \* #engine
  created,    \* the engines created so far
  payload,    \* the requests of each batch
  phase,      \* how far each batch is
  replies,    \* the replies to a batch's requests so far
  using,      \* the engine that a batch's current request was handed to
  told,       \* the block numbers clients have been told
  before      \* the block numbers clients had been told when a batch was sent

providerVars == <<engine, created, payload, phase, replies, using, told, before>>

\* queued: ethers collects the batch; running: _send() is at a request;
\* executing: the request executes a transaction; inBlock: it does so in a block;
\* forwarding: it waits for the backup provider.
BatchPhases == {"idle", "starting", "queued", "running", "executing", "inBlock",
                "forwarding", "settled", "rejected"}

\* A reply carries the block number it tells, if it tells one.
Reply == [kind: {"result", "error", "provider"}, number: Nat]

ProviderTypeOK ==
  /\ engine \in Engines \union {NoEngine}
  /\ created \subseteq Engines
  /\ payload \in [Batches -> Seq(Payload)]
  /\ phase \in [Batches -> BatchPhases]
  /\ replies \in [Batches -> Seq(Reply)]
  /\ using \in [Batches -> Engines \union {NoEngine}]
  /\ told \subseteq Nat
  /\ before \in [Batches -> SUBSET Nat]

ProviderInit ==
  /\ engine = NoEngine
  /\ created = {}
  /\ payload = [b \in Batches |-> <<>>]
  /\ phase = [b \in Batches |-> "idle"]
  /\ replies = [b \in Batches |-> <<>>]
  /\ using = [b \in Batches |-> NoEngine]
  /\ told = {}
  /\ before = [b \in Batches |-> {}]

-----------------------------------------------------------------------------
(* Getting an engine. *)

\* Where a batch may go once there is an engine.
Started(p) == IF p = <<>> THEN {"settled", "rejected"} ELSE {"queued"}

\* The check of #engine is all that runs before SimulationEngine.create.
Send(b, p) ==
  /\ phase[b] = "idle"
  /\ StartAlone => \A c \in Batches : phase[c] # "starting"
  /\ payload' = [payload EXCEPT ![b] = p]
  /\ \E next \in IF engine = NoEngine THEN {"starting"} ELSE Started(p) :
       phase' = [phase EXCEPT ![b] = next]
  /\ before' = [before EXCEPT ![b] = told]
  /\ UNCHANGED <<engine, created, replies, using, told>>

\* create() resolves and #engine is assigned, whatever it holds by then.
EngineCreated(b) ==
  /\ phase[b] = "starting"
  /\ \E e \in Engines \ created :
       /\ created' = created \union {e}
       /\ engine' = e
  /\ \E next \in Started(payload[b]) : phase' = [phase EXCEPT ![b] = next]
  /\ UNCHANGED <<payload, replies, using, told, before>>

EngineCreationFails(b) ==
  /\ phase[b] = "starting"
  /\ phase' = [phase EXCEPT ![b] = "rejected"]
  /\ UNCHANGED <<engine, created, payload, replies, using, told, before>>

-----------------------------------------------------------------------------
(* Answering a batch. *)

\* ethers' drain timer fires and calls _send().
Drain(b) ==
  /\ phase[b] = "queued"
  /\ phase' = [phase EXCEPT ![b] = "running"]
  /\ UNCHANGED <<engine, created, payload, replies, using, told, before>>

\* The request _send() is at.
Position(b) == Len(replies[b]) + 1
Current(b) == payload[b][Position(b)]

\* The request gets its reply.  With the last one the whole batch settles, and
\* only then do clients learn what the replies say.
Answer(b, reply) ==
  LET all == Append(replies[b], reply)
      last == Len(all) = Len(payload[b])
  IN
  /\ replies' = [replies EXCEPT ![b] = all]
  /\ phase' = [phase EXCEPT ![b] = IF last THEN "settled" ELSE "running"]
  /\ told' = IF last THEN told \union {all[i].number : i \in DOMAIN all} ELSE told
  /\ UNCHANGED <<engine, created, payload, using, before>>

\* The request throws, and _send() with it.
Reject(b) ==
  /\ phase' = [phase EXCEPT ![b] = "rejected"]
  /\ UNCHANGED <<engine, created, payload, replies, using, told, before>>

\* The request goes to the backup provider.
Forward(b) ==
  /\ phase' = [phase EXCEPT ![b] = "forwarding"]
  /\ UNCHANGED <<engine, created, payload, replies, using, told, before>>

\* The request starts to execute a transaction on the current engine.
Execute(b) ==
  /\ phase' = [phase EXCEPT ![b] = "executing"]
  /\ using' = [using EXCEPT ![b] = engine]
  /\ UNCHANGED <<engine, created, payload, replies, told, before>>

=============================================================================
