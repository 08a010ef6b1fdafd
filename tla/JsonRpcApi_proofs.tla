-------------------------- MODULE JsonRpcApi_proofs --------------------------
(***************************************************************************)
(* JsonRpcApi for any batches, engines and payloads.  The invented block   *)
(* numbers: time never goes backwards, and no number is invented twice.    *)
(* The transactions: where the engine is created alone, one that has been  *)
(* acknowledged is never looked for on the real chain.                     *)
(***************************************************************************)
EXTENDS JsonRpcApi, SequenceTheorems, TLAPS

Clock == blocklessSimulationBlockNumber

\* Every number told or about to be told has been invented already.
NothingAhead ==
  /\ \A n \in told : n <= Clock
  /\ \A b \in Batches : \A n \in before[b] : n <= Clock
  /\ \A b \in Batches : \A i \in DOMAIN replies[b] : replies[b][i].number <= Clock

Executing == {"executing", "inBlock"}
Answering == {"queued", "running", "forwarding"} \union Executing

\* A batch being answered has an engine, and a request without a reply.
BatchesFit ==
  \A b \in Batches :
    /\ phase[b] \in {"idle", "starting"} => replies[b] = <<>>
    /\ phase[b] \in Answering => engine # NoEngine
    /\ phase[b] \in Executing =>
         /\ using[b] \in Engines
         /\ Current(b).method \in SendMethods

ClockInv ==
  /\ TypeOK
  /\ BatchesFit
  /\ NothingAhead
  /\ TimeMovesForward
  /\ InventedBlocksDistinct

-----------------------------------------------------------------------------

\* A sequence with one more element.
LEMMA OneMore ==
  ASSUME NEW S, NEW s \in Seq(S), NEW e \in S
  PROVE  /\ Append(s, e) \in Seq(S)
         /\ DOMAIN Append(s, e) = DOMAIN s \union {Len(s) + 1}
         /\ \A i \in DOMAIN s : Append(s, e)[i] = s[i] /\ i # Len(s) + 1
         /\ Append(s, e)[Len(s) + 1] = e
  OBVIOUS

\* An element of a sequence of replies carries a number.
LEMMA ReplyNumber ==
  ASSUME NEW s \in Seq(Reply), NEW i \in DOMAIN s
  PROVE  s[i].number \in Nat
<1>1. s[i] \in Reply
  OBVIOUS
<1> QED BY <1>1 DEF Reply

\* No number has been told when the first one is invented.
LEMMA ClockInit == Init => ClockInv
<1> SUFFICES ASSUME Init
             PROVE  ClockInv
  OBVIOUS
<1>1. TypeOK
  <2>1. <<>> \in Seq(Payload) /\ <<>> \in Seq(Reply)
    OBVIOUS
  <2>2. /\ payload \in [Batches -> Seq(Payload)]
        /\ replies \in [Batches -> Seq(Reply)]
    BY <2>1 DEF Init, ProviderInit
  <2>3. /\ phase \in [Batches -> BatchPhases]
        /\ using \in [Batches -> Engines \union {NoEngine}]
        /\ before \in [Batches -> SUBSET Nat]
        /\ engine \in Engines \union {NoEngine}
        /\ created \subseteq Engines /\ told \subseteq Nat
    BY DEF Init, ProviderInit, BatchPhases
  <2>4. /\ blocklessSimulationBlockNumber \in Nat
        /\ blockNumber \in [Engines -> Nat]
    BY ApiAssumption DEF Init
  <2>5. indexed \in [Engines -> [Hashes -> IndexEntries]]
    BY DEF Init, IndexEntries
  <2> QED BY <2>2, <2>3, <2>4, <2>5 DEF TypeOK, ProviderTypeOK
<1>2. \A b \in Batches : replies[b] = <<>> /\ before[b] = {} /\ phase[b] = "idle"
  BY DEF Init, ProviderInit
<1>3. told = {}
  BY DEF Init, ProviderInit
<1>4. BatchesFit
  BY <1>2 DEF BatchesFit, Answering, Executing
<1>5. NothingAhead /\ TimeMovesForward /\ InventedBlocksDistinct
  BY <1>2, <1>3 DEF NothingAhead, TimeMovesForward, InventedBlocksDistinct
<1> QED BY <1>1, <1>4, <1>5 DEF ClockInv

\* A step that gives no reply and does not turn the clock back.
LEMMA NoReply ==
  ASSUME ClockInv, UNCHANGED <<replies, payload, told, before>>,
         Clock' \in Nat, Clock' >= Clock, TypeOK', BatchesFit'
  PROVE  ClockInv'
<1>1. NothingAhead'
  <2>1. /\ \A n \in told : n \in Nat
        /\ \A b \in Batches : \A n \in before[b] : n \in Nat
        /\ \A b \in Batches : \A i \in DOMAIN replies[b] : replies[b][i].number \in Nat
    <3>1. /\ told \subseteq Nat
          /\ \A b \in Batches : before[b] \in SUBSET Nat
          /\ \A b \in Batches : replies[b] \in Seq(Reply)
      BY DEF ClockInv, TypeOK, ProviderTypeOK
    <3> QED BY <3>1, ReplyNumber
  <2>2. Clock \in Nat
    BY DEF ClockInv, TypeOK, Clock
  <2> QED BY <2>1, <2>2 DEF ClockInv, NothingAhead
<1>2. TimeMovesForward'
  BY DEF ClockInv, TimeMovesForward, Told
<1>3. InventedBlocksDistinct'
  BY DEF ClockInv, InventedBlocksDistinct, Told
<1> QED BY <1>1, <1>2, <1>3 DEF ClockInv

\* A reply whose number, if it is of an invented block, has just been invented.
LEMMA OneReply ==
  ASSUME ClockInv, NEW b \in Batches, NEW reply \in Reply,
         phase[b] \in {"running", "forwarding"} \union Executing,
         Answer(b, reply),
         Clock' \in Nat, Clock' >= Clock, reply.number <= Clock',
         reply.kind = "result" /\ Current(b).method = "eth_blockNumber" =>
           reply.number >= Clock,
         reply.kind = "result" /\ Current(b).method \in LookupMethods =>
           reply.number > Clock,
         UNCHANGED blockNumber, indexed' \in [Engines -> [Hashes -> IndexEntries]]
  PROVE  ClockInv'
<1> DEFINE new == Len(replies[b]) + 1
<1>1. /\ replies' = [replies EXCEPT ![b] = Append(replies[b], reply)]
      /\ UNCHANGED <<engine, created, payload, using, before>>
      /\ told' = told
         \/ told' = told \union {Append(replies[b], reply)[i].number :
                                   i \in DOMAIN Append(replies[b], reply)}
      /\ \E ph \in {"settled", "running"} : phase' = [phase EXCEPT ![b] = ph]
  BY DEF Answer
<1>2. /\ replies \in [Batches -> Seq(Reply)]
      /\ replies[b] \in Seq(Reply)
      /\ Clock \in Nat
      /\ told \subseteq Nat
      /\ \A c \in Batches : before[c] \subseteq Nat
  BY DEF ClockInv, TypeOK, ProviderTypeOK, Clock
<1>3. /\ replies'[b] \in Seq(Reply)
      /\ DOMAIN replies'[b] = DOMAIN replies[b] \union {new}
      /\ \A i \in DOMAIN replies[b] : replies'[b][i] = replies[b][i] /\ i # new
      /\ replies'[b][new] = reply
      /\ replies'[b] = Append(replies[b], reply)
  BY <1>1, <1>2, OneMore
<1>4. \A c \in Batches : c # b => replies'[c] = replies[c]
  BY <1>1, <1>2
<1>5. \A c \in Batches : \A i \in DOMAIN replies[c] :
        replies[c][i].number \in Nat /\ replies[c][i].number <= Clock
  <2>1. \A c \in Batches : replies[c] \in Seq(Reply)
    BY <1>2
  <2>2. \A c \in Batches : \A i \in DOMAIN replies[c] : replies[c][i].number \in Nat
    BY <2>1, ReplyNumber
  <2> QED BY <2>2 DEF ClockInv, NothingAhead
<1>6. reply.number \in Nat
  BY DEF Reply
<1>7. \A c \in Batches : \A i \in DOMAIN replies'[c] : replies'[c][i].number <= Clock'
  <2> SUFFICES ASSUME NEW c \in Batches, NEW i \in DOMAIN replies'[c]
               PROVE  replies'[c][i].number <= Clock'
    OBVIOUS
  <2>1. CASE c = b /\ i = new
    BY <1>3, <2>1
  <2>2. CASE ~(c = b /\ i = new)
    <3>1. i \in DOMAIN replies[c] /\ replies'[c][i] = replies[c][i]
      BY <1>3, <1>4, <2>2
    <3>2. replies[c][i].number \in Nat /\ replies[c][i].number <= Clock
      BY <1>5, <3>1
    <3> QED BY <1>2, <3>1, <3>2
  <2> QED BY <2>1, <2>2
<1>8. TypeOK'
  <2>1. replies' \in [Batches -> Seq(Reply)]
    BY <1>1, <1>2, <1>3
  <2>2. \A i \in DOMAIN replies'[b] : replies'[b][i].number \in Nat
    BY <1>3, <1>5, <1>6
  <2>3. told' \subseteq Nat
    <3>1. {Append(replies[b], reply)[i].number : i \in DOMAIN Append(replies[b], reply)}
            \subseteq Nat
      BY <1>3, <2>2
    <3> QED BY <1>1, <1>2, <3>1
  <2>4. phase' \in [Batches -> BatchPhases]
    BY <1>1 DEF ClockInv, TypeOK, ProviderTypeOK, BatchPhases
  <2> QED
    BY <1>1, <2>1, <2>3, <2>4 DEF ClockInv, TypeOK, ProviderTypeOK, Clock
<1>9. BatchesFit'
  <2> SUFFICES ASSUME NEW c \in Batches
               PROVE  /\ phase'[c] \in {"idle", "starting"} => replies'[c] = <<>>
                      /\ phase'[c] \in Answering => engine' # NoEngine
                      /\ phase'[c] \in Executing =>
                           /\ using'[c] \in Engines
                           /\ Current(c)'.method \in SendMethods
    BY DEF BatchesFit
  <2>1. CASE c = b
    <3>1. phase'[b] \in {"settled", "running"}
      BY <1>1 DEF ClockInv, TypeOK, ProviderTypeOK
    <3>2. engine # NoEngine
      BY DEF ClockInv, BatchesFit, Answering, Executing
    <3>3. phase'[b] \notin Executing /\ UNCHANGED engine
      BY <1>1, <3>1 DEF Executing
    <3> QED BY <2>1, <3>1, <3>2, <3>3
  <2>2. CASE c # b
    <3>1. phase'[c] = phase[c] /\ replies'[c] = replies[c]
      BY <1>1, <1>4, <2>2 DEF ClockInv, TypeOK, ProviderTypeOK
    <3> QED
      BY <1>1, <3>1 DEF ClockInv, BatchesFit, Current, Position
  <2> QED BY <2>1, <2>2
<1>10. NothingAhead'
  <2>1. \A n \in told' : n <= Clock'
    <3> SUFFICES ASSUME NEW n \in told'
                 PROVE  n <= Clock'
      OBVIOUS
    <3>1. CASE n \in told
      BY <1>2, <3>1 DEF ClockInv, NothingAhead
    <3>2. CASE n \notin told
      <4>1. PICK i \in DOMAIN replies'[b] : n = replies'[b][i].number
        BY <1>1, <1>3, <3>2
      <4> QED BY <1>7, <4>1
    <3> QED BY <3>1, <3>2
  <2>2. \A c \in Batches : \A n \in before'[c] : n <= Clock'
    BY <1>1, <1>2 DEF ClockInv, NothingAhead
  <2> QED BY <2>1, <2>2, <1>7 DEF NothingAhead
<1>11. TimeMovesForward'
  <2> SUFFICES ASSUME NEW c \in Batches, NEW i \in DOMAIN replies'[c],
                      NEW n \in before'[c]
               PROVE  /\ Told(c, i, {"eth_blockNumber"})' => replies'[c][i].number >= n
                      /\ Told(c, i, LookupMethods)' => replies'[c][i].number > n
    BY DEF TimeMovesForward
  <2>1. CASE i \in DOMAIN replies[c]
    <3>1. replies'[c][i] = replies[c][i]
      BY <1>3, <1>4, <2>1
    <3> QED
      BY <1>1, <2>1, <3>1 DEF ClockInv, TimeMovesForward, Told
  <2>2. CASE i \notin DOMAIN replies[c]
    <3>1. c = b /\ i = new /\ replies'[c][i] = reply
      BY <1>3, <1>4, <2>2
    <3>2. n \in Nat /\ n <= Clock
      BY <1>1, <1>2 DEF ClockInv, NothingAhead
    <3>3. payload'[c][i] = Current(b)
      BY <1>1, <3>1 DEF Current, Position
    <3> QED BY <1>2, <1>6, <3>1, <3>2, <3>3 DEF Told
  <2> QED BY <2>1, <2>2
<1>12. InventedBlocksDistinct'
  <2> SUFFICES ASSUME NEW c \in Batches, NEW d \in Batches,
                      NEW i \in DOMAIN replies'[c], NEW j \in DOMAIN replies'[d],
                      Told(c, i, LookupMethods)', Told(d, j, LookupMethods)',
                      replies'[c][i].number = replies'[d][j].number
               PROVE  c = d /\ i = j
    BY DEF InventedBlocksDistinct
  <2>0. payload'[b][new] = Current(b)
    BY <1>1 DEF Current, Position
  <2>1. CASE i \in DOMAIN replies[c] /\ j \in DOMAIN replies[d]
    <3>1. replies'[c][i] = replies[c][i] /\ replies'[d][j] = replies[d][j]
      BY <1>3, <1>4, <2>1
    <3> QED
      BY <1>1, <2>1, <3>1 DEF ClockInv, InventedBlocksDistinct, Told
  <2>2. CASE i \in DOMAIN replies[c] /\ j \notin DOMAIN replies[d]
    <3>1. d = b /\ j = new /\ replies'[d][j] = reply
      BY <1>3, <1>4, <2>2
    <3>2. reply.number > Clock
      BY <2>0, <3>1 DEF Told
    <3>3. replies'[c][i].number <= Clock /\ replies'[c][i].number \in Nat
      BY <1>3, <1>4, <1>5, <2>2
    <3> QED BY <1>2, <1>6, <3>1, <3>2, <3>3
  <2>3. CASE i \notin DOMAIN replies[c] /\ j \in DOMAIN replies[d]
    <3>1. c = b /\ i = new /\ replies'[c][i] = reply
      BY <1>3, <1>4, <2>3
    <3>2. reply.number > Clock
      BY <2>0, <3>1 DEF Told
    <3>3. replies'[d][j].number <= Clock /\ replies'[d][j].number \in Nat
      BY <1>3, <1>4, <1>5, <2>3
    <3> QED BY <1>2, <1>6, <3>1, <3>2, <3>3
  <2>4. CASE i \notin DOMAIN replies[c] /\ j \notin DOMAIN replies[d]
    BY <1>3, <1>4, <2>4
  <2> QED BY <2>1, <2>2, <2>3, <2>4
<1> QED BY <1>8, <1>9, <1>10, <1>11, <1>12 DEF ClockInv

-----------------------------------------------------------------------------

\* Only batch b moves on, without a reply.
LEMMA OnlyPhase ==
  ASSUME ClockInv, NEW b \in Batches, NEW ph \in BatchPhases \ {"idle", "starting"},
         phase' = [phase EXCEPT ![b] = ph],
         UNCHANGED <<payload, replies, told, before>>,
         engine' \in Engines \/ UNCHANGED engine,
         created' \subseteq Engines,
         using' \in [Batches -> Engines \union {NoEngine}],
         \A c \in Batches : c # b => using'[c] = using[c],
         ph \in Answering => engine' # NoEngine,
         ph \in Executing => using'[b] \in Engines /\ Current(b).method \in SendMethods,
         Clock' \in Nat, Clock' >= Clock,
         blockNumber' \in [Engines -> Nat],
         indexed' \in [Engines -> [Hashes -> IndexEntries]]
  PROVE  ClockInv'
<1>1. phase \in [Batches -> BatchPhases]
  BY DEF ClockInv, TypeOK, ProviderTypeOK
<1>2. TypeOK'
  BY <1>1 DEF ClockInv, TypeOK, ProviderTypeOK, Clock
<1>3. BatchesFit'
  <2> SUFFICES ASSUME NEW c \in Batches
               PROVE  /\ phase'[c] \in {"idle", "starting"} => replies'[c] = <<>>
                      /\ phase'[c] \in Answering => engine' # NoEngine
                      /\ phase'[c] \in Executing =>
                           /\ using'[c] \in Engines
                           /\ Current(c)'.method \in SendMethods
    BY DEF BatchesFit
  <2>1. Current(c)' = Current(c)
    BY DEF Current, Position
  <2>2. CASE c = b
    BY <1>1, <2>1, <2>2
  <2>3. CASE c # b
    <3>1. phase'[c] = phase[c]
      BY <1>1, <2>3
    <3>2. NoEngine \notin Engines
      BY ProviderAssumption
    <3> QED
      BY <2>1, <2>3, <3>1, <3>2 DEF ClockInv, BatchesFit
  <2> QED BY <2>2, <2>3
<1> QED BY <1>2, <1>3, NoReply

\* A batch's new requests have no replies, and nothing it has not been told.
LEMMA SendKeeps ==
  ASSUME ClockInv, NEW b \in Batches, NEW p \in Workload, Send(b, p),
         UNCHANGED apiVars
  PROVE  ClockInv'
<1>1. /\ phase[b] = "idle"
      /\ payload' = [payload EXCEPT ![b] = p]
      /\ before' = [before EXCEPT ![b] = told]
      /\ UNCHANGED <<engine, created, replies, using, told, apiVars>>
      /\ \E ph \in IF engine = NoEngine THEN {"starting"} ELSE Started(p) :
           phase' = [phase EXCEPT ![b] = ph]
  BY DEF Send
<1>2. /\ phase \in [Batches -> BatchPhases]
      /\ payload \in [Batches -> Seq(Payload)]
      /\ before \in [Batches -> SUBSET Nat]
      /\ told \subseteq Nat
  BY DEF ClockInv, TypeOK, ProviderTypeOK
<1>3. replies[b] = <<>>
  BY <1>1 DEF ClockInv, BatchesFit
<1>4. /\ \A c \in Batches : c # b => payload'[c] = payload[c] /\ before'[c] = before[c]
      /\ DOMAIN replies[b] = {}
      /\ before'[b] = told
  BY <1>1, <1>2, <1>3
<1>5. TypeOK'
  <2>1. phase' \in [Batches -> BatchPhases]
    BY <1>1, <1>2 DEF BatchPhases, Started
  <2>2. payload' \in [Batches -> Seq(Payload)] /\ before' \in [Batches -> SUBSET Nat]
    BY <1>1, <1>2, ProviderAssumption
  <2> QED BY <1>1, <2>1, <2>2 DEF ClockInv, TypeOK, ProviderTypeOK, apiVars
<1>6. BatchesFit'
  <2> SUFFICES ASSUME NEW c \in Batches
               PROVE  /\ phase'[c] \in {"idle", "starting"} => replies'[c] = <<>>
                      /\ phase'[c] \in Answering => engine' # NoEngine
                      /\ phase'[c] \in Executing =>
                           /\ using'[c] \in Engines
                           /\ Current(c)'.method \in SendMethods
    BY DEF BatchesFit
  <2>1. CASE c = b
    <3>1. phase'[b] \in {"starting", "settled", "rejected", "queued"}
      BY <1>1, <1>2 DEF Started
    <3>2. phase'[b] = "queued" => engine # NoEngine
      BY <1>1, <1>2
    <3> QED BY <1>1, <1>3, <2>1, <3>1, <3>2 DEF Answering, Executing
  <2>2. CASE c # b
    <3>1. phase'[c] = phase[c] /\ payload'[c] = payload[c]
      BY <1>1, <1>2, <2>2
    <3> QED BY <1>1, <3>1 DEF ClockInv, BatchesFit, Current, Position
  <2> QED BY <2>1, <2>2
<1>7. NothingAhead'
  <2>1. UNCHANGED Clock
    BY <1>1 DEF apiVars, Clock
  <2> QED BY <1>1, <1>4, <2>1 DEF ClockInv, NothingAhead
<1>8. TimeMovesForward'
  <2> SUFFICES ASSUME NEW c \in Batches, NEW i \in DOMAIN replies'[c],
                      NEW n \in before'[c]
               PROVE  /\ Told(c, i, {"eth_blockNumber"})' => replies'[c][i].number >= n
                      /\ Told(c, i, LookupMethods)' => replies'[c][i].number > n
    BY DEF TimeMovesForward
  <2>1. c # b
    BY <1>1, <1>4
  <2> QED BY <1>1, <1>4, <2>1 DEF ClockInv, TimeMovesForward, Told
<1>9. InventedBlocksDistinct'
  <2> SUFFICES ASSUME NEW c \in Batches, NEW d \in Batches,
                      NEW i \in DOMAIN replies'[c], NEW j \in DOMAIN replies'[d],
                      Told(c, i, LookupMethods)', Told(d, j, LookupMethods)',
                      replies'[c][i].number = replies'[d][j].number
               PROVE  c = d /\ i = j
    BY DEF InventedBlocksDistinct
  <2>1. c # b /\ d # b
    BY <1>1, <1>4
  <2> QED BY <1>1, <1>4, <2>1 DEF ClockInv, InventedBlocksDistinct, Told
<1> QED BY <1>5, <1>6, <1>7, <1>8, <1>9 DEF ClockInv

-----------------------------------------------------------------------------
(* What the shared ways to answer do. *)

\* What ClockInv says of one batch that is being answered.
LEMMA Answered ==
  ASSUME ClockInv, NEW b \in Batches
  PROVE  /\ Clock \in Nat
         /\ created \subseteq Engines
         /\ using \in [Batches -> Engines \union {NoEngine}]
         /\ blockNumber \in [Engines -> Nat]
         /\ indexed \in [Engines -> [Hashes -> IndexEntries]]
         /\ phase[b] \in Answering => engine \in Engines /\ engine # NoEngine
  BY DEF ClockInv, TypeOK, ProviderTypeOK, BatchesFit, Clock

\* A request throws or is forwarded.
LEMMA RejectOrForward ==
  ASSUME ClockInv, NEW b \in Batches,
         Reject(b) \/ (Forward(b) /\ phase[b] \in Answering),
         Clock' \in Nat, Clock' >= Clock, UNCHANGED <<blockNumber, indexed>>
  PROVE  ClockInv'
<1>1. PICK ph \in {"rejected", "forwarding"} :
        /\ phase' = [phase EXCEPT ![b] = ph]
        /\ ph = "forwarding" => phase[b] \in Answering
        /\ UNCHANGED <<engine, created, payload, replies, using, told, before>>
  BY DEF Reject, Forward
<1>2. /\ ph \in BatchPhases \ {"idle", "starting"}
      /\ ph \notin Executing
      /\ ph \in Answering => engine' # NoEngine
  BY <1>1, Answered DEF BatchPhases, Answering, Executing
<1> QED BY <1>1, <1>2, Answered, OnlyPhase

\* A reply that tells no block number.
LEMMA PlainReply ==
  ASSUME ClockInv, NEW b \in Batches, NEW kind \in {"result", "error", "provider"},
         phase[b] \in {"running", "forwarding"} \union Executing,
         Answer(b, [kind |-> kind, number |-> 0]),
         kind = "result" => Current(b).method \notin LookupMethods \union {"eth_blockNumber"},
         UNCHANGED <<Clock, blockNumber>>,
         indexed' \in [Engines -> [Hashes -> IndexEntries]]
  PROVE  ClockInv'
<1> DEFINE reply == [kind |-> kind, number |-> 0]
<1>1. reply \in Reply /\ reply.number = 0 /\ reply.kind = kind
  BY DEF Reply
<1>2. Clock \in Nat /\ Clock' \in Nat /\ Clock' >= Clock /\ reply.number <= Clock'
  BY <1>1, Answered
<1> HIDE DEF reply
<1>3. Answer(b, reply)
  BY DEF reply
<1> QED BY <1>1, <1>2, <1>3, OneReply

-----------------------------------------------------------------------------

\* Getting an engine neither tells nor invents a number.
LEMMA ClockProvide ==
  ASSUME ClockInv, NEW b \in Batches, Provide(b)
  PROVE  ClockInv'
<1>1. UNCHANGED <<apiVars, Clock, blockNumber, indexed>>
  BY DEF Provide, apiVars, Clock
<1>2. Clock' \in Nat /\ Clock' >= Clock
  BY <1>1, Answered
<1>3. CASE \E p \in Workload : Send(b, p)
  BY <1>1, <1>3, SendKeeps
<1>4. CASE EngineCreated(b)
  <2>1. PICK e \in Engines : created' = created \union {e} /\ engine' = e
    BY <1>4 DEF EngineCreated
  <2>2. PICK ph \in {"settled", "rejected", "queued"} : phase' = [phase EXCEPT ![b] = ph]
    BY <1>4 DEF EngineCreated, Started
  <2>3. ph \in BatchPhases \ {"idle", "starting"} /\ ph \notin Executing
    BY DEF BatchPhases, Executing
  <2>4. engine' # NoEngine /\ created' \subseteq Engines
    BY <2>1, Answered, ProviderAssumption
  <2>5. UNCHANGED <<payload, replies, using, told, before>>
    BY <1>4 DEF EngineCreated
  <2> QED BY <1>1, <1>2, <2>1, <2>2, <2>3, <2>4, <2>5, Answered, OnlyPhase
<1>5. CASE EngineCreationFails(b)
  BY <1>1, <1>2, <1>5, RejectOrForward DEF EngineCreationFails, Reject
<1>6. CASE Drain(b)
  <2>1. /\ "running" \in BatchPhases \ {"idle", "starting"}
        /\ engine' # NoEngine
        /\ "running" \notin Executing
    BY <1>6, Answered DEF Drain, BatchPhases, Answering, Executing
  <2> QED BY <1>1, <1>2, <1>6, <2>1, Answered, OnlyPhase DEF Drain
<1> QED BY <1>3, <1>4, <1>5, <1>6 DEF Provide

\* Handlers that leave the shared counter and the engines alone.
LEMMA ClockReads ==
  ASSUME ClockInv, NEW b \in Batches,
         \/ Unsupported(b) \/ Forwarded(b) \/ InvalidParams(b)
         \/ EthCallOrEstimate(b) \/ EthGetState(b) \/ EthGetByBlockHash(b)
         \/ EthGetTransactionByBlockHashAndIndex(b)
         \/ EthGetBlockByNumber(b) \/ EthGetByBlockNumber(b)
         \/ EthGetTransactionByFailure(b) \/ PreparationFails(b) \/ TransactionThrows(b)
  PROVE  ClockInv'
<1>1. UNCHANGED <<Clock, blockNumber, indexed>>
  BY
     DEF Unsupported, Forwarded, InvalidParams, EthCallOrEstimate,
         EthGetState, EthGetBalance, EthGetCodeOrStorageAt,
         EthGetTransactionCount, StateRead, EthGetByBlockHash,
         EthGetBlockByHash, EthGetBlockTransactionCountByHash,
         GenesisRead, EthGetTransactionByBlockHashAndIndex,
         EthGetBlockByNumber, EthGetByBlockNumber,
         EthGetBlockTransactionCountByNumber,
         EthGetTransactionByBlockNumberAndIndex, LaterBlockRead,
         EthGetTransactionByFailure, PreparationFails,
         TransactionThrows, apiVars, Clock
<1>2. /\ Clock' \in Nat /\ Clock' >= Clock
      /\ indexed' \in [Engines -> [Hashes -> IndexEntries]]
  BY <1>1, Answered
<1>3. Reject(b) => ClockInv'
  BY <1>1, <1>2, RejectOrForward
<1>4. phase[b] = "running" /\ Forward(b) => ClockInv'
  BY <1>1, <1>2, RejectOrForward DEF Answering
<1>5. phase[b] = "running" /\ Error(b) => ClockInv'
  BY <1>1, <1>2, PlainReply DEF Error
<1>6. /\ phase[b] = "running" /\ Result(b, 0)
      /\ Current(b).method \notin LookupMethods \union {"eth_blockNumber"}
      => ClockInv'
  BY <1>1, <1>2, PlainReply DEF Result
<1>7. CASE Unsupported(b)
  BY <1>4, <1>7 DEF Unsupported, At
<1>8. CASE Forwarded(b)
  BY <1>1, <1>2, <1>3, <1>8, PlainReply DEF Forwarded
<1>9. CASE InvalidParams(b)
  BY <1>3, <1>5, <1>9 DEF InvalidParams
<1>10. CASE EthCallOrEstimate(b)
  <2>1. Current(b).method \notin LookupMethods \union {"eth_blockNumber"}
    BY <1>10 DEF EthCallOrEstimate, Valid, At, LookupMethods
  <2> QED BY <1>3, <1>5, <1>6, <1>10, <2>1 DEF EthCallOrEstimate, Valid, At
<1>11. CASE EthGetState(b)
  <2>1. Current(b).method \notin LookupMethods \union {"eth_blockNumber"}
    BY <1>11
     DEF EthGetState, EthGetBalance, EthGetCodeOrStorageAt,
         EthGetTransactionCount, StateRead, Valid, At, LookupMethods
  <2> QED BY <1>3, <1>6, <1>11, <2>1
     DEF EthGetState, EthGetBalance, EthGetCodeOrStorageAt,
         EthGetTransactionCount, StateRead, Valid, At
<1>12. CASE EthGetByBlockHash(b)
  <2>1. Current(b).method \notin LookupMethods \union {"eth_blockNumber"}
    BY <1>12
     DEF EthGetByBlockHash, EthGetBlockByHash,
         EthGetBlockTransactionCountByHash, GenesisRead, Valid, At,
         LookupMethods
  <2>2. phase[b] = "running" /\ (Forward(b) \/ Result(b, 0))
    BY <1>12
     DEF EthGetByBlockHash, EthGetBlockByHash,
         EthGetBlockTransactionCountByHash, GenesisRead, Valid, At
  <2> QED BY <1>4, <1>6, <2>1, <2>2
<1>13. CASE EthGetBlockByNumber(b)
  <2>1. Current(b).method \notin LookupMethods \union {"eth_blockNumber"}
    BY <1>13 DEF EthGetBlockByNumber, Valid, At, LookupMethods
  <2>2. phase[b] = "running" /\ (Forward(b) \/ Reject(b) \/ Result(b, 0))
    BY <1>13 DEF EthGetBlockByNumber, Valid, At
  <2> QED BY <1>3, <1>4, <1>6, <2>1, <2>2
<1>14. CASE EthGetByBlockNumber(b)
  BY <1>3, <1>4, <1>14
     DEF EthGetByBlockNumber, EthGetBlockTransactionCountByNumber,
         EthGetTransactionByBlockNumberAndIndex, LaterBlockRead,
         Valid, At
<1>15. CASE EthGetTransactionByFailure(b)
  BY <1>5, <1>15 DEF EthGetTransactionByFailure, Valid, At
<1>16. CASE TransactionThrows(b)
  BY <1>3, <1>16 DEF TransactionThrows
<1>17. CASE EthGetTransactionByBlockHashAndIndex(b)
  BY <1>3, <1>4, <1>17 DEF EthGetTransactionByBlockHashAndIndex, Null, Valid, At
<1>18. CASE PreparationFails(b)
  <2>1. phase[b] \in Executing /\ Error(b)
    BY <1>18 DEF PreparationFails, Executing
  <2> QED BY <1>1, <1>2, <2>1, PlainReply DEF Error
<1> QED BY <1>7, <1>8, <1>9, <1>10, <1>11, <1>12, <1>13, <1>14, <1>15, <1>16, <1>17, <1>18

\* eth_blockNumber tells the last number invented.
LEMMA ClockRead ==
  ASSUME ClockInv, NEW b \in Batches, EthBlockNumber(b)
  PROVE  ClockInv'
<1> DEFINE reply == [kind |-> "result", number |-> Clock]
<1>1. /\ phase[b] = "running"
      /\ Current(b).method = "eth_blockNumber"
      /\ Answer(b, reply)
      /\ UNCHANGED <<Clock, blockNumber, indexed>>
  BY DEF EthBlockNumber, Valid, At, Result, apiVars, Clock
<1>2. reply \in Reply /\ reply.number = Clock
  BY Answered DEF Reply
<1>3. /\ Clock' \in Nat /\ Clock' >= Clock /\ reply.number <= Clock'
      /\ reply.number >= Clock
      /\ indexed' \in [Engines -> [Hashes -> IndexEntries]]
  BY <1>1, <1>2, Answered
<1>4. Current(b).method \notin LookupMethods
  BY <1>1 DEF LookupMethods
<1> HIDE DEF reply
<1> QED BY <1>1, <1>2, <1>3, <1>4, OneReply

\* A lookup forwards, throws, or tells the number it has just invented.
LEMMA ClockLookup ==
  ASSUME ClockInv, NEW b \in Batches,
         EthGetTransactionReceipt(b) \/ EthGetTransactionByHash(b)
  PROVE  ClockInv'
<1>1. phase[b] = "running" /\ Current(b).method \in LookupMethods
  BY DEF EthGetTransactionReceipt, EthGetTransactionByHash, Valid, At, LookupMethods
<1>2. \/ (Forward(b) \/ Reject(b)) /\ UNCHANGED apiVars
      \/ InventBlock(b)
      \/ ReceiptThrows(b)
  BY DEF EthGetTransactionReceipt, EthGetTransactionByHash, BlockOfTransaction
<1>3. CASE (Forward(b) \/ Reject(b)) /\ UNCHANGED apiVars
  <2>1. UNCHANGED <<Clock, blockNumber, indexed>>
    BY <1>3 DEF apiVars, Clock
  <2> QED BY <1>1, <1>3, <2>1, Answered, RejectOrForward DEF Answering
<1>4. CASE InventBlock(b)
  <2> DEFINE reply == [kind |-> "result", number |-> Clock']
  <2>1. Clock' = Clock + 1 /\ Answer(b, reply) /\ UNCHANGED <<blockNumber, indexed>>
    BY <1>4 DEF InventBlock, Result, Clock
  <2>2. Clock' \in Nat /\ Clock' > Clock /\ Clock' >= Clock
    BY <2>1, Answered
  <2>3. reply \in Reply /\ reply.number = Clock'
    BY <2>2 DEF Reply
  <2>4. /\ reply.number <= Clock' /\ reply.number >= Clock /\ reply.number > Clock
        /\ indexed' \in [Engines -> [Hashes -> IndexEntries]]
    BY <2>1, <2>2, <2>3, Answered
  <2> HIDE DEF reply
  <2> QED BY <1>1, <2>1, <2>2, <2>3, <2>4, OneReply
<1>5. CASE ReceiptThrows(b)
  <2>1. Clock' = Clock + 1 /\ Reject(b) /\ UNCHANGED <<blockNumber, indexed>>
    BY <1>5 DEF ReceiptThrows, Clock
  <2> QED BY <2>1, Answered, RejectOrForward
<1> QED BY <1>2, <1>3, <1>4, <1>5

\* Executing a transaction tells no number.
LEMMA ClockTransaction ==
  ASSUME ClockInv, NEW b \in Batches, BeginTransaction(b) \/ BeginBlock(b) \/ EndTransaction(b)
  PROVE  ClockInv'
<1>1. UNCHANGED Clock /\ Clock' \in Nat /\ Clock' >= Clock
  BY Answered DEF BeginTransaction, BeginBlock, EndTransaction, apiVars, Clock
<1>2. CASE BeginTransaction(b)
  <2>1. /\ phase[b] = "running" /\ Current(b).method \in SendMethods
        /\ phase' = [phase EXCEPT ![b] = "executing"]
        /\ using' = [using EXCEPT ![b] = engine]
        /\ UNCHANGED <<engine, created, payload, replies, told, before, blockNumber,
                       indexed>>
    BY <1>2 DEF BeginTransaction, Valid, At, Execute, apiVars
  <2>2. engine \in Engines /\ engine # NoEngine
    BY <2>1, Answered DEF Answering
  <2>3. using \in [Batches -> Engines \union {NoEngine}]
    BY Answered
  <2>4. /\ using' \in [Batches -> Engines \union {NoEngine}]
        /\ using'[b] \in Engines
        /\ \A c \in Batches : c # b => using'[c] = using[c]
    BY <2>1, <2>2, <2>3
  <2>6. "executing" \in BatchPhases \ {"idle", "starting"}
    BY DEF BatchPhases
  <2> QED BY <1>1, <2>1, <2>2, <2>4, <2>6, Answered, OnlyPhase
<1>4. CASE BeginBlock(b)
  <2>1. /\ phase[b] = "executing"
        /\ phase' = [phase EXCEPT ![b] = "inBlock"]
        /\ blockNumber' = [blockNumber EXCEPT ![using[b]] = blockNumber[using[b]] + 1]
        /\ UNCHANGED <<engine, created, using, payload, replies, told, before, indexed>>
    BY <1>4 DEF BeginBlock
  <2>2. using[b] \in Engines /\ Current(b).method \in SendMethods
    BY <2>1 DEF ClockInv, BatchesFit, Executing
  <2>3. engine' # NoEngine
    BY <2>1, Answered DEF Answering, Executing
  <2>4. blockNumber' \in [Engines -> Nat]
    <3>1. blockNumber \in [Engines -> Nat] /\ blockNumber[using[b]] + 1 \in Nat
      BY <2>2, Answered
    <3> QED BY <2>1, <3>1
  <2>5. "inBlock" \in BatchPhases \ {"idle", "starting"}
    BY DEF BatchPhases
  <2> QED BY <1>1, <2>1, <2>2, <2>3, <2>4, <2>5, Answered, OnlyPhase
<1>3. CASE EndTransaction(b)
  <2>1. phase[b] \in Executing /\ UNCHANGED blockNumber
    BY <1>3 DEF EndTransaction, Executing
  <2>2. Current(b).method \notin LookupMethods \union {"eth_blockNumber"}
    BY <2>1 DEF ClockInv, BatchesFit, SendMethods, LookupMethods
  <2>3. indexed' \in [Engines -> [Hashes -> IndexEntries]]
    <3>1. PICK entry \in IndexEntries :
            indexed' = [indexed EXCEPT ![using[b]][<<b, Position(b)>>] = entry]
      BY <1>3 DEF EndTransaction, IndexEntries
    <3>2. indexed \in [Engines -> [Hashes -> IndexEntries]]
      BY Answered
    <3> QED BY <3>1, <3>2
  <2>4. PICK kind \in {"result", "error"} : Answer(b, [kind |-> kind, number |-> 0])
    BY <1>3 DEF EndTransaction, Result, Error
  <2> QED BY <1>1, <2>1, <2>2, <2>3, <2>4, PlainReply
<1> QED BY <1>2, <1>3, <1>4

\* Every step keeps the invariant.
LEMMA ClockNext == ClockInv /\ [Next]_vars => ClockInv'
<1> SUFFICES ASSUME ClockInv, [Next]_vars
             PROVE  ClockInv'
  OBVIOUS
<1>1. CASE UNCHANGED vars
  <2>1. UNCHANGED <<providerVars, apiVars, Clock>>
    BY <1>1 DEF vars, apiVars, Clock
  <2>2. UNCHANGED <<engine, created, payload, phase, replies, using, told, before,
                    blocklessSimulationBlockNumber, blockNumber, indexed>>
    BY <2>1 DEF providerVars, apiVars
  <2>3. TypeOK' /\ BatchesFit'
    BY <2>2 DEF ClockInv, TypeOK, ProviderTypeOK, BatchesFit, Current, Position
  <2>4. Clock' \in Nat /\ Clock' >= Clock
    BY <2>1, <2>3 DEF TypeOK, Clock
  <2> QED BY <2>2, <2>3, <2>4, NoReply
<1>2. CASE \E b \in Batches : Provide(b) \/ Handle(b)
  <2>1. PICK b \in Batches : Provide(b) \/ Handle(b)
    BY <1>2
  <2>2. CASE Provide(b)
    BY <2>2, ClockProvide
  <2>3. CASE Handle(b)
    BY <2>3, ClockReads, ClockRead, ClockLookup, ClockTransaction DEF Handle
  <2> QED BY <2>1, <2>2, <2>3
<1> QED BY <1>1, <1>2 DEF Next

-----------------------------------------------------------------------------

\* The inductive invariant holds throughout.
LEMMA ClockAlways == Spec => []ClockInv
<1> QED BY ClockInit, ClockNext, PTL DEF Spec

\* Every variable of the provider and the handlers keeps its type.
THEOREM TypeCorrect == Spec => []TypeOK
<1>1. ClockInv => TypeOK
  BY DEF ClockInv
<1> QED BY <1>1, ClockAlways, PTL

\* However many batches overlap, over however many engines, no client sees block
\* numbers go backwards.
THEOREM TimeAlwaysForward == Spec => []TimeMovesForward
<1>1. ClockInv => TimeMovesForward
  BY DEF ClockInv
<1> QED BY <1>1, ClockAlways, PTL

\* No two lookups of transactions without a block are told the same block.
THEOREM InventedAlwaysDistinct == Spec => []InventedBlocksDistinct
<1>1. ClockInv => InventedBlocksDistinct
  BY DEF ClockInv
<1> QED BY <1>1, ClockAlways, PTL

-----------------------------------------------------------------------------
(***************************************************************************)
(* What was acknowledged stays local.  Where clients leave the provider    *)
(* alone while it creates its engine there is only ever one, and it has    *)
(* indexed whatever was acknowledged.                                      *)
(***************************************************************************)

\* A batch being answered is at one of its requests, and an engine answered the
\* ones before.
RequestsLeft ==
  \A b \in Batches :
    /\ payload[b] = <<>> \/ payload[b] \in Workload
    /\ phase[b] \in Answering => Len(replies[b]) < Len(payload[b])
    /\ replies[b] # <<>> => engine # NoEngine

\* At most one batch is creating the first engine, which executions then use.
OneEngine ==
  /\ \A b, c \in Batches : phase[b] = "starting" /\ phase[c] = "starting" => b = c
  /\ \A b \in Batches : phase[b] = "starting" => engine = NoEngine
  /\ \A b \in Batches : phase[b] \in Executing => using[b] = engine

\* The engine has indexed every transaction it has acknowledged.
AcknowledgedIndexed ==
  \A b \in Batches : \A i \in DOMAIN replies[b] :
    Told(b, i, SendMethods) =>
      i \in 1..MaxRequests /\ indexed[engine][<<b, i>>] # "none"

AckInv ==
  /\ ClockInv
  /\ RequestsLeft
  /\ StartAlone => OneEngine /\ AcknowledgedIndexed

\* The ways a step of batch b can go, apart from Send and EngineCreated.
MovesOn(b, ph) ==
  /\ phase[b] \in Answering \union {"starting"}
  /\ phase' = [phase EXCEPT ![b] = ph]
  /\ ph \in Answering => phase[b] \in Answering
  /\ \/ ph = "executing" /\ using' = [using EXCEPT ![b] = engine]
     \/ ph = "inBlock" /\ phase[b] = "executing" /\ UNCHANGED using
     \/ ph \notin Executing /\ UNCHANGED using
  /\ UNCHANGED <<engine, payload, replies, indexed>>

AnswersOther(b) ==
  /\ phase[b] \in Answering
  /\ \E reply \in Reply :
       /\ Answer(b, reply)
       /\ ~(reply.kind = "result" /\ Current(b).method \in SendMethods)
  /\ UNCHANGED indexed

AnswersSend(b) ==
  /\ phase[b] \in Executing
  /\ \E reply \in Reply : Answer(b, reply)
  /\ \E entry \in IndexEntries \ {"none"} :
       indexed' = [indexed EXCEPT ![using[b]][<<b, Position(b)>>] = entry]

Goes(b) ==
  \/ \E ph \in Answering \union {"rejected"} : MovesOn(b, ph)
  \/ AnswersOther(b)
  \/ AnswersSend(b)

\* Nothing has been acknowledged at first.
LEMMA AckInit == Init => AckInv
<1> SUFFICES ASSUME Init
             PROVE  AckInv
  OBVIOUS
<1>1. \A b \in Batches : /\ payload[b] = <<>>
                         /\ replies[b] = <<>>
                         /\ DOMAIN replies[b] = {}
                         /\ phase[b] = "idle"
  <2>1. DOMAIN <<>> = {}
    OBVIOUS
  <2> QED BY <2>1 DEF Init, ProviderInit
<1>2. RequestsLeft
  BY <1>1 DEF RequestsLeft, Answering, Executing
<1>3. OneEngine /\ AcknowledgedIndexed
  BY <1>1 DEF OneEngine, AcknowledgedIndexed, Executing
<1> QED BY <1>2, <1>3, ClockInit DEF AckInv

\* Every handler moves its batch on or answers its request.
LEMMA HandleGoes ==
  ASSUME ClockInv, NEW b \in Batches, Handle(b)
  PROVE  Goes(b)
<1>1. ASSUME phase[b] \in Answering, Reject(b), UNCHANGED indexed
      PROVE  Goes(b)
  BY <1>1 DEF Reject, MovesOn, Answering, Executing, Goes
<1>2. ASSUME phase[b] = "running", Forward(b), UNCHANGED indexed
      PROVE  Goes(b)
  BY <1>2 DEF Forward, MovesOn, Answering, Executing, Goes
<1>3. ASSUME phase[b] \in Answering, NEW reply \in Reply, Answer(b, reply),
             ~(reply.kind = "result" /\ Current(b).method \in SendMethods),
             UNCHANGED indexed
      PROVE  Goes(b)
  BY <1>3 DEF AnswersOther, Goes
<1>4. ASSUME phase[b] = "running", NEW n \in Nat, Result(b, n),
             Current(b).method \notin SendMethods, UNCHANGED indexed
      PROVE  Goes(b)
  <2>1. [kind |-> "result", number |-> n] \in Reply
    BY DEF Reply
  <2> QED BY <1>3, <1>4, <2>1 DEF Result, Answering
<1>5. ASSUME phase[b] = "running", Error(b), UNCHANGED indexed
      PROVE  Goes(b)
  <2> DEFINE reply == [kind |-> "error", number |-> 0]
  <2>1. reply \in Reply /\ reply.kind = "error"
    BY DEF Reply
  <2>2. Answer(b, reply) /\ phase[b] \in Answering
    BY <1>5 DEF Error, Answering
  <2> HIDE DEF reply
  <2> QED BY <1>3, <1>5, <2>1, <2>2
<1>6. Clock \in Nat
  BY Answered
<1>7. CASE Unsupported(b)
  BY <1>2, <1>7 DEF Unsupported, At, apiVars
<1>8. CASE Forwarded(b)
  <2> DEFINE reply == [kind |-> "provider", number |-> 0]
  <2>1. reply \in Reply /\ reply.kind = "provider"
    BY DEF Reply
  <2>2. phase[b] \in Answering /\ UNCHANGED indexed /\ (Answer(b, reply) \/ Reject(b))
    BY <1>8 DEF Forwarded, apiVars, Answering
  <2> HIDE DEF reply
  <2> QED BY <1>1, <1>3, <2>1, <2>2
<1>9. CASE InvalidParams(b)
  BY <1>1, <1>5, <1>9 DEF InvalidParams, Answering, apiVars
<1>10. CASE EthBlockNumber(b)
  <2>1. /\ phase[b] = "running" /\ Current(b).method = "eth_blockNumber"
        /\ Result(b, Clock) /\ UNCHANGED indexed
    BY <1>10 DEF EthBlockNumber, Valid, At, apiVars, Clock
  <2> QED BY <1>4, <1>6, <2>1 DEF SendMethods
<1>11. CASE EthCallOrEstimate(b) \/ EthGetState(b)
  <2>1. phase[b] = "running" /\ Current(b).method \notin SendMethods
    BY <1>11
     DEF EthCallOrEstimate, EthGetState, EthGetBalance,
         EthGetCodeOrStorageAt, EthGetTransactionCount, StateRead,
         Valid, At, SendMethods
  <2>2. Result(b, 0) \/ Error(b) \/ Reject(b)
    BY <1>11
     DEF EthCallOrEstimate, EthGetState, EthGetBalance,
         EthGetCodeOrStorageAt, EthGetTransactionCount, StateRead
  <2>3. UNCHANGED indexed
    BY <1>11
     DEF EthCallOrEstimate, EthGetState, EthGetBalance,
         EthGetCodeOrStorageAt, EthGetTransactionCount, StateRead,
         apiVars
  <2> QED BY <1>1, <1>4, <1>5, <2>1, <2>2, <2>3 DEF Answering
<1>12. CASE \/ EthGetByBlockHash(b) \/ EthGetTransactionByBlockHashAndIndex(b)
            \/ EthGetBlockByNumber(b) \/ EthGetByBlockNumber(b)
  <2>1. /\ phase[b] = "running" /\ Current(b).method \notin SendMethods
        /\ Result(b, 0) \/ Forward(b) \/ Reject(b)
        /\ UNCHANGED indexed
    BY <1>12
     DEF EthGetByBlockHash, EthGetBlockByHash,
         EthGetBlockTransactionCountByHash, GenesisRead,
         EthGetTransactionByBlockHashAndIndex, EthGetBlockByNumber,
         EthGetByBlockNumber, EthGetBlockTransactionCountByNumber,
         EthGetTransactionByBlockNumberAndIndex, LaterBlockRead, Null,
         Valid, At, apiVars, SendMethods
  <2> QED BY <1>1, <1>2, <1>4, <2>1 DEF Answering
<1>13. CASE EthGetTransactionReceipt(b) \/ EthGetTransactionByHash(b)
  <2>1. /\ phase[b] = "running" /\ Current(b).method \notin SendMethods
        /\ \/ Forward(b) \/ Reject(b)
           \/ Result(b, Clock') /\ Clock' = Clock + 1
        /\ UNCHANGED indexed
    BY <1>13 DEF EthGetTransactionReceipt, EthGetTransactionByHash, BlockOfTransaction,
                 InventBlock, ReceiptThrows, Valid, At, apiVars, SendMethods, Clock
  <2>2. Clock' = Clock + 1 => Clock' \in Nat
    BY <1>6
  <2> QED BY <1>1, <1>2, <1>4, <2>1, <2>2 DEF Answering
<1>14. CASE EthGetTransactionByFailure(b)
  BY <1>5, <1>14 DEF EthGetTransactionByFailure, Valid, At, apiVars
<1>15. CASE BeginTransaction(b)
  BY <1>15 DEF BeginTransaction, Valid, At, Execute, apiVars, MovesOn, Answering,
               Executing, Goes
<1>16. CASE BeginBlock(b)
  BY <1>16 DEF BeginBlock, MovesOn, Answering, Executing, Goes
<1>17. CASE EndTransaction(b)
  <2>1. phase[b] \in Executing
    BY <1>17 DEF EndTransaction, Executing
  <2>2. \E reply \in Reply : Answer(b, reply)
    <3>1. \A kind \in {"result", "error"} : [kind |-> kind, number |-> 0] \in Reply
      BY DEF Reply
    <3> QED BY <1>17, <3>1 DEF EndTransaction, Result, Error
  <2>3. \E entry \in IndexEntries \ {"none"} :
          indexed' = [indexed EXCEPT ![using[b]][<<b, Position(b)>>] = entry]
    <3>1. CASE SignedRequest(b)
      <4>1. /\ "block" \in IndexEntries \ {"none"}
            /\ indexed' = [indexed EXCEPT ![using[b]][<<b, Position(b)>>] = "block"]
        BY <1>17, <3>1 DEF EndTransaction, IndexEntries
      <4> QED BY <4>1
    <3>2. CASE ~SignedRequest(b)
      <4>1. /\ "blockless" \in IndexEntries \ {"none"}
            /\ indexed' = [indexed EXCEPT ![using[b]][<<b, Position(b)>>] = "blockless"]
        BY <1>17, <3>2 DEF EndTransaction, IndexEntries
      <4> QED BY <4>1
    <3> QED BY <3>1, <3>2
  <2> QED BY <2>1, <2>2, <2>3 DEF AnswersSend, Goes
<1>18. CASE TransactionThrows(b)
  <2>1. phase[b] \in Answering /\ Reject(b) /\ UNCHANGED indexed
    BY <1>18 DEF TransactionThrows, Valid, At, apiVars, Answering, Executing
  <2> QED BY <1>1, <2>1
<1>19. CASE PreparationFails(b)
  <2> DEFINE reply == [kind |-> "error", number |-> 0]
  <2>1. reply \in Reply /\ reply.kind = "error"
    BY DEF Reply
  <2>2. phase[b] \in Answering /\ UNCHANGED indexed /\ Answer(b, reply)
    BY <1>19 DEF PreparationFails, Error, apiVars, Answering, Executing
  <2> HIDE DEF reply
  <2> QED BY <1>3, <2>1, <2>2
<1> QED
  BY <1>7, <1>8, <1>9, <1>10, <1>11, <1>12, <1>13, <1>14, <1>15, <1>16, <1>17, <1>18,
     <1>19
     DEF Handle

-----------------------------------------------------------------------------

\* New requests have no replies, and are sent while no engine is being created.
LEMMA AckSend ==
  ASSUME AckInv, NEW b \in Batches, NEW p \in Workload, Send(b, p), UNCHANGED apiVars
  PROVE  RequestsLeft' /\ (StartAlone => OneEngine' /\ AcknowledgedIndexed')
<1>1. /\ phase[b] = "idle"
      /\ StartAlone => \A c \in Batches : phase[c] # "starting"
      /\ payload' = [payload EXCEPT ![b] = p]
      /\ UNCHANGED <<engine, replies, using, indexed>>
      /\ \E ph \in IF engine = NoEngine THEN {"starting"} ELSE Started(p) :
           phase' = [phase EXCEPT ![b] = ph]
  BY DEF Send, apiVars
<1>2. /\ phase \in [Batches -> BatchPhases]
      /\ payload \in [Batches -> Seq(Payload)]
      /\ p \in Seq(Payload)
  BY ProviderAssumption DEF AckInv, ClockInv, TypeOK, ProviderTypeOK
<1>3. replies[b] = <<>> /\ DOMAIN replies[b] = {} /\ Len(replies[b]) = 0
  BY <1>1 DEF AckInv, ClockInv, BatchesFit
<1>4. /\ \A c \in Batches : c # b => payload'[c] = payload[c] /\ phase'[c] = phase[c]
      /\ payload'[b] = p
      /\ phase'[b] \in IF engine = NoEngine THEN {"starting"} ELSE Started(p)
  BY <1>1, <1>2
<1>5. RequestsLeft'
  <2>1. p # <<>> => Len(p) > 0
    BY <1>2
  <2>2. phase'[b] \in Answering => p # <<>>
    BY <1>4 DEF Started, Answering, Executing
  <2> QED BY <1>1, <1>3, <1>4, <2>1, <2>2 DEF AckInv, RequestsLeft
<1>6. ASSUME StartAlone PROVE OneEngine'
  <2>1. phase'[b] \notin Executing
    BY <1>4 DEF Started, Executing
  <2>2. phase'[b] = "starting" => engine = NoEngine
    BY <1>4 DEF Started
  <2> QED BY <1>1, <1>4, <1>6, <2>1, <2>2 DEF AckInv, OneEngine
<1>7. ASSUME StartAlone PROVE AcknowledgedIndexed'
  BY <1>1, <1>3, <1>4, <1>7 DEF AckInv, AcknowledgedIndexed, Told
<1> QED BY <1>5, <1>6, <1>7

\* The engine is created while there is none, and nothing has been acknowledged.
LEMMA AckEngineCreated ==
  ASSUME AckInv, NEW b \in Batches, EngineCreated(b), UNCHANGED apiVars
  PROVE  RequestsLeft' /\ (StartAlone => OneEngine' /\ AcknowledgedIndexed')
<1>1. /\ phase[b] = "starting"
      /\ engine' \in Engines
      /\ \E ph \in Started(payload[b]) : phase' = [phase EXCEPT ![b] = ph]
      /\ UNCHANGED <<payload, replies, using, indexed>>
  BY DEF EngineCreated, apiVars
<1>2. /\ phase \in [Batches -> BatchPhases]
      /\ payload[b] \in Seq(Payload)
      /\ engine' # NoEngine
  BY <1>1, ProviderAssumption DEF AckInv, ClockInv, TypeOK, ProviderTypeOK
<1>3. replies[b] = <<>> /\ Len(replies[b]) = 0
  BY <1>1 DEF AckInv, ClockInv, BatchesFit
<1>4. /\ \A c \in Batches : c # b => phase'[c] = phase[c]
      /\ phase'[b] \in Started(payload[b])
  BY <1>1, <1>2
<1>5. RequestsLeft'
  <2>1. payload[b] # <<>> => Len(payload[b]) > 0
    BY <1>2
  <2>2. phase'[b] \in Answering => payload[b] # <<>>
    BY <1>4 DEF Started, Answering, Executing
  <2> QED BY <1>1, <1>2, <1>3, <1>4, <2>1, <2>2 DEF AckInv, RequestsLeft
<1>6. ASSUME StartAlone
      PROVE  \A c \in Batches : /\ replies[c] = <<>>
                                /\ phase'[c] \notin Executing
                                /\ phase'[c] # "starting"
  <2>1. engine = NoEngine
    BY <1>1, <1>6 DEF AckInv, OneEngine
  <2>2. \A c \in Batches : replies[c] = <<>> /\ phase[c] \notin Answering
    BY <2>1 DEF AckInv, RequestsLeft, ClockInv, BatchesFit
  <2>3. phase'[b] \notin Executing /\ phase'[b] # "starting"
    BY <1>4 DEF Started, Executing
  <2>4. \A c \in Batches : c # b => phase[c] # "starting"
    BY <1>1, <1>6 DEF AckInv, OneEngine
  <2> QED BY <1>4, <2>2, <2>3, <2>4 DEF Answering
<1>7. ASSUME StartAlone PROVE OneEngine'
  BY <1>6, <1>7 DEF OneEngine
<1>8. ASSUME StartAlone PROVE AcknowledgedIndexed'
  <2>1. DOMAIN <<>> = {}
    OBVIOUS
  <2> QED BY <1>1, <1>6, <1>8, <2>1 DEF AcknowledgedIndexed
<1> QED BY <1>5, <1>7, <1>8

\* A batch that moves on leaves what was acknowledged alone.
LEMMA AckMovesOn ==
  ASSUME AckInv, NEW b \in Batches, NEW ph \in Answering \union {"rejected"},
         MovesOn(b, ph)
  PROVE  RequestsLeft' /\ (StartAlone => OneEngine' /\ AcknowledgedIndexed')
<1>1. /\ phase \in [Batches -> BatchPhases]
      /\ using \in [Batches -> Engines \union {NoEngine}]
  BY DEF AckInv, ClockInv, TypeOK, ProviderTypeOK
<1>2. /\ \A c \in Batches : c # b => phase'[c] = phase[c] /\ using'[c] = using[c]
      /\ phase'[b] = ph
      /\ UNCHANGED <<engine, payload, replies, indexed>>
  BY <1>1 DEF MovesOn
<1>3. RequestsLeft'
  <2>1. ph \in Answering => phase[b] \in Answering
    BY DEF MovesOn
  <2> QED BY <1>2, <2>1 DEF AckInv, RequestsLeft
<1>4. ASSUME StartAlone PROVE OneEngine'
  <2>1. ph # "starting"
    BY DEF Answering, Executing
  <2>2. ph \in Executing => using'[b] = engine
    <3>1. CASE ph = "executing" /\ using' = [using EXCEPT ![b] = engine]
      BY <1>1, <3>1
    <3>2. CASE ph = "inBlock" /\ phase[b] = "executing" /\ UNCHANGED using
      BY <1>4, <3>2 DEF AckInv, OneEngine, Executing
    <3> QED BY <3>1, <3>2 DEF MovesOn
  <2> QED BY <1>2, <1>4, <2>1, <2>2 DEF AckInv, OneEngine
<1>5. ASSUME StartAlone PROVE AcknowledgedIndexed'
  BY <1>2, <1>5 DEF AckInv, AcknowledgedIndexed, Told
<1> QED BY <1>3, <1>4, <1>5

\* What any reply of batch b changes.
LEMMA AckReply ==
  ASSUME AckInv, NEW b \in Batches, NEW reply \in Reply, Answer(b, reply),
         phase[b] \in Answering
  PROVE  /\ RequestsLeft'
         /\ StartAlone => OneEngine'
         /\ DOMAIN replies'[b] = DOMAIN replies[b] \union {Position(b)}
         /\ \A i \in DOMAIN replies[b] : replies'[b][i] = replies[b][i] /\ i # Position(b)
         /\ replies'[b][Position(b)] = reply
         /\ \A c \in Batches : c # b => replies'[c] = replies[c]
         /\ Position(b) \in 1..MaxRequests
<1>1. /\ phase \in [Batches -> BatchPhases]
      /\ replies \in [Batches -> Seq(Reply)]
      /\ payload \in [Batches -> Seq(Payload)]
      /\ replies[b] \in Seq(Reply)
      /\ payload[b] \in Seq(Payload)
  BY DEF AckInv, ClockInv, TypeOK, ProviderTypeOK
<1>2. /\ replies' = [replies EXCEPT ![b] = Append(replies[b], reply)]
      /\ phase' = [phase EXCEPT ![b] =
                     IF Len(Append(replies[b], reply)) = Len(payload[b])
                     THEN "settled" ELSE "running"]
      /\ UNCHANGED <<engine, payload, using>>
  BY DEF Answer
<1>3. /\ replies'[b] = Append(replies[b], reply)
      /\ Len(replies'[b]) = Len(replies[b]) + 1
      /\ \A c \in Batches : c # b => replies'[c] = replies[c] /\ phase'[c] = phase[c]
      /\ phase'[b] = IF Len(replies'[b]) = Len(payload[b]) THEN "settled" ELSE "running"
  BY <1>1, <1>2
<1>4. /\ DOMAIN replies'[b] = DOMAIN replies[b] \union {Position(b)}
      /\ \A i \in DOMAIN replies[b] : replies'[b][i] = replies[b][i] /\ i # Position(b)
      /\ replies'[b][Position(b)] = reply
  BY <1>1, <1>3, OneMore DEF Position
<1>5. /\ Len(replies[b]) \in Nat /\ Len(payload[b]) \in Nat
      /\ Len(replies[b]) < Len(payload[b])
      /\ engine # NoEngine
  BY <1>1 DEF AckInv, RequestsLeft, ClockInv, BatchesFit
<1>6. Len(payload[b]) <= MaxRequests
  <2>1. Len(payload[b]) > 0
    BY <1>5
  <2>2. payload[b] \in Workload
    BY <2>1 DEF AckInv, RequestsLeft
  <2> QED BY <2>2, ApiAssumption
<1>7. Position(b) \in 1..MaxRequests
  BY <1>5, <1>6, ApiAssumption DEF Position
<1>8. RequestsLeft'
  <2>1. phase'[b] \in Answering => Len(replies'[b]) < Len(payload[b])
    BY <1>3, <1>5 DEF Answering, Executing
  <2> QED BY <1>2, <1>3, <1>5, <2>1 DEF AckInv, RequestsLeft
<1>9. ASSUME StartAlone PROVE OneEngine'
  <2>1. phase'[b] \in {"settled", "running"}
    BY <1>3
  <2>2. phase'[b] # "starting" /\ phase'[b] \notin Executing
    BY <2>1 DEF Executing
  <2> QED BY <1>2, <1>3, <1>9, <2>2 DEF AckInv, OneEngine
<1> QED BY <1>3, <1>4, <1>7, <1>8, <1>9

\* Every step keeps the invariant.
LEMMA AckNext == AckInv /\ [Next]_vars => AckInv'
<1> SUFFICES ASSUME AckInv, [Next]_vars
             PROVE  RequestsLeft' /\ (StartAlone => OneEngine' /\ AcknowledgedIndexed')
  BY ClockNext DEF AckInv
<1>1. CASE UNCHANGED vars
  BY <1>1 DEF vars, providerVars, apiVars, AckInv, RequestsLeft, OneEngine,
              AcknowledgedIndexed, Told
<1>2. ASSUME NEW b \in Batches, Provide(b)
      PROVE  RequestsLeft' /\ (StartAlone => OneEngine' /\ AcknowledgedIndexed')
  <2>1. UNCHANGED apiVars
    BY <1>2 DEF Provide
  <2>2. CASE \E p \in Workload : Send(b, p)
    BY <2>1, <2>2, AckSend
  <2>3. CASE EngineCreated(b)
    BY <2>1, <2>3, AckEngineCreated
  <2>4. CASE EngineCreationFails(b)
    <3>1. MovesOn(b, "rejected")
      BY <2>1, <2>4 DEF EngineCreationFails, MovesOn, Answering, Executing, apiVars
    <3> QED BY <3>1, AckMovesOn
  <2>5. CASE Drain(b)
    <3>1. MovesOn(b, "running") /\ "running" \in Answering
      BY <2>1, <2>5 DEF Drain, MovesOn, Answering, Executing, apiVars
    <3> QED BY <3>1, AckMovesOn
  <2> QED BY <1>2, <2>2, <2>3, <2>4, <2>5 DEF Provide
<1>3. ASSUME NEW b \in Batches, Handle(b)
      PROVE  RequestsLeft' /\ (StartAlone => OneEngine' /\ AcknowledgedIndexed')
  <2>1. Goes(b)
    BY <1>3, HandleGoes DEF AckInv
  <2>2. CASE \E ph \in Answering \union {"rejected"} : MovesOn(b, ph)
    BY <2>2, AckMovesOn
  <2>3. CASE AnswersOther(b)
    <3>1. PICK reply \in Reply :
            /\ Answer(b, reply)
            /\ ~(reply.kind = "result" /\ Current(b).method \in SendMethods)
      BY <2>3 DEF AnswersOther
    <3>2. phase[b] \in Answering /\ UNCHANGED <<indexed, engine, payload>>
      BY <2>3, <3>1 DEF AnswersOther, Answer
    <3>3. ASSUME StartAlone PROVE AcknowledgedIndexed'
      <4> SUFFICES ASSUME NEW c \in Batches, NEW i \in DOMAIN replies'[c],
                          Told(c, i, SendMethods)'
                   PROVE  i \in 1..MaxRequests /\ indexed[engine][<<c, i>>] # "none"
        BY <3>2 DEF AcknowledgedIndexed
      <4>1. ~(c = b /\ i = Position(b))
        BY <3>1, <3>2, AckReply DEF Told, Current
      <4>2. i \in DOMAIN replies[c] /\ replies'[c][i] = replies[c][i]
        BY <3>1, <3>2, <4>1, AckReply
      <4>3. Told(c, i, SendMethods)
        BY <3>2, <4>2 DEF Told
      <4> QED BY <3>3, <4>2, <4>3 DEF AckInv, AcknowledgedIndexed
    <3> QED BY <3>1, <3>2, <3>3, AckReply
  <2>4. CASE AnswersSend(b)
    <3>1. PICK reply \in Reply : Answer(b, reply)
      BY <2>4 DEF AnswersSend
    <3>2. PICK entry \in IndexEntries \ {"none"} :
            indexed' = [indexed EXCEPT ![using[b]][<<b, Position(b)>>] = entry]
      BY <2>4 DEF AnswersSend
    <3>3. /\ phase[b] \in Executing /\ phase[b] \in Answering
          /\ UNCHANGED <<engine, payload>>
      BY <2>4, <3>1 DEF AnswersSend, Answer, Answering
    <3>4. ASSUME StartAlone PROVE AcknowledgedIndexed'
      <4>1. using[b] = engine /\ engine \in Engines
        BY <3>3, <3>4, Answered DEF AckInv, OneEngine
      <4>2. Position(b) \in 1..MaxRequests /\ <<b, Position(b)>> \in Hashes
        BY <3>1, <3>3, AckReply DEF Hashes
      <4>3. indexed \in [Engines -> [Hashes -> IndexEntries]]
        BY Answered DEF AckInv
      <4>4. /\ indexed'[engine][<<b, Position(b)>>] # "none"
            /\ \A h \in Hashes :
                 h # <<b, Position(b)>> => indexed'[engine][h] = indexed[engine][h]
        BY <3>2, <4>1, <4>2, <4>3
      <4> SUFFICES ASSUME NEW c \in Batches, NEW i \in DOMAIN replies'[c],
                          Told(c, i, SendMethods)'
                   PROVE  i \in 1..MaxRequests /\ indexed'[engine][<<c, i>>] # "none"
        BY <3>3 DEF AcknowledgedIndexed
      <4>5. CASE c = b /\ i = Position(b)
        BY <4>2, <4>4, <4>5
      <4>6. CASE ~(c = b /\ i = Position(b))
        <5>1. i \in DOMAIN replies[c] /\ replies'[c][i] = replies[c][i]
          BY <3>1, <3>3, <4>6, AckReply
        <5>2. Told(c, i, SendMethods)
          BY <3>3, <5>1 DEF Told
        <5>3. i \in 1..MaxRequests /\ indexed[engine][<<c, i>>] # "none"
          BY <3>4, <5>1, <5>2 DEF AckInv, AcknowledgedIndexed
        <5>4. <<c, i>> \in Hashes /\ <<c, i>> # <<b, Position(b)>>
          BY <4>6, <5>3 DEF Hashes
        <5> QED BY <4>4, <5>3, <5>4
      <4> QED BY <4>5, <4>6
    <3> QED BY <3>1, <3>3, <3>4, AckReply
  <2> QED BY <2>1, <2>2, <2>3, <2>4 DEF Goes
<1> QED BY <1>1, <1>2, <1>3 DEF Next

\* Of the lookups only those the engine has not indexed are forwarded.
LEMMA LookupForwards ==
  ASSUME ClockInv, [Next]_vars, NEW b \in Batches, Forwards(b, LookupMethods)
  PROVE  Entry(b) = "none"
<1>1. /\ phase[b] = "running" /\ phase'[b] = "forwarding"
      /\ Current(b).method \in LookupMethods
      /\ phase \in [Batches -> BatchPhases]
  BY DEF Forwards, ClockInv, TypeOK, ProviderTypeOK
<1>2. PICK c \in Batches : Provide(c) \/ Handle(c)
  BY <1>1 DEF Next, vars, providerVars
<1>3. c = b
  <2>1. \E ph \in BatchPhases : phase' = [phase EXCEPT ![c] = ph]
    <3>1. CASE Provide(c)
      BY <3>1 DEF Provide, Send, EngineCreated, EngineCreationFails, Drain, Started,
                  BatchPhases
    <3>2. CASE Handle(c)
      <4>1. Goes(c)
        BY <3>2, HandleGoes
      <4> QED
        BY <4>1 DEF Goes, MovesOn, AnswersOther, AnswersSend, Answer, Answering,
                    Executing, BatchPhases
    <3> QED BY <1>2, <3>1, <3>2
  <2> QED BY <1>1, <2>1
<1>4. ~Provide(b)
  BY <1>1 DEF Provide, Send, EngineCreated, EngineCreationFails, Drain
<1>5. Handle(b)
  BY <1>2, <1>3, <1>4
<1>6. \A reply : ~Answer(b, reply)
  BY <1>1 DEF Answer
<1>7. ~Reject(b)
  BY <1>1 DEF Reject
<1>8. EthGetTransactionReceipt(b) \/ EthGetTransactionByHash(b)
  <2>1. Current(b).method \in {"eth_getTransactionReceipt", "eth_getTransactionByHash"}
    BY <1>1 DEF LookupMethods
  <2>2. /\ ~InvalidParams(b) /\ ~EthGetTransactionByFailure(b)
        /\ ~PreparationFails(b) /\ ~EndTransaction(b)
    BY <1>6, <1>7 DEF InvalidParams, EthGetTransactionByFailure, PreparationFails,
                      EndTransaction, Error, Result
  <2>3. ~TransactionThrows(b) /\ ~Forwarded(b) /\ ~BeginBlock(b)
    BY <1>1, <1>7 DEF TransactionThrows, Forwarded, BeginBlock
  <2>4. ~Unsupported(b) /\ ~EthBlockNumber(b)
    BY <2>1 DEF Unsupported, EthBlockNumber, Valid, At
  <2>5. ~EthCallOrEstimate(b) /\ ~EthGetState(b)
    BY <2>1
     DEF EthCallOrEstimate, EthGetState, EthGetBalance,
         EthGetCodeOrStorageAt, EthGetTransactionCount, StateRead,
         Valid, At
  <2>6. ~EthGetByBlockHash(b) /\ ~EthGetTransactionByBlockHashAndIndex(b)
    BY <2>1
     DEF EthGetByBlockHash, EthGetBlockByHash,
         EthGetBlockTransactionCountByHash, GenesisRead,
         EthGetTransactionByBlockHashAndIndex, Valid, At
  <2>7. ~EthGetBlockByNumber(b) /\ ~EthGetByBlockNumber(b)
    BY <2>1
     DEF EthGetBlockByNumber, EthGetByBlockNumber,
         EthGetBlockTransactionCountByNumber,
         EthGetTransactionByBlockNumberAndIndex, LaterBlockRead,
         Valid, At
  <2>8. ~BeginTransaction(b)
    BY <2>1 DEF BeginTransaction, Valid, At, SendMethods
  <2> QED BY <1>5, <2>2, <2>3, <2>4, <2>5, <2>6, <2>7, <2>8 DEF Handle
<1> QED
  BY <1>6, <1>7, <1>8 DEF EthGetTransactionReceipt, EthGetTransactionByHash,
                          BlockOfTransaction, InventBlock, ReceiptThrows, Result

\* The hash of a request is a batch and a place in it.
LEMMA HashParts ==
  ASSUME NEW h \in Hashes \union {NoHash}, h # NoHash
  PROVE  /\ h[1] \in Batches /\ h[2] \in 1..MaxRequests
         /\ h = <<h[1], h[2]>>
  BY DEF Hashes

\* Where clients leave the provider alone while it creates its engine, no
\* transaction the simulation has acknowledged is ever looked for on the real
\* chain, however their batches overlap afterwards.
THEOREM AcknowledgedAlwaysLocal ==
  ASSUME StartAlone
  PROVE  Spec => AcknowledgedStaysLocal
<1>1. AckInv /\ [Next]_vars =>
        [\A b \in Batches :
           Forwards(b, LookupMethods) => ~Acknowledged(Current(b).hash)]_vars
  <2> SUFFICES ASSUME AckInv, [Next]_vars, NEW b \in Batches,
                      Forwards(b, LookupMethods),
                      Acknowledged(Current(b).hash)
               PROVE  FALSE
    OBVIOUS
  <2> DEFINE h == Current(b).hash
  <2>1. Entry(b) = "none"
    BY LookupForwards DEF AckInv
  <2>2. h \in Hashes \union {NoHash}
    <3>1. /\ replies[b] \in Seq(Reply) /\ payload[b] \in Seq(Payload)
          /\ Len(replies[b]) < Len(payload[b])
      BY DEF Forwards, AckInv, ClockInv, TypeOK, ProviderTypeOK, RequestsLeft, Answering
    <3>2. Current(b) \in Payload
      BY <3>1 DEF Current, Position
    <3> QED BY <3>2, ApiAssumption
  <2>3. h # NoHash /\ Told(h[1], h[2], SendMethods)
    BY DEF Acknowledged
  <2>4. h[1] \in Batches /\ h = <<h[1], h[2]>>
    BY <2>2, <2>3, HashParts
  <2>5. h[2] \in DOMAIN replies[h[1]]
    BY <2>3 DEF Told
  <2>6. indexed[engine][<<h[1], h[2]>>] # "none"
    BY <2>3, <2>4, <2>5 DEF AckInv, AcknowledgedIndexed
  <2> QED BY <2>1, <2>4, <2>6 DEF Entry
<1>2. Spec => [][\A b \in Batches :
                   Forwards(b, LookupMethods) => ~Acknowledged(Current(b).hash)]_vars
  BY <1>1, AckInit, AckNext, PTL DEF Spec
<1> QED BY <1>2 DEF AcknowledgedStaysLocal

=============================================================================
