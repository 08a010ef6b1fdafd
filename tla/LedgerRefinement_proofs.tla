---------------------- MODULE LedgerRefinement_proofs ----------------------
(***************************************************************************)
(* Used by careful callers, the engine implements Ledger, for every set of *)
(* requests, accounts and workload and every bundle length.                *)
(***************************************************************************)
EXTENDS SimulationEngine_proofs

(***************************************************************************)
(* One request at a time.                                                  *)
(***************************************************************************)

\* A section of the request is open or restoring code.
Working(r) ==
  \E i \in 0..MaxBundle : phase[<<r, i>>] \in OpenPhases \union {"restoring"}

\* A transaction of the request is still to have its gas estimated.
Estimating(r) ==
  \E i \in 1..MaxBundle :
    /\ prep[r][i] \in {"nonce", "populate", "estimate"}
    /\ Estimates(request[r].txs[i])

\* Something of the request is still to come that touches the world or answers.
\* Not so the preparation, once the bundle is rejected, of a transaction that is
\* not estimated.
Active(r) == Outstanding(r) \/ Working(r) \/ Estimating(r)

OneActive == \A q, r \in Requests : Active(q) /\ Active(r) => q = r

\* A step does not touch what belongs to request r, but to prepare such a
\* transaction.
LeavesAlone(r) ==
  /\ request'[r] = request[r]
  /\ answer'[r] = answer[r]
  /\ \A i \in 1..MaxBundle :
       prep'[r][i] = prep[r][i] \/ ~Estimates(request[r].txs[i])
  /\ \A i \in 0..MaxBundle :
       /\ phase'[<<r, i>>] = phase[<<r, i>>]
       /\ results'[<<r, i>>] = results[<<r, i>>]
       /\ threw'[<<r, i>>] = threw[<<r, i>>]

\* A transaction waits for its estimate only where it has one.
EstimatesFit ==
  \A r \in Requests, i \in 1..MaxBundle :
    prep[r][i] = "estimate" => Estimates(request[r].txs[i])

\* Where no transaction is estimated beside another, no estimate of a request
\* is still to come once it has been answered.
Attended == \A r \in Requests : answer[r] # "none" => ~Estimating(r)

\* What one request at a time rests on.
Alone == OneActive /\ EstimatesFit /\ (EstimatesAlone => Attended)

\* The types a frame rests on.
LEMMA Types ==
  ASSUME IInv
  PROVE  /\ request \in [Requests -> Workload \union {NoRequest}]
         /\ prep \in [Requests -> [1..MaxBundle -> PrepStates]]
         /\ phase \in [Sections -> Phases]
         /\ results \in [Sections -> Seq(Outcomes)]
         /\ threw \in [Sections -> BOOLEAN]
         /\ answer \in [Requests -> Answers]
         /\ seen \in [Requests -> SUBSET Effect]
         /\ \A r \in Requests, i \in 0..MaxBundle : <<r, i>> \in Sections
  BY DEF IInv, TypeInv, TypeOK, Sections

\* A transaction that no answer waits for is prepared, or fails to be.
Strays ==
  /\ UNCHANGED <<stateVars, request, phase, results, threw, answer, seen>>
  /\ \A r \in Requests : LeavesAlone(r)

\* A step of one request is taken where it is active, and leaves others alone.
LEMMA PrepareAlone ==
  ASSUME IInv, NEW q \in Requests, Prepare(q)
  PROVE  \/ Active(q) /\ \A r \in Requests : r # q => LeavesAlone(r)
         \/ Strays
<1> PICK i \in 1..MaxBundle : ReadNonce(q, i) \/ Populated(q, i) \/ PrepareFails(q, i)
  BY DEF Prepare
<1>1. /\ prep[q][i] \in {"nonce", "populate"} /\ request[q].kind = "bundle"
      /\ Asked(q)
  <2>1. prep[q][i] \in {"nonce", "populate"}
    BY DEF ReadNonce, Populated, PrepareFails
  <2>2. request[q].kind = "bundle"
    BY <2>1 DEF IInv, TypeInv, PrepFits
  <2> QED
    BY <2>1, <2>2 DEF Asked, NoRequest
<1>2. /\ \E p : prep' = [prep EXCEPT ![q][i] = p]
      /\ UNCHANGED answer \/ answer' = [answer EXCEPT ![q] = "rejected"]
      /\ UNCHANGED phase \/ phase' = [phase EXCEPT ![<<q, i>>] = "running"]
      /\ UNCHANGED <<request, results, threw>>
  BY DEF ReadNonce, Populated, PrepareFails, RejectFirst, OpenSection
<1>3. <<q, i>> \in Sections
  BY Types
<1>4. \A r \in Requests : r # q => LeavesAlone(r)
  BY <1>2, <1>3, Types DEF LeavesAlone
<1>5. CASE answer[q] = "none" \/ Estimates(request[q].txs[i])
  BY <1>1, <1>4, <1>5 DEF Active, Outstanding, Estimating
<1>6. CASE answer[q] # "none" /\ ~Estimates(request[q].txs[i])
  <2>1. UNCHANGED <<stateVars, request, phase, results, threw, answer, seen>>
    BY <1>6 DEF ReadNonce, Populated, PrepareFails, RejectFirst
  <2>2. LeavesAlone(q)
    BY <1>2, <1>6, <2>1, Types DEF LeavesAlone
  <2> QED
    BY <1>4, <2>1, <2>2 DEF Strays
<1> QED
  BY <1>5, <1>6

LEMMA RequestStepAlone ==
  ASSUME IInv, NEW q \in Requests, RequestStep(q)
  PROVE  Active(q) /\ \A r \in Requests : r # q => LeavesAlone(r)
<1>1. Main(q) \in Sections /\ Main(q) = <<q, 0>> /\ 0 \in 0..MaxBundle
  BY MainIsSection, EngineAssumption DEF Main
<1>2. CASE SetStateLands(q) \/ SetStateFails(q)
  <2>1. Active(q)
    BY <1>2 DEF SetStateLands, SetStateFails, Active, Outstanding, Asked, NoRequest
  <2> QED
    BY <1>2, <2>1, Types DEF SetStateLands, SetStateFails, LeavesAlone
<1>3. CASE StartExecution(q)
  <2>1. Active(q)
    BY <1>3 DEF StartExecution, Active, Outstanding, Asked, NoRequest
  <2> QED
    BY <1>1, <1>3, <2>1, Types DEF StartExecution, OpenSection, LeavesAlone
<1>4. CASE BeginBlock(q) \/ NoLastBlock(q)
  <2>1. Active(q)
    BY <1>1, <1>4 DEF BeginBlock, NoLastBlock, Active, Working, OpenPhases
  <2> QED
    BY <1>1, <1>4, <2>1, Types DEF BeginBlock, NoLastBlock, Throw, LeavesAlone
<1> QED
  BY <1>2, <1>3, <1>4 DEF RequestStep

LEMMA SectionStepAlone ==
  ASSUME IInv, NEW s \in Sections, SectionStep(s)
  PROVE  /\ Active(Owner(s))
         /\ \A r \in Requests : r # Owner(s) => LeavesAlone(r)
<1>1. /\ Owner(s) \in Requests /\ Index(s) \in 0..MaxBundle
      /\ s = <<Owner(s), Index(s)>>
  BY SectionParts
<1>2. phase[s] \in OpenPhases \union {"restoring"}
  BY DEF SectionStep, EnterRun, RunCall, RunTransaction, SectionThrows, RunThrows,
         RunThrown, ReturnResults, CommitSection, RevertSection, RestoreCode, FinishRevert,
         Restoring, OpenPhases
<1>3. Active(Owner(s))
  BY <1>1, <1>2 DEF Active, Working
<1>4. /\ UNCHANGED request
      /\ UNCHANGED phase \/ \E ph : phase' = [phase EXCEPT ![s] = ph]
      /\ UNCHANGED results \/ \E o : results' = [results EXCEPT ![s] = Append(@, o)]
      /\ UNCHANGED threw \/ threw' = [threw EXCEPT ![s] = TRUE]
      /\ UNCHANGED prep \/ \E p : prep' = [prep EXCEPT ![Owner(s)][Index(s)] = p]
      /\ UNCHANGED answer \/ \E a : answer' = [answer EXCEPT ![Owner(s)] = a]
  BY DEF SectionStep, EnterRun, RunCall, RunTransaction, Ran, SectionThrows, RunThrows, Throw,
         RunThrown, ReturnResults, CommitSection, RevertSection, RestoreCode, FinishRevert,
         RejectFirst
<1> SUFFICES ASSUME NEW r \in Requests, r # Owner(s)
             PROVE  LeavesAlone(r)
  BY <1>3
<1>5. \A i \in 0..MaxBundle : <<r, i>> \in Sections /\ <<r, i>> # s
  BY <1>1, Types
<1> QED
  BY <1>1, <1>4, <1>5, Types DEF LeavesAlone

\* An answered request has no section open, unless an estimate outlives it.
LEMMA AnsweredRests ==
  ASSUME IInv, EstimatesFit, NEW r \in Requests, answer[r] # "none", ~Estimating(r)
  PROVE  ~Active(r)
<1>1. ASSUME NEW i \in 0..MaxBundle
      PROVE  phase[<<r, i>>] \notin OpenPhases \union {"restoring"}
  <2>1. CASE i = 0
    BY <2>1 DEF IInv, AnswerFits, AnswerFitsFor, Main, OpenPhases
  <2>2. CASE i # 0
    <3>1. i \in 1..MaxBundle
      BY <2>2
    <3>2. prep[r][i] # "estimate"
      BY <3>1 DEF EstimatesFit, Estimating
    <3> QED
      BY <3>1, <3>2 DEF IInv, TypeInv, PrepFits, OpenPhases
  <2> QED
    BY <2>1, <2>2
<1> QED
  BY <1>1 DEF Active, Working, Outstanding

\* A request that was not made does nothing.
LEMMA NotAsked ==
  ASSUME IInv, NEW r \in Requests, request[r] = NoRequest
  PROVE  ~Working(r) /\ ~Estimating(r)
<1>1. request[r].kind = "none"
  BY DEF NoRequest
<1>2. phase[Main(r)] = "idle"
  BY <1>1 DEF IInv, AnswerFits, AnswerFitsFor
<1>3. \A i \in 1..MaxBundle : prep[r][i] = "none" /\ phase[<<r, i>>] \in {"idle", "closed"}
  BY <1>1 DEF IInv, TypeInv, PrepFits
<1>4. ~Working(r)
  <2> SUFFICES ASSUME NEW i \in 0..MaxBundle
               PROVE  phase[<<r, i>>] \notin OpenPhases \union {"restoring"}
    BY DEF Working
  <2>1. CASE i = 0
    BY <1>2, <2>1 DEF Main, OpenPhases
  <2>2. CASE i # 0
    <3>1. i \in 1..MaxBundle
      BY <2>2
    <3> QED
      BY <1>3, <3>1 DEF OpenPhases
  <2> QED
    BY <2>1, <2>2
<1>5. ~Estimating(r)
  BY <1>3 DEF Estimating
<1> QED
  BY <1>4, <1>5

\* A request is made where none is active.
LEMMA SubmitAlone ==
  ASSUME IInv, Alone, Careful, NEW q \in Requests, Submit(q)
  PROVE  /\ \A r \in Requests : ~Active(r)
         /\ \A r \in Requests : r # q => LeavesAlone(r)
<1> PICK d \in Workload :
      \/ Call(q, d) \/ CallWithoutTo(q, d) \/ EstimateGas(q, d)
      \/ ExecuteTyped(q, d) \/ ExecuteBundle(q, d) \/ SetState(q, d)
  BY DEF Submit
<1>1. Ask(q, d)
  BY DEF Call, CallWithoutTo, EstimateGas, ExecuteTyped, ExecuteBundle, SetState
<1>2. \A r \in Requests : ~Active(r)
  <2>1. CASE Admission = "exclusive"
    <3>1. \A r \in Requests : ~Busy(r) /\ ~Outstanding(r)
      BY <1>1, <2>1 DEF Ask, Admitted
    <3> QED
      BY <3>1 DEF Active, Busy, Working, Estimating
  <2>2. CASE Admission = "awaited" /\ EstimatesAlone
    <3> SUFFICES ASSUME NEW r \in Requests PROVE ~Active(r)
      OBVIOUS
    <3>1. ~Outstanding(r)
      BY <1>1, <2>2 DEF Ask, Admitted
    <3>2. CASE answer[r] # "none"
      BY <2>2, <3>2, AnsweredRests DEF Alone, Attended
    <3>3. CASE answer[r] = "none"
      BY <3>1, <3>3, NotAsked DEF Outstanding, Asked, Active
    <3> QED
      BY <3>2, <3>3
  <2> QED
    BY <2>1, <2>2 DEF Careful
<1>3. /\ request' = [request EXCEPT ![q] = d]
      /\ UNCHANGED phase \/ \E ph : phase' = [phase EXCEPT ![<<q, 0>>] = ph]
      /\ UNCHANGED prep \/ \E p : prep' = [prep EXCEPT ![q] = p]
      /\ UNCHANGED answer \/ answer' = [answer EXCEPT ![q] = "rejected"]
      /\ UNCHANGED <<results, threw>>
  BY DEF Call, CallWithoutTo, EstimateGas, ExecuteTyped, ExecuteBundle, SetState, Ask,
         OpenSection, Main
<1> QED
  BY <1>2, <1>3, Types DEF LeavesAlone

\* A request left alone is as active as before.
LEMMA AloneKept ==
  ASSUME NEW r \in Requests, LeavesAlone(r)
  PROVE  Active(r)' <=> Active(r)
<1>1. Working(r)' <=> Working(r)
  BY DEF LeavesAlone, Working, OpenPhases
<1>2. Outstanding(r)' <=> Outstanding(r)
  BY DEF LeavesAlone, Outstanding, Asked
<1>3. Estimating(r)' <=> Estimating(r)
  BY DEF LeavesAlone, Estimating, Estimates
<1> QED
  BY <1>1, <1>2, <1>3 DEF Active

\* Who takes a step: some request, which is alone.
Actor(q) ==
  /\ \A r \in Requests : r # q => LeavesAlone(r) /\ ~Active(r)
  /\ \/ Submit(q) /\ ~Active(q)
     \/ Prepare(q) \/ RequestStep(q)
     \/ \E s \in Sections : Owner(s) = q /\ SectionStep(s)

LEMMA SomeActor ==
  ASSUME IInv, Alone, Careful, Next
  PROVE  Strays \/ \E q \in Requests : Actor(q)
<1>1. ASSUME NEW q \in Requests, Submit(q) PROVE Actor(q)
  BY <1>1, SubmitAlone DEF Actor
<1>2. ASSUME NEW q \in Requests, Prepare(q) \/ RequestStep(q) PROVE Strays \/ Actor(q)
  BY <1>2, PrepareAlone, RequestStepAlone DEF Actor, Alone, OneActive
<1>3. ASSUME NEW s \in Sections, SectionStep(s) PROVE Owner(s) \in Requests /\ Actor(Owner(s))
  BY <1>3, SectionParts, SectionStepAlone DEF Actor, Alone, OneActive
<1> QED
  BY <1>1, <1>2, <1>3 DEF Next, Continue

\* How a step moves the preparation of a transaction.
LEMMA PrepMoves ==
  ASSUME IInv, Next, NEW r \in Requests, NEW i \in 1..MaxBundle,
         prep'[r][i] \in {"nonce", "populate", "estimate"}
  PROVE  \/ /\ request[r] = NoRequest /\ UNCHANGED answer
            /\ prep'[r][i] = "nonce"
         \/ /\ request'[r] = request[r]
            /\ prep[r][i] \in {"nonce", "populate", "estimate"}
            /\ prep'[r][i] = "estimate" =>
                 prep[r][i] = "estimate" \/ Estimates(request[r].txs[i])
<1>1. ASSUME NEW q \in Requests, Submit(q)
      PROVE  \/ /\ request[r] = NoRequest /\ UNCHANGED answer
                /\ prep'[r][i] = "nonce"
             \/ request'[r] = request[r] /\ prep'[r][i] = prep[r][i]
  <2> PICK d \in Workload :
        \/ Call(q, d) \/ CallWithoutTo(q, d) \/ EstimateGas(q, d)
        \/ ExecuteTyped(q, d) \/ ExecuteBundle(q, d) \/ SetState(q, d)
    BY <1>1 DEF Submit
  <2>1. request[q] = NoRequest /\ request' = [request EXCEPT ![q] = d]
    BY DEF Call, CallWithoutTo, EstimateGas, ExecuteTyped, ExecuteBundle, SetState, Ask, Asked
  <2>2. CASE ExecuteBundle(q, d)
    BY <2>1, <2>2, Types DEF ExecuteBundle
  <2>3. CASE ~ExecuteBundle(q, d)
    <3>1. UNCHANGED prep
      BY <2>3 DEF Call, CallWithoutTo, EstimateGas, ExecuteTyped, SetState
    <3>2. request[r].kind = "bundle"
      BY <3>1 DEF IInv, TypeInv, PrepFits
    <3>3. r # q
      BY <2>1, <3>2 DEF NoRequest
    <3> QED
      BY <2>1, <3>1, <3>3, Types
  <2> QED
    BY <2>2, <2>3
<1>2. ASSUME NEW q \in Requests, NEW j \in 1..MaxBundle,
             ReadNonce(q, j) \/ Populated(q, j) \/ PrepareFails(q, j)
      PROVE  /\ request'[r] = request[r]
             /\ prep[r][i] \in {"nonce", "populate", "estimate"}
             /\ prep'[r][i] = "estimate" =>
                  prep[r][i] = "estimate" \/ Estimates(request[r].txs[i])
  <2>1. CASE ReadNonce(q, j)
    BY <2>1, Types DEF ReadNonce
  <2>2. CASE Populated(q, j)
    <3>1. PICK p \in {"ready", "estimate"} :
            /\ prep[q][j] = "populate" /\ prep' = [prep EXCEPT ![q][j] = p]
            /\ p = "estimate" => Estimates(request[q].txs[j])
            /\ UNCHANGED request
      BY <2>2 DEF Populated
    <3>2. CASE q = r /\ j = i
      BY <3>1, <3>2, Types
    <3>3. CASE ~(q = r /\ j = i)
      <4>1. prep'[r][i] = prep[r][i]
        BY <3>1, <3>3, Types
      <4> QED
        BY <3>1, <4>1
    <3> QED
      BY <3>2, <3>3
  <2>3. CASE PrepareFails(q, j)
    BY <2>3, Types DEF PrepareFails
  <2> QED
    BY <1>2, <2>1, <2>2, <2>3
<1>3. ASSUME NEW q \in Requests, RequestStep(q)
      PROVE  UNCHANGED <<request, prep>>
  BY <1>3 DEF RequestStep, SetStateLands, SetStateFails, StartExecution, BeginBlock,
              NoLastBlock, Throw
<1>4. ASSUME NEW s \in Sections, SectionStep(s)
      PROVE  /\ UNCHANGED request
             /\ \/ UNCHANGED prep
                \/ \E p \in {"failed", "ready"} : prep' = [prep EXCEPT ![Owner(s)][Index(s)] = p]
  BY <1>4 DEF SectionStep, EnterRun, RunCall, RunTransaction, Ran, SectionThrows, RunThrows,
         Throw, RunThrown, ReturnResults, CommitSection, RevertSection, RestoreCode, FinishRevert
<1>5. ASSUME NEW s \in Sections, SectionStep(s)
      PROVE  request'[r] = request[r] /\ prep'[r][i] = prep[r][i]
  <2>1. Owner(s) \in Requests /\ prep \in [Requests -> [1..MaxBundle -> PrepStates]]
    BY SectionParts, Types
  <2>2. CASE UNCHANGED prep
    BY <1>4, <1>5, <2>2
  <2>3. ASSUME NEW p \in {"failed", "ready"},
               prep' = [prep EXCEPT ![Owner(s)][Index(s)] = p]
        PROVE  prep'[r][i] = prep[r][i]
    <3>1. CASE r = Owner(s) /\ i = Index(s)
      BY <2>1, <2>3, <3>1
    <3>2. CASE ~(r = Owner(s) /\ i = Index(s))
      BY <2>1, <2>3, <3>2
    <3> QED
      BY <3>1, <3>2
  <2> QED
    BY <1>4, <1>5, <2>2, <2>3
<1> QED
  BY <1>1, <1>2, <1>3, <1>5 DEF Next, Continue, Prepare

LEMMA EstimatesFitNext ==
  ASSUME IInv, EstimatesFit, Next
  PROVE  EstimatesFit'
<1> SUFFICES ASSUME NEW r \in Requests, NEW i \in 1..MaxBundle, prep'[r][i] = "estimate"
             PROVE  Estimates(request'[r].txs[i])
  BY DEF EstimatesFit, Estimates
<1> QED
  BY PrepMoves DEF EstimatesFit

\* What answers a bundle whose only transaction is estimated ends the estimate.
LEMMA AnswerEnds ==
  ASSUME IInv, Next, NEW r \in Requests, answer[r] = "none", answer'[r] # "none",
         Estimating(r)', EstimatesAlone
  PROVE  FALSE
<1> PICK i \in 1..MaxBundle :
      /\ prep'[r][i] \in {"nonce", "populate", "estimate"}
      /\ Estimates(request'[r].txs[i])
  BY DEF Estimating, Estimates
<1>1. /\ request'[r] = request[r] /\ prep[r][i] \in {"nonce", "populate", "estimate"}
      /\ Estimates(request[r].txs[i])
  BY PrepMoves
<1>2. request[r].kind = "bundle" /\ i \in DOMAIN request[r].txs
  BY <1>1 DEF IInv, TypeInv, PrepFits
<1>3. request[r] \in Workload /\ request[r].txs \in Seq(Tx)
  BY <1>2, Types, RequestTxs DEF NoRequest
<1>4. DOMAIN request[r].txs = {1} /\ i = 1
  <2>1. Len(request[r].txs) = 1
    BY <1>1, <1>2, <1>3 DEF EstimatesAlone
  <2> QED
    BY <1>2, <1>3, <2>1
<1>5. ASSUME NEW j \in 1..MaxBundle, prep[r][j] # "none" PROVE j = i
  BY <1>2, <1>4, <1>5 DEF IInv, TypeInv, PrepFits
<1>6. phase[Main(r)] = "idle"
  BY <1>1, <1>2 DEF IInv, AnswerFits, AnswerFitsFor
<1>7. ASSUME NEW q \in Requests, Submit(q) PROVE FALSE
  <2> PICK d \in Workload :
        \/ Call(q, d) \/ CallWithoutTo(q, d) \/ EstimateGas(q, d)
        \/ ExecuteTyped(q, d) \/ ExecuteBundle(q, d) \/ SetState(q, d)
    BY <1>7 DEF Submit
  <2>1. request[q] = NoRequest
    BY DEF Call, CallWithoutTo, EstimateGas, ExecuteTyped, ExecuteBundle, SetState, Ask, Asked
  <2>2. UNCHANGED answer \/ answer' = [answer EXCEPT ![q] = "rejected"]
    BY DEF Call, CallWithoutTo, EstimateGas, ExecuteTyped, ExecuteBundle, SetState
  <2>3. r # q
    BY <1>2, <2>1 DEF NoRequest
  <2> QED
    BY <2>2, <2>3, Types
<1>8. ASSUME NEW q \in Requests, NEW j \in 1..MaxBundle,
             ReadNonce(q, j) \/ Populated(q, j) \/ PrepareFails(q, j)
      PROVE  FALSE
  <2>1. PrepareFails(q, j) /\ q = r
    BY <1>8, Types DEF ReadNonce, Populated, PrepareFails, RejectFirst
  <2>2. j = i
    BY <1>5, <2>1 DEF PrepareFails
  <2>3. prep'[r][i] = "failed"
    BY <2>1, <2>2, Types DEF PrepareFails
  <2> QED
    BY <2>3
<1>9. ASSUME NEW q \in Requests, RequestStep(q) PROVE FALSE
  <2>1. SetStateLands(q) \/ SetStateFails(q) \/ UNCHANGED answer
    BY <1>9 DEF RequestStep, StartExecution, BeginBlock, NoLastBlock, Throw
  <2>2. request[q].kind = "set" /\ \E a : answer' = [answer EXCEPT ![q] = a]
    BY <2>1 DEF SetStateLands, SetStateFails
  <2>3. q # r
    BY <1>2, <2>2
  <2> QED
    BY <2>2, <2>3, Types
<1>10. ASSUME NEW s \in Sections, SectionStep(s) PROVE FALSE
  <2>1. \/ CommitSection(s) \/ FinishRevert(s)
        \/ UNCHANGED answer
    BY <1>10 DEF SectionStep, EnterRun, RunCall, RunTransaction, Ran, SectionThrows, RunThrows,
         Throw, RunThrown, ReturnResults, RevertSection, RestoreCode
  <2>2. /\ Owner(s) = r /\ phase[s] \notin {"idle", "closed"}
        /\ CommitSection(s) \/ FinishRevert(s)
    BY <2>1, Types DEF CommitSection, FinishRevert, RejectFirst
  <2>3. ~IsMain(s)
    BY <1>6, <2>2, SectionParts DEF IsMain, Main
  <2>4. Index(s) \in 1..MaxBundle /\ s = <<r, Index(s)>>
    BY <2>2, <2>3, SectionParts DEF IsMain
  <2>5. prep[r][Index(s)] = "estimate"
    BY <2>2, <2>4 DEF IInv, TypeInv, PrepFits
  <2>6. Index(s) = i
    BY <1>5, <2>4, <2>5
  <2>7. FinishRevert(s)
    BY <2>2, <2>3 DEF CommitSection, Commits, Executes
  <2>8. \E p \in {"failed", "ready"} : prep' = [prep EXCEPT ![r][i] = p]
    BY <2>2, <2>3, <2>6, <2>7 DEF FinishRevert
  <2>9. prep'[r][i] \in {"failed", "ready"}
    BY <2>8, Types
  <2> QED
    BY <2>9
<1> QED
  BY <1>7, <1>8, <1>9, <1>10 DEF Next, Continue, Prepare

LEMMA AttendedNext ==
  ASSUME IInv, EstimatesAlone, Attended, Next
  PROVE  Attended'
<1> SUFFICES ASSUME NEW r \in Requests, answer'[r] # "none"
             PROVE  ~Estimating(r)'
  BY DEF Attended
<1>1. CASE answer[r] = "none"
  BY <1>1, AnswerEnds
<1>2. CASE answer[r] # "none"
  <2> SUFFICES ASSUME NEW i \in 1..MaxBundle,
                      prep'[r][i] \in {"nonce", "populate", "estimate"},
                      Estimates(request'[r].txs[i])
               PROVE  FALSE
    BY DEF Estimating, Estimates
  <2>1. request[r] # NoRequest
    BY <1>2 DEF IInv, AnswerFits, AnswerFitsFor, NoRequest
  <2>2. Estimating(r)
    BY <2>1, PrepMoves DEF Estimating
  <2> QED
    BY <1>2, <2>2 DEF Attended
<1> QED
  BY <1>1, <1>2

LEMMA AloneNext ==
  ASSUME IInv, Alone, Careful, Next
  PROVE  Alone'
<1>1. OneActive'
  <2>1. CASE Strays
    BY <2>1, AloneKept DEF Strays, Alone, OneActive
  <2>2. CASE \E q \in Requests : Actor(q)
    BY <2>2, AloneKept DEF Actor, Alone, OneActive
  <2> QED
    BY <2>1, <2>2, SomeActor
<1>2. EstimatesFit'
  BY EstimatesFitNext DEF Alone
<1>3. EstimatesAlone => Attended'
  BY AttendedNext DEF Alone
<1> QED
  BY <1>1, <1>2, <1>3 DEF Alone, EstimatesAlone, Estimates

(***************************************************************************)
(* While a section of a request's own is open, it is the only one.         *)
(***************************************************************************)

LEMMA OnlySection ==
  ASSUME IInv, OneActive, NEW r \in Requests, phase[Main(r)] \in OpenPhases
  PROVE  OpenSections = {Main(r)}
<1>1. ASSUME NEW i \in 1..MaxBundle PROVE phase[<<r, i>>] \in {"idle", "closed"}
  <2>1. prep[r][i] # "estimate"
    BY DEF IInv, TypeInv, PrepFits, AnswerFits, AnswerFitsFor, OpenPhases
  <2> QED
    BY <2>1 DEF IInv, TypeInv, PrepFits
<1>2. ASSUME NEW s \in Sections, phase[s] \in OpenPhases PROVE s = Main(r)
  <2>1. /\ Owner(s) \in Requests /\ Index(s) \in 0..MaxBundle
        /\ s = <<Owner(s), Index(s)>> /\ 0 \in 0..MaxBundle
    BY SectionParts, EngineAssumption
  <2>2. Active(Owner(s)) /\ Active(r)
    BY <1>2, <2>1 DEF Active, Working, Main
  <2>3. Owner(s) = r
    BY <2>1, <2>2 DEF OneActive
  <2> QED
    BY <1>1, <1>2, <2>1, <2>3 DEF OpenPhases, Main
<1> QED
  BY <1>2, MainIsSection DEF OpenSections

\* Where no section is open there is no checkpoint.
LEMMA NoneOpen ==
  ASSUME IInv, OpenSections = {}
  PROVE  checkpoints = <<>>
<1>1. InsideSections = {}
  BY DEF InsideSections, OpenSections, OpenPhases
<1>2. Cardinality(OpenSections) = 0 /\ Cardinality(InsideSections) = 0
  BY <1>1, FS_EmptySet
<1>3. Len(checkpoints) = 0 /\ checkpoints \in Seq(Worlds)
  BY <1>2 DEF IInv, SectionsBalanced, TypeInv, StateInv
<1> QED
  BY <1>3, EmptySeq

\* Where one section is open and nothing runs in it there is one checkpoint.
LEMMA OneOpen ==
  ASSUME IInv, OneActive, NEW r \in Requests,
         phase[Main(r)] \in OpenPhases \ {"inside"}
  PROVE  Len(checkpoints) = 1 /\ checkpoints # <<>>
<1>1. OpenSections = {Main(r)}
  BY OnlySection
<1>2. InsideSections = {}
  BY <1>1 DEF InsideSections, OpenSections, OpenPhases
<1>3. Cardinality(OpenSections) = 1 /\ Cardinality(InsideSections) = 0
  BY <1>1, <1>2, FS_Singleton, FS_EmptySet
<1> QED
  BY <1>3 DEF IInv, SectionsBalanced

(***************************************************************************)
(* What the world holds while a request runs: the ledger, and on top of it *)
(* what the transactions run so far have done.                             *)
(***************************************************************************)

Done(s) == UNION {EffectsOf(s, i) : i \in DOMAIN results[s]}

WorldFits(s) ==
  /\ results[s] = <<>> => world = Base
  /\ Executes(s) /\ ~HasException(s) => world = Base \union Done(s)

RunFitsFor(r) ==
  /\ phase[Main(r)] \in {"idle", "head"} => results[Main(r)] = <<>>
  /\ phase[Main(r)] \in {"idle", "head", "running", "inside"} => ~threw[Main(r)]
  /\ phase[Main(r)] = "undoing" => threw[Main(r)]
  /\ phase[Main(r)] \in OpenPhases /\ ~threw[Main(r)] => WorldFits(Main(r))
  /\ phase[Main(r)] = "returning" /\ ~threw[Main(r)] => HasRun(Main(r))
  /\ phase[Main(r)] = "restoring" => ~Commits(Main(r))

RunFits == \A r \in Requests : RunFitsFor(r)

\* A step that tells nobody of a success leaves the ledger as it is.
LEMMA BaseStays ==
  ASSUME IInv, [Next]_vars,
         \A r \in Requests : answer[r] = "none" => answer'[r] # "ok"
  PROVE  Base' = Base
  BY BaseStep, SectionParts DEF BaseMoves

\* A request at rest stays as it is while another one takes a step.
LEMMA RunKept ==
  ASSUME NEW r \in Requests, RunFitsFor(r), LeavesAlone(r), 0 \in 0..MaxBundle,
         phase[Main(r)] \notin OpenPhases \union {"restoring"}
  PROVE  RunFitsFor(r)'
<1>1. /\ phase'[Main(r)] = phase[Main(r)] /\ Main(r)' = Main(r)
      /\ results'[Main(r)] = results[Main(r)] /\ threw'[Main(r)] = threw[Main(r)]
  BY DEF LeavesAlone, Main
<1> QED
  BY <1>1 DEF RunFitsFor, OpenPhases

\* Where a request's own section opens, the world is the ledger.
LEMMA OpeningFits ==
  ASSUME IInv, NEW r \in Requests, RunFitsFor(r), phase[Main(r)] = "idle",
         OpenSections = {}, NEW ph \in {"head", "running"}, OpenSection(Main(r), ph),
         UNCHANGED <<results, threw>>
  PROVE  RunFitsFor(r)'
<1>1. /\ phase'[Main(r)] = ph /\ Main(r)' = Main(r)
      /\ results'[Main(r)] = <<>> /\ ~threw'[Main(r)]
  BY Types, MainIsSection DEF OpenSection, RunFitsFor, Main
<1>2. checkpoints = <<>> /\ world \in Worlds /\ checkpoints \in Seq(Worlds)
  BY NoneOpen DEF IInv, TypeInv, StateInv
<1>3. world' = Base'
  BY <1>2, Push DEF OpenSection, Checkpoint, Base
<1>4. Done(Main(r))' = {}
  BY <1>1 DEF Done
<1>5. WorldFits(Main(r))'
  BY <1>1, <1>3, <1>4 DEF WorldFits
<1> QED
  BY <1>1, <1>5 DEF RunFitsFor

\* Where a request has no section open and no other is active, none is open.
LEMMA NobodyOpen ==
  ASSUME IInv, NEW q \in Requests,
         \A r \in Requests : r # q => ~Active(r),
         \A i \in 0..MaxBundle : phase[<<q, i>>] \notin OpenPhases
  PROVE  OpenSections = {}
<1> SUFFICES ASSUME NEW s \in Sections, phase[s] \in OpenPhases
             PROVE  FALSE
  BY DEF OpenSections
<1>1. Owner(s) \in Requests /\ Index(s) \in 0..MaxBundle /\ s = <<Owner(s), Index(s)>>
  BY SectionParts
<1>2. Active(Owner(s))
  BY <1>1 DEF Active, Working
<1> QED
  BY <1>1, <1>2

\* Making a request.
LEMMA RunSubmit ==
  ASSUME IInv, NEW q \in Requests, RunFitsFor(q), Submit(q),
         \A r \in Requests : ~Active(r)
  PROVE  RunFitsFor(q)'
<1> PICK d \in Workload :
      \/ Call(q, d) \/ CallWithoutTo(q, d) \/ EstimateGas(q, d)
      \/ ExecuteTyped(q, d) \/ ExecuteBundle(q, d) \/ SetState(q, d)
  BY DEF Submit
<1>1. phase[Main(q)] = "idle"
  <2>1. request[q] = NoRequest
    BY DEF Call, CallWithoutTo, EstimateGas, ExecuteTyped, ExecuteBundle, SetState, Ask, Asked
  <2> QED
    BY <2>1 DEF IInv, AnswerFits, AnswerFitsFor, NoRequest
<1>2. OpenSections = {}
  BY NobodyOpen DEF Active, Working
<1>3. UNCHANGED <<results, threw>>
  BY DEF Call, CallWithoutTo, EstimateGas, ExecuteTyped, ExecuteBundle, SetState
<1>4. CASE \E ph \in {"head", "running"} : OpenSection(Main(q), ph)
  BY <1>1, <1>2, <1>3, <1>4, OpeningFits
<1>5. CASE UNCHANGED phase
  BY <1>1, <1>3, <1>5 DEF RunFitsFor, Main, OpenPhases
<1> QED
  BY <1>4, <1>5
     DEF Call, CallWithoutTo, EstimateGas, ExecuteTyped, ExecuteBundle, SetState

\* While a transaction is being prepared the request's own section is idle.
LEMMA IdleWhilePreparing ==
  ASSUME IInv, NEW q \in Requests, NEW i \in 1..MaxBundle,
         prep[q][i] \notin {"none", "ready"}
  PROVE  phase[Main(q)] = "idle"
  BY DEF IInv, TypeInv, PrepFits, AnswerFits, AnswerFitsFor

\* A step that leaves the idle section of a request alone.
LEMMA IdleKept ==
  ASSUME NEW q \in Requests, RunFitsFor(q), phase[Main(q)] = "idle",
         phase'[Main(q)] = "idle",
         results'[Main(q)] = results[Main(q)], threw'[Main(q)] = threw[Main(q)]
  PROVE  RunFitsFor(q)'
<1>1. Main(q)' = Main(q)
  BY DEF Main
<1> QED
  BY <1>1 DEF RunFitsFor, OpenPhases

LEMMA RunPrepare ==
  ASSUME IInv, NEW q \in Requests, RunFitsFor(q), Prepare(q)
  PROVE  RunFitsFor(q)'
<1> PICK i \in 1..MaxBundle : ReadNonce(q, i) \/ Populated(q, i) \/ PrepareFails(q, i)
  BY DEF Prepare
<1>1. phase[Main(q)] = "idle"
  BY IdleWhilePreparing DEF ReadNonce, Populated, PrepareFails
<1>2. UNCHANGED phase \/ phase' = [phase EXCEPT ![<<q, i>>] = "running"]
  BY DEF ReadNonce, Populated, PrepareFails, OpenSection
<1>3. phase'[Main(q)] = "idle"
  BY <1>1, <1>2, Types, MainIsSection
<1>4. UNCHANGED <<results, threw>>
  BY DEF ReadNonce, Populated, PrepareFails
<1> QED
  BY <1>1, <1>3, <1>4, IdleKept

\* A setter, the start of an execution or of its block.
LEMMA RunRequestStep ==
  ASSUME IInv, NEW q \in Requests, RunFitsFor(q), RequestStep(q),
         \A r \in Requests : r # q => ~Active(r)
  PROVE  RunFitsFor(q)'
<1>1. CASE SetStateLands(q) \/ SetStateFails(q)
  <2>1. phase[Main(q)] = "idle"
    BY <1>1 DEF SetStateLands, SetStateFails, IInv, AnswerFits, AnswerFitsFor
  <2>2. UNCHANGED <<phase, results, threw>>
    BY <1>1 DEF SetStateLands, SetStateFails
  <2> QED
    BY <2>1, <2>2, IdleKept
<1>2. CASE StartExecution(q)
  <2>1. /\ phase[Main(q)] = "idle"
        /\ \A i \in DOMAIN request[q].txs : prep[q][i] = "ready"
        /\ UNCHANGED <<results, threw>>
        /\ \E ph \in {"head", "running"} : OpenSection(Main(q), ph)
    BY <1>2 DEF StartExecution
  <2>2. ASSUME NEW i \in 0..MaxBundle PROVE phase[<<q, i>>] \notin OpenPhases
    <3>1. CASE i = 0
      BY <2>1, <3>1 DEF Main, OpenPhases
    <3>2. CASE i # 0
      <4>1. i \in 1..MaxBundle
        BY <3>2
      <4>2. prep[q][i] # "estimate"
        BY <2>1, <4>1 DEF IInv, TypeInv, PrepFits
      <4> QED
        BY <4>1, <4>2 DEF IInv, TypeInv, PrepFits, OpenPhases
    <3> QED
      BY <3>1, <3>2
  <2>3. OpenSections = {}
    BY <2>2, NobodyOpen
  <2> QED
    BY <2>1, <2>3, OpeningFits
<1>3. CASE BeginBlock(q)
  <2>1. /\ phase[Main(q)] = "head" /\ phase'[Main(q)] = "running" /\ Main(q)' = Main(q)
        /\ UNCHANGED <<world, checkpoints, request, results, threw>>
    BY <1>3, Types, MainIsSection DEF BeginBlock, stateVars, Main
  <2>2. WorldFits(Main(q))
    BY <2>1 DEF RunFitsFor, OpenPhases
  <2>3. WorldFits(Main(q))'
    BY <2>1, <2>2
       DEF WorldFits, Base, Done, Executes, Kind, IsMain, Index, Owner, HasException
  <2> QED
    BY <2>1, <2>3 DEF RunFitsFor
<1>4. CASE NoLastBlock(q)
  <2>1. phase'[Main(q)] = "returning" /\ threw'[Main(q)] /\ Main(q)' = Main(q)
    BY <1>4, Types, MainIsSection DEF NoLastBlock, Throw, Main
  <2> QED
    BY <2>1 DEF RunFitsFor
<1> QED
  BY <1>1, <1>2, <1>3, <1>4 DEF RequestStep

\* A transaction has run: the world has grown by what it did, or it failed.
LEMMA RunGrows ==
  ASSUME IInv, [Next]_vars, NEW q \in Requests, RunFitsFor(q),
         RunCall(Main(q)) \/ RunTransaction(Main(q))
  PROVE  RunFitsFor(q)'
<1> DEFINE m == Main(q)
           n == Len(results[m]) + 1
<1>1. /\ m \in Sections /\ m' = m
      /\ results[m] \in Seq(Outcomes) /\ ~threw[m]
      /\ phase[m] = "inside" /\ phase'[m] = "running"
      /\ UNCHANGED <<request, threw, answer>>
  BY Types, MainIsSection DEF RunCall, RunTransaction, Ran, RunFitsFor, Main
<1>2. Base' = Base
  BY <1>1, BaseStays
<1>3. WorldFits(m) /\ Executes(m)' = Executes(m)
  BY <1>1 DEF RunFitsFor, OpenPhases, Executes, Kind, IsMain, Index, Owner
<1>4. PICK o \in Outcomes :
        /\ results'[m] = Append(results[m], o)
        /\ Executes(m) /\ o = "ok" => world' = world \union EffectsOf(m, n)
  <2>1. CASE RunCall(m)
    BY <1>1, <2>1, Types DEF RunCall, Ran, Outcomes, Executes
  <2>2. CASE RunTransaction(m)
    BY <1>1, <2>2, Types DEF RunTransaction, Ran, Outcomes, EndExecution
  <2> QED
    BY <2>1, <2>2
<1> HIDE DEF m
<1>5. /\ DOMAIN results[m] = 1..Len(results[m]) /\ Len(results[m]) \in Nat
      /\ DOMAIN results'[m] = 1..n
      /\ \A i \in DOMAIN results[m] : results'[m][i] = results[m][i]
      /\ results'[m][n] = o /\ results'[m] # <<>>
  BY <1>1, <1>4
<1>6. ASSUME Executes(m), ~HasException(m)' PROVE world' = Base' \union Done(m)'
  <2>1. o = "ok" /\ ~HasException(m)
    BY <1>1, <1>5, <1>6 DEF HasException, Outcomes
  <2>2. world' = (Base \union Done(m)) \union EffectsOf(m, n)
    BY <1>3, <1>4, <1>6, <2>1 DEF WorldFits
  <2>3. Done(m)' = Done(m) \union EffectsOf(m, n)
    <3>1. DOMAIN results'[m] = DOMAIN results[m] \union {n}
      BY <1>5
    <3>2. Done(m)' = UNION {EffectsOf(m, i) : i \in DOMAIN results'[m]}
      BY <1>1 DEF Done, EffectsOf, NonceOf, DataOf
    <3> QED
      BY <3>1, <3>2 DEF Done
  <2> QED
    BY <1>2, <2>2, <2>3
<1>7. WorldFits(m)'
  BY <1>1, <1>3, <1>5, <1>6 DEF WorldFits
<1> QED
  BY <1>1, <1>7 DEF RunFitsFor, m

\* A step of a request's own section.
LEMMA RunOwn ==
  ASSUME IInv, [Next]_vars, NEW q \in Requests, RunFitsFor(q), SectionStep(Main(q))
  PROVE  RunFitsFor(q)'
<1> DEFINE m == Main(q)
<1>1. m \in Sections /\ m' = m /\ IsMain(m) /\ Owner(m) = q
  BY MainIsSection DEF Main
<1>2. UNCHANGED request
  BY DEF SectionStep, EnterRun, RunCall, RunTransaction, Ran, SectionThrows, RunThrows, Throw,
         RunThrown, ReturnResults, CommitSection, RevertSection, RestoreCode, FinishRevert
<1>3. ASSUME phase[m] \in OpenPhases, ~threw[m], UNCHANGED <<world, results, answer>>
      PROVE  WorldFits(m)'
  <2>1. WorldFits(m) /\ Base' = Base
    BY <1>3, BaseStays DEF RunFitsFor
  <2> QED
    BY <1>1, <1>2, <1>3, <2>1
       DEF WorldFits, Done, Executes, Kind, IsMain, Index, Owner, HasException, EffectsOf,
           NonceOf, DataOf
<1> HIDE DEF m
<1>4. CASE EnterRun(m)
  <2>1. /\ phase[m] = "running" /\ phase'[m] = "inside"
        /\ UNCHANGED <<world, results, threw, answer>> /\ ~threw[m]
    BY <1>1, <1>4, Types DEF EnterRun, Checkpoint, RunFitsFor, m
  <2>2. WorldFits(m)'
    BY <1>3, <2>1 DEF OpenPhases
  <2> QED
    BY <1>1, <2>1, <2>2 DEF RunFitsFor, m
<1>5. CASE RunCall(m) \/ RunTransaction(m)
  BY <1>5, RunGrows DEF m
<1>6. CASE SectionThrows(m) \/ RunThrows(m)
  <2>1. phase'[m] \in {"returning", "undoing"} /\ threw'[m]
    BY <1>1, <1>6, Types DEF SectionThrows, RunThrows, Throw
  <2> QED
    BY <1>1, <2>1 DEF RunFitsFor, m
<1>7. CASE RunThrown(m)
  <2>1. phase[m] = "undoing" /\ phase'[m] = "returning" /\ UNCHANGED threw
    BY <1>1, <1>7, Types DEF RunThrown
  <2>2. threw[m]
    BY <2>1 DEF RunFitsFor, m
  <2> QED
    BY <1>1, <2>1, <2>2 DEF RunFitsFor, m
<1>8. CASE ReturnResults(m)
  <2>1. /\ phase[m] = "running" /\ phase'[m] = "returning" /\ HasRun(m)
        /\ UNCHANGED <<world, results, threw, answer>> /\ ~threw[m]
    BY <1>1, <1>8, Types DEF ReturnResults, stateVars, RunFitsFor, m
  <2>2. WorldFits(m)'
    BY <1>3, <2>1 DEF OpenPhases
  <2>3. HasRun(m)'
    BY <1>1, <1>2, <2>1 DEF HasRun, SectionTxs, IsMain, Index, Owner
  <2> QED
    BY <1>1, <2>1, <2>2, <2>3 DEF RunFitsFor, m
<1>9. CASE CommitSection(m) \/ FinishRevert(m)
  <2>1. phase'[m] = "closed"
    BY <1>1, <1>9, Types DEF CommitSection, FinishRevert
  <2> QED
    BY <1>1, <2>1 DEF RunFitsFor, OpenPhases, m
<1>10. CASE RevertSection(m)
  <2>1. phase'[m] = "restoring" /\ ~Commits(m) /\ UNCHANGED <<results, threw>>
    BY <1>1, <1>10, Types DEF RevertSection
  <2>2. ~Commits(m)'
    BY <1>1, <1>2, <2>1 DEF Commits, Executes, Kind, IsMain, Index, Owner, HasException
  <2> QED
    BY <1>1, <2>1, <2>2 DEF RunFitsFor, OpenPhases, m
<1>11. CASE \E c \in Contract : RestoreCode(m, c)
  <2>1. /\ phase[m] \in {"undoing", "restoring"}
        /\ UNCHANGED <<phase, results, threw>>
    BY <1>11 DEF RestoreCode, Restoring
  <2>2. Commits(m)' = Commits(m)
    BY <1>1, <1>2, <2>1 DEF Commits, Executes, Kind, IsMain, Index, Owner, HasException
  <2> QED
    BY <1>1, <2>1, <2>2 DEF RunFitsFor, OpenPhases, m
<1> QED
  BY <1>4, <1>5, <1>6, <1>7, <1>8, <1>9, <1>10, <1>11 DEF SectionStep, m

\* A step of an estimate while a transaction is prepared.
LEMMA RunEstimate ==
  ASSUME IInv, NEW s \in Sections, ~IsMain(s), RunFitsFor(Owner(s)), SectionStep(s)
  PROVE  RunFitsFor(Owner(s))'
<1> DEFINE q == Owner(s)
<1>1. /\ q \in Requests /\ Index(s) \in 1..MaxBundle /\ s = <<q, Index(s)>>
      /\ Main(q) \in Sections /\ Main(q) # s
  BY SectionParts, MainIsSection DEF IsMain, Main
<1>2. phase[s] \notin {"idle", "closed"}
  BY DEF SectionStep, EnterRun, RunCall, RunTransaction, SectionThrows, RunThrows,
         RunThrown, ReturnResults, CommitSection, RevertSection, RestoreCode, FinishRevert,
         Restoring
<1>3. prep[q][Index(s)] = "estimate"
  BY <1>1, <1>2 DEF IInv, TypeInv, PrepFits
<1>4. phase[Main(q)] = "idle"
  BY <1>1, <1>3, IdleWhilePreparing
<1>5. /\ UNCHANGED phase \/ \E ph : phase' = [phase EXCEPT ![s] = ph]
      /\ UNCHANGED results \/ \E o : results' = [results EXCEPT ![s] = Append(@, o)]
      /\ UNCHANGED threw \/ threw' = [threw EXCEPT ![s] = TRUE]
  BY DEF SectionStep, EnterRun, RunCall, RunTransaction, Ran, SectionThrows, RunThrows, Throw,
         RunThrown, ReturnResults, CommitSection, RevertSection, RestoreCode, FinishRevert
<1>6. /\ phase'[Main(q)] = phase[Main(q)] /\ results'[Main(q)] = results[Main(q)]
      /\ threw'[Main(q)] = threw[Main(q)]
  BY <1>1, <1>5, Types
<1> QED
  BY <1>1, <1>4, <1>6, IdleKept

\* A step that touches neither the world nor a section keeps their agreement.
LEMMA RunStays ==
  ASSUME RunFits, UNCHANGED <<stateVars, request, phase, results, threw, answer, seen>>
  PROVE  RunFits'
  BY DEF stateVars, RunFits, RunFitsFor, WorldFits, Base, Done, Executes, Kind, IsMain, Index,
         Owner, HasException, HasRun, SectionTxs, Commits, Main, EffectsOf, NonceOf, DataOf

\* Every step keeps the world in agreement with the ledger.
LEMMA RunNext ==
  ASSUME Careful, IInv, Alone, RunFits, [Next]_vars
  PROVE  Alone' /\ RunFits'
<1>1. CASE UNCHANGED vars
  <2>1. Alone'
    BY <1>1 DEF vars, Alone, OneActive, Active, Outstanding, Asked, Working, Estimating,
                Estimates, EstimatesFit, EstimatesAlone, Attended, OpenPhases
  <2>2. UNCHANGED <<stateVars, request, phase, results, threw, answer, seen>>
    BY <1>1 DEF vars
  <2> QED
    BY <2>1, <2>2, RunStays
<1>2. CASE Next /\ Strays
  BY <1>2, AloneNext, RunStays DEF Strays
<1>3. CASE Next /\ ~Strays
  <2>1. PICK q \in Requests : Actor(q)
    BY <1>3, SomeActor
  <2>2. ASSUME NEW r \in Requests, r # q PROVE RunFitsFor(r)'
    <3>1. LeavesAlone(r) /\ ~Active(r) /\ 0 \in 0..MaxBundle
      BY <2>1, <2>2, EngineAssumption DEF Actor, EngineAssumption
    <3>2. phase[Main(r)] \notin OpenPhases \union {"restoring"}
      BY <3>1 DEF Active, Working, Main
    <3> QED
      BY <3>1, <3>2, RunKept DEF RunFits
  <2>3. RunFitsFor(q)'
    <3>1. CASE Submit(q) /\ ~Active(q)
      BY <2>1, <3>1, RunSubmit DEF Actor, RunFits
    <3>2. CASE Prepare(q)
      BY <3>2, RunPrepare DEF RunFits
    <3>3. CASE RequestStep(q)
      BY <2>1, <3>3, RunRequestStep DEF Actor, RunFits
    <3>4. ASSUME NEW s \in Sections, Owner(s) = q, SectionStep(s) PROVE RunFitsFor(q)'
      <4>1. CASE IsMain(s)
        <5>1. s = Main(q)
          BY <3>4, <4>1, SectionParts DEF IsMain, Main
        <5> QED
          BY <3>4, <5>1, RunOwn DEF RunFits
      <4> QED
        BY <3>4, <4>1, RunEstimate DEF RunFits
    <3> QED
      BY <2>1, <3>1, <3>2, <3>3, <3>4 DEF Actor
  <2>4. Alone'
    BY <1>3, AloneNext
  <2> QED
    BY <2>2, <2>3, <2>4 DEF RunFits
<1> QED
  BY <1>1, <1>2, <1>3

(***************************************************************************)
(* Every step is one of Ledger, or none.                                   *)
(***************************************************************************)

\* What is neither asked, answered nor seen by a caller is no step of Ledger.
LEMMA NoLedgerStep ==
  ASSUME IInv, [Next]_vars, UNCHANGED <<request, answer, seen>>
  PROVE  UNCHANGED LedgerView!ledgerVars
<1>1. Base' = Base
  BY BaseStays
<1> QED
  BY <1>1 DEF LedgerView!ledgerVars

\* A request is known by what it asks.
LEMMA RequestIsMade ==
  ASSUME IInv, NEW q \in Requests, request[q].kind # "none"
  PROVE  request[q] \in Workload /\ request[q] # NoRequest
  BY Types DEF NoRequest

\* A failure changes nothing but the answer.
LEMMA FailStep ==
  ASSUME IInv, [Next]_vars, NEW q \in Requests,
         request[q].kind # "none", answer[q] = "none",
         NEW a \in {"error", "rejected"}, answer' = [answer EXCEPT ![q] = a],
         UNCHANGED <<request, seen>>
  PROVE  LedgerView!Fail(q)
<1>1. \A r \in Requests : answer[r] = "none" => answer'[r] # "ok"
  BY Types
<1>2. Base' = Base
  BY <1>1, BaseStays
<1> QED
  BY <1>2, RequestIsMade DEF LedgerView!Fail, LedgerView!Pending

\* A success adds all the request's effects to the ledger.
LEMMA SucceedStep ==
  ASSUME IInv, NEW q \in Requests,
         request[q].kind # "none", answer[q] = "none",
         answer' = [answer EXCEPT ![q] = "ok"],
         Base' = Base \union RequestEffects(q, request[q]),
         UNCHANGED <<request, seen>>
  PROVE  LedgerView!Succeed(q)
<1>1. request[q] \in Workload /\ request[q] # NoRequest
  BY RequestIsMade
<1> QED
  BY <1>1 DEF LedgerView!Succeed, LedgerView!Pending

\* Making a request.
LEMMA LedgerSubmit ==
  ASSUME IInv, [Next]_vars, NEW q \in Requests, Submit(q)
  PROVE  \E d \in Workload : LedgerView!AskFor(q, d)
<1> PICK d \in Workload :
      \/ Call(q, d) \/ CallWithoutTo(q, d) \/ EstimateGas(q, d)
      \/ ExecuteTyped(q, d) \/ ExecuteBundle(q, d) \/ SetState(q, d)
  BY DEF Submit
<1>1. /\ request[q] = NoRequest /\ request' = [request EXCEPT ![q] = d]
      /\ answer' \in {answer, [answer EXCEPT ![q] = "rejected"]}
      /\ UNCHANGED seen
  BY DEF Call, CallWithoutTo, EstimateGas, ExecuteTyped, ExecuteBundle, SetState, Ask, Asked
<1>2. \A r \in Requests : answer[r] = "none" => answer'[r] # "ok"
  BY <1>1, Types
<1>3. Base' = Base
  BY <1>2, BaseStays
<1> QED
  BY <1>1, <1>3 DEF LedgerView!AskFor

\* Preparing a transaction: at most its failure shows.
LEMMA LedgerPrepare ==
  ASSUME IInv, [Next]_vars, NEW q \in Requests, Prepare(q)
  PROVE  LedgerView!Fail(q) \/ UNCHANGED LedgerView!ledgerVars
<1> PICK i \in 1..MaxBundle : ReadNonce(q, i) \/ Populated(q, i) \/ PrepareFails(q, i)
  BY DEF Prepare
<1>1. CASE ReadNonce(q, i) \/ Populated(q, i)
  BY <1>1, NoLedgerStep DEF ReadNonce, Populated
<1>2. CASE PrepareFails(q, i)
  <2>1. request[q].kind = "bundle"
    BY <1>2 DEF PrepareFails, IInv, TypeInv, PrepFits
  <2>2. /\ UNCHANGED <<request, seen>>
        /\ \/ UNCHANGED answer
           \/ answer[q] = "none" /\ answer' = [answer EXCEPT ![q] = "rejected"]
    BY <1>2 DEF PrepareFails, RejectFirst
  <2> QED
    BY <2>1, <2>2, FailStep, NoLedgerStep
<1> QED
  BY <1>1, <1>2

\* A setter lands in the ledger, or fails.
LEMMA LedgerRequestStep ==
  ASSUME IInv, [Next]_vars, NEW q \in Requests, RequestStep(q),
         \A r \in Requests : r # q => ~Active(r)
  PROVE  LedgerView!Succeed(q) \/ LedgerView!Fail(q) \/ UNCHANGED LedgerView!ledgerVars
<1>1. CASE SetStateLands(q)
  <2>1. /\ request[q].kind = "set" /\ answer[q] = "none"
        /\ answer' = [answer EXCEPT ![q] = "ok"]
        /\ world' = world \union {DataOf(Main(q), 1)}
        /\ UNCHANGED <<request, seen, checkpoints>>
    BY <1>1 DEF SetStateLands, Write
  <2>2. ASSUME NEW i \in 0..MaxBundle PROVE phase[<<q, i>>] \notin OpenPhases
    <3>1. CASE i = 0
      BY <2>1, <3>1 DEF IInv, AnswerFits, AnswerFitsFor, Main, OpenPhases
    <3>2. CASE i # 0
      <4>1. i \in 1..MaxBundle
        BY <3>2
      <4> QED
        BY <2>1, <4>1 DEF IInv, TypeInv, PrepFits, OpenPhases
    <3> QED
      BY <3>1, <3>2
  <2>3. checkpoints = <<>>
    BY <2>2, NobodyOpen, NoneOpen
  <2>4. Base' = Base \union {DataOf(Main(q), 1)}
    BY <2>1, <2>3 DEF Base
  <2>5. RequestEffects(q, request[q]) = {DataOf(Main(q), 1)}
    BY <2>1 DEF RequestEffects
  <2> QED
    BY <2>1, <2>4, <2>5, SucceedStep
<1>2. CASE SetStateFails(q)
  BY <1>2, FailStep DEF SetStateFails
<1>3. CASE StartExecution(q) \/ BeginBlock(q) \/ NoLastBlock(q)
  BY <1>3, NoLedgerStep DEF StartExecution, BeginBlock, NoLastBlock, Throw
<1> QED
  BY <1>1, <1>2, <1>3 DEF RequestStep

\* An execution that commits enters the ledger whole.
LEMMA LedgerCommit ==
  ASSUME IInv, OneActive, NEW q \in Requests, RunFitsFor(q), CommitSection(Main(q))
  PROVE  LedgerView!Succeed(q)
<1> DEFINE m == Main(q)
<1>1. /\ phase[m] = "returning" /\ Commits(m) /\ ~threw[m]
      /\ answer' = [answer EXCEPT ![q] = "ok"]
      /\ checkpoints' = SubSeq(checkpoints, 1, Len(checkpoints) - 1)
      /\ UNCHANGED <<world, request, seen>>
  BY MainIsSection DEF CommitSection, Commits, Commit
<1>2. answer[q] = "none" /\ request[q].kind \in {"bundle", "raw"}
  BY <1>1, AskedDecides DEF IInv, AnswerFits, AnswerFitsFor, Commits
<1>3. Len(checkpoints) = 1 /\ checkpoints # <<>> /\ checkpoints \in Seq(Worlds)
  BY <1>1, OneOpen DEF OpenPhases, IInv, TypeInv, StateInv
<1>4. checkpoints' = <<>>
  <2>1. checkpoints' \in Seq(Worlds) /\ Len(checkpoints') = 0
    BY <1>1, <1>3, Pop
  <2> QED
    BY <2>1, EmptySeq
<1>5. Base' = Base \union Done(m)
  <2>1. world = Base \union Done(m)
    BY <1>1 DEF RunFitsFor, OpenPhases, WorldFits, Commits
  <2> QED
    BY <1>1, <1>4, <2>1 DEF Base
<1>6. Done(m) = RequestEffects(q, request[q])
  <2>1. results[m] \in Seq(Outcomes) /\ Len(results[m]) = Len(request[q].txs)
    BY <1>1, Types, MainIsSection, AskedDecides DEF RunFitsFor, HasRun
  <2>2. request[q].txs \in Seq(Tx)
    BY Types, RequestTxs
  <2>3. DOMAIN results[m] = DOMAIN request[q].txs
    BY <2>1, <2>2
  <2> QED
    BY <1>2, <2>3 DEF Done, RequestEffects
<1> QED
  BY <1>1, <1>2, <1>5, <1>6, SucceedStep

\* A call, an estimate or an execution that was reverted answers; the ledger
\* keeps nothing of it, and what resolves with success promises nothing.
LEMMA LedgerRevert ==
  ASSUME IInv, [Next]_vars, NEW q \in Requests, RunFitsFor(q), FinishRevert(Main(q))
  PROVE  LedgerView!Succeed(q) \/ LedgerView!Fail(q)
<1> DEFINE m == Main(q)
<1>1. /\ phase[m] = "restoring" /\ ~Commits(m)
      /\ answer' = [answer EXCEPT ![q] = RevertedAnswer(m)]
      /\ UNCHANGED <<stateVars, request, seen>>
  BY MainIsSection DEF FinishRevert, RunFitsFor
<1>2. answer[q] = "none" /\ request[q].kind \in {"call", "estimate", "bundle", "raw"}
  BY <1>1 DEF IInv, AnswerFits, AnswerFitsFor
<1>3. CASE RevertedAnswer(m) = "ok"
  <2>1. ~threw[m] /\ ~HasException(m)
    BY <1>3 DEF RevertedAnswer
  <2>2. request[q].kind \in {"call", "estimate"}
    BY <1>1, <1>2, <2>1, AskedDecides DEF Commits
  <2>3. RequestEffects(q, request[q]) = {}
    BY <2>2 DEF RequestEffects
  <2>4. Base' = Base
    BY <1>1 DEF Base, stateVars
  <2> QED
    BY <1>1, <1>2, <1>3, <2>3, <2>4, SucceedStep
<1>4. CASE RevertedAnswer(m) # "ok"
  <2>1. RevertedAnswer(m) \in {"error", "rejected"}
    BY <1>4 DEF RevertedAnswer
  <2> QED
    BY <1>1, <1>2, <2>1, FailStep
<1> QED
  BY <1>3, <1>4

\* A call runs against the ledger.
LEMMA LedgerObserve ==
  ASSUME IInv, [Next]_vars, NEW s \in Sections, RunFitsFor(Owner(s)), EnterRun(s)
  PROVE  LedgerView!Observe(Owner(s)) \/ UNCHANGED LedgerView!ledgerVars
<1> DEFINE q == Owner(s)
<1>1. /\ phase[s] = "running" /\ ~HasRun(s) /\ UNCHANGED <<request, answer>>
      /\ seen' = IF Kind(s) = "call" THEN [seen EXCEPT ![q] = world] ELSE seen
  BY DEF EnterRun
<1>2. CASE Kind(s) # "call"
  BY <1>1, <1>2, NoLedgerStep
<1>3. CASE Kind(s) = "call"
  <2>1. /\ q \in Requests /\ Index(s) \in 0..MaxBundle /\ s = <<q, Index(s)>>
        /\ request[q].kind = "call"
    BY <1>3, SectionParts DEF Kind
  <2>2. Index(s) = 0
    <3> SUFFICES ASSUME Index(s) \in 1..MaxBundle PROVE FALSE
      BY <2>1
    <3> QED
      BY <1>1, <2>1 DEF IInv, TypeInv, PrepFits
  <2>3. s = Main(q)
    BY <2>1, <2>2 DEF Main
  <2>4. answer[q] = "none"
    BY <1>1, <2>1, <2>3 DEF IInv, AnswerFits, AnswerFitsFor
  <2>5. results[s] = <<>>
    <3>1. Len(SectionTxs(s)) = 1
      <4>1. request[q] \in Workload
        BY <2>1, RequestIsMade
      <4> QED
        BY <2>1, <2>3, <4>1, AskedDecides, EngineAssumption DEF EngineAssumption
    <3> DEFINE n == Len(results[s])
    <3>2. results[s] \in Seq(Outcomes) /\ n <= 1 /\ n # 1
      BY <1>1, <3>1, Types DEF HasRun, IInv, TypeInv, ResultsFit
    <3>3. n \in Nat
      BY <3>2, LenProperties
    <3> HIDE DEF n
    <3>4. n = 0
      BY <3>2, <3>3
    <3> QED
      BY <3>2, <3>4, EmptySeq DEF n
  <2>6. world = Base
    BY <1>1, <2>3, <2>5 DEF RunFitsFor, WorldFits, OpenPhases
  <2>7. Base' = Base
    BY <1>1, BaseStays
  <2> QED
    BY <1>1, <1>3, <2>1, <2>4, <2>6, <2>7, RequestIsMade
       DEF LedgerView!Observe, LedgerView!Pending
<1> QED
  BY <1>2, <1>3

\* A step of a section.
LEMMA LedgerSectionStep ==
  ASSUME IInv, OneActive, [Next]_vars, NEW s \in Sections, RunFitsFor(Owner(s)),
         SectionStep(s)
  PROVE  \/ LedgerView!Observe(Owner(s)) \/ LedgerView!Succeed(Owner(s))
         \/ LedgerView!Fail(Owner(s)) \/ UNCHANGED LedgerView!ledgerVars
<1>1. Owner(s) \in Requests /\ Index(s) \in 0..MaxBundle /\ s = <<Owner(s), Index(s)>>
  BY SectionParts
<1>2. IsMain(s) => s = Main(Owner(s))
  BY <1>1 DEF IsMain, Main
<1>3. CASE EnterRun(s)
  BY <1>3, LedgerObserve
<1>4. CASE CommitSection(s)
  BY <1>1, <1>2, <1>4, LedgerCommit DEF CommitSection, Commits, Executes
<1>5. CASE FinishRevert(s) /\ IsMain(s)
  BY <1>1, <1>2, <1>5, LedgerRevert
<1>6. CASE FinishRevert(s) /\ ~IsMain(s)
  <2>1. /\ UNCHANGED <<request, seen>>
        /\ \/ UNCHANGED answer
           \/ answer[Owner(s)] = "none" /\ answer' = [answer EXCEPT ![Owner(s)] = "rejected"]
    BY <1>6 DEF FinishRevert, RejectFirst
  <2>2. request[Owner(s)].kind = "bundle"
    <3>1. Index(s) \in 1..MaxBundle /\ phase[s] \notin {"idle", "closed"}
      BY <1>1, <1>6 DEF IsMain, FinishRevert
    <3> QED
      BY <1>1, <3>1 DEF IInv, TypeInv, PrepFits
  <2> QED
    BY <1>1, <2>1, <2>2, FailStep, NoLedgerStep
<1>7. CASE \/ RunCall(s) \/ RunTransaction(s) \/ SectionThrows(s) \/ RunThrows(s)
           \/ RunThrown(s) \/ ReturnResults(s) \/ RevertSection(s)
           \/ \E c \in Contract : RestoreCode(s, c)
  BY <1>7, NoLedgerStep
     DEF RunCall, RunTransaction, Ran, SectionThrows, RunThrows, Throw, RunThrown,
         ReturnResults, RevertSection, RestoreCode
<1> QED
  BY <1>3, <1>4, <1>5, <1>6, <1>7 DEF SectionStep

LEMMA LedgerStep ==
  ASSUME Careful, IInv, Alone, RunFits, [Next]_vars
  PROVE  [LedgerView!Next]_(LedgerView!ledgerVars)
<1>1. CASE UNCHANGED vars
  BY <1>1, NoLedgerStep DEF vars
<1>2. CASE Strays
  BY <1>2, NoLedgerStep DEF Strays
<1>3. CASE Next /\ ~Strays
  <2>1. PICK q \in Requests : Actor(q)
    BY <1>3, SomeActor
  <2>2. CASE Submit(q)
    BY <2>2, LedgerSubmit DEF LedgerView!Next
  <2>3. CASE Prepare(q)
    BY <2>3, LedgerPrepare DEF LedgerView!Next
  <2>4. CASE RequestStep(q)
    BY <2>1, <2>4, LedgerRequestStep DEF Actor, LedgerView!Next
  <2>5. CASE \E s \in Sections : Owner(s) = q /\ SectionStep(s)
    BY <2>5, LedgerSectionStep DEF Alone, RunFits, LedgerView!Next
  <2> QED
    BY <2>1, <2>2, <2>3, <2>4, <2>5 DEF Actor
<1> QED
  BY <1>1, <1>2, <1>3

\* Nothing has happened yet.
LEMMA LedgerInit ==
  ASSUME Init
  PROVE  Alone /\ RunFits /\ LedgerView!Init
<1>1. \A r \in Requests, i \in 1..MaxBundle : prep[r][i] = "none"
  BY DEF Init
<1>2. \A r \in Requests : ~Active(r)
  BY <1>1, EngineAssumption
     DEF Init, Active, Working, Estimating, Outstanding, Asked, Sections, OpenPhases
<1>3. \A r \in Requests :
        phase[Main(r)] = "idle" /\ results[Main(r)] = <<>> /\ ~threw[Main(r)]
  BY MainIsSection DEF Init
<1>4. LedgerView!Init
  BY DEF Init, StateInit, Base, LedgerView!Init
<1> QED
  BY <1>1, <1>2, <1>3, <1>4
     DEF Alone, OneActive, EstimatesFit, Attended, Active, RunFits, RunFitsFor, OpenPhases

\* A careful caller gets all of a request or nothing of it, and its calls run
\* against what succeeded before (the try/finally blocks of call, estimateGas
\* and #executeTransactions, the setters and #prepareTransaction).  Careful is a
\* caller that lets each request finish what it still does in the background,
\* and one that merely awaits each promise but estimates no transaction beside
\* another one of its bundle.
THEOREM LedgerImplemented == Careful => (Spec => ImplementsLedger)
<1> SUFFICES ASSUME Careful
             PROVE  Spec => ImplementsLedger
  OBVIOUS
<1>1. Init => Alone /\ RunFits /\ LedgerView!Init
  BY LedgerInit
<1>2. IInv /\ Alone /\ RunFits /\ [Next]_vars => Alone' /\ RunFits'
  BY RunNext
<1>3. IInv /\ Alone /\ RunFits /\ [Next]_vars => [LedgerView!Next]_(LedgerView!ledgerVars)
  BY LedgerStep
<1> QED
  BY <1>1, <1>2, <1>3, InitIInv, NextIInv, PTL DEF Spec, ImplementsLedger, LedgerView!Spec

\* What a request promised is in the ledger once it has succeeded.
SucceededIn == \A r \in Requests : answer[r] = "ok" => RequestEffects(r, request[r]) \subseteq Base

\* The ledger only grows, and nothing asked is asked anew.
LEMMA SucceededKept ==
  ASSUME IInv, SucceededIn, [LedgerView!Next]_(LedgerView!ledgerVars)
  PROVE  SucceededIn'
<1> SUFFICES ASSUME NEW r \in Requests, answer'[r] = "ok"
             PROVE  RequestEffects(r, request'[r]) \subseteq Base'
  BY DEF SucceededIn, RequestEffects, EffectsOf, NonceOf, DataOf, Main
<1>1. CASE UNCHANGED LedgerView!ledgerVars
  BY <1>1 DEF LedgerView!ledgerVars, SucceededIn
<1>2. ASSUME NEW q \in Requests, NEW d \in Workload, LedgerView!AskFor(q, d)
      PROVE  RequestEffects(r, request'[r]) \subseteq Base'
  <2>1. answer[q] = "none"
    BY <1>2 DEF LedgerView!AskFor, IInv, AnswerFits, AnswerFitsFor, NoRequest
  <2>2. r # q /\ answer[r] = "ok" /\ request'[r] = request[r] /\ Base' = Base
    BY <1>2, <2>1, Types DEF LedgerView!AskFor
  <2> QED
    BY <2>2 DEF SucceededIn
<1>3. ASSUME NEW q \in Requests, LedgerView!Observe(q) \/ LedgerView!Fail(q)
      PROVE  RequestEffects(r, request'[r]) \subseteq Base'
  <2>1. answer[r] = "ok" /\ UNCHANGED request /\ Base' = Base
    BY <1>3, Types DEF LedgerView!Observe, LedgerView!Fail
  <2> QED
    BY <2>1 DEF SucceededIn
<1>4. ASSUME NEW q \in Requests, LedgerView!Succeed(q)
      PROVE  RequestEffects(r, request'[r]) \subseteq Base'
  <2>1. /\ UNCHANGED request /\ Base' = Base \union RequestEffects(q, request[q])
        /\ r # q => answer[r] = "ok"
    BY <1>4, Types DEF LedgerView!Succeed
  <2> QED
    BY <2>1 DEF SucceededIn
<1> QED
  BY <1>1, <1>2, <1>3, <1>4 DEF LedgerView!Next

\* A careful caller loses no success: at rest no checkpoint is left that could
\* still be reverted (the finally blocks of #executeTransactions and of
\* estimateGas).
THEOREM SucceededAlwaysStays == Careful => (Spec => []SucceededStays)
<1> SUFFICES ASSUME Careful
             PROVE  Spec => []SucceededStays
  OBVIOUS
<1>1. Init => Alone /\ RunFits /\ SucceededIn
  BY LedgerInit DEF Init, SucceededIn
<1>2. IInv /\ Alone /\ RunFits /\ SucceededIn /\ [Next]_vars
        => Alone' /\ RunFits' /\ SucceededIn'
  BY RunNext, LedgerStep, SucceededKept
<1>3. IInv /\ SucceededIn => SucceededStays
  <2> SUFFICES ASSUME IInv, SucceededIn, AtRest, NEW r \in Requests, answer[r] = "ok"
               PROVE  RequestEffects(r, request[r]) \subseteq world
    BY DEF SucceededStays
  <2>1. OpenSections = {}
    BY SectionParts DEF AtRest, Busy, OpenSections
  <2>2. world = Base
    BY <2>1, NoneOpen DEF Base
  <2> QED
    BY <2>2 DEF SucceededIn
<1> QED
  BY <1>1, <1>2, <1>3, InitIInv, NextIInv, PTL DEF Spec

\* The ledger has nothing but what succeeded.
Successes == UNION {RequestEffects(r, request[r]) : r \in {q \in Requests : answer[q] = "ok"}}
OnlySucceededIn == Base \subseteq Successes

\* Only a success adds to it.
LEMMA OnlySucceededKept ==
  ASSUME IInv, OnlySucceededIn, [LedgerView!Next]_(LedgerView!ledgerVars)
  PROVE  OnlySucceededIn'
<1>1. ASSUME NEW r \in Requests, NEW e \in RequestEffects(r, request[r]), answer[r] = "ok",
             UNCHANGED LedgerView!ledgerVars \/ answer'[r] = "ok",
             UNCHANGED LedgerView!ledgerVars \/ request'[r] = request[r]
      PROVE  e \in Successes'
  <2>1. answer'[r] = "ok" /\ request'[r] = request[r]
    BY <1>1 DEF LedgerView!ledgerVars
  <2>2. RequestEffects(r, request[r])' = RequestEffects(r, request[r])
    BY <2>1 DEF RequestEffects, EffectsOf, NonceOf, DataOf, Main
  <2> QED
    BY <1>1, <2>1, <2>2 DEF Successes
<1>2. \A e \in Base : \E r \in Requests : answer[r] = "ok" /\ e \in RequestEffects(r, request[r])
  BY DEF OnlySucceededIn, Successes
<1>3. CASE UNCHANGED LedgerView!ledgerVars
  <2>1. Base' = Base
    BY <1>3 DEF LedgerView!ledgerVars
  <2> QED
    BY <1>1, <1>2, <1>3, <2>1 DEF OnlySucceededIn
<1>4. ASSUME NEW q \in Requests, NEW d \in Workload, LedgerView!AskFor(q, d)
      PROVE  OnlySucceededIn'
  <2>1. answer[q] = "none"
    BY <1>4 DEF LedgerView!AskFor, IInv, AnswerFits, AnswerFitsFor, NoRequest
  <2>2. /\ Base' = Base
        /\ \A r \in Requests : answer[r] = "ok" =>
             answer'[r] = "ok" /\ request'[r] = request[r]
    BY <1>4, <2>1, Types DEF LedgerView!AskFor
  <2> QED
    BY <1>1, <1>2, <2>2 DEF OnlySucceededIn
<1>5. ASSUME NEW q \in Requests, LedgerView!Observe(q) \/ LedgerView!Fail(q)
      PROVE  OnlySucceededIn'
  <2>1. /\ Base' = Base
        /\ \A r \in Requests : answer[r] = "ok" =>
             answer'[r] = "ok" /\ request'[r] = request[r]
    BY <1>5, Types DEF LedgerView!Observe, LedgerView!Fail, LedgerView!Pending
  <2> QED
    BY <1>1, <1>2, <2>1 DEF OnlySucceededIn
<1>6. ASSUME NEW q \in Requests, LedgerView!Succeed(q)
      PROVE  OnlySucceededIn'
  <2>1. /\ Base' = Base \union RequestEffects(q, request[q])
        /\ answer'[q] = "ok" /\ request' = request
        /\ \A r \in Requests : answer[r] = "ok" => answer'[r] = "ok"
    BY <1>6, Types DEF LedgerView!Succeed
  <2>2. RequestEffects(q, request[q])' = RequestEffects(q, request[q])
    BY <2>1 DEF RequestEffects, EffectsOf, NonceOf, DataOf, Main
  <2>3. RequestEffects(q, request[q]) \subseteq Successes'
    BY <2>1, <2>2 DEF Successes
  <2> QED
    BY <1>1, <1>2, <2>1, <2>3 DEF OnlySucceededIn
<1> QED
  BY <1>3, <1>4, <1>5, <1>6 DEF LedgerView!Next

\* A careful caller finds no effect in the accounts and the storage that is not of
\* a success: what failed, was called or was estimated has left none there
\* (#executeTransactions, call, estimateGas).  It may have left code.
THEOREM FailedAlwaysLeaveNoEffects == Careful => (Spec => []FailedLeaveNoEffects)
<1> SUFFICES ASSUME Careful
             PROVE  Spec => []FailedLeaveNoEffects
  OBVIOUS
<1>1. Init => Alone /\ RunFits /\ OnlySucceededIn
  BY LedgerInit DEF Init, StateInit, Base, OnlySucceededIn
<1>2. IInv /\ Alone /\ RunFits /\ OnlySucceededIn /\ [Next]_vars
        => Alone' /\ RunFits' /\ OnlySucceededIn'
  BY RunNext, LedgerStep, OnlySucceededKept
<1>3. IInv /\ OnlySucceededIn => FailedLeaveNoEffects
  <2> SUFFICES ASSUME IInv, OnlySucceededIn, AtRest
               PROVE  world \subseteq Successes
    BY DEF FailedLeaveNoEffects, Successes
  <2>1. OpenSections = {}
    BY SectionParts DEF AtRest, Busy, OpenSections
  <2>2. world = Base
    BY <2>1, NoneOpen DEF Base
  <2> QED
    BY <2>2 DEF OnlySucceededIn
<1> QED
  BY <1>1, <1>2, <1>3, InitIInv, NextIInv, PTL DEF Spec

=============================================================================
