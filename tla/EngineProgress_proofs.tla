----------------------- MODULE EngineProgress_proofs -----------------------
(***************************************************************************)
(* The engine only ever advances, for every set of requests, every bundle  *)
(* length and every way callers overlap: the argument for Settles and      *)
(* SectionsClose, short of fairness.                                       *)
(***************************************************************************)
EXTENDS SimulationEngine_proofs

\* The section of an estimate is not opened before its transaction has been
\* populated.
EstimatesOnce ==
  \A r \in Requests, i \in 1..MaxBundle :
    prep[r][i] \in {"none", "nonce", "populate"} => phase[<<r, i>>] = "idle"

LEMMA Stages ==
  /\ Stage("idle") = 0
  /\ Stage("head") = 1
  /\ Stage("running") = 2 /\ Stage("inside") = 2
  /\ Stage("undoing") = 3
  /\ Stage("returning") = 4
  /\ Stage("restoring") = 5
  /\ Stage("closed") = 6
BY DEF Stage

LEMMA PrepStages ==
  /\ PrepStage("none") = 0
  /\ PrepStage("nonce") = 1
  /\ PrepStage("populate") = 2
  /\ PrepStage("estimate") = 3
  /\ PrepStage("ready") = 4 /\ PrepStage("failed") = 4
BY DEF PrepStage

\* What a section has to get through is bounded: stages, results, contracts.
LEMMA WorkBounded ==
  ASSUME IInv, NEW s \in Sections
  PROVE  /\ Stage(phase[s]) \in 0..6
         /\ Len(results[s]) \in 0..MaxBundle
         /\ restored[s] \subseteq Contract
         /\ IsFiniteSet(Contract)
<1>1. phase[s] \in Phases /\ results[s] \in Seq(Outcomes) /\ restored[s] \subseteq Contract
  BY DEF IInv, TypeInv, TypeOK
<1>2. Stage(phase[s]) \in 0..6
  BY <1>1, Stages DEF Phases
<1>3. Len(results[s]) \in 0..MaxBundle
  <2>1. Len(results[s]) <= Len(SectionTxs(s)) /\ Len(SectionTxs(s)) \in 0..MaxBundle
    BY SectionTxsBounded DEF IInv, TypeInv, ResultsFit
  <2>2. Len(results[s]) \in Nat
    BY <1>1
  <2> QED
    BY <2>1, <2>2, EngineAssumption
<1>4. IsFiniteSet(Contract)
  <2>1. IsFiniteSet(1..MaxBundle) /\ IsFiniteSet(Requests)
    BY EngineAssumption, FS_Interval
  <2> QED
    BY <2>1, FS_Product DEF Contract
<1> QED
  BY <1>1, <1>2, <1>3, <1>4

\* A section that comes to a later stage, while the others stay where they are.
LEMMA StageRises ==
  ASSUME IInv, NEW s \in Sections, NEW ph \in Phases,
         phase' = [phase EXCEPT ![s] = ph],
         Stage(phase[s]) < Stage(ph),
         \A q \in Sections : q # s => results'[q] = results[q] /\ restored'[q] = restored[q]
  PROVE  /\ SectionAdvances(s)
         /\ \A q \in Sections : SectionAdvances(q) \/ SectionStays(q)
<1>1. phase \in [Sections -> Phases]
  BY DEF IInv, TypeInv, TypeOK
<1>2. SectionAdvances(s)
  BY <1>1 DEF SectionAdvances
<1>3. \A q \in Sections : q # s => SectionStays(q)
  BY <1>1 DEF SectionStays
<1> QED
  BY <1>2, <1>3

\* A request is made: its section opens, or its preparations begin.
LEMMA SubmitAdvances ==
  ASSUME IInv, NEW r \in Requests, Submit(r)
  PROVE  WorkStep
<1> PICK d \in Workload :
      \/ Call(r, d) \/ CallWithoutTo(r, d) \/ EstimateGas(r, d)
      \/ ExecuteTyped(r, d) \/ ExecuteBundle(r, d) \/ SetState(r, d)
  BY DEF Submit
<1>1. /\ request[r] = NoRequest
      /\ request' = [request EXCEPT ![r] = d]
      /\ request \in [Requests -> Workload \union {NoRequest}]
      /\ prep \in [Requests -> [1..MaxBundle -> PrepStates]]
      /\ answer \in [Requests -> Answers]
  BY DEF Call, CallWithoutTo, EstimateGas, ExecuteTyped, ExecuteBundle, SetState, Ask, Asked,
         IInv, TypeInv, TypeOK
<1>2. /\ answer[r] = "none" /\ phase[Main(r)] = "idle"
      /\ \A i \in 1..MaxBundle : prep[r][i] = "none"
  <2>1. request[r].kind = "none"
    BY <1>1 DEF NoRequest
  <2> QED
    BY <2>1 DEF IInv, AnswerFits, AnswerFitsFor, TypeInv, PrepFits
<1>3. request'[r] # request[r]
  <2>1. d.kind # "none"
    BY EngineAssumption DEF Descriptor, Kinds
  <2> QED
    BY <1>1, <2>1 DEF NoRequest
<1>4. \A q \in Requests : answer[q] # "none" => answer'[q] = answer[q]
  <2>1. UNCHANGED answer \/ answer' = [answer EXCEPT ![r] = "rejected"]
    BY DEF Call, CallWithoutTo, EstimateGas, ExecuteTyped, ExecuteBundle, SetState
  <2> QED
    BY <1>1, <1>2, <2>1
<1>5. \A q \in Requests, i \in 1..MaxBundle : PrepAdvances(q, i) \/ prep'[q][i] = prep[q][i]
  <2>1. CASE UNCHANGED prep
    BY <2>1
  <2>2. CASE ExecuteBundle(r, d)
    <3>1. \A i \in 1..MaxBundle : prep'[r][i] \in {"none", "nonce"}
      BY <1>1, <2>2 DEF ExecuteBundle
    <3>2. \A q \in Requests : q # r => prep'[q] = prep[q]
      BY <1>1, <2>2 DEF ExecuteBundle
    <3> QED
      BY <1>2, <3>1, <3>2, PrepStages DEF PrepAdvances
  <2> QED
    BY <2>1, <2>2 DEF Call, CallWithoutTo, EstimateGas, ExecuteTyped, SetState
<1>6. \A q \in Sections : SectionAdvances(q) \/ SectionStays(q)
  <2>1. UNCHANGED <<results, restored>>
    BY DEF Call, CallWithoutTo, EstimateGas, ExecuteTyped, ExecuteBundle, SetState
  <2>2. CASE UNCHANGED phase
    BY <2>1, <2>2 DEF SectionStays
  <2>3. CASE \E ph \in {"running", "head"} : phase' = [phase EXCEPT ![Main(r)] = ph]
    <3>1. PICK ph \in {"running", "head"} : phase' = [phase EXCEPT ![Main(r)] = ph]
      BY <2>3
    <3>2. Stage(phase[Main(r)]) < Stage(ph) /\ ph \in Phases
      BY <1>2, Stages DEF Phases
    <3> QED
      BY <2>1, <3>1, <3>2, MainIsSection, StageRises
  <2> QED
    BY <2>2, <2>3 DEF Call, CallWithoutTo, EstimateGas, ExecuteTyped, ExecuteBundle, SetState,
                      OpenSection
<1> QED
  BY <1>3, <1>4, <1>5, <1>6 DEF WorkStep

\* A preparation comes to its next step, and perhaps opens its section.
LEMMA PrepareAdvances ==
  ASSUME IInv, EstimatesOnce, NEW r \in Requests, Prepare(r)
  PROVE  WorkStep
<1> PICK i \in 1..MaxBundle : ReadNonce(r, i) \/ Populated(r, i) \/ PrepareFails(r, i)
  BY DEF Prepare
<1>1. /\ prep \in [Requests -> [1..MaxBundle -> PrepStates]]
      /\ answer \in [Requests -> Answers]
  BY DEF IInv, TypeInv, TypeOK
<1>2. PICK p \in PrepStates : prep' = [prep EXCEPT ![r][i] = p] /\ PrepStage(prep[r][i]) < PrepStage(p)
  BY PrepStages DEF ReadNonce, Populated, PrepareFails, PrepStates
<1>3. /\ PrepAdvances(r, i)
      /\ \A q \in Requests, k \in 1..MaxBundle : PrepAdvances(q, k) \/ prep'[q][k] = prep[q][k]
  BY <1>1, <1>2 DEF PrepAdvances
<1>4. \A q \in Requests : answer[q] # "none" => answer'[q] = answer[q]
  BY <1>1 DEF ReadNonce, Populated, PrepareFails, RejectFirst
<1>5. \A q \in Sections : SectionAdvances(q) \/ SectionStays(q)
  <2>1. UNCHANGED <<results, restored>>
    BY DEF ReadNonce, Populated, PrepareFails
  <2>2. CASE UNCHANGED phase
    BY <2>1, <2>2 DEF SectionStays
  <2>3. CASE prep[r][i] = "populate" /\ phase' = [phase EXCEPT ![<<r, i>>] = "running"]
    <3>1. phase[<<r, i>>] = "idle" /\ <<r, i>> \in Sections /\ "running" \in Phases
      BY <2>3, MainIsSection DEF EstimatesOnce, Phases
    <3>2. Stage(phase[<<r, i>>]) < Stage("running")
      BY <3>1, Stages
    <3> QED
      BY <2>1, <2>3, <3>1, <3>2, StageRises
  <2> QED
    BY <2>2, <2>3 DEF ReadNonce, Populated, PrepareFails, OpenSection
<1> QED
  BY <1>3, <1>4, <1>5 DEF WorkStep

\* A setter answers, an execution opens or looks for its last block.
LEMMA RequestStepAdvances ==
  ASSUME IInv, NEW r \in Requests, RequestStep(r)
  PROVE  WorkStep
<1>1. Main(r) \in Sections /\ answer \in [Requests -> Answers]
  BY MainIsSection DEF IInv, TypeInv, TypeOK
<1>2. CASE SetStateLands(r) \/ SetStateFails(r)
  <2>1. UNCHANGED <<phase, results, restored, prep>>
    BY <1>2 DEF SetStateLands, SetStateFails
  <2>2. answer[r] = "none" /\ \E a \in {"ok", "rejected"} : answer' = [answer EXCEPT ![r] = a]
    BY <1>2 DEF SetStateLands, SetStateFails
  <2> QED
    BY <1>1, <2>1, <2>2 DEF WorkStep, SectionStays
<1>3. CASE StartExecution(r) \/ BeginBlock(r) \/ NoLastBlock(r)
  <2>1. PICK ph \in {"head", "running", "returning"} :
          phase' = [phase EXCEPT ![Main(r)] = ph] /\ Stage(phase[Main(r)]) < Stage(ph)
    BY <1>3, Stages DEF StartExecution, OpenSection, BeginBlock, NoLastBlock, Throw
  <2>2. UNCHANGED <<results, restored, prep, answer>>
    BY <1>3 DEF StartExecution, BeginBlock, NoLastBlock, Throw
  <2>3. ph \in Phases
    BY DEF Phases
  <2> QED
    BY <1>1, <2>1, <2>2, <2>3, StageRises DEF WorkStep
<1> QED
  BY <1>2, <1>3 DEF RequestStep

\* A section comes to its next stage, transaction or contract.
LEMMA SectionStepAdvances ==
  ASSUME IInv, NEW s \in Sections, SectionStep(s)
  PROVE  WorkStep
<1>1. /\ phase \in [Sections -> Phases]
      /\ results \in [Sections -> Seq(Outcomes)]
      /\ restored \in [Sections -> SUBSET Contract]
      /\ prep \in [Requests -> [1..MaxBundle -> PrepStates]]
      /\ answer \in [Requests -> Answers]
  BY DEF IInv, TypeInv, TypeOK
<1>2. /\ Owner(s) \in Requests /\ Index(s) \in 0..MaxBundle
      /\ s = <<Owner(s), Index(s)>>
      /\ IsMain(s) => s = Main(Owner(s))
  BY SectionParts DEF IsMain, Main
<1>3. CASE EnterRun(s) \/ RunCall(s) \/ RunTransaction(s) \/ \E c \in Contract : RestoreCode(s, c)
  <2>1. UNCHANGED <<prep, answer>>
    BY <1>3 DEF EnterRun, RunCall, RunTransaction, Ran, RestoreCode
  <2>2. SectionAdvances(s)
    <3>1. CASE EnterRun(s)
      BY <1>1, <3>1 DEF EnterRun, SectionAdvances
    <3>2. CASE RunCall(s) \/ RunTransaction(s)
      <4>1. PICK o : results' = [results EXCEPT ![s] = Append(@, o)]
        BY <3>2 DEF RunCall, RunTransaction, Ran
      <4>2. Len(results[s]) < Len(results'[s])
        BY <1>1, <4>1
      <4>3. phase[s] = "inside" /\ phase'[s] = "running"
        BY <1>1, <3>2 DEF RunCall, RunTransaction, Ran
      <4> QED
        BY <4>2, <4>3, Stages DEF SectionAdvances
    <3>3. CASE \E c \in Contract : RestoreCode(s, c)
      BY <1>1, <3>3 DEF RestoreCode, SectionAdvances
    <3> QED
      BY <1>3, <3>1, <3>2, <3>3
  <2>3. \A q \in Sections : q # s => SectionStays(q)
    BY <1>1, <1>3 DEF EnterRun, RunCall, RunTransaction, Ran, EndExecution, EndFailedExecution,
                      RestoreCode, SectionStays
  <2> QED
    BY <2>1, <2>2, <2>3 DEF WorkStep
<1>4. CASE \/ SectionThrows(s) \/ RunThrows(s) \/ RunThrown(s) \/ ReturnResults(s)
           \/ CommitSection(s) \/ RevertSection(s) \/ FinishRevert(s)
  <2>1. PICK ph \in {"undoing", "returning", "restoring", "closed"} :
          phase' = [phase EXCEPT ![s] = ph] /\ Stage(phase[s]) < Stage(ph)
    BY <1>4, Stages DEF SectionThrows, RunThrows, Throw, RunThrown, ReturnResults, CommitSection,
                        RevertSection, FinishRevert
  <2>2. \A q \in Sections : q # s => results'[q] = results[q] /\ restored'[q] = restored[q]
    BY <1>1, <1>4 DEF SectionThrows, RunThrows, Throw, RunThrown, ReturnResults, CommitSection,
                      RevertSection, FinishRevert, StartRevert
  <2>3. ph \in Phases
    BY DEF Phases
  <2>4. SectionAdvances(s) /\ \A q \in Sections : SectionAdvances(q) \/ SectionStays(q)
    BY <2>1, <2>2, <2>3, StageRises
  <2>5. \A q \in Requests : answer[q] # "none" => answer'[q] = answer[q]
    <3>1. CASE UNCHANGED answer
      BY <3>1
    <3>2. CASE IsMain(s)
      <4>1. CASE phase[s] \in {"returning", "restoring"}
        <5>1. answer[Owner(s)] = "none"
          BY <1>2, <3>2, <4>1 DEF IInv, AnswerFits, AnswerFitsFor
        <5>2. UNCHANGED answer \/ \E a : answer' = [answer EXCEPT ![Owner(s)] = a]
          BY <1>4 DEF SectionThrows, RunThrows, Throw, RunThrown, ReturnResults, CommitSection,
                      RevertSection, FinishRevert, RejectFirst
        <5> QED
          BY <1>1, <1>2, <5>1, <5>2
      <4>2. CASE phase[s] \notin {"returning", "restoring"}
        BY <1>4, <4>2 DEF SectionThrows, RunThrows, Throw, RunThrown, ReturnResults,
                          CommitSection, RevertSection, FinishRevert
      <4> QED
        BY <4>1, <4>2
    <3>3. CASE ~IsMain(s) /\ FinishRevert(s)
      BY <1>1, <3>3 DEF FinishRevert, RejectFirst
    <3>4. CASE ~IsMain(s) /\ ~FinishRevert(s)
      BY <1>4, <3>1, <3>4 DEF SectionThrows, RunThrows, Throw, RunThrown, ReturnResults,
                        CommitSection, RevertSection, Commits, Executes
    <3> QED
      BY <3>2, <3>3, <3>4
  <2>6. \A q \in Requests, i \in 1..MaxBundle : PrepAdvances(q, i) \/ prep'[q][i] = prep[q][i]
    <3>1. CASE UNCHANGED prep
      BY <3>1
    <3>2. CASE FinishRevert(s) /\ ~IsMain(s)
      <4>1. Index(s) \in 1..MaxBundle /\ prep[Owner(s)][Index(s)] = "estimate"
        <5>1. Index(s) \in 1..MaxBundle /\ phase[s] = "restoring"
          BY <1>2, <3>2 DEF IsMain, FinishRevert
        <5> QED
          BY <1>2, <5>1 DEF IInv, TypeInv, PrepFits
      <4>2. PICK p \in {"ready", "failed"} : prep' = [prep EXCEPT ![Owner(s)][Index(s)] = p]
        BY <3>2 DEF FinishRevert
      <4> QED
        BY <1>1, <1>2, <4>1, <4>2, PrepStages DEF PrepAdvances
    <3> QED
      BY <1>4, <3>1, <3>2 DEF SectionThrows, RunThrows, Throw, RunThrown, ReturnResults,
                              CommitSection, RevertSection, FinishRevert
  <2> QED
    BY <2>4, <2>5, <2>6 DEF WorkStep
<1> QED
  BY <1>3, <1>4 DEF SectionStep

\* Every step of the engine, or of its callers, advances.
LEMMA NextAdvances ==
  ASSUME IInv, EstimatesOnce, Next
  PROVE  WorkStep
BY SubmitAdvances, PrepareAdvances, RequestStepAdvances, SectionStepAdvances DEF Next, Continue

\* Nothing opens the section of an estimate but the step that populates its
\* transaction.
LEMMA OpensWhenPopulated ==
  ASSUME IInv, Next, NEW r \in Requests, NEW i \in 1..MaxBundle,
         phase[<<r, i>>] = "idle", phase'[<<r, i>>] # "idle"
  PROVE  prep'[r][i] = "estimate"
<1>1. /\ phase \in [Sections -> Phases]
      /\ prep \in [Requests -> [1..MaxBundle -> PrepStates]]
  BY DEF IInv, TypeInv, TypeOK
<1>2. <<r, i>> \in Sections /\ \A q \in Requests : Main(q) \in Sections /\ Main(q) # <<r, i>>
  BY MainIsSection DEF Main
<1>3. ASSUME NEW q \in Requests, Submit(q) \/ RequestStep(q) PROVE FALSE
  <2>1. UNCHANGED phase \/ \E ph : phase' = [phase EXCEPT ![Main(q)] = ph]
    BY <1>3 DEF Submit, Call, CallWithoutTo, EstimateGas, ExecuteTyped, ExecuteBundle, SetState,
                OpenSection, RequestStep, SetStateLands, SetStateFails, StartExecution,
                BeginBlock, NoLastBlock, Throw
  <2> QED
    BY <1>1, <1>2, <2>1
<1>4. ASSUME NEW s \in Sections, SectionStep(s) PROVE FALSE
  <2>1. phase[s] # "idle"
    BY <1>4 DEF SectionStep, EnterRun, RunCall, RunTransaction, SectionThrows, RunThrows,
                RunThrown, ReturnResults, CommitSection, RevertSection, RestoreCode, Restoring,
                FinishRevert
  <2>2. UNCHANGED phase \/ \E ph : phase' = [phase EXCEPT ![s] = ph]
    BY <1>4 DEF SectionStep, EnterRun, RunCall, RunTransaction, Ran, SectionThrows, RunThrows,
                Throw, RunThrown, ReturnResults, CommitSection, RevertSection, RestoreCode,
                FinishRevert
  <2> QED
    BY <1>1, <1>2, <2>1, <2>2
<1>5. ASSUME NEW q \in Requests, NEW k \in 1..MaxBundle,
             ReadNonce(q, k) \/ Populated(q, k) \/ PrepareFails(q, k)
      PROVE  prep'[r][i] = "estimate"
  <2>1. /\ Populated(q, k)
        /\ phase' = [phase EXCEPT ![<<q, k>>] = "running"]
        /\ prep' = [prep EXCEPT ![q][k] = "estimate"]
    BY <1>5 DEF ReadNonce, Populated, PrepareFails, OpenSection
  <2>2. q = r /\ k = i
    BY <1>1, <1>2, <2>1
  <2> QED
    BY <1>1, <2>1, <2>2
<1> QED
  BY <1>3, <1>4, <1>5 DEF Next, Continue, Prepare

\* The sections of estimates stay closed until then.
LEMMA EstimatesOnceNext ==
  ASSUME IInv, EstimatesOnce, [Next]_vars
  PROVE  EstimatesOnce'
<1>1. CASE UNCHANGED vars
  BY <1>1 DEF vars, EstimatesOnce
<1>2. CASE Next
  <2> SUFFICES ASSUME NEW r \in Requests, NEW i \in 1..MaxBundle,
                      prep'[r][i] \in {"none", "nonce", "populate"}
               PROVE  phase'[<<r, i>>] = "idle"
    BY DEF EstimatesOnce
  <2>1. PrepAdvances(r, i) \/ prep'[r][i] = prep[r][i]
    BY <1>2, NextAdvances DEF WorkStep
  <2>2. prep[r][i] \in {"none", "nonce", "populate"}
    <3>1. prep \in [Requests -> [1..MaxBundle -> PrepStates]]
      BY DEF IInv, TypeInv, TypeOK
    <3>2. prep[r][i] \in PrepStates
      BY <3>1
    <3> QED
      BY <2>1, <3>2, PrepStages DEF PrepAdvances, PrepStates
  <2> QED
    BY <1>2, <2>2, OpensWhenPopulated DEF EstimatesOnce
<1> QED
  BY <1>1, <1>2

LEMMA EstimatesOnceInit == Init => EstimatesOnce
BY MainIsSection DEF Init, EstimatesOnce

\* Whatever overlaps, fails or throws, nothing the engine has done is set back,
\* and every step of its own brings some section, preparation or promise forward
\* (the finally blocks, Promise.all and the loop of OverriddenStateManager.revert).
THEOREM WorkAlwaysAdvances == Spec => WorkAdvances
<1>1. IInv /\ EstimatesOnce /\ [Next]_vars => [WorkStep]_vars
  BY NextAdvances
<1>2. IInv /\ EstimatesOnce /\ [Next]_vars => (IInv /\ EstimatesOnce)'
  BY NextIInv, EstimatesOnceNext
<1>3. Init => IInv /\ EstimatesOnce
  BY InitIInv, EstimatesOnceInit
<1> QED
  BY <1>1, <1>2, <1>3, PTL DEF Spec, WorkAdvances

=============================================================================
