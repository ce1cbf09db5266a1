---------------------- MODULE PipelineDefinition_proofs ----------------------
(***************************************************************************)
(* Proofs about a pipeline definition, for any number of requests, models, *)
(* configurations and manager operations.                                  *)
(***************************************************************************)
EXTENDS PipelineDefinition, FiniteSetTheorems, TLAPS

PCs == {"new", "check", "last", "ended", "endedAgain", "waiting", "creating", "done"}

Types ==
  /\ version \in [Models -> Nat]
  /\ up \in [Models -> BOOLEAN]
  /\ pc \in [Requests -> PCs]
  /\ config \in Configs \cup {NoConfig}
  /\ status \in States

\* The requests that hold a PipelineDefinitionUnloadGuard, and their number.
Guarded == {r \in Requests : pc[r] \in {"check", "last", "creating"}}
CountsGuards == handles = Cardinality(Guarded)

ValidationSteps == {"initialize", "validate", "passed", "failed"}

\* Each procedure goes through its own steps.
ProcedureRuns ==
  \/ proc = "none" /\ step = "none"
  \/ proc = "create" /\ ~defined /\ step \in {"subscribe"} \cup ValidationSteps
  \/ /\ proc = "reload" /\ next \in Configs
     /\ step \in {"unsubscribe", "drain", "replace", "subscribe"} \cup ValidationSteps
  \/ proc = "retire" /\ step \in {"unsubscribe", "retire", "drain", "replace"}
  \/ proc = "revalidate" /\ step \in ValidationSteps

\* A definition that is created or reloaded, and a retired one, is blocked: only
\* the result of the validation ends that.
BlockedStates == {"BEGIN", "RELOADING", "RETIRED"}
Blocked ==
  /\ proc \in {"create", "reload"} => status \in {"BEGIN", "RELOADING"}
  /\ proc = "retire" /\ step \in {"drain", "replace"} => status \in BlockedStates

\* Requests find only definitions that the factory knows.
NobodyBefore == ~defined => \A r \in Requests : pc[r] = "new"

\* Past the wait for the guards nobody creates a pipeline.
QuietPastDrain == step = "replace" => \A r \in Requests : pc[r] # "creating"

\* There are node infos unless the definition is blocked.
HasConfig ==
  /\ config = NoConfig => status \in BlockedStates
  /\ step \in {"subscribe"} \cup ValidationSteps => config \in Configs

\* An available definition has the resources of its custom nodes, and so has
\* one whose nodes are being validated.
Complete ==
  isAvailable(status) \/ step \in {"validate", "passed"}
    => config \in Configs /\ Customs[config] \subseteq resources

\* A validation that passed was made with the current models.
PassedIsFresh ==
  step = "passed" => \A m \in Uses[config] : seen[m] = version[m] /\ up[m]

IInv == /\ Types /\ CountsGuards /\ ProcedureRuns /\ Blocked /\ NobodyBefore
        /\ QuietPastDrain /\ HasConfig /\ Complete /\ PassedIsFresh
        /\ AvailableIsFresh /\ CreatesFromCompleteDefinition

\* Everything but the number of guards.
Rest == /\ Types /\ ProcedureRuns /\ Blocked /\ NobodyBefore
        /\ QuietPastDrain /\ HasConfig /\ Complete /\ PassedIsFresh
        /\ AvailableIsFresh /\ CreatesFromCompleteDefinition

-----------------------------------------------------------------------------
\* lemmas about the guards

\* There are finitely many guards, before and after a step.
LEMMA GuardedFinite == IsFiniteSet(Guarded) /\ IsFiniteSet(Guarded')
<1>1. Guarded \subseteq Requests /\ Guarded' \subseteq Requests
  BY DEF Guarded
<1> QED BY <1>1, ConstantsAssumption, FS_Subset

\* A new guard is counted once ...
LEMMA OneMoreGuard ==
  ASSUME CountsGuards, NEW r, r \notin Guarded,
         Guarded' = Guarded \cup {r}, handles' = handles + 1
  PROVE  CountsGuards'
BY GuardedFinite, FS_AddElement DEF CountsGuards

\* ... and a dropped one once.
LEMMA OneGuardLess ==
  ASSUME CountsGuards, NEW r \in Guarded,
         Guarded' = Guarded \ {r}, handles' = handles - 1
  PROVE  CountsGuards'
BY GuardedFinite, FS_RemoveElement DEF CountsGuards

\* Nobody creates a pipeline when no guard is held.
LEMMA NoGuardNobodyCreates ==
  ASSUME CountsGuards, handles = 0 PROVE \A r \in Requests : pc[r] # "creating"
<1>1. Guarded = {}
  BY GuardedFinite, FS_EmptySet DEF CountsGuards
<1> QED BY <1>1 DEF Guarded

-----------------------------------------------------------------------------
\* lemmas about the states

\* A change of a used model leaves a blocked definition blocked and an available
\* one available, but with a revalidation pending.
LEMMA AfterUsedModelChanged ==
  ASSUME NEW s \in States
  PROVE  /\ After(s, "UsedModelChanged") \in States \ {"AVAILABLE"}
         /\ isAvailable(After(s, "UsedModelChanged")) <=> isAvailable(s)
         /\ s \in BlockedStates => After(s, "UsedModelChanged") = s
         /\ s \notin BlockedStates => After(s, "UsedModelChanged") \notin BlockedStates
BY DEF After, Expects, Settled, States, isAvailable, isRevalidationRequired, BlockedStates

\* A reload and a retirement block the definition.
LEMMA AfterReloadAndRetire ==
  ASSUME NEW s \in States
  PROVE  /\ After(s, "Reload") \in {"BEGIN", "RELOADING"}
         /\ After(s, "Retire") \in BlockedStates
BY DEF After, Expects, Settled, States, isAvailable, isRevalidationRequired, BlockedStates

\* Only a validation that passed makes a definition available.
LEMMA AfterValidation ==
  ASSUME NEW s \in States
  PROVE  /\ After(s, "ValidationPassed") \in States
         /\ After(s, "ValidationFailed") \in States
         /\ isAvailable(After(s, "ValidationFailed")) => isAvailable(s)
         /\ After(s, "ValidationFailed") = "AVAILABLE" => s = "AVAILABLE"
         /\ s = "AVAILABLE" => After(s, "ValidationPassed") = s
BY DEF After, Expects, Settled, States, isAvailable, isRevalidationRequired, BlockedStates

-----------------------------------------------------------------------------
\* the steps

\* What the steps are shown to preserve, apart from the number of guards.
LEMMA ManagerSteps ==
  ASSUME IInv, ManagerOperation \/ Revalidate \/ ProcedureStep
                 \/ \E m \in AutoModels : FindSubscriber(m) \/ NotifyUsedModelChanged(m)
  PROVE  Rest'
<1> USE ConstantsAssumption DEF States, BlockedStates, isAvailable, isRevalidationRequired
<1>1. ASSUME NEW m \in Models, ChangeModel(m) PROVE Rest'
  <2>1. version' \in [Models -> Nat] /\ \A n \in Models \ {m} : version'[n] = version[n]
    BY <1>1 DEF IInv, Types, ChangeModel
  <2>2. up' \in [Models -> BOOLEAN] /\ \A n \in Models \ {m} : up'[n] = up[n]
    BY <1>1 DEF IInv, Types, ChangeModel, MayBeUp
  <2>3. /\ proc = "none" /\ step = "none"
        /\ UNCHANGED <<defined, config, resources, subscribed, seen, proc, step, next, pc>>
    BY <1>1 DEF IInv, ProcedureRuns, ChangeModel, Operation, definitionVars
  <2>4. CASE m \in subscribed
    <3>1. status' = After(status, "UsedModelChanged")
      BY <1>1, <2>4 DEF ChangeModel, Handle
    <3>2. /\ status' \in States \ {"AVAILABLE"}
          /\ isAvailable(status') <=> isAvailable(status)
          /\ status \in BlockedStates => status' \in BlockedStates
      BY <3>1, AfterUsedModelChanged DEF IInv, Types
    <3> QED
      BY <2>1, <2>2, <2>3, <3>2
      DEF IInv, Rest, Types, ProcedureRuns, Blocked, NobodyBefore, QuietPastDrain, HasConfig, Complete,
          PassedIsFresh, AvailableIsFresh, CreatesFromCompleteDefinition, ValidationSteps
  <2>5. CASE m \notin subscribed
    <3>1. status' = status
      BY <1>1, <2>5 DEF ChangeModel
    <3>2. AvailableIsFresh'
      <4>1. status = "AVAILABLE" => config \in Configs
        BY DEF IInv, Types, HasConfig
      <4> QED BY <2>1, <2>2, <2>3, <2>5, <3>1, <4>1 DEF IInv, AvailableIsFresh
    <3> QED
      BY <2>1, <2>2, <2>3, <3>1, <3>2
      DEF IInv, Rest, Types, ProcedureRuns, Blocked, NobodyBefore, QuietPastDrain, HasConfig, Complete,
          PassedIsFresh, CreatesFromCompleteDefinition, ValidationSteps
  <2> QED BY <2>4, <2>5
<1>2. ASSUME NEW c \in Configs, Create(c) PROVE Rest'
  BY <1>2
  DEF IInv, Rest, Types, ProcedureRuns, Blocked, NobodyBefore, QuietPastDrain, HasConfig,
      Complete, PassedIsFresh, AvailableIsFresh, CreatesFromCompleteDefinition,
      Create, Operation, Run, definitionVars, modelVars, ValidationSteps
<1>3. ASSUME NEW c \in Configs, Reload(c) PROVE Rest'
  BY <1>3, AfterReloadAndRetire
  DEF IInv, Rest, Types, ProcedureRuns, Blocked, NobodyBefore, QuietPastDrain, HasConfig,
      Complete, PassedIsFresh, AvailableIsFresh, CreatesFromCompleteDefinition,
      Reload, Operation, Handle, Run, definitionVars, modelVars, ValidationSteps
<1>4. ASSUME Retire PROVE Rest'
  BY <1>4
  DEF IInv, Rest, Types, ProcedureRuns, Blocked, NobodyBefore, QuietPastDrain, HasConfig,
      Complete, PassedIsFresh, AvailableIsFresh, CreatesFromCompleteDefinition,
      Retire, Operation, Run, definitionVars, modelVars, ValidationSteps
<1>5. ASSUME Revalidate PROVE Rest'
  BY <1>5
  DEF IInv, Rest, Types, ProcedureRuns, Blocked, NobodyBefore, QuietPastDrain, HasConfig,
      Complete, PassedIsFresh, AvailableIsFresh, CreatesFromCompleteDefinition,
      Revalidate, Run, definitionVars, modelVars, ValidationSteps
<1>6. ASSUME Unsubscribe PROVE Rest'
  BY <1>6
  DEF IInv, Rest, Types, ProcedureRuns, Blocked, NobodyBefore, QuietPastDrain, HasConfig,
      Complete, PassedIsFresh, AvailableIsFresh, CreatesFromCompleteDefinition,
      Unsubscribe, Continue, definitionVars, modelVars, ValidationSteps
<1>7. ASSUME RetireEvent PROVE Rest'
  BY <1>7, AfterReloadAndRetire
  DEF IInv, Rest, Types, ProcedureRuns, Blocked, NobodyBefore, QuietPastDrain, HasConfig,
      Complete, PassedIsFresh, AvailableIsFresh, CreatesFromCompleteDefinition,
      RetireEvent, Handle, Continue, definitionVars, modelVars, ValidationSteps
<1>8. ASSUME Drain PROVE Rest'
  BY <1>8, NoGuardNobodyCreates
  DEF IInv, Rest, Types, ProcedureRuns, Blocked, NobodyBefore, QuietPastDrain, HasConfig,
      Complete, PassedIsFresh, AvailableIsFresh, CreatesFromCompleteDefinition,
      Drain, Continue, definitionVars, modelVars, ValidationSteps
<1>9. ASSUME ReplaceConfig PROVE Rest'
  BY <1>9
  DEF IInv, Rest, Types, ProcedureRuns, Blocked, NobodyBefore, QuietPastDrain, HasConfig,
      Complete, PassedIsFresh, AvailableIsFresh, CreatesFromCompleteDefinition,
      ReplaceConfig, Continue, definitionVars, modelVars, ValidationSteps
<1>10. ASSUME ClearConfig PROVE Rest'
  BY <1>10
  DEF IInv, Rest, Types, ProcedureRuns, Blocked, NobodyBefore, QuietPastDrain, HasConfig,
      Complete, PassedIsFresh, AvailableIsFresh, CreatesFromCompleteDefinition,
      ClearConfig, Return, Run, definitionVars, modelVars, ValidationSteps
<1>11. ASSUME Subscribe PROVE Rest'
  BY <1>11
  DEF IInv, Rest, Types, ProcedureRuns, Blocked, NobodyBefore, QuietPastDrain, HasConfig,
      Complete, PassedIsFresh, AvailableIsFresh, CreatesFromCompleteDefinition,
      Subscribe, Continue, definitionVars, modelVars, ValidationSteps
<1>12. ASSUME NameOccupied PROVE Rest'
  BY <1>12, AfterValidation
  DEF IInv, Rest, Types, ProcedureRuns, Blocked, NobodyBefore, QuietPastDrain, HasConfig,
      Complete, PassedIsFresh, AvailableIsFresh, CreatesFromCompleteDefinition,
      NameOccupied, Handle, Return, Run, definitionVars, modelVars, ValidationSteps
<1>13. ASSUME InitializeNodeResources PROVE Rest'
  BY <1>13
  DEF IInv, Rest, Types, ProcedureRuns, Blocked, NobodyBefore, QuietPastDrain, HasConfig,
      Complete, PassedIsFresh, AvailableIsFresh, CreatesFromCompleteDefinition,
      InitializeNodeResources, Continue, definitionVars, modelVars, ValidationSteps
<1>14. ASSUME ValidateNodes PROVE Rest'
  BY <1>14
  DEF IInv, Rest, Types, ProcedureRuns, Blocked, NobodyBefore, QuietPastDrain, HasConfig,
      Complete, PassedIsFresh, AvailableIsFresh, CreatesFromCompleteDefinition,
      ValidateNodes, Continue, definitionVars, modelVars, ValidationSteps
<1>15. ASSUME NotifyResult PROVE Rest'
  BY <1>15, AfterValidation
  DEF IInv, Rest, Types, ProcedureRuns, Blocked, NobodyBefore, QuietPastDrain, HasConfig,
      Complete, PassedIsFresh, AvailableIsFresh, CreatesFromCompleteDefinition,
      NotifyResult, Handle, Return, Run, definitionVars, modelVars, ValidationSteps
<1>16. ASSUME NEW m \in AutoModels, FindSubscriber(m) PROVE Rest'
  BY <1>16
  DEF IInv, Rest, Types, ProcedureRuns, Blocked, NobodyBefore, QuietPastDrain, HasConfig,
      Complete, PassedIsFresh, AvailableIsFresh, CreatesFromCompleteDefinition,
      FindSubscriber, managerVars, definitionVars, modelVars, ValidationSteps
<1>17. ASSUME NEW m \in AutoModels, NotifyUsedModelChanged(m) PROVE Rest'
  BY <1>17, AfterUsedModelChanged
  DEF IInv, Rest, Types, ProcedureRuns, Blocked, NobodyBefore, QuietPastDrain, HasConfig,
      Complete, PassedIsFresh, AvailableIsFresh, CreatesFromCompleteDefinition,
      NotifyUsedModelChanged, Handle, managerVars, definitionVars, modelVars, ValidationSteps
<1> QED
  BY <1>1, <1>2, <1>3, <1>4, <1>5, <1>6, <1>7, <1>8, <1>9, <1>10, <1>11, <1>12, <1>13, <1>14, <1>15, <1>16, <1>17
  DEF ManagerOperation, ProcedureStep

\* A step of a request changes its place and the number of guards only.
LEMMA RequestStepFrame ==
  ASSUME NEW r \in Requests, Arrive(r) \/ RequestStep(r)
  PROVE  /\ UNCHANGED <<defined, status, config, resources, subscribed, version, up, seen,
                        proc, step, next>>
         /\ \E l \in PCs : pc' = [pc EXCEPT ![r] = l]
BY DEF Arrive, RequestStep, CheckAvailable, CanEndLoaded, Wake, Timeout, CreatePipeline, Goto,
       requestUnchanged, definitionVars, modelVars, managerVars, PCs

\* A request gets to the creation of a pipeline only if the definition is
\* available.
LEMMA CreatesWhenAvailable ==
  ASSUME NEW r \in Requests, Types, Arrive(r) \/ RequestStep(r)
  PROVE  /\ pc'[r] = "creating" => isAvailable(status)
         /\ defined \/ pc[r] # "new"
         /\ \A q \in Requests \ {r} : pc'[q] = pc[q]
BY DEF Types, Arrive, RequestStep, CheckAvailable, CanEndLoaded, Wake, Timeout, CreatePipeline,
       Goto, PCs

\* The steps of requests preserve the invariant, the number of guards aside.
LEMMA RequestSteps ==
  ASSUME IInv, NEW r \in Requests, Arrive(r) \/ RequestStep(r)
  PROVE  Rest'
<1>1. UNCHANGED <<defined, status, config, resources, subscribed, version, up, seen, proc,
                  step, next>>
  BY RequestStepFrame
<1>2. /\ pc'[r] = "creating" => isAvailable(status)
      /\ defined \/ pc[r] # "new"
      /\ \A q \in Requests \ {r} : pc'[q] = pc[q]
  BY CreatesWhenAvailable DEF IInv
<1>3. Types'
  <2>1. pc' \in [Requests -> PCs]
    BY RequestStepFrame DEF IInv, Types
  <2> QED BY <1>1, <2>1 DEF IInv, Types
<1>4. NobodyBefore'
  BY <1>1, <1>2 DEF IInv, NobodyBefore
<1>5. QuietPastDrain'
  <2>1. step = "replace" => ~isAvailable(status)
    BY DEF IInv, ProcedureRuns, Blocked, BlockedStates, ValidationSteps, isAvailable
  <2> QED BY <1>1, <1>2, <2>1 DEF IInv, QuietPastDrain
<1>6. CreatesFromCompleteDefinition'
  BY <1>1, <1>2, ConstantsAssumption DEF IInv, Complete, CreatesFromCompleteDefinition
<1> QED
  BY <1>1, <1>3, <1>4, <1>5, <1>6
  DEF IInv, Rest, ProcedureRuns, Blocked, HasConfig, Complete, PassedIsFresh, AvailableIsFresh

\* Every step changes the number of guards together with the places of the
\* requests.
LEMMA CountStep ==
  ASSUME IInv, Next
  PROVE  CountsGuards'
<1>1. ASSUME NEW r \in Requests, Arrive(r) \/ Wake(r) \/ Timeout(r) PROVE CountsGuards'
  <2>1. r \notin Guarded /\ handles' = handles + 1
    BY <1>1 DEF Arrive, Wake, Timeout, Guarded
  <2>2. Guarded' = Guarded \cup {r}
    BY <1>1 DEF IInv, Types, Arrive, Wake, Timeout, Goto, Guarded
  <2> QED BY <2>1, <2>2, OneMoreGuard DEF IInv
<1>2. ASSUME NEW r \in Requests, CheckAvailable(r) PROVE CountsGuards'
  <2>1. CASE isAvailable(status)
    <3>1. Guarded' = Guarded /\ handles' = handles
      BY <1>2, <2>1 DEF IInv, Types, CheckAvailable, Goto, Guarded
    <3> QED BY <3>1 DEF IInv, CountsGuards
  <2>2. CASE ~isAvailable(status)
    <3>1. r \in Guarded /\ handles' = handles - 1
      BY <1>2, <2>2 DEF CheckAvailable, Guarded
    <3>2. Guarded' = Guarded \ {r}
      BY <1>2, <2>2 DEF IInv, Types, CheckAvailable, Goto, Guarded
    <3> QED BY <3>1, <3>2, OneGuardLess DEF IInv
  <2> QED BY <2>1, <2>2
<1>3. ASSUME NEW r \in Requests, CanEndLoaded(r) PROVE CountsGuards'
  <2>1. Guarded' = Guarded /\ handles' = handles
    BY <1>3 DEF IInv, Types, CanEndLoaded, Goto, Guarded
  <2> QED BY <2>1 DEF IInv, CountsGuards
<1>4. ASSUME NEW r \in Requests, CreatePipeline(r) PROVE CountsGuards'
  <2>1. r \in Guarded /\ handles' = handles - 1
    BY <1>4 DEF CreatePipeline, Guarded
  <2>2. Guarded' = Guarded \ {r}
    BY <1>4 DEF IInv, Types, CreatePipeline, Goto, Guarded
  <2> QED BY <2>1, <2>2, OneGuardLess DEF IInv
<1>5. ASSUME UNCHANGED <<pc, handles>> PROVE CountsGuards'
  BY <1>5 DEF IInv, CountsGuards, Guarded
<1>6. ASSUME ManagerOperation \/ Revalidate \/ ProcedureStep
               \/ \E m \in AutoModels : FindSubscriber(m) \/ NotifyUsedModelChanged(m)
      PROVE  UNCHANGED <<pc, handles>>
  BY <1>6
  DEF ManagerOperation, ProcedureStep, ChangeModel, Create, Reload, Retire, Revalidate, Unsubscribe,
      RetireEvent, Drain, ReplaceConfig, ClearConfig, Subscribe, NameOccupied,
      InitializeNodeResources, ValidateNodes, NotifyResult, FindSubscriber, NotifyUsedModelChanged
<1> QED BY <1>1, <1>2, <1>3, <1>4, <1>5, <1>6 DEF Next, RequestStep

\* A definition that does not exist yet satisfies the inductive invariant.
LEMMA InitIInv == Init => IInv
<1> SUFFICES ASSUME Init PROVE IInv
  OBVIOUS
<1>1. Types
  BY DEF Init, Types, PCs, States
<1>2. CountsGuards
  <2>1. Guarded = {}
    BY DEF Init, Guarded
  <2> QED BY <2>1, FS_EmptySet DEF Init, CountsGuards
<1> QED
  BY <1>1, <1>2
  DEF Init, IInv, ProcedureRuns, Blocked, BlockedStates, NobodyBefore, QuietPastDrain, HasConfig,
      Complete, PassedIsFresh, AvailableIsFresh, CreatesFromCompleteDefinition, ValidationSteps,
      isAvailable

\* All conjuncts together are an invariant of the definition.
LEMMA IInvariance == Spec => []IInv
<1>1. ASSUME IInv, [Next]_vars PROVE IInv'
  <2>1. CASE Next
    <3>1. Rest'
      BY <1>1, <2>1, ManagerSteps, RequestSteps DEF Next
    <3> QED BY <1>1, <2>1, <3>1, CountStep DEF IInv, Rest
  <2>2. CASE UNCHANGED vars
    BY <1>1, <2>2
    DEF vars, IInv, Types, CountsGuards, Guarded, ProcedureRuns, Blocked, NobodyBefore,
        QuietPastDrain, HasConfig, Complete, PassedIsFresh, AvailableIsFresh,
        CreatesFromCompleteDefinition
  <2> QED BY <1>1, <2>1, <2>2
<1> QED BY <1>1, InitIInv, PTL DEF Spec

-----------------------------------------------------------------------------
\* Pipelines are always created from node infos with the resources of their
\* custom nodes, although reloads, retirements and revalidations go on in
\* another thread (pipelinedefinition.cpp:131, :166).
THEOREM CreationSafe == Spec => []CreatesFromCompleteDefinition
BY IInvariance, PTL DEF IInv

\* An available definition without a pending revalidation describes the models
\* it is subscribed to as they are (pipelinedefinition.hpp:139).
THEOREM MetadataFresh == Spec => []AvailableIsFresh
BY IInvariance, PTL DEF IInv

=============================================================================
