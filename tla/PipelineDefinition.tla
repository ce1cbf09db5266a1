-------------------------- MODULE PipelineDefinition --------------------------
(***************************************************************************)
(* One pipeline definition: PipelineDefinition in                          *)
(* src/dags/pipelinedefinition.cpp and the part of PipelineFactory and of  *)
(* ModelManager that creates, reloads, revalidates and retires it.         *)
(*                                                                         *)
(* The manager thread (one at a time, under configMtx) runs those          *)
(* procedures and changes the used models.  Request threads wait for the   *)
(* definition under a guard and create a Pipeline from its node infos.     *)
(* A request to a model whose shape or batch size is "auto" reloads that   *)
(* model in its own thread and notifies the pipelines subscribed to it, at *)
(* any time.  Changes of the state are taken as atomic.                    *)
(***************************************************************************)
EXTENDS Integers, FiniteSets, PipelineDefinitionStatus

CONSTANTS Requests,      \* predict requests to the pipeline
          Models,        \* models (or model versions) that nodes may use
          AutoModels,    \* those that requests reload with another shape
          Configs,       \* configurations the pipeline may be given
          NoConfig,      \* no node infos: the pipeline was retired
          Uses,          \* Uses[c]: the models of the DL nodes of c
          Customs,       \* Customs[c]: the names of the custom nodes of c
          MaxOps         \* bound on the manager's operations

ASSUME ConstantsAssumption ==
  /\ IsFiniteSet(Requests)
  /\ AutoModels \subseteq Models
  /\ NoConfig \notin Configs
  /\ DOMAIN Uses = Configs /\ DOMAIN Customs = Configs
  /\ \A c \in Configs : Uses[c] \subseteq Models
  /\ MaxOps \in Nat

VARIABLES
  defined,      \* the factory knows the definition
  status,       \* the state of the definition
  config,       \* nodeInfos and connections
  resources,    \* names of the custom nodes in nodeResources
  subscribed,   \* the models that have this pipeline in their subscriptions
  version,      \* version[m]: how often m was (re)loaded or unloaded; 0: no m
  up,           \* up[m]: m is AVAILABLE
  seen,         \* versions of the models that the metadata was taken from
  handles,      \* requestsHandlesCounter
  proc,         \* the procedure the manager thread runs, or "none"
  step,         \* where it is
  next,         \* the configuration it was called with
  pc,           \* where each request is
  notifying,    \* auto models that are about to notify this pipeline
  thrown,       \* threads that met std::logic_error: "manager", "request"
  ops           \* number of manager operations so far

vars == <<defined, status, config, resources, subscribed, version, up, seen,
          handles, proc, step, next, pc, notifying, thrown, ops>>

definitionVars == <<config, resources, subscribed, seen>>
managerVars == <<proc, step, next, ops>>
modelVars == <<version, up>>

Init ==
  /\ defined = FALSE
  /\ status = "BEGIN"
  /\ config = NoConfig
  /\ resources = {}
  /\ subscribed = {}
  /\ up \in [Models -> BOOLEAN]     \* models are loaded before pipelines
  /\ version = [m \in Models |-> IF up[m] THEN 1 ELSE 0]
  /\ seen = version
  /\ handles = 0
  /\ proc = "none"
  /\ step = "none"
  /\ next = NoConfig
  /\ pc = [r \in Requests |-> "new"]
  /\ notifying = {}
  /\ thrown = {}
  /\ ops = 0

\* The thread t lets the definition handle event e.
Handle(e, t) ==
  /\ status' = After(status, e)
  /\ thrown' = IF status \in Expects(e) THEN thrown ELSE thrown \cup {t}

Run(p, s, c) == proc' = p /\ step' = s /\ next' = c

Return == Run("none", "none", NoConfig)

Continue(s) == step' = s /\ UNCHANGED <<proc, next>>

Operation == proc = "none" /\ ops < MaxOps /\ ops' = ops + 1

-----------------------------------------------------------------------------
(* The manager thread: models.                                             *)

\* reloadModelWithVersions refuses an "auto" model that a pipeline subscribed
\* to; such a model can still be retired.
MayBeUp(m) == IF m \in AutoModels \cap subscribed THEN {FALSE} ELSE BOOLEAN

\* Mutant: the subscribers of the model are not notified.
ChangeModelSilently(m) ==
  /\ Operation
  /\ version' = [version EXCEPT ![m] = @ + 1]
  /\ \E u \in MayBeUp(m) : up' = [up EXCEPT ![m] = u]
  /\ UNCHANGED <<defined, status, definitionVars, handles, proc, step, next, pc,
                 notifying, thrown>>

\* Model m is added, loaded with another configuration, or retired; its
\* subscribers are notified by the same thread.
ChangeModel(m) ==
  /\ Operation
  /\ version' = [version EXCEPT ![m] = @ + 1]
  /\ \E u \in MayBeUp(m) : up' = [up EXCEPT ![m] = u]
  /\ IF m \in subscribed THEN Handle("UsedModelChanged", "manager")
                         ELSE UNCHANGED <<status, thrown>>
  /\ UNCHANGED <<defined, definitionVars, handles, proc, step, next, pc,
                 notifying>>

-----------------------------------------------------------------------------
(* The manager thread: the definition.                                     *)

\* PipelineFactory::createDefinition: a new object, not yet in the factory.
Create(c) ==
  /\ Operation
  /\ ~defined
  /\ status' = "BEGIN"
  /\ config' = c
  /\ resources' = {}
  /\ Run("create", "subscribe", c)
  /\ UNCHANGED <<defined, subscribed, modelVars, seen, handles, pc, notifying,
                 thrown>>

\* reload: the ReloadEvent blocks new guards.
Reload(c) ==
  /\ Operation
  /\ defined
  /\ Handle("Reload", "manager")
  /\ Run("reload", "unsubscribe", c)
  /\ UNCHANGED <<defined, definitionVars, modelVars, handles, pc, notifying>>

\* retireOtherThan calls retire on a definition that is not retired.
Retire ==
  /\ Operation
  /\ defined
  /\ status # "RETIRED"
  /\ Run("retire", "unsubscribe", NoConfig)
  /\ UNCHANGED <<defined, status, definitionVars, modelVars, handles, pc,
                 notifying, thrown>>

\* Mutant: a pipeline that failed to load is not validated again.
RevalidateAvailable ==
  /\ proc = "none"
  /\ defined
  /\ status = "AVAILABLE_REQUIRED_REVALIDATION"
  /\ Run("revalidate", "initialize", config)
  /\ UNCHANGED <<defined, status, definitionVars, modelVars, handles, pc,
                 notifying, thrown, ops>>

\* revalidatePipelines, in every cycle of the watcher.
Revalidate ==
  /\ proc = "none"
  /\ defined
  /\ isRevalidationRequired(status)
  /\ Run("revalidate", "initialize", config)
  /\ UNCHANGED <<defined, status, definitionVars, modelVars, handles, pc,
                 notifying, thrown, ops>>

\* resetSubscriptions.
Unsubscribe ==
  /\ step = "unsubscribe"
  /\ subscribed' = {}
  /\ Continue(IF proc = "reload" THEN "drain" ELSE "retire")
  /\ UNCHANGED <<defined, status, config, resources, modelVars, seen, handles,
                 pc, notifying, thrown, ops>>

\* retire blocks new guards.
RetireEvent ==
  /\ step = "retire"
  /\ Handle("Retire", "manager")
  /\ Continue("drain")
  /\ UNCHANGED <<defined, definitionVars, modelVars, handles, pc, notifying, ops>>

\* Mutant: the requests that create a pipeline are not waited for.
DrainUnchecked ==
  /\ step = "drain"
  /\ Continue("replace")
  /\ UNCHANGED <<defined, status, definitionVars, modelVars, handles, pc,
                 notifying, thrown, ops>>

Drain ==
  /\ step = "drain"
  /\ handles = 0
  /\ Continue("replace")
  /\ UNCHANGED <<defined, status, definitionVars, modelVars, handles, pc,
                 notifying, thrown, ops>>

\* reload drops the resources of the custom nodes that the new configuration
\* does not name (the others keep what they were initialized with) and takes
\* the new node infos.
ReplaceConfig ==
  /\ step = "replace"
  /\ proc = "reload"
  /\ resources' = resources \cap Customs[next]
  /\ config' = next
  /\ Continue("subscribe")
  /\ UNCHANGED <<defined, status, subscribed, modelVars, seen, handles, pc,
                 notifying, thrown, ops>>

\* retire drops everything.
ClearConfig ==
  /\ step = "replace"
  /\ proc = "retire"
  /\ resources' = {}
  /\ config' = NoConfig
  /\ Return
  /\ UNCHANGED <<defined, status, subscribed, modelVars, seen, handles, pc,
                 notifying, thrown, ops>>

\* makeSubscriptions: a model that does not exist yet is passed over.
Subscribe ==
  /\ step = "subscribe"
  /\ subscribed' = {m \in Uses[config] : version[m] > 0}
  /\ Continue("initialize")
  /\ UNCHANGED <<defined, status, config, resources, modelVars, seen, handles,
                 pc, notifying, thrown, ops>>

\* The name is occupied by a model: validation fails and a definition that is
\* being created is thrown away.
NameOccupied ==
  /\ step = "initialize"
  /\ Handle("ValidationFailed", "manager")
  /\ subscribed' = IF proc = "create" THEN {} ELSE subscribed
  /\ Return
  /\ UNCHANGED <<defined, config, resources, modelVars, seen, handles, pc,
                 notifying, ops>>

\* initializeNodeResources: emplace keeps what is there.  It stops at the
\* first library that fails.
InitializeNodeResources ==
  /\ step = "initialize"
  /\ \/ /\ resources' = resources \cup Customs[config]
        /\ Continue("validate")
     \/ /\ \E done \in SUBSET Customs[config] :
             /\ done # Customs[config]
             /\ resources' = resources \cup done
        /\ Continue("failed")
  /\ UNCHANGED <<defined, status, config, subscribed, modelVars, seen, handles,
                 pc, notifying, thrown, ops>>

\* validateNodes and the checks of the graph, then updateInputsInfo and
\* updateOutputsInfo: nodes may only use models that are available and whose
\* shape and batch size are not "auto".
ValidateNodes ==
  /\ step = "validate"
  /\ \/ /\ \A m \in Uses[config] : up[m] /\ m \notin AutoModels
        /\ seen' = version
        /\ Continue("passed")
     \/ /\ Continue("failed")
        /\ UNCHANGED seen
  /\ UNCHANGED <<defined, status, config, resources, subscribed, modelVars,
                 handles, pc, notifying, thrown, ops>>

\* ~ValidationResultNotifier; createDefinition adds the definition to the
\* factory, valid or not.
NotifyResult ==
  /\ step \in {"passed", "failed"}
  /\ Handle(IF step = "passed" THEN "ValidationPassed" ELSE "ValidationFailed",
            "manager")
  /\ defined' = TRUE
  /\ Return
  /\ UNCHANGED <<definitionVars, modelVars, handles, pc, notifying, ops>>

-----------------------------------------------------------------------------
(* Requests to an auto model: loadModelImpl and unloadModelComponents      *)
(* notify the subscribers from the request's thread.                       *)

FindSubscriber(m) ==
  /\ m \in (AutoModels \cap subscribed) \ notifying
  /\ up[m]
  /\ notifying' = notifying \cup {m}
  /\ UNCHANGED <<defined, status, definitionVars, modelVars, handles,
                 managerVars, pc, thrown>>

NotifyUsedModelChanged(m) ==
  /\ m \in notifying
  /\ notifying' = notifying \ {m}
  /\ Handle("UsedModelChanged", "request")
  /\ UNCHANGED <<defined, definitionVars, modelVars, handles, managerVars, pc>>

-----------------------------------------------------------------------------
(* Requests to the pipeline: waitForLoaded and create.                     *)

Goto(r, l) == pc' = [pc EXCEPT ![r] = l]

requestUnchanged == <<defined, status, definitionVars, modelVars, managerVars,
                      notifying, thrown>>

\* PipelineFactory::create finds the definition; waitForLoaded takes a guard.
Arrive(r) ==
  /\ pc[r] = "new"
  /\ defined
  /\ handles' = handles + 1
  /\ Goto(r, "check")
  /\ UNCHANGED requestUnchanged

\* Mutant: the guard is kept while the request waits.
CheckAvailableKeepsGuard(r) ==
  /\ pc[r] \in {"check", "last"}
  /\ Goto(r, IF isAvailable(status) THEN "creating"
             ELSE IF pc[r] = "check" THEN "ended" ELSE "done")
  /\ UNCHANGED <<handles, requestUnchanged>>

\* The state is looked at under the guard; after the last timestep ("last")
\* the request gives up.
CheckAvailable(r) ==
  /\ pc[r] \in {"check", "last"}
  /\ \/ /\ isAvailable(status)
        /\ Goto(r, "creating")
        /\ UNCHANGED handles
     \/ /\ ~isAvailable(status)
        /\ handles' = handles - 1
        /\ Goto(r, IF pc[r] = "check" THEN "ended" ELSE "done")
  /\ UNCHANGED requestUnchanged

\* canEndLoaded reads the state twice, isAvailable being the second read.
CanEndLoaded(r) ==
  /\ \/ /\ pc[r] = "ended"
        /\ Goto(r, IF MayBecomeLoaded(status) THEN "waiting" ELSE "endedAgain")
     \/ /\ pc[r] = "endedAgain"
        /\ Goto(r, IF isAvailable(status) THEN "waiting" ELSE "done")
  /\ UNCHANGED <<handles, requestUnchanged>>

\* The condition variable is notified or a timestep ends: a guard is taken.
Wake(r) ==
  /\ pc[r] = "waiting"
  /\ handles' = handles + 1
  /\ Goto(r, "check")
  /\ UNCHANGED requestUnchanged

\* The same when it was the last timestep.
Timeout(r) ==
  /\ pc[r] = "waiting"
  /\ handles' = handles + 1
  /\ Goto(r, "last")
  /\ UNCHANGED requestUnchanged

\* The nodes are created from the node infos, connections and resources; then
\* the guard is dropped.
CreatePipeline(r) ==
  /\ pc[r] = "creating"
  /\ handles' = handles - 1
  /\ Goto(r, "done")
  /\ UNCHANGED requestUnchanged

-----------------------------------------------------------------------------

ProcedureStep ==
  \/ Unsubscribe \/ RetireEvent \/ Drain \/ ReplaceConfig \/ ClearConfig
  \/ Subscribe \/ NameOccupied \/ InitializeNodeResources \/ ValidateNodes
  \/ NotifyResult

ManagerOperation ==
  \/ \E m \in Models : ChangeModel(m)
  \/ \E c \in Configs : Create(c) \/ Reload(c)
  \/ Retire

RequestStep(r) ==
  \/ CheckAvailable(r) \/ CanEndLoaded(r) \/ Wake(r) \/ Timeout(r)
  \/ CreatePipeline(r)

Next ==
  \/ ManagerOperation \/ Revalidate \/ ProcedureStep
  \/ \E m \in AutoModels : FindSubscriber(m) \/ NotifyUsedModelChanged(m)
  \/ \E r \in Requests : Arrive(r) \/ RequestStep(r)

Spec == Init /\ [][Next]_vars

\* Threads keep running; the watcher revalidates in every cycle; a request
\* waits a bounded number of timesteps.
Fairness ==
  /\ WF_vars(ProcedureStep) /\ WF_vars(Revalidate)
  /\ \A r \in Requests : WF_vars(RequestStep(r)) /\ SF_vars(Timeout(r))

FairSpec == Spec /\ Fairness

-----------------------------------------------------------------------------
(* Properties.                                                             *)

\* A request that creates a pipeline finds node infos and a resource for each
\* custom node in them (nodeResources.at would throw), although a revalidation
\* may be initializing resources at the same time.
CreatesFromCompleteDefinition ==
  \A r \in Requests : pc[r] = "creating" =>
    config # NoConfig /\ Customs[config] \subseteq resources

\* A definition that is AVAILABLE, with no revalidation pending, has the
\* metadata of the current version of every used model it is subscribed to, and
\* each of them is available: no change of these models goes unnoticed.
AvailableIsFresh ==
  status = "AVAILABLE" =>
    \A m \in Uses[config] \cap subscribed : seen[m] = version[m] /\ up[m]

\* Every procedure of the manager thread ends, so that the watcher goes on.
ProceduresEnd == proc # "none" ~> proc = "none"

\* "there is revalidation pending since we know that one of used models
\* changed" (pipelinedefinitionstatus.hpp): it does not stay pending.
RevalidationHappens ==
  defined /\ isRevalidationRequired(status) ~> ~isRevalidationRequired(status)

=============================================================================
