---------------------------- MODULE ModelInstance ----------------------------
(***************************************************************************)
(* The life of one loaded model version: ModelInstance in                  *)
(* src/modelinstance.cpp with its ModelVersionStatus and the               *)
(* ModelInstanceUnloadGuard that predict requests hold.                    *)
(*                                                                         *)
(* Two kinds of threads meet here.  The manager thread (config watcher or  *)
(* config-reload API; one at a time, under the manager's configMtx) loads, *)
(* reloads, retires and cleans up the version.  Request threads take a     *)
(* guard, check the state and infer; when the request's shape differs from *)
(* the compiled one they reload the version themselves, after dropping     *)
(* their guard.  loadingMutex admits one loading thread at a time.  The    *)
(* guard count and the state are read and written without a common lock.   *)
(* Here they are sequentially consistent: each state change is followed by *)
(* logStatus, whose sink mutex orders it before the next read of the count.*)
(***************************************************************************)
EXTENDS Integers, FiniteSets

CONSTANTS Requests,        \* predict requests
          Shapes,          \* shapes a request or the compiled model can have
          DefaultShape,    \* the shape the configuration asks for
          MaxOps           \* bound on the number of manager operations

ASSUME RequestsAssumption ==
  IsFiniteSet(Requests) /\ "manager" \notin Requests /\ "none" \notin Requests
ASSUME ShapesAssumption ==
  /\ DefaultShape \in Shapes
  /\ "no model" \notin Shapes /\ "mixed" \notin Shapes
ASSUME MaxOpsAssumption == MaxOps \in Nat

Manager == "manager"
Nobody  == "none"
NoModel == "no model"      \* compiledModel and queue are reset
Mixed   == "mixed"         \* a load failed after replacing some components

VARIABLES
  state,         \* ModelVersionStatus::state
  errorCode,     \* ModelVersionStatus::errorCode
  handles,       \* predictRequestsHandlesCount
  loader,        \* owner of loadingMutex, or Nobody
  plan,          \* the loading procedure its owner runs, or "none"
  stage,         \* where in it the owner is
  compiled,      \* shape of model, compiledModel and inferRequestsQueue
  loaderChanged, \* isCustomLoaderConfigChanged
  pc,            \* where each request is
  shape,         \* the shape of each request's inputs
  ops            \* number of manager operations so far

vars == <<state, errorCode, handles, loader, plan, stage, compiled,
          loaderChanged, pc, shape, ops>>

States == {"START", "LOADING", "AVAILABLE", "UNLOADING", "END"}

\* Procedures that end with loadModelImpl ...
LoadPlans == {"load", "reload", "reshape", "fullReload", "recoverReload"}
\* ... and those that end with unloadModelComponents.
UnloadPlans == {"retire", "cleanup", "fullRetire", "recoverRetire"}
Plans == LoadPlans \cup UnloadPlans
ManagerPlans == {"load", "reload", "retire", "cleanup"}
\* Loads with the shape of the request that runs them.
DynamicPlans == {"reshape", "fullReload"}

Stages == {"none", "wait", "waitAgain", "unloadFirst", "change", "failed",
           "unloaded", "guard"}

PCs == {"new", "check", "waiting", "recheck", "again", "validate", "blocked",
        "reloading", "infer", "done"}

\* willEndUnloaded: UNLOADING <= state.
WillEndUnloaded(s) == s \in {"UNLOADING", "END"}

Init ==
  /\ state = "START"
  /\ errorCode = "OK"
  /\ handles = 0
  /\ loader = Nobody
  /\ plan = "none"
  /\ stage = "none"
  /\ compiled = NoModel
  /\ loaderChanged = FALSE
  /\ pc = [r \in Requests |-> "new"]
  /\ shape \in [Requests -> Shapes]
  /\ ops = 0

Goto(r, l) == pc' = [pc EXCEPT ![r] = l]

-----------------------------------------------------------------------------
(* Loading procedures, run by the owner of loadingMutex.                   *)

SetStatus(s, e) == state' = s /\ errorCode' = e

\* The status a procedure sets first: setLoading(), setLoading(UNKNOWN) in
\* cleanupFailedLoad, setUnloading() in retireModel(permanent).
FirstStatus(p) ==
  CASE p = "retire"  -> SetStatus("UNLOADING", "OK")
    [] p = "cleanup" -> SetStatus("LOADING", "UNKNOWN")
    [] OTHER         -> SetStatus("LOADING", "OK")

\* The procedure sets its status; all but loadModel then wait for the guards.
Run(p) ==
  /\ plan' = p
  /\ stage' = IF p = "load" THEN "change" ELSE "wait"
  /\ FirstStatus(p)

Unlock ==
  /\ loader' = Nobody
  /\ plan' = "none"
  /\ stage' = "none"

\* getVersionsToChange found that the options of the custom loader changed
\* (setCustomLoaderConfigChangeFlag); loadingMutex is not held.
FlagLoaderChange ==
  /\ 0 < ops /\ ops < MaxOps
  /\ loader # Manager
  /\ ~loaderChanged
  /\ loaderChanged' = TRUE
  /\ UNCHANGED <<state, errorCode, handles, loader, plan, stage, compiled, pc,
                 shape, ops>>

\* The manager thread calls loadModel on the new instance, later reloadModel,
\* retireModel or cleanupFailedLoad in any state of the version.
ManagerStart(p) ==
  /\ ops < MaxOps
  /\ p = "load" <=> ops = 0
  /\ loader = Nobody
  /\ loader' = Manager
  /\ ops' = ops + 1
  /\ Run(p)
  /\ UNCHANGED <<handles, compiled, loaderChanged, pc, shape>>

\* Mutant: the procedure does not wait for the guards.
DrainedUnchecked ==
  /\ stage = "wait"
  /\ stage' = "change"
  /\ UNCHANGED <<state, errorCode, handles, loader, plan, compiled,
                 loaderChanged, pc, shape, ops>>

\* A poll of canUnloadInstance finds no guard.  A reload whose custom loader
\* options changed goes on with retireModel(false), which waits once more.
Drained ==
  /\ stage = "wait"
  /\ handles = 0
  /\ IF plan \in LoadPlans /\ loaderChanged
       THEN stage' = "waitAgain" /\ loaderChanged' = FALSE
       ELSE stage' = "change" /\ UNCHANGED loaderChanged
  /\ UNCHANGED <<state, errorCode, handles, loader, plan, compiled, pc, shape,
                 ops>>

DrainedAgain ==
  /\ stage = "waitAgain"
  /\ handles = 0
  /\ stage' = "unloadFirst"
  /\ UNCHANGED <<state, errorCode, handles, loader, plan, compiled,
                 loaderChanged, pc, shape, ops>>

\* unloadModelComponents in the middle of reloadModel.
UnloadFirst ==
  /\ stage = "unloadFirst"
  /\ compiled' = NoModel
  /\ stage' = "change"
  /\ UNCHANGED <<state, errorCode, handles, loader, plan, loaderChanged, pc,
                 shape, ops>>

\* unloadModelComponents: queue, compiled model and model are reset.
Unload ==
  /\ stage = "change"
  /\ plan \in UnloadPlans
  /\ compiled' = NoModel
  /\ stage' = "unloaded"
  /\ UNCHANGED <<state, errorCode, handles, loader, plan, loaderChanged, pc,
                 shape, ops>>

\* What follows: the end of the manager's operation (setEnd for a permanent
\* retirement), or the reload that a request goes on with.
Unloaded ==
  /\ stage = "unloaded"
  /\ \/ /\ plan = "retire"
        /\ SetStatus("END", "OK")
        /\ Unlock
     \/ /\ plan = "cleanup"
        /\ Unlock
        /\ UNCHANGED <<state, errorCode>>
     \/ /\ plan = "fullRetire"
        /\ Run("fullReload")
        /\ UNCHANGED loader
     \/ /\ plan = "recoverRetire"
        /\ Run("recoverReload")
        /\ UNCHANGED loader
  /\ UNCHANGED <<handles, compiled, loaderChanged, pc, shape, ops>>

\* The shape loadModelImpl is asked for.
Requested == IF plan \in DynamicPlans THEN shape[loader] ELSE DefaultShape

\* loadModelImpl succeeds.  A request whose own reload succeeded still has to
\* take a guard; after recoverFromReloadingError it returns the error.
LoadSucceeds ==
  /\ stage = "change"
  /\ plan \in LoadPlans
  /\ compiled' = Requested
  /\ SetStatus("AVAILABLE", "OK")
  /\ \/ /\ plan \in DynamicPlans
        /\ stage' = "guard"
        /\ UNCHANGED <<loader, plan, pc>>
     \/ /\ plan = "recoverReload"
        /\ Goto(loader, "done")
        /\ Unlock
     \/ /\ plan \in ManagerPlans
        /\ Unlock
        /\ UNCHANGED pc
  /\ UNCHANGED <<handles, loaderChanged, shape, ops>>

\* loadModelImpl fails: the components are the old ones or a mixture.
LoadFails ==
  /\ stage = "change"
  /\ plan \in LoadPlans
  /\ compiled' \in {compiled, Mixed}
  /\ SetStatus("LOADING", "UNKNOWN")
  /\ \/ /\ plan \in DynamicPlans
        /\ stage' = "failed"
        /\ UNCHANGED <<loader, plan, pc>>
     \/ /\ plan = "recoverReload"
        /\ Goto(loader, "done")
        /\ Unlock
     \/ /\ plan \in ManagerPlans
        /\ Unlock
        /\ UNCHANGED pc
  /\ UNCHANGED <<handles, loaderChanged, shape, ops>>

\* reshapeWithFullReload, and after it recoverFromReloadingError, start with
\* retireModel(false).
RetryAfterFailure ==
  /\ stage = "failed"
  /\ Run(IF plan = "reshape" THEN "fullRetire" ELSE "recoverRetire")
  /\ UNCHANGED <<handles, loader, compiled, loaderChanged, pc, shape, ops>>

\* Mutant: no guard is taken after the reload.
GuardAfterReloadMissing ==
  /\ stage = "guard"
  /\ Goto(loader, "infer")
  /\ Unlock
  /\ UNCHANGED <<state, errorCode, handles, compiled, loaderChanged, shape, ops>>

\* The request takes its new guard before it unlocks loadingMutex.
GuardAfterReload ==
  /\ stage = "guard"
  /\ handles' = handles + 1
  /\ Goto(loader, "infer")
  /\ Unlock
  /\ UNCHANGED <<state, errorCode, compiled, loaderChanged, shape, ops>>

-----------------------------------------------------------------------------
(* Predict requests: waitForLoaded, then infer.                            *)

\* waitForLoaded takes a guard first ...
TakeGuard(r) ==
  /\ pc[r] = "new"
  /\ handles' = handles + 1
  /\ Goto(r, "check")
  /\ UNCHANGED <<state, errorCode, loader, plan, stage, compiled,
                 loaderChanged, shape, ops>>

\* Mutant: the guard goes out of scope in both cases.
CheckStateUnguarded(r) ==
  /\ pc[r] \in {"check", "recheck"}
  /\ handles' = handles - 1
  /\ Goto(r, IF state = "AVAILABLE" THEN "validate"
             ELSE IF pc[r] = "check" THEN "waiting" ELSE "again")
  /\ UNCHANGED <<state, errorCode, loader, plan, stage, compiled,
                 loaderChanged, shape, ops>>

\* ... and then looks at the state; it keeps the guard only of an AVAILABLE
\* version.
CheckState(r) ==
  /\ pc[r] \in {"check", "recheck"}
  /\ \/ /\ state = "AVAILABLE"
        /\ Goto(r, "validate")
        /\ UNCHANGED handles
     \/ /\ state # "AVAILABLE"
        /\ handles' = handles - 1
        /\ Goto(r, IF pc[r] = "check" THEN "waiting" ELSE "again")
  /\ UNCHANGED <<state, errorCode, loader, plan, stage, compiled,
                 loaderChanged, shape, ops>>

\* wait_for returns, notified or at the end of a timestep: guard again.
Wake(r) ==
  /\ pc[r] = "waiting"
  /\ handles' = handles + 1
  /\ Goto(r, "recheck")
  /\ UNCHANGED <<state, errorCode, loader, plan, stage, compiled,
                 loaderChanged, shape, ops>>

\* A version that is unloading is not waited for any longer.
CheckUnloading(r) ==
  /\ pc[r] = "again"
  /\ Goto(r, IF WillEndUnloaded(state) THEN "done" ELSE "waiting")
  /\ UNCHANGED <<state, errorCode, handles, loader, plan, stage, compiled,
                 loaderChanged, shape, ops>>

\* The checkpoints are used up: MODEL_VERSION_NOT_LOADED_YET or _ANYMORE.
Timeout(r) ==
  /\ pc[r] = "waiting"
  /\ Goto(r, "done")
  /\ UNCHANGED <<state, errorCode, handles, loader, plan, stage, compiled,
                 loaderChanged, shape, ops>>

\* validate finds the shape of the compiled model.
ValidateOk(r) ==
  /\ pc[r] = "validate"
  /\ compiled = shape[r]
  /\ Goto(r, "infer")
  /\ UNCHANGED <<state, errorCode, handles, loader, plan, stage, compiled,
                 loaderChanged, shape, ops>>

\* Mutant: the request reloads while it holds its own guard.
KeepGuardForReload(r) ==
  /\ pc[r] = "validate"
  /\ compiled # shape[r]
  /\ Goto(r, "blocked")
  /\ UNCHANGED <<state, errorCode, handles, loader, plan, stage, compiled,
                 loaderChanged, shape, ops>>

\* Another shape and an automatic shape or batch size: the request drops its
\* guard in order to reload.
ReleaseForReload(r) ==
  /\ pc[r] = "validate"
  /\ compiled # shape[r]
  /\ handles' = handles - 1
  /\ Goto(r, "blocked")
  /\ UNCHANGED <<state, errorCode, loader, plan, stage, compiled,
                 loaderChanged, shape, ops>>

\* The request locks loadingMutex and reloads with its shape ...
StartReshape(r) ==
  /\ pc[r] = "blocked"
  /\ loader = Nobody
  /\ loader' = r
  /\ Run("reshape")
  /\ Goto(r, "reloading")
  /\ UNCHANGED <<handles, compiled, loaderChanged, shape, ops>>

\* ... or returns INTERNAL_ERROR under the lock, for a request that has neither
\* a static batch size nor shapes.
RefuseReload(r) ==
  /\ pc[r] = "blocked"
  /\ loader = Nobody
  /\ Goto(r, "done")
  /\ UNCHANGED <<state, errorCode, handles, loader, plan, stage, compiled,
                 loaderChanged, shape, ops>>

\* infer returns, whatever its status (an invalid request returns from
\* validation): the guard goes away with the request.
Finish(r) ==
  /\ pc[r] \in {"validate", "infer"}
  /\ handles' = handles - 1
  /\ Goto(r, "done")
  /\ UNCHANGED <<state, errorCode, loader, plan, stage, compiled,
                 loaderChanged, shape, ops>>

-----------------------------------------------------------------------------

LoaderStep ==
  \/ Drained \/ DrainedAgain \/ UnloadFirst \/ Unload \/ Unloaded
  \/ LoadSucceeds \/ LoadFails \/ RetryAfterFailure \/ GuardAfterReload

WaitForLoadedStep(r) ==
  CheckState(r) \/ Wake(r) \/ CheckUnloading(r) \/ Timeout(r)

InferStep(r) == ValidateOk(r) \/ ReleaseForReload(r) \/ Finish(r)

ReloadStep(r) == StartReshape(r) \/ RefuseReload(r)

RequestStep(r) == WaitForLoadedStep(r) \/ InferStep(r) \/ ReloadStep(r)

Next ==
  \/ \E p \in ManagerPlans : ManagerStart(p)
  \/ FlagLoaderChange
  \/ LoaderStep
  \/ \E r \in Requests : TakeGuard(r) \/ RequestStep(r)

Spec == Init /\ [][Next]_vars

\* Threads keep running; a request waits a bounded number of timesteps; a
\* thread blocked on loadingMutex gets it when it is unlocked again and again.
Fairness ==
  /\ WF_vars(LoaderStep)
  /\ \A r \in Requests :
       /\ WF_vars(RequestStep(r))
       /\ SF_vars(Timeout(r))
       /\ SF_vars(ReloadStep(r))

FairSpec == Spec /\ Fairness

-----------------------------------------------------------------------------
(* Properties.                                                             *)

\* The state, the guard count and the loading procedure of a version keep the
\* values modelinstance.hpp declares; the guard count is never negative.
TypeOK ==
  /\ state \in States
  /\ errorCode \in {"OK", "UNKNOWN"}
  /\ handles \in Nat
  /\ loader \in Requests \cup {Manager, Nobody}
  /\ plan \in Plans \cup {"none"}
  /\ stage \in Stages
  /\ compiled \in Shapes \cup {NoModel, Mixed}
  /\ loaderChanged \in BOOLEAN
  /\ pc \in [Requests -> PCs]
  /\ shape \in [Requests -> Shapes]
  /\ ops \in 0 .. MaxOps

\* A request infers on components that are loaded and compiled for its own
\* shape, although nothing is validated again after a reload, the state and the
\* guard count are checked without a lock, and other requests and the manager
\* reload and retire the version at any time (modelinstance.cpp:992, "assure
\* that after reload predict request will block further requests for
\* reloading/unloading until inference is performed").
InfersOnItsShape == \A r \in Requests : pc[r] = "infer" => compiled = shape[r]

\* The components are replaced or reset only when no request validates against
\* them or infers on them.
NoChangeUnderRequest ==
  [][compiled' # compiled =>
       \A r \in Requests : pc[r] \notin {"validate", "infer"}]_vars

\* Every predict request returns, and so does every operation of the manager
\* thread, so that the configuration watcher keeps working: nobody waits for a
\* guard that only it could drop, for loadingMutex or for a state change for
\* ever.
EveryoneReturns ==
  /\ \A r \in Requests : pc[r] = "check" ~> pc[r] = "done"
  /\ loader = Manager ~> loader # Manager

\* A version that was retired (UNLOADING, END) comes back only by an operation
\* of the manager (modelversionstatus.hpp: "Check if current state is state
\* that is either transforming to END or already in that state").
RetiredStaysRetired ==
  [][WillEndUnloaded(state) /\ ~WillEndUnloaded(state') => loader' = Manager]_vars

=============================================================================
