------------------------ MODULE ModelInstance_proofs ------------------------
(***************************************************************************)
(* Proofs about the life of a model version, for any number of requests,   *)
(* shapes and manager operations.                                          *)
(***************************************************************************)
EXTENDS ModelInstance, FiniteSetTheorems, TLAPS

\* The requests that hold a ModelInstanceUnloadGuard.
Guarded == {r \in Requests : pc[r] \in {"check", "recheck", "validate", "infer"}}

\* The requests that use the components.
Using == {r \in Requests : pc[r] \in {"validate", "infer"}}

\* predictRequestsHandlesCount counts the guards.
CountsGuards == handles = Cardinality(Guarded)

\* The owner of loadingMutex runs a procedure that its kind of thread can run.
LoaderRuns ==
  /\ loader = Nobody <=> plan = "none"
  /\ loader = Nobody <=> stage = "none"
  /\ loader = Manager <=> plan \in ManagerPlans
  /\ \A r \in Requests : pc[r] = "reloading" <=> loader = r
  /\ stage \in {"failed", "guard"} => plan \in DynamicPlans
  /\ stage = "unloaded" => plan \in UnloadPlans
  /\ stage \in {"waitAgain", "unloadFirst"} => plan \in LoadPlans

\* Before its first load nobody uses or reloads the version.
NotYetLoaded ==
  ops = 0 => /\ state = "START" /\ stage = "none"
             /\ \A r \in Requests :
                  pc[r] \notin {"validate", "infer", "blocked", "reloading"}

\* AVAILABLE is the state of a version that no procedure is about to change;
\* only the request that reloaded it may still hold loadingMutex.
AvailableIsStable == state = "AVAILABLE" => stage \in {"none", "guard"}

\* Past the wait for the guards nobody uses the components.
QuietPastWait ==
  stage \in {"waitAgain", "unloadFirst", "change", "failed", "unloaded"}
    => Using = {}

\* A request that reloaded the version finds its shape compiled.
ReloadedShape == stage = "guard" => compiled = shape[loader]

IInv ==
  /\ TypeOK /\ CountsGuards /\ LoaderRuns /\ NotYetLoaded
  /\ AvailableIsStable /\ QuietPastWait /\ ReloadedShape /\ InfersOnItsShape

-----------------------------------------------------------------------------
\* lemmas about the guards

\* There are finitely many guards, before and after a step.
LEMMA GuardedFinite == IsFiniteSet(Guarded) /\ IsFiniteSet(Guarded)'
<1>1. Guarded \subseteq Requests /\ Guarded' \subseteq Requests
  BY DEF Guarded
<1> QED BY <1>1, RequestsAssumption, FS_Subset

\* A new guard is counted once ...
LEMMA OneMoreGuard ==
  ASSUME CountsGuards, NEW r, r \notin Guarded,
         Guarded' = Guarded \cup {r}, handles' = handles + 1
  PROVE  CountsGuards'
BY GuardedFinite, FS_AddElement DEF CountsGuards

\* ... and a dropped one once.
LEMMA OneGuardLess ==
  ASSUME CountsGuards, NEW r \in Guarded,
         Guarded' = Guarded \ {r}, handles' = handles - 1
  PROVE  CountsGuards'
BY GuardedFinite, FS_RemoveElement DEF CountsGuards

\* canUnloadInstance means that nobody uses the components.
LEMMA NoGuardNoUser == ASSUME CountsGuards, handles = 0 PROVE Using = {}
<1>1. Guarded = {}
  BY GuardedFinite, FS_EmptySet DEF CountsGuards
<1> QED BY <1>1 DEF Guarded, Using

\* A version that was just constructed satisfies the inductive invariant.
LEMMA InitIInv == Init => IInv
<1> SUFFICES ASSUME Init PROVE IInv
  OBVIOUS
<1>1. TypeOK
  <2>1. pc \in [Requests -> PCs] /\ shape \in [Requests -> Shapes]
    BY DEF Init, PCs
  <2>2. ops \in 0 .. MaxOps /\ handles \in Nat
    BY MaxOpsAssumption DEF Init
  <2> QED BY <2>1, <2>2 DEF Init, TypeOK, States, Stages
<1>2. Guarded = {} /\ Using = {}
  BY DEF Init, Guarded, Using
<1>3. CountsGuards
  BY <1>2, FS_EmptySet DEF CountsGuards, Init
<1>4. LoaderRuns
  BY RequestsAssumption
  DEF Init, LoaderRuns, Nobody, Manager, ManagerPlans, DynamicPlans, UnloadPlans, LoadPlans
<1> QED
  BY <1>1, <1>2, <1>3, <1>4
  DEF Init, IInv, NotYetLoaded, AvailableIsStable, QuietPastWait, ReloadedShape, InfersOnItsShape

\* Every step keeps the owner of loadingMutex and the procedure in agreement.
LEMMA RunsStep ==
  ASSUME IInv, Next PROVE LoaderRuns'
<1>1. ASSUME NEW p \in ManagerPlans, ManagerStart(p) PROVE LoaderRuns'
  BY <1>1, RequestsAssumption, ShapesAssumption, MaxOpsAssumption
  DEF IInv, ManagerStart, Run, FirstStatus, SetStatus, TypeOK, LoaderRuns, Nobody, Manager, Plans, LoadPlans, UnloadPlans, ManagerPlans, DynamicPlans
<1>2. CASE FlagLoaderChange
  BY <1>2, RequestsAssumption, ShapesAssumption, MaxOpsAssumption
  DEF IInv, FlagLoaderChange, TypeOK, LoaderRuns, Nobody, Manager, Plans, LoadPlans, UnloadPlans, ManagerPlans, DynamicPlans
<1>3. CASE Drained
  BY <1>3, RequestsAssumption, ShapesAssumption, MaxOpsAssumption
  DEF IInv, Drained, TypeOK, LoaderRuns, Nobody, Manager, Plans, LoadPlans, UnloadPlans, ManagerPlans, DynamicPlans
<1>4. CASE DrainedAgain
  BY <1>4, RequestsAssumption, ShapesAssumption, MaxOpsAssumption
  DEF IInv, DrainedAgain, TypeOK, LoaderRuns, Nobody, Manager, Plans, LoadPlans, UnloadPlans, ManagerPlans, DynamicPlans
<1>5. CASE UnloadFirst
  BY <1>5, RequestsAssumption, ShapesAssumption, MaxOpsAssumption
  DEF IInv, UnloadFirst, TypeOK, LoaderRuns, Nobody, Manager, Plans, LoadPlans, UnloadPlans, ManagerPlans, DynamicPlans
<1>6. CASE Unload
  BY <1>6, RequestsAssumption, ShapesAssumption, MaxOpsAssumption
  DEF IInv, Unload, TypeOK, LoaderRuns, Nobody, Manager, Plans, LoadPlans, UnloadPlans, ManagerPlans, DynamicPlans
<1>7. CASE Unloaded
  BY <1>7, RequestsAssumption, ShapesAssumption, MaxOpsAssumption
  DEF IInv, Unloaded, Run, FirstStatus, SetStatus, Unlock, TypeOK, LoaderRuns, Nobody, Manager, Plans, LoadPlans, UnloadPlans, ManagerPlans, DynamicPlans
<1>8. CASE LoadSucceeds
  BY <1>8, RequestsAssumption, ShapesAssumption, MaxOpsAssumption
  DEF IInv, LoadSucceeds, SetStatus, Unlock, Goto, Requested, TypeOK, LoaderRuns, Nobody, Manager, Plans, LoadPlans, UnloadPlans, ManagerPlans, DynamicPlans
<1>9. CASE LoadFails
  BY <1>9, RequestsAssumption, ShapesAssumption, MaxOpsAssumption
  DEF IInv, LoadFails, SetStatus, Unlock, Goto, TypeOK, LoaderRuns, Nobody, Manager, Plans, LoadPlans, UnloadPlans, ManagerPlans, DynamicPlans
<1>10. CASE RetryAfterFailure
  BY <1>10, RequestsAssumption, ShapesAssumption, MaxOpsAssumption
  DEF IInv, RetryAfterFailure, Run, FirstStatus, SetStatus, TypeOK, LoaderRuns, Nobody, Manager, Plans, LoadPlans, UnloadPlans, ManagerPlans, DynamicPlans
<1>11. CASE GuardAfterReload
  BY <1>11, RequestsAssumption, ShapesAssumption, MaxOpsAssumption
  DEF IInv, GuardAfterReload, Unlock, Goto, TypeOK, LoaderRuns, Nobody, Manager, Plans, LoadPlans, UnloadPlans, ManagerPlans, DynamicPlans
<1>12. ASSUME NEW r \in Requests, TakeGuard(r) PROVE LoaderRuns'
  BY <1>12, RequestsAssumption, ShapesAssumption, MaxOpsAssumption
  DEF IInv, TakeGuard, Goto, TypeOK, LoaderRuns, Nobody, Manager, Plans, LoadPlans, UnloadPlans, ManagerPlans, DynamicPlans
<1>13. ASSUME NEW r \in Requests, CheckState(r) PROVE LoaderRuns'
  BY <1>13, RequestsAssumption, ShapesAssumption, MaxOpsAssumption
  DEF IInv, CheckState, Goto, TypeOK, LoaderRuns, Nobody, Manager, Plans, LoadPlans, UnloadPlans, ManagerPlans, DynamicPlans
<1>14. ASSUME NEW r \in Requests, Wake(r) PROVE LoaderRuns'
  BY <1>14, RequestsAssumption, ShapesAssumption, MaxOpsAssumption
  DEF IInv, Wake, Goto, TypeOK, LoaderRuns, Nobody, Manager, Plans, LoadPlans, UnloadPlans, ManagerPlans, DynamicPlans
<1>15. ASSUME NEW r \in Requests, CheckUnloading(r) PROVE LoaderRuns'
  BY <1>15, RequestsAssumption, ShapesAssumption, MaxOpsAssumption
  DEF IInv, CheckUnloading, Goto, TypeOK, LoaderRuns, Nobody, Manager, Plans, LoadPlans, UnloadPlans, ManagerPlans, DynamicPlans
<1>16. ASSUME NEW r \in Requests, Timeout(r) PROVE LoaderRuns'
  BY <1>16, RequestsAssumption, ShapesAssumption, MaxOpsAssumption
  DEF IInv, Timeout, Goto, TypeOK, LoaderRuns, Nobody, Manager, Plans, LoadPlans, UnloadPlans, ManagerPlans, DynamicPlans
<1>17. ASSUME NEW r \in Requests, ValidateOk(r) PROVE LoaderRuns'
  BY <1>17, RequestsAssumption, ShapesAssumption, MaxOpsAssumption
  DEF IInv, ValidateOk, Goto, TypeOK, LoaderRuns, Nobody, Manager, Plans, LoadPlans, UnloadPlans, ManagerPlans, DynamicPlans
<1>18. ASSUME NEW r \in Requests, ReleaseForReload(r) PROVE LoaderRuns'
  BY <1>18, RequestsAssumption, ShapesAssumption, MaxOpsAssumption
  DEF IInv, ReleaseForReload, Goto, TypeOK, LoaderRuns, Nobody, Manager, Plans, LoadPlans, UnloadPlans, ManagerPlans, DynamicPlans
<1>19. ASSUME NEW r \in Requests, StartReshape(r) PROVE LoaderRuns'
  BY <1>19, RequestsAssumption, ShapesAssumption, MaxOpsAssumption
  DEF IInv, StartReshape, Run, FirstStatus, SetStatus, Goto, TypeOK, LoaderRuns, Nobody, Manager, Plans, LoadPlans, UnloadPlans, ManagerPlans, DynamicPlans
<1>20. ASSUME NEW r \in Requests, RefuseReload(r) PROVE LoaderRuns'
  BY <1>20, RequestsAssumption, ShapesAssumption, MaxOpsAssumption
  DEF IInv, RefuseReload, Goto, TypeOK, LoaderRuns, Nobody, Manager, Plans, LoadPlans, UnloadPlans, ManagerPlans, DynamicPlans
<1>21. ASSUME NEW r \in Requests, Finish(r) PROVE LoaderRuns'
  BY <1>21, RequestsAssumption, ShapesAssumption, MaxOpsAssumption
  DEF IInv, Finish, Goto, TypeOK, LoaderRuns, Nobody, Manager, Plans, LoadPlans, UnloadPlans, ManagerPlans, DynamicPlans
<1> QED
  BY <1>1, <1>2, <1>3, <1>4, <1>5, <1>6, <1>7, <1>8, <1>9, <1>10, <1>11, <1>12, <1>13, <1>14, <1>15, <1>16, <1>17, <1>18, <1>19, <1>20, <1>21
  DEF Next, LoaderStep, RequestStep, WaitForLoadedStep, InferStep, ReloadStep

\* Until the first loadModel nobody uses or reloads the version.
LEMMA FirstLoadStep ==
  ASSUME IInv, Next PROVE NotYetLoaded'
<1>1. ASSUME NEW p \in ManagerPlans, ManagerStart(p) PROVE NotYetLoaded'
  <2>1. ops \in Nat /\ ops' = ops + 1
    BY <1>1, MaxOpsAssumption DEF IInv, TypeOK, ManagerStart
  <2>2. ops' # 0
    BY <2>1
  <2> QED BY <2>2 DEF NotYetLoaded
<1>2. CASE FlagLoaderChange
  BY <1>2, RequestsAssumption, ShapesAssumption, MaxOpsAssumption
  DEF IInv, FlagLoaderChange, TypeOK, NotYetLoaded, LoaderRuns, Plans, LoadPlans, UnloadPlans, ManagerPlans, DynamicPlans
<1>3. CASE Drained
  BY <1>3, RequestsAssumption, ShapesAssumption, MaxOpsAssumption
  DEF IInv, Drained, TypeOK, NotYetLoaded, LoaderRuns, Plans, LoadPlans, UnloadPlans, ManagerPlans, DynamicPlans
<1>4. CASE DrainedAgain
  BY <1>4, RequestsAssumption, ShapesAssumption, MaxOpsAssumption
  DEF IInv, DrainedAgain, TypeOK, NotYetLoaded, LoaderRuns, Plans, LoadPlans, UnloadPlans, ManagerPlans, DynamicPlans
<1>5. CASE UnloadFirst
  BY <1>5, RequestsAssumption, ShapesAssumption, MaxOpsAssumption
  DEF IInv, UnloadFirst, TypeOK, NotYetLoaded, LoaderRuns, Plans, LoadPlans, UnloadPlans, ManagerPlans, DynamicPlans
<1>6. CASE Unload
  BY <1>6, RequestsAssumption, ShapesAssumption, MaxOpsAssumption
  DEF IInv, Unload, TypeOK, NotYetLoaded, LoaderRuns, Plans, LoadPlans, UnloadPlans, ManagerPlans, DynamicPlans
<1>7. CASE Unloaded
  BY <1>7, RequestsAssumption, ShapesAssumption, MaxOpsAssumption
  DEF IInv, Unloaded, Run, FirstStatus, SetStatus, Unlock, TypeOK, NotYetLoaded, LoaderRuns, Plans, LoadPlans, UnloadPlans, ManagerPlans, DynamicPlans
<1>8. CASE LoadSucceeds
  BY <1>8, RequestsAssumption, ShapesAssumption, MaxOpsAssumption
  DEF IInv, LoadSucceeds, SetStatus, Unlock, Goto, Requested, TypeOK, NotYetLoaded, LoaderRuns, Plans, LoadPlans, UnloadPlans, ManagerPlans, DynamicPlans
<1>9. CASE LoadFails
  BY <1>9, RequestsAssumption, ShapesAssumption, MaxOpsAssumption
  DEF IInv, LoadFails, SetStatus, Unlock, Goto, TypeOK, NotYetLoaded, LoaderRuns, Plans, LoadPlans, UnloadPlans, ManagerPlans, DynamicPlans
<1>10. CASE RetryAfterFailure
  BY <1>10, RequestsAssumption, ShapesAssumption, MaxOpsAssumption
  DEF IInv, RetryAfterFailure, Run, FirstStatus, SetStatus, TypeOK, NotYetLoaded, LoaderRuns, Plans, LoadPlans, UnloadPlans, ManagerPlans, DynamicPlans
<1>11. CASE GuardAfterReload
  BY <1>11, RequestsAssumption, ShapesAssumption, MaxOpsAssumption
  DEF IInv, GuardAfterReload, Unlock, Goto, TypeOK, NotYetLoaded, LoaderRuns, Plans, LoadPlans, UnloadPlans, ManagerPlans, DynamicPlans
<1>12. ASSUME NEW r \in Requests, TakeGuard(r) PROVE NotYetLoaded'
  BY <1>12, RequestsAssumption, ShapesAssumption, MaxOpsAssumption
  DEF IInv, TakeGuard, Goto, TypeOK, NotYetLoaded, LoaderRuns, Plans, LoadPlans, UnloadPlans, ManagerPlans, DynamicPlans
<1>13. ASSUME NEW r \in Requests, CheckState(r) PROVE NotYetLoaded'
  BY <1>13, RequestsAssumption, ShapesAssumption, MaxOpsAssumption
  DEF IInv, CheckState, Goto, TypeOK, NotYetLoaded, LoaderRuns, Plans, LoadPlans, UnloadPlans, ManagerPlans, DynamicPlans
<1>14. ASSUME NEW r \in Requests, Wake(r) PROVE NotYetLoaded'
  BY <1>14, RequestsAssumption, ShapesAssumption, MaxOpsAssumption
  DEF IInv, Wake, Goto, TypeOK, NotYetLoaded, LoaderRuns, Plans, LoadPlans, UnloadPlans, ManagerPlans, DynamicPlans
<1>15. ASSUME NEW r \in Requests, CheckUnloading(r) PROVE NotYetLoaded'
  BY <1>15, RequestsAssumption, ShapesAssumption, MaxOpsAssumption
  DEF IInv, CheckUnloading, Goto, TypeOK, NotYetLoaded, LoaderRuns, Plans, LoadPlans, UnloadPlans, ManagerPlans, DynamicPlans
<1>16. ASSUME NEW r \in Requests, Timeout(r) PROVE NotYetLoaded'
  BY <1>16, RequestsAssumption, ShapesAssumption, MaxOpsAssumption
  DEF IInv, Timeout, Goto, TypeOK, NotYetLoaded, LoaderRuns, Plans, LoadPlans, UnloadPlans, ManagerPlans, DynamicPlans
<1>17. ASSUME NEW r \in Requests, ValidateOk(r) PROVE NotYetLoaded'
  BY <1>17, RequestsAssumption, ShapesAssumption, MaxOpsAssumption
  DEF IInv, ValidateOk, Goto, TypeOK, NotYetLoaded, LoaderRuns, Plans, LoadPlans, UnloadPlans, ManagerPlans, DynamicPlans
<1>18. ASSUME NEW r \in Requests, ReleaseForReload(r) PROVE NotYetLoaded'
  BY <1>18, RequestsAssumption, ShapesAssumption, MaxOpsAssumption
  DEF IInv, ReleaseForReload, Goto, TypeOK, NotYetLoaded, LoaderRuns, Plans, LoadPlans, UnloadPlans, ManagerPlans, DynamicPlans
<1>19. ASSUME NEW r \in Requests, StartReshape(r) PROVE NotYetLoaded'
  BY <1>19, RequestsAssumption, ShapesAssumption, MaxOpsAssumption
  DEF IInv, StartReshape, Run, FirstStatus, SetStatus, Goto, TypeOK, NotYetLoaded, LoaderRuns, Plans, LoadPlans, UnloadPlans, ManagerPlans, DynamicPlans
<1>20. ASSUME NEW r \in Requests, RefuseReload(r) PROVE NotYetLoaded'
  BY <1>20, RequestsAssumption, ShapesAssumption, MaxOpsAssumption
  DEF IInv, RefuseReload, Goto, TypeOK, NotYetLoaded, LoaderRuns, Plans, LoadPlans, UnloadPlans, ManagerPlans, DynamicPlans
<1>21. ASSUME NEW r \in Requests, Finish(r) PROVE NotYetLoaded'
  BY <1>21, RequestsAssumption, ShapesAssumption, MaxOpsAssumption
  DEF IInv, Finish, Goto, TypeOK, NotYetLoaded, LoaderRuns, Plans, LoadPlans, UnloadPlans, ManagerPlans, DynamicPlans
<1> QED
  BY <1>1, <1>2, <1>3, <1>4, <1>5, <1>6, <1>7, <1>8, <1>9, <1>10, <1>11, <1>12, <1>13, <1>14, <1>15, <1>16, <1>17, <1>18, <1>19, <1>20, <1>21
  DEF Next, LoaderStep, RequestStep, WaitForLoadedStep, InferStep, ReloadStep

\* No step makes a version AVAILABLE, or leaves it so, while a procedure is
\* about to change its components.
LEMMA StableStep ==
  ASSUME IInv, Next PROVE AvailableIsStable'
<1>1. ASSUME NEW p \in ManagerPlans, ManagerStart(p) PROVE AvailableIsStable'
  BY <1>1, RequestsAssumption, ShapesAssumption, MaxOpsAssumption
  DEF IInv, ManagerStart, Run, FirstStatus, SetStatus, TypeOK, AvailableIsStable, LoaderRuns, Plans, LoadPlans, UnloadPlans, ManagerPlans, DynamicPlans
<1>2. CASE FlagLoaderChange
  BY <1>2, RequestsAssumption, ShapesAssumption, MaxOpsAssumption
  DEF IInv, FlagLoaderChange, TypeOK, AvailableIsStable, LoaderRuns, Plans, LoadPlans, UnloadPlans, ManagerPlans, DynamicPlans
<1>3. CASE Drained
  BY <1>3, RequestsAssumption, ShapesAssumption, MaxOpsAssumption
  DEF IInv, Drained, TypeOK, AvailableIsStable, LoaderRuns, Plans, LoadPlans, UnloadPlans, ManagerPlans, DynamicPlans
<1>4. CASE DrainedAgain
  BY <1>4, RequestsAssumption, ShapesAssumption, MaxOpsAssumption
  DEF IInv, DrainedAgain, TypeOK, AvailableIsStable, LoaderRuns, Plans, LoadPlans, UnloadPlans, ManagerPlans, DynamicPlans
<1>5. CASE UnloadFirst
  BY <1>5, RequestsAssumption, ShapesAssumption, MaxOpsAssumption
  DEF IInv, UnloadFirst, TypeOK, AvailableIsStable, LoaderRuns, Plans, LoadPlans, UnloadPlans, ManagerPlans, DynamicPlans
<1>6. CASE Unload
  BY <1>6, RequestsAssumption, ShapesAssumption, MaxOpsAssumption
  DEF IInv, Unload, TypeOK, AvailableIsStable, LoaderRuns, Plans, LoadPlans, UnloadPlans, ManagerPlans, DynamicPlans
<1>7. CASE Unloaded
  BY <1>7, RequestsAssumption, ShapesAssumption, MaxOpsAssumption
  DEF IInv, Unloaded, Run, FirstStatus, SetStatus, Unlock, TypeOK, AvailableIsStable, LoaderRuns, Plans, LoadPlans, UnloadPlans, ManagerPlans, DynamicPlans
<1>8. CASE LoadSucceeds
  BY <1>8, RequestsAssumption, ShapesAssumption, MaxOpsAssumption
  DEF IInv, LoadSucceeds, SetStatus, Unlock, Goto, Requested, TypeOK, AvailableIsStable, LoaderRuns, Plans, LoadPlans, UnloadPlans, ManagerPlans, DynamicPlans
<1>9. CASE LoadFails
  BY <1>9, RequestsAssumption, ShapesAssumption, MaxOpsAssumption
  DEF IInv, LoadFails, SetStatus, Unlock, Goto, TypeOK, AvailableIsStable, LoaderRuns, Plans, LoadPlans, UnloadPlans, ManagerPlans, DynamicPlans
<1>10. CASE RetryAfterFailure
  BY <1>10, RequestsAssumption, ShapesAssumption, MaxOpsAssumption
  DEF IInv, RetryAfterFailure, Run, FirstStatus, SetStatus, TypeOK, AvailableIsStable, LoaderRuns, Plans, LoadPlans, UnloadPlans, ManagerPlans, DynamicPlans
<1>11. CASE GuardAfterReload
  BY <1>11, RequestsAssumption, ShapesAssumption, MaxOpsAssumption
  DEF IInv, GuardAfterReload, Unlock, Goto, TypeOK, AvailableIsStable, LoaderRuns, Plans, LoadPlans, UnloadPlans, ManagerPlans, DynamicPlans
<1>12. ASSUME NEW r \in Requests, TakeGuard(r) PROVE AvailableIsStable'
  BY <1>12, RequestsAssumption, ShapesAssumption, MaxOpsAssumption
  DEF IInv, TakeGuard, Goto, TypeOK, AvailableIsStable, LoaderRuns, Plans, LoadPlans, UnloadPlans, ManagerPlans, DynamicPlans
<1>13. ASSUME NEW r \in Requests, CheckState(r) PROVE AvailableIsStable'
  BY <1>13, RequestsAssumption, ShapesAssumption, MaxOpsAssumption
  DEF IInv, CheckState, Goto, TypeOK, AvailableIsStable, LoaderRuns, Plans, LoadPlans, UnloadPlans, ManagerPlans, DynamicPlans
<1>14. ASSUME NEW r \in Requests, Wake(r) PROVE AvailableIsStable'
  BY <1>14, RequestsAssumption, ShapesAssumption, MaxOpsAssumption
  DEF IInv, Wake, Goto, TypeOK, AvailableIsStable, LoaderRuns, Plans, LoadPlans, UnloadPlans, ManagerPlans, DynamicPlans
<1>15. ASSUME NEW r \in Requests, CheckUnloading(r) PROVE AvailableIsStable'
  BY <1>15, RequestsAssumption, ShapesAssumption, MaxOpsAssumption
  DEF IInv, CheckUnloading, Goto, TypeOK, AvailableIsStable, LoaderRuns, Plans, LoadPlans, UnloadPlans, ManagerPlans, DynamicPlans
<1>16. ASSUME NEW r \in Requests, Timeout(r) PROVE AvailableIsStable'
  BY <1>16, RequestsAssumption, ShapesAssumption, MaxOpsAssumption
  DEF IInv, Timeout, Goto, TypeOK, AvailableIsStable, LoaderRuns, Plans, LoadPlans, UnloadPlans, ManagerPlans, DynamicPlans
<1>17. ASSUME NEW r \in Requests, ValidateOk(r) PROVE AvailableIsStable'
  BY <1>17, RequestsAssumption, ShapesAssumption, MaxOpsAssumption
  DEF IInv, ValidateOk, Goto, TypeOK, AvailableIsStable, LoaderRuns, Plans, LoadPlans, UnloadPlans, ManagerPlans, DynamicPlans
<1>18. ASSUME NEW r \in Requests, ReleaseForReload(r) PROVE AvailableIsStable'
  BY <1>18, RequestsAssumption, ShapesAssumption, MaxOpsAssumption
  DEF IInv, ReleaseForReload, Goto, TypeOK, AvailableIsStable, LoaderRuns, Plans, LoadPlans, UnloadPlans, ManagerPlans, DynamicPlans
<1>19. ASSUME NEW r \in Requests, StartReshape(r) PROVE AvailableIsStable'
  BY <1>19, RequestsAssumption, ShapesAssumption, MaxOpsAssumption
  DEF IInv, StartReshape, Run, FirstStatus, SetStatus, Goto, TypeOK, AvailableIsStable, LoaderRuns, Plans, LoadPlans, UnloadPlans, ManagerPlans, DynamicPlans
<1>20. ASSUME NEW r \in Requests, RefuseReload(r) PROVE AvailableIsStable'
  BY <1>20, RequestsAssumption, ShapesAssumption, MaxOpsAssumption
  DEF IInv, RefuseReload, Goto, TypeOK, AvailableIsStable, LoaderRuns, Plans, LoadPlans, UnloadPlans, ManagerPlans, DynamicPlans
<1>21. ASSUME NEW r \in Requests, Finish(r) PROVE AvailableIsStable'
  BY <1>21, RequestsAssumption, ShapesAssumption, MaxOpsAssumption
  DEF IInv, Finish, Goto, TypeOK, AvailableIsStable, LoaderRuns, Plans, LoadPlans, UnloadPlans, ManagerPlans, DynamicPlans
<1> QED
  BY <1>1, <1>2, <1>3, <1>4, <1>5, <1>6, <1>7, <1>8, <1>9, <1>10, <1>11, <1>12, <1>13, <1>14, <1>15, <1>16, <1>17, <1>18, <1>19, <1>20, <1>21
  DEF Next, LoaderStep, RequestStep, WaitForLoadedStep, InferStep, ReloadStep

\* Once a loading procedure has seen no guard, no request gets past the check
\* of the state until the procedure ends.
LEMMA QuietStep ==
  ASSUME IInv, Next PROVE QuietPastWait'
<1>1. ASSUME NEW p \in ManagerPlans, ManagerStart(p) PROVE QuietPastWait'
  BY <1>1, RequestsAssumption, ShapesAssumption, MaxOpsAssumption, NoGuardNoUser
  DEF IInv, ManagerStart, Run, FirstStatus, SetStatus, TypeOK, QuietPastWait, AvailableIsStable, LoaderRuns, NotYetLoaded, Using, Plans, LoadPlans, UnloadPlans, ManagerPlans, DynamicPlans
<1>2. CASE FlagLoaderChange
  BY <1>2, RequestsAssumption, ShapesAssumption, MaxOpsAssumption, NoGuardNoUser
  DEF IInv, FlagLoaderChange, TypeOK, QuietPastWait, AvailableIsStable, LoaderRuns, NotYetLoaded, Using, Plans, LoadPlans, UnloadPlans, ManagerPlans, DynamicPlans
<1>3. CASE Drained
  BY <1>3, RequestsAssumption, ShapesAssumption, MaxOpsAssumption, NoGuardNoUser
  DEF IInv, Drained, TypeOK, QuietPastWait, AvailableIsStable, LoaderRuns, NotYetLoaded, Using, Plans, LoadPlans, UnloadPlans, ManagerPlans, DynamicPlans
<1>4. CASE DrainedAgain
  BY <1>4, RequestsAssumption, ShapesAssumption, MaxOpsAssumption, NoGuardNoUser
  DEF IInv, DrainedAgain, TypeOK, QuietPastWait, AvailableIsStable, LoaderRuns, NotYetLoaded, Using, Plans, LoadPlans, UnloadPlans, ManagerPlans, DynamicPlans
<1>5. CASE UnloadFirst
  BY <1>5, RequestsAssumption, ShapesAssumption, MaxOpsAssumption, NoGuardNoUser
  DEF IInv, UnloadFirst, TypeOK, QuietPastWait, AvailableIsStable, LoaderRuns, NotYetLoaded, Using, Plans, LoadPlans, UnloadPlans, ManagerPlans, DynamicPlans
<1>6. CASE Unload
  BY <1>6, RequestsAssumption, ShapesAssumption, MaxOpsAssumption, NoGuardNoUser
  DEF IInv, Unload, TypeOK, QuietPastWait, AvailableIsStable, LoaderRuns, NotYetLoaded, Using, Plans, LoadPlans, UnloadPlans, ManagerPlans, DynamicPlans
<1>7. CASE Unloaded
  BY <1>7, RequestsAssumption, ShapesAssumption, MaxOpsAssumption, NoGuardNoUser
  DEF IInv, Unloaded, Run, FirstStatus, SetStatus, Unlock, TypeOK, QuietPastWait, AvailableIsStable, LoaderRuns, NotYetLoaded, Using, Plans, LoadPlans, UnloadPlans, ManagerPlans, DynamicPlans
<1>8. CASE LoadSucceeds
  BY <1>8, RequestsAssumption, ShapesAssumption, MaxOpsAssumption, NoGuardNoUser
  DEF IInv, LoadSucceeds, SetStatus, Unlock, Goto, Requested, TypeOK, QuietPastWait, AvailableIsStable, LoaderRuns, NotYetLoaded, Using, Plans, LoadPlans, UnloadPlans, ManagerPlans, DynamicPlans
<1>9. CASE LoadFails
  BY <1>9, RequestsAssumption, ShapesAssumption, MaxOpsAssumption, NoGuardNoUser
  DEF IInv, LoadFails, SetStatus, Unlock, Goto, TypeOK, QuietPastWait, AvailableIsStable, LoaderRuns, NotYetLoaded, Using, Plans, LoadPlans, UnloadPlans, ManagerPlans, DynamicPlans
<1>10. CASE RetryAfterFailure
  BY <1>10, RequestsAssumption, ShapesAssumption, MaxOpsAssumption, NoGuardNoUser
  DEF IInv, RetryAfterFailure, Run, FirstStatus, SetStatus, TypeOK, QuietPastWait, AvailableIsStable, LoaderRuns, NotYetLoaded, Using, Plans, LoadPlans, UnloadPlans, ManagerPlans, DynamicPlans
<1>11. CASE GuardAfterReload
  BY <1>11, RequestsAssumption, ShapesAssumption, MaxOpsAssumption, NoGuardNoUser
  DEF IInv, GuardAfterReload, Unlock, Goto, TypeOK, QuietPastWait, AvailableIsStable, LoaderRuns, NotYetLoaded, Using, Plans, LoadPlans, UnloadPlans, ManagerPlans, DynamicPlans
<1>12. ASSUME NEW r \in Requests, TakeGuard(r) PROVE QuietPastWait'
  BY <1>12, RequestsAssumption, ShapesAssumption, MaxOpsAssumption, NoGuardNoUser
  DEF IInv, TakeGuard, Goto, TypeOK, QuietPastWait, AvailableIsStable, LoaderRuns, NotYetLoaded, Using, Plans, LoadPlans, UnloadPlans, ManagerPlans, DynamicPlans
<1>13. ASSUME NEW r \in Requests, CheckState(r) PROVE QuietPastWait'
  BY <1>13, RequestsAssumption, ShapesAssumption, MaxOpsAssumption, NoGuardNoUser
  DEF IInv, CheckState, Goto, TypeOK, QuietPastWait, AvailableIsStable, LoaderRuns, NotYetLoaded, Using, Plans, LoadPlans, UnloadPlans, ManagerPlans, DynamicPlans
<1>14. ASSUME NEW r \in Requests, Wake(r) PROVE QuietPastWait'
  BY <1>14, RequestsAssumption, ShapesAssumption, MaxOpsAssumption, NoGuardNoUser
  DEF IInv, Wake, Goto, TypeOK, QuietPastWait, AvailableIsStable, LoaderRuns, NotYetLoaded, Using, Plans, LoadPlans, UnloadPlans, ManagerPlans, DynamicPlans
<1>15. ASSUME NEW r \in Requests, CheckUnloading(r) PROVE QuietPastWait'
  BY <1>15, RequestsAssumption, ShapesAssumption, MaxOpsAssumption, NoGuardNoUser
  DEF IInv, CheckUnloading, Goto, TypeOK, QuietPastWait, AvailableIsStable, LoaderRuns, NotYetLoaded, Using, Plans, LoadPlans, UnloadPlans, ManagerPlans, DynamicPlans
<1>16. ASSUME NEW r \in Requests, Timeout(r) PROVE QuietPastWait'
  BY <1>16, RequestsAssumption, ShapesAssumption, MaxOpsAssumption, NoGuardNoUser
  DEF IInv, Timeout, Goto, TypeOK, QuietPastWait, AvailableIsStable, LoaderRuns, NotYetLoaded, Using, Plans, LoadPlans, UnloadPlans, ManagerPlans, DynamicPlans
<1>17. ASSUME NEW r \in Requests, ValidateOk(r) PROVE QuietPastWait'
  BY <1>17, RequestsAssumption, ShapesAssumption, MaxOpsAssumption, NoGuardNoUser
  DEF IInv, ValidateOk, Goto, TypeOK, QuietPastWait, AvailableIsStable, LoaderRuns, NotYetLoaded, Using, Plans, LoadPlans, UnloadPlans, ManagerPlans, DynamicPlans
<1>18. ASSUME NEW r \in Requests, ReleaseForReload(r) PROVE QuietPastWait'
  BY <1>18, RequestsAssumption, ShapesAssumption, MaxOpsAssumption, NoGuardNoUser
  DEF IInv, ReleaseForReload, Goto, TypeOK, QuietPastWait, AvailableIsStable, LoaderRuns, NotYetLoaded, Using, Plans, LoadPlans, UnloadPlans, ManagerPlans, DynamicPlans
<1>19. ASSUME NEW r \in Requests, StartReshape(r) PROVE QuietPastWait'
  BY <1>19, RequestsAssumption, ShapesAssumption, MaxOpsAssumption, NoGuardNoUser
  DEF IInv, StartReshape, Run, FirstStatus, SetStatus, Goto, TypeOK, QuietPastWait, AvailableIsStable, LoaderRuns, NotYetLoaded, Using, Plans, LoadPlans, UnloadPlans, ManagerPlans, DynamicPlans
<1>20. ASSUME NEW r \in Requests, RefuseReload(r) PROVE QuietPastWait'
  BY <1>20, RequestsAssumption, ShapesAssumption, MaxOpsAssumption, NoGuardNoUser
  DEF IInv, RefuseReload, Goto, TypeOK, QuietPastWait, AvailableIsStable, LoaderRuns, NotYetLoaded, Using, Plans, LoadPlans, UnloadPlans, ManagerPlans, DynamicPlans
<1>21. ASSUME NEW r \in Requests, Finish(r) PROVE QuietPastWait'
  BY <1>21, RequestsAssumption, ShapesAssumption, MaxOpsAssumption, NoGuardNoUser
  DEF IInv, Finish, Goto, TypeOK, QuietPastWait, AvailableIsStable, LoaderRuns, NotYetLoaded, Using, Plans, LoadPlans, UnloadPlans, ManagerPlans, DynamicPlans
<1> QED
  BY <1>1, <1>2, <1>3, <1>4, <1>5, <1>6, <1>7, <1>8, <1>9, <1>10, <1>11, <1>12, <1>13, <1>14, <1>15, <1>16, <1>17, <1>18, <1>19, <1>20, <1>21
  DEF Next, LoaderStep, RequestStep, WaitForLoadedStep, InferStep, ReloadStep

\* Every step keeps a reload that succeeded with the shape of its request until
\* the request has its guard.
LEMMA ReloadedStep ==
  ASSUME IInv, Next PROVE ReloadedShape'
<1>1. ASSUME NEW p \in ManagerPlans, ManagerStart(p) PROVE ReloadedShape'
  BY <1>1, RequestsAssumption, ShapesAssumption, MaxOpsAssumption
  DEF IInv, ManagerStart, Run, FirstStatus, SetStatus, TypeOK, ReloadedShape, LoaderRuns, Plans, LoadPlans, UnloadPlans, ManagerPlans, DynamicPlans
<1>2. CASE FlagLoaderChange
  BY <1>2, RequestsAssumption, ShapesAssumption, MaxOpsAssumption
  DEF IInv, FlagLoaderChange, TypeOK, ReloadedShape, LoaderRuns, Plans, LoadPlans, UnloadPlans, ManagerPlans, DynamicPlans
<1>3. CASE Drained
  BY <1>3, RequestsAssumption, ShapesAssumption, MaxOpsAssumption
  DEF IInv, Drained, TypeOK, ReloadedShape, LoaderRuns, Plans, LoadPlans, UnloadPlans, ManagerPlans, DynamicPlans
<1>4. CASE DrainedAgain
  BY <1>4, RequestsAssumption, ShapesAssumption, MaxOpsAssumption
  DEF IInv, DrainedAgain, TypeOK, ReloadedShape, LoaderRuns, Plans, LoadPlans, UnloadPlans, ManagerPlans, DynamicPlans
<1>5. CASE UnloadFirst
  BY <1>5, RequestsAssumption, ShapesAssumption, MaxOpsAssumption
  DEF IInv, UnloadFirst, TypeOK, ReloadedShape, LoaderRuns, Plans, LoadPlans, UnloadPlans, ManagerPlans, DynamicPlans
<1>6. CASE Unload
  BY <1>6, RequestsAssumption, ShapesAssumption, MaxOpsAssumption
  DEF IInv, Unload, TypeOK, ReloadedShape, LoaderRuns, Plans, LoadPlans, UnloadPlans, ManagerPlans, DynamicPlans
<1>7. CASE Unloaded
  BY <1>7, RequestsAssumption, ShapesAssumption, MaxOpsAssumption
  DEF IInv, Unloaded, Run, FirstStatus, SetStatus, Unlock, TypeOK, ReloadedShape, LoaderRuns, Plans, LoadPlans, UnloadPlans, ManagerPlans, DynamicPlans
<1>8. CASE LoadSucceeds
  BY <1>8, RequestsAssumption, ShapesAssumption, MaxOpsAssumption
  DEF IInv, LoadSucceeds, SetStatus, Unlock, Goto, Requested, TypeOK, ReloadedShape, LoaderRuns, Plans, LoadPlans, UnloadPlans, ManagerPlans, DynamicPlans
<1>9. CASE LoadFails
  BY <1>9, RequestsAssumption, ShapesAssumption, MaxOpsAssumption
  DEF IInv, LoadFails, SetStatus, Unlock, Goto, TypeOK, ReloadedShape, LoaderRuns, Plans, LoadPlans, UnloadPlans, ManagerPlans, DynamicPlans
<1>10. CASE RetryAfterFailure
  BY <1>10, RequestsAssumption, ShapesAssumption, MaxOpsAssumption
  DEF IInv, RetryAfterFailure, Run, FirstStatus, SetStatus, TypeOK, ReloadedShape, LoaderRuns, Plans, LoadPlans, UnloadPlans, ManagerPlans, DynamicPlans
<1>11. CASE GuardAfterReload
  BY <1>11, RequestsAssumption, ShapesAssumption, MaxOpsAssumption
  DEF IInv, GuardAfterReload, Unlock, Goto, TypeOK, ReloadedShape, LoaderRuns, Plans, LoadPlans, UnloadPlans, ManagerPlans, DynamicPlans
<1>12. ASSUME NEW r \in Requests, TakeGuard(r) PROVE ReloadedShape'
  BY <1>12, RequestsAssumption, ShapesAssumption, MaxOpsAssumption
  DEF IInv, TakeGuard, Goto, TypeOK, ReloadedShape, LoaderRuns, Plans, LoadPlans, UnloadPlans, ManagerPlans, DynamicPlans
<1>13. ASSUME NEW r \in Requests, CheckState(r) PROVE ReloadedShape'
  BY <1>13, RequestsAssumption, ShapesAssumption, MaxOpsAssumption
  DEF IInv, CheckState, Goto, TypeOK, ReloadedShape, LoaderRuns, Plans, LoadPlans, UnloadPlans, ManagerPlans, DynamicPlans
<1>14. ASSUME NEW r \in Requests, Wake(r) PROVE ReloadedShape'
  BY <1>14, RequestsAssumption, ShapesAssumption, MaxOpsAssumption
  DEF IInv, Wake, Goto, TypeOK, ReloadedShape, LoaderRuns, Plans, LoadPlans, UnloadPlans, ManagerPlans, DynamicPlans
<1>15. ASSUME NEW r \in Requests, CheckUnloading(r) PROVE ReloadedShape'
  BY <1>15, RequestsAssumption, ShapesAssumption, MaxOpsAssumption
  DEF IInv, CheckUnloading, Goto, TypeOK, ReloadedShape, LoaderRuns, Plans, LoadPlans, UnloadPlans, ManagerPlans, DynamicPlans
<1>16. ASSUME NEW r \in Requests, Timeout(r) PROVE ReloadedShape'
  BY <1>16, RequestsAssumption, ShapesAssumption, MaxOpsAssumption
  DEF IInv, Timeout, Goto, TypeOK, ReloadedShape, LoaderRuns, Plans, LoadPlans, UnloadPlans, ManagerPlans, DynamicPlans
<1>17. ASSUME NEW r \in Requests, ValidateOk(r) PROVE ReloadedShape'
  BY <1>17, RequestsAssumption, ShapesAssumption, MaxOpsAssumption
  DEF IInv, ValidateOk, Goto, TypeOK, ReloadedShape, LoaderRuns, Plans, LoadPlans, UnloadPlans, ManagerPlans, DynamicPlans
<1>18. ASSUME NEW r \in Requests, ReleaseForReload(r) PROVE ReloadedShape'
  BY <1>18, RequestsAssumption, ShapesAssumption, MaxOpsAssumption
  DEF IInv, ReleaseForReload, Goto, TypeOK, ReloadedShape, LoaderRuns, Plans, LoadPlans, UnloadPlans, ManagerPlans, DynamicPlans
<1>19. ASSUME NEW r \in Requests, StartReshape(r) PROVE ReloadedShape'
  BY <1>19, RequestsAssumption, ShapesAssumption, MaxOpsAssumption
  DEF IInv, StartReshape, Run, FirstStatus, SetStatus, Goto, TypeOK, ReloadedShape, LoaderRuns, Plans, LoadPlans, UnloadPlans, ManagerPlans, DynamicPlans
<1>20. ASSUME NEW r \in Requests, RefuseReload(r) PROVE ReloadedShape'
  BY <1>20, RequestsAssumption, ShapesAssumption, MaxOpsAssumption
  DEF IInv, RefuseReload, Goto, TypeOK, ReloadedShape, LoaderRuns, Plans, LoadPlans, UnloadPlans, ManagerPlans, DynamicPlans
<1>21. ASSUME NEW r \in Requests, Finish(r) PROVE ReloadedShape'
  BY <1>21, RequestsAssumption, ShapesAssumption, MaxOpsAssumption
  DEF IInv, Finish, Goto, TypeOK, ReloadedShape, LoaderRuns, Plans, LoadPlans, UnloadPlans, ManagerPlans, DynamicPlans
<1> QED
  BY <1>1, <1>2, <1>3, <1>4, <1>5, <1>6, <1>7, <1>8, <1>9, <1>10, <1>11, <1>12, <1>13, <1>14, <1>15, <1>16, <1>17, <1>18, <1>19, <1>20, <1>21
  DEF Next, LoaderStep, RequestStep, WaitForLoadedStep, InferStep, ReloadStep

\* Every step keeps inferring requests on components of their shape.
LEMMA InfersStep ==
  ASSUME IInv, Next PROVE InfersOnItsShape'
<1>1. ASSUME NEW p \in ManagerPlans, ManagerStart(p) PROVE InfersOnItsShape'
  BY <1>1, RequestsAssumption, ShapesAssumption, MaxOpsAssumption
  DEF IInv, ManagerStart, Run, FirstStatus, SetStatus, TypeOK, InfersOnItsShape, QuietPastWait, ReloadedShape, LoaderRuns, Using, Plans, LoadPlans, UnloadPlans, ManagerPlans, DynamicPlans
<1>2. CASE FlagLoaderChange
  BY <1>2, RequestsAssumption, ShapesAssumption, MaxOpsAssumption
  DEF IInv, FlagLoaderChange, TypeOK, InfersOnItsShape, QuietPastWait, ReloadedShape, LoaderRuns, Using, Plans, LoadPlans, UnloadPlans, ManagerPlans, DynamicPlans
<1>3. CASE Drained
  BY <1>3, RequestsAssumption, ShapesAssumption, MaxOpsAssumption
  DEF IInv, Drained, TypeOK, InfersOnItsShape, QuietPastWait, ReloadedShape, LoaderRuns, Using, Plans, LoadPlans, UnloadPlans, ManagerPlans, DynamicPlans
<1>4. CASE DrainedAgain
  BY <1>4, RequestsAssumption, ShapesAssumption, MaxOpsAssumption
  DEF IInv, DrainedAgain, TypeOK, InfersOnItsShape, QuietPastWait, ReloadedShape, LoaderRuns, Using, Plans, LoadPlans, UnloadPlans, ManagerPlans, DynamicPlans
<1>5. CASE UnloadFirst
  BY <1>5, RequestsAssumption, ShapesAssumption, MaxOpsAssumption
  DEF IInv, UnloadFirst, TypeOK, InfersOnItsShape, QuietPastWait, ReloadedShape, LoaderRuns, Using, Plans, LoadPlans, UnloadPlans, ManagerPlans, DynamicPlans
<1>6. CASE Unload
  BY <1>6, RequestsAssumption, ShapesAssumption, MaxOpsAssumption
  DEF IInv, Unload, TypeOK, InfersOnItsShape, QuietPastWait, ReloadedShape, LoaderRuns, Using, Plans, LoadPlans, UnloadPlans, ManagerPlans, DynamicPlans
<1>7. CASE Unloaded
  BY <1>7, RequestsAssumption, ShapesAssumption, MaxOpsAssumption
  DEF IInv, Unloaded, Run, FirstStatus, SetStatus, Unlock, TypeOK, InfersOnItsShape, QuietPastWait, ReloadedShape, LoaderRuns, Using, Plans, LoadPlans, UnloadPlans, ManagerPlans, DynamicPlans
<1>8. CASE LoadSucceeds
  BY <1>8, RequestsAssumption, ShapesAssumption, MaxOpsAssumption
  DEF IInv, LoadSucceeds, SetStatus, Unlock, Goto, Requested, TypeOK, InfersOnItsShape, QuietPastWait, ReloadedShape, LoaderRuns, Using, Plans, LoadPlans, UnloadPlans, ManagerPlans, DynamicPlans
<1>9. CASE LoadFails
  BY <1>9, RequestsAssumption, ShapesAssumption, MaxOpsAssumption
  DEF IInv, LoadFails, SetStatus, Unlock, Goto, TypeOK, InfersOnItsShape, QuietPastWait, ReloadedShape, LoaderRuns, Using, Plans, LoadPlans, UnloadPlans, ManagerPlans, DynamicPlans
<1>10. CASE RetryAfterFailure
  BY <1>10, RequestsAssumption, ShapesAssumption, MaxOpsAssumption
  DEF IInv, RetryAfterFailure, Run, FirstStatus, SetStatus, TypeOK, InfersOnItsShape, QuietPastWait, ReloadedShape, LoaderRuns, Using, Plans, LoadPlans, UnloadPlans, ManagerPlans, DynamicPlans
<1>11. CASE GuardAfterReload
  BY <1>11, RequestsAssumption, ShapesAssumption, MaxOpsAssumption
  DEF IInv, GuardAfterReload, Unlock, Goto, TypeOK, InfersOnItsShape, QuietPastWait, ReloadedShape, LoaderRuns, Using, Plans, LoadPlans, UnloadPlans, ManagerPlans, DynamicPlans
<1>12. ASSUME NEW r \in Requests, TakeGuard(r) PROVE InfersOnItsShape'
  BY <1>12, RequestsAssumption, ShapesAssumption, MaxOpsAssumption
  DEF IInv, TakeGuard, Goto, TypeOK, InfersOnItsShape, QuietPastWait, ReloadedShape, LoaderRuns, Using, Plans, LoadPlans, UnloadPlans, ManagerPlans, DynamicPlans
<1>13. ASSUME NEW r \in Requests, CheckState(r) PROVE InfersOnItsShape'
  BY <1>13, RequestsAssumption, ShapesAssumption, MaxOpsAssumption
  DEF IInv, CheckState, Goto, TypeOK, InfersOnItsShape, QuietPastWait, ReloadedShape, LoaderRuns, Using, Plans, LoadPlans, UnloadPlans, ManagerPlans, DynamicPlans
<1>14. ASSUME NEW r \in Requests, Wake(r) PROVE InfersOnItsShape'
  BY <1>14, RequestsAssumption, ShapesAssumption, MaxOpsAssumption
  DEF IInv, Wake, Goto, TypeOK, InfersOnItsShape, QuietPastWait, ReloadedShape, LoaderRuns, Using, Plans, LoadPlans, UnloadPlans, ManagerPlans, DynamicPlans
<1>15. ASSUME NEW r \in Requests, CheckUnloading(r) PROVE InfersOnItsShape'
  BY <1>15, RequestsAssumption, ShapesAssumption, MaxOpsAssumption
  DEF IInv, CheckUnloading, Goto, TypeOK, InfersOnItsShape, QuietPastWait, ReloadedShape, LoaderRuns, Using, Plans, LoadPlans, UnloadPlans, ManagerPlans, DynamicPlans
<1>16. ASSUME NEW r \in Requests, Timeout(r) PROVE InfersOnItsShape'
  BY <1>16, RequestsAssumption, ShapesAssumption, MaxOpsAssumption
  DEF IInv, Timeout, Goto, TypeOK, InfersOnItsShape, QuietPastWait, ReloadedShape, LoaderRuns, Using, Plans, LoadPlans, UnloadPlans, ManagerPlans, DynamicPlans
<1>17. ASSUME NEW r \in Requests, ValidateOk(r) PROVE InfersOnItsShape'
  BY <1>17, RequestsAssumption, ShapesAssumption, MaxOpsAssumption
  DEF IInv, ValidateOk, Goto, TypeOK, InfersOnItsShape, QuietPastWait, ReloadedShape, LoaderRuns, Using, Plans, LoadPlans, UnloadPlans, ManagerPlans, DynamicPlans
<1>18. ASSUME NEW r \in Requests, ReleaseForReload(r) PROVE InfersOnItsShape'
  BY <1>18, RequestsAssumption, ShapesAssumption, MaxOpsAssumption
  DEF IInv, ReleaseForReload, Goto, TypeOK, InfersOnItsShape, QuietPastWait, ReloadedShape, LoaderRuns, Using, Plans, LoadPlans, UnloadPlans, ManagerPlans, DynamicPlans
<1>19. ASSUME NEW r \in Requests, StartReshape(r) PROVE InfersOnItsShape'
  BY <1>19, RequestsAssumption, ShapesAssumption, MaxOpsAssumption
  DEF IInv, StartReshape, Run, FirstStatus, SetStatus, Goto, TypeOK, InfersOnItsShape, QuietPastWait, ReloadedShape, LoaderRuns, Using, Plans, LoadPlans, UnloadPlans, ManagerPlans, DynamicPlans
<1>20. ASSUME NEW r \in Requests, RefuseReload(r) PROVE InfersOnItsShape'
  BY <1>20, RequestsAssumption, ShapesAssumption, MaxOpsAssumption
  DEF IInv, RefuseReload, Goto, TypeOK, InfersOnItsShape, QuietPastWait, ReloadedShape, LoaderRuns, Using, Plans, LoadPlans, UnloadPlans, ManagerPlans, DynamicPlans
<1>21. ASSUME NEW r \in Requests, Finish(r) PROVE InfersOnItsShape'
  BY <1>21, RequestsAssumption, ShapesAssumption, MaxOpsAssumption
  DEF IInv, Finish, Goto, TypeOK, InfersOnItsShape, QuietPastWait, ReloadedShape, LoaderRuns, Using, Plans, LoadPlans, UnloadPlans, ManagerPlans, DynamicPlans
<1> QED
  BY <1>1, <1>2, <1>3, <1>4, <1>5, <1>6, <1>7, <1>8, <1>9, <1>10, <1>11, <1>12, <1>13, <1>14, <1>15, <1>16, <1>17, <1>18, <1>19, <1>20, <1>21
  DEF Next, LoaderStep, RequestStep, WaitForLoadedStep, InferStep, ReloadStep

\* Every step keeps predictRequestsHandlesCount equal to the number of requests
\* that hold a guard.
LEMMA CountStep ==
  ASSUME IInv, Next PROVE CountsGuards'
<1>1. ASSUME NEW p \in ManagerPlans, ManagerStart(p) PROVE CountsGuards'
  <2>1. Guarded' = Guarded /\ handles' = handles
    BY <1>1 DEF IInv, TypeOK, LoaderRuns, ManagerStart, Run, FirstStatus, SetStatus, Guarded, Plans, LoadPlans, UnloadPlans, ManagerPlans, DynamicPlans, Manager, Nobody
  <2> QED BY <2>1 DEF IInv, CountsGuards
<1>2. CASE FlagLoaderChange
  <2>1. Guarded' = Guarded /\ handles' = handles
    BY <1>2 DEF IInv, TypeOK, LoaderRuns, FlagLoaderChange, Guarded, Plans, LoadPlans, UnloadPlans, ManagerPlans, DynamicPlans, Manager, Nobody
  <2> QED BY <2>1 DEF IInv, CountsGuards
<1>3. CASE Drained
  <2>1. Guarded' = Guarded /\ handles' = handles
    BY <1>3 DEF IInv, TypeOK, LoaderRuns, Drained, Guarded, Plans, LoadPlans, UnloadPlans, ManagerPlans, DynamicPlans, Manager, Nobody
  <2> QED BY <2>1 DEF IInv, CountsGuards
<1>4. CASE DrainedAgain
  <2>1. Guarded' = Guarded /\ handles' = handles
    BY <1>4 DEF IInv, TypeOK, LoaderRuns, DrainedAgain, Guarded, Plans, LoadPlans, UnloadPlans, ManagerPlans, DynamicPlans, Manager, Nobody
  <2> QED BY <2>1 DEF IInv, CountsGuards
<1>5. CASE UnloadFirst
  <2>1. Guarded' = Guarded /\ handles' = handles
    BY <1>5 DEF IInv, TypeOK, LoaderRuns, UnloadFirst, Guarded, Plans, LoadPlans, UnloadPlans, ManagerPlans, DynamicPlans, Manager, Nobody
  <2> QED BY <2>1 DEF IInv, CountsGuards
<1>6. CASE Unload
  <2>1. Guarded' = Guarded /\ handles' = handles
    BY <1>6 DEF IInv, TypeOK, LoaderRuns, Unload, Guarded, Plans, LoadPlans, UnloadPlans, ManagerPlans, DynamicPlans, Manager, Nobody
  <2> QED BY <2>1 DEF IInv, CountsGuards
<1>7. CASE Unloaded
  <2>1. Guarded' = Guarded /\ handles' = handles
    BY <1>7 DEF IInv, TypeOK, LoaderRuns, Unloaded, Run, FirstStatus, SetStatus, Unlock, Guarded, Plans, LoadPlans, UnloadPlans, ManagerPlans, DynamicPlans, Manager, Nobody
  <2> QED BY <2>1 DEF IInv, CountsGuards
<1>8. CASE LoadSucceeds
  <2>1. Guarded' = Guarded /\ handles' = handles
    BY <1>8 DEF IInv, TypeOK, LoaderRuns, LoadSucceeds, SetStatus, Unlock, Goto, Requested, Guarded, Plans, LoadPlans, UnloadPlans, ManagerPlans, DynamicPlans, Manager, Nobody
  <2> QED BY <2>1 DEF IInv, CountsGuards
<1>9. CASE LoadFails
  <2>1. Guarded' = Guarded /\ handles' = handles
    BY <1>9 DEF IInv, TypeOK, LoaderRuns, LoadFails, SetStatus, Unlock, Goto, Guarded, Plans, LoadPlans, UnloadPlans, ManagerPlans, DynamicPlans, Manager, Nobody
  <2> QED BY <2>1 DEF IInv, CountsGuards
<1>10. CASE RetryAfterFailure
  <2>1. Guarded' = Guarded /\ handles' = handles
    BY <1>10 DEF IInv, TypeOK, LoaderRuns, RetryAfterFailure, Run, FirstStatus, SetStatus, Guarded, Plans, LoadPlans, UnloadPlans, ManagerPlans, DynamicPlans, Manager, Nobody
  <2> QED BY <2>1 DEF IInv, CountsGuards
<1>11. CASE GuardAfterReload
  <2>1. loader \in Requests /\ pc[loader] = "reloading"
    BY <1>11 DEF IInv, TypeOK, LoaderRuns, GuardAfterReload, Plans, LoadPlans, UnloadPlans, ManagerPlans, DynamicPlans, Manager, Nobody
  <2>2. /\ loader \notin Guarded /\ Guarded' = Guarded \cup {loader}
        /\ handles' = handles + 1
    BY <1>11, <2>1 DEF IInv, TypeOK, GuardAfterReload, Goto, Guarded
  <2> QED BY <2>2, OneMoreGuard DEF IInv
<1>12. ASSUME NEW r \in Requests, TakeGuard(r) PROVE CountsGuards'
  <2>1. r \notin Guarded /\ Guarded' = Guarded \cup {r} /\ handles' = handles + 1
    BY <1>12 DEF IInv, TypeOK, TakeGuard, Goto, Guarded
  <2> QED BY <2>1, OneMoreGuard DEF IInv
<1>13. ASSUME NEW r \in Requests, CheckState(r) PROVE CountsGuards'
  <2>1. CASE state = "AVAILABLE"
    <3>1. Guarded' = Guarded /\ handles' = handles
      BY <1>13, <2>1 DEF IInv, TypeOK, CheckState, Goto, Guarded
    <3> QED BY <3>1 DEF IInv, CountsGuards
  <2>2. CASE state # "AVAILABLE"
    <3>1. r \in Guarded /\ Guarded' = Guarded \ {r} /\ handles' = handles - 1
      BY <1>13, <2>2 DEF IInv, TypeOK, CheckState, Goto, Guarded
    <3> QED BY <3>1, OneGuardLess DEF IInv
  <2> QED BY <2>1, <2>2
<1>14. ASSUME NEW r \in Requests, Wake(r) PROVE CountsGuards'
  <2>1. r \notin Guarded /\ Guarded' = Guarded \cup {r} /\ handles' = handles + 1
    BY <1>14 DEF IInv, TypeOK, Wake, Goto, Guarded
  <2> QED BY <2>1, OneMoreGuard DEF IInv
<1>15. ASSUME NEW r \in Requests, CheckUnloading(r) PROVE CountsGuards'
  <2>1. Guarded' = Guarded /\ handles' = handles
    BY <1>15 DEF IInv, TypeOK, LoaderRuns, CheckUnloading, Goto, Guarded, Plans, LoadPlans, UnloadPlans, ManagerPlans, DynamicPlans, Manager, Nobody
  <2> QED BY <2>1 DEF IInv, CountsGuards
<1>16. ASSUME NEW r \in Requests, Timeout(r) PROVE CountsGuards'
  <2>1. Guarded' = Guarded /\ handles' = handles
    BY <1>16 DEF IInv, TypeOK, LoaderRuns, Timeout, Goto, Guarded, Plans, LoadPlans, UnloadPlans, ManagerPlans, DynamicPlans, Manager, Nobody
  <2> QED BY <2>1 DEF IInv, CountsGuards
<1>17. ASSUME NEW r \in Requests, ValidateOk(r) PROVE CountsGuards'
  <2>1. Guarded' = Guarded /\ handles' = handles
    BY <1>17 DEF IInv, TypeOK, LoaderRuns, ValidateOk, Goto, Guarded, Plans, LoadPlans, UnloadPlans, ManagerPlans, DynamicPlans, Manager, Nobody
  <2> QED BY <2>1 DEF IInv, CountsGuards
<1>18. ASSUME NEW r \in Requests, ReleaseForReload(r) PROVE CountsGuards'
  <2>1. r \in Guarded /\ Guarded' = Guarded \ {r} /\ handles' = handles - 1
    BY <1>18 DEF IInv, TypeOK, ReleaseForReload, Goto, Guarded
  <2> QED BY <2>1, OneGuardLess DEF IInv
<1>19. ASSUME NEW r \in Requests, StartReshape(r) PROVE CountsGuards'
  <2>1. Guarded' = Guarded /\ handles' = handles
    BY <1>19 DEF IInv, TypeOK, LoaderRuns, StartReshape, Run, FirstStatus, SetStatus, Goto, Guarded, Plans, LoadPlans, UnloadPlans, ManagerPlans, DynamicPlans, Manager, Nobody
  <2> QED BY <2>1 DEF IInv, CountsGuards
<1>20. ASSUME NEW r \in Requests, RefuseReload(r) PROVE CountsGuards'
  <2>1. Guarded' = Guarded /\ handles' = handles
    BY <1>20 DEF IInv, TypeOK, LoaderRuns, RefuseReload, Goto, Guarded, Plans, LoadPlans, UnloadPlans, ManagerPlans, DynamicPlans, Manager, Nobody
  <2> QED BY <2>1 DEF IInv, CountsGuards
<1>21. ASSUME NEW r \in Requests, Finish(r) PROVE CountsGuards'
  <2>1. r \in Guarded /\ Guarded' = Guarded \ {r} /\ handles' = handles - 1
    BY <1>21 DEF IInv, TypeOK, Finish, Goto, Guarded
  <2> QED BY <2>1, OneGuardLess DEF IInv
<1> QED
  BY <1>1, <1>2, <1>3, <1>4, <1>5, <1>6, <1>7, <1>8, <1>9, <1>10, <1>11, <1>12, <1>13, <1>14, <1>15, <1>16, <1>17, <1>18, <1>19, <1>20, <1>21
  DEF Next, LoaderStep, RequestStep, WaitForLoadedStep, InferStep, ReloadStep

\* The count of guards is a natural number after every step.
LEMMA HandlesType == ASSUME IInv, Next PROVE handles' \in Nat
BY CountStep, GuardedFinite, FS_CardinalityType DEF CountsGuards

\* Every step keeps the variables in their ranges.
LEMMA TypeStep ==
  ASSUME IInv, Next PROVE TypeOK'
<1>1. ASSUME NEW p \in ManagerPlans, ManagerStart(p) PROVE TypeOK'
  <2>1. ops' \in 0 .. MaxOps
    BY <1>1, MaxOpsAssumption DEF IInv, TypeOK, ManagerStart
  <2>2. plan' \in Plans /\ stage' \in Stages
    BY <1>1 DEF ManagerStart, Run, Plans, ManagerPlans, LoadPlans, UnloadPlans, Stages
  <2>3. state' \in States /\ errorCode' \in {"OK", "UNKNOWN"}
    BY <1>1 DEF ManagerStart, Run, FirstStatus, SetStatus, States
  <2> QED BY <1>1, <2>1, <2>2, <2>3 DEF IInv, TypeOK, ManagerStart
<1>2. CASE FlagLoaderChange
  BY <1>2, RequestsAssumption, ShapesAssumption, MaxOpsAssumption, HandlesType
  DEF IInv, FlagLoaderChange, TypeOK, LoaderRuns, States, Stages, PCs, Nobody, Manager, NoModel, Mixed, Plans, LoadPlans, UnloadPlans, ManagerPlans, DynamicPlans
<1>3. CASE Drained
  BY <1>3, RequestsAssumption, ShapesAssumption, MaxOpsAssumption, HandlesType
  DEF IInv, Drained, TypeOK, LoaderRuns, States, Stages, PCs, Nobody, Manager, NoModel, Mixed, Plans, LoadPlans, UnloadPlans, ManagerPlans, DynamicPlans
<1>4. CASE DrainedAgain
  BY <1>4, RequestsAssumption, ShapesAssumption, MaxOpsAssumption, HandlesType
  DEF IInv, DrainedAgain, TypeOK, LoaderRuns, States, Stages, PCs, Nobody, Manager, NoModel, Mixed, Plans, LoadPlans, UnloadPlans, ManagerPlans, DynamicPlans
<1>5. CASE UnloadFirst
  BY <1>5, RequestsAssumption, ShapesAssumption, MaxOpsAssumption, HandlesType
  DEF IInv, UnloadFirst, TypeOK, LoaderRuns, States, Stages, PCs, Nobody, Manager, NoModel, Mixed, Plans, LoadPlans, UnloadPlans, ManagerPlans, DynamicPlans
<1>6. CASE Unload
  BY <1>6, RequestsAssumption, ShapesAssumption, MaxOpsAssumption, HandlesType
  DEF IInv, Unload, TypeOK, LoaderRuns, States, Stages, PCs, Nobody, Manager, NoModel, Mixed, Plans, LoadPlans, UnloadPlans, ManagerPlans, DynamicPlans
<1>7. CASE Unloaded
  BY <1>7, RequestsAssumption, ShapesAssumption, MaxOpsAssumption, HandlesType
  DEF IInv, Unloaded, Run, FirstStatus, SetStatus, Unlock, TypeOK, LoaderRuns, States, Stages, PCs, Nobody, Manager, NoModel, Mixed, Plans, LoadPlans, UnloadPlans, ManagerPlans, DynamicPlans
<1>8. CASE LoadSucceeds
  BY <1>8, RequestsAssumption, ShapesAssumption, MaxOpsAssumption, HandlesType
  DEF IInv, LoadSucceeds, SetStatus, Unlock, Goto, Requested, TypeOK, LoaderRuns, States, Stages, PCs, Nobody, Manager, NoModel, Mixed, Plans, LoadPlans, UnloadPlans, ManagerPlans, DynamicPlans
<1>9. CASE LoadFails
  BY <1>9, RequestsAssumption, ShapesAssumption, MaxOpsAssumption, HandlesType
  DEF IInv, LoadFails, SetStatus, Unlock, Goto, TypeOK, LoaderRuns, States, Stages, PCs, Nobody, Manager, NoModel, Mixed, Plans, LoadPlans, UnloadPlans, ManagerPlans, DynamicPlans
<1>10. CASE RetryAfterFailure
  BY <1>10, RequestsAssumption, ShapesAssumption, MaxOpsAssumption, HandlesType
  DEF IInv, RetryAfterFailure, Run, FirstStatus, SetStatus, TypeOK, LoaderRuns, States, Stages, PCs, Nobody, Manager, NoModel, Mixed, Plans, LoadPlans, UnloadPlans, ManagerPlans, DynamicPlans
<1>11. CASE GuardAfterReload
  BY <1>11, RequestsAssumption, ShapesAssumption, MaxOpsAssumption, HandlesType
  DEF IInv, GuardAfterReload, Unlock, Goto, TypeOK, LoaderRuns, States, Stages, PCs, Nobody, Manager, NoModel, Mixed, Plans, LoadPlans, UnloadPlans, ManagerPlans, DynamicPlans
<1>12. ASSUME NEW r \in Requests, TakeGuard(r) PROVE TypeOK'
  <2>1. pc' \in [Requests -> PCs]
    BY <1>12 DEF IInv, TypeOK, TakeGuard, Goto, PCs
  <2> QED BY <1>12, <2>1, HandlesType DEF IInv, TypeOK, TakeGuard
<1>13. ASSUME NEW r \in Requests, CheckState(r) PROVE TypeOK'
  <2>1. pc' \in [Requests -> PCs]
    BY <1>13 DEF IInv, TypeOK, CheckState, Goto, PCs
  <2> QED BY <1>13, <2>1, HandlesType DEF IInv, TypeOK, CheckState
<1>14. ASSUME NEW r \in Requests, Wake(r) PROVE TypeOK'
  <2>1. pc' \in [Requests -> PCs]
    BY <1>14 DEF IInv, TypeOK, Wake, Goto, PCs
  <2> QED BY <1>14, <2>1, HandlesType DEF IInv, TypeOK, Wake
<1>15. ASSUME NEW r \in Requests, CheckUnloading(r) PROVE TypeOK'
  <2>1. pc' \in [Requests -> PCs]
    BY <1>15 DEF IInv, TypeOK, CheckUnloading, Goto, PCs
  <2> QED BY <1>15, <2>1, HandlesType DEF IInv, TypeOK, CheckUnloading
<1>16. ASSUME NEW r \in Requests, Timeout(r) PROVE TypeOK'
  <2>1. pc' \in [Requests -> PCs]
    BY <1>16 DEF IInv, TypeOK, Timeout, Goto, PCs
  <2> QED BY <1>16, <2>1, HandlesType DEF IInv, TypeOK, Timeout
<1>17. ASSUME NEW r \in Requests, ValidateOk(r) PROVE TypeOK'
  <2>1. pc' \in [Requests -> PCs]
    BY <1>17 DEF IInv, TypeOK, ValidateOk, Goto, PCs
  <2> QED BY <1>17, <2>1, HandlesType DEF IInv, TypeOK, ValidateOk
<1>18. ASSUME NEW r \in Requests, ReleaseForReload(r) PROVE TypeOK'
  <2>1. pc' \in [Requests -> PCs]
    BY <1>18 DEF IInv, TypeOK, ReleaseForReload, Goto, PCs
  <2> QED BY <1>18, <2>1, HandlesType DEF IInv, TypeOK, ReleaseForReload
<1>19. ASSUME NEW r \in Requests, StartReshape(r) PROVE TypeOK'
  BY <1>19, RequestsAssumption, ShapesAssumption, MaxOpsAssumption, HandlesType
  DEF IInv, StartReshape, Run, FirstStatus, SetStatus, Goto, TypeOK, LoaderRuns, States, Stages, PCs, Nobody, Manager, NoModel, Mixed, Plans, LoadPlans, UnloadPlans, ManagerPlans, DynamicPlans
<1>20. ASSUME NEW r \in Requests, RefuseReload(r) PROVE TypeOK'
  <2>1. pc' \in [Requests -> PCs]
    BY <1>20 DEF IInv, TypeOK, RefuseReload, Goto, PCs
  <2> QED BY <1>20, <2>1, HandlesType DEF IInv, TypeOK, RefuseReload
<1>21. ASSUME NEW r \in Requests, Finish(r) PROVE TypeOK'
  <2>1. pc' \in [Requests -> PCs]
    BY <1>21 DEF IInv, TypeOK, Finish, Goto, PCs
  <2> QED BY <1>21, <2>1, HandlesType DEF IInv, TypeOK, Finish
<1> QED
  BY <1>1, <1>2, <1>3, <1>4, <1>5, <1>6, <1>7, <1>8, <1>9, <1>10, <1>11, <1>12, <1>13, <1>14, <1>15, <1>16, <1>17, <1>18, <1>19, <1>20, <1>21
  DEF Next, LoaderStep, RequestStep, WaitForLoadedStep, InferStep, ReloadStep

\* All conjuncts together are an invariant of the version.
LEMMA IInvariance == Spec => []IInv
<1>1. ASSUME IInv, [Next]_vars PROVE IInv'
  <2>1. CASE Next
    BY <1>1, <2>1, TypeStep, RunsStep, FirstLoadStep, StableStep, QuietStep,
       ReloadedStep, InfersStep, CountStep DEF IInv
  <2>2. CASE UNCHANGED vars
    BY <1>1, <2>2
    DEF vars, IInv, TypeOK, LoaderRuns, NotYetLoaded, AvailableIsStable,
        QuietPastWait, ReloadedShape, InfersOnItsShape, CountsGuards, Guarded, Using
  <2> QED BY <1>1, <2>1, <2>2
<1> QED BY <1>1, InitIInv, PTL DEF Spec

-----------------------------------------------------------------------------
\* The status, the guard count and the loading procedures keep their types; the
\* guard count never goes below zero.
THEOREM TypeCorrect == Spec => []TypeOK
BY IInvariance, PTL DEF IInv

\* A predict request always infers on the components compiled for its shape:
\* the protocol of guard count, state and loadingMutex in modelinstance.cpp
\* rules out inference on an unloaded, half loaded or reshaped version.
THEOREM InferenceSafe == Spec => []InfersOnItsShape
BY IInvariance, PTL DEF IInv

\* Loads, reloads and unloads never touch components that are in use.
THEOREM ComponentsStable == Spec => NoChangeUnderRequest
<1>1. ASSUME IInv, [Next]_vars, compiled' # compiled PROVE Using = {}
  <2>1. UnloadFirst \/ Unload \/ LoadSucceeds \/ LoadFails
    BY <1>1
    DEF Next, LoaderStep, RequestStep, WaitForLoadedStep, InferStep, ReloadStep,
        vars, ManagerStart, FlagLoaderChange, Drained, DrainedAgain, Unloaded,
        RetryAfterFailure, GuardAfterReload, TakeGuard, CheckState, Wake,
        CheckUnloading, Timeout, ValidateOk, ReleaseForReload, StartReshape,
        RefuseReload, Finish
  <2> QED BY <1>1, <2>1 DEF IInv, QuietPastWait, UnloadFirst, Unload, LoadSucceeds, LoadFails
<1>2. ASSUME IInv, [Next]_vars
      PROVE  [compiled' # compiled =>
                \A r \in Requests : pc[r] \notin {"validate", "infer"}]_vars
  BY <1>1, <1>2 DEF Using
<1> QED BY <1>2, IInvariance, PTL DEF Spec, NoChangeUnderRequest

=============================================================================
