-------------------- MODULE MediapipeGraphExecutor_proofs --------------------
(***************************************************************************)
(* Proofs about MediaPipe graphs: the definition that is reloaded while    *)
(* executors are made from it, and the calls that run in executors, for    *)
(* any number of calls, graphs, requests and manager operations.           *)
(***************************************************************************)
EXTENDS MediapipeGraphExecutor, FiniteSetTheorems, NaturalsInduction, WellFoundedInduction, TLAPS

Waiting == {"check", "last", "ended", "wait", "create"}
Running == {"stamp", "push", "idle", "checkError", "renew", "read", "close", "finish"}
PCs == {"new", "start", "done"} \cup Waiting \cup Running
Validation == {"clear", "read", "streams", "initialize", "passed", "failed"}

DefinitionTypes ==
  /\ file \in Files
  /\ defined \in BOOLEAN
  /\ status \in States
  /\ ops \in Nat
  /\ step \in {"none", "drain"} \cup Validation
  /\ pc \in [Calls -> PCs]
  /\ DOMAIN exec = Calls
  /\ DOMAIN call = Calls

\* The calls that hold a MediapipeGraphDefinitionUnloadGuard, and their number.
Guarded == {c \in Calls : pc[c] \in {"check", "last", "create"}}
CountsGuards == handles = Cardinality(Guarded)

\* A definition that is validated is blocked, and it settles at the end.
Blocked ==
  /\ step # "none" => status \in {"BEGIN", "RELOADING"}
  /\ defined /\ step = "none" =>
       status \in {"AVAILABLE", "LOADING_PRECONDITION_FAILED", "RETIRED"}
  /\ step = "drain" => defined
  /\ ~defined => ~isAvailable(status)

\* Calls find only definitions that the factory knows.
NobodyBefore == ~defined => \A c \in Calls : pc[c] \in {"new", "done"}

\* Past the wait for the guards nobody makes an executor.
QuietPastDrain == step \in Validation => \A c \in Calls : pc[c] # "create"

\* The graph, its streams and its nodes belong together and were validated.
Complete == config = streams /\ config = nodes /\ ValidGraph(config)

\* How far the validation has come.
Validated ==
  /\ step \in {"streams", "initialize"} => config \in DOMAIN Graph
  /\ step = "initialize" =>
       /\ streams = config
       /\ StreamNamesStatus(Graph[config]) = "OK" /\ StreamTypesStatus(Graph[config]) = "OK"
  /\ step = "passed" => Complete

\* Executors are made of a complete definition only.
ServesComplete ==
  /\ isAvailable(status) => Complete
  /\ \A c \in Calls : pc[c] = "create" => Complete

\* The digest is that of the graph, and a graph with a digest that is not
\* served was refused.
DigestOfGraph ==
  /\ md5 # "" => md5 = config
  /\ step \in {"clear", "read"} => md5 = ""
  /\ step = "failed" /\ md5 # "" => ~ValidGraph(config)
  /\ (defined /\ step = "none" /\ status # "RETIRED" /\ md5 # "" /\ ValidGraph(config))
       => isAvailable(status)

DefinitionInv ==
  /\ DefinitionTypes /\ Blocked /\ NobodyBefore /\ QuietPastDrain /\ Validated
  /\ ServesComplete /\ DigestOfGraph /\ ExecutorOfOneGraph


-----------------------------------------------------------------------------
\* lemmas about the guards

\* There are finitely many guards, before and after a step.
LEMMA GuardedFinite == IsFiniteSet(Guarded) /\ IsFiniteSet(Guarded')
<1>1. Guarded \subseteq Calls /\ Guarded' \subseteq Calls
  BY DEF Guarded
<1> QED BY <1>1, DefinitionAssumption, FS_Subset

\* A new guard is counted once ...
LEMMA OneMoreGuard ==
  ASSUME CountsGuards, NEW c, c \notin Guarded,
         Guarded' = Guarded \cup {c}, handles' = handles + 1
  PROVE  CountsGuards'
BY GuardedFinite, FS_AddElement DEF CountsGuards

\* ... and a dropped one once.
LEMMA OneGuardLess ==
  ASSUME CountsGuards, NEW c \in Guarded,
         Guarded' = Guarded \ {c}, handles' = handles - 1
  PROVE  CountsGuards'
BY GuardedFinite, FS_RemoveElement DEF CountsGuards

\* Nobody makes an executor when no guard is held.
LEMMA NoGuardNobodyCreates ==
  ASSUME CountsGuards, handles = 0 PROVE \A c \in Calls : pc[c] # "create"
<1>1. Guarded = {}
  BY GuardedFinite, FS_EmptySet DEF CountsGuards
<1> QED BY <1>1 DEF Guarded

-----------------------------------------------------------------------------
\* the steps of the manager

\* What the events do to the states that the definition can be in.
LEMMA AfterEvents ==
  ASSUME NEW s \in States
  PROVE  /\ After(s, "Reload") \in {"BEGIN", "RELOADING"}
         /\ s \in {"AVAILABLE", "LOADING_PRECONDITION_FAILED"} => After(s, "Retire") = "RETIRED"
         /\ s \in {"BEGIN", "RELOADING"} =>
              /\ After(s, "ValidationPassed") = "AVAILABLE"
              /\ After(s, "ValidationFailed") = "LOADING_PRECONDITION_FAILED"
BY DEF After, Expects, Settled, States, isAvailable, isRevalidationRequired

\* Every step of the manager preserves the invariant of the definition.
LEMMA ManagerSteps ==
  ASSUME DefinitionInv, CountsGuards, ManagerNext, UNCHANGED call
  PROVE  DefinitionInv'
<1> USE DEF States, isAvailable
<1>1. ASSUME CreateDefinition PROVE DefinitionInv'
  <2>1. DefinitionTypes'
    <3>1. /\ file' = file /\ defined' = defined /\ status' = "BEGIN" /\ step' = "clear"
          /\ pc' = pc /\ exec' = exec /\ call' = call
      BY <1>1 DEF CreateDefinition
    <3>2. ops \in Nat /\ ops' = ops + 1
      BY <1>1 DEF DefinitionInv, DefinitionTypes, CreateDefinition, Operation
    <3> QED BY <3>1, <3>2 DEF DefinitionInv, DefinitionTypes, Validation
  <2>2. Blocked'
    BY <1>1 DEF DefinitionInv, DefinitionTypes, Blocked, Validation, CreateDefinition, Operation
  <2>3. NobodyBefore'
    BY <1>1 DEF DefinitionInv, DefinitionTypes, Blocked, NobodyBefore, CreateDefinition, Operation
  <2>4. QuietPastDrain'
    BY <1>1 DEF DefinitionInv, NobodyBefore, QuietPastDrain, CreateDefinition
  <2>5. Validated'
    BY <1>1 DEF DefinitionInv, DefinitionTypes, Blocked, Validated, Complete, Validation, CreateDefinition, Operation
  <2>6. ServesComplete'
    BY <1>1 DEF DefinitionInv, DefinitionTypes, Blocked, ServesComplete, Complete, CreateDefinition, Operation
  <2>7. DigestOfGraph'
    BY <1>1 DEF DefinitionInv, DefinitionTypes, Blocked, DigestOfGraph, CreateDefinition, Operation
  <2>8. ExecutorOfOneGraph'
    BY <1>1 DEF DefinitionInv, DefinitionTypes, Blocked, ExecutorOfOneGraph, CreateDefinition, Operation
  <2> QED BY <2>1, <2>2, <2>3, <2>4, <2>5, <2>6, <2>7, <2>8 DEF DefinitionInv
<1>2. ASSUME Retire PROVE DefinitionInv'
  <2>1. DefinitionTypes'
    BY <1>2, AfterEvents DEF DefinitionInv, DefinitionTypes, Blocked, Validation, Retire, Operation
  <2>2. Blocked'
    BY <1>2, AfterEvents DEF DefinitionInv, DefinitionTypes, Blocked, Validation, Retire, Operation
  <2>3. NobodyBefore'
    BY <1>2, AfterEvents DEF DefinitionInv, DefinitionTypes, Blocked, NobodyBefore, Retire, Operation
  <2>4. QuietPastDrain'
    BY <1>2, AfterEvents DEF DefinitionInv, DefinitionTypes, Blocked, QuietPastDrain, Validation, Retire, Operation
  <2>5. Validated'
    BY <1>2, AfterEvents DEF DefinitionInv, DefinitionTypes, Blocked, Validated, Complete, Validation, Retire, Operation
  <2>6. ServesComplete'
    BY <1>2, AfterEvents DEF DefinitionInv, DefinitionTypes, Blocked, ServesComplete, Complete, Retire, Operation
  <2>7. DigestOfGraph'
    BY <1>2, AfterEvents DEF DefinitionInv, DefinitionTypes, Blocked, DigestOfGraph, Retire, Operation
  <2>8. ExecutorOfOneGraph'
    BY <1>2, AfterEvents DEF DefinitionInv, DefinitionTypes, Blocked, ExecutorOfOneGraph, Retire, Operation
  <2> QED BY <2>1, <2>2, <2>3, <2>4, <2>5, <2>6, <2>7, <2>8 DEF DefinitionInv
<1>3. ASSUME NEW moved \in BOOLEAN, ReloadDefinition(moved) PROVE DefinitionInv'
  <2>1. DefinitionTypes'
    BY <1>3, AfterEvents DEF DefinitionInv, DefinitionTypes, Validation, ReloadDefinition, Operation
  <2>2. Blocked'
    BY <1>3, AfterEvents DEF DefinitionInv, DefinitionTypes, Blocked, Validation, ReloadDefinition, Operation, IsReloadRequired
  <2>3. NobodyBefore'
    BY <1>3, AfterEvents DEF DefinitionInv, DefinitionTypes, Blocked, NobodyBefore, ReloadDefinition, Operation, IsReloadRequired
  <2>4. QuietPastDrain'
    BY <1>3, AfterEvents DEF DefinitionInv, DefinitionTypes, Blocked, QuietPastDrain, Validation, ReloadDefinition, Operation, IsReloadRequired
  <2>5. Validated'
    BY <1>3, AfterEvents DEF DefinitionInv, DefinitionTypes, Blocked, Validated, Complete, Validation, ReloadDefinition, Operation, IsReloadRequired
  <2>6. ServesComplete'
    BY <1>3, AfterEvents DEF DefinitionInv, DefinitionTypes, Blocked, ServesComplete, Complete, ReloadDefinition, Operation, IsReloadRequired
  <2>7. DigestOfGraph'
    BY <1>3, AfterEvents DEF DefinitionInv, DefinitionTypes, Blocked, DigestOfGraph, ReloadDefinition, Operation, IsReloadRequired
  <2>8. ExecutorOfOneGraph'
    BY <1>3, AfterEvents DEF DefinitionInv, DefinitionTypes, Blocked, ExecutorOfOneGraph, ReloadDefinition, Operation, IsReloadRequired
  <2> QED BY <2>1, <2>2, <2>3, <2>4, <2>5, <2>6, <2>7, <2>8 DEF DefinitionInv
<1>4. ASSUME NEW f \in Files, EditFile(f) PROVE DefinitionInv'
  BY <1>4
  DEF DefinitionInv, DefinitionTypes, Blocked, NobodyBefore, QuietPastDrain, Validated,
      ServesComplete, DigestOfGraph, ExecutorOfOneGraph, Complete, Validation,
      EditFile
<1>5. ASSUME Drain PROVE DefinitionInv'
  BY <1>5, NoGuardNobodyCreates
  DEF DefinitionInv, DefinitionTypes, Blocked, NobodyBefore, QuietPastDrain, Validated,
      ServesComplete, DigestOfGraph, ExecutorOfOneGraph, Complete, Validation,
      Drain
<1>6. ASSUME ClearNodes PROVE DefinitionInv'
  BY <1>6
  DEF DefinitionInv, DefinitionTypes, Blocked, NobodyBefore, QuietPastDrain, Validated,
      ServesComplete, DigestOfGraph, ExecutorOfOneGraph, Complete, Validation,
      ClearNodes
<1>7. ASSUME ReadGraphFile PROVE DefinitionInv'
  <2>1. DefinitionTypes'
    BY <1>7 DEF DefinitionInv, DefinitionTypes, Blocked, Validation, ReadGraphFile, ValidGraph
  <2>2. Blocked'
    BY <1>7 DEF DefinitionInv, DefinitionTypes, Blocked, Validation, ReadGraphFile, ValidGraph
  <2>3. NobodyBefore'
    BY <1>7 DEF DefinitionInv, DefinitionTypes, Blocked, NobodyBefore, ReadGraphFile, ValidGraph
  <2>4. QuietPastDrain'
    BY <1>7 DEF DefinitionInv, DefinitionTypes, Blocked, QuietPastDrain, Validation, ReadGraphFile, ValidGraph
  <2>5. Validated'
    BY <1>7 DEF DefinitionInv, DefinitionTypes, Blocked, Validated, Complete, Validation, ReadGraphFile, ValidGraph
  <2>6. ServesComplete'
    BY <1>7 DEF DefinitionInv, Blocked, ServesComplete, QuietPastDrain, Validation, ReadGraphFile
  <2>7. DigestOfGraph'
    BY <1>7 DEF DefinitionInv, DefinitionTypes, Blocked, DigestOfGraph, ReadGraphFile, ValidGraph
  <2>8. ExecutorOfOneGraph'
    BY <1>7 DEF DefinitionInv, DefinitionTypes, Blocked, ExecutorOfOneGraph, ReadGraphFile, ValidGraph
  <2> QED BY <2>1, <2>2, <2>3, <2>4, <2>5, <2>6, <2>7, <2>8 DEF DefinitionInv
<1>8. ASSUME SetStreams PROVE DefinitionInv'
  BY <1>8
  DEF DefinitionInv, DefinitionTypes, Blocked, NobodyBefore, QuietPastDrain, Validated,
      ServesComplete, DigestOfGraph, ExecutorOfOneGraph, Complete, Validation,
      SetStreams, ValidGraph
<1>9. ASSUME InitializeNodes PROVE DefinitionInv'
  BY <1>9
  DEF DefinitionInv, DefinitionTypes, Blocked, NobodyBefore, QuietPastDrain, Validated,
      ServesComplete, DigestOfGraph, ExecutorOfOneGraph, Complete, Validation,
      InitializeNodes, ValidGraph
<1>10. ASSUME NotifyResult PROVE DefinitionInv'
  BY <1>10, AfterEvents
  DEF DefinitionInv, DefinitionTypes, Blocked, NobodyBefore, QuietPastDrain, Validated,
      ServesComplete, DigestOfGraph, ExecutorOfOneGraph, Complete, Validation,
      NotifyResult
<1> QED
  BY <1>1, <1>2, <1>3, <1>4, <1>5, <1>6, <1>7, <1>8, <1>9, <1>10
  DEF ManagerNext, ValidateStep


-----------------------------------------------------------------------------
\* the steps of the calls

CallStep(c) == \/ Arrive(c) /\ UNCHANGED call
               \/ WaitStep(c) \/ ThreadStep(c) \/ NodeStep(c) \/ ReadRequest(c)
               \/ \E how \in {"closed", "gone"} : Leave(c, how)

Inside(c) == ThreadStep(c) \/ NodeStep(c) \/ ReadRequest(c)
               \/ \E how \in {"closed", "gone"} : Leave(c, how)

\* A call that has its executor, or ends without one, moves on alone.
LEMMA InsideFrame ==
  ASSUME NEW c \in Calls, DefinitionTypes, Inside(c)
  PROVE  /\ UNCHANGED <<managerVars, handles, exec>>
         /\ \E r : call' = [call EXCEPT ![c] = r]
         /\ \/ pc' = pc
            \/ /\ pc[c] \in {"new", "start"} \cup Running
               /\ \E l \in Running \cup {"done"} : pc' = [pc EXCEPT ![c] = l]
               /\ pc[c] = "new" => pc' = [pc EXCEPT ![c] = "done"]
<1> USE DEF Become, Return, Goto, Running
<1>1. CASE Start(c)
  BY <1>1 DEF Start
<1>2. CASE Stamp(c)
  BY <1>2 DEF Stamp, NextStep
<1>3. CASE PushInput(c)
  BY <1>3 DEF PushInput, NextStep, Reject
<1>4. CASE AllPushed(c)
  BY <1>4 DEF AllPushed, NextStep
<1>5. CASE CheckError(c) \/ Renew(c) \/ ReadEnds(c)
  BY <1>5 DEF CheckError, Renew, ReadEnds
<1>6. CASE WaitUntilIdle(c) \/ CloseAllPacketSources(c) \/ WaitUntilDone(c) \/ ClosedUnopened(c)
  BY <1>6 DEF WaitUntilIdle, CloseAllPacketSources, WaitUntilDone, ClosedUnopened
<1>7. CASE ReadRequest(c)
  BY <1>7 DEF ReadRequest
<1>8. CASE NodeStep(c)
  BY <1>8 DEF NodeStep, PassThrough, NodeFails, ProcessInputs, ProcessLoopback, NodeBecomes,
       definitionVars
<1>9. ASSUME NEW how \in {"closed", "gone"}, Leave(c, how)
      PROVE  UNCHANGED definitionVars /\ \E r : call' = [call EXCEPT ![c] = r]
  <2>1. UNCHANGED definitionVars
    BY <1>9 DEF Leave
  <2>2. call' = [call EXCEPT ![c] = [call[c] EXCEPT !.client = how]]
    BY <1>9 DEF Leave
  <2> QED BY <2>1, <2>2
<1>10. ASSUME UNCHANGED definitionVars PROVE UNCHANGED <<managerVars, handles, exec>> /\ pc' = pc
  BY <1>10 DEF definitionVars
<1> QED BY <1>1, <1>2, <1>3, <1>4, <1>5, <1>6, <1>7, <1>8, <1>9, <1>10 DEF Inside, ThreadStep

\* What a step of a call may change: its place and its executor, which is made
\* of the definition as it is.
LEMMA CallFrame ==
  ASSUME NEW c \in Calls, DefinitionTypes, NobodyBefore, CallStep(c)
  PROVE  /\ UNCHANGED managerVars
         /\ \E l \in PCs : pc' = [pc EXCEPT ![c] = l]
         /\ DOMAIN call' = Calls
         /\ pc'[c] = "create" => pc[c] = "create" \/ isAvailable(status)
         /\ ~defined => pc'[c] \in {"new", "done"}
         /\ \/ exec' = exec
            \/ /\ pc[c] = "create"
               /\ exec' = [exec EXCEPT ![c] = [config |-> config, streams |-> streams,
                                               nodes |-> nodes]]
<1> USE DEF DefinitionTypes
<1>1. CASE Arrive(c) /\ UNCHANGED call
  BY <1>1 DEF Arrive, Goto, PCs, Waiting
<1>2. CASE CheckAvailable(c) /\ UNCHANGED call
  BY <1>2 DEF CheckAvailable, Goto, PCs, Waiting, NobodyBefore
<1>3. CASE (CanEndLoaded(c) \/ Wake(c) \/ Timeout(c)) /\ UNCHANGED call
  BY <1>3 DEF CanEndLoaded, Wake, Timeout, Goto, PCs, Waiting, NobodyBefore
<1>4. CASE CreateExecutor(c) /\ UNCHANGED call
  BY <1>4 DEF CreateExecutor, Goto, PCs, NobodyBefore
<1>5. CASE Inside(c)
  <2>1. UNCHANGED managerVars /\ exec' = exec /\ DOMAIN call' = Calls
    BY <1>5, InsideFrame
  <2>2. CASE pc' = pc
    <3>1. pc' = [pc EXCEPT ![c] = pc[c]]
      BY <2>2
    <3> QED BY <2>1, <2>2, <3>1 DEF NobodyBefore
  <2>3. CASE pc' # pc
    <3>1. PICK l \in Running \cup {"done"} : pc' = [pc EXCEPT ![c] = l]
      BY <1>5, <2>3, InsideFrame
    <3>2. l # "create" /\ l \in PCs
      BY DEF Running, PCs
    <3>3. pc[c] = "new" => pc'[c] = "done"
      BY <1>5, <2>3, InsideFrame
    <3>4. pc[c] \in {"new", "start"} \cup Running
      BY <1>5, <2>3, InsideFrame
    <3> QED BY <2>1, <3>1, <3>2, <3>3, <3>4 DEF NobodyBefore, Running
  <2> QED BY <2>2, <2>3
<1> QED BY <1>1, <1>2, <1>3, <1>4, <1>5 DEF CallStep, Inside, WaitStep, CallWaits

\* Every step of a call preserves the invariant of the definition.
LEMMA CallSteps ==
  ASSUME DefinitionInv, NEW c \in Calls, CallStep(c)
  PROVE  DefinitionInv'
<1>1. /\ UNCHANGED <<file, defined, status, md5, config, streams, nodes, step, ops>>
      /\ UNCHANGED Complete
  BY CallFrame DEF DefinitionInv, managerVars, Complete
<1>2. /\ pc' \in [Calls -> PCs] /\ \A d \in Calls \ {c} : pc'[d] = pc[d]
      /\ pc'[c] = "create" => pc[c] = "create" \/ isAvailable(status)
      /\ ~defined => pc'[c] \in {"new", "done"}
  BY CallFrame DEF DefinitionInv, DefinitionTypes
<1>3. DOMAIN call' = Calls /\ DOMAIN exec' = Calls
  BY CallFrame DEF DefinitionInv, DefinitionTypes
<1>4. DefinitionTypes'
  BY <1>1, <1>2, <1>3 DEF DefinitionInv, DefinitionTypes
<1>5. Blocked' /\ NobodyBefore'
  BY <1>1, <1>2 DEF DefinitionInv, Blocked, NobodyBefore
<1>6. QuietPastDrain'
  BY <1>1, <1>2 DEF DefinitionInv, Blocked, QuietPastDrain, Validation, isAvailable
<1>7. Validated' /\ DigestOfGraph'
  BY <1>1 DEF DefinitionInv, Validated, DigestOfGraph
<1>8. ServesComplete'
  BY <1>1, <1>2 DEF DefinitionInv, ServesComplete
<1>9. ExecutorOfOneGraph'
  <2>1. CASE exec' = exec
    BY <2>1 DEF DefinitionInv, ExecutorOfOneGraph
  <2>2. CASE exec' # exec
    <3>1. exec' = [exec EXCEPT ![c] = [config |-> config, streams |-> streams, nodes |-> nodes]]
      BY <2>2, CallFrame DEF DefinitionInv
    <3>2. Complete
      BY <2>2, CallFrame DEF DefinitionInv, ServesComplete
    <3> QED BY <3>1, <3>2 DEF DefinitionInv, DefinitionTypes, ExecutorOfOneGraph, Complete
  <2> QED BY <2>1, <2>2
<1> QED BY <1>4, <1>5, <1>6, <1>7, <1>8, <1>9 DEF DefinitionInv

\* Every step of a call changes the number of guards together with its place.
LEMMA CallCounts ==
  ASSUME DefinitionTypes, CountsGuards, NobodyBefore, NEW c \in Calls, CallStep(c)
  PROVE  CountsGuards'
<1> USE DEF DefinitionTypes
<1>1. CASE Guarded' = Guarded /\ handles' = handles
  BY <1>1 DEF CountsGuards
<1>2. CASE Arrive(c)
  <2>1. CASE defined
    <3>1. c \notin Guarded /\ handles' = handles + 1
      BY <1>2, <2>1 DEF Arrive, Guarded
    <3>2. Guarded' = Guarded \cup {c}
      BY <1>2, <2>1 DEF Arrive, Goto, Guarded
    <3> QED BY <3>1, <3>2, OneMoreGuard
  <2>2. CASE ~defined
    <3>1. Guarded' = Guarded /\ handles' = handles
      BY <1>2, <2>2 DEF Arrive, Goto, Guarded
    <3> QED BY <1>1, <3>1
  <2> QED BY <2>1, <2>2
<1>3. CASE Wake(c) \/ Timeout(c)
  <2>1. c \notin Guarded /\ handles' = handles + 1
    BY <1>3 DEF Wake, Timeout, Guarded
  <2>2. Guarded' = Guarded \cup {c}
    BY <1>3 DEF Wake, Timeout, Goto, Guarded
  <2> QED BY <2>1, <2>2, OneMoreGuard
<1>4. CASE CheckAvailable(c)
  <2>1. CASE isAvailable(status)
    <3>1. Guarded' = Guarded /\ handles' = handles
      BY <1>4, <2>1 DEF CheckAvailable, Goto, Guarded
    <3> QED BY <1>1, <3>1
  <2>2. CASE ~isAvailable(status)
    <3>1. c \in Guarded /\ handles' = handles - 1
      BY <1>4, <2>2 DEF CheckAvailable, Guarded
    <3>2. Guarded' = Guarded \ {c}
      BY <1>4, <2>2 DEF CheckAvailable, Goto, Guarded
    <3> QED BY <3>1, <3>2, OneGuardLess
  <2> QED BY <2>1, <2>2
<1>5. CASE CanEndLoaded(c)
  <2>1. Guarded' = Guarded /\ handles' = handles
    BY <1>5 DEF CanEndLoaded, Goto, Guarded
  <2> QED BY <1>1, <2>1
<1>6. CASE CreateExecutor(c)
  <2>1. c \in Guarded /\ handles' = handles - 1
    BY <1>6 DEF CreateExecutor, Guarded
  <2>2. Guarded' = Guarded \ {c}
    BY <1>6 DEF CreateExecutor, Goto, Guarded
  <2> QED BY <2>1, <2>2, OneGuardLess
<1>7. CASE Inside(c)
  <2>1. handles' = handles
    BY <1>7, InsideFrame
  <2>2. CASE pc' = pc
    BY <1>1, <2>1, <2>2 DEF Guarded
  <2>3. CASE pc' # pc
    <3>1. /\ pc[c] \in {"new", "start"} \cup Running
          /\ \E l \in Running \cup {"done"} : pc' = [pc EXCEPT ![c] = l]
      BY <1>7, <2>3, InsideFrame
    <3>2. Guarded' = Guarded
      BY <3>1 DEF Guarded, Running
    <3> QED BY <1>1, <2>1, <3>2
  <2> QED BY <2>2, <2>3
<1> QED BY <1>2, <1>3, <1>4, <1>5, <1>6, <1>7 DEF CallStep, Inside, WaitStep, CallWaits


-----------------------------------------------------------------------------
\* the invariant of a call: r is its record, l its place and e its executor

\* The output stream that an input stream is passed on to.
PassedTo(f, name) ==
  Graph[f].outputs[CHOOSE i \in DOMAIN Graph[f].inputs : Graph[f].inputs[i].name = name].name

OutputNames == STRING \cup {PassedTo(f, name) : f \in DOMAIN Graph, name \in STRING}

Takens == [ts : Int, pushed : SUBSET STRING, ok : BOOLEAN]
Packets == [input : STRING, ts : Int, object : Nat]
Generators == [on : BOOLEAN, left : Int, ts : Int, from : SUBSET Nat, loop : BOOLEAN]
OutPackets == [output : OutputNames, ts : Int, from : SUBSET Nat]

Errors == {"none", "open", "order", "node", "output", "write", "busy", "script"}
TensorStatus(tag, t) == DeserializeTensor(PacketType(tag), t).status
TensorStatuses == {TensorStatus(tag, t) : tag \in STRING, t \in Tensors}
Results ==
  {"", "OK", "MEDIAPIPE_UNINITIALIZED_STREAM_CLOSURE", "MEDIAPIPE_GRAPH_INITIALIZATION_ERROR",
   "INVALID_NO_OF_INPUTS", "INVALID_UNEXPECTED_INPUT", "INVALID_MESSAGE_STRUCTURE",
   "INVALID_MISSING_INPUT", "MEDIAPIPE_GRAPH_ADD_PACKET_INPUT_STREAM", "MEDIAPIPE_EXECUTION_ERROR"}
    \cup TensorStatuses

CallType ==
  [kind : {"unary", "stream"}, client : {"open", "closed", "gone"}, asked : Seq(RequestType),
   objects : Seq(Nat), next : Nat, now : Int, taken : Seq(Takens), queue : SUBSET Packets,
   closed : BOOLEAN, generator : Generators, error : Errors, out : Seq(OutPackets), result : Results]

Started == {"start"} \cup Running
Made(e) == e.config \in DOMAIN Graph /\ e.streams = e.config /\ ValidGraph(e.config)
Generates(e) == IsPython(Graph[e.config]) /\ Graph[e.config].script = "yields"

\* Before its first request a call has nothing; with one it has an executor.
Begins(r, l, e) ==
  /\ l \in Started \/ r.asked # <<>> => Made(e)
  /\ l \in {"new", "start"} \cup Waiting => r.asked = <<>> /\ r.objects = <<0>> /\ r.now = 0
  /\ r.asked = <<>> => r.queue = {} /\ r.out = <<>> /\ r.error = "none" /\ ~r.generator.loop
  /\ Len(r.taken) = Len(r.asked) /\ r.objects # <<>>
  /\ l \in {"stamp", "push"} => r.asked # <<>>
  /\ r.kind = "unary" => l \notin {"stamp", "checkError", "renew", "read"}

\* The timestamp of request n will not change any more.
Dated(r, l, n) == n \in DOMAIN r.taken /\ (l = "stamp" => n < Len(r.taken))

\* The packets in the graph, the generator and the responses hold the data of
\* requests with their timestamps.
Matches(r, l, e) ==
  /\ \A p \in r.queue : /\ p.object \in DOMAIN r.objects
                        /\ Dated(r, l, r.objects[p.object])
                        /\ r.taken[r.objects[p.object]].ts = p.ts
  /\ l = "read" => \A p \in r.queue : p.object # Len(r.objects)
  /\ l \in {"stamp", "push"} => r.objects[Len(r.objects)] = Len(r.taken)
  /\ l = "push" => r.taken[Len(r.taken)].ts = r.now
  /\ r.generator.loop => Generates(e) /\ \A n \in r.generator.from :
                           Dated(r, l, n) /\ r.taken[n].ts < r.generator.ts
  /\ \A i \in DOMAIN r.out : \A n \in r.out[i].from :
       /\ Dated(r, l, n)
       /\ r.taken[n].ts = r.out[i].ts \/ (Generates(e) /\ r.taken[n].ts < r.out[i].ts)

\* Request n gives a timestamp that is not above an earlier one.
Backwards(r, n) ==
  r.asked[n].stamp = "manual" /\ \E m \in 1..(n - 1) : r.taken[m].ts >= r.asked[n].at

\* Request n is done with, and was refused when it had set the timestamp or
\* pushed a part of its inputs.
Refused(r, l, n) ==
  /\ l \in {"stamp", "push"} => n < Len(r.taken)
  /\ ~r.taken[n].ok
  /\ r.asked[n].stamp = "manual" \/ r.taken[n].pushed # {}

ClientBroke(r, l) ==
  \E n \in DOMAIN r.taken : Backwards(r, n) \/ Repeated(r.asked[n].inputs) \/ Refused(r, l, n)

PushOrderOf(r, e) ==
  IF r.kind = "stream"
    THEN [i \in DOMAIN r.asked[Len(r.asked)].inputs |-> r.asked[Len(r.asked)].inputs[i].name]
    ELSE [i \in DOMAIN Graph[e.streams].inputs |-> Graph[e.streams].inputs[i].name]

\* The timestamp that the server sets next is above all those it has used,
\* unless the client broke the order.
InOrder(r, l, e) ==
  /\ r.error = "order" => ClientBroke(r, l)
  /\ \/ ClientBroke(r, l)
     \/ \A m \in DOMAIN r.taken : r.taken[m].pushed # {} =>
          \/ r.taken[m].ts < r.now
          \/ m = Len(r.taken) /\ (l = "push" \/ r.kind = "unary")
  /\ \A m \in DOMAIN r.taken : r.taken[m].pushed # {} => r.taken[m].ts \in 0..LastTimestamp
  /\ l \in {"stamp", "push"} => ~r.taken[Len(r.taken)].ok
  /\ l = "stamp" => r.taken[Len(r.taken)].pushed = {}
  /\ l = "push" => /\ r.now \in 0..LastTimestamp
                   /\ \A name \in r.taken[Len(r.taken)].pushed :
                        \E i \in 1..r.next : name = PushOrderOf(r, e)[i]

Sound(r, l, e) == r \in CallType /\ Begins(r, l, e) /\ Matches(r, l, e) /\ InOrder(r, l, e)

CallsSound == \A c \in Calls : Sound(call[c], pc[c], exec[c])


-----------------------------------------------------------------------------
\* what the operators of a call preserve

\* A set of natural numbers has a least element.
LEMMA LeastOfNaturals ==
  ASSUME NEW S \in SUBSET Nat, S # {} PROVE \E m \in S : \A k \in S : m <= k
<1> DEFINE Less == {p \in Nat \X Nat : p[1] < p[2]}
<1>1. OpToRel(<, Nat) = Less
  BY Zenon DEF OpToRel
<1>2. IsWellFoundedOn(Less, Nat)
  BY <1>1, NatLessThanWellFounded, Zenon
<1> HIDE DEF Less
<1>3. PICK m \in S : \A k \in S : ~(<<k, m>> \in Less)
  BY <1>2, WFMin
<1>4. ASSUME NEW k \in S PROVE m <= k
  <2>1. m \in Nat /\ k \in Nat /\ ~(<<k, m>> \in Less)
    BY <1>3
  <2>2. <<k, m>> \in Nat \X Nat /\ <<k, m>>[1] = k /\ <<k, m>>[2] = m
    BY <2>1
  <2>3. ~(k < m)
    BY <2>1, <2>2, Zenon DEF Less
  <2> QED BY <2>1, <2>3
<1> QED BY <1>4

\* Timestamps that are in range have a greatest one.
LEMMA GreatestTimestamp ==
  ASSUME NEW S \in SUBSET (0..LastTimestamp), S # {} PROVE \E t \in S : \A u \in S : u <= t
<1> DEFINE T == {n \in Nat : \E t \in S : n = LastTimestamp - t}
<1>1. ASSUME NEW t \in S PROVE LastTimestamp - t \in T
  BY ExecutorAssumption
<1>2. PICK m \in T : \A k \in T : m <= k
  BY <1>1, LeastOfNaturals
<1>3. PICK t \in S : m = LastTimestamp - t
  BY <1>2
<1>4. ASSUME NEW u \in S PROVE u <= t
  <2>1. LastTimestamp - u \in T
    BY <1>1
  <2> QED BY <1>2, <1>3, <2>1, ExecutorAssumption
<1> QED BY <1>4

\* A call that is done with a request, or with all of them, goes on.
LEMMA MovesOn ==
  ASSUME NEW r, NEW l \in {"new"} \cup Started, NEW e, Sound(r, l, e),
         NEW k \in (Running \cup {"done"}) \ {"stamp", "push", "read"},
         r.kind = "unary" => k \notin {"checkError", "renew"},
         l = "new" => k = "done"
  PROVE  Sound(r, k, e)
<1> USE DEF Sound
<1>1. Begins(r, k, e)
  BY DEF Begins, Started, Running, Waiting
<1>2. \A n : Dated(r, l, n) => Dated(r, k, n)
  BY DEF Dated
<1>3. Matches(r, k, e)
  BY <1>2 DEF Matches
<1>4. ClientBroke(r, l) => ClientBroke(r, k)
  BY DEF ClientBroke, Refused
<1>5. l = "push" /\ r.taken[Len(r.taken)].pushed # {} => ClientBroke(r, k)
  <2>1. l = "push" => Len(r.taken) \in DOMAIN r.taken
    BY DEF Begins, CallType
  <2> QED BY <2>1 DEF ClientBroke, Refused, InOrder
<1>6. InOrder(r, k, e)
  BY <1>4, <1>5 DEF InOrder
<1> QED BY <1>1, <1>3, <1>6

\* The fields that the invariant does not look at.
LEMMA OtherFields ==
  ASSUME NEW r, NEW l, NEW e, Sound(r, l, e), NEW q \in CallType,
         q.kind = r.kind, q.asked = r.asked, q.objects = r.objects, q.next = r.next, q.now = r.now,
         q.taken = r.taken, q.queue = r.queue, q.generator = r.generator, q.error = r.error,
         q.out = r.out
  PROVE  Sound(q, l, e)
<1>1. Begins(q, l, e)
  BY DEF Sound, Begins
<1>2. Matches(q, l, e)
  BY DEF Sound, Matches, Dated
<1>3. ClientBroke(r, l) <=> ClientBroke(q, l)
  BY DEF ClientBroke, Refused, Backwards
<1>4. PushOrderOf(q, e) = PushOrderOf(r, e)
  BY DEF PushOrderOf
<1>5. InOrder(q, l, e)
  BY <1>3, <1>4 DEF Sound, InOrder
<1> QED BY <1>1, <1>2, <1>5 DEF Sound

\* The client leaves, the sources are closed, the call returns.
LEMMA Leaves ==
  ASSUME NEW r, NEW l, NEW e, Sound(r, l, e)
  PROVE  /\ \A how \in {"closed", "gone"} : Sound([r EXCEPT !.client = how], l, e)
         /\ Sound([r EXCEPT !.closed = TRUE], l, e)
         /\ \A code \in Results : Sound([r EXCEPT !.result = code], l, e)
<1>1. ASSUME NEW how \in {"closed", "gone"} PROVE Sound([r EXCEPT !.client = how], l, e)
  <2> DEFINE q == [r EXCEPT !.client = how]
  <2>1. /\ q \in CallType
        /\ q.kind = r.kind /\ q.asked = r.asked /\ q.objects = r.objects /\ q.next = r.next
        /\ q.now = r.now /\ q.taken = r.taken /\ q.queue = r.queue
        /\ q.generator = r.generator /\ q.error = r.error /\ q.out = r.out
    BY DEF Sound, CallType
  <2> HIDE DEF q
  <2>2. Sound(q, l, e)
    BY <2>1, OtherFields
  <2> QED BY <2>2 DEF q
<1>2. Sound([r EXCEPT !.closed = TRUE], l, e)
  <2> DEFINE q == [r EXCEPT !.closed = TRUE]
  <2>1. /\ q \in CallType
        /\ q.kind = r.kind /\ q.asked = r.asked /\ q.objects = r.objects /\ q.next = r.next
        /\ q.now = r.now /\ q.taken = r.taken /\ q.queue = r.queue
        /\ q.generator = r.generator /\ q.error = r.error /\ q.out = r.out
    BY DEF Sound, CallType
  <2> HIDE DEF q
  <2>2. Sound(q, l, e)
    BY <2>1, OtherFields
  <2> QED BY <2>2 DEF q
<1>3. ASSUME NEW code \in Results PROVE Sound([r EXCEPT !.result = code], l, e)
  <2> DEFINE q == [r EXCEPT !.result = code]
  <2>1. /\ q \in CallType
        /\ q.kind = r.kind /\ q.asked = r.asked /\ q.objects = r.objects /\ q.next = r.next
        /\ q.now = r.now /\ q.taken = r.taken /\ q.queue = r.queue
        /\ q.generator = r.generator /\ q.error = r.error /\ q.out = r.out
    BY DEF Sound, CallType
  <2> HIDE DEF q
  <2>2. Sound(q, l, e)
    BY <2>1, OtherFields
  <2> QED BY <2>2 DEF q
<1> QED BY <1>1, <1>2, <1>3


\* The next request is read into a new object.
LEMMA Renews ==
  ASSUME NEW r, NEW e, Sound(r, "renew", e)
  PROVE  Sound([r EXCEPT !.objects = Append(@, 0)], "read", e)
<1> DEFINE q == [r EXCEPT !.objects = Append(@, 0)]
           k == Len(r.objects)
<1>1. r.objects \in Seq(Nat) /\ r.taken \in Seq(Takens) /\ Append(r.objects, 0) \in Seq(Nat)
  BY DEF Sound, CallType
<1>2. /\ q \in CallType
      /\ q.kind = r.kind /\ q.asked = r.asked /\ q.objects = Append(r.objects, 0)
      /\ q.now = r.now /\ q.taken = r.taken /\ q.queue = r.queue
      /\ q.generator = r.generator /\ q.error = r.error /\ q.out = r.out
  BY <1>1 DEF Sound, CallType
<1> HIDE DEF q
<1>3. /\ k \in Nat /\ Len(q.objects) = k + 1 /\ q.objects # <<>>
      /\ \A i \in DOMAIN r.objects : i \in DOMAIN q.objects /\ i # k + 1 /\ q.objects[i] = r.objects[i]
  <2>1. k \in Nat /\ DOMAIN r.objects = 1..k
    BY <1>1
  <2>2. Len(q.objects) = k + 1 /\ DOMAIN q.objects = 1..(k + 1)
    BY <1>1, <1>2
  <2>3. \A i \in 1..k : q.objects[i] = r.objects[i]
    BY <1>1, <1>2
  <2>4. q.objects # <<>>
    BY <1>1, <1>2, <2>2
  <2> QED BY <2>1, <2>2, <2>3, <2>4
<1> HIDE DEF k
<1>4. Begins(q, "read", e)
  BY <1>2, <1>3 DEF Sound, Begins, Started, Running, Waiting
<1>5. Matches(q, "read", e)
  BY <1>2, <1>3 DEF Sound, Matches, Dated
<1>6. ClientBroke(r, "renew") => ClientBroke(q, "read")
  BY <1>2 DEF ClientBroke, Refused, Backwards
<1>7. InOrder(q, "read", e)
  BY <1>2, <1>6 DEF Sound, InOrder
<1> QED BY <1>2, <1>4, <1>5, <1>7 DEF Sound, q

\* A request is read.
LEMMA AsksNext ==
  ASSUME NEW r, NEW l \in {"start", "read"}, NEW e, Sound(r, l, e), NEW a \in RequestType,
         NEW k \in {"stamp", "push", "checkError", "done"},
         r.kind = "unary" => k \in {"push", "done"},
         k = "push" => l = "start"
  PROVE  Sound(Asked(r, a), k, e)
<1> DEFINE q == Asked(r, a)
           new == [ts |-> r.now, pushed |-> {}, ok |-> FALSE]
           n == Len(r.taken)
<1>1. /\ r.objects \in Seq(Nat) /\ r.objects # <<>> /\ r.taken \in Seq(Takens)
      /\ r.asked \in Seq(RequestType) /\ Len(r.asked) = n /\ n \in Nat
      /\ new \in Takens /\ r.now \in Int
  BY DEF Sound, CallType, Begins, Takens
<1>2. /\ q.kind = r.kind /\ q.asked = Append(r.asked, a) /\ q.now = r.now /\ q.next = 0
      /\ q.objects = [r.objects EXCEPT ![Len(r.objects)] = Len(r.asked) + 1]
      /\ q.taken = Append(r.taken, new) /\ q.queue = r.queue
      /\ q.generator = r.generator /\ q.error = r.error /\ q.out = r.out
  BY DEF Sound, CallType, Asked
<1>3. q.objects \in Seq(Nat) /\ q.taken \in Seq(Takens) /\ q.asked \in Seq(RequestType)
  BY <1>1, <1>2
<1>4. q \in CallType
  BY <1>1, <1>2, <1>3 DEF Sound, CallType, Asked
<1>5. /\ Len(q.asked) = n + 1 /\ Len(q.taken) = n + 1 /\ q.taken[n + 1] = new
      /\ \A m \in DOMAIN r.taken : /\ m \in DOMAIN q.taken /\ q.taken[m] = r.taken[m]
                                   /\ q.asked[m] = r.asked[m] /\ m \in 1..n
      /\ DOMAIN q.taken = 1..(n + 1) /\ DOMAIN r.taken = 1..n
  BY <1>1, <1>2
<1>6. /\ Len(q.objects) = Len(r.objects) /\ q.objects # <<>> /\ DOMAIN q.objects = DOMAIN r.objects
      /\ q.objects[Len(q.objects)] = n + 1
      /\ \A i \in DOMAIN r.objects : i # Len(r.objects) => q.objects[i] = r.objects[i]
  BY <1>1, <1>2
<1> HIDE DEF q, n
<1>7. Begins(q, k, e)
  <2>1. q.asked # <<>> /\ Made(e)
    BY <1>1, <1>5 DEF Sound, Begins, Started, Running
  <2> QED BY <1>1, <1>2, <1>5, <1>6, <2>1 DEF Sound, Begins, Started, Running, Waiting
<1>8. \A m : Dated(r, l, m) => Dated(q, k, m) /\ q.taken[m] = r.taken[m]
  BY <1>1, <1>5 DEF Dated
<1>9. \A p \in r.queue : p.object # Len(r.objects)
  BY DEF Sound, Matches, Begins
<1>10. Matches(q, k, e)
  <2>1. \A p \in q.queue : /\ p.object \in DOMAIN q.objects
                           /\ Dated(q, k, q.objects[p.object])
                           /\ q.taken[q.objects[p.object]].ts = p.ts
    <3> SUFFICES ASSUME NEW p \in r.queue
                 PROVE  /\ p.object \in DOMAIN q.objects
                        /\ Dated(q, k, q.objects[p.object])
                        /\ q.taken[q.objects[p.object]].ts = p.ts
      BY <1>2
    <3>1. /\ p.object \in DOMAIN r.objects
          /\ Dated(r, l, r.objects[p.object])
          /\ r.taken[r.objects[p.object]].ts = p.ts
      BY DEF Sound, Matches
    <3>2. q.objects[p.object] = r.objects[p.object]
      BY <1>6, <1>9, <3>1
    <3> QED BY <1>6, <1>8, <3>1, <3>2
  <2>2. q.generator.loop => Generates(e) /\ \A m \in q.generator.from :
                           Dated(q, k, m) /\ q.taken[m].ts < q.generator.ts
    BY <1>2, <1>8 DEF Sound, Matches
  <2>3. \A i \in DOMAIN q.out : \A m \in q.out[i].from :
       /\ Dated(q, k, m)
       /\ q.taken[m].ts = q.out[i].ts \/ (Generates(e) /\ q.taken[m].ts < q.out[i].ts)
    <3> SUFFICES ASSUME NEW i \in DOMAIN r.out, NEW m \in r.out[i].from
                 PROVE  /\ Dated(q, k, m)
                        /\ \/ q.taken[m].ts = r.out[i].ts
                           \/ Generates(e) /\ q.taken[m].ts < r.out[i].ts
      BY <1>2
    <3>1. /\ Dated(r, l, m)
          /\ r.taken[m].ts = r.out[i].ts \/ (Generates(e) /\ r.taken[m].ts < r.out[i].ts)
      BY DEF Sound, Matches
    <3> QED BY <1>8, <3>1
  <2>4. q.taken[Len(q.taken)].ts = q.now
    BY <1>2, <1>5
  <2> QED BY <1>5, <1>6, <2>1, <2>2, <2>3, <2>4 DEF Matches
<1>11. ClientBroke(r, l) => ClientBroke(q, k)
  <2>1. ASSUME NEW m \in DOMAIN r.taken, Backwards(r, m) PROVE Backwards(q, m)
    <3>1. n \in Nat /\ m \in 1..n
      BY <1>1, <1>5
    <3>2. \A j \in 1..(m - 1) : j \in 1..n
      BY <3>1
    <3>3. q.asked[m] = r.asked[m] /\ \A j \in 1..(m - 1) : q.taken[j] = r.taken[j]
      BY <1>5, <3>2
    <3> QED BY <2>1, <3>3 DEF Backwards
  <2>2. ASSUME NEW m \in DOMAIN r.taken, Refused(r, l, m) PROVE Refused(q, k, m)
    BY <1>1, <1>5, <2>2 DEF Refused
  <2> QED BY <1>5, <2>1, <2>2 DEF ClientBroke
<1>12. InOrder(q, k, e)
  <2>1. \A m \in DOMAIN q.taken : q.taken[m].pushed # {} => m \in DOMAIN r.taken
    BY <1>1, <1>5
  <2>2. \/ ClientBroke(q, k)
        \/ \A m \in DOMAIN q.taken : q.taken[m].pushed # {} => q.taken[m].ts < q.now
    <3>1. l = "start" => DOMAIN r.taken = {}
      BY <1>1, <1>5 DEF Sound, Begins
    <3>2. l = "read" => r.kind # "unary"
      BY DEF Sound, Begins
    <3> QED BY <1>2, <1>5, <1>11, <2>1, <3>1, <3>2 DEF Sound, InOrder
  <2>3. \A m \in DOMAIN q.taken : q.taken[m].pushed # {} => q.taken[m].ts \in 0..LastTimestamp
    BY <1>5, <2>1 DEF Sound, InOrder
  <2>4. k = "push" => q.now \in 0..LastTimestamp
    BY <1>2, ExecutorAssumption DEF Sound, Begins
  <2>5. ~q.taken[Len(q.taken)].ok /\ q.taken[Len(q.taken)].pushed = {}
    BY <1>5
  <2>6. q.error = "order" => ClientBroke(q, k)
    BY <1>2, <1>11 DEF Sound, InOrder
  <2> QED BY <2>2, <2>3, <2>4, <2>5, <2>6 DEF InOrder
<1> QED BY <1>4, <1>7, <1>10, <1>12 DEF Sound, q

\* A graph gets an error that is not about the order of the packets.
LEMMA Fails ==
  ASSUME NEW r, NEW l, NEW e, Sound(r, l, e), r.asked # <<>>, NEW x \in Errors \ {"order"}
  PROVE  Sound(Fail(r, x), l, e)
<1> DEFINE q == Fail(r, x)
<1>1. /\ q \in CallType
      /\ q.kind = r.kind /\ q.asked = r.asked /\ q.objects = r.objects /\ q.next = r.next
      /\ q.now = r.now /\ q.taken = r.taken /\ q.queue = r.queue
      /\ q.generator = r.generator /\ q.out = r.out
      /\ q.error = "order" => r.error = "order"
  BY DEF Sound, CallType, Fail
<1> HIDE DEF q
<1>2. Begins(q, l, e)
  BY <1>1 DEF Sound, Begins
<1>3. Matches(q, l, e)
  BY <1>1 DEF Sound, Matches, Dated
<1>4. ClientBroke(r, l) <=> ClientBroke(q, l)
  BY <1>1 DEF ClientBroke, Refused, Backwards
<1>5. PushOrderOf(q, e) = PushOrderOf(r, e)
  BY <1>1 DEF PushOrderOf
<1>6. InOrder(q, l, e)
  BY <1>1, <1>4, <1>5 DEF Sound, InOrder
<1> QED BY <1>1, <1>2, <1>3, <1>6 DEF Sound, q


\* An element of a sequence is replaced.
LEMMA ReplaceAt ==
  ASSUME NEW S, NEW s \in Seq(S), NEW i \in 1..Len(s), NEW x \in S, NEW t, t = [s EXCEPT ![i] = x]
  PROVE  /\ t \in Seq(S) /\ Len(t) = Len(s) /\ DOMAIN t = 1..Len(s) /\ t[i] = x
         /\ \A j \in 1..Len(s) : j # i => t[j] = s[j]
OBVIOUS

\* The request gets its timestamp, and is refused if that is out of range.
LEMMA Stamps ==
  ASSUME NEW r, NEW e, Sound(r, "stamp", e), NEW ts \in Int,
         ts = IF r.asked[Len(r.asked)].stamp = "manual" THEN r.asked[Len(r.asked)].at ELSE r.now,
         NEW k \in {"push", "renew", "checkError"},
         k = "push" <=> ts \in 0..LastTimestamp
  PROVE  Sound(Stamped(r, ts), k, e)
<1> DEFINE q == Stamped(r, ts)
           n == Len(r.taken)
<1>1. /\ r.taken \in Seq(Takens) /\ r.asked \in Seq(RequestType) /\ r.now \in Int
      /\ n \in Nat \ {0} /\ Len(r.asked) = n /\ DOMAIN r.taken = 1..n
      /\ r.kind # "unary" /\ ~r.taken[n].ok /\ r.taken[n].pushed = {} /\ r.taken[n] \in Takens
  BY DEF Sound, CallType, Begins, InOrder
<1>2. /\ q.kind = r.kind /\ q.asked = r.asked /\ q.now = ts /\ q.objects = r.objects
      /\ q.taken = [r.taken EXCEPT ![n] = [r.taken[n] EXCEPT !.ts = ts]] /\ q.queue = r.queue
      /\ q.generator = r.generator /\ q.error = r.error /\ q.out = r.out
  BY DEF Sound, CallType, Stamped
<1>3. [r.taken[n] EXCEPT !.ts = ts] \in Takens
  BY <1>1 DEF Takens
<1>4. /\ q.taken \in Seq(Takens) /\ DOMAIN q.taken = 1..n /\ Len(q.taken) = n
      /\ \A m \in 1..n : m # n => q.taken[m] = r.taken[m]
      /\ q.taken[n] = [r.taken[n] EXCEPT !.ts = ts]
  <2> DEFINE x == [r.taken[n] EXCEPT !.ts = ts]
             s == r.taken
             t == q.taken
  <2>1. n \in 1..Len(s) /\ x \in Takens /\ s \in Seq(Takens) /\ t = [s EXCEPT ![n] = x] /\ Len(s) = n
    BY <1>1, <1>2, <1>3
  <2> HIDE DEF n, x, s, t, q
  <2>2. /\ t \in Seq(Takens) /\ Len(t) = Len(s) /\ DOMAIN t = 1..Len(s) /\ t[n] = x
        /\ \A j \in 1..Len(s) : j # n => t[j] = s[j]
    BY <2>1, ReplaceAt
  <2> QED BY <2>1, <2>2 DEF x, s, t
<1>5. q.taken[n].ts = ts /\ q.taken[n].pushed = {} /\ ~q.taken[n].ok
  BY <1>1, <1>4 DEF Takens
<1>6. q \in CallType
  BY <1>2, <1>4 DEF Sound, CallType, Stamped
<1> HIDE DEF q, n
<1>7. Begins(q, k, e)
  BY <1>1, <1>2, <1>4 DEF Sound, Begins, Started, Running, Waiting
<1>8. \A m : Dated(r, "stamp", m) => Dated(q, k, m) /\ q.taken[m] = r.taken[m]
  BY <1>1, <1>4 DEF Dated, n
<1>9. Matches(q, k, e)
  <2>1. ASSUME NEW p \in q.queue
        PROVE  /\ p.object \in DOMAIN q.objects /\ Dated(q, k, q.objects[p.object])
               /\ q.taken[q.objects[p.object]].ts = p.ts
    <3>1. /\ p.object \in DOMAIN r.objects /\ Dated(r, "stamp", r.objects[p.object])
          /\ r.taken[r.objects[p.object]].ts = p.ts
      BY <1>2 DEF Sound, Matches
    <3> QED BY <1>2, <1>8, <3>1
  <2>2. q.generator.loop => Generates(e) /\ \A m \in q.generator.from :
                           Dated(q, k, m) /\ q.taken[m].ts < q.generator.ts
    BY <1>2, <1>8 DEF Sound, Matches
  <2>3. ASSUME NEW i \in DOMAIN q.out, NEW m \in q.out[i].from
        PROVE  /\ Dated(q, k, m)
               /\ q.taken[m].ts = q.out[i].ts \/ (Generates(e) /\ q.taken[m].ts < q.out[i].ts)
    <3>1. /\ Dated(r, "stamp", m)
          /\ r.taken[m].ts = r.out[i].ts \/ (Generates(e) /\ r.taken[m].ts < r.out[i].ts)
      BY <1>2, <2>3 DEF Sound, Matches
    <3> QED BY <1>2, <1>8, <3>1
  <2>4. q.objects[Len(q.objects)] = Len(q.taken)
    BY <1>2, <1>4 DEF Sound, Matches, n
  <2>5. q.taken[Len(q.taken)].ts = q.now
    BY <1>2, <1>4, <1>5
  <2> QED BY <2>1, <2>2, <2>3, <2>4, <2>5 DEF Matches
<1>10. ClientBroke(r, "stamp") => ClientBroke(q, k)
  <2>1. ASSUME NEW m \in 1..n, Backwards(r, m) PROVE Backwards(q, m)
    <3>1. \A j \in 1..(m - 1) : j \in 1..n /\ j # n
      BY <1>1
    <3> QED BY <1>2, <1>4, <2>1, <3>1 DEF Backwards
  <2>2. ASSUME NEW m \in 1..n, Refused(r, "stamp", m) PROVE Refused(q, k, m)
    BY <1>1, <1>2, <1>4, <2>2 DEF Refused, n
  <2> QED BY <1>1, <1>2, <1>4, <2>1, <2>2 DEF ClientBroke
<1>11. \/ ClientBroke(q, k)
       \/ \A m \in 1..n : q.taken[m].pushed # {} => q.taken[m].ts < q.now
  <2>1. CASE r.asked[n].stamp = "manual"
    <3>1. CASE \E m \in 1..(n - 1) : r.taken[m].ts >= ts
      <4>1. Backwards(q, n)
        <5>1. \A m \in 1..(n - 1) : m \in 1..n /\ m # n
          BY <1>1
        <5>2. q.asked[n].stamp = "manual" /\ q.asked[n].at = ts
          BY <1>1, <1>2, <2>1
        <5> QED BY <1>4, <3>1, <5>1, <5>2 DEF Backwards
      <4> QED BY <1>1, <1>4, <4>1 DEF ClientBroke
    <3>2. CASE \A m \in 1..(n - 1) : ~(r.taken[m].ts >= ts)
      <4>1. ASSUME NEW m \in 1..n, q.taken[m].pushed # {} PROVE q.taken[m].ts < ts
        <5>1. m # n /\ m \in 1..(n - 1)
          BY <1>1, <1>5, <4>1
        <5>2. r.taken[m] \in Takens
          BY <1>1
        <5>3. r.taken[m].ts \in Int
          BY <5>2 DEF Takens
        <5> QED BY <1>4, <3>2, <5>1, <5>3
      <4> QED BY <1>2, <4>1
    <3> QED BY <3>1, <3>2
  <2>2. CASE r.asked[n].stamp # "manual"
    <3>1. ts = r.now
      BY <1>1, <2>2
    <3>2. \/ ClientBroke(r, "stamp")
          \/ \A m \in 1..n : r.taken[m].pushed # {} => r.taken[m].ts < r.now
      BY <1>1 DEF Sound, InOrder
    <3> QED BY <1>2, <1>4, <1>5, <1>10, <3>1, <3>2
  <2> QED BY <2>1, <2>2
<1>12. \A m \in 1..n : q.taken[m].pushed # {} => q.taken[m].ts \in 0..LastTimestamp
  BY <1>1, <1>4, <1>5 DEF Sound, InOrder
<1>13. InOrder(q, k, e)
  <2>1. q.error = "order" => ClientBroke(q, k)
    BY <1>2, <1>10 DEF Sound, InOrder
  <2>2. k = "push" => q.now \in 0..LastTimestamp
    BY <1>2
  <2> QED BY <1>4, <1>5, <1>11, <1>12, <2>1, <2>2 DEF InOrder
<1> QED BY <1>6, <1>7, <1>9, <1>13 DEF Sound, q

\* All inputs of a request are in the graph.
LEMMA Accepts ==
  ASSUME NEW r, NEW e, Sound(r, "push", e), NEW k \in {"renew", "checkError", "idle"},
         NEW now \in Int, now = IF r.kind = "unary" THEN r.now ELSE r.now + 1,
         r.kind = "unary" <=> k = "idle"
  PROVE  Sound([Accepted(r) EXCEPT !.now = now], k, e)
<1> DEFINE q == [Accepted(r) EXCEPT !.now = now]
           n == Len(r.taken)
<1>1. /\ r.taken \in Seq(Takens) /\ r.asked \in Seq(RequestType) /\ r.now \in Int
      /\ n \in Nat \ {0} /\ Len(r.asked) = n /\ DOMAIN r.taken = 1..n
      /\ r.taken[n].ts = r.now /\ r.taken[n] \in Takens
  BY DEF Sound, CallType, Begins, Matches
<1>2. /\ q.kind = r.kind /\ q.asked = r.asked /\ q.now = now /\ q.objects = r.objects
      /\ q.taken = [r.taken EXCEPT ![n] = [r.taken[n] EXCEPT !.ok = TRUE]] /\ q.queue = r.queue
      /\ q.generator = r.generator /\ q.error = r.error /\ q.out = r.out
  BY DEF Sound, CallType, Accepted
<1>3. [r.taken[n] EXCEPT !.ok = TRUE] \in Takens
  BY <1>1 DEF Takens
<1>4. /\ q.taken \in Seq(Takens) /\ DOMAIN q.taken = 1..n /\ Len(q.taken) = n
      /\ \A m \in 1..n : m # n => q.taken[m] = r.taken[m]
      /\ q.taken[n] = [r.taken[n] EXCEPT !.ok = TRUE]
  <2> DEFINE x == [r.taken[n] EXCEPT !.ok = TRUE]
             s == r.taken
             t == q.taken
  <2>1. n \in 1..Len(s) /\ x \in Takens /\ s \in Seq(Takens) /\ t = [s EXCEPT ![n] = x] /\ Len(s) = n
    BY <1>1, <1>2, <1>3
  <2> HIDE DEF n, x, s, t, q
  <2>2. /\ t \in Seq(Takens) /\ Len(t) = Len(s) /\ DOMAIN t = 1..Len(s) /\ t[n] = x
        /\ \A j \in 1..Len(s) : j # n => t[j] = s[j]
    BY <2>1, ReplaceAt
  <2> QED BY <2>1, <2>2 DEF x, s, t
<1>5. \A m \in 1..n : q.taken[m].ts = r.taken[m].ts /\ q.taken[m].pushed = r.taken[m].pushed
  BY <1>1, <1>4 DEF Takens
<1>6. q \in CallType
  BY <1>2, <1>4 DEF Sound, CallType, Accepted
<1> HIDE DEF q, n
<1>7. Begins(q, k, e)
  BY <1>1, <1>2, <1>4 DEF Sound, Begins, Started, Running, Waiting
<1>8. \A m : Dated(r, "push", m) => Dated(q, k, m) /\ q.taken[m].ts = r.taken[m].ts
  BY <1>1, <1>4, <1>5 DEF Dated, n
<1>9. Matches(q, k, e)
  <2>1. ASSUME NEW p \in q.queue
        PROVE  /\ p.object \in DOMAIN q.objects /\ Dated(q, k, q.objects[p.object])
               /\ q.taken[q.objects[p.object]].ts = p.ts
    <3>1. /\ p.object \in DOMAIN r.objects /\ Dated(r, "push", r.objects[p.object])
          /\ r.taken[r.objects[p.object]].ts = p.ts
      BY <1>2 DEF Sound, Matches
    <3> QED BY <1>2, <1>8, <3>1
  <2>2. q.generator.loop => Generates(e) /\ \A m \in q.generator.from :
                           Dated(q, k, m) /\ q.taken[m].ts < q.generator.ts
    BY <1>2, <1>8 DEF Sound, Matches
  <2>3. ASSUME NEW i \in DOMAIN q.out, NEW m \in q.out[i].from
        PROVE  /\ Dated(q, k, m)
               /\ q.taken[m].ts = q.out[i].ts \/ (Generates(e) /\ q.taken[m].ts < q.out[i].ts)
    <3>1. /\ Dated(r, "push", m)
          /\ r.taken[m].ts = r.out[i].ts \/ (Generates(e) /\ r.taken[m].ts < r.out[i].ts)
      BY <1>2, <2>3 DEF Sound, Matches
    <3> QED BY <1>2, <1>8, <3>1
  <2> QED BY <2>1, <2>2, <2>3 DEF Matches
<1>10. ClientBroke(r, "push") => ClientBroke(q, k)
  <2>1. ASSUME NEW m \in 1..n, Backwards(r, m) PROVE Backwards(q, m)
    <3>1. \A j \in 1..(m - 1) : j \in 1..n
      BY <1>1
    <3> QED BY <1>2, <1>5, <2>1, <3>1 DEF Backwards
  <2>2. ASSUME NEW m \in 1..n, Refused(r, "push", m) PROVE Refused(q, k, m)
    BY <1>1, <1>2, <1>4, <2>2 DEF Refused, n
  <2> QED BY <1>1, <1>2, <1>4, <2>1, <2>2 DEF ClientBroke
<1>11. \/ ClientBroke(q, k)
       \/ \A m \in 1..n : q.taken[m].pushed # {} =>
            q.taken[m].ts < q.now \/ (m = n /\ q.kind = "unary")
  <2>1. \/ ClientBroke(r, "push")
        \/ \A m \in 1..n : r.taken[m].pushed # {} => r.taken[m].ts < r.now \/ m = n
    BY <1>1 DEF Sound, InOrder, n
  <2>2. \A m \in 1..n : r.taken[m].ts \in Int
    <3>1. \A m \in 1..n : r.taken[m] \in Takens
      BY <1>1
    <3> QED BY <3>1 DEF Takens
  <2> QED BY <1>1, <1>2, <1>5, <1>10, <2>1, <2>2
<1>12. \A m \in 1..n : q.taken[m].pushed # {} => q.taken[m].ts \in 0..LastTimestamp
  BY <1>1, <1>5 DEF Sound, InOrder
<1>13. InOrder(q, k, e)
  <2>1. q.error = "order" => ClientBroke(q, k)
    BY <1>2, <1>10 DEF Sound, InOrder
  <2> QED BY <1>4, <1>11, <1>12, <2>1 DEF InOrder
<1> QED BY <1>6, <1>7, <1>9, <1>13 DEF Sound, q


\* A packet that is too old for its stream follows one with such a timestamp.
LEMMA TooOld ==
  ASSUME NEW r, NEW e, Sound(r, "push", e), NEW name, r.now < Bound(r, name)
  PROVE  \E m \in DOMAIN r.taken : name \in r.taken[m].pushed /\ r.taken[m].ts >= r.now
<1> DEFINE M == {m \in DOMAIN r.taken : name \in r.taken[m].pushed}
           S == {t.ts : t \in {r.taken[n] : n \in M}}
<1>1. r.now \in Nat
  BY ExecutorAssumption DEF Sound, InOrder
<1>2. \A m \in M : r.taken[m].ts \in 0..LastTimestamp
  BY DEF Sound, InOrder
<1>3. S \in SUBSET (0..LastTimestamp)
  BY <1>2
<1>4. CASE S = {}
  <2>1. Bound(r, name) = 0
    BY <1>4 DEF Bound
  <2> QED BY <1>1, <2>1
<1>5. CASE S # {}
  <2>1. \E t \in S : \A u \in S : u <= t
    BY <1>3, <1>5, GreatestTimestamp
  <2> DEFINE top == CHOOSE t \in S : \A u \in S : u <= t
  <2>2. Bound(r, name) = 1 + top
    BY <1>5 DEF Bound
  <2>3. top \in S
    BY <2>1
  <2> HIDE DEF top
  <2>4. PICK m \in M : r.taken[m].ts = top
    BY <2>3
  <2>5. top \in Nat
    BY <1>3, <2>3, ExecutorAssumption
  <2>6. top >= r.now
    BY <1>1, <2>2, <2>5
  <2> QED BY <2>4, <2>6
<1> QED BY <1>4, <1>5

\* When that packet is of the same request, the request names an input twice: a
\* graph that was validated does not.
LEMMA NamedTwice ==
  ASSUME NEW r, NEW e, Sound(r, "push", e), r.next + 1 \in DOMAIN PushOrderOf(r, e),
         NEW i \in 1..r.next, PushOrderOf(r, e)[i] = PushOrderOf(r, e)[r.next + 1]
  PROVE  Repeated(r.asked[Len(r.asked)].inputs)
<1>1. r.next \in Nat /\ i \in Nat /\ i # r.next + 1
  BY DEF Sound, CallType
<1>2. Made(e)
  BY DEF Sound, Begins, Started, Running
<1>3. CASE r.kind = "stream"
  <2> DEFINE s == r.asked[Len(r.asked)].inputs
  <2>1. r.asked \in Seq(RequestType) /\ r.asked # <<>>
    BY DEF Sound, CallType, Begins
  <2>2. r.asked[Len(r.asked)] \in RequestType
    BY <2>1
  <2>3. s \in Seq([name : STRING, tensor : Tensors])
    BY <2>2 DEF RequestType
  <2>4. PushOrderOf(r, e) = [j \in DOMAIN s |-> s[j].name]
    BY <1>3 DEF PushOrderOf
  <2> HIDE DEF s
  <2>5. r.next + 1 \in DOMAIN s /\ i \in DOMAIN s
    BY <1>1, <2>3, <2>4
  <2>6. Repeated(s)
    BY <1>1, <2>4, <2>5 DEF Repeated
  <2> QED BY <2>6 DEF s
<1>4. CASE r.kind # "stream"
  <2> DEFINE s == Graph[e.streams].inputs
  <2>1. s \in Seq([tag : STRING, name : STRING])
    BY <1>2, GraphAssumption DEF Made
  <2>2. PushOrderOf(r, e) = [j \in DOMAIN s |-> s[j].name]
    BY <1>4 DEF PushOrderOf
  <2>3. ~Repeated(s)
    BY <1>2 DEF Made, ValidGraph, StreamNamesStatus
  <2> HIDE DEF s
  <2>4. r.next + 1 \in DOMAIN s /\ i \in DOMAIN s
    BY <1>1, <2>1, <2>2
  <2>5. Repeated(s)
    BY <1>1, <2>2, <2>4 DEF Repeated
  <2> QED BY <2>3, <2>5
<1> QED BY <1>3, <1>4

\* An input is pushed into the graph.
LEMMA Pushes ==
  ASSUME NEW r, NEW e, Sound(r, "push", e), r.next + 1 \in DOMAIN PushOrderOf(r, e),
         NEW name \in STRING, name = PushOrderOf(r, e)[r.next + 1]
  PROVE  Sound(AddPacket(r, name), "push", e)
<1> DEFINE q == AddPacket(r, name)
           n == Len(r.taken)
           new == [input |-> name, ts |-> r.now, object |-> Len(r.objects)]
           x == [r.taken[n] EXCEPT !.pushed = r.taken[n].pushed \cup {name}]
           b == IF r.now < Bound(r, name) THEN Fail(r, "order")
                ELSE [r EXCEPT !.queue = r.queue \cup {new}]
<1>1. /\ r.taken \in Seq(Takens) /\ r.asked \in Seq(RequestType) /\ r.now \in Int /\ r.next \in Nat
      /\ n \in Nat \ {0} /\ Len(r.asked) = n /\ DOMAIN r.taken = 1..n
      /\ r.objects \in Seq(Nat) /\ r.objects # <<>>
  BY DEF Sound, CallType, Begins
<1>2. /\ r.taken[n].ts = r.now /\ r.taken[n] \in Takens /\ ~r.taken[n].ok
      /\ r.objects[Len(r.objects)] = n /\ r.now \in 0..LastTimestamp
  BY <1>1 DEF Sound, Matches, InOrder
<1>3. Len(r.objects) \in DOMAIN r.objects /\ new \in Packets
  BY <1>1 DEF Packets
<1>4. /\ b \in CallType
      /\ b.kind = r.kind /\ b.asked = r.asked /\ b.now = r.now /\ b.objects = r.objects
      /\ b.taken = r.taken /\ b.next = r.next
      /\ b.generator = r.generator /\ b.out = r.out
      /\ b.queue = r.queue \/ b.queue = r.queue \cup {new}
      /\ b.error = "order" => r.error = "order" \/ r.now < Bound(r, name)
  <2>1. CASE r.now < Bound(r, name)
    <3> DEFINE x1 == IF r.error = "none" THEN "order" ELSE r.error
    <3>1. b = [r EXCEPT !.error = x1]
      BY <2>1 DEF Fail
    <3>2. x1 \in Errors
      BY DEF Sound, CallType, Errors
    <3> HIDE DEF x1, b
    <3> QED BY <2>1, <3>1, <3>2 DEF Sound, CallType
  <2>2. CASE ~(r.now < Bound(r, name))
    <3>1. b = [r EXCEPT !.queue = r.queue \cup {new}]
      BY <2>2
    <3> HIDE DEF new, b
    <3> QED BY <1>3, <3>1 DEF Sound, CallType
  <2> QED BY <2>1, <2>2
<1>5. x \in Takens /\ x.ts = r.now /\ ~x.ok /\ x.pushed = r.taken[n].pushed \cup {name}
  BY <1>2 DEF Takens
<1>6. /\ q \in CallType
      /\ q.kind = r.kind /\ q.asked = r.asked /\ q.now = r.now /\ q.objects = r.objects
      /\ q.taken = [r.taken EXCEPT ![n] = x] /\ q.next = r.next + 1
      /\ q.generator = r.generator /\ q.out = r.out
      /\ q.queue = r.queue \/ q.queue = r.queue \cup {new}
      /\ q.error = "order" => r.error = "order" \/ r.now < Bound(r, name)
  <2>1. q = [b EXCEPT !.next = b.next + 1, !.taken[n].pushed = b.taken[n].pushed \cup {name}]
    BY DEF AddPacket
  <2> HIDE DEF q, b, new
  <2>2. q = [b EXCEPT !.next = r.next + 1, !.taken = [r.taken EXCEPT ![n] = x]]
    BY <1>4, <2>1
  <2>3. [r.taken EXCEPT ![n] = x] \in Seq(Takens)
    BY <1>1, <1>5
  <2> DEFINE y == [r.taken EXCEPT ![n] = x]
             z == r.next + 1
  <2>4. y \in Seq(Takens) /\ z \in Nat /\ q = [b EXCEPT !.next = z, !.taken = y]
    BY <1>1, <2>2, <2>3
  <2> HIDE DEF x, n, y, z
  <2>5. /\ q \in CallType
        /\ q.kind = b.kind /\ q.asked = b.asked /\ q.now = b.now /\ q.objects = b.objects
        /\ q.taken = y /\ q.next = z
        /\ q.generator = b.generator /\ q.out = b.out /\ q.queue = b.queue /\ q.error = b.error
    BY <1>4, <2>4 DEF CallType
  <2> QED BY <1>4, <2>5 DEF y, z
<1> HIDE DEF q, x, new, b
<1>7. /\ q.taken \in Seq(Takens) /\ DOMAIN q.taken = 1..n /\ Len(q.taken) = n
      /\ \A m \in 1..n : m # n => q.taken[m] = r.taken[m]
      /\ q.taken[n] = x
  <2>1. n \in 1..Len(r.taken)
    BY <1>1
  <2> QED BY <1>1, <1>6, <1>5, <2>1, ReplaceAt
<1>8. \A m \in 1..n : q.taken[m].ts = r.taken[m].ts
  BY <1>2, <1>5, <1>7
<1> HIDE DEF n
<1>9. Begins(q, "push", e)
  <2>1. Made(e) /\ r.asked # <<>>
    BY DEF Sound, Begins, Started, Running
  <2> QED BY <1>1, <1>6, <1>7, <2>1 DEF Begins, Started, Running, Waiting
<1>10. \A m : Dated(r, "push", m) => Dated(q, "push", m) /\ q.taken[m].ts = r.taken[m].ts
  BY <1>1, <1>7, <1>8 DEF Dated
<1>11. Matches(q, "push", e)
  <2>1. ASSUME NEW p \in q.queue
        PROVE  /\ p.object \in DOMAIN q.objects /\ Dated(q, "push", q.objects[p.object])
               /\ q.taken[q.objects[p.object]].ts = p.ts
    <3>1. CASE p \in r.queue
      <4>1. /\ p.object \in DOMAIN r.objects /\ Dated(r, "push", r.objects[p.object])
            /\ r.taken[r.objects[p.object]].ts = p.ts
        BY <3>1 DEF Sound, Matches
      <4> QED BY <1>6, <1>10, <4>1
    <3>2. CASE p = new
      <4>1. p.object = Len(r.objects) /\ p.ts = r.now
        BY <3>2 DEF new
      <4>2. Dated(q, "push", n)
        BY <1>1, <1>7 DEF Dated
      <4> QED BY <1>2, <1>3, <1>6, <1>5, <1>7, <4>1, <4>2
    <3> QED BY <1>6, <2>1, <3>1, <3>2
  <2>2. q.generator.loop => Generates(e) /\ \A m \in q.generator.from :
                           Dated(q, "push", m) /\ q.taken[m].ts < q.generator.ts
    BY <1>6, <1>10 DEF Sound, Matches
  <2>3. ASSUME NEW i \in DOMAIN q.out, NEW m \in q.out[i].from
        PROVE  /\ Dated(q, "push", m)
               /\ q.taken[m].ts = q.out[i].ts \/ (Generates(e) /\ q.taken[m].ts < q.out[i].ts)
    <3>1. /\ Dated(r, "push", m)
          /\ r.taken[m].ts = r.out[i].ts \/ (Generates(e) /\ r.taken[m].ts < r.out[i].ts)
      BY <1>6, <2>3 DEF Sound, Matches
    <3> QED BY <1>6, <1>10, <3>1
  <2>4. q.objects[Len(q.objects)] = Len(q.taken) /\ q.taken[Len(q.taken)].ts = q.now
    BY <1>2, <1>6, <1>5, <1>7
  <2> QED BY <2>1, <2>2, <2>3, <2>4 DEF Matches
<1>12. ClientBroke(r, "push") => ClientBroke(q, "push")
  <2>1. ASSUME NEW m \in 1..n, Backwards(r, m) PROVE Backwards(q, m)
    <3>1. \A j \in 1..(m - 1) : j \in 1..n
      BY <1>1
    <3> QED BY <1>6, <1>8, <2>1, <3>1 DEF Backwards
  <2>2. ASSUME NEW m \in 1..n, Refused(r, "push", m) PROVE Refused(q, "push", m)
    BY <1>1, <1>6, <1>7, <2>2 DEF Refused, n
  <2> QED BY <1>1, <1>6, <1>7, <2>1, <2>2 DEF ClientBroke
<1>13. \/ ClientBroke(r, "push")
       \/ \A m \in 1..n : r.taken[m].pushed # {} => r.taken[m].ts < r.now \/ m = n
  BY <1>1 DEF Sound, InOrder, n
<1>14. \/ ClientBroke(q, "push")
       \/ \A m \in 1..n : q.taken[m].pushed # {} => q.taken[m].ts < q.now \/ m = n
  BY <1>6, <1>7, <1>12, <1>13
<1>15. ASSUME r.now < Bound(r, name) PROVE ClientBroke(q, "push")
  <2>1. PICK m \in 1..n : name \in r.taken[m].pushed /\ r.taken[m].ts >= r.now
    BY <1>1, <1>15, TooOld
  <2>2. CASE m # n
    <3>1. r.taken[m] \in Takens
      BY <1>1
    <3>2. r.taken[m].ts \in Int
      BY <3>1 DEF Takens
    <3> QED BY <1>1, <1>12, <1>13, <2>1, <2>2, <3>2
  <2>3. CASE m = n
    <3>1. PICK i \in 1..r.next : name = PushOrderOf(r, e)[i]
      BY <2>1, <2>3 DEF Sound, InOrder, n
    <3>2. Repeated(q.asked[n].inputs)
      BY <1>1, <1>6, <3>1, NamedTwice
    <3>3. n \in DOMAIN q.taken
      BY <1>1, <1>7
    <3> QED BY <3>2, <3>3 DEF ClientBroke
  <2> QED BY <2>2, <2>3
<1>16. InOrder(q, "push", e)
  <2>1. q.error = "order" => ClientBroke(q, "push")
    BY <1>6, <1>12, <1>15 DEF Sound, InOrder
  <2>2. \A m \in 1..n : q.taken[m].pushed # {} => q.taken[m].ts \in 0..LastTimestamp
    BY <1>1, <1>2, <1>5, <1>7 DEF Sound, InOrder
  <2>3. PushOrderOf(q, e) = PushOrderOf(r, e)
    BY <1>6 DEF PushOrderOf
  <2>4. \A y \in r.taken[n].pushed : \E i \in 1..r.next : y = PushOrderOf(r, e)[i]
    BY DEF Sound, InOrder, n
  <2>5. \A y \in q.taken[n].pushed : \E i \in 1..q.next : y = PushOrderOf(q, e)[i]
    <3>1. ASSUME NEW y \in r.taken[n].pushed PROVE \E i \in 1..q.next : y = PushOrderOf(q, e)[i]
      <4>1. PICK i \in 1..r.next : y = PushOrderOf(r, e)[i]
        BY <2>4
      <4>2. i \in 1..q.next
        BY <1>1, <1>6
      <4> QED BY <2>3, <4>1, <4>2
    <3>2. q.next \in 1..q.next /\ name = PushOrderOf(q, e)[q.next]
      BY <1>1, <1>6, <2>3
    <3> QED BY <1>5, <1>7, <3>1, <3>2
  <2> QED BY <1>2, <1>6, <1>5, <1>7, <1>14, <2>1, <2>2, <2>5 DEF InOrder
<1> QED BY <1>6, <1>9, <1>11, <1>16 DEF Sound, q


\* A node takes packets.
LEMMA Consumes ==
  ASSUME NEW r, NEW l, NEW e, Sound(r, l, e), NEW P
  PROVE  /\ Sound(Consumed(r, P), l, e)
         /\ Consumed(r, P).asked = r.asked /\ Consumed(r, P).taken = r.taken
         /\ Consumed(r, P).generator = r.generator
<1> DEFINE q == Consumed(r, P)
<1>1. /\ q \in CallType
      /\ q.kind = r.kind /\ q.asked = r.asked /\ q.objects = r.objects /\ q.next = r.next
      /\ q.now = r.now /\ q.taken = r.taken /\ q.queue = r.queue \ P
      /\ q.generator = r.generator /\ q.error = r.error /\ q.out = r.out
  BY DEF Sound, CallType, Consumed
<1> HIDE DEF q
<1>2. Begins(q, l, e)
  BY <1>1 DEF Sound, Begins
<1>3. Matches(q, l, e)
  BY <1>1 DEF Sound, Matches, Dated
<1>4. ClientBroke(r, l) <=> ClientBroke(q, l)
  BY <1>1 DEF ClientBroke, Refused, Backwards
<1>5. PushOrderOf(q, e) = PushOrderOf(r, e)
  BY <1>1 DEF PushOrderOf
<1>6. InOrder(q, l, e)
  BY <1>1, <1>4, <1>5 DEF Sound, InOrder
<1> QED BY <1>1, <1>2, <1>3, <1>6 DEF Sound, q

\* A generator is set up, moves on or ends.
LEMMA SetsGenerator ==
  ASSUME NEW r, NEW l, NEW e, Sound(r, l, e), NEW g \in Generators, g.loop => r.asked # <<>>,
         g.loop => Generates(e) /\ \A n \in g.from : Dated(r, l, n) /\ r.taken[n].ts < g.ts
  PROVE  Sound([r EXCEPT !.generator = g], l, e)
<1> DEFINE q == [r EXCEPT !.generator = g]
<1>1. /\ q \in CallType
      /\ q.kind = r.kind /\ q.asked = r.asked /\ q.objects = r.objects /\ q.next = r.next
      /\ q.now = r.now /\ q.taken = r.taken /\ q.queue = r.queue
      /\ q.generator = g /\ q.error = r.error /\ q.out = r.out
  BY DEF Sound, CallType
<1> HIDE DEF q
<1>2. Begins(q, l, e)
  BY <1>1 DEF Sound, Begins
<1>3. Matches(q, l, e)
  BY <1>1 DEF Sound, Matches, Dated
<1>4. ClientBroke(r, l) <=> ClientBroke(q, l)
  BY <1>1 DEF ClientBroke, Refused, Backwards
<1>5. PushOrderOf(q, e) = PushOrderOf(r, e)
  BY <1>1 DEF PushOrderOf
<1>6. InOrder(q, l, e)
  BY <1>1, <1>4, <1>5 DEF Sound, InOrder
<1> QED BY <1>1, <1>2, <1>3, <1>6 DEF Sound, q

\* The responses are written, in some order.
LEMMA Emits ==
  ASSUME NEW r, NEW l, NEW e, Sound(r, l, e), r.asked # <<>>, NEW c,
         NEW outputs \in SUBSET OutputNames, IsFiniteSet(outputs), NEW ts \in Int,
         NEW from \in SUBSET Nat,
         \A n \in from : /\ Dated(r, l, n)
                         /\ r.taken[n].ts = ts \/ (Generates(e) /\ r.taken[n].ts < ts)
  PROVE  /\ Sound(Emit(c, r, outputs, ts, from), l, e)
         /\ Emit(c, r, outputs, ts, from).asked = r.asked
         /\ Emit(c, r, outputs, ts, from).taken = r.taken
<1>1. ASSUME NEW x \in {"output", "write"}
      PROVE  Sound(Fail(r, x), l, e) /\ Fail(r, x).asked = r.asked /\ Fail(r, x).taken = r.taken
  <2>1. x \in Errors \ {"order"}
    BY DEF Errors
  <2>2. Fail(r, x).asked = r.asked /\ Fail(r, x).taken = r.taken
    BY DEF Sound, CallType, Fail
  <2> QED BY <2>1, <2>2, Fails
<1> DEFINE k == Cardinality(outputs)
           packet(o) == [output |-> o, ts |-> ts, from |-> from]
           order == CHOOSE s \in [1..k -> outputs] : {s[i] : i \in DOMAIN s} = outputs
           add == [i \in DOMAIN order |-> packet(order[i])]
           q == [r EXCEPT !.out = r.out \o add]
<1>2. k \in Nat /\ \E s \in [1..k -> outputs] : {s[i] : i \in DOMAIN s} = outputs
  <2>1. k \in Nat /\ ExistsBijection(1..k, outputs)
    BY FS_CardinalityType
  <2>2. PICK s : s \in Bijection(1..k, outputs)
    BY <2>1 DEF ExistsBijection
  <2>3. s \in [1..k -> outputs] /\ \A o \in outputs : \E i \in 1..k : s[i] = o
    BY <2>2 DEF Bijection, Surjection
  <2> HIDE DEF k
  <2>4. {s[i] : i \in DOMAIN s} = outputs
    BY <2>3
  <2> QED BY <2>1, <2>3, <2>4
<1>3. order \in [1..k -> outputs]
  BY <1>2
<1> HIDE DEF order, k
<1>4. add \in Seq(OutPackets) /\ Len(add) = k /\ \A i \in 1..k : add[i].ts = ts /\ add[i].from = from
  <2>1. add = [i \in 1..k |-> packet(order[i])]
    BY <1>3
  <2>2. \A i \in 1..k : packet(order[i]) \in OutPackets
    BY <1>3 DEF OutPackets
  <2>3. \A i \in 1..k : packet(order[i]).ts = ts /\ packet(order[i]).from = from
    OBVIOUS
  <2> HIDE DEF packet, add
  <2> QED BY <1>2, <2>1, <2>2, <2>3
<1> HIDE DEF add
<1>5. /\ r.out \in Seq(OutPackets) /\ r.out \o add \in Seq(OutPackets)
      /\ \A i \in DOMAIN (r.out \o add) :
           \/ i \in DOMAIN r.out /\ (r.out \o add)[i] = r.out[i]
           \/ (r.out \o add)[i].ts = ts /\ (r.out \o add)[i].from = from
  <2>1. r.out \in Seq(OutPackets)
    BY DEF Sound, CallType
  <2> DEFINE o == r.out
  <2>2. o \in Seq(OutPackets)
    BY <2>1
  <2> HIDE DEF o
  <2>3. o \o add \in Seq(OutPackets) /\ Len(o \o add) = Len(o) + k
    BY <1>2, <1>4, <2>2
  <2>4. ASSUME NEW i \in 1..(Len(o) + k)
        PROVE  \/ i \in DOMAIN o /\ (o \o add)[i] = o[i]
               \/ (o \o add)[i].ts = ts /\ (o \o add)[i].from = from
    <3>1. CASE i <= Len(o)
      BY <1>2, <1>4, <2>2, <3>1
    <3>2. CASE ~(i <= Len(o))
      <4>1. i - Len(o) \in 1..k /\ (o \o add)[i] = add[i - Len(o)]
        BY <1>2, <1>4, <2>2, <3>2
      <4> QED BY <1>4, <4>1
    <3> QED BY <3>1, <3>2
  <2> QED BY <2>2, <2>3, <2>4 DEF o
<1>6. /\ q \in CallType
      /\ q.kind = r.kind /\ q.asked = r.asked /\ q.objects = r.objects /\ q.next = r.next
      /\ q.now = r.now /\ q.taken = r.taken /\ q.queue = r.queue
      /\ q.generator = r.generator /\ q.error = r.error /\ q.out = r.out \o add
  BY <1>5 DEF Sound, CallType
<1>7. Sound(q, l, e)
  <2> HIDE DEF q
  <2>1. Begins(q, l, e)
    BY <1>6 DEF Sound, Begins
  <2>2. \A n : Dated(r, l, n) <=> Dated(q, l, n)
    BY <1>6 DEF Dated
  <2>3. ASSUME NEW i \in DOMAIN q.out, NEW n \in q.out[i].from
        PROVE  /\ Dated(q, l, n)
               /\ q.taken[n].ts = q.out[i].ts \/ (Generates(e) /\ q.taken[n].ts < q.out[i].ts)
    <3>1. CASE i \in DOMAIN r.out /\ q.out[i] = r.out[i]
      BY <1>6, <2>2, <2>3, <3>1 DEF Sound, Matches
    <3>2. CASE q.out[i].ts = ts /\ q.out[i].from = from
      BY <1>6, <2>2, <2>3, <3>2
    <3> QED BY <1>5, <1>6, <3>1, <3>2
  <2>4. Matches(q, l, e)
    BY <1>6, <2>2, <2>3 DEF Sound, Matches
  <2>5. ClientBroke(r, l) <=> ClientBroke(q, l)
    BY <1>6 DEF ClientBroke, Refused, Backwards
  <2>6. PushOrderOf(q, e) = PushOrderOf(r, e)
    BY <1>6 DEF PushOrderOf
  <2>7. InOrder(q, l, e)
    BY <1>6, <2>5, <2>6 DEF Sound, InOrder
  <2> QED BY <1>6, <2>1, <2>4, <2>7 DEF Sound
<1>8. Emit(c, r, outputs, ts, from) \in {Fail(r, "output"), Fail(r, "write"), q}
  BY DEF Emit, add, order, k
<1> HIDE DEF q
<1> QED BY <1>1, <1>6, <1>7, <1>8


\* A call without a request waits for its executor, gives up or gets it.
LEMMA Waits ==
  ASSUME NEW r, NEW l \in {"new"} \cup Waiting, NEW e, Sound(r, l, e),
         NEW k \in Waiting \cup {"start", "done"}, NEW f, k = "start" => Made(f)
  PROVE  Sound(r, k, f)
<1>1. /\ r \in CallType /\ r.asked = <<>> /\ r.objects = <<0>> /\ r.now = 0 /\ r.queue = {}
      /\ r.out = <<>> /\ r.error = "none" /\ ~r.generator.loop /\ Len(r.taken) = Len(r.asked)
  BY DEF Sound, Begins
<1>2. r.taken \in Seq(Takens) /\ Len(r.taken) = 0 /\ DOMAIN r.taken = {}
  BY <1>1 DEF CallType
<1>3. Begins(r, k, f)
  BY <1>1 DEF Begins, Started, Running, Waiting
<1>4. Matches(r, k, f)
  BY <1>1 DEF Matches, Waiting
<1>5. InOrder(r, k, f)
  BY <1>1, <1>2 DEF InOrder, Waiting
<1> QED BY <1>1, <1>3, <1>4, <1>5 DEF Sound

\* One call moves, the others stay where they are.
LEMMA OneMoves ==
  ASSUME DefinitionTypes, CallsSound, NEW c \in Calls, NEW q, NEW l,
         call'[c] = q, pc' = [pc EXCEPT ![c] = l],
         \A d \in Calls \ {c} : call'[d] = call[d] /\ exec'[d] = exec[d],
         Sound(q, l, exec'[c])
  PROVE  CallsSound'
<1>1. \A d \in Calls \ {c} : call'[d] = call[d] /\ pc'[d] = pc[d] /\ exec'[d] = exec[d]
  BY DEF DefinitionTypes
<1>2. call'[c] = q /\ pc'[c] = l
  BY DEF DefinitionTypes
<1> QED BY <1>1, <1>2 DEF CallsSound

\* The steps before a call has its executor.
LEMMA WaitSteps ==
  ASSUME DefinitionInv, CallsSound, NEW c \in Calls, (Arrive(c) /\ UNCHANGED call) \/ WaitStep(c)
  PROVE  CallsSound'
<1> DEFINE r == call[c]
<1>1. pc[c] \in {"new"} \cup Waiting /\ call' = call
  BY DEF Arrive, WaitStep, CallWaits, CheckAvailable, CanEndLoaded, Wake, Timeout, CreateExecutor,
         Waiting
<1>2. Sound(r, pc[c], exec[c])
  BY DEF CallsSound
<1>3. CASE CreateExecutor(c)
  <2>1. /\ pc' = [pc EXCEPT ![c] = "start"] /\ \A d \in Calls \ {c} : exec'[d] = exec[d]
        /\ exec'[c] = [config |-> config, streams |-> streams, nodes |-> nodes]
    BY <1>3 DEF CreateExecutor, Goto, DefinitionInv, DefinitionTypes
  <2>2. Made(exec'[c])
    BY <1>3, <2>1 DEF CreateExecutor, DefinitionInv, ServesComplete, Complete, Made, ValidGraph
  <2>3. Sound(r, "start", exec'[c])
    BY <1>1, <1>2, <2>2, Waits
  <2> QED BY <1>1, <2>1, <2>3, OneMoves DEF DefinitionInv
<1>4. CASE ~CreateExecutor(c)
  <2>1. exec' = exec /\ \E k \in Waiting \cup {"done"} : pc' = [pc EXCEPT ![c] = k]
    BY <1>4 DEF Arrive, WaitStep, CallWaits, CheckAvailable, CanEndLoaded, Wake, Timeout, Goto, Waiting
  <2>2. PICK k \in Waiting \cup {"done"} : pc' = [pc EXCEPT ![c] = k]
    BY <2>1
  <2>3. Sound(r, k, exec'[c])
    BY <1>1, <1>2, Waits DEF Waiting
  <2> QED BY <1>1, <2>1, <2>2, <2>3, OneMoves DEF DefinitionInv
<1> QED BY <1>3, <1>4

\* What Become does to the calls.
LEMMA Becomes ==
  ASSUME DefinitionTypes, CallsSound, NEW c \in Calls, NEW q, NEW l, Become(c, q, l),
         Sound(q, l, exec[c])
  PROVE  CallsSound'
<1>1. call'[c] = q /\ \A d \in Calls \ {c} : call'[d] = call[d]
  BY DEF Become, DefinitionTypes
<1> QED BY <1>1, OneMoves DEF Become, Goto

\* ... and Return.
LEMMA Returns ==
  ASSUME DefinitionTypes, CallsSound, NEW c \in Calls, NEW q, NEW code \in Results,
         Return(c, q, code), Sound(q, "done", exec[c])
  PROVE  CallsSound'
<1>1. Sound([q EXCEPT !.result = code], "done", exec[c])
  BY Leaves
<1> QED BY <1>1, Becomes DEF Return

\* An element of a sequence.
LEMMA ElementOf ==
  ASSUME NEW T, NEW s \in Seq(T), NEW j \in DOMAIN s PROVE s[j] \in T
OBVIOUS

\* The order of the inputs is a sequence of names.
LEMMA PushOrderNames ==
  ASSUME NEW r, NEW e, Sound(r, "push", e)
  PROVE  PushOrderOf(r, e) \in Seq(STRING)
<1>1. CASE r.kind = "stream"
  <2> DEFINE s == r.asked[Len(r.asked)].inputs
  <2>1. r.asked \in Seq(RequestType) /\ r.asked # <<>>
    BY DEF Sound, CallType, Begins
  <2>2. r.asked[Len(r.asked)] \in RequestType
    BY <2>1
  <2>3. s \in Seq([name : STRING, tensor : Tensors])
    BY <2>2 DEF RequestType
  <2>4. PushOrderOf(r, e) = [j \in DOMAIN s |-> s[j].name]
    BY <1>1 DEF PushOrderOf
  <2> HIDE DEF s
  <2>5. ASSUME NEW j \in DOMAIN s PROVE s[j].name \in STRING
    <3>1. s[j] \in [name : STRING, tensor : Tensors]
      BY <2>3, ElementOf
    <3> QED BY <3>1
  <2>6. Len(s) \in Nat /\ DOMAIN s = 1..Len(s)
    BY <2>3
  <2> QED BY <2>4, <2>5, <2>6
<1>2. CASE r.kind # "stream"
  <2> DEFINE s == Graph[e.streams].inputs
  <2>1. Made(e)
    BY DEF Sound, Begins, Started, Running
  <2>2. s \in Seq([tag : STRING, name : STRING])
    BY <2>1, GraphAssumption DEF Made
  <2>3. PushOrderOf(r, e) = [j \in DOMAIN s |-> s[j].name]
    BY <1>2 DEF PushOrderOf
  <2> HIDE DEF s
  <2>4. ASSUME NEW j \in DOMAIN s PROVE s[j].name \in STRING
    <3>1. s[j] \in [tag : STRING, name : STRING]
      BY <2>2, ElementOf
    <3> QED BY <3>1
  <2>5. Len(s) \in Nat /\ DOMAIN s = 1..Len(s)
    BY <2>2
  <2> QED BY <2>3, <2>4, <2>5
<1> QED BY <1>1, <1>2

\* Every status of an input is a result that a call may return.
LEMMA InputStatusIsResult ==
  ASSUME NEW c \in Calls, Sound(call[c], "push", exec[c]), NEW name
  PROVE  InputStatus(c, name) \in Results
<1> DEFINE a == Request(c)
           ks == {i \in DOMAIN a.inputs : a.inputs[i].name = name}
           k == CHOOSE i \in ks : \A j \in ks : i <= j
           ins == InputStreams(c)
           ss == {ins[i] : i \in DOMAIN ins}
           s == CHOOSE x \in ss : x.name = name
<1>1. a \in RequestType
  <2>1. call[c].asked \in Seq(RequestType) /\ call[c].asked # <<>>
    BY DEF Sound, CallType, Begins
  <2> QED BY <2>1 DEF Request
<1>2. a.inputs \in Seq([name : STRING, tensor : Tensors])
  BY <1>1 DEF RequestType
<1>3. ASSUME ks # {} PROVE a.inputs[k].tensor \in Tensors
  <2>1. ks \in SUBSET Nat
    BY <1>2
  <2>2. \E i \in ks : \A j \in ks : i <= j
    BY <1>3, <2>1, LeastOfNaturals
  <2>3. k \in ks
    BY <2>2
  <2>4. k \in DOMAIN a.inputs
    BY <2>3
  <2> HIDE DEF k, a
  <2>5. a.inputs[k] \in [name : STRING, tensor : Tensors]
    BY <1>2, <2>4, ElementOf
  <2> QED BY <2>5
<1>4. ASSUME name \in InputNames(c) PROVE s.tag \in STRING
  <2>1. Made(exec[c])
    BY DEF Sound, Begins, Started, Running
  <2>2. ins \in Seq([tag : STRING, name : STRING])
    BY <2>1, GraphAssumption DEF Made, InputStreams
  <2>3. \E x \in ss : x.name = name
    BY <1>4 DEF InputNames
  <2>4. s \in ss
    BY <2>3
  <2> HIDE DEF s, ins
  <2>5. s \in [tag : STRING, name : STRING]
    BY <2>2, <2>4, ElementOf
  <2> QED BY <2>5
<1>5. ASSUME name \in InputNames(c), ks # {}
      PROVE  DeserializeTensor(InputType(c, name), a.inputs[k].tensor).status \in Results
  <2>1. InputType(c, name) = PacketType(s.tag)
    BY DEF InputType
  <2>2. a.inputs[k].tensor \in Tensors /\ s.tag \in STRING
    BY <1>3, <1>4, <1>5
  <2> HIDE DEF s, k, a
  <2>3. TensorStatus(s.tag, a.inputs[k].tensor) \in TensorStatuses
    BY <2>2 DEF TensorStatuses
  <2> QED BY <2>1, <2>3 DEF Results, TensorStatus
<1> HIDE DEF ks, k, a
<1>6. InputStatus(c, name) =
        CASE name \notin InputNames(c) -> "INVALID_UNEXPECTED_INPUT"
          [] InputType(c, name) = "KFS_REQUEST" -> "OK"
          [] a.raw # Len(a.inputs) -> "INVALID_MESSAGE_STRUCTURE"
          [] ks = {} -> "INVALID_MISSING_INPUT"
          [] OTHER -> DeserializeTensor(InputType(c, name), a.inputs[k].tensor).status
  BY Zenon DEF InputStatus, ks, k, a
<1>7. \/ InputStatus(c, name) \in
            {"INVALID_UNEXPECTED_INPUT", "OK", "INVALID_MESSAGE_STRUCTURE", "INVALID_MISSING_INPUT"}
      \/ /\ name \in InputNames(c) /\ ks # {}
         /\ InputStatus(c, name) =
              DeserializeTensor(InputType(c, name), a.inputs[k].tensor).status
  BY <1>6
<1> QED
  BY <1>5, <1>7 DEF Results


-----------------------------------------------------------------------------
\* the steps of the thread of a call

\* The first request is read and the graph started.
LEMMA StartStep ==
  ASSUME DefinitionTypes, CallsSound, NEW c \in Calls, Start(c) PROVE CallsSound'
<1> DEFINE e == exec[c]
           k == IF Streaming(c) THEN "stamp" ELSE "push"
<1>1. Sound(call[c], "start", e) /\ call[c].kind \in {"unary", "stream"}
  BY DEF Start, CallsSound, Sound, CallType
<1>2. PICK a \in Asks[call[c].kind] :
        LET r == Asked(call[c], a)
        IN \/ Return(c, r, "MEDIAPIPE_GRAPH_INITIALIZATION_ERROR")
           \/ Return(c, r, "INVALID_NO_OF_INPUTS")
           \/ Become(c, Fail(r, "open"), k)
           \/ Become(c, r, k)
  BY DEF Start
<1> DEFINE r == Asked(call[c], a)
<1>3. a \in RequestType
  BY <1>1, <1>2, AsksAssumption
<1>4. Sound(r, "done", e)
  BY <1>1, <1>3, AsksNext
<1>5. k \in {"stamp", "push"} /\ (call[c].kind = "unary" => k = "push")
  BY DEF Streaming
<1> HIDE DEF k
<1>6. Sound(r, k, e)
  BY <1>1, <1>3, <1>5, AsksNext
<1>7. Sound(Fail(r, "open"), k, e)
  <2>1. r.asked # <<>>
    BY <1>5, <1>6 DEF Sound, Begins
  <2>2. "open" \in Errors \ {"order"}
    BY DEF Errors
  <2> QED BY <1>6, <2>1, <2>2, Fails
<1>8. {"MEDIAPIPE_GRAPH_INITIALIZATION_ERROR", "INVALID_NO_OF_INPUTS"} \subseteq Results
  BY DEF Results
<1> HIDE DEF r
<1>9. CASE Become(c, Fail(r, "open"), k)
  BY <1>7, <1>9, Becomes
<1>10. CASE Become(c, r, k)
  BY <1>6, <1>10, Becomes
<1>11. CASE Return(c, r, "MEDIAPIPE_GRAPH_INITIALIZATION_ERROR")
  BY <1>4, <1>8, <1>11, Returns
<1>12. CASE Return(c, r, "INVALID_NO_OF_INPUTS")
  BY <1>4, <1>8, <1>12, Returns
<1> QED BY <1>2, <1>9, <1>10, <1>11, <1>12 DEF r

\* Another request is read; one for another servable is refused.
LEMMA ReadStep ==
  ASSUME DefinitionTypes, CallsSound, NEW c \in Calls, ReadRequest(c) PROVE CallsSound'
<1>1. Sound(call[c], "read", exec[c]) /\ call[c].kind \in {"unary", "stream"}
  BY DEF ReadRequest, CallsSound, Sound, CallType
<1>2. call[c].kind # "unary"
  BY <1>1 DEF Sound, Begins
<1>3. PICK a \in Asks[call[c].kind], k \in {"stamp", "checkError"} : Become(c, Asked(call[c], a), k)
  BY DEF ReadRequest
<1>4. a \in RequestType
  BY <1>1, <1>3, AsksAssumption
<1>5. Sound(Asked(call[c], a), k, exec[c])
  BY <1>1, <1>2, <1>4, AsksNext
<1> QED BY <1>3, <1>5, Becomes

\* The request is dated.
LEMMA StampStep ==
  ASSUME DefinitionTypes, CallsSound, NEW c \in Calls, Stamp(c) PROVE CallsSound'
<1> DEFINE r == call[c]
           e == exec[c]
           a == r.asked[Len(r.asked)]
           ts == IF a.stamp = "manual" THEN a.at ELSE r.now
<1>1. Sound(r, "stamp", e)
  BY DEF Stamp, CallsSound
<1>2. r.asked \in Seq(RequestType) /\ r.asked # <<>> /\ r.now \in Int /\ r.kind # "unary"
  BY <1>1 DEF Sound, CallType, Begins
<1>3. a \in RequestType
  BY <1>2
<1>4. ts \in Int
  BY <1>2, <1>3 DEF RequestType
<1>5. NextStep(c) \in {"renew", "checkError"}
  BY DEF NextStep
<1>6. \/ Become(c, r, NextStep(c))
      \/ ts \notin 0..LastTimestamp /\ Become(c, Stamped(r, ts), NextStep(c))
      \/ ts \in 0..LastTimestamp /\ Become(c, Stamped(r, ts), "push")
  BY DEF Stamp, Request
<1>7. CASE Become(c, r, NextStep(c))
  <2>1. Sound(r, NextStep(c), e)
    BY <1>1, <1>2, <1>5, MovesOn DEF Started, Running
  <2> QED BY <1>7, <2>1, Becomes
<1>8. CASE ts \notin 0..LastTimestamp /\ Become(c, Stamped(r, ts), NextStep(c))
  <2>1. Sound(Stamped(r, ts), NextStep(c), e)
    BY <1>1, <1>4, <1>5, <1>8, Stamps
  <2> QED BY <1>8, <2>1, Becomes
<1>9. CASE ts \in 0..LastTimestamp /\ Become(c, Stamped(r, ts), "push")
  <2>1. Sound(Stamped(r, ts), "push", e)
    BY <1>1, <1>4, <1>9, Stamps
  <2> QED BY <1>9, <2>1, Becomes
<1> QED BY <1>6, <1>7, <1>8, <1>9

\* An input is pushed, or refused.
LEMMA PushStep ==
  ASSUME DefinitionTypes, CallsSound, NEW c \in Calls, PushInput(c) PROVE CallsSound'
<1> DEFINE r == call[c]
           e == exec[c]
           order == PushOrderOf(r, e)
           name == order[r.next + 1]
<1>1. Sound(r, "push", e)
  BY DEF PushInput, CallsSound
<1>2. order = PushOrder(c)
  BY DEF PushOrder, PushOrderOf, Streaming, Request, InputStreams
<1>3. order \in Seq(STRING) /\ r.next \in Nat /\ r.next < Len(order)
  BY <1>1, <1>2, PushOrderNames DEF PushInput, Sound, CallType
<1> HIDE DEF order
<1>4. r.next + 1 \in DOMAIN order
  BY <1>3
<1>5. name \in STRING
  BY <1>3, <1>4, ElementOf
<1>6. \/ \E code \in Results : Reject(c, r, code)
      \/ Become(c, AddPacket(r, name), "push")
  <2>1. {InputStatus(c, name), "MEDIAPIPE_GRAPH_ADD_PACKET_INPUT_STREAM"} \subseteq Results
    BY <1>1, InputStatusIsResult DEF Results
  <2> QED BY <1>2, <2>1 DEF PushInput
<1>7. ASSUME NEW code \in Results, Reject(c, r, code) PROVE CallsSound'
  <2>1. CASE Streaming(c)
    <3>1. NextStep(c) \in {"renew", "checkError"} /\ r.kind # "unary"
      BY <2>1 DEF NextStep, Streaming
    <3>2. Sound(r, NextStep(c), e)
      BY <1>1, <3>1, MovesOn DEF Started, Running
    <3> QED BY <1>7, <2>1, <3>2, Becomes DEF Reject
  <2>2. CASE ~Streaming(c)
    <3>1. Sound(r, "done", e)
      BY <1>1, MovesOn DEF Started, Running
    <3> QED BY <1>7, <2>2, <3>1, Returns DEF Reject
  <2> QED BY <2>1, <2>2
<1>8. ASSUME Become(c, AddPacket(r, name), "push") PROVE CallsSound'
  <2>1. Sound(AddPacket(r, name), "push", e)
    BY <1>1, <1>4, <1>5, Pushes DEF order
  <2> QED BY <1>8, <2>1, Becomes
<1> QED BY <1>6, <1>7, <1>8

\* All inputs are pushed.
LEMMA AcceptStep ==
  ASSUME DefinitionTypes, CallsSound, NEW c \in Calls, AllPushed(c) PROVE CallsSound'
<1> DEFINE r == call[c]
           e == exec[c]
<1>1. Sound(r, "push", e) /\ r \in CallType /\ r.now \in Int /\ r.kind \in {"unary", "stream"}
  BY DEF AllPushed, CallsSound, Sound, CallType
<1>2. Accepted(r).now = r.now /\ [Accepted(r) EXCEPT !.now = r.now] = Accepted(r)
  BY <1>1 DEF CallType, Accepted
<1>3. CASE Streaming(c)
  <2>1. NextStep(c) \in {"renew", "checkError"} /\ r.kind # "unary"
    BY <1>3 DEF NextStep, Streaming
  <2>2. Sound([Accepted(r) EXCEPT !.now = r.now + 1], NextStep(c), e)
    BY <1>1, <2>1, Accepts
  <2>3. Become(c, [Accepted(r) EXCEPT !.now = r.now + 1], NextStep(c))
    BY <1>2, <1>3 DEF AllPushed
  <2> QED BY <2>2, <2>3, Becomes
<1>4. CASE ~Streaming(c)
  <2>1. r.kind = "unary"
    BY <1>1, <1>4 DEF Streaming
  <2>2. Sound(Accepted(r), "idle", e)
    BY <1>1, <1>2, <2>1, Accepts
  <2> QED BY <1>4, <2>2, Becomes DEF AllPushed
<1> QED BY <1>3, <1>4

\* The remaining steps of the thread change the place of the call, its result
\* or what the invariant does not look at.
LEMMA LastSteps ==
  ASSUME DefinitionTypes, CallsSound, NEW c \in Calls,
         \/ CheckError(c) \/ Renew(c) \/ ReadEnds(c) \/ WaitUntilIdle(c)
         \/ CloseAllPacketSources(c) \/ WaitUntilDone(c) \/ ClosedUnopened(c)
  PROVE  CallsSound'
<1> DEFINE r == call[c]
           e == exec[c]
<1>1. Sound(r, pc[c], e)
  BY DEF CallsSound
<1>2. CASE CheckError(c)
  <2>1. PICK k \in {"close", "renew"} : Become(c, r, k)
    BY <1>2 DEF CheckError
  <2>2. pc[c] = "checkError" /\ r.kind # "unary"
    BY <1>1, <1>2 DEF CheckError, Sound, Begins
  <2>3. Sound(r, k, e)
    BY <1>1, <2>2, MovesOn DEF Started, Running
  <2> QED BY <2>1, <2>3, Becomes
<1>3. CASE Renew(c)
  <2>1. Sound([r EXCEPT !.objects = Append(@, 0)], "read", e)
    BY <1>1, <1>3, Renews DEF Renew
  <2> QED BY <1>3, <2>1, Becomes DEF Renew
<1>4. CASE ReadEnds(c)
  <2>1. Sound(r, "close", e)
    BY <1>1, <1>4, MovesOn DEF ReadEnds, Started, Running
  <2> QED BY <1>4, <2>1, Becomes DEF ReadEnds
<1>5. CASE WaitUntilIdle(c)
  <2>1. Sound(r, "close", e) /\ Sound(r, "done", e)
    BY <1>1, <1>5, MovesOn DEF WaitUntilIdle, Started, Running
  <2>2. "MEDIAPIPE_EXECUTION_ERROR" \in Results
    BY DEF Results
  <2> QED BY <1>5, <2>1, <2>2, Becomes, Returns DEF WaitUntilIdle
<1>6. CASE CloseAllPacketSources(c)
  <2>1. Sound(r, "finish", e)
    BY <1>1, <1>6, MovesOn DEF CloseAllPacketSources, Started, Running
  <2>2. Sound([r EXCEPT !.closed = TRUE], "finish", e)
    BY <2>1, Leaves
  <2> QED BY <1>6, <2>2, Becomes DEF CloseAllPacketSources
<1>7. CASE WaitUntilDone(c)
  <2>1. Sound(r, "done", e)
    BY <1>1, <1>7, MovesOn DEF WaitUntilDone, Started, Running
  <2>2. PICK code \in {"MEDIAPIPE_EXECUTION_ERROR", "OK"} : Return(c, r, code)
    BY <1>7 DEF WaitUntilDone
  <2>3. code \in Results
    BY <2>2 DEF Results
  <2> QED BY <2>1, <2>2, <2>3, Returns
<1>8. CASE ClosedUnopened(c)
  <2>1. Sound(r, "done", e)
    BY <1>1, <1>8, MovesOn DEF ClosedUnopened, Started, Running
  <2>2. "MEDIAPIPE_UNINITIALIZED_STREAM_CLOSURE" \in Results
    BY DEF Results
  <2> QED BY <1>8, <2>1, <2>2, Returns DEF ClosedUnopened
<1> QED BY <1>2, <1>3, <1>4, <1>5, <1>6, <1>7, <1>8


-----------------------------------------------------------------------------
\* the steps of the nodes and of the client

\* What a step of a node does to the calls.
LEMMA NodeMoves ==
  ASSUME DefinitionTypes, CallsSound, NEW c \in Calls, NEW q, NodeBecomes(c, q),
         Sound(q, pc[c], exec[c])
  PROVE  CallsSound'
<1>1. call'[c] = q /\ \A d \in Calls \ {c} : call'[d] = call[d]
  BY DEF NodeBecomes, DefinitionTypes
<1>2. pc' = [pc EXCEPT ![c] = pc[c]] /\ exec' = exec
  BY DEF NodeBecomes, DefinitionTypes, definitionVars
<1> QED BY <1>1, <1>2, OneMoves

\* The data of packets is that of requests with their timestamp.
LEMMA FromPackets ==
  ASSUME NEW c \in Calls, Sound(call[c], pc[c], exec[c]), NEW P \in SUBSET call[c].queue, NEW ts,
         \A p \in P : p.ts = ts
  PROVE  /\ From(c, P) \in SUBSET Nat
         /\ \A n \in From(c, P) : Dated(call[c], pc[c], n) /\ call[c].taken[n].ts = ts
<1> SUFFICES ASSUME NEW p \in P
             PROVE  /\ call[c].objects[p.object] \in Nat
                    /\ Dated(call[c], pc[c], call[c].objects[p.object])
                    /\ call[c].taken[call[c].objects[p.object]].ts = ts
  BY DEF From
<1>1. /\ p \in call[c].queue /\ p.object \in DOMAIN call[c].objects
      /\ Dated(call[c], pc[c], call[c].objects[p.object])
      /\ call[c].taken[call[c].objects[p.object]].ts = p.ts
  BY DEF Sound, Matches
<1>2. call[c].objects \in Seq(Nat)
  BY DEF Sound, CallType
<1> QED BY <1>1, <1>2, ElementOf

\* The output streams are finitely many names.
LEMMA OutputsFinite ==
  ASSUME NEW c \in Calls, Made(exec[c])
  PROVE  Outputs(c) \in SUBSET OutputNames /\ IsFiniteSet(Outputs(c))
<1> DEFINE s == Graph[exec[c].streams].outputs
           f == [i \in 1..Len(s) |-> s[i].name]
<1>1. s \in Seq([tag : STRING, name : STRING])
  BY GraphAssumption DEF Made
<1>2. Outputs(c) = {s[i].name : i \in DOMAIN s}
  BY DEF Outputs
<1> HIDE DEF s
<1>3. Len(s) \in Nat /\ DOMAIN s = 1..Len(s)
  BY <1>1
<1>4. ASSUME NEW i \in DOMAIN s PROVE s[i].name \in STRING
  <2>1. s[i] \in [tag : STRING, name : STRING]
    BY <1>1, ElementOf
  <2> QED BY <2>1
<1>5. IsFiniteSet(1..Len(s))
  BY <1>3, FS_Interval
<1>6. f \in Surjection(1..Len(s), Outputs(c))
  BY <1>2, <1>3, Zenon DEF Surjection
<1>7. IsFiniteSet(Outputs(c))
  BY <1>5, <1>6, FS_Surjection
<1> QED BY <1>2, <1>4, <1>7 DEF OutputNames

\* A generator writes a set of outputs and goes on one timestamp later.
LEMMA GeneratesOutputs ==
  ASSUME NEW c \in Calls, NEW r, NEW l, Sound(r, l, exec[c]), r.asked # <<>>, Made(exec[c]),
         Generates(exec[c]), NEW left \in Int, NEW ts \in Int, NEW from \in SUBSET Nat,
         \A n \in from : Dated(r, l, n) /\ r.taken[n].ts <= ts
  PROVE  Sound(Generate(c, r, left, ts, from), l, exec[c])
<1> DEFINE q == Emit(c, r, Outputs(c), ts, from)
           g == [on |-> TRUE, left |-> left - 1, ts |-> ts + 1, from |-> from, loop |-> TRUE]
<1>1. r.taken \in Seq(Takens)
  BY DEF Sound, CallType
<1>2. ASSUME NEW n \in from
      PROVE  /\ Dated(r, l, n)
             /\ r.taken[n].ts = ts \/ (Generates(exec[c]) /\ r.taken[n].ts < ts)
             /\ r.taken[n].ts < ts + 1
  <2>1. Dated(r, l, n) /\ r.taken[n].ts <= ts
    OBVIOUS
  <2>2. r.taken[n] \in Takens
    BY <1>1, <2>1, ElementOf DEF Dated
  <2>3. r.taken[n].ts \in Int
    BY <2>2 DEF Takens
  <2> QED BY <2>1, <2>3
<1>3. Sound(q, l, exec[c]) /\ q.asked = r.asked /\ q.taken = r.taken
  BY <1>2, OutputsFinite, Emits
<1>4. g \in Generators /\ g.loop /\ g.from = from /\ g.ts = ts + 1
  BY DEF Generators
<1>5. Generate(c, r, left, ts, from) = [q EXCEPT !.generator = g]
  BY DEF Generate
<1> HIDE DEF q, g
<1>6. \A n \in g.from : Dated(q, l, n) /\ q.taken[n].ts < g.ts
  BY <1>2, <1>3, <1>4 DEF Dated
<1>7. Sound([q EXCEPT !.generator = g], l, exec[c])
  BY <1>3, <1>4, <1>6, SetsGenerator
<1> QED BY <1>5, <1>7

\* Packets are in a graph only when there was a request.
LEMMA SomethingAsked ==
  ASSUME NEW r, NEW l, NEW e, Sound(r, l, e), r.queue # {} \/ r.generator.loop
  PROVE  r.asked # <<>> /\ Made(e)
BY DEF Sound, Begins

\* Nodes that pass their input on.
LEMMA PassStep ==
  ASSUME DefinitionTypes, CallsSound, NEW c \in Calls, PassThrough(c) \/ NodeFails(c)
  PROVE  CallsSound'
<1> DEFINE r == call[c]
           l == pc[c]
           e == exec[c]
<1>1. Sound(r, l, e) /\ r.queue # {}
  BY DEF CallsSound, PassThrough, NodeFails
<1>2. r.asked # <<>> /\ Made(e)
  BY <1>1, SomethingAsked
<1>3. CASE NodeFails(c)
  <2>1. "node" \in Errors \ {"order"}
    BY DEF Errors
  <2>2. Sound(Fail(r, "node"), l, e)
    BY <1>1, <1>2, <2>1, Fails
  <2> QED BY <1>3, <2>2, NodeMoves DEF NodeFails
<1>4. CASE PassThrough(c)
  <2>1. PICK p \in r.queue :
          NodeBecomes(c, Emit(c, Consumed(r, {p}), {PassedTo(e.streams, p.input)}, p.ts,
                              From(c, {p})))
    BY <1>4 DEF PassThrough, InputStreams, PassedTo
  <2> DEFINE o == PassedTo(e.streams, p.input)
             q == Consumed(r, {p})
  <2>2. p.input \in STRING /\ p.ts \in Int
    BY <1>1 DEF Sound, CallType, Packets
  <2>3. e.streams \in DOMAIN Graph
    BY <1>2 DEF Made
  <2>4. o \in OutputNames
    <3>1. o \in {PassedTo(f, name) : f \in DOMAIN Graph, name \in STRING}
      BY <2>2, <2>3
    <3> QED BY <3>1 DEF OutputNames
  <2> HIDE DEF o
  <2>5. {o} \in SUBSET OutputNames /\ IsFiniteSet({o})
    BY <2>4, FS_Singleton
  <2>6. /\ From(c, {p}) \in SUBSET Nat
        /\ \A n \in From(c, {p}) : Dated(r, l, n) /\ r.taken[n].ts = p.ts
    <3> DEFINE P == {p}
               ts == p.ts
    <3>1. P \in SUBSET r.queue /\ \A x \in P : x.ts = ts
      OBVIOUS
    <3> HIDE DEF P, ts
    <3>2. /\ From(c, P) \in SUBSET Nat
          /\ \A n \in From(c, P) : Dated(r, l, n) /\ r.taken[n].ts = ts
      BY <1>1, <3>1, FromPackets
    <3> QED BY <3>2 DEF P, ts
  <2>7. Sound(q, l, e) /\ q.asked = r.asked /\ q.taken = r.taken
    BY <1>1, Consumes
  <2> HIDE DEF q
  <2>8. \A n \in From(c, {p}) : Dated(q, l, n) /\ q.taken[n].ts = p.ts
    BY <2>6, <2>7 DEF Dated
  <2>9. Sound(Emit(c, q, {o}, p.ts, From(c, {p})), l, e)
    BY <1>2, <2>2, <2>5, <2>6, <2>7, <2>8, Emits
  <2> QED BY <2>1, <2>9, NodeMoves DEF o, q
<1> QED BY <1>3, <1>4

\* The packets that are ready have one timestamp.
LEMMA ReadyPackets ==
  ASSUME NEW c \in Calls, Sound(call[c], pc[c], exec[c])
  PROVE  Ready(c) \subseteq call[c].queue /\ \A p, q \in Ready(c) : p.ts = q.ts /\ p.ts \in Int
<1>1. /\ Ready(c) \subseteq call[c].queue
      /\ \A p \in Ready(c) : \A q \in call[c].queue : p.ts <= q.ts
  BY DEF Ready
<1>2. \A p \in call[c].queue : p.ts \in Int
  BY DEF Sound, CallType, Packets
<1> QED BY <1>1, <1>2

\* A Python node with new inputs.
LEMMA ProcessStep ==
  ASSUME DefinitionTypes, CallsSound, NEW c \in Calls, ProcessInputs(c) PROVE CallsSound'
<1> DEFINE r == call[c]
           l == pc[c]
           e == exec[c]
           P == Ready(c)
           ts == (CHOOSE p \in P : TRUE).ts
           from == From(c, P)
           q == Consumed(r, P)
<1>1. Sound(r, l, e) /\ r.queue # {} /\ P # {}
  BY DEF CallsSound, ProcessInputs
<1>2. r.asked # <<>> /\ Made(e)
  BY <1>1, SomethingAsked
<1>3. P \in SUBSET r.queue /\ ts \in Int /\ \A p \in P : p.ts = ts
  BY <1>1, ReadyPackets
<1> HIDE DEF ts, P
<1>4. from \in SUBSET Nat /\ \A n \in from : Dated(r, l, n) /\ r.taken[n].ts = ts
  BY <1>1, <1>3, FromPackets
<1>5. Sound(q, l, e) /\ q.asked = r.asked /\ q.taken = r.taken
  BY <1>1, Consumes
<1> HIDE DEF q, from
<1>6. \A n \in from : Dated(q, l, n) /\ q.taken[n].ts = ts
  BY <1>4, <1>5 DEF Dated
<1>7. \/ \E x \in {"busy", "script"} : NodeBecomes(c, Fail(q, x))
      \/ NodeBecomes(c, Emit(c, q, Outputs(c), ts, from))
      \/ Generates(e) /\ NodeBecomes(c, Generate(c, q, Yields, ts, from))
  BY DEF ProcessInputs, Generates, ExecutorGraph, q, from, ts, P
<1>8. ASSUME NEW x \in {"busy", "script"}, NodeBecomes(c, Fail(q, x)) PROVE CallsSound'
  <2>1. x \in Errors \ {"order"}
    BY DEF Errors
  <2>2. Sound(Fail(q, x), l, e)
    BY <1>2, <1>5, <2>1, Fails
  <2> QED BY <1>8, <2>2, NodeMoves
<1>9. ASSUME NodeBecomes(c, Emit(c, q, Outputs(c), ts, from)) PROVE CallsSound'
  <2>1. Sound(Emit(c, q, Outputs(c), ts, from), l, e)
    BY <1>2, <1>3, <1>4, <1>5, <1>6, OutputsFinite, Emits
  <2> QED BY <1>9, <2>1, NodeMoves
<1>10. ASSUME Generates(e), NodeBecomes(c, Generate(c, q, Yields, ts, from)) PROVE CallsSound'
  <2>1. Yields \in Int
    BY ExecutorAssumption
  <2>2. \A n \in from : Dated(q, l, n) /\ q.taken[n].ts <= ts
    BY <1>3, <1>6
  <2>3. Sound(Generate(c, q, Yields, ts, from), l, e)
    BY <1>2, <1>3, <1>4, <1>5, <1>10, <2>1, <2>2, GeneratesOutputs
  <2> QED BY <1>10, <2>3, NodeMoves
<1> QED BY <1>7, <1>8, <1>9, <1>10

\* A Python node with a packet from itself.
LEMMA LoopStep ==
  ASSUME DefinitionTypes, CallsSound, NEW c \in Calls, ProcessLoopback(c) PROVE CallsSound'
<1> DEFINE r == call[c]
           l == pc[c]
           e == exec[c]
           n == r.generator
<1>1. Sound(r, l, e) /\ n.loop
  BY DEF CallsSound, ProcessLoopback
<1>2. r.asked # <<>> /\ Made(e)
  BY <1>1, SomethingAsked
<1>3. /\ n \in Generators /\ Generates(e)
      /\ \A m \in n.from : Dated(r, l, m) /\ r.taken[m].ts < n.ts
  BY <1>1 DEF Sound, CallType, Matches
<1>4. CASE n.left > 0
  <2>1. n.left \in Int /\ n.ts \in Int /\ n.from \in SUBSET Nat
    BY <1>3 DEF Generators
  <2>2. r.taken \in Seq(Takens)
    BY <1>1 DEF Sound, CallType
  <2>3. ASSUME NEW m \in n.from PROVE Dated(r, l, m) /\ r.taken[m].ts <= n.ts
    <3>1. Dated(r, l, m) /\ r.taken[m].ts < n.ts
      BY <1>3
    <3>2. r.taken[m] \in Takens
      BY <2>2, <3>1, ElementOf DEF Dated
    <3>3. r.taken[m].ts \in Int
      BY <3>2 DEF Takens
    <3> QED BY <2>1, <3>1, <3>3
  <2>4. Sound(Generate(c, r, n.left, n.ts, n.from), l, e)
    BY <1>1, <1>2, <1>3, <2>1, <2>3, GeneratesOutputs
  <2> QED BY <1>4, <2>4, NodeMoves DEF ProcessLoopback
<1>5. CASE ~(n.left > 0)
  <2>1. NoGenerator \in Generators /\ ~NoGenerator.loop
    BY DEF NoGenerator, Generators
  <2>2. Sound([r EXCEPT !.generator = NoGenerator], l, e)
    BY <1>1, <2>1, SetsGenerator
  <2> QED BY <1>5, <2>2, NodeMoves DEF ProcessLoopback
<1> QED BY <1>4, <1>5

\* The client leaves.
LEMMA LeaveStep ==
  ASSUME DefinitionTypes, CallsSound, NEW c \in Calls, NEW how \in {"closed", "gone"}, Leave(c, how)
  PROVE  CallsSound'
<1>1. NodeBecomes(c, [call[c] EXCEPT !.client = how])
  BY DEF Leave, NodeBecomes
<1>2. Sound([call[c] EXCEPT !.client = how], pc[c], exec[c])
  BY Leaves DEF CallsSound
<1> QED BY <1>1, <1>2, NodeMoves

\* Every step of a call preserves the invariant of the calls.
LEMMA CallsStaySound ==
  ASSUME DefinitionInv, CallsSound, NEW c \in Calls, CallStep(c) PROVE CallsSound'
<1>1. DefinitionTypes
  BY DEF DefinitionInv
<1> QED
  BY <1>1, WaitSteps, StartStep, ReadStep, StampStep, PushStep, AcceptStep, LastSteps, PassStep,
     ProcessStep, LoopStep, LeaveStep
  DEF CallStep, ThreadStep, NodeStep

-----------------------------------------------------------------------------
\* the specification

Inv == DefinitionInv /\ CountsGuards /\ CallsSound

\* A call starts with nothing.
LEMMA InitInv == Init => Inv
<1> SUFFICES ASSUME Init PROVE Inv
  OBVIOUS
<1>1. DefinitionInv
  <2>1. DefinitionTypes
    BY DEF Init, DefinitionInit, DefinitionTypes, Files, States, PCs
  <2> QED
    BY <2>1
    DEF DefinitionInv, Blocked, NobodyBefore, QuietPastDrain, Validated, ServesComplete,
        DigestOfGraph, ExecutorOfOneGraph, Validation, Init, DefinitionInit, isAvailable
<1>2. CountsGuards
  <2>1. Guarded = {}
    BY DEF Init, DefinitionInit, Guarded
  <2> QED BY <2>1, FS_EmptySet DEF CountsGuards, Init, DefinitionInit
<1>3. ASSUME NEW c \in Calls PROVE Sound(call[c], "new", exec[c])
  <2>1. PICK kind \in {"unary", "stream"} : call[c] = NewCall(kind)
    BY DEF Init
  <2> DEFINE r == NewCall(kind)
  <2>2. /\ r.kind = kind /\ r.client = "open" /\ r.asked = <<>> /\ r.objects = <<0>> /\ r.next = 0
        /\ r.now = 0 /\ r.taken = <<>> /\ r.queue = {} /\ r.closed = FALSE
        /\ r.generator = NoGenerator /\ r.error = "none" /\ r.out = <<>> /\ r.result = ""
    BY DEF NewCall
  <2>3. NoGenerator \in Generators /\ ~NoGenerator.loop
    BY DEF NoGenerator, Generators
  <2>4. r \in CallType
    BY <2>3 DEF CallType, NewCall, Errors, Results
  <2> HIDE DEF r
  <2>5. r.objects # <<>> /\ DOMAIN r.taken = {} /\ DOMAIN r.out = {}
    <3>1. Len(<<0>>) = 1 /\ Len(<<>>) = 0
      OBVIOUS
    <3>2. DOMAIN <<>> = {}
      OBVIOUS
    <3>3. <<0>> # <<>>
      BY <3>1
    <3> QED BY <2>2, <3>2, <3>3, Zenon
  <2>6. Begins(r, "new", exec[c])
    BY <2>2, <2>3, <2>5 DEF Begins, Started, Running
  <2>7. Matches(r, "new", exec[c])
    BY <2>2, <2>3, <2>5 DEF Matches
  <2>8. InOrder(r, "new", exec[c])
    BY <2>2, <2>5 DEF InOrder
  <2> QED BY <2>1, <2>4, <2>6, <2>7, <2>8 DEF Sound, r
<1>4. CallsSound
  BY <1>3 DEF CallsSound, Init, DefinitionInit
<1> QED BY <1>1, <1>2, <1>4 DEF Inv

\* Every step preserves the invariant.
LEMMA StepInv == Inv /\ [Next]_vars => Inv'
<1> SUFFICES ASSUME Inv, [Next]_vars PROVE Inv'
  OBVIOUS
<1> USE DEF Inv
<1>1. ASSUME ManagerNext, UNCHANGED call PROVE Inv'
  <2>1. pc' = pc /\ handles' = handles /\ exec' = exec
    BY <1>1
    DEF ManagerNext, CreateDefinition, Retire, ValidateStep, ReloadDefinition, EditFile, Drain,
        ClearNodes, ReadGraphFile, SetStreams, InitializeNodes, NotifyResult
  <2>2. DefinitionInv'
    BY <1>1, ManagerSteps
  <2>3. CountsGuards' /\ CallsSound'
    BY <1>1, <2>1 DEF CountsGuards, Guarded, CallsSound
  <2> QED BY <2>2, <2>3
<1>2. ASSUME NEW c \in Calls, CallStep(c) PROVE Inv'
  BY <1>2, CallSteps, CallCounts, CallsStaySound DEF DefinitionInv
<1>3. ASSUME UNCHANGED vars PROVE Inv'
  BY <1>3
  DEF vars, definitionVars, managerVars, DefinitionInv, DefinitionTypes, Blocked, NobodyBefore,
      QuietPastDrain, Validated, ServesComplete, DigestOfGraph, ExecutorOfOneGraph, Complete,
      CountsGuards, Guarded, CallsSound
<1> QED BY <1>1, <1>2, <1>3 DEF Next, CallStep

\* The inductive invariant: the definition, the guards and the calls.
LEMMA Invariance == Spec => []Inv
BY InitInv, StepInv, PTL DEF Spec


\* Every executor is made of one graph that was validated, although the
\* definition is reloaded while calls make executors from it:
\* MediapipeGraphDefinition::create copies the graph, the streams and the
\* nodes under a guard, and reload waits for the guards.
THEOREM ExecutorsComplete == Spec => []ExecutorOfOneGraph
<1>1. Inv => ExecutorOfOneGraph
  BY DEF Inv, DefinitionInv
<1> QED BY <1>1, Invariance, PTL

\* When the configuration is read again and a definition is left alone, it is
\* made of the file as it is, and served if that is a valid graph; unless the
\* file was missing when it was read last (isReloadRequired and the digest
\* that validateForConfigFileExistence takes).
THEOREM LeftAloneFresh == Spec => LeftAloneIsFresh
<1> DEFINE Fresh == (ops' # ops /\ defined /\ step' = "none" /\ status' # "RETIRED") =>
                      \/ md5 = ""
                      \/ config = file /\ (ValidGraph(file) => isAvailable(status))
<1>1. Inv /\ [Next]_vars => [Fresh]_vars
  <2> SUFFICES ASSUME Inv, Next, ops' # ops, defined, step' = "none", status' # "RETIRED", md5 # ""
               PROVE  config = file /\ (ValidGraph(file) => isAvailable(status))
    OBVIOUS
  <2>1. ManagerNext
    <3>1. ASSUME NEW c \in Calls, CallStep(c) PROVE FALSE
      <4>1. UNCHANGED managerVars
        BY <3>1, CallFrame DEF Inv, DefinitionInv
      <4> QED BY <4>1 DEF managerVars
    <3> QED BY <3>1 DEF Next, CallStep
  <2>2. status \in States /\ defined /\ Operation
    BY <2>1
    DEF Inv, DefinitionInv, DefinitionTypes, ManagerNext, CreateDefinition, Retire, ValidateStep,
        ReloadDefinition, EditFile, Drain, ClearNodes, ReadGraphFile, SetStreams, InitializeNodes,
        NotifyResult
  <2>3. status \in {"AVAILABLE", "LOADING_PRECONDITION_FAILED", "RETIRED"}
    BY <2>2 DEF Inv, DefinitionInv, Blocked, Operation
  <2>4. ~Retire
    BY <2>2, <2>3, AfterEvents DEF Retire
  <2>5. PICK moved \in BOOLEAN : ReloadDefinition(moved)
    BY <2>1, <2>2, <2>4
    DEF ManagerNext, CreateDefinition, ValidateStep, EditFile, Drain, ClearNodes, ReadGraphFile,
        SetStreams, InitializeNodes, NotifyResult, Operation
  <2>6. ~IsReloadRequired(moved) /\ step = "none"
    BY <2>5 DEF ReloadDefinition, Operation
  <2>7. file = md5 /\ status # "RETIRED"
    BY <2>6 DEF IsReloadRequired
  <2> QED BY <2>2, <2>6, <2>7 DEF Inv, DefinitionInv, DigestOfGraph
<1> QED BY <1>1, Invariance, PTL DEF Spec, LeftAloneIsFresh

\* A response holds the data of the request whose timestamp it has (of an
\* earlier one if it was generated): inferStream reads every request into an
\* object of its own, which the packets in the graph keep.
THEOREM ResponsesMatch == Spec => []ResponsesMatchRequests
<1>1. CallsSound => ResponsesMatchRequests
  <2> SUFFICES ASSUME CallsSound, NEW c \in Calls, NEW i \in DOMAIN call[c].out,
                      NEW n \in call[c].out[i].from
               PROVE  /\ n \in DOMAIN call[c].taken
                      /\ \/ call[c].taken[n].ts = call[c].out[i].ts
                         \/ GeneratedBy(c) /\ call[c].taken[n].ts < call[c].out[i].ts
    BY DEF ResponsesMatchRequests
  <2>1. Sound(call[c], pc[c], exec[c])
    BY DEF CallsSound
  <2>2. Generates(exec[c]) => GeneratedBy(c)
    BY DEF Generates, GeneratedBy, ExecutorGraph
  <2> QED BY <2>1, <2>2 DEF Sound, Matches, Dated
<1> QED BY <1>1, Invariance, PTL DEF Inv

\* The timestamps that the server sets never put a graph into an error: only a
\* client breaks the order, with its own timestamps, with an input it names
\* twice, or with a request that is refused when a part of it is in the graph
\* (partialDeserialize).
THEOREM OrderKept == Spec => []OnlyClientBreaksOrder
<1>1. CallsSound => OnlyClientBreaksOrder
  <2> SUFFICES ASSUME CallsSound, NEW c \in Calls, call[c].error = "order"
               PROVE  \E n \in DOMAIN call[c].taken :
                        \/ Backwards(call[c], n)
                        \/ Repeated(call[c].asked[n].inputs)
                        \/ /\ ~call[c].taken[n].ok
                           /\ \/ call[c].asked[n].stamp = "manual"
                              \/ call[c].taken[n].pushed # {}
    BY DEF OnlyClientBreaksOrder, Backwards
  <2>1. ClientBroke(call[c], pc[c])
    BY DEF CallsSound, Sound, InOrder
  <2> QED BY <2>1 DEF ClientBroke, Refused
<1> QED BY <1>1, Invariance, PTL DEF Inv

-----------------------------------------------------------------------------
(* The tensors of messages and packets. *)

\* Every packet that is made holds the shape and, but for a MediaPipe tensor, the
\* size of the tensor.
LEMMA PacketsHold ==
  ASSUME NEW t
  PROVE  /\ \/ DeserializeMPTensor(t).status # "OK"
            \/ t.datatype \in MPPrecisions /\ DeserializeMPTensor(t) = Packet(t.datatype, t.shape, DeclaredSize(t))
         /\ DeserializeTFTensor(t).status # "OK" \/ DeserializeTFTensor(t) = Packet(t.datatype, t.shape, t.size)
         /\ LET precision == KFSPrecisionToOvmsPrecision(t.datatype)
            IN \/ DeserializeOVTensor(t).status # "OK"
               \/ precision # "UNDEFINED" /\ DeserializeOVTensor(t) = Packet(precision, t.shape, t.size)
         /\ LET format == KFSDatatypeToImageFormat(t.datatype, t.shape[3])
            IN \/ DeserializeImageFrame(t).status # "OK"
               \/ Len(t.shape) = 3 /\ format # "UNKNOWN" /\ DeserializeImageFrame(t) = Packet(format, t.shape, t.size)
         /\ \/ DeserializePyTensor(t).status # "OK"
            \/ /\ ~Negative(t.shape)
               /\ t.datatype \in KnownDatatypes => t.size = DeclaredSize(t)
               /\ DeserializePyTensor(t) = Packet(t.datatype, t.shape, t.size)
<1>1. \A s : NoPacket(s).status = s
  BY DEF NoPacket
<1>2. \/ DeserializeMPTensor(t).status # "OK"
      \/ t.datatype \in MPPrecisions /\ DeserializeMPTensor(t) = Packet(t.datatype, t.shape, DeclaredSize(t))
  BY <1>1 DEF DeserializeMPTensor, KFSPrecisionToMPPrecision
<1>3. DeserializeTFTensor(t).status # "OK" \/ DeserializeTFTensor(t) = Packet(t.datatype, t.shape, t.size)
  BY <1>1 DEF DeserializeTFTensor
<1>4. LET precision == KFSPrecisionToOvmsPrecision(t.datatype)
      IN \/ DeserializeOVTensor(t).status # "OK"
         \/ precision # "UNDEFINED" /\ DeserializeOVTensor(t) = Packet(precision, t.shape, t.size)
  BY <1>1 DEF DeserializeOVTensor
<1>5. LET format == KFSDatatypeToImageFormat(t.datatype, t.shape[3])
      IN \/ DeserializeImageFrame(t).status # "OK"
         \/ Len(t.shape) = 3 /\ format # "UNKNOWN" /\ DeserializeImageFrame(t) = Packet(format, t.shape, t.size)
  BY <1>1 DEF DeserializeImageFrame
<1>6. \/ DeserializePyTensor(t).status # "OK"
      \/ /\ ~Negative(t.shape)
         /\ t.datatype \in KnownDatatypes => t.size = DeclaredSize(t)
         /\ DeserializePyTensor(t) = Packet(t.datatype, t.shape, t.size)
  BY <1>1 DEF DeserializePyTensor
<1> QED BY <1>2, <1>3, <1>4, <1>5, <1>6

\* What is looked up in a table without ambiguous entries is found again in the
\* inverted one.
LEMMA LookedUp ==
  ASSUME NEW pairs, NEW p \in pairs, p = <<p[1], p[2]>>,
         \A q \in pairs : q = <<q[1], q[2]>>,
         \A q \in pairs : q[1] = p[1] \/ q[2] = p[2] => q = p,
         NEW none
  PROVE  Lookup(pairs, p[1], none) = p[2] /\ Lookup(Inverted(pairs), p[2], none) = p[1]
<1>1. Lookup(pairs, p[1], none) = p[2]
  <2>1. \A q \in pairs : q[1] = p[1] => q = p
    OBVIOUS
  <2>2. (CHOOSE q \in pairs : q[1] = p[1]) = p
    BY <2>1
  <2> QED BY <2>2 DEF Lookup
<1>2. PICK r : r = <<p[2], p[1]>>
  OBVIOUS
<1>3. r \in Inverted(pairs) /\ r[1] = p[2] /\ r[2] = p[1]
  BY <1>2 DEF Inverted
<1>4. ASSUME NEW q \in Inverted(pairs), q[1] = p[2] PROVE q = r
  <2>1. PICK s \in pairs : q = <<s[2], s[1]>>
    BY DEF Inverted
  <2>2. s[2] = p[2]
    BY <1>4, <2>1
  <2> QED BY <1>2, <2>1, <2>2
<1>5. (CHOOSE q \in Inverted(pairs) : q[1] = p[2]) = r
  BY <1>3, <1>4
<1> QED BY <1>1, <1>3, <1>5 DEF Lookup

\* The entries of the tables, with the sizes of the elements.
LEMMA TheNames ==
  ASSUME NEW p \in PrecisionNames
  PROVE  /\ p = <<p[1], p[2]>> /\ p[2] \in KnownDatatypes
         /\ p[1] \notin {"UNDEFINED", "BF16"}
         /\ \A q \in PrecisionNames : q[1] = p[1] \/ q[2] = p[2] => q = p
         /\ \A shape : OVTensorSize(p[1], shape) = Product(shape) * KFSDataTypeSize(p[2])
<1>1. /\ p = <<p[1], p[2]>> /\ p[2] \in KnownDatatypes
      /\ p[1] \notin {"UNDEFINED", "BF16"}
  BY DEF PrecisionNames, KnownDatatypes
<1>2. \A q \in PrecisionNames : q[1] = p[1] \/ q[2] = p[2] => q = p
  BY DEF PrecisionNames
<1>3. \A shape : OVTensorSize(p[1], shape) = Product(shape) * KFSDataTypeSize(p[2])
  BY DEF OVTensorSize, KFSDataTypeSize, PrecisionNames
<1> QED BY <1>1, <1>2, <1>3

\* Every known data type has one.
LEMMA NameOf ==
  ASSUME NEW datatype \in KnownDatatypes
  PROVE  \E p \in PrecisionNames : p[2] = datatype
BY DEF PrecisionNames, KnownDatatypes

\* The tables of precisions are inverse to each other.
LEMMA Tables ==
  ASSUME NEW datatype \in KnownDatatypes
  PROVE  LET precision == KFSPrecisionToOvmsPrecision(datatype)
         IN /\ OvmsPrecisionToKFSPrecision(precision) = datatype
            /\ FromKfsString(datatype) = precision
            /\ ToKfsString(precision) = datatype
            /\ precision # "UNDEFINED"
            /\ \A shape : OVTensorSize(precision, shape) = Product(shape) * KFSDataTypeSize(datatype)
<1>1. PICK p \in PrecisionNames : p[2] = datatype
  BY NameOf
<1>2. PICK more : more = PrecisionNames \cup {<<"BF16", "BF16">>}
  OBVIOUS
<1>3. p = <<p[1], p[2]>> /\ p[1] \notin {"UNDEFINED", "BF16"} /\ p[2] # "BF16"
  BY TheNames DEF KnownDatatypes
<1>4. \A q \in PrecisionNames : q = <<q[1], q[2]>> /\ (q[1] = p[1] \/ q[2] = p[2] => q = p)
  BY TheNames
<1>5. \A q \in more : q = <<q[1], q[2]>> /\ (q[1] = p[1] \/ q[2] = p[2] => q = p)
  BY <1>2, <1>3, <1>4
<1>6. /\ OvmsPrecisionToKFSPrecision(p[1]) = datatype
      /\ KFSPrecisionToOvmsPrecision(datatype) = p[1]
  BY <1>1, <1>3, <1>4, LookedUp DEF OvmsPrecisionToKFSPrecision, KFSPrecisionToOvmsPrecision
<1>7. Inverted(more) = Inverted(PrecisionNames) \cup {<<"BF16", "BF16">>}
  BY <1>2 DEF Inverted
<1>8. p \in more
  BY <1>2
<1>9. ToKfsString(p[1]) = datatype /\ FromKfsString(datatype) = p[1]
  <2>1. Lookup(more, p[1], "UNKNOWN") = p[2] /\ Lookup(Inverted(more), p[2], "UNDEFINED") = p[1]
    BY <1>3, <1>5, <1>8, LookedUp
  <2> QED BY <1>1, <1>2, <1>7, <2>1 DEF ToKfsString, FromKfsString
<1> QED BY <1>1, <1>3, <1>6, <1>9, TheNames

\* Other data types are undefined, but for BF16.
LEMMA OtherNames ==
  ASSUME NEW datatype, datatype \notin KnownDatatypes
  PROVE  /\ KFSPrecisionToOvmsPrecision(datatype) = "UNDEFINED"
         /\ FromKfsString(datatype) # "UNDEFINED" =>
              FromKfsString(datatype) = "BF16" /\ datatype = "BF16" /\ ToKfsString("BF16") = "BF16"
<1>1. \A q \in Inverted(PrecisionNames) : q[1] # datatype
  BY TheNames DEF Inverted
<1>2. KFSPrecisionToOvmsPrecision(datatype) = "UNDEFINED"
  BY <1>1 DEF KFSPrecisionToOvmsPrecision, Lookup
<1>3. ASSUME FromKfsString(datatype) # "UNDEFINED"
      PROVE  FromKfsString(datatype) = "BF16" /\ datatype = "BF16"
  <2>1. PICK all : all = Inverted(PrecisionNames) \cup {<<"BF16", "BF16">>}
    OBVIOUS
  <2>2. PICK q \in all : q[1] = datatype
    BY <1>3, <2>1 DEF FromKfsString, Lookup
  <2>3. datatype = "BF16"
    BY <1>1, <2>1, <2>2
  <2>4. \A r \in all : r[1] = datatype => r = <<"BF16", "BF16">>
    BY <1>1, <2>1
  <2>5. (CHOOSE r \in all : r[1] = datatype) = <<"BF16", "BF16">>
    BY <2>2, <2>4
  <2>6. Lookup(all, datatype, "UNDEFINED") = <<"BF16", "BF16">>[2]
    BY <2>2, <2>5, Zenon DEF Lookup
  <2> QED BY <2>1, <2>3, <2>6 DEF FromKfsString
<1>4. ToKfsString("BF16") = "BF16"
  <2>1. PICK all : all = PrecisionNames \cup {<<"BF16", "BF16">>}
    OBVIOUS
  <2>2. \A r \in all : r[1] = "BF16" => r = <<"BF16", "BF16">>
    BY <2>1, TheNames
  <2>3. (CHOOSE r \in all : r[1] = "BF16") = <<"BF16", "BF16">>
    BY <2>1, <2>2
  <2>4. \E r \in all : r[1] = "BF16"
    <3>1. <<"BF16", "BF16">> \in all /\ <<"BF16", "BF16">>[1] = "BF16"
      BY <2>1
    <3> QED BY <3>1
  <2>5. Lookup(all, "BF16", "UNKNOWN") = <<"BF16", "BF16">>[2]
    BY <2>3, <2>4, Zenon DEF Lookup
  <2> QED BY <2>1, <2>5 DEF ToKfsString
<1> QED BY <1>2, <1>3, <1>4

\* An image format has elements of the size of the data type.
LEMMA Formats ==
  ASSUME NEW datatype, NEW channels, KFSDatatypeToImageFormat(datatype, channels) # "UNKNOWN",
         ~(datatype = "FP32" /\ channels = 4)
  PROVE  KFSDataTypeSize(ConvertImageFormatToKFSDataType(KFSDatatypeToImageFormat(datatype, channels)))
           = KFSDataTypeSize(datatype)
<1>1. CASE datatype = "FP32"
  <2>1. KFSDatatypeToImageFormat(datatype, channels) = "VEC32F"
    BY <1>1 DEF KFSDatatypeToImageFormat
  <2> QED BY <1>1, <2>1 DEF ConvertImageFormatToKFSDataType
<1>2. CASE datatype \in {"UINT8", "INT8"}
  <2>1. KFSDatatypeToImageFormat(datatype, channels) = "8"
    BY <1>2 DEF KFSDatatypeToImageFormat
  <2>2. ConvertImageFormatToKFSDataType("8") = "UINT8"
    BY DEF ConvertImageFormatToKFSDataType
  <2> QED BY <1>2, <2>1, <2>2 DEF KFSDataTypeSize
<1>3. CASE datatype \in {"UINT16", "INT16", "FP16"}
  <2>1. KFSDatatypeToImageFormat(datatype, channels) = "16"
    BY <1>3 DEF KFSDatatypeToImageFormat
  <2>2. ConvertImageFormatToKFSDataType("16") = "UINT16"
    BY DEF ConvertImageFormatToKFSDataType
  <2> QED BY <1>3, <2>1, <2>2 DEF KFSDataTypeSize
<1>4. CASE datatype \notin {"FP32", "UINT8", "INT8", "UINT16", "INT16", "FP16"}
  BY <1>4 DEF KFSDatatypeToImageFormat
<1> QED BY <1>1, <1>2, <1>3, <1>4

\* What a packet holds.
LEMMA PacketMade ==
  ASSUME NEW kind, NEW shape, NEW size, NEW d, d = Packet(kind, shape, size)
  PROVE  d.status = "OK" /\ d.packet.kind = kind /\ d.packet.shape = shape /\ d.packet.size = size
BY DEF Packet

\* A tensor that goes through a graph unchanged comes back as it was, whatever
\* its data type, shape and size: deserializeTensor, receiveAndSerializePacket
\* and the converter between Python and OpenVINO tensors agree.
THEOREM EchoKept == Spec => []EchoKeepsTensor
<1>1. EchoKeepsTensor
  <2> SUFFICES ASSUME NEW type \in {"MPTENSOR", "TFTENSOR", "OVTENSOR", "OVMS_PY_TENSOR",
                                    "MEDIAPIPE_IMAGE"},
                      NEW t \in Echoed
               PROVE  LET d == DeserializeTensor(type, t)
                          back == SerializePacket(type, d.packet)
                          ov == ConvertToOVTensor(d.packet)
                      IN /\ (/\ d.status = "OK"
                             /\ t.size = DeclaredSize(t) \/ type = "OVMS_PY_TENSOR"
                             /\ ~(/\ type = "MEDIAPIPE_IMAGE" /\ t.datatype = "FP32"
                                  /\ t.shape[Len(t.shape)] = 4)) =>
                               /\ back.shape = t.shape /\ back.size = t.size
                               /\ KFSDataTypeSize(back.datatype) = KFSDataTypeSize(t.datatype)
                               /\ type = "MEDIAPIPE_IMAGE" \/ back.datatype = t.datatype
                         /\ (type = "OVMS_PY_TENSOR" /\ d.status = "OK" /\ ov.status = "OK") =>
                               /\ ConvertToPyTensor(ov.packet) = d
                               /\ t.datatype \in KnownDatatypes =>
                                    SerializePacket("OVTENSOR", ov.packet) = t
                         /\ (/\ type = "OVMS_PY_TENSOR" /\ d.status = "OK"
                             /\ t.datatype \in KnownDatatypes) => ov.status = "OK"
    BY Zenon DEF EchoKeepsTensor
  <2>6. t = [datatype |-> t.datatype, shape |-> t.shape, size |-> t.size]
    BY EchoedAssumption DEF Tensors
  <2>1. PICK d : d = DeserializeTensor(type, t)
    OBVIOUS
  <2>2. PICK back : back = SerializePacket(type, d.packet)
    OBVIOUS
  <2>3. PICK ov : ov = ConvertToOVTensor(d.packet)
    OBVIOUS
  <2>4. ASSUME d.status = "OK",
               \/ t.size = DeclaredSize(t) \/ type = "OVMS_PY_TENSOR",
               ~(type = "MEDIAPIPE_IMAGE" /\ t.datatype = "FP32" /\ t.shape[Len(t.shape)] = 4)
        PROVE  /\ back.shape = t.shape /\ back.size = t.size
               /\ KFSDataTypeSize(back.datatype) = KFSDataTypeSize(t.datatype)
               /\ type = "MEDIAPIPE_IMAGE" \/ back.datatype = t.datatype
    <3>1. CASE type = "MPTENSOR"
      <4>1. t.datatype \in MPPrecisions /\ d = Packet(t.datatype, t.shape, DeclaredSize(t))
        BY <2>1, <2>4, <3>1, PacketsHold DEF DeserializeTensor
      <4>2. d.packet.kind = t.datatype /\ d.packet.shape = t.shape /\ d.packet.size = DeclaredSize(t)
        BY <4>1, PacketMade
      <4>3. back = Tensor(t.datatype, d.packet)
        BY <2>2, <3>1, <4>1, <4>2 DEF SerializePacket, SerializeMPTensor, MPPrecisionToKFSPrecision
      <4> QED BY <2>4, <3>1, <4>2, <4>3 DEF Tensor
    <3>2. CASE type \in {"TFTENSOR", "OVMS_PY_TENSOR"}
      <4>1. d = Packet(t.datatype, t.shape, t.size)
        BY <2>1, <2>4, <3>2, PacketsHold DEF DeserializeTensor
      <4>2. d.packet.kind = t.datatype /\ d.packet.shape = t.shape /\ d.packet.size = t.size
        BY <4>1, PacketMade
      <4>3. back = Tensor(t.datatype, d.packet)
        BY <2>2, <3>2, <4>2 DEF SerializePacket, SerializeTFTensor, SerializePyTensor
      <4> QED BY <4>2, <4>3 DEF Tensor
    <3>3. CASE type = "OVTENSOR"
      <4>1. PICK precision : precision = KFSPrecisionToOvmsPrecision(t.datatype)
        OBVIOUS
      <4>2. precision # "UNDEFINED" /\ d = Packet(precision, t.shape, t.size)
        BY <2>1, <2>4, <3>3, <4>1, PacketsHold DEF DeserializeTensor
      <4>3. OvmsPrecisionToKFSPrecision(precision) = t.datatype
        BY <4>1, <4>2, Tables, OtherNames
      <4>4. d.packet.kind = precision /\ d.packet.shape = t.shape /\ d.packet.size = t.size
        BY <4>2, PacketMade
      <4>5. back = Tensor(t.datatype, d.packet)
        BY <2>2, <3>3, <4>3, <4>4 DEF SerializePacket, SerializeOVTensor
      <4> QED BY <4>4, <4>5 DEF Tensor
    <3>4. CASE type = "MEDIAPIPE_IMAGE"
      <4>1. PICK format : format = KFSDatatypeToImageFormat(t.datatype, t.shape[3])
        OBVIOUS
      <4>2. Len(t.shape) = 3 /\ format # "UNKNOWN" /\ d = Packet(format, t.shape, t.size)
        BY <2>1, <2>4, <3>4, <4>1, PacketsHold DEF DeserializeTensor
      <4>3. d.packet.kind = format /\ d.packet.shape = t.shape /\ d.packet.size = t.size
        BY <4>2, PacketMade
      <4>4. back = Tensor(ConvertImageFormatToKFSDataType(format), d.packet)
        BY <2>2, <3>4, <4>3 DEF SerializePacket, SerializeImageFrame
      <4>5. KFSDataTypeSize(ConvertImageFormatToKFSDataType(format)) = KFSDataTypeSize(t.datatype)
        BY <2>4, <3>4, <4>1, <4>2, Formats
      <4> QED BY <3>4, <4>3, <4>4, <4>5 DEF Tensor
    <3> QED BY <3>1, <3>2, <3>3, <3>4
  <2>5. ASSUME type = "OVMS_PY_TENSOR", d.status = "OK"
        PROVE  /\ ov.status = "OK" => ConvertToPyTensor(ov.packet) = d
               /\ t.datatype \in KnownDatatypes =>
                    ov.status = "OK" /\ SerializePacket("OVTENSOR", ov.packet) = t
    <3>1. /\ ~Negative(t.shape)
          /\ t.datatype \in KnownDatatypes => t.size = DeclaredSize(t)
          /\ d = Packet(t.datatype, t.shape, t.size)
      BY <2>1, <2>5, PacketsHold DEF DeserializeTensor
    <3>2. d.packet.kind = t.datatype /\ d.packet.shape = t.shape /\ d.packet.size = t.size
      BY <3>1, PacketMade
    <3>3. PICK precision : precision = FromKfsString(t.datatype)
      OBVIOUS
    <3>4. ov = IF \/ precision = "UNDEFINED" \/ Negative(t.shape)
                  \/ t.size # OVTensorSize(precision, t.shape)
               THEN NoPacket("INVALID_ARGUMENT") ELSE Packet(precision, t.shape, t.size)
      BY <2>3, <3>2, <3>3 DEF ConvertToOVTensor
    <3>5. NoPacket("INVALID_ARGUMENT").status # "OK"
      BY DEF NoPacket
    <3>6. ASSUME ov.status = "OK" PROVE ConvertToPyTensor(ov.packet) = d
      <4>1. precision # "UNDEFINED" /\ ov = Packet(precision, t.shape, t.size)
        BY <3>4, <3>5, <3>6
      <4>2. ov.packet.kind = precision /\ ov.packet.shape = t.shape /\ ov.packet.size = t.size
        BY <4>1, PacketMade
      <4>3. ToKfsString(precision) = t.datatype /\ t.datatype # "UNDEFINED"
        <5>1. CASE t.datatype \in KnownDatatypes
          BY <3>3, <5>1, Tables DEF KnownDatatypes
        <5>2. CASE t.datatype \notin KnownDatatypes
          BY <3>3, <4>1, <5>2, OtherNames
        <5> QED BY <5>1, <5>2
      <4> QED BY <3>1, <4>2, <4>3 DEF ConvertToPyTensor
    <3>7. ASSUME t.datatype \in KnownDatatypes
          PROVE  ov.status = "OK" /\ SerializePacket("OVTENSOR", ov.packet) = t
      <4>1. /\ OvmsPrecisionToKFSPrecision(precision) = t.datatype
            /\ precision # "UNDEFINED"
            /\ OVTensorSize(precision, t.shape) = Product(t.shape) * KFSDataTypeSize(t.datatype)
        BY <3>3, <3>7, Tables
      <4>2. t.size = OVTensorSize(precision, t.shape)
        BY <3>1, <3>7, <4>1 DEF DeclaredSize
      <4>3. ov = Packet(precision, t.shape, t.size)
        BY <3>1, <3>4, <4>1, <4>2
      <4>4. ov.packet.kind = precision /\ ov.packet.shape = t.shape /\ ov.packet.size = t.size
            /\ ov.status = "OK"
        BY <4>3, PacketMade
      <4>5. SerializePacket("OVTENSOR", ov.packet) = Tensor(t.datatype, ov.packet)
        BY <4>1, <4>4 DEF SerializePacket, SerializeOVTensor
      <4> QED BY <2>6, <4>4, <4>5 DEF Tensor
    <3> QED BY <3>6, <3>7
  <2> QED BY <2>1, <2>2, <2>3, <2>4, <2>5, Zenon
<1> QED BY <1>1, PTL

=============================================================================
