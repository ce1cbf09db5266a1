----------------------- MODULE MediapipeGraphDefinition -----------------------
(***************************************************************************)
(* A MediaPipe graph definition: MediapipeGraphDefinition and the part of   *)
(* MediapipeFactory and ModelManager that creates, reloads and retires it   *)
(* (src/mediapipe_internal/mediapipegraphdefinition.cpp,                    *)
(* mediapipefactory.cpp, mediapipegraphconfig.cpp), and the calls that make *)
(* an executor from it.                                                     *)
(*                                                                         *)
(* The graph file is edited at any time, but looked at only when the server *)
(* reads its configuration again.  A file is the name of a graph in Graph,  *)
(* "garbage" (not a graph) or "missing".  Paths in the configuration stay   *)
(* as they are unless the configuration says they moved.  The name is free: *)
(* ServableManager has the check that no other servable has it.             *)
(***************************************************************************)
EXTENDS Integers, FiniteSets, Sequences, PipelineDefinitionStatus, MediapipeTensors

CONSTANTS Calls,      \* inference calls to the graph
          Graph,      \* Graph[f]: the graph in file f
          MaxOps,     \* bound on the operations of the manager
          MaxEdits    \* bound on the edits of the file

ASSUME DefinitionAssumption ==
  /\ IsFiniteSet(Calls) /\ MaxOps \in Nat /\ MaxEdits \in Nat

\* The streams of a graph have a tag and a name.
ASSUME GraphAssumption ==
  \A f \in DOMAIN Graph : /\ Graph[f].inputs \in Seq([tag : STRING, name : STRING])
                          /\ Graph[f].outputs \in Seq([tag : STRING, name : STRING])

Files == DOMAIN Graph \cup {"garbage", "missing"}

VARIABLES
  file,       \* what the graph file holds
  edits,      \* how often it was edited
  defined,    \* the factory knows the definition
  status,     \* its state
  md5,        \* mgconfig.currentGraphPbTxtMD5: the file it was taken from, or ""
  config,     \* the graph: the file it was parsed from, or ""
  streams,    \* inputNames, inputTypes, ...: the file they were taken from, or ""
  nodes,      \* pythonNodeResourcesMap: the file it was made for, or ""
  handles,    \* requestsHandlesCounter
  step,       \* where the manager is
  ops,        \* its operations so far
  pc,         \* where each call is
  exec        \* exec[c]: what the executor of c was made of

managerVars == <<file, edits, defined, status, md5, config, streams, nodes, step, ops>>
definitionVars == <<managerVars, handles, pc, exec>>

NoExecutor == [config |-> "", streams |-> "", nodes |-> ""]

DefinitionInit ==
  /\ file \in Files
  /\ edits = 0
  /\ defined = FALSE
  /\ status = "BEGIN"
  /\ md5 = "" /\ config = "" /\ streams = "" /\ nodes = ""
  /\ handles = 0
  /\ step = "none"
  /\ ops = 0
  /\ pc = [c \in Calls |-> "new"]
  /\ exec = [c \in Calls |-> NoExecutor]

-----------------------------------------------------------------------------
(* What validate asks of a graph                                            *)

Repeated(ss) == \E i, j \in DOMAIN ss : i # j /\ ss[i].name = ss[j].name
Types(ss) == {PacketType(ss[i].tag) : i \in DOMAIN ss}

\* createInputsInfo, createOutputsInfo
StreamNamesStatus(g) ==
  CASE Repeated(g.inputs)  -> "MEDIAPIPE_WRONG_INPUT_STREAM_PACKET_NAME"
    [] Repeated(g.outputs) -> "MEDIAPIPE_WRONG_OUTPUT_STREAM_PACKET_NAME"
    [] OTHER -> "OK"

\* setStreamTypes
StreamTypesStatus(g) ==
  CASE g.inputs = <<>> \/ g.outputs = <<>> -> "INTERNAL_ERROR"
    [] "TFLITETENSOR" \in Types(g.inputs) \cup Types(g.outputs) -> "NOT_IMPLEMENTED"
    [] "KFS_REQUEST" \in Types(g.inputs) /\ "KFS_RESPONSE" \notin Types(g.outputs) ->
         "MEDIAPIPE_KFS_PASSTHROUGH_MISSING_OUTPUT_RESPONSE_TAG"
    [] "KFS_REQUEST" \notin Types(g.inputs) /\ "KFS_RESPONSE" \in Types(g.outputs) ->
         "MEDIAPIPE_KFS_PASSTHROUGH_MISSING_INPUT_REQUEST_TAG"
    [] "KFS_REQUEST" \in Types(g.inputs) /\ Len(g.outputs) # 1 ->
         "MEDIAPIPE_KFS_PASS_WRONG_OUTPUT_STREAM_COUNT"
    [] "KFS_REQUEST" \in Types(g.inputs) /\ Len(g.inputs) # 1 ->
         "MEDIAPIPE_KFS_PASS_WRONG_INPUT_STREAM_COUNT"
    [] OTHER -> "OK"

\* dryInitializeTest: MediaPipe knows the calculator of every node.
DryInitializeStatus(g) ==
  IF g.calculator \in {"PassThrough", "PythonExecutorCalculator"}
    THEN "OK" ELSE "MEDIAPIPE_GRAPH_INITIALIZATION_ERROR"

IsPython(g) == g.calculator = "PythonExecutorCalculator"

\* initializeNodes and createPythonNodeResources, the nodes of g being alike.
InitializeNodesStatus(g) ==
  CASE ~IsPython(g)         -> "OK"
    [] g.script = "none"    -> "PYTHON_NODE_MISSING_OPTIONS"
    [] g.script = "unnamed" -> "PYTHON_NODE_MISSING_NAME"
    [] g.script = "twice"   -> "PYTHON_NODE_NAME_ALREADY_EXISTS"
    [] g.script = "missing" -> "PYTHON_NODE_FILE_DOES_NOT_EXIST"
    [] g.script = "raises"  -> "PYTHON_NODE_FILE_STATE_INITIALIZATION_FAILED"
    [] OTHER -> "OK"

ValidGraph(f) ==
  /\ f \in DOMAIN Graph
  /\ StreamNamesStatus(Graph[f]) = "OK" /\ StreamTypesStatus(Graph[f]) = "OK"
  /\ DryInitializeStatus(Graph[f]) = "OK" /\ InitializeNodesStatus(Graph[f]) = "OK"

-----------------------------------------------------------------------------
(* The manager                                                              *)

EditFile(f) ==
  /\ edits < MaxEdits
  /\ f # file
  /\ file' = f
  /\ edits' = edits + 1
  /\ UNCHANGED <<defined, status, md5, config, streams, nodes, step, ops, handles, pc, exec>>

Operation == step = "none" /\ ops < MaxOps /\ ops' = ops + 1

\* createDefinition: a new object, validated before the factory knows it.
CreateDefinition ==
  /\ Operation
  /\ ~defined
  /\ status' = "BEGIN"
  /\ md5' = ""
  /\ step' = "clear"
  /\ UNCHANGED <<file, edits, defined, config, streams, nodes, handles, pc, exec>>

\* Mutant: the file is not looked at.
IsReloadRequiredOfConfig(moved) == moved \/ status = "RETIRED"

\* Without a digest the file is not looked at.
IsReloadRequired(moved) == moved \/ status = "RETIRED" \/ (md5 # "" /\ file # md5)

\* processMediapipeConfig for a definition that exists; reload blocks new
\* guards.
ReloadDefinition(moved) ==
  /\ Operation
  /\ defined
  /\ IF IsReloadRequired(moved)
       THEN /\ status' = After(status, "Reload")
            /\ step' = "drain"
       ELSE UNCHANGED <<status, step>>
  /\ UNCHANGED <<file, edits, defined, md5, config, streams, nodes, handles, pc, exec>>

\* retireOtherThan: the graph is not in the configuration any more.
Retire ==
  /\ Operation
  /\ defined
  /\ status # "RETIRED"
  /\ status' = After(status, "Retire")
  /\ UNCHANGED <<file, edits, defined, md5, config, streams, nodes, step, handles, pc, exec>>

\* Mutant: the executors that are being made are not waited for.
DrainUnchecked ==
  /\ step = "drain"
  /\ md5' = ""
  /\ step' = "clear"
  /\ UNCHANGED <<file, edits, defined, status, config, streams, nodes, ops, handles, pc, exec>>

\* The new MediapipeGraphConfig comes without a digest.
Drain ==
  /\ step = "drain"
  /\ handles = 0
  /\ md5' = ""
  /\ step' = "clear"
  /\ UNCHANGED <<file, edits, defined, status, config, streams, nodes, ops, handles, pc, exec>>

\* validate: the nodes of the previous graph go first.
ClearNodes ==
  /\ step = "clear"
  /\ nodes' = ""
  /\ step' = "read"
  /\ UNCHANGED <<file, edits, defined, status, md5, config, streams, ops, handles, pc, exec>>

\* validateForConfigFileExistence and validateForConfigLoadableness.
ReadGraphFile ==
  /\ step = "read"
  /\ IF file = "missing" THEN UNCHANGED <<md5, config>> /\ step' = "failed"
     ELSE /\ md5' = file
          /\ config' = file
          /\ step' = IF file \in DOMAIN Graph THEN "streams" ELSE "failed"
  /\ UNCHANGED <<file, edits, defined, status, streams, nodes, ops, handles, pc, exec>>

SetStreams ==
  /\ step = "streams"
  /\ streams' = config
  /\ step' = IF StreamNamesStatus(Graph[config]) = "OK" /\ StreamTypesStatus(Graph[config]) = "OK"
               THEN "initialize" ELSE "failed"
  /\ UNCHANGED <<file, edits, defined, status, md5, config, nodes, ops, handles, pc, exec>>

\* ~PythonResourcesCleaningGuard clears the nodes when one of them fails.
InitializeNodes ==
  /\ step = "initialize"
  /\ IF DryInitializeStatus(Graph[config]) = "OK" /\ InitializeNodesStatus(Graph[config]) = "OK"
       THEN nodes' = config /\ step' = "passed"
       ELSE nodes' = "" /\ step' = "failed"
  /\ UNCHANGED <<file, edits, defined, status, md5, config, streams, ops, handles, pc, exec>>

\* ~ValidationResultNotifier; createDefinition adds the definition, valid or
\* not.
NotifyResult ==
  /\ step \in {"passed", "failed"}
  /\ status' = After(status, IF step = "passed" THEN "ValidationPassed" ELSE "ValidationFailed")
  /\ defined' = TRUE
  /\ step' = "none"
  /\ UNCHANGED <<file, edits, md5, config, streams, nodes, ops, handles, pc, exec>>

ValidateStep ==
  Drain \/ ClearNodes \/ ReadGraphFile \/ SetStreams \/ InitializeNodes \/ NotifyResult

-----------------------------------------------------------------------------
(* A call: waitForLoaded and create                                         *)

Goto(c, l) == pc' = [pc EXCEPT ![c] = l]

\* MediapipeFactory::create: no definition of the name; or a guard is taken.
Arrive(c) ==
  /\ pc[c] = "new"
  /\ IF defined THEN handles' = handles + 1 /\ Goto(c, "check")
                ELSE UNCHANGED handles /\ Goto(c, "done")
  /\ UNCHANGED <<managerVars, exec>>

\* The state is looked at under the guard; after the last timestep ("last")
\* the call gives up.
CheckAvailable(c) ==
  /\ pc[c] \in {"check", "last"}
  /\ IF isAvailable(status) THEN UNCHANGED handles /\ Goto(c, "create")
     ELSE /\ handles' = handles - 1
          /\ Goto(c, IF pc[c] = "check" THEN "ended" ELSE "done")
  /\ UNCHANGED <<managerVars, exec>>

CanEndLoaded(c) ==
  /\ pc[c] = "ended"
  /\ Goto(c, IF isAvailable(status) \/ MayBecomeLoaded(status) THEN "wait" ELSE "done")
  /\ UNCHANGED <<managerVars, handles, exec>>

\* Woken up, or a timestep has passed; the last one is a Timeout.
Wake(c) ==
  /\ pc[c] = "wait"
  /\ handles' = handles + 1
  /\ Goto(c, "check")
  /\ UNCHANGED <<managerVars, exec>>

Timeout(c) ==
  /\ pc[c] = "wait"
  /\ handles' = handles + 1
  /\ Goto(c, "last")
  /\ UNCHANGED <<managerVars, exec>>

\* The executor copies the graph, the streams and the nodes; the guard goes.
CreateExecutor(c) ==
  /\ pc[c] = "create"
  /\ exec' = [exec EXCEPT ![c] = [config |-> config, streams |-> streams, nodes |-> nodes]]
  /\ handles' = handles - 1
  /\ Goto(c, "start")
  /\ UNCHANGED managerVars

CallWaits(c) == CheckAvailable(c) \/ CanEndLoaded(c) \/ Wake(c) \/ Timeout(c) \/ CreateExecutor(c)

ManagerNext ==
  \/ CreateDefinition \/ Retire \/ ValidateStep
  \/ \E moved \in BOOLEAN : ReloadDefinition(moved)
  \/ \E f \in Files : EditFile(f)

=============================================================================
