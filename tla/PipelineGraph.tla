---------------------------- MODULE PipelineGraph ----------------------------
(***************************************************************************)
(* The graph of a pipeline definition: its validation and the metadata that *)
(* is derived from it (src/src/dags/pipelinedefinition.cpp).                *)
(*                                                                         *)
(* A graph is [nodes, connections]: nodes is a sequence of NodeInfo records *)
(* [name, kind, model, auto, library, inputs, outputs, aliases, demultiply, *)
(*  gather].  inputs and outputs map tensor names to tensor infos (of the   *)
(* model or reported by the library), aliases maps the names other nodes    *)
(* use to output names, demultiply is {} or {count} (count -1 is dynamic),  *)
(* gather the set of gatherFromNode.  model is {} when the model cannot be  *)
(* obtained; library tells whether the custom node's library is valid.      *)
(* connections[n][d] is the set of <<alias, input>> that node n takes from  *)
(* its dependency d; a node without dependencies has no entry.              *)
(***************************************************************************)
EXTENDS Shapes, SequencesExt, FiniteSetsExt

Infos(g) == Range(g.nodes)
NodeNames(g) == {i.name : i \in Infos(g)}

\* findNodeByName.
NodeOf(g, name) == CHOOSE i \in Infos(g) : i.name = name

Dependencies(g, name) ==
    IF name \in DOMAIN g.connections THEN DOMAIN g.connections[name] ELSE {}

Computes(info) == info.kind \in {"DL", "CUSTOM"}

NodesOfKind(g, kind) == {i \in DOMAIN g.nodes : g.nodes[i].kind = kind}

Demultiplexers(g) == {i \in DOMAIN g.nodes : g.nodes[i].demultiply # {}}

\* A dynamic demultiplexer must be the only one.
SeveralDemultiplexersOneDynamic(g) ==
    /\ \E i \in Demultiplexers(g) : g.nodes[i].demultiply = {-1}
    /\ Cardinality(Demultiplexers(g)) > 1

-----------------------------------------------------------------------------
(* NodeValidator *)

\* validateShapeWithDemultiplexer: the first dimension is cut into shards.
ShapeDemultiplies(shape, info) ==
    \A count \in info.demultiply :
        /\ Len(shape) >= 3
        /\ count # -1 => PartiallyFitsInto(shape[1], <<count, count>>)

\* influenceShapeWithDemultiplexer, after the check above.
Shard(shape, info) == IF info.demultiply = {} THEN shape ELSE Tail(shape)

AreShapesMatching(input, output) ==
    /\ Len(input) = Len(output)
    /\ \A i \in DOMAIN input : PartiallyFitsInto(input[i], output[i])

GatherStatus(g, info) ==
    CASE \E n \in info.gather : n \notin NodeNames(g) ->
            "PIPELINE_NODE_GATHER_FROM_NOT_EXISTING_NODE"
      [] \E n \in info.gather : \E i \in Infos(g) : i.name = n /\ i.demultiply = {} ->
            "PIPELINE_NODE_GATHER_FROM_NOT_DEMULTIPLEXER"
      [] OTHER -> "OK"

\* checkConnectionMetadataCorrectness between two computing nodes.
MetadataStatus(g, info, dep, pair) ==
    LET input == info.inputs[pair[2]]
        output == dep.outputs[dep.aliases[pair[1]]]
        gatherFrom == NodeOf(g, CHOOSE n \in info.gather : TRUE)
        gathered == IF info.gather = {} THEN input.shape ELSE Shard(input.shape, gatherFrom)
    IN CASE ~ShapeDemultiplies(output.shape, dep) -> "PIPELINE_NOT_ENOUGH_SHAPE_DIMENSIONS_TO_DEMULTIPLY"
         [] Cardinality(info.gather) > 1 -> "PIPELINE_MANUAL_GATHERING_FROM_MULTIPLE_NODES_NOT_SUPPORTED"
         [] info.gather # {} /\ ~ShapeDemultiplies(input.shape, gatherFrom) ->
                "PIPELINE_DEMULTIPLY_COUNT_DOES_NOT_MATCH_TENSOR_SHARD_COUNT"
         [] ~AreShapesMatching(gathered, Shard(output.shape, dep)) -> "INVALID_SHAPE"
         [] input.precision # output.precision -> "INVALID_PRECISION"
         [] OTHER -> "OK"

\* validateConnection of one pair; the inputs already fed are counted by NodeStatus.
PairStatus(g, info, dep, pair) ==
    IF Computes(info) /\ pair[2] \notin DOMAIN info.inputs
    THEN "PIPELINE_CONNECTION_TO_MISSING_MODEL_INPUT"
    ELSE IF pair[1] \notin DOMAIN dep.aliases
    THEN "PIPELINE_NODE_REFERING_TO_MISSING_DATA_SOURCE"
    ELSE IF Computes(dep) /\ dep.aliases[pair[1]] \notin DOMAIN dep.outputs
    THEN "PIPELINE_NODE_REFERING_TO_MISSING_MODEL_OUTPUT"
    ELSE IF Computes(info) /\ Computes(dep) THEN MetadataStatus(g, info, dep, pair)
    ELSE "OK"

\* A model node whose model is missing or not available.
MissesModel(info) == info.kind = "DL" /\ info.model = {}

HasForbiddenDynamicParameters(info) == info.kind = "DL" /\ info.auto

\* getDependencyNodeInfo
DependencyNodeStatus(g, name) ==
    IF name \notin NodeNames(g) THEN "PIPELINE_NODE_REFERING_TO_MISSING_NODE"
    ELSE IF NodeOf(g, name).kind = "EXIT" THEN "PIPELINE_EXIT_USED_AS_NODE_DEPENDENCY"
    ELSE "OK"

\* validateConnection for one dependency.
DependencyStatus(g, info, name) ==
    LET dep == NodeOf(g, name)
        pairs == g.connections[info.name][name]
        wrong == {p \in pairs : PairStatus(g, info, dep, p) # "OK"}
    IN IF pairs = {} THEN "UNKNOWN_ERROR"
       ELSE IF DependencyNodeStatus(g, name) # "OK" THEN DependencyNodeStatus(g, name)
       ELSE IF MissesModel(dep) THEN "PIPELINE_NODE_REFERING_TO_MISSING_MODEL"
       ELSE IF wrong # {} THEN PairStatus(g, info, dep, CHOOSE p \in wrong : TRUE)
       ELSE "OK"

\* The <<dependency, alias, input>> triples that feed a node.
Feeds(g, name) ==
    UNION {{<<d, p[1], p[2]>> : p \in g.connections[name][d]} : d \in Dependencies(g, name)}

\* NodeValidator::validate.
NodeStatus(g, info) ==
    LET wrong == {d \in Dependencies(g, info.name) : DependencyStatus(g, info, d) # "OK"}
        fed(x) == {f \in Feeds(g, info.name) : f[3] = x}
    IN IF MissesModel(info) THEN "PIPELINE_NODE_REFERING_TO_MISSING_MODEL"
       ELSE IF HasForbiddenDynamicParameters(info) THEN "FORBIDDEN_MODEL_DYNAMIC_PARAMETER"
       ELSE IF info.kind = "CUSTOM" /\ ~info.library THEN "PIPELINE_DEFINITION_INVALID_NODE_LIBRARY"
       ELSE IF Computes(info) /\ \E o \in DOMAIN info.outputs : ~ShapeDemultiplies(info.outputs[o].shape, info)
            THEN "PIPELINE_NOT_ENOUGH_SHAPE_DIMENSIONS_TO_DEMULTIPLY"
       ELSE IF GatherStatus(g, info) # "OK" THEN GatherStatus(g, info)
       ELSE IF wrong # {} THEN DependencyStatus(g, info, CHOOSE d \in wrong : TRUE)
       ELSE IF Computes(info) /\ \E x \in DOMAIN info.inputs : Cardinality(fed(x)) > 1
            THEN "PIPELINE_MODEL_INPUT_CONNECTED_TO_MULTIPLE_DATA_SOURCES"
       ELSE IF Computes(info) /\ \E x \in DOMAIN info.inputs : fed(x) = {}
            THEN "PIPELINE_NOT_ALL_INPUTS_CONNECTED"
       ELSE "OK"

ValidateNodes(g) ==
    LET duplicate == \E i, j \in DOMAIN g.nodes : i # j /\ g.nodes[i].name = g.nodes[j].name
        wrong == {i \in DOMAIN g.nodes : NodeStatus(g, g.nodes[i]) # "OK"}
    IN IF NodesOfKind(g, "ENTRY") = {} \/ NodesOfKind(g, "EXIT") = {}
            THEN "PIPELINE_MISSING_ENTRY_OR_EXIT"
       ELSE IF Cardinality(NodesOfKind(g, "ENTRY")) > 1 THEN "PIPELINE_MULTIPLE_ENTRY_NODES"
       ELSE IF Cardinality(NodesOfKind(g, "EXIT")) > 1 THEN "PIPELINE_MULTIPLE_EXIT_NODES"
       ELSE IF SeveralDemultiplexersOneDynamic(g) THEN "NOT_IMPLEMENTED"
       ELSE IF duplicate THEN "PIPELINE_NODE_NAME_DUPLICATE"
       ELSE IF wrong # {} THEN NodeStatus(g, g.nodes[Min(wrong)])
       ELSE "OK"

-----------------------------------------------------------------------------
(* Cycles: an iterative depth-first search from the exit along the          *)
(* dependencies.  The path is parentNodes with nodeName on top.             *)

Search(g, exit) ==
    LET search[nodeName \in NodeNames(g), parents \in Seq(NodeNames(g)),
               visited \in SUBSET NodeNames(g)] ==
            LET connected == Dependencies(g, nodeName)
                fresh == connected \ visited
                next == CHOOSE n \in fresh : TRUE
            IN CASE nodeName \in connected \/ connected \cap Range(parents) # {} ->
                        "PIPELINE_CYCLE_FOUND"
                 [] fresh # {} -> search[next, Append(parents, nodeName), visited \cup {next}]
                 [] parents # <<>> -> search[Last(parents), Front(parents), visited]
                 [] visited # NodeNames(g) -> "PIPELINE_CONTAINS_UNCONNECTED_NODES"
                 [] OTHER -> "OK"
    IN search[exit, <<>>, {exit}]

EntryName(g) == g.nodes[CHOOSE i \in NodesOfKind(g, "ENTRY") : TRUE].name
ExitName(g) == g.nodes[CHOOSE i \in NodesOfKind(g, "EXIT") : TRUE].name

ValidateForCycles(g) == Search(g, ExitName(g))

\* The stack of gathers still open above node n, seen from a dependant whose
\* own stack is given: a demultiplexer closes its name in the top set, a
\* gather opens a set.  The result is <<>> when the demultiplexer does not fit.
OpenGathers(info, stack) ==
    LET top == Last(stack) \ {info.name}
        closed == IF info.demultiply = {} THEN stack
                  ELSE IF top = {} THEN Front(stack) ELSE Append(Front(stack), top)
    IN IF info.demultiply # {} /\ (stack = <<>> \/ info.name \notin Last(stack)) THEN <<>>
       ELSE << IF info.gather = {} THEN closed ELSE Append(closed, info.gather) >>

\* validateDemultiplexerGatherNodesOrder: the work list and the visited map.
\* visited[n] is <<>> for a node not seen yet and <<its stack>> afterwards.
CheckOrder(g, exit, exitStack) ==
    LET stacks == Seq(SUBSET NodeNames(g))
        check[toCheck \in SUBSET (NodeNames(g) \X stacks), visited \in [NodeNames(g) -> Seq(stacks)]] ==
            LET work == CHOOSE w \in toCheck : TRUE
                found == {<<d, OpenGathers(NodeOf(g, d), work[2])>> : d \in Dependencies(g, work[1])}
                fresh == {f \in found : visited[f[1]] = <<>>}
            IN \/ toCheck = {}
               \/ /\ \A f \in found :
                        /\ f[2] # <<>>
                        /\ NodeOf(g, f[1]).kind = "ENTRY" => f[2] = << <<>> >>
                        /\ visited[f[1]] \in {<<>>, f[2]}
                  /\ check[(toCheck \ {work}) \cup {<<f[1], f[2][1]>> : f \in fresh},
                           [n \in NodeNames(g) |->
                               IF visited[n] = <<>> /\ \E f \in fresh : f[1] = n
                               THEN (CHOOSE f \in fresh : f[1] = n)[2] ELSE visited[n]]]
    IN check[{<<exit, exitStack>>}, [n \in NodeNames(g) |-> <<>>]]

ValidateDemultiplexerGatherNodesOrder(g) ==
    LET gather == NodeOf(g, ExitName(g)).gather
    IN IF CheckOrder(g, ExitName(g), IF gather = {} THEN <<>> ELSE <<gather>>) THEN "OK"
       ELSE "PIPELINE_WRONG_DEMULTIPLEXER_GATHER_NODES_ORDER"

-----------------------------------------------------------------------------
(* Metadata *)

\* getNodeGatherShape walks up the first dependencies; the entry node has an
\* (empty) entry in connections since validateForCycles looked it up.
GatherDimension(info) ==
    LET count == CHOOSE c \in info.demultiply : TRUE
    IN IF count > 0 THEN <<count, count>>
       ELSE IF info.kind = "CUSTOM" THEN info.outputs[CHOOSE o \in DOMAIN info.outputs : TRUE].shape[1]
       ELSE AnyDimension

GatherPath(g, gather, name) ==
    LET path[n \in NodeNames(g)] ==
            (IF n \in gather THEN <<GatherDimension(NodeOf(g, n))>> ELSE <<>>)
            \o IF Dependencies(g, n) = {} THEN <<>>
               ELSE path[CHOOSE d \in Dependencies(g, n) : TRUE]
    IN path[name]

NodeGatherShapeUpwards(g, info) ==
    IF info.gather = {} THEN <<>> ELSE GatherPath(g, info.gather, info.name)

NodeGatherShape(g, info) ==
    IF info.gather = {} THEN <<>> ELSE Reverse(GatherPath(g, info.gather, info.name))

\* updateInputsInfoWithNodeConnection.
MergeTensorInfo(infos, new) ==
    UNION {IF i = new THEN {new} ELSE TensorInfoIntersection(i, new) : i \in infos}

\* What the consumers of a request tensor expect of it.
Expectations(g, alias) ==
    UNION {{IF NodeOf(g, n).kind = "EXIT" THEN UnspecifiedTensorInfo ELSE NodeOf(g, n).inputs[f[3]] :
               f \in {h \in Feeds(g, n) : h[1] = EntryName(g) /\ h[2] = alias}} :
           n \in NodeNames(g)}

RequestTensors(g) ==
    {f[2] : f \in {h \in UNION {Feeds(g, k) : k \in NodeNames(g)} : h[1] = EntryName(g)}}

\* updateInputsInfo: [alias |-> at most one info].
InputsInfo(g) ==
    LET prefixed(infos) ==
            {IF NodeOf(g, EntryName(g)).demultiply = {} THEN i
             ELSE WithDemultiplexerPrefix(i, GatherDimension(NodeOf(g, EntryName(g)))) : i \in infos}
    IN [a \in RequestTensors(g) |->
          prefixed(FoldSet(LAMBDA e, acc : MergeTensorInfo(acc, e), {UnspecifiedTensorInfo},
                           Expectations(g, a)))]

\* createOutputTensorInfoForPipeline: the gathered dimensions come first.
PipelineOutputInfo(info, gatherShape, fromDemultiplexer) ==
    IF gatherShape = <<>> THEN info
    ELSE [shape |-> gatherShape \o (IF fromDemultiplexer THEN Tail(info.shape) ELSE info.shape),
          precision |-> info.precision, layout |-> UnspecifiedLayout]

\* updateOutputsInfo, with the two populateOutputsInfo functions.
OutputsInfo(g) ==
    LET exit == NodeOf(g, ExitName(g))
        source(x) == CHOOSE f \in Feeds(g, exit.name) : f[3] = x
        info(f) == IF f[1] = EntryName(g) THEN UnspecifiedTensorInfo
                   ELSE LET dep == NodeOf(g, f[1])
                        IN PipelineOutputInfo(dep.outputs[dep.aliases[f[2]]],
                                              NodeGatherShape(g, exit), dep.demultiply # {})
    IN [x \in {f[3] : f \in Feeds(g, exit.name)} |-> info(source(x))]

\* PipelineDefinition::validate, without the names and the node resources.
Validate(g) ==
    IF ValidateNodes(g) # "OK" THEN ValidateNodes(g)
    ELSE IF ValidateForCycles(g) # "OK" THEN ValidateForCycles(g)
    ELSE IF ValidateDemultiplexerGatherNodesOrder(g) # "OK"
         THEN ValidateDemultiplexerGatherNodesOrder(g)
    ELSE IF \E a \in RequestTensors(g) : InputsInfo(g)[a] = {}
         THEN "PIPELINE_INPUTS_AMBIGUOUS_METADATA"
    ELSE "OK"

-----------------------------------------------------------------------------
(* What the execution relies on in a graph that validates.  inside[n] are   *)
(* the demultiplexers around the results that are fed to node n, outermost  *)
(* first; n gathers the innermost of them.                                  *)

\* What parsing a definition gives: a node has one demultiply count or none,
\* the request takes nothing from another node, and whatever computes has an
\* input (createTensorInfoMap refuses a library without one; a model without
\* one, whose node nothing would ever start, is left out).
IsGraph(g) ==
    /\ Len(g.nodes) \in Nat /\ DOMAIN g.nodes = 1..Len(g.nodes)
    /\ \A i \in DOMAIN g.nodes :
          /\ \A c \in g.nodes[i].demultiply : c \in Int /\ g.nodes[i].demultiply = {c}
          /\ g.nodes[i].kind \in {"ENTRY", "EXIT", "DL", "CUSTOM"}
          /\ g.nodes[i].kind = "ENTRY" => Dependencies(g, g.nodes[i].name) = {}
          /\ Computes(g.nodes[i]) => DOMAIN g.nodes[i].inputs # {}

\* The demultiplexers around a session of node n.
Context(g, inside, n) ==
    SubSeq(inside[n], 1, Len(inside[n]) - Cardinality(NodeOf(g, n).gather))

\* The demultiplexers around the results of node n.
ResultLevels(g, inside, n) ==
    IF NodeOf(g, n).demultiply = {} THEN Context(g, inside, n)
    ELSE Append(Context(g, inside, n), n)

\* All the results fed to a node are inside of the same demultiplexers, all
\* of which are gathered before the response; a dynamic one is in no other.
LevelsNested(g, inside) ==
    /\ inside[EntryName(g)] = <<>>
    /\ \A n \in NodeNames(g) :
          /\ Cardinality(NodeOf(g, n).gather) \in 0..Len(inside[n])
          /\ \A d \in Dependencies(g, n) : inside[n] = ResultLevels(g, inside, d)
          /\ \/ Computes(NodeOf(g, n)) /\ NodeOf(g, n).demultiply # {-1}
             \/ Context(g, inside, n) = <<>>

\* The levels a graph can have.
Levels(g) ==
    LET names == {g.nodes[i].name : i \in Demultiplexers(g)}
    IN [NodeNames(g) -> UNION {[1..k -> names] : k \in 0..Cardinality(names)}]

\* Nothing is computed from itself.
Ranked(g, rank) == \A n \in NodeNames(g) : \A d \in Dependencies(g, n) : rank[d] < rank[n]

\* What the walks over the graph (validateForCycles, which also finds nodes
\* that feed nothing, and validateDemultiplexerGatherNodesOrder) ensure.
OrderEnsured(g) ==
    /\ \A n \in NodeNames(g) :
          NodeOf(g, n).demultiply # {} => \E m \in NodeNames(g) : n \in Dependencies(g, m)
    /\ \E rank \in [NodeNames(g) -> 0..Cardinality(NodeNames(g))] : Ranked(g, rank)
    /\ \E inside \in Levels(g) : LevelsNested(g, inside)
=============================================================================
