------------------------ MODULE MCPipelineExecution ------------------------
(* Small pipelines: two parallel models that share one infer request, a     *)
(* dynamic demultiplexer, nested demultiplexers, a gather in the middle,    *)
(* shards of different shapes, and definitions that must be refused.        *)
EXTENDS PipelineResults

Dims(s) == [i \in DOMAIN s |-> <<s[i], s[i]>>]
Tensor(shape) == [shape |-> shape, precision |-> "FP32", layout |-> UnspecifiedLayout]
Batched(shape) == [shape |-> shape, precision |-> "FP32", layout |-> <<"N", "etc">>]
D == AnyDimension

Entry(count) ==
    [name |-> "request", kind |-> "ENTRY", model |-> {}, auto |-> FALSE, library |-> TRUE,
     inputs |-> <<>>, outputs |-> <<>>, aliases |-> [img |-> "img"],
     demultiply |-> count, gather |-> {}]
Exit(gather) ==
    [name |-> "response", kind |-> "EXIT", model |-> {}, auto |-> FALSE, library |-> TRUE,
     inputs |-> <<>>, outputs |-> <<>>, aliases |-> <<>>, demultiply |-> {}, gather |-> gather]
DL(name, m, in, out, count, gather) ==
    [name |-> name, kind |-> "DL", model |-> {m}, auto |-> FALSE, library |-> TRUE,
     inputs |-> [x |-> in], outputs |-> [y |-> out], aliases |-> [o |-> "y"],
     demultiply |-> count, gather |-> gather]
Custom(name, in, out, count, gather) ==
    [DL(name, "none", in, out, count, gather) EXCEPT !.kind = "CUSTOM", !.model = {}]

From(d, alias, input) == [n \in {d} |-> {<<alias, input>>}]

Parallel ==
    [nodes |-> <<Entry({}), DL("a", "m", Batched(<<<<1, 2>>, <<1, 1>>>>), Tensor(Dims(<<1, 1>>)), {}, {}),
                 DL("b", "m", Batched(<<<<1, 1>>, D>>), Tensor(Dims(<<1, 1>>)), {}, {}), Exit({})>>,
     connections |-> [a |-> From("request", "img", "x"), b |-> From("request", "img", "x"),
                      response |-> From("a", "o", "p") @@ From("b", "o", "q")]]

\* A dynamic demultiplexer; the response also takes its output directly.
Dynamic(count, dim) ==
    [nodes |-> <<Entry({}), Custom("c", Tensor(Dims(<<1, 1>>)), Tensor(<<dim, <<1, 1>>, <<1, 1>>>>), {count}, {}),
                 DL("a", "m", Batched(Dims(<<1, 1>>)), Tensor(Dims(<<1, 1>>)), {}, {}), Exit({"c"})>>,
     connections |-> [c |-> From("request", "img", "x"), a |-> From("c", "o", "x"),
                      response |-> From("a", "o", "p") @@ From("c", "o", "q")]]

\* Demultiplexers inside each other, collapsed by the response.
Nested(outer, inner) ==
    [nodes |-> <<Entry({outer}), Custom("c", Tensor(Dims(<<1, 1>>)), Tensor(<<D, <<1, 1>>, <<1, 1>>>>), {inner}, {}),
                 Exit({"request", "c"})>>,
     connections |-> [c |-> From("request", "img", "x"), response |-> From("c", "o", "q")]]

\* The gather is a custom node; its input has the gathered dimension.
Middle ==
    [nodes |-> <<Entry({}), Custom("c", Tensor(Dims(<<1, 1>>)), Tensor(Dims(<<2, 1, 1>>)), {2}, {}),
                 DL("a", "m", Batched(Dims(<<1, 1>>)), Tensor(Dims(<<1, 1>>)), {}, {}),
                 Custom("k", Tensor(Dims(<<2, 1, 1>>)), Tensor(Dims(<<1, 1>>)), {}, {"c"}), Exit({})>>,
     connections |-> [c |-> From("request", "img", "x"), a |-> From("c", "o", "x"),
                      k |-> From("a", "o", "x"), response |-> From("k", "o", "p")]]

\* A custom node whose output may differ from shard to shard.
Uneven ==
    [nodes |-> <<Entry({2}), Custom("v", Tensor(Dims(<<1, 1>>)), Tensor(<<D, <<1, 1>>>>), {}, {}),
                 Exit({"request"})>>,
     connections |-> [v |-> From("request", "img", "x"), response |-> From("v", "o", "p")]]

Cyclic ==
    [Middle EXCEPT !.connections = [@ EXCEPT !.c = From("k", "o", "x")]]

Scenario(graph, clients, requests) ==
    [graph |-> graph, clients |-> clients, streams |-> 1,
     requests |-> {[img |-> d] : d \in requests}]

MCScenarios ==
    {Scenario(Parallel, {1, 2}, {<<1, 1>>, <<2, 1>>}),
     Scenario(Dynamic(-1, D), {1}, {<<1, 1>>}),
     Scenario(Dynamic(-1, <<0, 2>>), {1, 2}, {<<1, 1>>}),
     Scenario(Dynamic(2, D), {1}, {<<1, 1>>, <<1, 2>>}),
     Scenario(Nested(2, 3), {1}, {<<2, 1, 1>>, <<1, 1, 1>>}),
     Scenario(Nested(-1, -1), {1}, {<<2, 1, 1>>}),
     Scenario(Middle, {1}, {<<1, 1>>}),
     Scenario(Uneven, {1}, {<<2, 1, 1>>}),
     Scenario(Cyclic, {1}, {<<1, 1>>})}

\* Every way to connect the request, two custom nodes and the response, to
\* demultiply and to gather: what the walks over the graph accept is nested.
\* A node that takes nothing was refused before (every library has an input).
Small(dependencies, count, gather) ==
    LET node(n) == Custom(n, Tensor(<<D>>), Tensor(<<D>>), count[n], gather[n])
    IN [nodes |-> <<Entry(count["request"]), node("a"), node("b"), Exit(gather["response"])>>,
        connections |-> [n \in DOMAIN dependencies |-> [d \in dependencies[n] |-> {<<"o", "x">>}]]]

Accepted(graph) ==
    /\ ~SeveralDemultiplexersOneDynamic(graph)
    /\ ValidateForCycles(graph) = "OK"
    /\ ValidateDemultiplexerGatherNodesOrder(graph) = "OK"

ASSUME AcceptedIsOrdered ==
    \A a \in SUBSET {"request", "b"} \ {{}}, b \in SUBSET {"request", "a"} \ {{}},
       x \in SUBSET {"request", "a", "b"} \ {{}} :
    \A count \in [{"request", "a", "b"} -> {{}, {2}, {-1}}] :
        LET demultiplexers == {n \in DOMAIN count : count[n] # {}}
        IN \A gather \in [{"a", "b", "response"} -> SUBSET demultiplexers] :
               LET graph == Small([a |-> a, b |-> b, response |-> x], count, gather)
               IN Accepted(graph) => OrderEnsured(graph)
=============================================================================
