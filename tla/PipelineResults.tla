--------------------------- MODULE PipelineResults ---------------------------
(***************************************************************************)
(* What a pipeline request should compute, from the graph alone: node n     *)
(* applied to its inputs inside the demultiplexed context ctx               *)
(* (demultiplexer -> shard), and that PipelineExecution computes it.        *)
(***************************************************************************)
EXTENDS PipelineExecution

\* Demultiplexers of a gather from the outermost in: those above come first.
RECURSIVE Ancestors(_)
Ancestors(n) == Dependencies(g, n) \cup UNION {Ancestors(d) : d \in Dependencies(g, n)}

Nesting(gather) ==
    CHOOSE s \in SetToSeqs(gather) :
        \A i, j \in DOMAIN s : i < j => s[i] \in Ancestors(s[j])

\* All index vectors of an array with these sizes, in row-major order.
RowMajor(sizes) ==
    [k \in 1..Product(sizes) |->
        [i \in DOMAIN sizes |->
            ((k - 1) \div Product(SubSeq(sizes, i + 1, Len(sizes)))) % sizes[i]]]

RECURSIVE InputValue(_, _, _, _), OutputValue(_, _, _, _)

\* What node n receives on input x.
InputValue(q, n, x, ctx) ==
    LET f == CHOOSE h \in Feeds(g, n) : h[3] = x
        order == Nesting(NodeOf(g, n).gather)
        sizes == [i \in DOMAIN order |-> q.counts[order[i]]]
        inside(index) == [d \in DOMAIN ctx \cup Range(order) |->
                             IF d \in Range(order) THEN index[CHOOSE i \in DOMAIN order : order[i] = d]
                             ELSE ctx[d]]
    IN IF NodeOf(g, n).gather = {} THEN OutputValue(q, f[1], f[2], ctx)
       ELSE << <<"gather", "">>, sizes,
               [k \in 1..Product(sizes) |-> OutputValue(q, f[1], f[2], inside(RowMajor(sizes)[k]))] >>

\* What node n delivers under the name a: a shard of it when n demultiplexes.
OutputValue(q, n, a, ctx) ==
    LET info == NodeOf(g, n)
        outside == [d \in DOMAIN ctx \ {n} |-> ctx[d]]
        names == SetToSeq(DOMAIN info.inputs)
        whole == IF info.kind = "ENTRY" THEN << <<n, a>>, <<>>, <<>> >>
                 ELSE << <<n, info.aliases[a]>>, <<>>,
                         [i \in DOMAIN names |-> InputValue(q, n, names[i], outside)] >>
    IN IF info.demultiply = {} THEN whole ELSE << <<"shard", "">>, <<ctx[n]>>, <<whole>> >>

-----------------------------------------------------------------------------
\* A request that ends with OK has been answered, and every output of the
\* response is what the graph says: the right computations on the right
\* shards, gathered in row-major order (Node::setInputs, getShardId,
\* GatherNodeInputHandler), whatever the order in which sessions finished.
ResponseCorrect ==
    \A r \in DOMAIN req : Succeeded(req[r]) =>
        /\ DOMAIN req[r].response = {f[3] : f \in Feeds(g, ExitName(g))}
        /\ \A x \in DOMAIN req[r].response :
              req[r].response[x].val = InputValue(req[r], ExitName(g), x, <<>>)
=============================================================================
