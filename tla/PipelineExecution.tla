-------------------------- MODULE PipelineExecution --------------------------
(***************************************************************************)
(* Execution of a pipeline request (src/src/dags/pipeline.cpp, the nodes    *)
(* and their sessions).  Every request has a thread that runs               *)
(* Pipeline::execute: it pulls "node session finished" messages, feeds the  *)
(* results to the next nodes, starts the sessions that became ready and     *)
(* retries the ones that are deferred because their model had no idle       *)
(* infer request.  Inference is asynchronous: its callback pushes into the  *)
(* request's queue.  Requests share the infer requests (streams) of the     *)
(* models; pool[m] is the abstraction of OVInferRequestsQueue that          *)
(* InferRequestsQueue.tla shows it to implement, with the sessions waiting  *)
(* on a future, holding a set but not yet taken future, or a stream.        *)
(*                                                                         *)
(* A session of node n is <<r, n, key>>.  The metadata of a session is the  *)
(* sequence of the demultiplexers it is inside of: <<name, id, size>>,      *)
(* outermost first; its key drops the sizes.  A tensor is [dims, val]: the  *)
(* value is a term <<operator, numbers, arguments>> so that equal terms are *)
(* equal contents.                                                          *)
(***************************************************************************)
EXTENDS PipelineGraph

CONSTANTS Scenarios,         \* records [graph, clients, streams, requests]
          Counts,            \* first dimensions a computation may produce
          DEMULTIPLY_LIMIT,
          MaxFailures        \* bound on injected failures

VARIABLES definition,  \* [graph, status, inputsInfo, outputsInfo]
          pool,        \* per model: [free, waiting, granted, held]
          req,         \* per request: the locals of Pipeline::execute
          sessions,    \* per request: the nodeSessions of its nodes
          failures     \* failures injected so far

Clients == UNION {s.clients : s \in Scenarios}

\* What a node takes from another has a known rank, and lengths that are
\* natural numbers.
HasLengths(s) ==
    \A n \in NodeNames(s.graph) : \A d \in Dependencies(s.graph, n) :
        \A p \in s.graph.connections[n][d] :
            LET info == NodeOf(s.graph, d)
            IN IF info.kind = "ENTRY"
               THEN \A dims \in s.requests : p[1] \in DOMAIN dims /\ dims[p[1]] \in Seq(Nat)
               ELSE info.outputs[info.aliases[p[1]]].shape \in Seq(Dimension)

ASSUME ScenariosAssumption ==
    /\ Counts \subseteq Nat
    /\ \A s \in Scenarios :
          /\ IsGraph(s.graph)
          /\ Validate(s.graph) = "OK" => OrderEnsured(s.graph) /\ HasLengths(s)

vars == <<definition, pool, req, sessions, failures>>

g == definition.graph
Models(graph) == UNION {i.model : i \in Infos(graph)}
ModelOf(n) == CHOOSE m \in NodeOf(g, n).model : TRUE

Idle == [pc |-> "idle", status |-> "OK", queue |-> <<>>, started |-> {}, finished |-> {},
         deferred |-> <<>>, tmp |-> <<>>, todo |-> {}, last |-> "", left |-> <<>>,
         kept |-> <<>>, counts |-> <<>>, request |-> <<>>, response |-> <<>>]

Init ==
    \E s \in Scenarios :
        /\ definition = LET v == Validate(s.graph)
                        IN [graph |-> s.graph, status |-> v,
                            inputsInfo |-> IF v = "OK" THEN InputsInfo(s.graph) ELSE <<>>,
                            outputsInfo |-> IF v = "OK" THEN OutputsInfo(s.graph) ELSE <<>>]
        /\ pool = [m \in Models(s.graph) |->
                      [free |-> s.streams, waiting |-> <<>>, granted |-> {}, held |-> {}]]
        /\ req = [r \in s.clients |-> Idle]
        /\ sessions = [r \in s.clients |-> <<>>]
        /\ failures = 0

-----------------------------------------------------------------------------
(* Session metadata (nodesessionmetadata.cpp) *)

Key(meta) == [i \in DOMAIN meta |-> <<meta[i][1], meta[i][2]>>]

GenerateSubsessions(meta, name, size) ==
    {Append(meta, <<name, id, size>>) : id \in 0..(size - 1)}

\* The levels a gather collapses are the innermost ones (LIFO).
Collapsible(meta, gather) ==
    /\ Cardinality(gather) <= Len(meta)
    /\ {meta[i][1] : i \in (Len(meta) - Cardinality(gather) + 1)..Len(meta)} = gather

CollapsedMetadata(meta, gather) == SubSeq(meta, 1, Len(meta) - Cardinality(gather))
CollapsedLevels(meta, gather) ==
    SubSeq(meta, Len(meta) - Cardinality(gather) + 1, Len(meta))

CollapsedSizes(levels) == [i \in DOMAIN levels |-> levels[i][3]]
Product(sizes) ==
    LET product[i \in 0..Len(sizes)] == IF i = 0 THEN 1 ELSE sizes[i] * product[i - 1]
    IN product[Len(sizes)]

ShardIdOutwards(levels) ==
    MapThenSumSet(LAMBDA i : levels[i][2] * Product(CollapsedSizes(SubSeq(levels, 1, i - 1))),
                  DOMAIN levels)

\* getShardId: the innermost level varies fastest.
ShardId(levels) ==
    MapThenSumSet(LAMBDA i : levels[i][2] * Product(CollapsedSizes(SubSeq(levels, i + 1, Len(levels)))),
                  DOMAIN levels)

-----------------------------------------------------------------------------
(* Feeding (node.cpp, nodeinputhandler.cpp, gathernodeinputhandler.cpp) *)

NewSession(n, meta, levels) ==
    [meta |-> meta, levels |-> levels, inputs |-> <<>>, shards |-> <<>>, used |-> FALSE,
     remaining |-> Cardinality(Dependencies(g, n)) * Product(CollapsedSizes(levels)),
     run |-> "new", count |-> 0]

Put(f, k, v) == [x \in DOMAIN f \cup {k} |-> IF x = k THEN v ELSE f[x]]

Uninitialized == [dims |-> <<>>, val |-> << <<"uninitialized", "">>, <<>>, <<>> >>]

\* The shards of one input, in their place in memory.
Consolidated(shards, levels) ==
    LET sizes == CollapsedSizes(levels)
    IN [dims |-> sizes \o shards[0].dims,
        val |-> << <<"gather", "">>, sizes,
                   [i \in 1..Product(sizes) |->
                       IF i - 1 \in DOMAIN shards THEN shards[i - 1].val ELSE Uninitialized.val] >>]

\* notifyFinishedDependency: the last one consolidates the shards.
NotifyFinishedDependency(s) ==
    LET last == s.levels # <<>> /\ s.remaining = 1
        uneven == \E x \in DOMAIN s.shards : \E i \in DOMAIN s.shards[x] :
                      s.shards[x][i].dims # s.shards[x][0].dims
    IN <<IF last /\ uneven THEN "PIPELINE_INCONSISTENT_SHARD_DIMENSIONS" ELSE "OK",
         [s EXCEPT !.remaining = @ - 1,
                   !.inputs = IF last /\ ~uneven
                              THEN [x \in DOMAIN s.shards |-> Consolidated(s.shards[x], s.levels)]
                              ELSE @]>>

\* NodeInputHandler::setInput of all that one dependency feeds.
NamedTwice(pairs) == \E p, q \in pairs : p # q /\ p[2] = q[2]
SetInputStatus(s, pairs) ==
    IF NamedTwice(pairs) \/ \E p \in pairs : p[2] \in DOMAIN s.inputs
    THEN "PIPELINE_TRIED_TO_SET_THE_SAME_INPUT_TWICE" ELSE "OK"
SetInput(s, fed) ==
    [s EXCEPT !.inputs = [x \in DOMAIN @ \cup DOMAIN fed |->
                             IF x \in DOMAIN fed THEN fed[x] ELSE @[x]]]

\* GatherNodeInputHandler::setInput.
ShardsOf(s, x) == IF x \in DOMAIN s.shards THEN s.shards[x] ELSE <<>>
SetShardStatus(s, pairs, shardId) ==
    IF NamedTwice(pairs) \/ \E p \in pairs : shardId \in DOMAIN ShardsOf(s, p[2])
    THEN "INTERNAL_ERROR" ELSE "OK"
SetShard(s, fed, shardId) ==
    [s EXCEPT !.shards = [x \in DOMAIN @ \cup DOMAIN fed |->
                             IF x \in DOMAIN fed THEN Put(ShardsOf(s, x), shardId, fed[x]) ELSE @[x]]]

\* Node::setInputs for one result; acc is <<status, the request's sessions>>.
SetInputs(n, d, meta, tensors, acc) ==
    LET gather == NodeOf(g, n).gather
        levels == CollapsedLevels(meta, gather)
        newMeta == CollapsedMetadata(meta, gather)
        id == <<n, Key(newMeta)>>
        s == IF id \in DOMAIN acc[2] THEN acc[2][id] ELSE NewSession(n, newMeta, levels)
        pairs == g.connections[n][d]
        fed == [x \in {p[2] : p \in pairs} |-> tensors[(CHOOSE p \in pairs : p[2] = x)[1]]]
        status == IF levels = <<>> THEN SetInputStatus(s, pairs)
                                   ELSE SetShardStatus(s, pairs, ShardId(levels))
        set == IF levels = <<>> THEN SetInput(s, fed) ELSE SetShard(s, fed, ShardId(levels))
        notified == NotifyFinishedDependency(set)
    IN IF acc[1] # "OK" THEN acc
       ELSE IF ~Collapsible(meta, gather) THEN <<"INTERNAL_ERROR", acc[2]>>
       ELSE IF status # "OK" THEN <<status, acc[2]>>
       ELSE <<notified[1], Put(acc[2], id, notified[2])>>

NextNodes(n) == {m \in NodeNames(g) : n \in Dependencies(g, m)}

\* Every result of the finished session goes to every next node.
Feed(n, results, sess) ==
    FoldSet(LAMBDA w, acc :
                CHOOSE fed \in {SetInputs(w[1], n, w[2], results[w[2]], a) : a \in {acc}} : TRUE,
            <<"OK", sess>>, NextNodes(n) \X DOMAIN results)

IsReady(s) == s.remaining = 0 /\ ~s.used

ReadySessions(sess, nodes) == {id \in DOMAIN sess : id[1] \in nodes /\ IsReady(sess[id])}

-----------------------------------------------------------------------------
(* Streams (nodestreamidguard.cpp); id is <<request, node, key>>. *)

HasGuard(id) ==
    LET p == pool[ModelOf(id[2])]
    IN id \in Range(p.waiting) \cup p.granted \cup p.held

\* getIdleStream: a future that may be set at once.
GetIdleStream(p, id) ==
    IF p.free > 0 THEN [p EXCEPT !.free = @ - 1, !.granted = @ \cup {id}]
                  ELSE [p EXCEPT !.waiting = Append(@, id)]

ReturnStream(p, id) ==
    LET back == [p EXCEPT !.granted = @ \ {id}, !.held = @ \ {id}]
    IN IF p.waiting = <<>> THEN [back EXCEPT !.free = @ + 1]
       ELSE [back EXCEPT !.waiting = Tail(@), !.granted = @ \cup {Head(p.waiting)}]

ReleaseNot(id) == pool

\* DLNodeSession::release; the other sessions hold nothing.
Release(id) ==
    [m \in DOMAIN pool |-> IF id \in pool[m].held THEN ReturnStream(pool[m], id) ELSE pool[m]]

-----------------------------------------------------------------------------
(* Executing a session.  The outcome is [status, pool, session, push]; push *)
(* tells that execute() itself puts the finished message into the queue.    *)

Outcome(status, p, s, push) == [status |-> status, pool |-> p, session |-> s, push |-> push]

\* DLNodeSession::validate of one input tensor.
TensorStatus(info, dims) ==
    LET batch == BatchIndex(info.layout)
    IN CASE Len(info.shape) # Len(dims) -> "INVALID_NO_OF_SHAPE_DIMENSIONS"
         [] \E b \in batch : b > Len(dims) -> "INVALID_BATCH_DIMENSION"
         [] \E b \in batch : /\ ~Match(info.shape[b], dims[b])
                             /\ ShapeMatchSkipping(info.shape, dims, b) -> "INVALID_BATCH_SIZE"
         [] ~ShapeMatch(info.shape, dims) -> "INVALID_SHAPE"
         [] OTHER -> "OK"

\* The model is found and guarded, the inputs are validated, and a stream is
\* asked for; fail is the call that fails, if any.
RequestExecuteRequiredResources(s, gid, fail) ==
    LET info == NodeOf(g, gid[2]).inputs
        wrong == {x \in DOMAIN s.inputs : TensorStatus(info[x], s.inputs[x].dims) # "OK"}
        used == [s EXCEPT !.used = TRUE]
        m == ModelOf(gid[2])
    IN IF fail = "model" THEN Outcome("MODEL_VERSION_NOT_LOADED_YET", pool, s, TRUE)
       ELSE IF wrong = {} THEN Outcome("OK", [pool EXCEPT ![m] = GetIdleStream(@, gid)], used, FALSE)
       ELSE LET x == CHOOSE y \in wrong : TRUE
            IN Outcome(TensorStatus(info[x], s.inputs[x].dims), pool, used, TRUE)

\* Resources are requested once; then tryGetId, setInputsForInference and
\* executeInference.
ExecuteDL(r, id, fail) ==
    LET m == ModelOf(id[1])
        gid == <<r, id[1], id[2]>>
        ready == IF HasGuard(gid) THEN Outcome("OK", pool, [sessions[r][id] EXCEPT !.used = TRUE], FALSE)
                 ELSE RequestExecuteRequiredResources(sessions[r][id], gid, fail)
        taken == [ready.pool EXCEPT ![m].granted = @ \ {gid}, ![m].held = @ \cup {gid}]
    IN IF ready.status # "OK" THEN ready
       ELSE IF gid \notin ready.pool[m].granted
            THEN Outcome("PIPELINE_STREAM_ID_NOT_READY_YET", ready.pool, ready.session, FALSE)
       ELSE IF fail = "start" THEN Outcome("OV_INTERNAL_INFERENCE_ERROR", taken, ready.session, TRUE)
       ELSE Outcome("OK", taken, [ready.session EXCEPT !.run = "running"], FALSE)

\* CustomNodeSession::createTensor of the outputs, of which one may have a
\* buffer of another size than its dimensions and precision say.
CreateTensorStatus(fail) == IF fail = "output" THEN "NODE_LIBRARY_INVALID_CONTENT_SIZE" ELSE "OK"

\* CustomNodeSession::execute is synchronous; count is the first dimension of
\* its outputs.  Whether all of them are there shows when they are fetched.
ExecuteCustom(r, id, fail, count) ==
    LET used == [sessions[r][id] EXCEPT !.used = TRUE]
    IN CASE fail = "library" -> Outcome("NODE_LIBRARY_EXECUTION_FAILED", pool, used, TRUE)
         [] CreateTensorStatus(fail) # "OK" -> Outcome(CreateTensorStatus(fail), pool, used, TRUE)
         [] OTHER -> Outcome("OK", pool, [used EXCEPT !.run = IF fail = "missing" THEN "failed" ELSE "done",
                                                      !.count = count], TRUE)

\* EntryNode and ExitNode only push their message.
Execute(r, id, fail, count) ==
    CASE NodeOf(g, id[1]).kind = "DL" -> ExecuteDL(r, id, fail)
      [] NodeOf(g, id[1]).kind = "CUSTOM" -> ExecuteCustom(r, id, fail, count)
      [] OTHER -> Outcome("OK", pool, sessions[r][id], TRUE)

InjectedFailures(kind) ==
    CASE kind = "DL" -> [none |-> "OK", model |-> "MODEL_VERSION_NOT_LOADED_YET",
                         start |-> "OV_INTERNAL_INFERENCE_ERROR"]
      [] kind = "CUSTOM" -> [none |-> "OK", library |-> "NODE_LIBRARY_EXECUTION_FAILED",
                             output |-> CreateTensorStatus("output"), missing |-> "OK"]
      [] OTHER -> [none |-> "OK"]

\* The first dimensions that agree with the metadata the node reports.
CountsOf(n) ==
    IF \A o \in DOMAIN NodeOf(g, n).outputs : ~IsDynamic(NodeOf(g, n).outputs[o].shape[1]) THEN {0}
    ELSE {c \in Counts : \A o \in DOMAIN NodeOf(g, n).outputs :
                             Match(NodeOf(g, n).outputs[o].shape[1], c)}

\* One call of execute() for session id by the thread of r: the outcome of it
\* and what it does to the shared state and to the queue (in q).
Executes(r, id, After(_)) ==
    \E fail \in DOMAIN InjectedFailures(NodeOf(g, id[1]).kind),
       count \in IF NodeOf(g, id[1]).kind = "CUSTOM" THEN CountsOf(id[1]) ELSE {0} :
        LET o == Execute(r, id, fail, count)
        IN /\ fail # "none" => failures < MaxFailures /\ o.status = InjectedFailures(NodeOf(g, id[1]).kind)[fail]
           /\ failures' = IF fail = "none" THEN failures ELSE failures + 1
           /\ pool' = o.pool
           /\ sessions' = [sessions EXCEPT ![r][id] = o.session]
           /\ After(o)

FirstError(status, new) == IF status = "OK" THEN new ELSE status
Deferred(o) == o.status = "PIPELINE_STREAM_ID_NOT_READY_YET"
Pushed(queue, id, o) == IF o.push THEN Append(queue, id) ELSE queue

-----------------------------------------------------------------------------
(* Results *)

\* The lengths of an output, with the count this computation produced.
OutputDims(info, output, count) ==
    [i \in DOMAIN info.outputs[output].shape |->
        IF i = 1 /\ IsDynamic(info.outputs[output].shape[1]) THEN count
        ELSE info.outputs[output].shape[i][1]]

\* Inputs in a fixed order, as the arguments of a computation.
Arguments(inputs) ==
    LET names == SetToSeq(DOMAIN inputs)
    IN [i \in DOMAIN names |-> inputs[names[i]].val]

\* The outputs the next nodes need, under the names they use.
Outputs(r, id) ==
    LET info == NodeOf(g, id[1])
        s == sessions[r][id]
        needed == {p[1] : p \in UNION {g.connections[m][id[1]] : m \in NextNodes(id[1])}}
    IN [a \in needed |->
          IF info.kind = "ENTRY" THEN req[r].request[a]
          ELSE [dims |-> OutputDims(info, info.aliases[a], s.count),
                val |-> << <<id[1], info.aliases[a]>>, <<>>, Arguments(s.inputs) >>]]

\* createShardedTensor: the i-th part of the first dimension.
ShardOf(t, i) == [dims |-> Tail(t.dims), val |-> << <<"shard", "">>, <<i>>, <<t.val>> >>]

\* Node::demultiplyOutputs: <<status, results>>.
Demultiply(n, meta, tensors) ==
    LET info == NodeOf(g, n)
        first == tensors[CHOOSE a \in DOMAIN tensors : TRUE].dims[1]
    IN IF info.demultiply = {} THEN <<"OK", [m \in {meta} |-> tensors]>>
       ELSE IF first > DEMULTIPLY_LIMIT
            THEN <<"PIPELINE_TOO_LARGE_DIMENSION_SIZE_TO_DEMULTIPLY", <<>>>>
       ELSE IF \E a \in DOMAIN tensors : Len(tensors[a].dims) < 3
            THEN <<"PIPELINE_WRONG_NUMBER_OF_DIMENSIONS_TO_DEMULTIPLY", <<>>>>
       ELSE IF info.demultiply # {-1} /\ \E a \in DOMAIN tensors : tensors[a].dims[1] \notin info.demultiply
            THEN <<"PIPELINE_WRONG_DIMENSION_SIZE_TO_DEMULTIPLY", <<>>>>
       ELSE IF first = 0 THEN <<"PIPELINE_DEMULTIPLEXER_NO_RESULTS", <<>>>>
       ELSE <<"OK", [m \in GenerateSubsessions(meta, n, first) |->
                        [a \in DOMAIN tensors |-> ShardOf(tensors[a], Last(m)[2])]]>>

\* EntryNode::validate: every tensor of the request fits its declared input.
RequestStatus(request) ==
    IF \A a \in DOMAIN definition.inputsInfo : \A info \in definition.inputsInfo[a] :
          info = UnspecifiedTensorInfo \/ ShapeMatch(info.shape, request[a].dims)
    THEN "OK" ELSE "INVALID_SHAPE"

\* Node::fetchResults with the node's own fetchResults: <<status, results>>.
FetchResults(r, id) ==
    LET kind == NodeOf(g, id[1]).kind
        s == sessions[r][id]
    IN CASE kind = "ENTRY" /\ RequestStatus(req[r].request) # "OK" ->
                <<RequestStatus(req[r].request), <<>>>>
         [] kind = "DL" /\ s.run = "failed" -> <<"INTERNAL_ERROR", <<>>>>
         [] kind = "CUSTOM" /\ s.run = "failed" -> <<"NODE_LIBRARY_MISSING_OUTPUT", <<>>>>
         [] kind = "EXIT" -> <<"OK", <<>>>>
         [] OTHER -> Demultiply(id[1], s.meta, Outputs(r, id))

-----------------------------------------------------------------------------
(* Pipeline::execute *)

\* All started sessions have finished: the loop is left with firstErrorStatus.
Continue(q) == [q EXCEPT !.pc = IF q.started = q.finished THEN "ended" ELSE "pull"]

\* The message of session id is taken from the queue.
Finish(q, id) == [q EXCEPT !.queue = Tail(@), !.finished = @ \cup {id}]

\* PipelineDefinition::create refuses a definition that did not validate.
\* Otherwise the entry session is created and pushes the first message.
Begin(r, request) ==
    /\ req[r].pc = "idle"
    /\ LET id == <<EntryName(g), <<>>>>
       IN IF definition.status # "OK"
          THEN /\ req' = [req EXCEPT ![r].pc = "ended", ![r].status = definition.status]
               /\ UNCHANGED sessions
          ELSE /\ req' = [req EXCEPT ![r].pc = "pull", ![r].request = request,
                                     ![r].started = {id}, ![r].queue = <<id>>]
               /\ sessions' = [sessions EXCEPT ![r] = [x \in {id} |-> NewSession(id[1], <<>>, <<>>)]]
    /\ UNCHANGED <<definition, pool, failures>>

\* A message after an error only releases the session.
PullAfterError(r) ==
    /\ req[r].pc = "pull" /\ req[r].queue # <<>> /\ req[r].status # "OK"
    /\ LET id == Head(req[r].queue)
       IN /\ pool' = Release(<<r, id[1], id[2]>>)
          /\ req' = [req EXCEPT ![r] = Continue(Finish(@, id))]
    /\ UNCHANGED <<definition, sessions, failures>>

\* The results, of which there are as many as their metadata tells, were fed
\* to the next nodes.
AfterFeed(q, id, results, fed, inputs) ==
    LET sizes == {Last(m)[3] : m \in DOMAIN results}
    IN [q EXCEPT !.pc = "schedule", !.status = fed[1], !.last = "",
                 !.todo = ReadySessions(fed[2], NextNodes(id[1])),
                 !.counts = IF NodeOf(g, id[1]).demultiply = {} THEN @
                            ELSE Put(@, id[1], CHOOSE n \in sizes : TRUE),
                 !.response = IF NodeOf(g, id[1]).kind = "EXIT" THEN inputs ELSE @]

\* A finished session: its results are fetched (which releases its stream and
\* removes it), the next nodes are fed and their ready sessions collected.
Pull(r) ==
    /\ req[r].pc = "pull" /\ req[r].queue # <<>> /\ req[r].status = "OK"
    /\ LET id == Head(req[r].queue)
           fetched == FetchResults(r, id)
           others == [x \in DOMAIN sessions[r] \ {id} |-> sessions[r][x]]
           fed == Feed(id[1], fetched[2], others)
           q == Finish(req[r], id)
       IN /\ pool' = Release(<<r, id[1], id[2]>>)
          /\ IF fetched[1] # "OK"
             THEN /\ req' = [req EXCEPT ![r] = Continue([q EXCEPT !.status = fetched[1]])]
                  /\ sessions' = [sessions EXCEPT ![r] = others]
             ELSE /\ req' = [req EXCEPT ![r] = AfterFeed(q, id, fetched[2], fed, sessions[r][id].inputs)]
                  /\ sessions' = [sessions EXCEPT ![r] = fed[2]]
    /\ UNCHANGED <<definition, failures>>

\* The locals of execute() after the session id was started with outcome o.
AfterStart(q, id, o) ==
    LET status == FirstError(q.status, IF Deferred(o) THEN "OK" ELSE o.status)
    IN [q EXCEPT !.started = @ \cup {id}, !.status = status, !.last = id[1],
                 !.queue = Pushed(@, id, o),
                 !.tmp = IF Deferred(o) THEN Append(@, id) ELSE @,
                 !.todo = IF status = "OK" THEN @ \ {id}
                          ELSE {i \in @ : i[1] # id[1]}]

\* The next nodes one after another, all ready sessions of each; an error ends
\* the sessions of its node but not the loop over the nodes.
Schedule(r) ==
    /\ req[r].pc = "schedule"
    /\ \E id \in req[r].todo :
        /\ req[r].last \in {i[1] : i \in req[r].todo} => id[1] = req[r].last
        /\ Executes(r, id, LAMBDA o : req' = [req EXCEPT ![r] = AfterStart(@, id, o)])
    /\ UNCHANGED definition

\* Nothing left to schedule: on to the deferred sessions.
Scheduled(r) ==
    /\ req[r].pc = "schedule" /\ req[r].todo = {}
    /\ req' = [req EXCEPT ![r].pc = "deferred", ![r].left = req[r].deferred, ![r].kept = <<>>]
    /\ UNCHANGED <<definition, pool, sessions, failures>>

AfterRetry(q, id, o) ==
    [q EXCEPT !.left = Tail(@), !.queue = Pushed(@, id, o),
              !.kept = IF o.status = "OK" THEN @ ELSE Append(@, id),
              !.status = FirstError(@, IF Deferred(o) THEN "OK" ELSE o.status)]

\* One deferred session is tried again (after a message and after a timeout).
TryDeferred(r) ==
    /\ \/ req[r].pc = "deferred" /\ req[r].queue = <<>>
       \/ req[r].pc = "retry"
    /\ req[r].left # <<>>
    /\ LET id == Head(req[r].left)
       IN Executes(r, id, LAMBDA o : req' = [req EXCEPT ![r] = AfterRetry(@, id, o)])
    /\ UNCHANGED definition

DeferredTriedOnce(r) ==
    /\ req[r].pc = "deferred" /\ (req[r].left = <<>> \/ req[r].queue # <<>>)
    /\ req' = [req EXCEPT ![r] =
          Continue([@ EXCEPT !.deferred = req[r].kept \o req[r].tmp,
                             !.tmp = <<>>, !.left = <<>>, !.kept = <<>>])]
    /\ UNCHANGED <<definition, pool, sessions, failures>>

\* A message in the queue stops the retries after a message; the containers
\* are merged and the loop is left when everything started has finished.
DeferredTried(r) ==
    /\ req[r].pc = "deferred" /\ (req[r].left = <<>> \/ req[r].queue # <<>>)
    /\ req' = [req EXCEPT ![r] =
          Continue([@ EXCEPT !.deferred = req[r].kept \o req[r].left \o req[r].tmp,
                             !.tmp = <<>>, !.left = <<>>, !.kept = <<>>])]
    /\ UNCHANGED <<definition, pool, sessions, failures>>

Retried(r) ==
    /\ req[r].pc = "retry" /\ req[r].left = <<>>
    /\ req' = [req EXCEPT ![r].pc = "pull", ![r].deferred = req[r].kept, ![r].kept = <<>>]
    /\ UNCHANGED <<definition, pool, sessions, failures>>

\* No message within the timeout: retry the deferred sessions, or disarm them
\* when an error occurred.
Timeout(r) ==
    /\ req[r].pc = "pull" /\ req[r].queue = <<>> /\ req[r].deferred # <<>>
    /\ req' = [req EXCEPT ![r].pc = IF req[r].status = "OK" THEN "retry" ELSE "disarm",
                          ![r].left = req[r].deferred, ![r].kept = <<>>]
    /\ UNCHANGED <<definition, pool, sessions, failures>>

AfterDisarm(q, id, waits) ==
    [q EXCEPT !.left = Tail(@), !.kept = IF waits THEN Append(@, id) ELSE @,
              !.finished = IF waits THEN @ ELSE @ \cup {id}]

\* NodeStreamIdGuard::tryDisarm: a stream that arrived goes back, a session
\* without a guard is done, one that still waits is kept.
Disarm(r) ==
    /\ req[r].pc = "disarm" /\ req[r].left # <<>>
    /\ LET id == Head(req[r].left)
           gid == <<r, id[1], id[2]>>
           m == ModelOf(id[1])
           waits == gid \in Range(pool[m].waiting)
       IN /\ pool' = IF gid \in pool[m].granted
                     THEN [pool EXCEPT ![m] = ReturnStream(@, gid)] ELSE pool
          /\ req' = [req EXCEPT ![r] = AfterDisarm(@, id, waits)]
    /\ UNCHANGED <<definition, sessions, failures>>

Disarmed(r) ==
    /\ req[r].pc = "disarm" /\ req[r].left = <<>>
    /\ req' = [req EXCEPT ![r] =
          IF @.kept # <<>>
          THEN [@ EXCEPT !.pc = "pull", !.deferred = req[r].kept, !.kept = <<>>]
          ELSE Continue([@ EXCEPT !.deferred = <<>>])]
    /\ UNCHANGED <<definition, pool, sessions, failures>>

\* The completion callback: the inputs are dropped and the message is pushed.
\* A failed inference shows when the results are fetched.
Complete(r, id) ==
    /\ sessions[r][id].run = "running"
    /\ \E run \in {"done", "failed"}, count \in CountsOf(id[1]) :
        /\ run = "failed" => failures < MaxFailures
        /\ failures' = IF run = "failed" THEN failures + 1 ELSE failures
        /\ sessions' = [sessions EXCEPT ![r][id].run = run, ![r][id].count = count]
    /\ req' = [req EXCEPT ![r].queue = Append(@, id)]
    /\ UNCHANGED <<definition, pool>>

\* The thread of request r.
Thread(r) ==
    \/ PullAfterError(r) \/ Pull(r) \/ Schedule(r) \/ Scheduled(r) \/ TryDeferred(r)
    \/ DeferredTried(r) \/ Retried(r) \/ Timeout(r) \/ Disarm(r) \/ Disarmed(r)

\* The tensors a request may bring, by their lengths.
Requests(s) ==
    {[a \in DOMAIN dims |->
        [dims |-> dims[a], val |-> << <<EntryName(s.graph), a>>, <<>>, <<>> >>]] : dims \in s.requests}

Next ==
    \/ \E s \in {t \in Scenarios : t.graph = g} : \E r \in DOMAIN req, request \in Requests(s) :
          Begin(r, request)
    \/ \E r \in DOMAIN req : Thread(r)
    \/ \E r \in DOMAIN req : \E id \in DOMAIN sessions[r] : Complete(r, id)

Spec ==
    /\ Init /\ [][Next]_vars
    /\ \A r \in Clients :
          /\ WF_vars(r \in DOMAIN req /\ Thread(r))
          /\ WF_vars(r \in DOMAIN req /\ \E id \in DOMAIN sessions[r] : Complete(r, id))

-----------------------------------------------------------------------------
(* Properties *)

Succeeded(q) == q.pc = "ended" /\ q.status = "OK"

\* The outputs that a library reports with fixed lengths have as many parts as
\* each other when they are demultiplied dynamically.
EvenOutputs(graph) ==
    \A info \in Infos(graph) : info.kind = "CUSTOM" /\ info.demultiply = {-1} =>
        \A o, p \in DOMAIN info.outputs :
            LET d == info.outputs[o].shape[1]
                e == info.outputs[p].shape[1]
            IN IsDynamic(d) \/ IsDynamic(e) \/ d = e

\* The shapes of a response are the ones the pipeline's metadata promises
\* (updateOutputsInfo, getNodeGatherShape).  Excepted are graphs with a library
\* whose outputs differ in a first length they report: demultiplyOutputs counts
\* the parts of one of them, getNodeGatherShape declares those of another.
ResponseAsDeclared ==
    EvenOutputs(g) =>
    \A r \in DOMAIN req : Succeeded(req[r]) =>
        \A x \in DOMAIN req[r].response :
            \/ definition.outputsInfo[x] = UnspecifiedTensorInfo
            \/ ShapeMatch(definition.outputsInfo[x].shape, req[r].response[x].dims)

\* When Pipeline::execute returns, with success or with an error, none of its
\* inferences still runs (its callback would push into a queue that is gone)
\* and none of its sessions holds or waits for an infer request; a session is
\* never disarmed while it holds one, which would take its future twice.
NothingLeft ==
    \A r \in DOMAIN req :
        /\ req[r].pc = "ended" =>
              /\ \A id \in DOMAIN sessions[r] : sessions[r][id].run # "running"
              /\ \A m \in DOMAIN pool :
                    r \notin {id[1] : id \in Range(pool[m].waiting) \cup pool[m].granted \cup pool[m].held}
        /\ req[r].pc = "disarm" =>
              \A i \in DOMAIN req[r].left :
                  <<r, req[r].left[i][1], req[r].left[i][2]>> \notin pool[ModelOf(req[r].left[i][1])].held

\* Every request that starts is answered: no session is lost between ready,
\* deferred and finished, and requests that share a model's infer requests do
\* not block each other, also after an error.
ExecutionEnds ==
    \A r \in Clients :
        (r \in DOMAIN req /\ req[r].pc = "pull") ~> (r \in DOMAIN req /\ req[r].pc = "ended")
=============================================================================
