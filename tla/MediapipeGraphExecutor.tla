------------------------ MODULE MediapipeGraphExecutor ------------------------
(***************************************************************************)
(* Calls to a MediaPipe graph: MediapipeGraphExecutor::infer and inferStream *)
(* (src/mediapipe_internal/mediapipegraphexecutor.cpp), the calculator for  *)
(* Python nodes (src/mediapipe_calculators/python_executor_calculator.cc)   *)
(* and ModelStreamInferImpl of the KServe service.                          *)
(*                                                                         *)
(* The thread of a call pushes the inputs of its requests into a graph of   *)
(* its own; MediaPipe's threads run the nodes and, in a stream, the         *)
(* observers that write the responses.  A unary call has one request.       *)
(* MediaPipe is external: an input packet older than its stream allows puts *)
(* the graph into an error, and a graph in an error runs no node.           *)
(***************************************************************************)
EXTENDS MediapipeGraphDefinition

CONSTANTS Asks,           \* Asks[k]: requests a client may send in a call of kind k
          MaxRequests,    \* bound on the requests of a stream
          LastTimestamp,  \* Timestamp::Max
          Yields,         \* how many sets of outputs a generator yields
          Echoed          \* tensors that graphs send back as they came

ASSUME ExecutorAssumption ==
  /\ DOMAIN Asks = {"unary", "stream"}
  /\ MaxRequests \in Nat \ {0} /\ LastTimestamp \in Nat /\ Yields \in Nat \ {0}

\* A request: does it name the servable and version of the stream (right), how
\* does it give a timestamp (stamp, at), a parameter for the graph, its inputs
\* and the number of raw contents.
Tensors == [datatype : STRING, shape : Seq(Int), size : Nat]
RequestType == [right : BOOLEAN, stamp : {"auto", "manual", "wrong"}, at : Int, parameter : STRING,
                inputs : Seq([name : STRING, tensor : Tensors]), raw : Nat]

ASSUME AsksAssumption == \A kind \in {"unary", "stream"} : Asks[kind] \subseteq RequestType

ASSUME EchoedAssumption == Echoed \subseteq Tensors

VARIABLE call   \* call[c], a record:
                \*   kind     "unary" or "stream"
                \*   client   "open", "closed" (no more requests) or "gone"
                \*   asked    the requests read so far
                \*   objects  objects[o]: the number of the request in the ModelInferRequest o
                \*   next     how many inputs of the last request are pushed
                \*   now      currentStreamTimestamp
                \*   taken    taken[n]: [ts, pushed, ok] of request n
                \*   queue    the packets in the input streams
                \*   closed   the packet sources are closed
                \*   generator  [on, left, ts, from, loop] of the Python node
                \*   error    the error of the graph, or "none"
                \*   out      the packets of the output streams, written in a stream
                \*   result   what the call returned

vars == <<definitionVars, call>>

NoGenerator == [on |-> FALSE, left |-> 0, ts |-> 0, from |-> {}, loop |-> FALSE]

NewCall(kind) ==
           [kind |-> kind, client |-> "open", asked |-> <<>>, objects |-> <<0>>, next |-> 0, now |-> 0,
            taken |-> <<>>, queue |-> {}, closed |-> FALSE, generator |-> NoGenerator,
            error |-> "none", out |-> <<>>, result |-> ""]

Init == DefinitionInit /\ call \in [Calls -> {NewCall(kind) : kind \in {"unary", "stream"}}]

Streaming(c) == call[c].kind = "stream"
ExecutorGraph(c) == Graph[exec[c].config]
InputStreams(c) == Graph[exec[c].streams].inputs
InputNames(c) == {InputStreams(c)[i].name : i \in DOMAIN InputStreams(c)}
InputType(c, name) ==
  PacketType((CHOOSE s \in {InputStreams(c)[i] : i \in DOMAIN InputStreams(c)} : s.name = name).tag)
Outputs(c) == {Graph[exec[c].streams].outputs[i].name : i \in DOMAIN Graph[exec[c].streams].outputs}
Request(c) == call[c].asked[Len(call[c].asked)]

\* The inputs in the order they are pushed in: as the graph, or as the request
\* has them.
PushOrder(c) ==
  IF Streaming(c) THEN [i \in DOMAIN Request(c).inputs |-> Request(c).inputs[i].name]
                  ELSE [i \in DOMAIN InputStreams(c) |-> InputStreams(c)[i].name]

\* The call is now r, at l.
Become(c, r, l) == /\ call' = [call EXCEPT ![c] = r]
                   /\ Goto(c, l)
                   /\ UNCHANGED <<managerVars, handles, exec>>

Return(c, r, code) == Become(c, [r EXCEPT !.result = code], "done")

HasError(c) == call[c].error # "none"
Fail(r, e) == [r EXCEPT !.error = IF @ = "none" THEN e ELSE @]

-----------------------------------------------------------------------------
(* The client                                                               *)

\* The client disconnects at any time; that it will send no more is seen by a
\* Read only.
Leave(c, how) ==
  /\ Streaming(c)
  /\ call[c].client = "open"
  /\ how = "closed" => pc[c] \in {"new", "read"}
  /\ pc[c] # "done"
  /\ call' = [call EXCEPT ![c].client = how]
  /\ UNCHANGED definitionVars

\* ModelStreamInferImpl: the stream ends before its first request.
ClosedUnopened(c) ==
  /\ pc[c] = "new"
  /\ call[c].client # "open"
  /\ Return(c, call[c], "MEDIAPIPE_UNINITIALIZED_STREAM_CLOSURE")

-----------------------------------------------------------------------------
(* The thread of the call                                                   *)

Asked(r, a) == [r EXCEPT !.asked = Append(@, a), !.next = 0,
                         !.objects = [@ EXCEPT ![Len(@)] = Len(r.asked) + 1],
                         !.taken = Append(@, [ts |-> r.now, pushed |-> {}, ok |-> FALSE])]

\* The graph is initialized and started with the parameters of the first
\* request; "py" is the name of the packet that holds the Python nodes.
Start(c) ==
  /\ pc[c] = "start"
  /\ \E a \in Asks[call[c].kind] :
       LET r == Asked(call[c], a)
       IN CASE a.parameter = "py" -> Return(c, r, "MEDIAPIPE_GRAPH_INITIALIZATION_ERROR")
            [] ~Streaming(c) /\ Len(a.inputs) # Len(InputStreams(c)) ->
                 Return(c, r, "INVALID_NO_OF_INPUTS")
            [] OTHER -> Become(c, IF IsPython(ExecutorGraph(c)) /\ exec[c].nodes # exec[c].config
                                    THEN Fail(r, "open") ELSE r,
                               IF Streaming(c) THEN "stamp" ELSE "push")

\* After the first request the graph is not asked for an error.
NextStep(c) == IF Len(call[c].asked) = 1 THEN "renew" ELSE "checkError"

\* A refused request: a unary call returns, a stream has an error message for
\* it and goes on.
Reject(c, r, code) ==
  IF Streaming(c) THEN Become(c, r, NextStep(c)) ELSE Return(c, r, code)

Stamped(r, ts) == [r EXCEPT !.now = ts, !.taken = [@ EXCEPT ![Len(@)].ts = ts]]

\* deserializeTimestampIfAvailable, checkTimestamp: a timestamp that is out of
\* range is kept all the same.
Stamp(c) ==
  /\ pc[c] = "stamp"
  /\ LET a == Request(c)
         ts == IF a.stamp = "manual" THEN a.at ELSE call[c].now
     IN CASE a.stamp = "wrong" -> Become(c, call[c], NextStep(c))
          [] a.stamp # "wrong" /\ ts \notin 0..LastTimestamp ->
               Become(c, Stamped(call[c], ts), NextStep(c))
          [] OTHER -> Become(c, Stamped(call[c], ts), "push")

\* Why createPacketAndPushIntoGraph refuses an input, or OK.
InputStatus(c, name) ==
  LET a == Request(c)
      ks == {i \in DOMAIN a.inputs : a.inputs[i].name = name}
  IN CASE name \notin InputNames(c) -> "INVALID_UNEXPECTED_INPUT"
       [] InputType(c, name) = "KFS_REQUEST" -> "OK"
       [] a.raw # Len(a.inputs) -> "INVALID_MESSAGE_STRUCTURE"
       [] ks = {} -> "INVALID_MISSING_INPUT"
       [] OTHER -> DeserializeTensor(InputType(c, name),
                                     a.inputs[CHOOSE i \in ks : \A j \in ks : i <= j].tensor).status

\* External: the oldest timestamp the stream still takes.
Bound(r, name) ==
  LET ts == {t.ts : t \in {r.taken[n] : n \in {m \in DOMAIN r.taken : name \in r.taken[m].pushed}}}
  IN IF ts = {} THEN 0 ELSE 1 + (CHOOSE t \in ts : \A u \in ts : u <= t)

\* External: AddPacketToInputStream.
AddPacket(r, name) ==
  LET packet == [input |-> name, ts |-> r.now, object |-> Len(r.objects)]
      added == IF r.now < Bound(r, name) THEN Fail(r, "order")
               ELSE [r EXCEPT !.queue = @ \cup {packet}]
  IN [added EXCEPT !.next = @ + 1, !.taken[Len(r.taken)].pushed = @ \cup {name}]

PushInput(c) ==
  /\ pc[c] = "push"
  /\ call[c].next < Len(PushOrder(c))
  /\ LET name == PushOrder(c)[call[c].next + 1]
     IN CASE InputStatus(c, name) # "OK" -> Reject(c, call[c], InputStatus(c, name))
          [] HasError(c) -> Reject(c, call[c], "MEDIAPIPE_GRAPH_ADD_PACKET_INPUT_STREAM")
          [] OTHER -> Become(c, AddPacket(call[c], name), "push")

Accepted(r) == [r EXCEPT !.taken = [@ EXCEPT ![Len(@)].ok = TRUE]]

\* Mutant: the timestamp is left as it is.
AllPushedAtSameTime(c) ==
  /\ pc[c] = "push"
  /\ call[c].next = Len(PushOrder(c))
  /\ Become(c, Accepted(call[c]), IF Streaming(c) THEN NextStep(c) ELSE "idle")

AllPushed(c) ==
  /\ pc[c] = "push"
  /\ call[c].next = Len(PushOrder(c))
  /\ IF Streaming(c)
       THEN Become(c, [Accepted(call[c]) EXCEPT !.now = @ + 1], NextStep(c))
       ELSE Become(c, Accepted(call[c]), "idle")

\* After a request: a graph with an error ends the loop.
CheckError(c) ==
  /\ pc[c] = "checkError"
  /\ Become(c, call[c], IF HasError(c) THEN "close" ELSE "renew")

\* Mutant: the next request is read into the same object.
RenewNot(c) ==
  /\ pc[c] = "renew"
  /\ Become(c, call[c], "read")

\* A new ModelInferRequest: packets still hold the one before.
Renew(c) ==
  /\ pc[c] = "renew"
  /\ Become(c, [call[c] EXCEPT !.objects = Append(@, 0)], "read")

\* Read and validateSubsequentRequest.
ReadRequest(c) ==
  /\ pc[c] = "read"
  /\ call[c].client = "open"
  /\ Len(call[c].asked) < MaxRequests
  /\ \E a \in Asks[call[c].kind] :
       IF a.right THEN Become(c, Asked(call[c], a), "stamp")
       ELSE Become(c, Asked(call[c], a), "checkError")

ReadEnds(c) ==
  /\ pc[c] = "read"
  /\ call[c].client # "open"
  /\ Become(c, call[c], "close")

\* No node can run.
Idle(c) == HasError(c) \/ (call[c].queue = {} /\ ~call[c].generator.loop)

\* infer: WaitUntilIdle
WaitUntilIdle(c) ==
  /\ pc[c] = "idle"
  /\ Idle(c)
  /\ IF HasError(c) THEN Return(c, call[c], "MEDIAPIPE_EXECUTION_ERROR")
                    ELSE Become(c, call[c], "close")

CloseAllPacketSources(c) ==
  /\ pc[c] = "close"
  /\ Become(c, [call[c] EXCEPT !.closed = TRUE], "finish")

\* WaitUntilDone; a unary call also needs a packet of every output stream.
WaitUntilDone(c) ==
  /\ pc[c] = "finish"
  /\ Idle(c)
  /\ LET got == {call[c].out[i].output : i \in DOMAIN call[c].out}
     IN Return(c, call[c], IF HasError(c) \/ (~Streaming(c) /\ got # Outputs(c))
                             THEN "MEDIAPIPE_EXECUTION_ERROR" ELSE "OK")

-----------------------------------------------------------------------------
(* The nodes                                                                *)

\* A step of a node: the call becomes r.
NodeBecomes(c, r) == call' = [call EXCEPT ![c] = r] /\ UNCHANGED definitionVars

\* External: an output stream takes packets in the order of their timestamps.
\* The observer of a stream writes each response; a client that is gone makes
\* it fail.
Emit(c, r, outputs, ts, from) ==
  CASE \E i \in DOMAIN r.out : r.out[i].output \in outputs /\ r.out[i].ts >= ts -> Fail(r, "output")
    [] Streaming(c) /\ r.client = "gone" -> Fail(r, "write")
    [] OTHER ->
         LET packet(o) == [output |-> o, ts |-> ts, from |-> from]
             order == CHOOSE s \in [1..Cardinality(outputs) -> outputs] :
                        {s[i] : i \in DOMAIN s} = outputs
         IN [r EXCEPT !.out = @ \o [i \in DOMAIN order |-> packet(order[i])]]

\* Packets are read from the request they were made from.
From(c, packets) == {call[c].objects[p.object] : p \in packets}

Consumed(r, packets) == [r EXCEPT !.queue = @ \ packets]

\* External: nodes that each pass one input stream on to one output stream.
PassThrough(c) ==
  /\ ~HasError(c) /\ call[c].queue # {}
  /\ ~IsPython(ExecutorGraph(c))
  /\ \E p \in call[c].queue :
       /\ \A q \in call[c].queue : q.input = p.input => p.ts <= q.ts
       /\ LET k == CHOOSE i \in DOMAIN InputStreams(c) : InputStreams(c)[i].name = p.input
          IN NodeBecomes(c, Emit(c, Consumed(call[c], {p}),
                                 {Graph[exec[c].streams].outputs[k].name}, p.ts, From(c, {p})))

\* External: one of them fails.
NodeFails(c) ==
  /\ ~HasError(c) /\ call[c].queue # {}
  /\ ~IsPython(ExecutorGraph(c))
  /\ NodeBecomes(c, Fail(call[c], "node"))

\* External: the packets of the oldest timestamp, once no input stream can
\* have another one for it.
Ready(c) ==
  LET r == call[c]
      oldest == {p \in r.queue : \A q \in r.queue : p.ts <= q.ts}
  IN IF \A name \in InputNames(c), p \in oldest :
          \/ \E q \in oldest : q.input = name
          \/ Bound(r, name) > p.ts
          \/ r.closed
     THEN oldest ELSE {}

\* generate: a set of outputs, and a packet to oneself one timestamp later.
Generate(c, r, left, ts, from) ==
  [Emit(c, r, Outputs(c), ts, from) EXCEPT
     !.generator = [on |-> TRUE, left |-> left - 1, ts |-> ts + 1, from |-> from, loop |-> TRUE]]

\* PythonExecutorCalculator::Process with new data.
ProcessInputs(c) ==
  /\ ~HasError(c) /\ call[c].queue # {}
  /\ IsPython(ExecutorGraph(c))
  /\ Ready(c) # {}
  /\ LET g == ExecutorGraph(c)
         ts == (CHOOSE p \in Ready(c) : TRUE).ts
         from == From(c, Ready(c))
         r == Consumed(call[c], Ready(c))
     IN NodeBecomes(c,
          CASE r.generator.on -> Fail(r, "busy")
            [] g.script = "returns" -> Emit(c, r, Outputs(c), ts, from)
            [] g.script = "yields" /\ g.loopback -> Generate(c, r, Yields, ts, from)
            [] OTHER -> Fail(r, "script"))

\* Mutant: a generator that has finished stays.
ProcessLoopbackNotReset(c) ==
  /\ ~HasError(c)
  /\ call[c].generator.loop
  /\ LET n == call[c].generator
     IN NodeBecomes(c, IF n.left > 0 THEN Generate(c, call[c], n.left, n.ts, n.from) ELSE call[c])

\* Process with the packet from LOOPBACK.
ProcessLoopback(c) ==
  /\ ~HasError(c)
  /\ call[c].generator.loop
  /\ LET n == call[c].generator
     IN NodeBecomes(c, IF n.left > 0 THEN Generate(c, call[c], n.left, n.ts, n.from)
                       ELSE [call[c] EXCEPT !.generator = NoGenerator])

-----------------------------------------------------------------------------

ThreadStep(c) ==
  \/ Start(c) \/ Stamp(c) \/ PushInput(c) \/ AllPushed(c) \/ CheckError(c) \/ Renew(c)
  \/ ReadEnds(c) \/ WaitUntilIdle(c) \/ CloseAllPacketSources(c) \/ WaitUntilDone(c)
  \/ ClosedUnopened(c)

NodeStep(c) == PassThrough(c) \/ NodeFails(c) \/ ProcessInputs(c) \/ ProcessLoopback(c)

WaitStep(c) == CallWaits(c) /\ UNCHANGED call

Next ==
  \/ ManagerNext /\ UNCHANGED call
  \/ \E c \in Calls :
       \/ call[c].client = "open" /\ Arrive(c) /\ UNCHANGED call
       \/ WaitStep(c) \/ ThreadStep(c) \/ NodeStep(c) \/ ReadRequest(c)
       \/ \E how \in {"closed", "gone"} : Leave(c, how)

\* Threads keep running and a call waits a bounded number of timesteps.  The
\* client may send and leave when it likes.
Fairness ==
  /\ WF_vars(ValidateStep /\ UNCHANGED call)
  /\ \A c \in Calls : /\ WF_vars(ThreadStep(c)) /\ WF_vars(NodeStep(c)) /\ WF_vars(WaitStep(c))
                      /\ SF_vars(Timeout(c) /\ UNCHANGED call)

Spec == Init /\ [][Next]_vars /\ Fairness

-----------------------------------------------------------------------------
(* Properties                                                               *)

\* An executor is made of one graph that was validated: the graph, the names
\* and types of its streams and its Python nodes belong together, although the
\* definition is reloaded in another thread (create copies them under a guard
\* only).
ExecutorOfOneGraph ==
  \A c \in Calls : exec[c] # NoExecutor =>
    /\ exec[c].config = exec[c].streams /\ exec[c].config = exec[c].nodes
    /\ ValidGraph(exec[c].config)

GeneratedBy(c) == IsPython(ExecutorGraph(c)) /\ ExecutorGraph(c).script = "yields"

\* A response holds the data of the request whose timestamp it has (of an
\* earlier one if it was generated), although later requests are read while
\* the packets of the first are still in the graph (inferStream gives every
\* request an object of its own, which the packets keep).
ResponsesMatchRequests ==
  \A c \in Calls : \A i \in DOMAIN call[c].out : \A n \in call[c].out[i].from :
    /\ n \in DOMAIN call[c].taken
    /\ \/ call[c].taken[n].ts = call[c].out[i].ts
       \/ GeneratedBy(c) /\ call[c].taken[n].ts < call[c].out[i].ts

\* Timestamps that the server sets do not put a graph into an error: when a
\* packet was too old, the client gave a timestamp that is not above an
\* earlier one, named an input twice in a request, or a request was refused
\* after it had set the timestamp or pushed a part of its inputs
\* (partialDeserialize).
OnlyClientBreaksOrder ==
  \A c \in Calls : call[c].error = "order" =>
    \E n \in DOMAIN call[c].taken :
      \/ /\ call[c].asked[n].stamp = "manual"
         /\ \E m \in 1..(n - 1) : call[c].taken[m].ts >= call[c].asked[n].at
      \/ Repeated(call[c].asked[n].inputs)
      \/ /\ ~call[c].taken[n].ok
         /\ call[c].asked[n].stamp = "manual" \/ call[c].taken[n].pushed # {}

\* A stream that its client has left ends, and so does a unary call, whatever
\* the graph, the other calls and the manager do.
CallsEnd ==
  \A c \in Calls :
    (call[c].client # "open" \/ (~Streaming(c) /\ pc[c] # "new")) ~> pc[c] = "done"

\* When the configuration is read again and the definition is left as it is
\* (isReloadRequired), the definition is made of the file as it is now and is
\* served if that is a valid graph; unless the file was missing when it was
\* read last.
LeftAloneIsFresh ==
  [][ (ops' # ops /\ defined /\ step' = "none" /\ status' # "RETIRED") =>
        \/ md5 = ""
        \/ config = file /\ (ValidGraph(file) => isAvailable(status)) ]_vars

\* A tensor that is taken with a buffer of the size it declares (or, by a
\* Python node, with any data type) comes back with the same shape and size,
\* and its data type has the same size and, but for images, is the same:
\* deserializeTensor and receiveAndSerializePacket agree.  Images of four FP32
\* channels, which the documentation does not allow, come back as UINT8.
\* A Python tensor that is converted to an ov::Tensor and back is the same, and
\* the ov::Tensor is answered under its data type if KServe has a name for it.
\* It is looked at before the first operation, as no state matters to it.
EchoKeepsTensor ==
  ops = 0 =>
  \A type \in {"MPTENSOR", "TFTENSOR", "OVTENSOR", "OVMS_PY_TENSOR", "MEDIAPIPE_IMAGE"},
     t \in Echoed :
       LET d == DeserializeTensor(type, t)
           back == SerializePacket(type, d.packet)
           ov == ConvertToOVTensor(d.packet)
       IN /\ (/\ d.status = "OK"
              /\ t.size = DeclaredSize(t) \/ type = "OVMS_PY_TENSOR"
              /\ ~(type = "MEDIAPIPE_IMAGE" /\ t.datatype = "FP32" /\ t.shape[Len(t.shape)] = 4)) =>
                /\ back.shape = t.shape /\ back.size = t.size
                /\ KFSDataTypeSize(back.datatype) = KFSDataTypeSize(t.datatype)
                /\ type = "MEDIAPIPE_IMAGE" \/ back.datatype = t.datatype
          /\ (type = "OVMS_PY_TENSOR" /\ d.status = "OK" /\ ov.status = "OK") =>
                /\ ConvertToPyTensor(ov.packet) = d
                /\ t.datatype \in KnownDatatypes => SerializePacket("OVTENSOR", ov.packet) = t
          \* A known data type is never refused by the converter.
          /\ (type = "OVMS_PY_TENSOR" /\ d.status = "OK" /\ t.datatype \in KnownDatatypes) =>
                ov.status = "OK"

=============================================================================
