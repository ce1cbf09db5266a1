------------------------------ MODULE Frontends ------------------------------
(***************************************************************************)
(* The ways into a model version: TensorFlow Serving and KServe over gRPC   *)
(* and REST, and the C-API (prediction_service.cpp,                         *)
(* kfs_grpc_inference_service.cpp, http_rest_api_handler.cpp, capi.cpp of   *)
(* src/src).  A client sends one request at a time; between requests the    *)
(* model may be given another configuration.  A call is one step: module    *)
(* ModelInstance has the steps inside of it.                                *)
(*                                                                         *)
(* A request is [servable, version, tensors], the same for every frontend;  *)
(* a version is a set of at most one number.  A tensor of a request is      *)
(* [name, dtype, dims, values].                                             *)
(***************************************************************************)
EXTENDS ModelTensors

CONSTANTS Requests,       \* for every written configuration the requests clients send
          Rewrites,       \* the pairs of written configurations, old and new
          CapiTensors,    \* the tensors a client of the C-API adds
          CapiRequests    \* the written configurations under which it does so

VARIABLES written,        \* the configuration the model has in the file
          inst,           \* the instance of its version 1
          isDefault,      \* whether that is the default version of the model
          base,           \* inst as the last configuration left it
          capi,           \* the InferenceRequest of a C-API client: [name -> tensor]
          answer          \* what the client has not yet taken
vars == <<written, inst, isDefault, base, capi, answer>>

TFSFrontends == {"TFS-GRPC", "TFS-REST-ROW", "TFS-REST-COLUMN"}
KFSFrontends == {"KFS-GRPC", "KFS-GRPC-RAW", "KFS-REST-JSON", "KFS-REST-BINARY", "KFS-REST-MIXED"}
Interfaces == TFSFrontends \cup KFSFrontends \cup {"C-API"}
RestFrontends == {"TFS-REST-ROW", "TFS-REST-COLUMN", "KFS-REST-JSON", "KFS-REST-BINARY",
                  "KFS-REST-MIXED"}

NotANumber == -1          \* the version of a client that writes a text

-----------------------------------------------------------------------------
(* Clients: how each frontend is told a request.                            *)

Message(format, tensors, Field(_), raw) ==
    [format |-> format, raw |-> IF raw THEN [i \in DOMAIN tensors |-> tensors[i].values] ELSE <<>>,
     inputs |-> [i \in DOMAIN tensors |->
        [name |-> tensors[i].name, dtype |-> tensors[i].dtype, dims |-> tensors[i].dims,
         field |-> Field(tensors[i].dtype), values |-> IF raw THEN <<>> ELSE tensors[i].values]]]

JElement(dtype, v, strings) ==
    CASE dtype = "BYTES" -> IF strings THEN JString(v) ELSE JBinary(v)
      [] dtype = "BOOL" -> Json("bool", v, <<>>, <<>>, <<>>)
      [] OTHER -> JNumber(v)

RECURSIVE Nested(_, _, _)
Nested(dtype, dims, values) ==
    IF dims = <<>> THEN JElement(dtype, values[1], FALSE)
    ELSE LET size == Elements(Tail(dims))
         IN JArray([i \in 1..dims[1] |->
                Nested(dtype, Tail(dims), SubSeq(values, (i - 1) * size + 1, i * size))])

Names(tensors) == [i \in DOMAIN tensors |-> tensors[i].name]

RowBody(tensors) ==
    LET whole(t) == Nested(t.dtype, t.dims, t.values)
        instance(k) == JObject(Names(tensors), [i \in DOMAIN tensors |-> whole(tensors[i]).items[k]])
    IN JObject(<<"instances">>,
           <<IF Len(tensors) = 1 THEN whole(tensors[1])
             ELSE JArray([k \in 1..tensors[1].dims[1] |-> instance(k)])>>)

ColumnBody(tensors) ==
    JObject(<<"inputs">>, <<JObject(Names(tensors), [i \in DOMAIN tensors |->
                Nested(tensors[i].dtype, tensors[i].dims, tensors[i].values)])>>)

KFSBody(tensors, binary, outputs) ==
    [inputs |-> [i \in DOMAIN tensors |-> LET t == tensors[i] IN
        [name |-> t.name, shape |-> t.dims, datatype |-> t.dtype,
         size |-> IF binary THEN {JNumber(Len(t.values))} ELSE {},
         data |-> IF binary THEN {}
                  ELSE {JArray([k \in DOMAIN t.values |-> JElement(t.dtype, t.values[k], TRUE)])}]],
     outputs |-> outputs, binary_data_output |-> {},
     tail |-> IF binary THEN FlattenSeq([i \in DOMAIN tensors |-> tensors[i].values]) ELSE <<>>]

\* What the client asks to have in binary.
WantedOutputs(frontend, outputs) ==
    IF frontend \in {"KFS-REST-BINARY", "KFS-REST-MIXED"}
    THEN [k \in DOMAIN outputs |-> [name |-> outputs[k], binary |-> {TRUE}]] ELSE <<>>

RestBody(frontend, tensors, outputs) ==
    KFSBody(tensors, frontend = "KFS-REST-BINARY", WantedOutputs(frontend, outputs))

\* Only URLs and KServe have versions that are texts.  Nested lists have all
\* the numbers of a tensor; rows are of all tensors.
Expressible(frontend, r) ==
    /\ r.version = {NotANumber} => frontend \in KFSFrontends \cup RestFrontends
    /\ frontend \in {"TFS-REST-ROW", "TFS-REST-COLUMN"} =>
          \A k \in DOMAIN r.tensors :
              LET t == r.tensors[k]
              IN /\ \A i \in DOMAIN t.dims : t.dims[i] >= 0
                 /\ Len(t.values) = Elements(t.dims)
                 /\ frontend = "TFS-REST-ROW" => t.dims[1] = r.tensors[1].dims[1]

-----------------------------------------------------------------------------
(* From a name to the one who executes. *)

\* ModelManager::getModelInstance: 0 is the default version.
GetModelInstanceStatus(i, default, version) ==
    CASE version \notin {0, 1} \/ (version = 0 /\ ~default) -> "MODEL_VERSION_MISSING"
      [] i.state # "AVAILABLE" -> "MODEL_VERSION_NOT_LOADED_YET"
      [] OTHER -> "OK"

VersionNumber(r) == IF r.version = {} THEN 0 ELSE CHOOSE v \in r.version : TRUE

\* parseModelVersion and KFSInferenceServiceImpl::getModelInstance: the version
\* in a URL, or in the text of a KServe message.
AddressStatus(frontend, r) ==
    CASE VersionNumber(r) # NotANumber -> "OK"
      [] frontend \in RestFrontends -> "REST_INVALID_URL"
      [] OTHER -> "MODEL_VERSION_INVALID_FORMAT"

\* The servable a request reaches, or the reason why none.
Predict(r, i, default) ==
    CASE r.servable = "model" -> <<GetModelInstanceStatus(i, default, VersionNumber(r)), "model">>
      [] r.servable = "pipeline" -> <<"OK", "pipeline">>
      [] OTHER -> <<"PIPELINE_DEFINITION_NAME_MISSING", "none">>

\* Only KServe goes on to the MediaPipe graphs.
ModelInfer(r, i, default) ==
    CASE r.servable = "graph" -> <<"OK", "graph">>
      [] r.servable = "unknown" -> <<"MEDIAPIPE_DEFINITION_NAME_MISSING", "none">>
      [] OTHER -> Predict(r, i, default)

\* processPredictRequest
RestPredict(r, i, default) ==
    IF r.servable \in {"graph", "unknown"} THEN <<"MODEL_NAME_MISSING", "none">>
    ELSE Predict(r, i, default)

Target(frontend, r, i, default) ==
    CASE AddressStatus(frontend, r) # "OK" -> <<AddressStatus(frontend, r), "none">>
      [] frontend \in {"TFS-REST-ROW", "TFS-REST-COLUMN"} -> RestPredict(r, i, default)
      [] frontend \in KFSFrontends -> ModelInfer(r, i, default)
      [] OTHER -> Predict(r, i, default)

-----------------------------------------------------------------------------
(* Inference.  An outcome is [status, inst, received, produced, outputs, by]: *)
(* the tensors OpenVINO got and made, what the client finds in the response, *)
(* and who executed.                                                         *)

NothingRead == [k \in {} |-> <<>>]
Refusal(status, i, by) ==
    [status |-> status, inst |-> i, received |-> NothingRead, produced |-> NothingRead,
     outputs |-> NothingRead, by |-> by]

\* The numbers a client reads from a binary output.
FromBytes(bytes, size) ==
    [k \in 1..(Len(bytes) \div size) |->
        bytes[(k - 1) * size + 1] + (IF size < 2 THEN 0 ELSE 256 * bytes[(k - 1) * size + 2])
        + (IF size < 4 THEN 0 ELSE 65536 * bytes[(k - 1) * size + 3]
                                   + 16777216 * bytes[(k - 1) * size + 4])]

ReadOutput(o, binary) ==
    [dtype |-> o.dtype, dims |-> o.dims, binary |-> binary,
     values |-> IF binary /\ o.dtype # "BYTES" THEN FromBytes(BinaryOutput(o), ElementSize(o.dtype))
                ELSE o.values]

ReadOutputs(outputs, binary) ==
    [n \in {o.name : o \in Range(outputs)} |->
        LET o == CHOOSE p \in Range(outputs) : p.name = n IN ReadOutput(o, n \in binary)]

\* The outputs of a C-API response are read one by one, by their number.
OVMS_InferenceResponseOutputCount(outputs) == Len(outputs)
OVMS_InferenceResponseOutput(outputs, id) ==
    IF id < OVMS_InferenceResponseOutputCount(outputs) THEN {outputs[id + 1]} ELSE {}
ReadCapiOutputs(outputs) ==
    LET read == UNION {OVMS_InferenceResponseOutput(outputs, id) :
                           id \in 0..OVMS_InferenceResponseOutputCount(outputs)}
    IN [n \in {o.name : o \in read} |-> ReadOutput(CHOOSE o \in read : o.name = n, FALSE)]

\* Turning the response into JSON may fail; binary are the outputs that follow it.
OutcomeRead(a, status, outputs) ==
    IF status # "OK" THEN Refusal(status, a.inst, "model")
    ELSE [status |-> status, inst |-> a.inst, received |-> a.received,
          produced |-> Inference(CHOOSE n \in a.inst.net : TRUE, a.received),
          outputs |-> outputs, by |-> "model"]
Outcome(a, status, binary) == OutcomeRead(a, status, ReadOutputs(a.outputs, binary))

\* PredictionServiceImpl::Predict, OVMS_Inference, KFSInferenceServiceImpl::ModelInfer,
\* which turns what is thrown into UNKNOWN_ERROR, processSingleModelRequest and
\* processInferKFSRequest, with the answer of the model.
Answered(frontend, a, binary) ==
    CASE a.status = "EXCEPTION" /\ frontend \in {"KFS-GRPC", "KFS-GRPC-RAW"} ->
           Refusal("UNKNOWN_ERROR", a.inst, "model")
      [] frontend = "C-API" -> OutcomeRead(a, a.status, ReadCapiOutputs(a.outputs))
      [] a.status # "OK" \/ frontend \notin RestFrontends -> Outcome(a, a.status, {})
      [] frontend \in TFSFrontends -> Outcome(a, TFSJsonStatus(a.outputs), {})
      [] OTHER -> Outcome(a, KFSJsonStatus(a.outputs), binary)

OutputNames(i) == SelectSeq(NameOrder, LAMBDA n : n \in DOMAIN i.outInfos)

\* What the model is given, [status, message]: a TensorFlow Serving body is
\* parsed with the inputs of the model, after it was looked up.
Prepared(status, message) == [status |-> status, message |-> message]
TFSPrepared(p) == Prepared(p.status, TFSMessage(IF p.status = "OK" THEN p.protos ELSE <<>>))
MessageTo(frontend, r, i, body) ==
    CASE frontend = "TFS-GRPC" -> Prepared("OK", Message("TFS", r.tensors, TFSField, FALSE))
      [] frontend \in TFSFrontends ->
           TFSPrepared(TFSParse(IF frontend = "TFS-REST-ROW" THEN RowBody(r.tensors)
                                                           ELSE ColumnBody(r.tensors), i.infos))
      [] frontend \in {"KFS-GRPC", "KFS-GRPC-RAW"} ->
           Prepared("OK", Message("KFS", r.tensors, KFSField, frontend = "KFS-GRPC-RAW"))
      [] frontend = "C-API" -> Prepared("OK", Message("CAPI", r.tensors, LAMBDA d : "buffer", FALSE))
      [] OTHER -> Prepared("OK", KFSRestMessage(body))

CallModel(frontend, i, parsed, binary) ==
    IF parsed.status # "OK" THEN Refusal(parsed.status, i, "model")
    ELSE Answered(frontend, Infer(i, parsed.message), binary)

\* A whole call.  The body of a KServe request is parsed before its servable
\* is looked up.
CallWith(frontend, r, i, target, body, bodyStatus) ==
    CASE bodyStatus # "OK" -> Refusal(bodyStatus, i, "none")
      [] target[1] # "OK" \/ target[2] # "model" -> Refusal(target[1], i, target[2])
      [] OTHER -> CallModel(frontend, i, MessageTo(frontend, r, i, body), BinaryOutputs(body))

BodyStatus(frontend, r, body) ==
    IF frontend \in KFSFrontends \cap RestFrontends /\ AddressStatus(frontend, r) = "OK"
    THEN KFSRestStatus(body) ELSE "OK"

CallTo(frontend, r, i, default, body) ==
    CallWith(frontend, r, i, Target(frontend, r, i, default), body, BodyStatus(frontend, r, body))
Call(frontend, r, i, default) ==
    CallTo(frontend, r, i, default, RestBody(frontend, r.tensors, OutputNames(i)))

-----------------------------------------------------------------------------
(* Questions about a servable: its state, readiness and metadata.  A reply   *)
(* is [status, state, infos]; the infos are those of inputs and outputs.     *)

Questions == {"TFS-STATUS", "TFS-CONFIG", "TFS-METADATA", "KFS-READY", "KFS-METADATA",
              "CAPI-STATE", "CAPI-METADATA"}

Reply(status, state, infos) == [status |-> status, state |-> state, infos |-> infos]
ReplyOf(status) == Reply(status, "unknown", NothingRead)

\* convert, of a shape in the metadata: a dimension that may vary is -1.
Metadata(infos) ==
    [n \in DOMAIN infos |->
        [precision |-> infos[n].precision,
         shape |-> [k \in DOMAIN infos[n].shape |->
                       IF IsDynamic(infos[n].shape[k]) THEN DYNAMIC_DIMENSION
                                                       ELSE infos[n].shape[k][1]]]]

\* OVMS_ServableMetadataInput and Output, called for every index below the
\* count: the shortest and the longest, which are -1 for any length.
CapiMetadata(infos) ==
    [n \in DOMAIN infos |-> [precision |-> infos[n].precision, shape |-> infos[n].shape]]

\* Of the version, the default one when none is named.
VersionFound(r, default, unnamed) == (unnamed /\ default) \/ VersionNumber(r) = 1
OfVersion(found, missing, reply) == IF found THEN reply ELSE ReplyOf(missing)
IfLoaded(i, inputs, outputs) ==
    IF i.state = "AVAILABLE" THEN Reply("OK", i.state, [inputs |-> inputs, outputs |-> outputs])
    ELSE ReplyOf("MODEL_VERSION_NOT_LOADED_YET")
OfOthers(r, servables, missing) ==
    IF r.servable \in servables THEN Reply("OK", "AVAILABLE", NothingRead) ELSE ReplyOf(missing)

\* GetModelStatusImpl::getModelStatus tells all versions when none is named.
GetModelStatus(r, i) ==
    IF r.servable # "model" THEN OfOthers(r, {"pipeline", "graph"}, "MODEL_NAME_MISSING")
    ELSE OfVersion(VersionNumber(r) \in {0, 1}, "MODEL_VERSION_MISSING", Reply("OK", i.state, NothingRead))

\* getAllModelsStatuses, of GET /v1/config.
GetAllModelsStatuses(i) == GetModelStatus([servable |-> "model", version |-> {}], i)

\* GetModelMetadataImpl knows no MediaPipe graph.
GetModelMetadata(r, i, default) ==
    IF r.servable # "model" THEN OfOthers(r, {"pipeline"}, "MODEL_NAME_MISSING")
    ELSE OfVersion(VersionFound(r, default, VersionNumber(r) = 0), "MODEL_VERSION_MISSING",
                   IfLoaded(i, Metadata(i.infos), Metadata(i.outInfos)))

\* getModelReady and ModelMetadataImpl take a version 0 for a version of its own.
KFSReply(r, default, reply) ==
    CASE r.servable # "model" -> OfOthers(r, {"pipeline", "graph"}, "MODEL_NAME_MISSING")
      [] VersionNumber(r) = NotANumber -> ReplyOf("MODEL_VERSION_INVALID_FORMAT")
      [] OTHER -> OfVersion(VersionFound(r, default, r.version = {}), "MODEL_VERSION_MISSING", reply)
GetModelReady(r, i, default) == KFSReply(r, default, Reply("OK", i.state, NothingRead))
ModelMetadata(r, i, default) == KFSReply(r, default, IfLoaded(i, Metadata(i.infos), Metadata(i.outInfos)))

\* A version that is missing is looked for among the pipelines and graphs.
OVMS_GetServableState(r, i, default) ==
    IF r.servable # "model" THEN OfOthers(r, {"pipeline", "graph"}, "MODEL_NAME_MISSING")
    ELSE OfVersion(VersionFound(r, default, VersionNumber(r) = 0), "MODEL_NAME_MISSING",
                   Reply("OK", i.state, NothingRead))

OVMS_GetServableMetadata(r, i, default) ==
    IF r.servable # "model" THEN OfOthers(r, {"pipeline"}, "PIPELINE_DEFINITION_NAME_MISSING")
    ELSE OfVersion(VersionFound(r, default, VersionNumber(r) = 0), "MODEL_VERSION_MISSING",
                   IfLoaded(i, CapiMetadata(i.infos), CapiMetadata(i.outInfos)))

Ask(question, r, i, default) ==
    CASE question = "TFS-STATUS" -> GetModelStatus(r, i)
      [] question = "TFS-CONFIG" -> GetAllModelsStatuses(i)
      [] question = "TFS-METADATA" -> GetModelMetadata(r, i, default)
      [] question = "KFS-READY" -> GetModelReady(r, i, default)
      [] question = "KFS-METADATA" -> ModelMetadata(r, i, default)
      [] question = "CAPI-STATE" -> OVMS_GetServableState(r, i, default)
      [] OTHER -> OVMS_GetServableMetadata(r, i, default)

\* parseRequestComponents: the handler of a REST call, or the error.
PostPaths == {"predict", "infer", "config/reload"}
GetPaths == {"model status", "model metadata", "config", "server live", "server ready",
             "server metadata", "kfs metadata", "kfs ready", "metrics"}
Route(method, path) ==
    CASE method \notin {"GET", "POST"} -> "REST_UNSUPPORTED_METHOD"
      [] path = "with dots" -> "PATH_INVALID"
      [] method = "POST" /\ path \in PostPaths -> path
      [] method = "GET" /\ path \in GetPaths -> path
      [] path \in PostPaths \cup GetPaths -> "REST_UNSUPPORTED_METHOD"
      [] OTHER -> "REST_INVALID_URL"

-----------------------------------------------------------------------------
(* The state machine *)

NoAnswer == [kind |-> "none"]
NoInstance ==
    [config |-> [layouts |-> NothingRead], net |-> {}, state |-> "LOADING",
     infos |-> NothingRead, outInfos |-> NothingRead]

Idle == answer = NoAnswer
Kept(loaded) == IF loaded.status = "OK" THEN loaded.inst ELSE UnloadModelComponents(loaded.inst)
Load(i, w) == Kept(LoadModelImpl(i, ParseNode(w), NoParameter))

Init ==
    /\ written \in {w \in DOMAIN Requests : ParseNodeStatus(w) = "OK"}
    /\ inst = Load(NoInstance, written)
    /\ isDefault = (inst.state = "AVAILABLE")
    /\ base = inst
    /\ capi = NothingRead
    /\ answer = NoAnswer

\* A configuration that cannot be parsed, and one that changes nothing, leave
\* the version as it is; the default version is recomputed after a reload.
Reconfigure(w) ==
    /\ Idle /\ DOMAIN capi = {} /\ <<written, w>> \in Rewrites
    /\ written' = w
    /\ LET ignored == ParseNodeStatus(w) # "OK" \/ ~IsReloadRequired(inst.config, ParseNode(w))
       IN /\ inst' = IF ignored THEN inst ELSE Load(inst, w)
          /\ isDefault' = IF ignored THEN isDefault ELSE inst'.state = "AVAILABLE"
          /\ base' = IF ignored THEN base ELSE inst'
    /\ UNCHANGED <<capi, answer>>

Served(frontend, r, outcome) ==
    /\ answer' = [kind |-> "call", frontend |-> frontend, request |-> r, outcome |-> outcome]
    /\ inst' = outcome.inst
    /\ UNCHANGED <<written, isDefault, base, capi>>

Send(frontend, r) ==
    /\ Idle /\ DOMAIN capi = {}
    /\ Served(frontend, r, Call(frontend, r, inst, isDefault))

SendQuestion(question, r) ==
    /\ Idle /\ DOMAIN capi = {}
    /\ r.version = {NotANumber} => question \in {"KFS-READY", "KFS-METADATA"}
    /\ answer' = [kind |-> "ask", question |-> question, request |-> r,
                  reply |-> Ask(question, r, inst, isDefault)]
    /\ UNCHANGED <<written, inst, isDefault, base, capi>>

SendHttp(method, path) ==
    /\ Idle /\ DOMAIN capi = {}
    /\ LET status == Route(method, path)
       IN answer' = [kind |-> "http", method |-> method, path |-> path, status |-> status,
                     code |-> HttpStatus(IF status \in PostPaths \cup GetPaths THEN "OK" ELSE status)]
    /\ UNCHANGED <<written, inst, isDefault, base, capi>>

Take ==
    /\ ~Idle
    /\ answer' = NoAnswer
    /\ UNCHANGED <<written, inst, isDefault, base, capi>>

\* The C-API builds its request call by call.
CapiStep(status, tensors) ==
    /\ Idle /\ written \in CapiRequests
    /\ answer' = [kind |-> "capi", status |-> status]
    /\ capi' = IF status = "OK" THEN tensors ELSE capi
    /\ UNCHANGED <<written, inst, isDefault, base>>

OVMS_InferenceRequestAddInput(t) ==
    CapiStep(IF t.name \in DOMAIN capi THEN "DOUBLE_TENSOR_INSERT" ELSE "OK",
             [n \in DOMAIN capi \cup {t.name} |->
                 IF n = t.name THEN [dtype |-> t.dtype, dims |-> t.dims, buffer |-> {}] ELSE capi[n]])

WithBuffer(n, buffer) == [m \in DOMAIN capi |-> IF m = n THEN [capi[m] EXCEPT !.buffer = buffer]
                                                        ELSE capi[m]]

OVMS_InferenceRequestInputSetData(t) ==
    CapiStep(CASE t.name \notin DOMAIN capi -> "NONEXISTENT_TENSOR_FOR_SET_BUFFER"
               [] capi[t.name].buffer # {} -> "DOUBLE_BUFFER_SET"
               [] OTHER -> "OK",
             WithBuffer(t.name, {t.values}))

OVMS_InferenceRequestInputRemoveData(n) ==
    CapiStep(CASE n \notin DOMAIN capi -> "NONEXISTENT_TENSOR_FOR_REMOVE_BUFFER"
               [] capi[n].buffer = {} -> "NONEXISTENT_BUFFER_FOR_REMOVAL"
               [] OTHER -> "OK",
             WithBuffer(n, {}))

OVMS_InferenceRequestRemoveInput(n) ==
    CapiStep(IF n \in DOMAIN capi THEN "OK" ELSE "NONEXISTENT_TENSOR_FOR_REMOVAL",
             [m \in DOMAIN capi \ {n} |-> capi[m]])

\* The tensors in the order of the names; one without data has an empty buffer.
CapiRequest ==
    LET names == SelectSeq(NameOrder, LAMBDA n : n \in DOMAIN capi)
    IN [servable |-> "model", version |-> {},
        tensors |-> [k \in DOMAIN names |-> LET t == capi[names[k]] IN
            [name |-> names[k], dtype |-> t.dtype, dims |-> t.dims,
             values |-> IF t.buffer = {} THEN <<>> ELSE CHOOSE b \in t.buffer : TRUE]]]

OVMS_Inference ==
    /\ Idle /\ written \in CapiRequests
    /\ Served("C-API", CapiRequest, Call("C-API", CapiRequest, inst, isDefault))

CapiNext ==
    \/ \E t \in CapiTensors : OVMS_InferenceRequestAddInput(t) \/ OVMS_InferenceRequestInputSetData(t)
    \/ \E n \in {t.name : t \in CapiTensors} :
          OVMS_InferenceRequestInputRemoveData(n) \/ OVMS_InferenceRequestRemoveInput(n)
    \/ OVMS_Inference

Next ==
    \/ \E w \in DOMAIN Requests : Reconfigure(w)
    \/ \E r \in Requests[written] :
          \/ \E frontend \in {f \in Interfaces : Expressible(f, r)} : Send(frontend, r)
          \/ \E question \in Questions : SendQuestion(question, r)
    \/ \E method \in {"GET", "POST", "PUT"}, path \in PostPaths \cup GetPaths \cup {"with dots", "other"} :
          SendHttp(method, path)
    \/ Take
    \/ CapiNext

Spec == Init /\ [][Next]_vars

-----------------------------------------------------------------------------
(* Properties *)

Inferred == answer.kind = "call" /\ answer.outcome.status = "OK" /\ answer.outcome.by = "model"

\* The tensor a client means by one of its request: the numbers it wrote, or
\* the images or strings decoded.
Meant(t, info) ==
    IF t.dtype # "BYTES" THEN Tensor(t.dtype, t.dims, t.values)
    ELSE CASE PreProcessingHint(info) = "STRING_1D_U8" -> StringsTo1D(t.values)
           [] PreProcessingHint(info) = "STRING_2D_U8" -> StringsTo2D(t.values)
           [] OTHER -> LET first == DecodeImage(t.values[1]) IN
                 Tensor(info.precision, <<Len(t.values), info.shape[2][1], info.shape[3][1], first.channels>>,
                        FlattenSeq([k \in DOMAIN t.values |->
                            [x \in 1..(info.shape[2][1] * info.shape[3][1] * first.channels) |->
                                t.values[k][4]]]))

\* KFSRestParser reads the numbers of an FP64 tensor with GetFloat
\* (rest_parser.cpp:637).
Rounded(frontend, t) ==
    /\ frontend \in {"KFS-REST-JSON", "KFS-REST-MIXED"} /\ t.dtype = "FP64"
    /\ \E k \in DOMAIN t.values : AsFloat(t.values[k]) # t.values[k]

\* The requests a frontend can carry: the types it has, the shapes its
\* encoding shows, and for TensorFlow Serving REST, which sends no types, the
\* inputs of the model.
Carries(frontend, r) ==
    /\ Expressible(frontend, r)
    /\ \A k \in DOMAIN r.tensors :
          LET t == r.tensors[k]
              known == t.name \in DOMAIN inst.infos
          IN /\ t.dtype \notin
                   CASE frontend = "TFS-GRPC" -> {"U32", "U64", "BOOL"}
                     [] frontend \in TFSFrontends -> {"U32", "U64", "BOOL", "FP16", "U16"}
                     [] frontend = "KFS-GRPC-RAW" -> {}
                     [] frontend = "C-API" -> {"BOOL", "BYTES"}
                     [] OTHER -> {"BOOL", "FP16"}
             /\ ~Rounded(frontend, t)
             /\ frontend \in {"TFS-REST-ROW", "TFS-REST-COLUMN"} =>
                   /\ known /\ t.dtype \in {"BYTES", inst.infos[t.name].precision}
                   /\ \A i \in DOMAIN t.dims : t.dims[i] > 0
             /\ (frontend \in {"KFS-REST-JSON", "KFS-REST-MIXED"} /\ t.dtype = "BYTES") =>
                   known /\ PreProcessingHint(inst.infos[t.name]) # "IMAGE"
    /\ frontend \in {"TFS-REST-ROW", "TFS-REST-COLUMN"} =>
          {t.name : t \in Range(r.tensors)} = DOMAIN inst.infos

\* A request that is answered with OK was executed on the tensors the client
\* sent, under the names the client gave them, whichever frontend that can
\* carry them, encoding and order of the tensors it used
\* (deserialization.hpp:345, rest_parser.cpp, http_rest_api_handler.cpp:288).
ServedAsAsked ==
    (Inferred /\ Carries(answer.frontend, answer.request)) =>
        LET tensors == answer.request.tensors
        IN /\ {t.name : t \in Range(tensors)} = DOMAIN inst.infos
           /\ \A k \in DOMAIN tensors :
                 answer.outcome.received[inst.infos[tensors[k].name].name]
                     = Meant(tensors[k], inst.infos[tensors[k].name])

\* An output of the response is the tensor OpenVINO produced: its numbers, its
\* strings, its shape, in JSON, in a message and in binary (serialization.cpp,
\* rest_utils.cpp:334).  Two outputs of a KServe message that has contents are
\* excepted: booleans, which are left out, and numbers that the contents keep
\* in a wider type when they are wanted in binary.
ResponseHoldsOutputs ==
    Inferred =>
        /\ DOMAIN answer.outcome.outputs = DOMAIN inst.outInfos
        /\ \A n \in DOMAIN inst.outInfos :
              LET made == answer.outcome.produced[inst.outInfos[n].name]
                  read == answer.outcome.outputs[n]
              IN \/ answer.frontend = "KFS-REST-MIXED" /\ ElementSize(read.dtype) < 4
                 \/ answer.frontend = "KFS-GRPC" /\ read.dtype = "BOOL"
                 \/ read.dtype = "BYTES" /\ read.values = StringsOf2D(made)
                 \/ /\ read.dtype = made.precision /\ read.dims = made.dims
                    /\ read.values = made.values

Batchless == \E n \in DOMAIN inst.infos : BatchIndex(inst.infos[n].layout) = {}

\* What requests have made of the model cannot be told from the answers: every
\* request would be answered as right after the last configuration, however
\* the batch size and the shapes were changed in between, successfully or not
\* (modelinstance.cpp:989, :961).  Excepted are a model whose layout has no
\* batch, where getBatchSizeIndex throws when its shape has to change, and one
\* that kept the network of an earlier configuration, which is not read again
\* when only its batch size or shape was removed (modelinstance.cpp:863).
RequestsDoNotMatter ==
    (Idle /\ DOMAIN capi = {} /\ inst # base /\ ~Batchless /\ base = Load(NoInstance, written)) =>
        \A r \in Requests[written], frontend \in Interfaces :
            Expressible(frontend, r) =>
              Call(frontend, r, inst, isDefault).status
                = Call(frontend, r, base, isDefault).status

Alike(outcomes) ==
    \A o, p \in outcomes : (o.status = "OK") = (p.status = "OK") /\ o.produced = p.produced

\* Two frontends that can carry a request to the model both serve it or both
\* refuse it, and the model computes the same from it.
FrontendsAgree ==
    (Idle /\ DOMAIN capi = {} /\ inst.state = "AVAILABLE" /\ ~Batchless) =>
        \A r \in {q \in Requests[written] : q.servable = "model" /\ q.version # {NotANumber}} :
            Alike({Call(f, r, inst, isDefault) : f \in {g \in Interfaces : Carries(g, r)}})

\* A shape as the metadata describes it, exactly or from and to.
Fits(dims, shape) ==
    \/ answer.question # "CAPI-METADATA" /\ dims = shape
    \/ /\ answer.question = "CAPI-METADATA" /\ Len(dims) = Len(shape)
       /\ \A k \in DOMAIN dims : Match(shape[k], dims[k])

\* The response has the outputs that were told; the length of one that may
\* vary is not told by the gRPC and REST interfaces, and strings are told as
\* the tensor that holds them.
AsTold(outputs, told) ==
    /\ DOMAIN outputs = DOMAIN told
    /\ \A n \in DOMAIN told :
          \/ outputs[n].dtype = "BYTES"
          \/ /\ outputs[n].dtype = told[n].precision
             /\ \/ Fits(outputs[n].dims, told[n].shape)
                \/ /\ answer.question # "CAPI-METADATA"
                   /\ DYNAMIC_DIMENSION \in Range(told[n].shape)

\* A request with just the tensors that the metadata of the model lists, of
\* lengths the metadata allows, is served, and answered with the outputs the
\* metadata lists (kfs_grpc_inference_service.cpp:486,
\* get_model_metadata_impl.cpp:118, capi.cpp:1005).
MetadataHolds ==
    (answer.kind = "ask" /\ answer.reply.infos # NothingRead) =>
        \A r \in Requests[written] :
            (/\ r.servable = "model" /\ r.version = answer.request.version
             /\ Len(r.tensors) = Cardinality(DOMAIN answer.reply.infos.inputs)
             /\ \A k \in DOMAIN r.tensors :
                   LET t == r.tensors[k] IN
                   /\ t.name \in DOMAIN answer.reply.infos.inputs
                   /\ t.dtype = answer.reply.infos.inputs[t.name].precision
                   /\ Fits(t.dims, answer.reply.infos.inputs[t.name].shape)
                   /\ Len(t.values) = Elements(t.dims))
            => \A f \in {g \in Interfaces : Carries(g, r)} :
                   LET served == Call(f, r, inst, isDefault)
                   IN served.status = "OK" /\ AsTold(served.outputs, answer.reply.infos.outputs)

=============================================================================
