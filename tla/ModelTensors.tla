----------------------------- MODULE ModelTensors -----------------------------
(***************************************************************************)
(* The tensors of a model version: how its configuration is read            *)
(* (modelconfig.cpp), how they are set up when the version is loaded and    *)
(* when a request changes them, and ModelInstance::infer                    *)
(* (modelinstance.cpp).  Module ModelInstance has the threads that do this; *)
(* here every operation is one step.                                        *)
(*                                                                         *)
(* An instance is [config, net, infos, outInfos, state]: net is the         *)
(* ov::Model, a set of at most one [path, shapes, layouts] (path is where   *)
(* it was read).  A configuration is [path, batching, batchSize, shapes,    *)
(* layouts]; the layout without a name is the one of ANONYMOUS.  A         *)
(* parameter, the DynamicModelParameter of a reload, is [batch, shapes].    *)
(***************************************************************************)
EXTENDS TensorCodecs

CONSTANT ModelFiles
    \* For every base path what the files there say: [shapes, precisions, layouts, strings,
    \* frozen, copies, mapping].  shapes has the inputs, strings the outputs whose name ends
    \* with _string, frozen the <<input, position>>s the network cannot reshape, copies the
    \* input each output is a copy of, mapping the names mapping_config.json gives the inputs.

ANONYMOUS == "ANONYMOUS_INPUT_NAME"

Inputs(path) == DOMAIN ModelFiles[path].shapes
Outputs(path) == DOMAIN ModelFiles[path].copies

\* getMappingInputByKey and getRealInputNameByValue.
MappedName(path, name) ==
    IF name \in DOMAIN ModelFiles[path].mapping THEN ModelFiles[path].mapping[name] ELSE name
RealNames(path, name) ==
    {n \in DOMAIN ModelFiles[path].mapping : ModelFiles[path].mapping[n] = name}

-----------------------------------------------------------------------------
(* parseNode.  What is written is [path, batch, shapes, layouts]: batch and *)
(* every shape are [auto, text], with the text a number, a range or a list. *)

ParseShape(w) ==
    IF w.auto THEN {[mode |-> "AUTO", shape |-> <<>>]}
    ELSE {[mode |-> "FIXED", shape |-> s] : s \in ShapeFromString(w.text)}

\* Wrong shapes and a wrong batch size are passed over.
ParsedShapes(written) ==
    [n \in {m \in DOMAIN written.shapes : ParseShape(written.shapes[m]) # {}} |->
        CHOOSE s \in ParseShape(written.shapes[n]) : TRUE]

ExtractBatchingParams(batch) ==
    [mode |-> IF \E b \in batch : b.auto THEN "AUTO" ELSE "FIXED",
     size |-> UNION {DimensionFromString(b.text) : b \in {c \in batch : ~c.auto}}]

\* The batch size does not count beside a shape.
BatchWithShapes(batch, shapes) == IF DOMAIN shapes = {} THEN batch ELSE {}

ParseNode(written) ==
    LET shapes == ParsedShapes(written)
        batching == ExtractBatchingParams(BatchWithShapes(written.batch, shapes))
    IN [path |-> written.path, batching |-> batching.mode, batchSize |-> batching.size,
        shapes |-> shapes, layouts |-> written.layouts]

ParseNodeStatus(written) ==
    IF \A n \in DOMAIN written.layouts : ValidLayout(written.layouts[n]) THEN "OK"
    ELSE "LAYOUT_WRONG_FORMAT"

\* isReloadRequired, of the settings kept here.
IsReloadRequired(config, other) == config # other

IsLayoutConfigurationEqual(config, other) == config.layouts = other.layouts

ShapeEntry(config, name) ==
    LET key == IF name \in DOMAIN config.shapes THEN name ELSE ANONYMOUS
    IN {config.shapes[n] : n \in {key} \cap DOMAIN config.shapes}
IsShapeAuto(config, name) == \E s \in ShapeEntry(config, name) : s.mode = "AUTO"

\* The modes the validation of a request goes by.
Modes(config) ==
    [batching |-> config.batching,
     shapes |-> [n \in {MappedName(config.path, i) : i \in Inputs(config.path)} |->
                    IF IsShapeAuto(config, n) THEN "AUTO" ELSE "FIXED"]]

-----------------------------------------------------------------------------
(* loadModelImpl *)

NoParameter == [batch |-> {}, shapes |-> <<>>]

ConfigurationStatus(config, net) ==
    LET inputs == Inputs(net.path)
        mapped == DOMAIN ModelFiles[config.path].mapping
        unknown(n, names) == n \notin names /\ RealNames(config.path, n) \cap names = {}
    IN CASE DOMAIN config.shapes = {ANONYMOUS} /\ ~IsShapeAuto(config, ANONYMOUS)
              /\ Cardinality(inputs) > 1 -> "ANONYMOUS_FIXED_SHAPE_NOT_ALLOWED"
         [] ANONYMOUS \in DOMAIN config.layouts /\ Cardinality(inputs) > 1 ->
              "ANONYMOUS_FIXED_LAYOUT_NOT_ALLOWED"
         [] \E n \in DOMAIN config.shapes \cap inputs : n \in mapped ->
              "CONFIG_SHAPE_MAPPED_BUT_USED_REAL_NAME"
         [] \E n \in DOMAIN config.shapes \ {ANONYMOUS} : unknown(n, inputs) ->
              "CONFIG_SHAPE_IS_NOT_IN_MODEL"
         [] \E n \in DOMAIN config.layouts \cap inputs : n \in mapped ->
              "CONFIG_LAYOUT_MAPPED_BUT_USED_REAL_NAME"
         [] \E n \in DOMAIN config.layouts \ {ANONYMOUS} : unknown(n, inputs \cup Outputs(net.path)) ->
              "CONFIG_LAYOUT_IS_NOT_IN_MODEL"
         [] OTHER -> "OK"

\* applyLayoutConfiguration, on a model that was just read.
AppliedLayout(config, name) ==
    LET file == ModelFiles[config.path]
        mapped == MappedName(config.path, name)
        input == IF name \in DOMAIN file.shapes THEN name ELSE file.copies[name]
    IN CASE name \in Inputs(config.path) /\ ANONYMOUS \in DOMAIN config.layouts ->
              config.layouts[ANONYMOUS]
         [] mapped \in DOMAIN config.layouts -> config.layouts[mapped]
         [] file.layouts[name] # {} -> CHOOSE l \in file.layouts[name] : TRUE
         [] OTHER -> DefaultLayout(Len(file.shapes[input]))

ReadModel(config) ==
    [path |-> config.path, shapes |-> ModelFiles[config.path].shapes,
     layouts |-> [n \in Inputs(config.path) \cup Outputs(config.path) |-> AppliedLayout(config, n)]]

RequestedShape(config, parameter, name) ==
    LET n == MappedName(config.path, name)
        fixed == {s.shape : s \in {t \in ShapeEntry(config, n) : t.shape # <<>>}}
    IN CASE config.batchSize # {} \/ parameter.batch # {} -> {}
         [] IsShapeAuto(config, n) /\ n \in DOMAIN parameter.shapes /\ parameter.shapes[n] # <<>> ->
              {[i \in DOMAIN parameter.shapes[n] |-> <<parameter.shapes[n][i], parameter.shapes[n][i]>>]}
         [] OTHER -> fixed

\* The shapes the network is asked to take; ov::Model::reshape refuses another
\* rank, and other lengths where the network needs those of the file.
Reshaped(net, config, parameter) ==
    [n \in Inputs(net.path) |->
        IF RequestedShape(config, parameter, n) = {} THEN net.shapes[n]
        ELSE CHOOSE s \in RequestedShape(config, parameter, n) : TRUE]
CanReshape(net, shapes) ==
    LET file == ModelFiles[net.path]
    IN \A n \in DOMAIN file.shapes :
           /\ Len(shapes[n]) = Len(file.shapes[n])
           /\ \A i \in DOMAIN shapes[n] :
                 <<n, i>> \in file.frozen => shapes[n][i] = file.shapes[n][i]

\* configureBatchSize; ov::set_batch needs an N and must be able to reshape.
BatchToSet(config, parameter) ==
    IF parameter.batch # {} THEN {<<b, b>> : b \in parameter.batch} ELSE config.batchSize
WithBatch(net, shapes, b) ==
    [n \in Inputs(net.path) |-> [i \in DOMAIN shapes[n] |->
                          IF i \in BatchIndex(net.layouts[n]) THEN b ELSE shapes[n][i]]]
CanSetBatch(net, shapes, b) ==
    /\ \E n \in Inputs(net.path) : BatchIndex(net.layouts[n]) # {}
    /\ CanReshape(net, WithBatch(net, shapes, b))

BatchSet(net, shapes, batch) ==
    IF batch = {} THEN shapes ELSE WithBatch(net, shapes, CHOOSE b \in batch : TRUE)
NewShapes(net, config, parameter) ==
    BatchSet(net, Reshaped(net, config, parameter), BatchToSet(config, parameter))

LoadInputTensorsStatus(net, config, parameter, shapes) ==
    CASE config.batching = "AUTO" /\ \E n \in Inputs(net.path) : net.shapes[n] = <<>> ->
           "MODEL_WITH_SCALAR_AUTO_UNSUPPORTED"
      [] shapes # net.shapes /\ ~CanReshape(net, shapes) -> "RESHAPE_ERROR"
      [] \E b \in BatchToSet(config, parameter) : ~CanSetBatch(net, shapes, b) ->
           "MODEL_NOT_LOADED"
      [] \E n \in Inputs(net.path) : ~IsCompatible(net.layouts[n], shapes[n]) ->
           "LAYOUT_INCOMPATIBLE_WITH_SHAPE"
      [] OTHER -> "OK"

\* Mutant: the shapes of the file, whatever the network was reshaped to.
InfoOfFile(net, name) ==
    LET file == ModelFiles[net.path]
    IN [name |-> name, precision |-> file.precisions[name], layout |-> net.layouts[name],
        shape |-> file.shapes[IF name \in DOMAIN file.shapes THEN name ELSE file.copies[name]],
        isString |-> name \in file.strings]

Info(net, name) ==
    LET file == ModelFiles[net.path]
    IN [name |-> name, precision |-> file.precisions[name], layout |-> net.layouts[name],
        shape |-> net.shapes[IF name \in DOMAIN file.shapes THEN name ELSE file.copies[name]],
        isString |-> name \in file.strings]

InfosOf(config, net) ==
    LET mapped(n) == MappedName(config.path, n)
    IN [m \in {mapped(n) : n \in Inputs(net.path)} |->
           Info(net, CHOOSE n \in Inputs(net.path) : mapped(n) = m)]
OutInfosOf(net) == [o \in Outputs(net.path) |-> Info(net, o)]

\* The network is read from the file only when there is none or its layouts
\* change; otherwise the present one is reshaped.
IsReadAgain(inst, config) == inst.net = {} \/ ~IsLayoutConfigurationEqual(config, inst.config)
NetToLoad(inst, config) ==
    IF IsReadAgain(inst, config) THEN ReadModel(config) ELSE CHOOSE n \in inst.net : TRUE

\* The steps of loadModelImpl.
LoadStatus(net, reread, config, parameter, wrong) ==
    CASE wrong # "OK" -> wrong
      [] reread /\ \E n \in Inputs(net.path) : ~IsCompatible(net.layouts[n], net.shapes[n]) ->
           "MODEL_NOT_LOADED"
      [] OTHER -> LoadInputTensorsStatus(net, config, parameter, Reshaped(net, config, parameter))

Loaded(config, net) ==
    [config |-> config, net |-> {net}, state |-> "AVAILABLE",
     infos |-> InfosOf(config, net), outInfos |-> OutInfosOf(net)]

\* What it leaves: [status, inst].
LoadedFrom(inst, config, parameter, net, status) ==
    [status |-> status,
     inst |-> IF status = "OK"
              THEN Loaded(config, [net EXCEPT !.shapes = NewShapes(net, config, parameter)])
              ELSE [inst EXCEPT !.config = config, !.net = {net}, !.state = "LOADING"]]

LoadModelWith(inst, config, parameter, net) ==
    LoadedFrom(inst, config, parameter, net,
               LoadStatus(net, IsReadAgain(inst, config), config, parameter,
                          ConfigurationStatus(config, net)))

LoadModelImpl(inst, config, parameter) ==
    LoadModelWith(inst, config, parameter, NetToLoad(inst, config))

UnloadModelComponents(inst) ==
    [inst EXCEPT !.state = "LOADING", !.net = {}, !.infos = <<>>, !.outInfos = <<>>]

-----------------------------------------------------------------------------
(* infer *)

\* recoverFromReloadingError: back to the configuration, with a new network.
RecoverFromReloadingError(failed) ==
    [status |-> failed.status,
     inst |-> LoadModelImpl(UnloadModelComponents(failed.inst), failed.inst.config, NoParameter).inst]

\* Mutant: no way back.
RecoveredNot(loaded) == loaded
Recovered(loaded) == IF loaded.status = "OK" THEN loaded ELSE RecoverFromReloadingError(loaded)

\* reshapeWithFullReload, when reshaping the network there is failed.
Retried(loaded, parameter) ==
    IF loaded.status = "OK" THEN loaded
    ELSE LoadModelImpl(UnloadModelComponents(loaded.inst), loaded.inst.config, parameter)

\* reloadModel(batchSize, requestShapes).
ReloadForRequest(inst, parameter) ==
    Recovered(Retried(LoadModelImpl(inst, inst.config, parameter), parameter))

\* getBatchSizeIndex is asked of the first input, whatever has to change.
BatchSizeIndex(inst) ==
    BatchIndex(inst.infos[SelectSeq(NameOrder, LAMBDA n : n \in DOMAIN inst.infos)[1]].layout)

\* getRequestBatchSize reads the first input of the request.
RequestParameter(m, status, index) ==
    IF status = "RESHAPE_REQUIRED"
    THEN [batch |-> {}, shapes |-> [n \in {t.name : t \in Range(m.inputs)} |->
                                       m.inputs[FirstIndex(m, n)].dims]]
    ELSE [batch |-> {m.inputs[1].dims[i] : i \in index \cap DOMAIN m.inputs[1].dims}, shapes |-> <<>>]

ReloadWith(inst, parameter) ==
    IF parameter = NoParameter THEN [status |-> "INTERNAL_ERROR", inst |-> inst]
    ELSE ReloadForRequest(inst, parameter)

ReloadModelIfRequired(inst, m, status) ==
    CASE status \notin {"BATCHSIZE_CHANGE_REQUIRED", "RESHAPE_REQUIRED"} ->
           [status |-> status, inst |-> inst]
      [] BatchSizeIndex(inst) = {} -> [status |-> "EXCEPTION", inst |-> inst]
      [] OTHER -> ReloadWith(inst, RequestParameter(m, status, BatchSizeIndex(inst)))

\* The network: every output copies its input.
Inference(net, tensors) == [o \in Outputs(net.path) |-> tensors[ModelFiles[net.path].copies[o]]]

Answer(status, inst, received, outputs) ==
    [status |-> status, inst |-> inst, received |-> received, outputs |-> outputs]

\* What infer does with a valid request, after the reload.
Respond(inst, tensors, written) == Answer(written.status, inst, tensors, written.outputs)
ExecuteOn(inst, m, net, read) ==
    IF read.status # "OK" THEN Answer(read.status, inst, <<>>, <<>>)
    ELSE Respond(inst, read.tensors, Serialize(m, inst.outInfos, Inference(net, read.tensors)))

Execute(inst, m) ==
    LET net == CHOOSE n \in inst.net : TRUE
    IN ExecuteOn(inst, m, net,
                 Deserialize(m, inst.infos, net, ModelFiles[net.path].precisions))

InferOn(ready, m) ==
    IF ready.status = "OK" THEN Execute(ready.inst, m)
    ELSE Answer(ready.status, ready.inst, <<>>, <<>>)

Infer(inst, m) ==
    InferOn(ReloadModelIfRequired(inst, m, ValidateRequest(m, inst.infos, Modes(inst.config))), m)
=============================================================================
