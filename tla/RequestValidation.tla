--------------------------- MODULE RequestValidation ---------------------------
(***************************************************************************)
(* Validation of a request against the inputs of a model or a pipeline      *)
(* (src/src/predict_request_validation_utils.cpp) and the type tables of    *)
(* the three request formats.                                               *)
(*                                                                         *)
(* A message is [format, inputs, raw]: format is "TFS" (TensorFlow          *)
(* Serving), "KFS" (KServe) or "CAPI"; inputs is the sequence of its        *)
(* tensors [name, dtype, dims, field, values] and raw the sequence of       *)
(* buffers of a KFS message that keeps its data outside of the tensors.     *)
(* dtype is a precision or "BYTES"; field names the member of the tensor    *)
(* that holds the values.  A value of a BYTES tensor is a sequence of       *)
(* characters.  modes is [batching, shapes]: the batching mode and the      *)
(* shape mode of every input.                                               *)
(***************************************************************************)
EXTENDS Shapes, SequencesExt, FiniteSetsExt

CONSTANTS NameOrder,                  \* all tensor names, in the order of std::map
          MAX_2D_STRING_ARRAY_SIZE

Precisions == {"FP64", "FP32", "FP16", "I64", "I32", "I16", "I8",
               "U64", "U32", "U16", "U8", "BOOL"}

ElementSize(precision) ==
    CASE precision \in {"FP64", "I64", "U64"} -> 8
      [] precision \in {"FP32", "I32", "U32"} -> 4
      [] precision \in {"FP16", "I16", "U16"} -> 2
      [] OTHER -> 1

\* The data type a tensor of this precision has: getPrecisionAsDataType,
\* ovmsPrecisionToKFSPrecision and getPrecisionAsOVMSDataType.
TFSDataType(precision) == IF precision \in Precisions \ {"U32"} THEN precision ELSE "INVALID"
KFSDataType(precision) == IF precision \in Precisions THEN precision ELSE "INVALID"
OVMSDataType(precision) == IF precision \in Precisions THEN precision ELSE "INVALID"
DataType(format, precision) ==
    CASE format = "TFS" -> TFSDataType(precision)
      [] format = "KFS" -> KFSDataType(precision)
      [] OTHER -> OVMSDataType(precision)

\* The member of a TensorProto the values of a type are taken from.
TFSField(dtype) ==
    CASE dtype = "BYTES" -> "string_val"
      [] dtype = "U16" -> "int_val"
      [] dtype = "FP16" -> "half_val"
      [] OTHER -> "tensor_content"

\* Mutant: the 8 bit integers are forgotten.
KFSFieldNotI8(dtype) ==
    IF dtype = "I8" THEN "no contents" ELSE IF dtype = "I64" THEN "int64_contents" ELSE "int_contents"

\* The member of InferTensorContents (getElementsCount).
KFSField(dtype) ==
    CASE dtype = "BYTES" -> "bytes_contents"
      [] dtype = "BOOL" -> "bool_contents"
      [] dtype \in {"I8", "I16", "I32"} -> "int_contents"
      [] dtype = "I64" -> "int64_contents"
      [] dtype \in {"U8", "U16", "U32"} -> "uint_contents"
      [] dtype = "U64" -> "uint64_contents"
      [] dtype = "FP32" -> "fp32_contents"
      [] dtype = "FP64" -> "fp64_contents"
      [] OTHER -> "no contents"

Elements(dims) == FoldSeq(LAMBDA n, acc : n * acc, 1, dims)

NameIndices(m, name) == {i \in DOMAIN m.inputs : m.inputs[i].name = name}
FirstIndex(m, name) == Min(NameIndices(m, name))
InRaw(m) == m.raw # <<>>

\* The values of input i, wherever the message keeps them.
ValuesOf(m, i) ==
    IF InRaw(m) THEN m.raw[i]
    ELSE IF m.inputs[i].field \in {TFSField(m.inputs[i].dtype), KFSField(m.inputs[i].dtype), "buffer"}
         THEN m.inputs[i].values ELSE <<>>

\* requiresPreProcessing; the C-API has no BYTES.
RequiresPreProcessing(m, i) == m.format # "CAPI" /\ m.inputs[i].dtype = "BYTES"

PreProcessingHint(info) ==
    CASE Len(info.shape) = 2 /\ info.precision = "U8" -> "STRING_2D_U8"
      [] Len(info.shape) = 1 /\ info.precision = "U8" /\ IsDynamic(info.shape[1]) -> "STRING_1D_U8"
      [] Len(info.shape) = 4 -> "IMAGE"
      [] OTHER -> "NO_PROCESSING"

-----------------------------------------------------------------------------
(* The checks.  Each one gives <<status, what the model has to change>>. *)

FirstError(states) ==
    LET errors == {k \in DOMAIN states : states[k] # "OK"}
    IN IF errors = {} THEN "OK" ELSE states[Min(errors)]

Passed == <<"OK", "OK">>
Refused(status) == <<status, "OK">>
Change(what) == <<"OK", what>>

\* The inputs of stateful requests, which are allowed on top of these, are in
\* StatefulSequences.
NumberOfInputsStatus(m, infos) ==
    IF m.inputs # <<>> /\ Len(m.inputs) = Cardinality(DOMAIN infos) THEN "OK"
    ELSE "INVALID_NO_OF_INPUTS"

RequestCoherencyStatus(m) ==
    IF m.format = "KFS" /\ InRaw(m) /\ \E i \in DOMAIN m.inputs : m.inputs[i].values # <<>>
    THEN "INVALID_MESSAGE_STRUCTURE" ELSE "OK"

\* What a length that differs from the model's batch size leads to.
BatchMismatch(modes, name) ==
    CASE modes.batching = "AUTO" -> Change("BATCHSIZE_CHANGE_REQUIRED")
      [] modes.shapes[name] # "AUTO" -> Refused("INVALID_BATCH_SIZE")
      [] OTHER -> Passed

BatchSizeCheck(info, t, modes) ==
    LET index == BatchIndex(info.layout)
    IN IF index = {} \/ \A b \in BatchSize(info), i \in index : Match(b, t.dims[i]) THEN Passed
       ELSE BatchMismatch(modes, t.name)

BinaryBatchSizeCheck(info, t, batch, modes) ==
    CASE BatchSize(info) = {} -> Refused("INVALID_BATCH_SIZE")
      [] t.dims[1] # batch -> Refused("INVALID_BATCH_SIZE")
      [] \A b \in BatchSize(info) : Match(b, t.dims[1]) -> Passed
      [] OTHER -> BatchMismatch(modes, t.name)

ShapeMismatch(modes, name) ==
    IF modes.shapes[name] = "AUTO" THEN Change("RESHAPE_REQUIRED") ELSE Refused("INVALID_SHAPE")

ShapeCheck(info, t, modes) ==
    LET index == BatchIndex(info.layout)
        skipped == IF modes.batching = "AUTO" THEN index ELSE {}
    IN CASE modes.batching = "AUTO" /\ index = {} -> Refused("INTERNAL_ERROR")
         [] \A i \in DOMAIN t.dims \ skipped : Match(info.shape[i], t.dims[i]) -> Passed
         [] OTHER -> ShapeMismatch(modes, t.name)

\* Strings become rows of width characters.
StringShapeCheck(info, t, batch, width, modes) ==
    IF /\ Match(info.shape[2], width)
       /\ modes.batching = "AUTO" \/ Match(info.shape[1], batch)
    THEN Passed ELSE ShapeMismatch(modes, t.name)

\* The numbers are counted where a message has a list of them, and else their
\* bytes.
ContentMismatch(t, values, status) ==
    IF Elements(t.dims) = Len(values) /\ t.dtype \in Precisions THEN Passed ELSE Refused(status)
TFSContentCheck(t, values) ==
    ContentMismatch(t, values, IF TFSField(t.dtype) = "tensor_content" THEN "INVALID_CONTENT_SIZE"
                                                                       ELSE "INVALID_VALUE_COUNT")
KFSContentCheck(t, values, raw) ==
    ContentMismatch(t, values, IF raw THEN "INVALID_CONTENT_SIZE" ELSE "INVALID_VALUE_COUNT")
CapiContentCheck(t, values) == ContentMismatch(t, values, "INVALID_CONTENT_SIZE")

TensorContentCheck(m, i) ==
    CASE m.format = "TFS" -> TFSContentCheck(m.inputs[i], ValuesOf(m, i))
      [] m.format = "KFS" -> KFSContentCheck(m.inputs[i], ValuesOf(m, i), InRaw(m))
      [] OTHER -> CapiContentCheck(m.inputs[i], ValuesOf(m, i))

StringWidth(strings) == Max({Len(strings[i]) : i \in DOMAIN strings} \cup {0}) + 1

BinaryChecks(m, i, info, modes) ==
    LET t == m.inputs[i]
        hint == PreProcessingHint(info)
        batch == Len(ValuesOf(m, i))
        width == StringWidth(ValuesOf(m, i))
        rank == IF Len(t.dims) = 1 THEN Passed ELSE Refused("INVALID_NO_OF_SHAPE_DIMENSIONS")
        size == CASE batch <= 0 -> Refused("INVALID_BATCH_SIZE")
                  [] batch * width > MAX_2D_STRING_ARRAY_SIZE ->
                         Refused("INVALID_STRING_MAX_SIZE_EXCEEDED")
                  [] OTHER -> Passed
    IN CASE hint = "STRING_1D_U8" -> <<rank>>
         [] hint = "STRING_2D_U8" /\ rank = Passed ->
                <<size, BinaryBatchSizeCheck(info, t, batch, modes),
                  StringShapeCheck(info, t, batch, width, modes)>>
         [] hint = "IMAGE" /\ rank = Passed -> <<BinaryBatchSizeCheck(info, t, batch, modes)>>
         [] hint = "NO_PROCESSING" -> <<Refused("NOT_IMPLEMENTED")>>
         [] OTHER -> <<rank>>

ArrayChecks(m, i, info, modes) ==
    LET t == m.inputs[i]
    IN CASE t.dtype # DataType(m.format, info.precision) -> <<Refused("INVALID_PRECISION")>>
         [] Len(t.dims) # Len(info.shape) -> <<Refused("INVALID_NO_OF_SHAPE_DIMENSIONS")>>
         [] OTHER -> <<BatchSizeCheck(info, t, modes), ShapeCheck(info, t, modes),
                       TensorContentCheck(m, i)>>

InputChecks(m, name, info, modes) ==
    IF NameIndices(m, name) = {} THEN <<Refused("INVALID_MISSING_INPUT")>>
    ELSE LET i == FirstIndex(m, name)
         IN CASE \E k \in DOMAIN m.inputs[i].dims : m.inputs[i].dims[k] < 0 ->
                     <<Refused("INVALID_SHAPE")>>
              [] \E b \in BatchIndex(info.layout) : b > Len(info.shape) ->
                     <<Refused("INTERNAL_ERROR")>>
              [] RequiresPreProcessing(m, i) -> BinaryChecks(m, i, info, modes)
              [] OTHER -> ArrayChecks(m, i, info, modes)

\* The first error, or else the last change that an input asks for.
Verdict(checks) ==
    LET changes == {k \in DOMAIN checks : checks[k][2] # "OK"}
    IN CASE \E k \in DOMAIN checks : checks[k][1] # "OK" ->
              FirstError([k \in DOMAIN checks |-> checks[k][1]])
         [] changes # {} -> checks[Max(changes)][2]
         [] OTHER -> "OK"

ChecksOf(m, names, infos, modes) ==
    FlattenSeq([k \in DOMAIN names |-> InputChecks(m, names[k], infos[names[k]], modes)])

\* RequestValidator::validate.
ValidateRequest(m, infos, modes) ==
    CASE NumberOfInputsStatus(m, infos) # "OK" -> NumberOfInputsStatus(m, infos)
      [] RequestCoherencyStatus(m) # "OK" -> RequestCoherencyStatus(m)
      [] OTHER -> Verdict(ChecksOf(m, SelectSeq(NameOrder, LAMBDA n : n \in DOMAIN infos),
                                   infos, modes))
=============================================================================
