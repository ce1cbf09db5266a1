----------------------------- MODULE TensorCodecs -----------------------------
(***************************************************************************)
(* From a message to the tensors OpenVINO gets, and from its output tensors *)
(* to the response: deserialization.hpp, tensor_conversion.cpp,             *)
(* serialization.cpp and rest_utils.cpp of src/src.                         *)
(*                                                                         *)
(* A tensor is [precision, dims, values].  A number is written in the order *)
(* of its bytes, lowest first, whatever its type.  An image is the sequence *)
(* <<rows, columns, channels, pixel>> of bytes, all its pixels alike; OpenCV *)
(* cannot decode any other sequence.                                        *)
(***************************************************************************)
EXTENDS RestParsing

Tensor(precision, dims, values) == [precision |-> precision, dims |-> dims, values |-> values]
Got(tensor) == [status |-> "OK", tensor |-> tensor]
NoTensor(status) == [status |-> status, tensor |-> Tensor("UNDEFINED", <<>>, <<>>)]

\* The n lowest bytes of a number (none here needs more than four).
BytesOf(v, n) == [i \in 1..n |-> IF i > 4 THEN 0 ELSE (v \div 256^(i - 1)) % 256]

-----------------------------------------------------------------------------
(* Images *)

ImageLayout == <<"N", "etc", "H", "W", "C">>
ImagePrecisions == {"FP32", "FP64", "FP16", "I16", "U8", "I8", "U16", "I32"}

Decodable(bytes) == Len(bytes) = 4
DecodeImage(bytes) ==
    [rows |-> bytes[1], cols |-> bytes[2], channels |-> bytes[3], pixel |-> bytes[4]]

\* validateTensor
ImageTensorStatus(m, values, info) ==
    CASE LayoutIntersection(info.layout, ImageLayout, Len(info.shape)) = {} -> "UNSUPPORTED_LAYOUT"
      [] Len(info.shape) # 4 -> "INVALID_SHAPE"
      [] values = <<>> \/ ~\E b \in BatchSize(info) : Match(b, Len(values)) -> "INVALID_BATCH_SIZE"
      [] ~InRaw(m) /\ \E k \in DOMAIN values : values[k] = <<>> ->
           IF m.format = "TFS" THEN "STRING_VAL_EMPTY" ELSE "BYTES_CONTENTS_EMPTY"
      [] OTHER -> "OK"

\* updateTargetResolution: the nearest length a dimension allows.
NearestLength(d, n) ==
    CASE IsAny(d) \/ Match(d, n) -> n
      [] n > d[2] -> d[2]
      [] OTHER -> d[1]
TargetLength(d, n) == IF IsDynamic(d) THEN NearestLength(d, n) ELSE d[1]

IsResizeSupported(info) ==
    /\ \A i \in DOMAIN info.shape : ~IsAny(info.shape[i])
    /\ info.layout \in {<<"N", "H", "W", "C">>, <<"N", "?", "H", "W", "C">>, UnspecifiedLayout}

\* validateInput, convertPrecision and resizeMat of one image of a batch.
ImageStatus(info, first, image) ==
    LET channels == IF IsAny(info.shape[4]) THEN <<first.channels, first.channels>> ELSE info.shape[4]
        target == <<TargetLength(info.shape[2], first.rows), TargetLength(info.shape[3], first.cols)>>
    IN CASE ~IsResizeSupported(info) /\ <<image.rows, image.cols>> # <<first.rows, first.cols>> ->
              "BINARY_IMAGES_RESOLUTION_MISMATCH"
         [] ~Match(channels, image.channels) -> "INVALID_NO_OF_CHANNELS"
         [] info.precision \notin ImagePrecisions -> "INVALID_PRECISION"
         [] ~IsResizeSupported(info) /\ <<image.rows, image.cols>> # target -> "INVALID_SHAPE"
         [] OTHER -> "OK"

Pixels(image, rows, cols) == [x \in 1..(rows * cols * image.channels) |-> image.pixel]
TensorFromImages(values, info, rows, cols) ==
    Tensor(info.precision, <<Len(values), rows, cols, DecodeImage(values[1]).channels>>,
           FlattenSeq([k \in DOMAIN values |-> Pixels(DecodeImage(values[k]), rows, cols)]))

ImageStates(values, info, first) ==
    [k \in DOMAIN values |-> IF Decodable(values[k]) THEN ImageStatus(info, first, DecodeImage(values[k]))
                                                    ELSE "IMAGE_PARSING_FAILED"]

ImagesOrError(values, info, first, status) ==
    IF status # "OK" THEN NoTensor(status)
    ELSE Got(TensorFromImages(values, info, TargetLength(info.shape[2], first.rows),
                              TargetLength(info.shape[3], first.cols)))

\* convertNativeFileFormatRequestTensorToOVTensor
ImagesToTensor(m, values, info) ==
    IF ImageTensorStatus(m, values, info) # "OK" THEN NoTensor(ImageTensorStatus(m, values, info))
    ELSE ImagesOrError(values, info, DecodeImage(values[1]),
                       FirstError(ImageStates(values, info, DecodeImage(values[1]))))

-----------------------------------------------------------------------------
(* Strings *)

\* Rows of equal width, filled up with zeros.
StringsTo2D(strings) ==
    LET width == StringWidth(strings)
        row(s) == s \o [x \in 1..(width - Len(s)) |-> 0]
    IN Tensor("U8", <<Len(strings), width>>, FlattenSeq([k \in DOMAIN strings |-> row(strings[k])]))

\* The number of strings, where the first starts, where each ends, and then
\* the characters.
StringsTo1D(strings) ==
    LET end(k) == Len(FlattenSeq(SubSeq(strings, 1, k)))
        offsets == FlattenSeq([k \in 1..(Len(strings) + 1) |-> BytesOf(end(k - 1), 4)])
        values == BytesOf(Len(strings), 4) \o offsets \o FlattenSeq(strings)
    IN Tensor("U8", <<Len(values)>>, values)

\* convertOVTensor2DToStringResponse: a row ends at its first zero.
StringsOf2D(tensor) ==
    LET width == tensor.dims[2]
        row(k) == SubSeq(tensor.values, (k - 1) * width + 1, k * width)
        length(r) == Min({x - 1 : x \in {y \in DOMAIN r : r[y] = 0}} \cup {width})
    IN [k \in 1..tensor.dims[1] |-> SubSeq(row(k), 1, length(row(k)))]

-----------------------------------------------------------------------------
(* deserializePredictRequest *)

Deserializable(m, precision) ==
    CASE m.format = "TFS" ->
           precision \in {"FP32", "I32", "FP64", "I64", "U8", "I16", "I8", "FP16", "U16"}
      [] m.format = "KFS" /\ ~InRaw(m) -> precision # "FP16"
      [] OTHER -> TRUE

DeserializeInput(m, i, info) ==
    LET t == m.inputs[i]
    IN IF RequiresPreProcessing(m, i)
       THEN CASE PreProcessingHint(info) = "STRING_1D_U8" -> Got(StringsTo1D(ValuesOf(m, i)))
              [] PreProcessingHint(info) = "STRING_2D_U8" -> Got(StringsTo2D(ValuesOf(m, i)))
              [] PreProcessingHint(info) = "IMAGE" -> ImagesToTensor(m, ValuesOf(m, i), info)
              [] OTHER -> NoTensor("NOT_IMPLEMENTED")
       ELSE IF Deserializable(m, info.precision)
            THEN Got(Tensor(info.precision, t.dims, ValuesOf(m, i)))
            ELSE NoTensor("OV_UNSUPPORTED_DESERIALIZATION_PRECISION")

\* OpenVINO takes a tensor of the precision and a shape of the input it is for.
FitsNetwork(net, precisions, name, tensor) ==
    tensor.precision = precisions[name] /\ ShapeMatch(net.shapes[name], tensor.dims)

DeserializedAll(names, got, infos, net, precisions) ==
    [status |-> FirstError([k \in DOMAIN names |->
                    IF /\ got[names[k]].status = "OK"
                       /\ ~FitsNetwork(net, precisions, infos[names[k]].name, got[names[k]].tensor)
                    THEN "OV_INTERNAL_DESERIALIZATION_ERROR" ELSE got[names[k]].status]),
     tensors |-> [r \in {infos[n].name : n \in DOMAIN infos} |->
                     got[CHOOSE n \in DOMAIN infos : infos[n].name = r].tensor]]

Deserialize(m, infos, net, precisions) ==
    DeserializedAll(SelectSeq(NameOrder, LAMBDA n : n \in DOMAIN infos),
                    [n \in DOMAIN infos |-> DeserializeInput(m, FirstIndex(m, n), infos[n])],
                    infos, net, precisions)

-----------------------------------------------------------------------------
(* serializePredictResponse.  An output of a response is [name, dtype, dims, *)
(* place, values]: place says where the values are.                          *)

\* createProcessingHints: an output whose name ends with _string.
IsStringOutput(info) == info.precision = "U8" /\ Len(info.shape) = 2 /\ info.isString

Serializable(format, precision) ==
    CASE format = "TFS" -> precision \notin {"BOOL", "U32", "U64"}
      [] format = "CAPI" -> precision # "BOOL"
      [] OTHER -> TRUE

\* A KServe message has no contents for FP16, and none are written for
\* booleans.
SerializeOutput(m, name, info, tensor) ==
    LET output(dtype, dims, place, values) ==
            [name |-> name, dtype |-> dtype, dims |-> dims, place |-> place, values |-> values]
        dtype == DataType(m.format, info.precision)
        place == IF InRaw(m) THEN "raw" ELSE IF m.format = "KFS" THEN "contents" ELSE "content"
    IN CASE IsStringOutput(info) /\ m.format # "CAPI" ->
              output("BYTES", <<tensor.dims[1]>>, IF InRaw(m) THEN "raw" ELSE "strings",
                     StringsOf2D(tensor))
         [] place = "contents" /\ info.precision \in {"BOOL", "FP16"} ->
              output(dtype, tensor.dims, place, <<>>)
         [] OTHER -> output(dtype, tensor.dims, place, tensor.values)

SerializeStatus(m, info, tensor) ==
    CASE IsStringOutput(info) /\ m.format # "CAPI" -> "OK"
      [] info.precision # tensor.precision \/ ~ShapeMatch(info.shape, tensor.dims) -> "INTERNAL_ERROR"
      [] ~Serializable(m.format, info.precision) -> "OV_UNSUPPORTED_SERIALIZATION_PRECISION"
      [] OTHER -> "OK"

Serialized(m, names, outInfos, tensors, status) ==
    [status |-> status,
     outputs |-> IF status # "OK" THEN <<>>
                 ELSE [k \in DOMAIN names |->
                     SerializeOutput(m, names[k], outInfos[names[k]], tensors[outInfos[names[k]].name])]]
SerializeNamed(m, names, outInfos, tensors) ==
    Serialized(m, names, outInfos, tensors,
               FirstError([k \in DOMAIN names |->
                   SerializeStatus(m, outInfos[names[k]], tensors[outInfos[names[k]].name])]))

Serialize(m, outInfos, tensors) ==
    SerializeNamed(m, SelectSeq(NameOrder, LAMBDA n : n \in DOMAIN outInfos), outInfos, tensors)

-----------------------------------------------------------------------------
(* makeJsonFromPredictResponse *)

TFSJsonTypes == {"FP32", "I32", "I8", "U8", "FP64", "I16", "I64", "U32", "U64", "BYTES"}

TFSJsonStatus(outputs) ==
    IF \E k \in DOMAIN outputs : outputs[k].dtype \notin TFSJsonTypes
    THEN "REST_UNSUPPORTED_PRECISION" ELSE "OK"

KFSJsonTypes == (Precisions \ {"BOOL", "FP16"}) \cup {"BYTES"}

\* checkValField of an output whose values are in the contents.
KFSJsonStatus(outputs) ==
    LET state(o) ==
            CASE o.dtype \notin KFSJsonTypes -> "REST_UNSUPPORTED_PRECISION"
              [] o.place = "contents" /\ Len(o.values) # Elements(o.dims) ->
                   "REST_SERIALIZE_VAL_FIELD_INVALID_SIZE"
              [] OTHER -> "OK"
    IN IF outputs = <<>> THEN "REST_PROTO_TO_STRING_ERROR"
       ELSE FirstError([k \in DOMAIN outputs |-> state(outputs[k])])

\* The size of a number in the field of InferTensorContents that holds it.
ContentsSize(dtype) ==
    CASE dtype \in {"I8", "I16", "I32", "U8", "U16", "U32", "FP32"} -> 4
      [] OTHER -> 8

\* Mutant: the size of the type is not taken into account.
BinaryOutputShort(o) ==
    SubSeq(FlattenSeq([k \in DOMAIN o.values |-> BytesOf(o.values[k], ElementSize(o.dtype))]),
           1, Elements(o.dims))

\* The bytes of a binary output: expectedContentSize bytes from the start of
\* the buffer, which has wider numbers when it is a field of the contents.
BinaryOutput(o) ==
    LET size == ElementSize(o.dtype)
        stored == IF o.place = "contents" THEN ContentsSize(o.dtype) ELSE size
        buffer == FlattenSeq([k \in DOMAIN o.values |-> BytesOf(o.values[k], stored)])
    IN SubSeq(buffer, 1, size * Elements(o.dims))

-----------------------------------------------------------------------------
(* http(status): the code of a REST answer (http_server.cpp). *)

HttpStatus(status) ==
    CASE status \in {"OK", "OK_NOT_RELOADED"} -> 200
      [] status = "OK_RELOADED" -> 201
      [] status \in {"REST_INVALID_URL", "REST_BODY_IS_NOT_AN_OBJECT", "REST_PREDICT_UNKNOWN_ORDER",
             "REST_INSTANCES_NOT_AN_ARRAY", "REST_NAMED_INSTANCE_NOT_AN_OBJECT",
             "REST_NO_INSTANCES_FOUND", "REST_INSTANCES_NOT_NAMED_OR_NONAMED",
             "REST_COULD_NOT_PARSE_INSTANCE", "REST_INSTANCES_BATCH_SIZE_DIFFER",
             "REST_INPUTS_NOT_AN_OBJECT", "REST_NO_INPUTS_FOUND", "REST_COULD_NOT_PARSE_INPUT",
             "REST_COULD_NOT_PARSE_OUTPUT", "REST_UNSUPPORTED_PRECISION", "REST_BINARY_BUFFER_EXCEEDED",
             "INVALID_NO_OF_INPUTS", "INVALID_MISSING_INPUT", "INVALID_NO_OF_SHAPE_DIMENSIONS",
             "INVALID_BATCH_SIZE", "INVALID_SHAPE", "INVALID_INPUT_FORMAT", "INVALID_PRECISION",
             "INVALID_VALUE_COUNT", "INVALID_CONTENT_SIZE", "INVALID_MESSAGE_STRUCTURE",
             "UNSUPPORTED_LAYOUT", "INVALID_NO_OF_CHANNELS", "BINARY_IMAGES_RESOLUTION_MISMATCH",
             "STRING_VAL_EMPTY"} -> 400
      [] status \in {"REST_NOT_FOUND", "MODEL_NAME_MISSING", "MODEL_VERSION_MISSING",
             "MODEL_VERSION_NOT_LOADED_ANYMORE", "MEDIAPIPE_DEFINITION_NAME_MISSING"} -> 404
      [] status = "REST_UNSUPPORTED_METHOD" -> 406
      [] status \in {"JSON_INVALID", "RESHAPE_ERROR"} -> 412
      [] status = "MODEL_VERSION_NOT_LOADED_YET" -> 503
      [] OTHER -> 500
=============================================================================
