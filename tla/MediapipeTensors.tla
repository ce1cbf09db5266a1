--------------------------- MODULE MediapipeTensors ---------------------------
(***************************************************************************)
(* The packets of a MediaPipe graph and the tensors of KServe messages:     *)
(* deserializeTensor and receiveAndSerializePacket in                       *)
(* src/mediapipe_internal/mediapipegraphexecutor.cpp, the Python tensor in  *)
(* src/python/ovms_py_tensor.cpp and the calculator that converts between   *)
(* the two, src/mediapipe_calculators/pytensor_ovtensor_converter.cc.       *)
(*                                                                         *)
(* A tensor of a message is [datatype, shape, size], size being the number  *)
(* of bytes of its buffer; a packet is [kind, shape, size], kind being what *)
(* the packet itself says of its elements.                                  *)
(***************************************************************************)
EXTENDS Integers, Sequences

Product(shape) ==
    LET p[i \in 0..Len(shape)] == IF i = 0 THEN 1 ELSE p[i - 1] * shape[i] IN p[Len(shape)]

KFSDataTypeSize(datatype) ==
    CASE datatype \in {"BOOL", "UINT8", "INT8", "BYTES"} -> 1
      [] datatype \in {"UINT16", "INT16", "FP16"}        -> 2
      [] datatype \in {"UINT32", "INT32", "FP32"}        -> 4
      [] datatype \in {"UINT64", "INT64", "FP64"}        -> 8
      [] OTHER -> 0

KnownDatatypes == {"BOOL", "UINT8", "UINT16", "UINT32", "UINT64", "INT8", "INT16",
                   "INT32", "INT64", "FP16", "FP32", "FP64"}

\* KServe data types and the precisions of OpenVINO.
PrecisionNames ==
    {<<"BOOL", "BOOL">>, <<"FP64", "FP64">>, <<"FP32", "FP32">>, <<"FP16", "FP16">>,
     <<"I64", "INT64">>, <<"I32", "INT32">>, <<"I16", "INT16">>, <<"I8", "INT8">>,
     <<"U64", "UINT64">>, <<"U32", "UINT32">>, <<"U16", "UINT16">>, <<"U8", "UINT8">>}

Lookup(pairs, key, otherwise) ==
    IF \E p \in pairs : p[1] = key THEN (CHOOSE p \in pairs : p[1] = key)[2] ELSE otherwise
Inverted(pairs) == {<<p[2], p[1]>> : p \in pairs}

KFSPrecisionToOvmsPrecision(datatype) == Lookup(Inverted(PrecisionNames), datatype, "UNDEFINED")
OvmsPrecisionToKFSPrecision(precision) == Lookup(PrecisionNames, precision, "INVALID")

\* The same with BF16, which has no data type in KServe.
FromKfsString(name) ==
    Lookup(Inverted(PrecisionNames) \cup {<<"BF16", "BF16">>}, name, "UNDEFINED")
ToKfsString(precision) == Lookup(PrecisionNames \cup {<<"BF16", "BF16">>}, precision, "UNKNOWN")

\* The packet types, by the tag of a stream: getStreamNamePair.
PacketType(tag) ==
    CASE tag = "REQUEST"        -> "KFS_REQUEST"
      [] tag = "RESPONSE"       -> "KFS_RESPONSE"
      [] tag = "TENSOR"         -> "MPTENSOR"
      [] tag = "TFTENSOR"       -> "TFTENSOR"
      [] tag = "TFLITE_TENSOR"  -> "TFLITETENSOR"
      [] tag = "OVTENSOR"       -> "OVTENSOR"
      [] tag = "OVMS_PY_TENSOR" -> "OVMS_PY_TENSOR"
      [] tag = "IMAGE"          -> "MEDIAPIPE_IMAGE"
      [] OTHER                  -> "UNKNOWN"

MPPrecisions == {"FP32", "FP16", "INT32", "INT8", "UINT8", "BOOL"}
KFSPrecisionToMPPrecision(datatype) == IF datatype \in MPPrecisions THEN datatype ELSE "kNone"
MPPrecisionToKFSPrecision(kind) == IF kind \in MPPrecisions THEN kind ELSE ""

\* Mutant: wide elements are taken for bytes.
KFSDatatypeToImageFormatOfBytes(datatype, channels) ==
    CASE datatype = "FP32" /\ channels \in {1, 2} -> "VEC32F"
      [] datatype # "FP32" /\ channels \in {1, 3, 4} -> "8"
      [] OTHER -> "UNKNOWN"

\* An image format, by the type of its elements and the number of channels.
KFSDatatypeToImageFormat(datatype, channels) ==
    CASE datatype = "FP32" /\ channels \in {1, 2}                 -> "VEC32F"
      [] datatype = "FP32" /\ channels = 4                        -> "VEC32F4"
      [] datatype \in {"UINT8", "INT8"} /\ channels \in {1, 3, 4} -> "8"
      [] datatype \in {"UINT16", "INT16", "FP16"} /\ channels \in {1, 3, 4} -> "16"
      [] OTHER -> "UNKNOWN"

\* VEC32F4 is missing from the table: UINT8 is the default.
ConvertImageFormatToKFSDataType(kind) ==
    CASE kind = "VEC32F" -> "FP32" [] kind = "16" -> "UINT16" [] OTHER -> "UINT8"

-----------------------------------------------------------------------------
(* deserializeTensor                                                        *)

Packet(kind, shape, size) ==
    [status |-> "OK", packet |-> [kind |-> kind, shape |-> shape, size |-> size]]
NoPacket(status) == [status |-> status, packet |-> [kind |-> "", shape |-> <<>>, size |-> 0]]

Negative(shape) == \E i \in DOMAIN shape : shape[i] < 0
DeclaredSize(t) == Product(t.shape) * KFSDataTypeSize(t.datatype)

\* The buffer is copied without a look at its size; the tensor has the size
\* its shape declares.
DeserializeMPTensor(t) ==
    CASE KFSPrecisionToMPPrecision(t.datatype) = "kNone" -> NoPacket("INVALID_PRECISION")
      [] \E i \in DOMAIN t.shape : t.shape[i] <= 0 -> NoPacket("INVALID_SHAPE")
      [] OTHER -> Packet(t.datatype, t.shape, DeclaredSize(t))

DeserializeTFTensor(t) ==
    CASE t.datatype \notin KnownDatatypes \ {"UINT32"} -> NoPacket("INVALID_PRECISION")
      [] Negative(t.shape) -> NoPacket("INVALID_SHAPE")
      [] t.size # DeclaredSize(t) -> NoPacket("INVALID_CONTENT_SIZE")
      [] OTHER -> Packet(t.datatype, t.shape, t.size)

\* The size of an ov::Tensor; an undefined precision has elements of size 0.
OVTensorSize(precision, shape) ==
    Product(shape) * (CASE precision \in {"BOOL", "U8", "I8"}            -> 1
                        [] precision \in {"U16", "I16", "FP16", "BF16"} -> 2
                        [] precision \in {"U32", "I32", "FP32"}         -> 4
                        [] precision \in {"U64", "I64", "FP64"}         -> 8
                        [] OTHER -> 0)

DeserializeOVTensor(t) ==
    LET precision == KFSPrecisionToOvmsPrecision(t.datatype)
    IN CASE Negative(t.shape) -> NoPacket("INVALID_SHAPE")
         [] t.size # OVTensorSize(precision, t.shape) -> NoPacket("INVALID_CONTENT_SIZE")
         [] precision = "UNDEFINED" -> NoPacket("UNKNOWN_ERROR")
         [] OTHER -> Packet(precision, t.shape, t.size)

DeserializeImageFrame(t) ==
    LET format == KFSDatatypeToImageFormat(t.datatype, t.shape[3])
    IN CASE Len(t.shape) # 3 \/ (\E i \in 1..3 : t.shape[i] <= 0) -> NoPacket("INVALID_SHAPE")
         [] t.size # DeclaredSize(t) -> NoPacket("INVALID_CONTENT_SIZE")
         [] format = "UNKNOWN" -> NoPacket("INVALID_INPUT_FORMAT")
         [] OTHER -> Packet(format, t.shape, t.size)

\* A data type the server does not know is left to the Python code, and the
\* buffer with it.  The declared size of a known one is computed with a check
\* for overflow that divides by the dimensions.
DeserializePyTensor(t) ==
    CASE Negative(t.shape) -> NoPacket("INVALID_SHAPE")
      [] t.datatype \in KnownDatatypes /\ (\E i \in DOMAIN t.shape : t.shape[i] = 0) ->
           NoPacket("DIVISION_BY_ZERO")
      [] t.datatype \in KnownDatatypes /\ t.size # DeclaredSize(t) ->
           NoPacket("INVALID_CONTENT_SIZE")
      [] OTHER -> Packet(t.datatype, t.shape, t.size)

DeserializeTensor(type, t) ==
    CASE type = "MPTENSOR"        -> DeserializeMPTensor(t)
      [] type = "TFTENSOR"        -> DeserializeTFTensor(t)
      [] type = "MEDIAPIPE_IMAGE" -> DeserializeImageFrame(t)
      [] type = "OVMS_PY_TENSOR"  -> DeserializePyTensor(t)
      [] OTHER                    -> DeserializeOVTensor(t)

-----------------------------------------------------------------------------
(* serializePacket and receiveAndSerializePacket                            *)

Tensor(datatype, p) == [datatype |-> datatype, shape |-> p.shape, size |-> p.size]

SerializeMPTensor(p) == Tensor(MPPrecisionToKFSPrecision(p.kind), p)
SerializeImageFrame(p) == Tensor(ConvertImageFormatToKFSDataType(p.kind), p)
SerializePyTensor(p) == Tensor(p.kind, p)
SerializeOVTensor(p) == Tensor(OvmsPrecisionToKFSPrecision(p.kind), p)
SerializeTFTensor(p) == Tensor(p.kind, p)

SerializePacket(type, p) ==
    CASE type = "MPTENSOR"        -> SerializeMPTensor(p)
      [] type = "TFTENSOR"        -> SerializeTFTensor(p)
      [] type = "MEDIAPIPE_IMAGE" -> SerializeImageFrame(p)
      [] type = "OVMS_PY_TENSOR"  -> SerializePyTensor(p)
      [] OTHER                    -> SerializeOVTensor(p)

-----------------------------------------------------------------------------
(* PyTensorOvTensorConverterCalculator                                      *)

ConvertToPyTensor(p) ==
    IF ToKfsString(p.kind) = "UNDEFINED" THEN NoPacket("INVALID_ARGUMENT")
    ELSE Packet(ToKfsString(p.kind), p.shape, p.size)

ConvertToOVTensor(p) ==
    LET precision == FromKfsString(p.kind)
    IN IF \/ precision = "UNDEFINED" \/ Negative(p.shape)
          \/ p.size # OVTensorSize(precision, p.shape)
         THEN NoPacket("INVALID_ARGUMENT")
         ELSE Packet(precision, p.shape, p.size)

=============================================================================
