------------------------------ MODULE RestParsing ------------------------------
(***************************************************************************)
(* The parsers of REST bodies (src/src/rest_parser.cpp) and the binary part *)
(* of a KServe body (http_rest_api_handler.cpp).  They give a message of    *)
(* module RequestValidation.                                                *)
(*                                                                         *)
(* A JSON value is [kind, num, text, items, names]; the kind is "int",      *)
(* "double" (a number written with a fraction), "bool", "string", "b64" (an *)
(* object whose only member is b64), "array", "object" (names[i] is the     *)
(* name of items[i]) or "other"; "invalid" is a text that is not JSON.      *)
(* A KServe body is [inputs, outputs, binary_data_output, tail]; its        *)
(* optional members are sets of at most one element, a member of an input   *)
(* that is missing or has the wrong kind makes its name empty.  tail is the *)
(* part behind the JSON; it is counted in elements, and so is the           *)
(* binary_data_size parameter.                                              *)
(***************************************************************************)
EXTENDS RequestValidation

Json(kind, num, text, items, names) ==
    [kind |-> kind, num |-> num, text |-> text, items |-> items, names |-> names]
JNumber(n) == Json("int", n, <<>>, <<>>, <<>>)
JString(s) == Json("string", 0, s, <<>>, <<>>)
JBinary(s) == Json("b64", 0, s, <<>>, <<>>)
JArray(items) == Json("array", 0, <<>>, items, <<>>)
JObject(names, items) == Json("object", 0, <<>>, items, names)

IsNumber(j) == j.kind \in {"int", "double"}
Members(j, name) == {i \in DOMAIN j.names : j.names[i] = name}

\* A double rounded to a float: 24 bits of mantissa, ties to even.
AsFloat(n) == IF n <= 2^24 \/ n % 2 = 0 THEN n ELSE IF n % 4 = 3 THEN n + 1 ELSE n - 1

-----------------------------------------------------------------------------
(* TFSRestParser.  A proto is a TensorProto under construction; precision is *)
(* its entry in tensorPrecisionMap.                                          *)

Proto(precision) ==
    [ok |-> TRUE, precision |-> precision, dtype |-> DataType("TFS", precision),
     dims |-> <<>>, values |-> <<>>]
UnknownProto == Proto("none")

Bad(p) == [p EXCEPT !.ok = FALSE]

\* A boolean and a type TensorFlow does not know have no number.
AddNumber(p, j) ==
    IF p.dtype \in Precisions \ {"BOOL"} THEN [p EXCEPT !.values = Append(@, j.num)] ELSE Bad(p)

AddString(p, text) ==
    [p EXCEPT !.dtype = "BYTES",
              !.values = IF p.dtype = "BYTES" THEN Append(@, text) ELSE <<text>>]

AddValue(p, j) ==
    CASE j.kind = "b64" -> AddString(p, j.text)
      [] j.kind = "string" /\ p.dtype \in {"U8", "BYTES"} -> AddString(p, j.text)
      [] IsNumber(j) -> AddNumber(p, j)
      [] OTHER -> Bad(p)

SetDimOrValidate(p, dim, size) ==
    IF Len(p.dims) > dim
    THEN IF p.dims[dim + 1] = size THEN p ELSE Bad(p)
    ELSE [p EXCEPT !.dims = @ \o [i \in 1..(dim - Len(@)) |-> 0] \o <<size>>]

SetDTypeIfNotSet(p, j) ==
    CASE p.precision # "none" -> p
      [] j.kind = "int" -> [p EXCEPT !.precision = "I32", !.dtype = "I32"]
      [] j.kind = "double" -> [p EXCEPT !.precision = "FP32", !.dtype = "FP32"]
      [] OTHER -> Bad(p)

\* A list is left at the first element that cannot be added.
AddAll(p, js) == FoldLeft(LAMBDA q, j : IF q.ok THEN AddValue(q, j) ELSE q, p, js)

RECURSIVE ParseArray(_, _, _)
ParseArray(p, j, dim) ==
    CASE j.kind = "b64" -> AddValue(p, j)
      [] j.kind = "string" /\ p.precision = "U8" /\ p.dtype \in {"U8", "BYTES"} -> AddValue(p, j)
      [] j.kind # "array" -> Bad(p)
      [] OTHER ->
           LET sized == SetDimOrValidate(p, dim, Len(j.items))
           IN CASE ~sized.ok \/ j.items = <<>> -> sized
                [] j.items[1].kind = "array" ->
                     FoldLeft(LAMBDA q, item : IF q.ok THEN ParseArray(q, item, dim + 1) ELSE q,
                              sized, j.items)
                [] OTHER ->
                     LET typed == SetDTypeIfNotSet(sized, j.items[1])
                     IN IF typed.ok THEN AddAll(typed, j.items) ELSE typed

IncreaseBatchSize(p) ==
    [p EXCEPT !.dims = IF @ = <<>> THEN <<1>> ELSE [@ EXCEPT ![1] = @ + 1]]

\* One named tensor of one instance.
AddInstanceValue(p, j) ==
    LET q == IncreaseBatchSize(p)
    IN IF IsNumber(j) \/ j.kind = "string"
       THEN IF Len(q.dims) > 1 THEN Bad(q) ELSE AddValue(q, j)
       ELSE IF q.dims[1] > 1 /\ Len(q.dims) = 1 THEN Bad(q) ELSE ParseArray(q, j, 1)

\* requestProto.inputs[name], created when it is not there.
ProtoOf(protos, name) == IF name \in DOMAIN protos THEN protos[name] ELSE UnknownProto

WithMembers(protos, j, Add(_, _)) ==
    FoldLeft(LAMBDA ps, i : LET name == j.names[i]
                            IN [n \in DOMAIN ps \cup {name} |->
                                   IF n = name THEN Add(ProtoOf(ps, name), j.items[i]) ELSE ps[n]],
             protos, [i \in DOMAIN j.names |-> i])

\* parseInstance stops at the first tensor it cannot add.
ParseInstance(protos, j) ==
    WithMembers(protos, j, LAMBDA p, item : IF p.ok THEN AddInstanceValue(p, item) ELSE p)

\* The scalar of a column ignores the result of addNumber.
AddColumn(p, j) ==
    IF IsNumber(j)
    THEN [AddNumber(SetDTypeIfNotSet(p, j), j) EXCEPT !.ok = TRUE]
    ELSE ParseArray(p, j, 0)

AllOk(protos) == \A n \in DOMAIN protos : protos[n].ok
Parsed(status, order, protos) == [status |-> status, order |-> order, protos |-> protos]
Failed(status) == Parsed(status, "UNKNOWN", <<>>)

\* Tensors that the body did not mention are removed.
OnlyNamed(protos, objects) ==
    [n \in {m \in DOMAIN protos : \E o \in objects : Members(o, m) # {}} |-> protos[n]]

\* The body holds one tensor without a name.
ParseNoNamed(j, protos, order, error) ==
    CASE Cardinality(DOMAIN protos) = 0 -> Failed("REST_INPUT_NOT_PREALLOCATED")
      [] Cardinality(DOMAIN protos) # 1 -> Failed("INVALID_INPUT_FORMAT")
      [] OTHER -> LET all == [n \in DOMAIN protos |-> ParseArray(protos[n], j, 0)]
                  IN IF AllOk(all) THEN Parsed("OK", order, all) ELSE Failed(error)

RowsOfNamed(named) ==
    IF \E n, m \in DOMAIN named : named[n].dims[1] # named[m].dims[1]
    THEN Failed("REST_INSTANCES_BATCH_SIZE_DIFFER") ELSE Parsed("OK", "ROW", named)

ParseInstances(j, protos) ==
    IF ~AllOk(protos) \/ \E o \in Range(j.items) : o.names = <<>>
    THEN Failed("REST_COULD_NOT_PARSE_INSTANCE") ELSE RowsOfNamed(OnlyNamed(protos, Range(j.items)))

ParseRowFormat(j, protos) ==
    CASE j.kind # "array" -> Failed("REST_INSTANCES_NOT_AN_ARRAY")
      [] j.items = <<>> -> Failed("REST_NO_INSTANCES_FOUND")
      [] j.items[1].kind \in {"array", "int", "double", "b64", "string"} ->
           ParseNoNamed(j, protos, "ROW", "REST_COULD_NOT_PARSE_INSTANCE")
      [] j.items[1].kind # "object" -> Failed("REST_INSTANCES_NOT_NAMED_OR_NONAMED")
      [] \E i \in DOMAIN j.items : j.items[i].kind \notin {"object", "b64"} ->
           Failed("REST_NAMED_INSTANCE_NOT_AN_OBJECT")
      [] OTHER -> ParseInstances(j, FoldLeft(ParseInstance, protos, j.items))

ColumnsOf(j, protos) ==
    IF AllOk(protos) THEN Parsed("OK", "COLUMN", OnlyNamed(protos, {j}))
    ELSE Failed("REST_COULD_NOT_PARSE_INPUT")

ParseColumnFormat(j, protos) ==
    CASE IsNumber(j) /\ Cardinality(DOMAIN protos) = 1 ->
           Parsed("OK", "COLUMN", [n \in DOMAIN protos |-> [AddNumber(protos[n], j) EXCEPT !.ok = TRUE]])
      [] j.kind = "array" -> ParseNoNamed(j, protos, "COLUMN", "REST_COULD_NOT_PARSE_INPUT")
      [] j.kind # "object" -> Failed("REST_INPUTS_NOT_AN_OBJECT")
      [] j.names = <<>> -> Failed("REST_NO_INPUTS_FOUND")
      [] OTHER -> ColumnsOf(j, WithMembers(protos, j, AddColumn))

TFSParse(body, infos) ==
    LET protos == [n \in DOMAIN infos |-> Proto(infos[n].precision)]
        rows == Members(body, "instances")
        columns == Members(body, "inputs")
    IN CASE body.kind = "invalid" -> Failed("JSON_INVALID")
         [] body.kind \notin {"object", "b64"} -> Failed("REST_BODY_IS_NOT_AN_OBJECT")
         [] (rows = {}) = (columns = {}) -> Failed("REST_PREDICT_UNKNOWN_ORDER")
         [] rows # {} -> ParseRowFormat(body.items[Min(rows)], protos)
         [] OTHER -> ParseColumnFormat(body.items[Min(columns)], protos)

\* The PredictRequest the parser leaves.
TFSMessage(protos) ==
    LET names == SelectSeq(NameOrder, LAMBDA n : n \in DOMAIN protos)
    IN [format |-> "TFS", raw |-> <<>>,
        inputs |-> [i \in DOMAIN names |->
            [name |-> names[i], dtype |-> protos[names[i]].dtype, dims |-> protos[names[i]].dims,
             field |-> TFSField(protos[names[i]].dtype), values |-> protos[names[i]].values]]]

-----------------------------------------------------------------------------
(* KFSRestParser *)

\* HANDLE_VALUE: the kinds a type is read from, and what is stored.
KFSElement(dtype, j) ==
    CASE dtype \in {"FP32", "FP64"} /\ IsNumber(j) -> {AsFloat(j.num)}
      [] dtype \in {"I64", "I32", "I16", "I8"} /\ j.kind = "int" -> {j.num}
      [] dtype \in {"U64", "U32", "U16", "U8"} /\ j.kind = "int" /\ j.num >= 0 -> {j.num}
      [] dtype = "BOOL" /\ j.kind = "bool" -> {j.num}
      [] dtype = "BYTES" /\ j.kind = "string" -> {j.text}
      [] OTHER -> {}

\* parseData: all the nested lists, one after the other.
RECURSIVE KFSFlatten(_)
KFSFlatten(j) ==
    IF j.kind = "array" THEN FlattenSeq([i \in DOMAIN j.items |-> KFSFlatten(j.items[i])])
                        ELSE <<j>>

KFSParseInput(input, onlyOne) ==
    LET data == IF input.data = {} THEN <<>> ELSE KFSFlatten(CHOOSE j \in input.data : TRUE)
    IN CASE input.name = "" \/ \E i \in DOMAIN input.shape : input.shape[i] < 0 ->
              "REST_COULD_NOT_PARSE_INPUT"
         [] input.size = {} /\ input.data = {} ->
              IF input.datatype = "BYTES" /\ ~(onlyOne /\ input.shape = <<1>>)
              THEN "REST_COULD_NOT_PARSE_INPUT" ELSE "OK"
         [] input.data = {} -> "OK"
         [] \E j \in input.data : j.kind # "array" -> "REST_COULD_NOT_PARSE_INPUT"
         [] KFSField(input.datatype) = "no contents" -> "REST_UNSUPPORTED_PRECISION"
         [] \E i \in DOMAIN data : KFSElement(input.datatype, data[i]) = {} ->
              "REST_COULD_NOT_PARSE_INPUT"
         [] OTHER -> "OK"

KFSTensor(input) ==
    LET data == IF input.data = {} THEN <<>> ELSE KFSFlatten(CHOOSE j \in input.data : TRUE)
    IN [name |-> input.name, dtype |-> input.datatype, dims |-> input.shape,
        field |-> KFSField(input.datatype),
        values |-> [i \in DOMAIN data |-> CHOOSE v \in KFSElement(input.datatype, data[i]) : TRUE]]

\* parseOutput clears the list it adds to: the last output requested is kept.
KFSParseOutputs(outputs) == IF outputs = <<>> THEN <<>> ELSE <<outputs[Len(outputs)]>>

KFSParse(body) ==
    CASE \E i \in DOMAIN body.outputs : body.outputs[i].name = "" -> "REST_COULD_NOT_PARSE_OUTPUT"
      [] body.inputs = <<>> -> "REST_NO_INPUTS_FOUND"
      [] OTHER -> FirstError([i \in DOMAIN body.inputs |->
                                 KFSParseInput(body.inputs[i], Len(body.inputs) = 1)])

-----------------------------------------------------------------------------
(* The binary data extension. *)

\* isInputEmpty has no case for booleans: they always count as missing.
IsInputEmpty(t) == t.dtype = "BOOL" \/ KFSField(t.dtype) = "no contents" \/ t.values = <<>>

\* Mutant: the offset is not moved on.
HandleBinaryInputAtStart(done, input, t, onlyOne, tail) ==
    LET size == IF input.size = {} THEN 0 ELSE (CHOOSE j \in input.size : TRUE).num
    IN IF done.status # "OK" \/ input.size = {} \/ size > Len(tail) THEN done
       ELSE [done EXCEPT !.raw = Append(@, SubSeq(tail, 1, size))]

\* One input of handleBinaryInputs; done is [status, offset, raw].
HandleBinaryInput(done, input, t, onlyOne, tail) ==
    LET size == CASE input.size # {} -> (CHOOSE j \in input.size : TRUE).num
                  [] onlyOne /\ t.dtype = "BYTES" -> Len(tail)
                  [] t.dtype \in Precisions -> Elements(t.dims)
                  [] OTHER -> 0
        end == done.offset + size
    IN CASE done.status # "OK" -> done
         [] input.size # {} /\ ~IsInputEmpty(t) ->
              [done EXCEPT !.status = "REST_CONTENTS_FIELD_NOT_EMPTY"]
         [] \E j \in input.size : j.kind # "int" ->
              [done EXCEPT !.status = "REST_BINARY_DATA_SIZE_PARAMETER_INVALID"]
         [] input.size = {} /\ ~IsInputEmpty(t) -> done
         [] end > Len(tail) -> [done EXCEPT !.status = "REST_BINARY_BUFFER_EXCEEDED"]
         [] OTHER -> [done EXCEPT !.offset = end,
                                  !.raw = Append(@, SubSeq(tail, done.offset + 1, end))]

HandleBinaryInputs(body) ==
    FoldLeft(LAMBDA done, i : HandleBinaryInput(done, body.inputs[i], KFSTensor(body.inputs[i]),
                                                Len(body.inputs) = 1, body.tail),
             [status |-> "OK", offset |-> 0, raw |-> <<>>], [i \in DOMAIN body.inputs |-> i])

\* prepareGrpcRequest.
KFSRestMessage(body) ==
    [format |-> "KFS", raw |-> HandleBinaryInputs(body).raw,
     inputs |-> [i \in DOMAIN body.inputs |-> KFSTensor(body.inputs[i])]]

KFSRestStatus(body) == LET parsed == KFSParse(body) IN
    IF parsed # "OK" THEN parsed ELSE HandleBinaryInputs(body).status

\* getRequestedBinaryOutputsNames: the default is for the outputs listed.
BinaryOutputs(body) ==
    LET wanted(o) == IF o.binary # {} THEN TRUE \in o.binary ELSE TRUE \in body.binary_data_output
    IN {o.name : o \in {p \in Range(KFSParseOutputs(body.outputs)) : wanted(p)}}
=============================================================================
