------------------------------ MODULE MCRequests ------------------------------
(* Models, configurations and requests of the frontends for TLC.             *)
EXTENDS Frontends

None == [n \in {} |-> n]

MCNameOrder == <<"a", "b", "first", "o", "p">>

Fixed(dims) == [k \in DOMAIN dims |-> <<dims[k], dims[k]>>]

\* One input a of this precision, shape and layout, copied to the output o.
Single(precision, shape, layout, strings) ==
    [shapes |-> [n \in {"a"} |-> shape], precisions |-> [n \in {"a", "o"} |-> precision],
     layouts |-> [n \in {"a", "o"} |-> layout], strings |-> strings, frozen |-> {},
     copies |-> [n \in {"o"} |-> "a"], mapping |-> None]

\* Two inputs; the second dimension of b cannot be changed.
Pair == [shapes |-> [n \in {"a", "b"} |-> IF n = "a" THEN Fixed(<<1, 2>>) ELSE Fixed(<<1, 1>>)],
         precisions |-> [n \in {"a", "b", "o", "p"} |-> IF n \in {"a", "o"} THEN "FP32" ELSE "I16"],
         layouts |-> [n \in {"a", "b", "o", "p"} |-> {}], strings |-> {}, frozen |-> {<<"b", 2>>},
         copies |-> [n \in {"o", "p"} |-> IF n = "o" THEN "a" ELSE "b"],
         mapping |-> [n \in {"a"} |-> "first"]]

MCModelFiles ==
    [path \in Precisions \cup {"pair", "image", "text", "text1"} |->
        CASE path = "pair" -> Pair
          [] path = "image" -> Single("U8", Fixed(<<2, 2, 1, 1>>), {<<"N", "H", "W", "C">>}, {})
          [] path = "text" -> Single("U8", <<AnyDimension, AnyDimension>>, {}, {"o"})
          [] path = "text1" -> Single("U8", <<AnyDimension>>, {}, {})
          [] OTHER -> Single(path, Fixed(<<1, 2>>), {}, {})]

-----------------------------------------------------------------------------
Written(path, batch, shapes, layouts) ==
    [path |-> path, batch |-> batch, shapes |-> shapes, layouts |-> layouts]
Plain(path) == Written(path, {}, None, None)

Auto == [auto |-> TRUE, text |-> <<>>]
AutoBatch == Written("pair", {Auto}, None, None)
AutoShape == Written("pair", {}, [n \in {ANONYMOUS} |-> Auto], None)
AutoOne == Written("pair", {}, [n \in {"first"} |-> Auto], None)
BatchTwo == Written("pair", {[auto |-> FALSE, text |-> <<2>>]}, None, None)
Ranges == Written("pair", {}, [n \in {"first"} |-> [auto |-> FALSE, text |-> <<<<1, 3>>, <<-1>>>>]], None)
Unknown == Written("pair", {}, [n \in {"a"} |-> Auto], None)
Frozen == Written("pair", {}, [n \in {"b"} |-> [auto |-> FALSE, text |-> <<<<1>>, <<2>>>>]], None)
NoBatch == Written("pair", {}, [n \in {ANONYMOUS} |-> Auto], [n \in {"first"} |-> <<"C", "W">>])
Malformed == Written("pair", {}, None, [n \in {"first"} |-> <<"N", "N">>])

PairConfigs == {Plain("pair"), AutoBatch, AutoShape, AutoOne, BatchTwo, Ranges, Unknown, Frozen,
                NoBatch, Malformed}
MCRewrites ==
    {Plain("pair")} \X PairConfigs \cup PairConfigs \X {Plain("pair")}
    \cup {<<AutoBatch, AutoShape>>, <<AutoBatch, BatchTwo>>, <<BatchTwo, AutoOne>>, <<Frozen, NoBatch>>}
OtherConfigs == {Plain(p) : p \in Precisions \cup {"image", "text", "text1"}}

-----------------------------------------------------------------------------
T(name, dtype, dims, values) == [name |-> name, dtype |-> dtype, dims |-> dims, values |-> values]
R(tensors) == [servable |-> "model", version |-> {}, tensors |-> tensors]

First(dims) == T("first", "FP32", dims, [k \in 1..Elements(dims) |-> k])
Second(dims) == T("b", "I16", dims, [k \in 1..Elements(dims) |-> 300 + k])

Sizes(first, second) == R(<<First(first), Second(second)>>)
SizeRequests ==
    {Sizes(<<1, 2>>, <<1, 1>>), Sizes(<<2, 2>>, <<2, 1>>), Sizes(<<2, 2>>, <<1, 1>>),
     Sizes(<<1, 3>>, <<1, 1>>), Sizes(<<1, 2>>, <<1, 2>>), Sizes(<<0, 2>>, <<0, 1>>)}

OtherRequests ==
    {R(<<Second(<<1, 1>>), First(<<1, 2>>)>>), R(<<First(<<1, 2>>)>>),
     R(<<T("a", "FP32", <<1, 2>>, <<1, 2>>), Second(<<1, 1>>)>>),
     R(<<First(<<1, 2>>), T("b", "I32", <<1, 1>>, <<1>>)>>),
     R(<<First(<<1, 2>>), T("b", "I16", <<1, 1>>, <<1, 2>>)>>),
     R(<<First(<<1, 2>>), T("b", "I16", <<1, -1>>, <<1>>)>>),
     R(<<First(<<1, 2>>), T("b", "I16", <<1>>, <<1>>)>>)}

Addresses ==
    {[servable |-> s, version |-> v, tensors |-> <<First(<<1, 2>>), Second(<<1, 1>>)>>] :
        s \in {"model"}, v \in {{0}, {1}, {2}, {NotANumber}}}
    \cup {[servable |-> s, version |-> {}, tensors |-> <<First(<<1, 2>>), Second(<<1, 1>>)>>] :
        s \in {"pipeline", "graph", "unknown"}}

Large(precision) ==
    CASE ElementSize(precision) = 1 -> 100
      [] ElementSize(precision) = 2 -> 300
      [] precision = "FP64" -> 2^24 + 1
      [] OTHER -> 70000

PrecisionRequests(p) ==
    {R(<<T("a", p, <<1, 2>>, <<1, IF p = "BOOL" THEN 0 ELSE Large(p)>>)>>), R(<<T("a", p, <<2, 1>>, <<1, 1>>)>>)}

ImageRequests ==
    {R(<<T("a", "BYTES", <<2>>, <<<<2, 1, 1, 7>>, <<2, 1, 1, 8>>>>)>>),
     R(<<T("a", "BYTES", <<2>>, <<<<2, 1, 1, 7>>, <<4, 2, 1, 8>>>>)>>),
     R(<<T("a", "BYTES", <<2>>, <<<<2, 1, 1, 7>>, <<2, 1, 3, 8>>>>)>>),
     R(<<T("a", "BYTES", <<2>>, <<<<2, 1, 1, 7>>, <<9>>>>)>>),
     R(<<T("a", "BYTES", <<1>>, <<<<2, 1, 1, 7>>>>)>>),
     R(<<T("a", "U8", <<2, 2, 1, 1>>, <<1, 2, 3, 4>>)>>)}

TextRequests ==
    {R(<<T("a", "BYTES", <<2>>, <<<<5, 6>>, <<7>>>>)>>), R(<<T("a", "BYTES", <<1>>, <<<<>>>>)>>),
     R(<<T("a", "BYTES", <<2, 1>>, <<<<5, 6>>, <<7>>>>)>>),
     R(<<T("a", "BYTES", <<1>>, <<<<1, 2, 3, 4, 5, 6, 7, 8>>>>)>>),
     R(<<T("a", "U8", <<1, 2>>, <<1, 0>>)>>), R(<<T("a", "U8", <<2>>, <<1, 2>>)>>)}

MCRequestsOf ==
    [w \in PairConfigs \cup OtherConfigs |->
        CASE w = Plain("pair") -> SizeRequests \cup OtherRequests \cup Addresses
          [] w \in {AutoBatch, AutoShape} -> SizeRequests \cup OtherRequests
          [] w = Unknown -> Addresses
          [] w.path = "pair" -> SizeRequests
          [] w.path = "image" -> ImageRequests
          [] w.path \in {"text", "text1"} -> TextRequests
          [] OTHER -> PrecisionRequests(w.path)]

MCCapiTensors == {First(<<1, 2>>), First(<<2, 2>>), Second(<<1, 1>>)}
MCCapiRequests == {AutoBatch}
=============================================================================
