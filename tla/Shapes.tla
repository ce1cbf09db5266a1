------------------------------- MODULE Shapes -------------------------------
(***************************************************************************)
(* Dimensions, shapes and layouts (src/src/shape.cpp, layout.cpp and the    *)
(* parts of tensorinfo.cpp that combine them).  A dimension is the pair     *)
(* <<minimum, maximum>>; -1 stands for an unknown bound and only            *)
(* AnyDimension has it.  A shape is a sequence of dimensions, the shape of an actual *)
(* tensor a sequence of lengths.  std::optional<T> is a set with at most    *)
(* one element.  A layout is a sequence of letters in which "etc" stands    *)
(* for the three dots.                                                      *)
(***************************************************************************)
EXTENDS Integers, Sequences, FiniteSets

DYNAMIC_DIMENSION == -1

AnyDimension == <<DYNAMIC_DIMENSION, DYNAMIC_DIMENSION>>

\* The dimensions that the constructors of Dimension accept.
Dimension == {AnyDimension} \cup {d \in Nat \X Nat : d[1] <= d[2]}

IsAny(d) == d = AnyDimension
IsDynamic(d) == d[1] # d[2] \/ d[1] = DYNAMIC_DIMENSION

\* Dimension::match, of an actual length v.
Match(d, v) ==
    /\ v >= -1
    /\ \/ IsAny(d)
       \/ d[1] <= v /\ v <= d[2]

PartiallyFitsInto(d, next) ==
    \/ IsAny(next) \/ IsAny(d)
    \/ ~IsDynamic(d) /\ Match(next, d[1])
    \/ IsDynamic(d) /\ ~IsDynamic(next) /\ Match(d, next[1])
    \/ IsDynamic(d) /\ IsDynamic(next) /\ next[1] <= d[2] /\ d[1] <= next[2]

\* Dimension::createIntersection.
DimensionIntersection(d, other) ==
    IF IsAny(d) THEN {other}
    ELSE IF IsAny(other) THEN {d}
    ELSE LET start == IF d[1] > other[1] THEN d[1] ELSE other[1]
             end == IF d[2] < other[2] THEN d[2] ELSE other[2]
         IN IF end < start THEN {} ELSE {<<start, end>>}

-----------------------------------------------------------------------------
(* Shapes *)

ShapeMatch(shape, dims) ==
    /\ Len(shape) = Len(dims)
    /\ \A i \in DOMAIN shape : Match(shape[i], dims[i])

\* Shape::match(ovShape, skipPosition), positions counted from 1.
ShapeMatchSkipping(shape, dims, skip) ==
    /\ Len(shape) = Len(dims)
    /\ \A i \in DOMAIN shape \ {skip} : Match(shape[i], dims[i])

\* Shape::createIntersection.
ShapeIntersection(shape, other) ==
    IF \/ Len(shape) # Len(other)
       \/ \E i \in DOMAIN shape : DimensionIntersection(shape[i], other[i]) = {}
    THEN {}
    ELSE {[i \in DOMAIN shape |->
              CHOOSE d \in DimensionIntersection(shape[i], other[i]) : TRUE]}

\* Reading a dimension from the configuration.  A written dimension is the
\* sequence of its numbers: <<n>> for "n", <<a, b>> for "a:b"; anything else
\* (a letter, a second sign or colon, an overflowing number) is <<>>.
DimensionFromString(text) ==
    CASE Len(text) = 1 /\ text[1] >= DYNAMIC_DIMENSION -> {<<text[1], text[1]>>}
      [] Len(text) = 2 /\ text[1] > 0 /\ text[2] >= text[1] -> {<<text[1], text[2]>>}
      [] OTHER -> {}

\* The dimension inside a written shape: a range must grow and may start at 0.
ShapeDimensionFromString(text) ==
    CASE Len(text) = 1 /\ text[1] >= DYNAMIC_DIMENSION -> {<<text[1], text[1]>>}
      [] Len(text) = 2 /\ text[1] >= 0 /\ text[1] < text[2] -> {<<text[1], text[2]>>}
      [] OTHER -> {}

ShapeFromString(texts) ==
    IF texts = <<>> \/ \E i \in DOMAIN texts : ShapeDimensionFromString(texts[i]) = {}
    THEN {}
    ELSE {[i \in DOMAIN texts |-> CHOOSE d \in ShapeDimensionFromString(texts[i]) : TRUE]}

-----------------------------------------------------------------------------
(* Layouts *)

UNDEFINED_DIMENSION_CHAR == "?"
DimensionLetters == {"N", "C", "H", "W", "D"}
UnspecifiedLayout == <<"etc">>

DefaultLayout(numOfDimensions) ==
    IF numOfDimensions = 0 THEN UnspecifiedLayout ELSE <<"N", "etc">>

Positions(layout, c) == {i \in DOMAIN layout : layout[i] = c}
ContainsEtc(layout) == Positions(layout, "etc") # {}

ValidLayout(layout) ==
    /\ \A i \in DOMAIN layout :
          layout[i] \in DimensionLetters \cup {UNDEFINED_DIMENSION_CHAR, "etc"}
    /\ \A c \in DimensionLetters \cup {"etc"} : Cardinality(Positions(layout, c)) <= 1

\* Layout::retrieveBatchIndex, counted from 1: none behind the dots.
BatchIndex(layout) ==
    {i \in Positions(layout, "N") :
        /\ ValidLayout(layout)
        /\ \A e \in Positions(layout, "etc") : i < e}

KnownDimensions(layout) == Len(layout) - Cardinality(Positions(layout, "etc"))

IsCompatible(layout, shape) ==
    IF ContainsEtc(layout) THEN KnownDimensions(layout) <= Len(shape)
                           ELSE KnownDimensions(layout) = Len(shape)

\* The dots replaced by question marks, so that the layout has n letters.
SpellOut(layout, n) ==
    IF ~ContainsEtc(layout) THEN layout
    ELSE LET e == CHOOSE i \in DOMAIN layout : layout[i] = "etc"
         IN SubSeq(layout, 1, e - 1)
            \o [i \in 1..(n - KnownDimensions(layout)) |-> UNDEFINED_DIMENSION_CHAR]
            \o SubSeq(layout, e + 1, Len(layout))

\* Layout::createIntersection.
LayoutIntersection(layout, other, n) ==
    IF \/ ContainsEtc(layout) /\ KnownDimensions(layout) > n
       \/ ContainsEtc(other) /\ KnownDimensions(other) > n
    THEN {}
    ELSE LET lhs == SpellOut(layout, n)
             rhs == SpellOut(other, n)
             clash(i) == /\ lhs[i] # rhs[i]
                         /\ rhs[i] # UNDEFINED_DIMENSION_CHAR
                         /\ \/ lhs[i] # UNDEFINED_DIMENSION_CHAR
                            \/ rhs[i] \in {lhs[j] : j \in DOMAIN lhs}
         IN IF Len(lhs) # Len(rhs) \/ Len(lhs) # n \/ \E i \in DOMAIN lhs : clash(i)
            THEN {}
            ELSE {[i \in DOMAIN lhs |->
                      IF lhs[i] = UNDEFINED_DIMENSION_CHAR THEN rhs[i] ELSE lhs[i]]}

-----------------------------------------------------------------------------
(* Tensor infos: [shape, precision, layout]. *)

UnspecifiedTensorInfo ==
    [shape |-> <<>>, precision |-> "UNDEFINED", layout |-> UnspecifiedLayout]

\* TensorInfo::createIntersection of two infos of one name.
TensorInfoIntersection(info, other) ==
    IF info = UnspecifiedTensorInfo THEN {other}
    ELSE IF other = UnspecifiedTensorInfo THEN {info}
    ELSE {[shape |-> s, precision |-> p, layout |-> l] :
            s \in ShapeIntersection(info.shape, other.shape),
            p \in {q \in {info.precision, other.precision} :
                     \/ info.precision = other.precision
                     \/ q # "UNDEFINED" /\ "UNDEFINED" \in {info.precision, other.precision}},
            l \in LayoutIntersection(info.layout, other.layout, Len(info.shape))}

\* TensorInfo::createCopyWithDemultiplexerDimensionPrefix.
WithDemultiplexerPrefix(info, dim) ==
    [info EXCEPT
        !.shape = <<dim>> \o @,
        !.layout = <<"N">> \o [i \in DOMAIN @ |-> IF @[i] = "N" THEN UNDEFINED_DIMENSION_CHAR
                                                          ELSE @[i]]]

\* TensorInfo::getBatchSize: the first dimension when the layout is silent.
BatchSize(info) ==
    IF BatchIndex(info.layout) # {} THEN {info.shape[i] : i \in BatchIndex(info.layout)}
    ELSE IF info.shape # <<>> THEN {info.shape[1]} ELSE {}
=============================================================================
