----------------------------- MODULE MCMediapipe -----------------------------
(***************************************************************************)
(* A stream or a unary call, graphs of one and of two inputs, a Python node *)
(* that returns, one that yields, and graphs that are refused.              *)
(***************************************************************************)
EXTENDS MediapipeGraphExecutor

Stream(tag, name) == [tag |-> tag, name |-> name]
MCGraphOf(inputs, outputs, calculator, script) ==
  [inputs |-> inputs, outputs |-> outputs, calculator |-> calculator, script |-> script,
   loopback |-> script = "yields"]

A == Stream("TENSOR", "a")
B == Stream("OVTENSOR", "b")
P == Stream("OVMS_PY_TENSOR", "a")
Q == Stream("OVMS_PY_TENSOR", "b")
Out1 == Stream("TENSOR", "x")
Out2 == Stream("OVTENSOR", "y")
PyOut == Stream("OVMS_PY_TENSOR", "x")

MCGraph ==
  [f \in {"pass", "python", "generator", "refused"} |->
     CASE f = "pass"      -> MCGraphOf(<<A, B>>, <<Out1, Out2>>, "PassThrough", "none")
       [] f = "python"    -> MCGraphOf(<<P, Q>>, <<PyOut>>, "PythonExecutorCalculator", "returns")
       [] f = "generator" -> MCGraphOf(<<P>>, <<PyOut>>, "PythonExecutorCalculator", "yields")
       [] OTHER -> MCGraphOf(<<P>>, <<PyOut>>, "PythonExecutorCalculator", "raises")]

Good == [datatype |-> "FP32", shape |-> <<1>>, size |-> 4]
Short == [datatype |-> "FP32", shape |-> <<1>>, size |-> 2]
Input(name, tensor) == [name |-> name, tensor |-> tensor]
Ask(inputs) == [right |-> TRUE, stamp |-> "auto", at |-> 0, parameter |-> "none",
                inputs |-> inputs, raw |-> Len(inputs)]
AskAt(inputs, at) == [Ask(inputs) EXCEPT !.stamp = "manual", !.at = at]

Both == <<Input("a", Good), Input("b", Good)>>
One == <<Input("a", Good)>>

MCAsks ==
  [kind \in {"unary", "stream"} |->
     IF kind = "unary"
       THEN {Ask(Both), Ask(One), [Ask(One) EXCEPT !.parameter = "py"],
             Ask(<<Input("a", Good), Input("b", Short)>>), Ask(<<Input("a", Good), Input("c", Good)>>)}
       ELSE {Ask(Both), Ask(One), AskAt(One, 1),
             Ask(<<Input("a", Good), Input("b", Short)>>), Ask(One \o One),
             [Ask(One) EXCEPT !.stamp = "wrong", !.right = FALSE]}]

\* Every data type, known or not, with shapes of images and others, and buffers
\* that have the declared size or not.
MCEchoed ==
  [datatype : KnownDatatypes \cup {"BYTES", "BF16", "custom"},
   shape : {<<>>, <<2>>, <<0, 2>>, <<1, 2, 1>>, <<2, 1, 2>>, <<1, 1, 3>>, <<1, 1, 4>>, <<-1, 2>>},
   size : {0, 1, 2, 4, 6, 8, 12, 16}]

=============================================================================
