--------------------------- MODULE MCModelVersions ---------------------------
(* Model of a model's versions for TLC: a repository that is being edited.   *)
EXTENDS ModelVersions

MCModelFiles == {<<"model.xml">>, <<"model.bin">>}
MCAccepted == {"model.xml", "model.bin"}

Latest(n) == [kind |-> "latest", n |-> n, versions |-> {}]
Default == [kind |-> "absent", n |-> 0, versions |-> {}]
All == [kind |-> "all", n |-> 0, versions |-> {}]
Specific(vs) == [kind |-> "specific", n |-> 0, versions |-> vs]

Config(base, policy, other, dynamic, withLoader, isStateful) ==
  [base |-> base, policy |-> policy, layout |-> 0, other |-> other,
   stateful |-> isStateful, dynamic |-> dynamic, lowLatency |-> isStateful,
   loader |-> withLoader, idle |-> isStateful]

MCSettings ==
  [c \in {"latest", "all", "loader", "stateful"} |->
     CASE c = "latest"   -> Config("A", Default, 0, TRUE, FALSE, FALSE)
       [] c = "all"      -> Config("A", All, 0, TRUE, FALSE, FALSE)
       [] c = "loader"   -> Config("A", Specific({0, 1}), 1, FALSE, TRUE, FALSE)
       [] c = "stateful" -> Config("A", All, 0, FALSE, FALSE, TRUE)]

Complete(b, v) == {<<"models", b, v>> \o f : f \in MCModelFiles}

\* Versions 1 and 2 are complete and 1 has more than it needs, version 10 lacks
\* a file, and one directory is not a version.
MCRepository ==
  Complete("A", 1) \cup Complete("A", 2)
    \cup {<<"models", "A", 10, "model.xml">>, <<"models", "A", 0, "model.xml">>,
          <<"models", "A", 1, "assets", "old", "model.bin">>}

=============================================================================
