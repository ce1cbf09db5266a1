------------------------ MODULE MCPipelineDefinition ------------------------
(* Model of a pipeline definition for TLC: configuration A uses a model with *)
(* a static shape and a custom node, configuration B another custom node     *)
(* and also a model whose shape is "auto".                                   *)
EXTENDS PipelineDefinition

CONSTANTS r1, r2, static, auto, A, B, n1, n2

MCRequests == {r1, r2}
MCModels == {static, auto}
MCAutoModels == {auto}
MCConfigs == {A, B}
MCUses == [c \in MCConfigs |-> IF c = A THEN {static} ELSE {static, auto}]
MCCustoms == [c \in MCConfigs |-> IF c = A THEN {n1} ELSE {n2}]

=============================================================================
