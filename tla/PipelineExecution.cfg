SPECIFICATION Spec
CONSTANTS
    Scenarios <- MCScenarios
    Counts = {0, 1, 2, 3, 4}
    DEMULTIPLY_LIMIT = 3
    MaxFailures = 1
INVARIANTS
    ResponseCorrect
    ResponseAsDeclared
    NothingLeft

    
CHECK_DEADLOCK FALSE
