CONSTANTS
    n1 = n1
    n2 = n2
    e1 = e1
    e2 = e2
    none = none
    Nodes <- MCNodes
    Endpoints <- MCEndpoints
    NoEndpoint = none
    MaxCandidates = 3
SPECIFICATION Spec
CHECK_DEADLOCK FALSE
INVARIANTS
    AnsweredAtMostOnce
    AnswerMatchesAttempts
PROPERTIES
    BootstrapRefinement
