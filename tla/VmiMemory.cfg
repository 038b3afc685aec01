CONSTANTS
    P = 2
    R = 2
    Scenarios <- MCScenarios
SPECIFICATION Spec
CHECK_DEADLOCK FALSE
INVARIANTS
    CachesConsistent
    CachesTrue
    AnswersTrue
PROPERTIES
    
    WriteExact
