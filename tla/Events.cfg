CONSTANTS
    Gfns = {"g1", "g2"}
    Slats = {0, 1}
    Msrs = {"lstar"}
    Ev <- MCEv
    StepEvent <- MCStepEvent
    Scenarios <- MCScenarios
    Callbacks <- ClientCallbacks
    Calls <- ClientCalls
    Own <- TracerOwn
SPECIFICATION Spec
INVARIANTS NoneLost WatchesMatch PausesBalanced  TracedOnce
PROPERTIES  Progress
CHECK_DEADLOCK FALSE
