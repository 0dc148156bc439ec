CONSTANTS
    Workers = 2
    Evidence = TRUE
    F2Modes = {TRUE, FALSE}
    RedriveCap = 1
    RunCap = 2
SPECIFICATION Spec
INVARIANTS
    ImplementedOnce
    SynthesisSeesAll
    NothingPastFailure
    CheckpointsVouch
PROPERTIES
    NeverRedone
CHECK_DEADLOCK FALSE
