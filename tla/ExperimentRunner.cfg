\* Up to three workers, with every way each of them may end.
CONSTANTS
    Setups <- SomeSetups
SPECIFICATION Spec
INVARIANTS
    EveryAttemptCounted
    OkRowsAreWhole
    NothingOutlivesTimeout
    ExitCodeTrue
PROPERTIES
    RunEnds
CHECK_DEADLOCK FALSE
