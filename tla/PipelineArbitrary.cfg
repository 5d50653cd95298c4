CONSTANTS
    Width = 2
    Supported <- TargetOps
    Calls <- ShortCalls
    Edits <- NoEdits
    OptionSets <- FewOptions
    Compiler = "arbitrary"
    MaxCount = 1
SPECIFICATION Spec
INVARIANTS
    ReturnedCircuitComplete
    ReturnedCountsTrue
CHECK_DEADLOCK FALSE
