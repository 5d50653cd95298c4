CONSTANTS
    Width = 2
    Supported <- TargetOps
    Calls <- ContractCalls
    Edits <- EditChoices
    OptionSets <- AllOptions
    Compiler = "contract"
    MaxCount = 0
SPECIFICATION Spec
INVARIANTS
    TypeOK
    ContractNeverRejected
CHECK_DEADLOCK FALSE
