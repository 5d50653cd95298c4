\* Up to three reports in any order, with and without a pattern memory.
CONSTANTS
    Files <- SomeFiles
    Calls <- SomeCalls
    MaxIndex = 4
SPECIFICATION Spec
INVARIANTS
    PromotedByEvidence
    CatalogLoads
CHECK_DEADLOCK FALSE
