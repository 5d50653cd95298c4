CONSTANTS
    Jobs <- AllJobs
SPECIFICATION Spec
INVARIANTS
    TypeOK
    PassesAreAtomic
    ReportsAreVerified
    ResultsTogether
CHECK_DEADLOCK FALSE
