\* One invocation at a time, all results well formed.
CONSTANTS
    NoJob = NoJob
    Procs = {p1}
    BatchCount = 2
    Jobs = {j1, j2}
    ForeignJobs = {}
    MaxJobs = 1
    MaxFailures = 1
    MalformedResults = FALSE
SPECIFICATION FairSpec
INVARIANT TypeOK
PROPERTIES
    InvocationEnds
    AvailableResultsWritten
