\* One invocation at a time, and a finished job may lack its two PUB results.
CONSTANTS
    NoJob = NoJob
    Procs = {p1}
    BatchCount = 2
    Jobs = {j1, j2}
    ForeignJobs = {}
    MaxJobs = 1
    MaxFailures = 0
    MalformedResults = TRUE
SPECIFICATION FairSpec
PROPERTY
    AvailableResultsWritten
