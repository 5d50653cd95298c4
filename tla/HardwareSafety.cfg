\* Two invocations, two batches, three new jobs and one of another run.
CONSTANTS
    NoJob = NoJob
    Procs = {p1, p2}
    BatchCount = 2
    Jobs = {j1, j2, j3, other}
    ForeignJobs = {other}
    MaxJobs = 2
    MaxFailures = 2
    MalformedResults = TRUE
SPECIFICATION Spec
SYMMETRY Symmetry
INVARIANTS
    NoDoubleCharge
    JobsAttributable
    CopyIsCurrent
    SummaryAccurate
PROPERTY ImplementsLedger
