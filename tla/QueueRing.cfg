SPECIFICATION Spec
CONSTANTS
    Jobs = {j1, j2, j3, j4}
    MaxKeep = 2
    None = None
    MaxRestarts = 1
INVARIANTS
    RecordsTellTruth
PROPERTIES
    RecordsMoveForward
    ListedJobsSettle
    BoardSpec
\* All jobs are submitted and ended: the system stops.
CHECK_DEADLOCK FALSE
