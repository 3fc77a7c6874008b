SPECIFICATION Spec
CONSTANTS
    QUEUE_MAX_RECORDS = 3
    MaxMeasurements = 4
    MaxBoots = 2
    None = None
INVARIANTS
    TypeOK
    LoadPicksLiveMeta
    SoleCopyKept
PROPERTIES
    FifoUntilPowerLoss
\* The model stops when every measurement is taken and uploaded.
CHECK_DEADLOCK FALSE
