SPECIFICATION Spec
CONSTANTS
    Requests = {r1, r2}
    MaxMeasurements = 3
    MaxCredentials = 2
    MaxFaults = 2
    MaxRewinds = 1
    MaxRecords = 2
    None = None
INVARIANTS
    TypeOK
    OneBodyPerSequence
    AckedWasAccepted
    AckedLostOnlyByInterruption
PROPERTIES
    ReadingsImmutable
    QueueDrains
\* The model stops when every measurement is acknowledged and the bounds are used up.
CHECK_DEADLOCK FALSE
