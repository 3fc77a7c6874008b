SPECIFICATION Spec
CONSTANTS
    QUEUE_MAX_RECORDS = 3
    MaxMeasurements = 4
    MaxBoots = 2
    None = None
INVARIANT PowerCyclesKeepTheQueue
CHECK_DEADLOCK FALSE
