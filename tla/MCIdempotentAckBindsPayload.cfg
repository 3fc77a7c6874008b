SPECIFICATION Spec
CONSTANTS
    Requests = {r1, r2}
    MaxMeasurements = 2
    MaxCredentials = 2
    MaxFaults = 0
    MaxRewinds = 1
    MaxRecords = 2
    None = None
PROPERTY IdempotentAckBindsPayload
CHECK_DEADLOCK FALSE
