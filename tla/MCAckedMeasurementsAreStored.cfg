SPECIFICATION Spec
CONSTANTS
    Requests = {r1, r2}
    MaxMeasurements = 2
    MaxCredentials = 2
    MaxFaults = 2
    MaxRewinds = 0
    MaxRecords = 2
    None = None
INVARIANT AckedMeasurementsAreStored
CHECK_DEADLOCK FALSE
