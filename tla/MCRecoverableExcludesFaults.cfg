SPECIFICATION CurtailmentSpec
CONSTANTS
    Signs = {"equipment_fault", "grid_instruction"}
    PersistenceSamples = 2
    MergeGap = 2
    Gaps = {1, 2}
    MaxSamples = 5
INVARIANT RecoverableExcludesFaults
CHECK_DEADLOCK FALSE
