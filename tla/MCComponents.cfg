SPECIFICATION Spec
CONSTANTS
    Calls = {c1, c2}
    MaxUpdates = 2
    Spellings = {s1, s2}
    NumProviders = 2
    FailureThreshold = 2
    MaxValue = 2
    MaxRamp = 1
    Signs <- MCSigns
    PersistenceSamples = 2
    MergeGap = 2
    Gaps = {1, 2}
    MaxSamples = 5
    MaxVersion = 3
    PollTicks = 3
    BackoffTicks = 2
    MaxDepth = 2
INVARIANTS
    TypeOK
    EscalationsAndNotesKept
    CaseHistoryComplete
    OneActiveKey
    OneConfigServed
    SuspendedSignedOut
    AccountsWithinLimits
    ClosedIffFewFailures
    ClearedCachesFresh
    EventsAreTheRuns
    NotBelowWatermark
    QuietDeviceNotReset
PROPERTIES
    ReactivatedOnlyFromCleared
    SettledOrdersStay
    KeysOnlyAdvance
    SessionDroppedOnlyByRace
    MonitorKeepsMaintenance
    MovesWithinLimits
    ReportsHold
    OldVersionsStayOut
    SilentNodeReported
CHECK_DEADLOCK FALSE
