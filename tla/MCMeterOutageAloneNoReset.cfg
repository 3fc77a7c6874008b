SPECIFICATION FirmwareSpec
CONSTANTS
    PollTicks = 3
    BackoffTicks = 2
    MaxDepth = 2
INVARIANT MeterOutageAloneNoReset
