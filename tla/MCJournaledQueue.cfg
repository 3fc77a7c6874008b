SPECIFICATION Spec
CONSTANTS
    Payloads = {p1, p2}
    MaxRecords = 3
    MaxSequence = 6
    MaxGen = 16
    None = None
SYMMETRY PayloadSymmetry
INVARIANTS
    TypeOK
    NoStaleSlots
    LiveMetaNotTarget
PROPERTIES
    ImplementsQueue
    JournalClearedWhenSettled
\* The model stops when the sequence numbers are used up and the queue is empty.
CHECK_DEADLOCK FALSE
