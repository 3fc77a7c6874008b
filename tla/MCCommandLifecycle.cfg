SPECIFICATION Spec
CONSTANTS
    Users = {u1, u2}
    Handlers = {h1, h2}
    MaxFaults = 1
    None = None
INVARIANTS
    TypeOK
    ExecutedOnlyIfApproved
    VerifiedHasExecution
PROPERTY
    QueuedSettles
