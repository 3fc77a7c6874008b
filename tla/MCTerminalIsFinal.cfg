SPECIFICATION Spec
CONSTANTS
    Users = {u1, u2}
    Handlers = {h1, h2}
    MaxFaults = 0
    None = None
PROPERTY
    TerminalIsFinal
