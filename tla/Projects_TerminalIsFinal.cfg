SPECIFICATION Spec
CHECK_DEADLOCK FALSE
CONSTANTS
    Project = {p1}
    Request = {r1, r2}
    None = None
PROPERTY TerminalIsFinal
