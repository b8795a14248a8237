SPECIFICATION Spec
CHECK_DEADLOCK FALSE
CONSTANTS
    Project = {p1, p2}
    Request = {r1, r2, r3}
    None = None
SYMMETRY Symmetry
INVARIANT TypeOK
PROPERTIES TerminalLeftOnlyByStaleWrite DeletedComesToRest ImplementsSoftDelete
