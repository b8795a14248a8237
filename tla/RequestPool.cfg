SPECIFICATION FairSpec
CONSTANTS
    Request = {r1, r2, r3}
    Threads = 2
    Connections = 1
    None = None
INVARIANTS TypeOK StallIsTimed
PROPERTIES EveryRequestEnds
