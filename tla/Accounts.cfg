SPECIFICATION MCSpec
CHECK_DEADLOCK FALSE
CONSTANTS
    User = {u1, u2, u3}
    Email = {e1, e2, e3}
    Request = {r1, r2, r3}
    MaxSlug = 4
    None = None
CONSTRAINT SlugBound
SYMMETRY Symmetry
INVARIANTS TypeOK EmailsUnique NobodyStranded KeysSpent NoWaitCycle
PROPERTY GrantsAreBounded
