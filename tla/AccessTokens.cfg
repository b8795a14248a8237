SPECIFICATION Spec
CONSTANTS
    Jti = {j1, j2}
    Request = {r1, r2}
    None = None
    Lifetime = 2
    Ticks = 2
    MaxSec = 4
SYMMETRY Symmetry
CHECK_DEADLOCK FALSE
INVARIANTS TypeOK LogoutHoldsUntilExp
PROPERTY DenialNotCutShort
