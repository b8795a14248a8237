SPECIFICATION Spec
CONSTANTS
    User = {u1}
    Jti = {j1, j2, j3}
    ResetKey = {k1}
    Request = {r1, r2}
    None = None
INVARIANT ResetRevokesAll
