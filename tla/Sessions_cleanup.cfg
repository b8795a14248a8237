SPECIFICATION FairSpec
CONSTANTS
    User = {u1}
    Jti = {j1, j2}
    ResetKey = {k1}
    Request = {r1, r2}
    None = None
PROPERTY RevokedRowsPurged
