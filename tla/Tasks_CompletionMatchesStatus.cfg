SPECIFICATION Spec
CHECK_DEADLOCK FALSE
CONSTANTS
    Task = {t1}
    Project = {p1}
    Comment = {c1}
    File = {f1}
    User = {u1, u2}
    Request = {r1, r2}
    None = None
INVARIANT CompletionMatchesStatus
