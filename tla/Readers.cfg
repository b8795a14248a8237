SPECIFICATION FairSpec
CONSTANTS
    t1 = t1
    w1 = w1
    w2 = w2
    Task = {t1, t2}
    Workspace = {w1, w2}
    Request = {q1, q2}
    Home <- HomeValue
    None = None
INVARIANT TypeOK
PROPERTIES CacheConverges OverdueIsNotified MailIsBacked
