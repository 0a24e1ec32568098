SPECIFICATION FairSpec
CONSTANTS
    s1 = s1
    s2 = s2
    w1 = w1
    w2 = w2
    v1 = v1
    v2 = v2
    bad = bad
    Failure = Failure
    None = None
    Senders = {s1, s2}
    Waiters = {w1, w2}
    Values = {v1, v2}
    Malformed = {bad}
    Lifespan = 2
    Patience = {1, 2}
    StartBy = 1
    MaxNow = 3
INVARIANTS
    TypeOK
    OneResolver
    AnswersAgree
    EarlyResolutionStands
    Turnstile
PROPERTIES
    ImplementsCell
    Resolved
    WaitersReturn
CHECK_DEADLOCK FALSE
