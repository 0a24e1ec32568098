SPECIFICATION Spec
CONSTANTS
    a = a
    b = b
    pa = pa
    x1 = x1
    x2 = x2
    x3 = x3
    Inf = Inf
    None = None
    Actors = {a, b}
    Targets = {a}
    Locatives = {pa, x1}
    Primal <- MCPrimal
    MaxNow = 1
    ExpiresArgs = {None}
    SendsArgs = {1}
    SendersArgs = {None}
INVARIANT
    AtomicReleased
CHECK_DEADLOCK FALSE
