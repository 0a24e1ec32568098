SPECIFICATION Spec
CONSTANTS
    a = a
    b = b
    pa = pa
    x1 = x1
    x2 = x2
    x3 = x3
    Inf = Inf
    None = None
    Actors = {a, b}
    Targets = {a}
    Locatives = {pa, x1, x2, x3}
    Primal <- MCPrimal
    MaxNow = 0
    ExpiresArgs = {Inf}
    SendsArgs = {1, 2, None}
    SendersArgs = {None}
SYMMETRY Symmetry
INVARIANTS
    TypeOK
    BudgetConserved
    SubtreeWithinGrant
PROPERTY
    ImplementsAccounts
CHECK_DEADLOCK FALSE
