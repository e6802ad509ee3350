SPECIFICATION LedgerSpec
CONSTANTS
    a1 = a1
    a2 = a2
    p1 = p1
    usd = usd
    r1 = r1
    EmptyRef = EmptyRef
    NoRef = NoRef
    Agents = {a1, a2}
    Principals = {p1}
    Callers <- MCCallers
    Amounts = {1, 2}
    Currencies = {usd}
    Allowances <- MCAllowances
    TxRefs = {r1}
    Intents = {1}
    Attempts = {1}
    Times = {0, 1, 2}
    MaxRows = 3
SYMMETRY MCSymmetry
INVARIANTS TypeOK EveryWindowWithinAllowance
PROPERTIES SettledIsFinal ImplementsPool
