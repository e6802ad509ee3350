SPECIFICATION Spec
CONSTANTS
    a1 = a1
    usd = usd
    shop = shop
    usdc = usdc
    base = base
    k1 = k1
    k2 = k2
    x = x
    y = y
    EmptyRef = EmptyRef
    NoRef = NoRef
    None = None
    Nobody = Nobody
    Agents = {a1}
    Principals = {1, 2}
    Callers <- MCCallers
    Amounts = {2}
    Currencies = {usd}
    Allowances <- MCAllowances
    TxRefs = {1, 2}
    Intents = {None}
    Attempts = {1}
    Times = {1, 2}
    MaxRows = 2
    Payments = {1, 2}
    PaymentRequests <- MCPaymentRequests
    EnvelopeOf <- MCEnvelopeOf
    Procs = {x, y}
    ThePrincipal = 1
    Tokens = {usdc}
    ChainIds = {base}
    MaxValue = 2
    Horizon = 1
    Second = 2
    Asks = {1}
    Keys = {k1, k2}
    Payloads <- MCPayloads
SYMMETRY MCSymmetry
CONSTRAINT MCBound
INVARIANTS LibraryTypeOK OneAccount LedgerTellsTheTruth SignedWithinPolicy RefusedForAReason
