SPECIFICATION Spec
CONSTANTS
    root = root
    child = child
    p1 = p1
    usd = usd
    usdc = usdc
    base = base
    coin = coin
    other = other
    Malformed = Malformed
    shop = shop
    elsewhere = elsewhere
    q1 = q1
    q2 = q2
    EmptyRef = EmptyRef
    NoRef = NoRef
    None = None
    r1 = r1
    Agents = {root, child}
    Principals = {p1}
    ThePrincipal = p1
    Callers <- MCCallers
    Amounts = {1, 2}
    Currencies = {usd}
    Allowances <- MCAllowances
    TxRefs = {r1}
    Intents = {1, 2}
    Attempts = {1, 2}
    Times = {0, 1}
    MaxRows = 2
    Requests = {q1, q2}
    Claims <- MCClaims
    Offers <- MCOffers
    KnownAssets <- MCKnownAssets
    EnvelopeOf <- MCEnvelopeOf
    ParentOf <- MCParentOf
    MaxSkew = 1
    SplitSigner = FALSE
INVARIANT IntentCeilingBinds
