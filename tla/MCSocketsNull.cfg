SPECIFICATION SocketsSpec
CONSTANTS
    root = root
    p1 = p1
    usd = usd
    usdc = usdc
    base = base
    Malformed = Malformed
    shop = shop
    m1 = m1
    junk = junk
    null = null
    JsonNull = JsonNull
    EmptyRef = EmptyRef
    NoRef = NoRef
    None = None
    NL = NL
    r1 = r1
    Agents = {root}
    Principals = {p1}
    ThePrincipal = p1
    Callers <- MCCallers
    Amounts = {1}
    Currencies = {usd}
    Allowances <- MCAllowances
    TxRefs = {r1}
    Intents = {1, 2}
    Attempts = {1, 2}
    Times = {0}
    MaxRows = 2
    Requests = {1, 2}
    Claims <- MCClaims
    Offers <- MCOffers
    KnownAssets <- MCKnownAssets
    EnvelopeOf <- MCEnvelopeOf
    ParentOf <- MCParentOf
    MaxSkew = 1
    SplitSigner = FALSE
    Conns = {1, 2}
    Messages = {m1, junk, null}
    ClaimIn <- MCClaimIn
INVARIANT MalformedLinesAreRefused
