SPECIFICATION StoreSpec
CONSTANTS
    p1 = p1
    p2 = p2
    usd = usd
    eur = eur
    shop = shop
    cafe = cafe
    a = a
    b = b
    NoExpiry = NoExpiry
    NoAllowance = NoAllowance
    Nothing = Nothing
    Amounts = {1, 2, 4}
    Periods = {1, 2}
    Hosts = {shop, cafe}
    Currencies = {usd, eur}
    Instants = {1, 2}
    Principals = {p1, p2}
    Processes = {a, b}
    Wanted <- MCWanted
    Allowances <- MCAllowances
    MaxAgents = 2
    MaxIssued = 3
SYMMETRY MCSymmetry
INVARIANTS StoreTypeOK RevocationCoversSubtree NarrowerThanEveryAncestor TreesOfOnePrincipal LiveWithinLimit IssuedUnderAnAllowance
