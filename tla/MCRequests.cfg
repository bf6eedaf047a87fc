SPECIFICATION RequestsSpec
CONSTANTS
    m = m
    n = n
    x = x
    e = e
    d = d
    Accounts = {m, n, x, e, d}
    Kind <- MCKind
    Workspace = {m, n}
    Address <- MCAddress
    OnDomain = {m, n}
    Products = {"transelect", "forestry"}
    Transelect = "transelect"
    EntraAdmin = e
    SeedGrants <- MCSeedGrants
    Settings <- MCSettings
    Sessions = {s1, s2}
    Requests = {r1, r2}
    None = None
    Casts <- MCCasts
    MaxGrants = 3
    Limit = 3
    Chunk = {1, 2}
    Given = {"admin", "viewer"}
    Flows = {f1, f2}
    Browsers = {b1, b2}
    People = {p1, p2}
    Admitted = {p1}
    Calls = {c1, c2}
    MaxKey = 1
    Nobody = Nobody
SYMMETRY MCSymmetry
INVARIANTS
    RolesInForce
    SessionsOfSignIns
    RefusedForAReason
    LimitHolds
PROPERTIES
    GrantsDecided
CHECK_DEADLOCK FALSE
