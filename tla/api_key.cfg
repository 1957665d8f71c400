\* Parts that never run together share their model values.
CONSTANTS
    Rules <- EveryRule
    Contexts <- EveryContext
    MaxRules = 0
    Calls = {s1, s2}
    Amounts = {2}
    Prices = {1, 2}
    MaxUsd = 4
    MaxCount = 2
    Approvers = {1}
    MaxMissed = 2
    Outages = TRUE
    Orgs = {"o1"}
    Members = {1, 2}
    MemberOrg <- OneOrgOf
    Admins = {1}
    Keys = {k1}
    Guarded = {a1, a2}
    Attempts = {a1, a2}
    WINDOW = 2
    RATE_LIMIT = 2
    MaxCounted = 3
    Lookups = {a1, a2}
    Tokens = {k1, k2}
    Registry = {k1}
    TTL = 2
    FETCH_TIMEOUT = 1
    MAX_RETRIES = 1
    RedisLag = 1
SPECIFICATION Spec
SYMMETRY CallSymmetry
CHECK_DEADLOCK FALSE
INVARIANTS KeysReachTheirGuard
