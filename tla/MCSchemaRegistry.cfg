\* Registrations of three schemas race with each other and with validations on
\* two instances; the quota is one schema.
CONSTANTS
    s1 = s1
    d1 = d1
    d2 = d2
    Instances = {i1, i2}
    Ids = {s1, s2, s3}
    Docs = {d1, d2}
    Proposals <- DisputeOnOne
    MaxSchemas = 1
    None = None
    Uncached = Uncached
SYMMETRY Symmetry
SPECIFICATION RegistrySpec
INVARIANT CacheIsRegistered
INVARIANT RegistryTellsTheTruth
INVARIANT QuotaOverrunIsBounded
CHECK_DEADLOCK FALSE
