\* Three requests of any kind on an asset that is there and on one that is being
\* uploaded overlap, die anywhere, read replicas and are sent again.
CONSTANTS
    a1 = a1
    a2 = a2
    a3 = a3
    Assets = {a1, a2, a3}
    References = {x, y}
    Requests = {q1, q2, q3}
    Ops <- Asked
    Size <- Sizes
    Sha <- SameContents
    Limit = 4
    Starts <- StoredOrStarted
SYMMETRY RequestSymmetry
SPECIFICATION Spec
INVARIANT BytesAreAccountedFor
INVARIANT TableAgreesWithLog
INVARIANT CalmTombstoneIsUnreferenced
CHECK_DEADLOCK FALSE
