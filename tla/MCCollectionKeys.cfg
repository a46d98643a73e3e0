\* Serial or overlapping requests, with crashes and retries.
CONSTANTS
    m1 = m1
    m2 = m2
    m3 = m3
    r1 = r1
    r2 = r2
    a1 = a1
    a2 = a2
    Mandates = {m1, m2, m3}
    Apps = {a1, a2}
    Grantee <- TwoOfOneApp
    Records = {r1, r2}
    Requests = {1, 2, 3, 4}
    Modes <- SerialAndOverlapping
SYMMETRY RecordsAlike
SPECIFICATION Spec
INVARIANT EnvelopeIsSound
INVARIANT RetryCompletesRotation
INVARIANT RevocationIsEnforced
INVARIANT ReadersCanRead
CHECK_DEADLOCK FALSE
