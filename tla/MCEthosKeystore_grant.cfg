\* A grant on a v0.3 directory.
CONSTANTS
    p1 = p1
    c1 = c1
    d1 = d1
    d2 = d2
    Sections = {p1, c1}
    ZoneOf <- Places
    Delegates = {d1, d2}
    SphereOf <- Spheres
    Scoped = {d2}
    Covers <- Scopes
    MaxEditions = 4
SPECIFICATION Spec
INVARIANT AcknowledgedIsKept
CHECK_DEADLOCK FALSE
