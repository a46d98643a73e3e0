\* Writes of the owner and of an agent, bundles to and fro, grants, revocations,
\* rotations and deaths.
CONSTANTS
    p1 = p1
    c1 = c1
    a1 = a1
    Agents = {a1}
    SphereOf <- Circle
    GammaReaders = {a1}
    Sections = {p1, c1}
    ZoneOf <- Places
    Plans <- SharedOrRotated
SPECIFICATION Spec
INVARIANT DocReplaysLog
INVARIANT VerifiesUnlessExplained
INVARIANT LogVerifiesUnlessExplained
INVARIANT RevokedLearnNothingNew
CHECK_DEADLOCK FALSE
