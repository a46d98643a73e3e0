SPECIFICATION Spec
CONSTANTS
    Zones = {"circle"}
    Present <- MCPresent
    Mandates = {"m1"}
    ZoneOf <- MCZoneOf
    Pack = "m1"
    Offered <- MCOffered
    ToolScopes <- MCToolScopes
    Scopes <- MCScopes
    Plans <- MCPlans
INVARIANT StagedOnce
INVARIANT EditionsAreSound
INVARIANT CommitFailsForAReason
INVARIANT EndedMandateReachesNothing
INVARIANT AuditTellsWhatHappened
INVARIANT ClientsAreOwned
CHECK_DEADLOCK FALSE
