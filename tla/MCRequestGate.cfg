\* Two instances, three deliveries of fresh and old envelopes.
CONSTANTS
    i1 = i1
    i2 = i2
    m1 = m1
    agent = agent
    NoKey = NoKey
    MandateSkew = 2
    Instances = {i1, i2}
    Requests = {1, 2}
    Lag <- Slow
    Plans <- AgainOrChanging
    Owner = "alice"
    ArgsOf <- Reader
    IatSkew = 2
    MaxTtl = 3
    Margin <- Margins
    Timeout = 1
    DocTtl = 3
    NoDocTtl = 1
SPECIFICATION Spec
INVARIANT RunsOnce
PROPERTY WithdrawalIsImmediate
PROPERTY OnlySignedIsSpent
INVARIANT CachesAreSound
CHECK_DEADLOCK FALSE
