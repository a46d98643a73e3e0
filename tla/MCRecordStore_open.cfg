\* Every operation, with and without expected_modified_at.
CONSTANTS
    Records = {r1}
    Requests = {q1, q2, q3}
    Wiped = Wiped
    Ops <- EveryOp
    Callers = {"owner", "write", "append"}
    BareUpdates = TRUE
    CoarseClock = FALSE
SYMMETRY RequestSymmetry
SPECIFICATION Spec
PROPERTY UpdateReplacesWhatWasRead
PROPERTY AppendNeverOverwrites
PROPERTY OnlyBareUpdatesRevive
PROPERTY ImplementsLifecycle
INVARIANT AnswersTellTheTruth
INVARIANT BooksAreKept
CHECK_DEADLOCK FALSE
