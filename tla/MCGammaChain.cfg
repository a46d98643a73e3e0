\* Appends overlap, clocks disagree, reads lag, and the walk is shorter than the
\* longest chain.
CONSTANTS
    Writers = {w1, w2, w3, w4}
    MaxUlid = 5
    WalkLimit = 3
SYMMETRY WriterSymmetry
SPECIFICATION Spec
INVARIANT SerialAppendsVerify
PROPERTY BrokenStaysBroken
CHECK_DEADLOCK FALSE
