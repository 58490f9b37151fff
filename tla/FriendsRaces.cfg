SPECIFICATION Spec
CONSTANTS
    Users = {u1, u2}
    Calls = {c1, c2, c3, c4}
    MaxFailures = 1
INVARIANTS
    OnePending
    AnswersHold
    CrossingAccepted
    BothWanted
    NoticesTrue
PROPERTIES
    Serialised
SYMMETRY Symmetry
CHECK_DEADLOCK FALSE
