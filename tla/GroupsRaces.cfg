SPECIFICATION Spec
CONSTANTS
    Users = {u1, u2}
    GroupIDs = {g1, g2}
    Names = {n1}
    Calls = {c1, c2, c3, c4}
    MaxFailures = 1
INVARIANTS
    Inv
    RemovalsTake
    JoinsFound
    OwnedGone
    KicksAnnounced
PROPERTIES
    StaysDeleted
SYMMETRY Symmetry
CHECK_DEADLOCK FALSE
