SPECIFICATION Spec
CONSTANTS
    Ids = {i1, i2, i3}
    Names = {n1, n2}
    Emails = {e1}
    Calls = {c1, c2, c3}
    MaxCalls = 5
    MaxFailures = 1
INVARIANTS
    Inv
    RegistersWhatIsFree
PROPERTIES
    NamesChecked
    OthersFieldsStay
    DeletedStays
SYMMETRY Symmetry
CHECK_DEADLOCK FALSE
