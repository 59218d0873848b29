CONSTANTS
    l1 = l1
    l2 = l2
    l3 = l3
    Logins <- MCLogins
    Peers = {a, b}
    Kinds <- MCKinds
    Threshold = 2
SPECIFICATION AuthSpec
SYMMETRY MCSymmetry
INVARIANTS
    AttemptsNumbered
    ServedOnlyIfEntitled
CHECK_DEADLOCK FALSE
