SPECIFICATION Spec
CONSTANTS
    p1 = p1
    p2 = p2
    p3 = p3
    NextNet = {n1, n2, n3}
    NONE = NONE
    Order <- MCOrder
    MaxDispSq = 3
    DistVals = {0, 2, 3}
SYMMETRY NextSymmetry
INVARIANTS
    SearchOptimal
PROPERTIES
    WorkFalls
CHECK_DEADLOCK FALSE
