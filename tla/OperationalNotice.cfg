SPECIFICATION Spec
CONSTANT Passes = {p1, p2, p3, p4}
SYMMETRY PassSymmetry
INVARIANTS NoticedOnce ReservedMeansNoticed
CHECK_DEADLOCK FALSE
