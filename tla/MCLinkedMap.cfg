SPECIFICATION MapSpec
CONSTANTS
    Key = {k1, k2, k3, k4}
    Value = {a, b}
    kMaxCapacity = 4
SYMMETRY MCSymmetry
INVARIANTS
    StructuresAgree
    FindsFirst
PROPERTIES
    KeepsRecency
CHECK_DEADLOCK FALSE
