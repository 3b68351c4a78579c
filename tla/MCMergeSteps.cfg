CONSTANTS
    Merge = {m1, m2}
    Branch = {b1, b2}
    MaxRevision = 4
SPECIFICATION Spec
INVARIANTS StepsTypeOK NothingIsLost UndisturbedMergesAreAlone FullGraphIsNotAhead EdgesHaveChangeSets
SYMMETRY MCSymmetry
CHECK_DEADLOCK FALSE
