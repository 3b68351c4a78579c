CONSTANTS
    Master = Master
    Branch = {b1, b2, b3}
    MaxRevision = 3
SPECIFICATION Spec
INVARIANTS ViewTypeOK CirclesDoNotCollide LanesAreFewest
SYMMETRY MCBranches
