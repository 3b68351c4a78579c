CONSTANTS
    Thread = {p1, p2}
    MaxNumber = 2
SPECIFICATION Spec
INVARIANTS LifeTypeOK DropLeavesNothing OnlyOverlapsLock GraphIsWholeOrGone
SYMMETRY MCThreads
