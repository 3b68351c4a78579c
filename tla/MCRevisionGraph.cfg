CONSTANTS
    Triple = {t1, t2}
    Name <- MCNames
    Master <- MCMaster
    MasterRef = MasterRef
    MaxRevision = 3
SPECIFICATION Spec
INVARIANTS TypeOK FullGraphIsLeafContent ChangeSetsReplay HistoryIsTree RebuildIsExact RewritingIsExact
PROPERTIES HistoryIsKept ReferencesStayFound UpdateTakesEffect RevertRestores ImplementsVersionedGraph
SYMMETRY MCTriples
