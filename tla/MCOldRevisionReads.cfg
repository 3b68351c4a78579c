CONSTANTS
    t1 = t1
    Triple = {t1}
    Name <- MCNames
    Master <- MCMaster
    MasterRef = MasterRef
    MaxRevision = 2
    Reader = {p1, p2}
    Changes <- MCChanges
    Queries <- MCQueries
SPECIFICATION ReadSpec
INVARIANTS ReadTypeOK UndisturbedReadsAreExact CreateFailsOnlyByRace PathLeadsBack
SYMMETRY MCReaders
