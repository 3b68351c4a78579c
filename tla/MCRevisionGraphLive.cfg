CONSTANTS
    Triple = {t1}
    Name <- MCNames
    Master <- MCMaster
    MasterRef = MasterRef
    MaxRevision = 3
SPECIFICATION FairSpec
PROPERTIES RebuildEnds
