CONSTANTS
    t1 = t1
    Triple = {t1, t2}
    Name <- MCNames
    Master <- MCMaster
    MasterRef = MasterRef
    MaxRevision = 3
    Changes <- MCChanges
    MergeTypes = {"AUTO"}
    Plain <- MCPlain
SPECIFICATION MergeSpec
INVARIANT RewritingIsExact
