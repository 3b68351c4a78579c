CONSTANTS
    t1 = t1
    Triple = {t1, t2}
    Name <- MCTwoNames
    Master <- MCMaster
    MasterRef = MasterRef
    MaxRevision = 3
    Changes <- MCAdditions
    MergeTypes = {"MANUAL"}
    Plain <- MCPlain
SPECIFICATION MergeSpec
INVARIANT FullGraphIsLeafContent
