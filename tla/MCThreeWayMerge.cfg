CONSTANTS
    t1 = t1
    Triple = {t1, t2}
    Name <- MCNames
    Master <- MCMaster
    MasterRef = MasterRef
    MaxRevision = 4
    Changes <- MCChanges
    MergeTypes = {"AUTO", "COMMON", "WITH", "MANUAL"}
    Plain <- MCPlain
SPECIFICATION MergeSpec
INVARIANTS MergeTypeOK ProgressIsExact AutomaticMergeKeepsSource WithPartDecidesConflicts MergedHistoryReplays
