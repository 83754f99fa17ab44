SPECIFICATION FairSpec
CONSTANTS
    r1 = r1  r2 = r2  u1 = u1  s1 = s1
    w1 = w1  w2 = w2  n1 = n1  n2 = n2  m1 = m1  m2 = m2
    Unset = Unset
    Nothing = Nothing
    Request = {r1, r2}
    Runner = 1
    User = {u1}
    Suggestion = {s1}
    Word = {w1, w2}
    Form = {n1, n2}
    Meaning = {m1, m2}
    Norm <- MCNorm
    Cleaned <- MCCleaned
    Files <- MCFiles
    Operations = {"update", "delete", "bulkDelete", "bulk", "revert", "suggest", "review", "toggle", "clear", "deleteUser", "improve", "load"}
    MaxId = 3
    Edits <- MCEdits
    Proposed <- MCProposed
    Batches <- MCBatches
    MaxRequests = 3
CHECK_DEADLOCK FALSE
INVARIANTS
    TypeOK
    NoOrphans
    NormDivergesOnlyByReview
    AuditOfRealValues
    ApprovedApplied
    OneLoadInTable
PROPERTIES
    DeletedStaysDeleted
    RequestsEnd
