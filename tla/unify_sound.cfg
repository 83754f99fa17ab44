SPECIFICATION FairSpec
CONSTANTS
    Absent = Absent
    Torn = Torn
    server = server
    cli = cli
    Caller = {"c1", "c2"}
    Process <- OneProcess
    Home <- ServerHome
    Slug = {"a", "b"}
    Word = {"w", "wz"}
    Clean <- Unchanged
    ParserOutput <- SomeWords
    InitialParsed <- NoneParsed
    Operations = {"parse", "unify", "rollback", "reset", "improve"}
    MaxLog = 2
    Faults = {}
INVARIANTS
    TypeOK
    OneAtATime
    UnifiedFollowsLog
    NoDictionaryTwice
PROPERTIES
    RollbackKeepsBackup
    PipelineFreed
