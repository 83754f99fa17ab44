SPECIFICATION Spec
CONSTANTS
    Absent = Absent
    Torn = Torn
    server = server
    cli = cli
    Caller = {"c1"}
    Process <- OneProcess
    Home <- ServerHome
    Slug = {"a", "b"}
    Word = {"w"}
    Clean <- Unchanged
    ParserOutput <- One
    InitialParsed <- AllParsed
    Operations = {"unify", "rollback", "reset", "improve"}
    MaxLog = 2
    Faults = {"abort", "crash", "unlink"}
INVARIANT SnapshotsIntact
PROPERTY CompletedLogMatchesUnified
