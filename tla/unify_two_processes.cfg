SPECIFICATION Spec
CONSTANTS
    Absent = Absent
    Torn = Torn
    server = server
    cli = cli
    Caller = {"c1", "c2"}
    Process <- TwoProcesses
    Home <- SplitHome
    Slug = {"a", "b"}
    Word = {"w", "wz"}
    Clean <- Unchanged
    ParserOutput <- SomeWords
    InitialParsed <- AllParsed
    Operations = {"unify", "rollback", "reset", "improve"}
    MaxLog = 2
    Faults = {}
INVARIANT SnapshotsIntact
