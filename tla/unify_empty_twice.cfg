SPECIFICATION Spec
CONSTANTS
    Absent = Absent
    Torn = Torn
    server = server
    cli = cli
    Caller = {"c1"}
    Process <- OneProcess
    Home <- ServerHome
    Slug = {"a", "b"}
    Word = {"w", "wz"}
    Clean <- Unchanged
    ParserOutput <- EitherOrNone
    InitialParsed <- NoneParsed
    Operations = {"parse", "unify", "rollback", "reset", "improve"}
    MaxLog = 2
    Faults = {}
INVARIANT NoDictionaryTwice
