SPECIFICATION Spec
CONSTANTS
    Absent = Absent
    Torn = Torn
    server = server
    cli = cli
    Caller = {"c1"}
    Process <- OneProcess
    Home <- ServerHome
    Slug = {"a", "b"}
    Word = {"w", "wz"}
    Clean <- Collapsing
    ParserOutput <- EitherOrNone
    InitialParsed <- AllParsed
    Operations = {"unify", "rollback", "reset", "improve"}
    MaxLog = 3
    Faults = {}
INVARIANT EverySourceLogged
PROPERTY ImplementsHistory
