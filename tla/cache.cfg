SPECIFICATION FairSpec
CONSTANTS
    page = page  wotd = wotd  read1 = read1  read2 = read2  write1 = write1
    None = None
    Page = {page}
    WordOfDay = wotd
    Reader = {read1, read2}
    Writer = {write1}
    TTL = 2
    MinTTL = 1
    Day = 2
    MaxRead = 1
INVARIANTS
    TypeOK
    BoundedStaleness
    StaleOnlyIfExcused
PROPERTIES
    EventuallyFresh
