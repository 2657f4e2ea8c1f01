SPECIFICATION FairSpec
CONSTANTS
    p = p  q = q
    Processes = {p, q}
    MaxSize = 4
    MaxKills = 1
INVARIANTS
    TypeOK
    EntryMeansRead
    CountsNeverAhead
PROPERTIES
    EveryLineComesIn
