SPECIFICATION Spec
CONSTANTS
    r1 = r1  r2 = r2  r3 = r3
    i = i  j = j
    Records = {r1, r2, r3}
    CaseIds = {i, j}
    CaseId <- MCCaseId
    Shortlists <- MCShortlists
    Standing <- MCStanding
    MaxCalls = 2
    MaxCommands = 6
    MaxKills = 1
INVARIANTS
    TypeOK
    GoldenIdsUnique
    NoPlaceholderAdopted
    OneCallEach
    EmitTellsOneStory
PROPERTIES
    GoldensOnlyGrow
