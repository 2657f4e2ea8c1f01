SPECIFICATION Spec
CONSTANTS
    w1 = w1  w2 = w2  w3 = w3
    Ids = {1, 2, 3, 4}
    Phrases = {w1, w2, w3}
    Family <- MCFamily
    Bands = 2
    Thresholds <- MCThresholds
    Windows <- MCWindows
    Scores <- MCScores
INVARIANTS
    TypeOK
    WeakestBuiltIt
PROPERTIES
    PartitionKept
