\* Rows as the reading layer meets them: spellings of every type, absences,
\* joins, and personal data that overlaps.
SPECIFICATION Spec
CHECK_DEADLOCK FALSE
CONSTANTS
    Json <- MCJson
    IntOf <- MCIntOf
    FloatOf <- MCFloatOf
    Digits <- MCDigits
    InstantOf <- MCInstantOf
    TrueWords <- MCTrueWords
    FalseWords <- MCFalseWords
    Patterns <- MCPatterns
    Canonical <- MCCanonical
    Allowed <- MCAllowed
    Sources <- MCSources
    HashOf <- MCHashOf
    Threshold = 40
    PerSecond = 4
    LastSecond = 60
    MaxText = 4
INVARIANTS
    TypeOK
    ReadsAsMapped
    AbsentIsAbsent
    TextsInReadingOrder
    TokensTellValues
