SPECIFICATION FairSpec
CONSTANTS
    TextCap = 4
    HashCap = 2
    WorldCount = 2
    SkipDepth = 2
    PayloadCap = 6
    LineCap = 8
    Texts <- MCTexts
    NewFields <- MCNewFields
    Sizes = {1, 4, 7}
    RingCap = 2
    EchoCap = 3
    LoggedSends = 1
    MaxMoves = 2
INVARIANTS CommandsUnderstood ReportsUnderstood
PROPERTY Settles
