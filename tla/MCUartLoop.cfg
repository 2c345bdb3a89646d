CONSTANTS
    Chars <- MCChars
    LineCtrls <- SomeLines
    TICKS = 8
    TxDepth = 2
SPECIFICATION LoopFairSpec
INVARIANTS LoopTypeOK LineIsFrame Faithful NothingLost
PROPERTIES FrameLasts ComesBack ImplementsScoreboard
