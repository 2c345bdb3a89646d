CONSTANTS
    Chars <- MCChars
    LineCtrls <- SomeLines
    TICKS = 8
    TxDepth = 2
SPECIFICATION LoopClearSpec
INVARIANT AcceptedIsSent
