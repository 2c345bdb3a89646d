CONSTANTS
    Chars <- MCChars
    LineCtrls <- MCLines
    TICKS = 16
    TxDepth = 16
    FIFO_DEPTH = 16
    TIMEOUT = 1000
    Gaps <- MCGaps
    Past <- MCPast
SPECIFICATION DriverSpec
INVARIANTS DriverTypeOK NoFalseReport SentIntact
PROPERTIES SettledLine
