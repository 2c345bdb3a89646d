CONSTANTS
    Chars <- NoChars
    LineCtrls <- MCLines
    TICKS = 8
SPECIFICATION RxSpec
PROPERTIES SpacedOut EveryFrameEnds
