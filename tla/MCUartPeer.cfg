CONSTANTS
    Chars <- MCChars
    LineCtrls <- MCLines
    TICKS = 16
    MaxDrift = 3
    Gaps <- Pauses
    Noise = TRUE
    NoWord = NoWord
SPECIFICATION PeerSpec
INVARIANTS PeerFaithful NoFrameMissed
PROPERTY PeerImplementsScoreboard
