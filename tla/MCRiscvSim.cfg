SPECIFICATION SimSpec
CONSTANTS
    XLEN = 16
    DMEM_DEPTH = 8
    ZeroCmd <- MCZeroCmd
    Commands <- MCCommands
    Words <- MCWords
    Tests <- MCTests
    Faults <- MCFaults
INVARIANTS
    TypeOK
    NoFalseAlarm
    PhaseFits
    NeverTimesOut
    VerdictSound
PROPERTIES
    SplitAligned
    RunsOut
    Ends
