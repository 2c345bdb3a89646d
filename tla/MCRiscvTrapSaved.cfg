CONSTANTS
    Programs <- MCPrograms
    TrapBase <- MCTrapBase
    AnyTime = FALSE
    None = None
    Broken = Broken
SPECIFICATION Spec
PROPERTY EntrySaved
