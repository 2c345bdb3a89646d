CONSTANTS
    Programs <- MCPrograms
    TrapBase <- MCTrapBase
    AnyTime = TRUE
    None = None
    Broken = Broken
SPECIFICATION FairSpec
INVARIANT TypeOK
PROPERTIES TrapReturns IrqTaken
