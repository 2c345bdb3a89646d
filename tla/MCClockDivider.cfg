CONSTANTS
    Span = 16
    Divisors <- MCDivisors
SPECIFICATION FairSpec
INVARIANTS TypeOK NoLongCount WaveShape
PROPERTY KeepsTicking
