CONSTANTS
    RxDepth = 2
    TxDepth = 2
    Spacing = 3
    Words <- MCWords
    FcrWrites <- MCFcrWrites
    IerWrites <- MCIerWrites
    NoWord = NoWord
SPECIFICATION Spec
INVARIANTS TypeOK LossReported ErrorTold PolledWriteAccepted InterruptSettles
