CONSTANTS
    Data = {a, b, c}
    Depth = 4
SPECIFICATION Spec
INVARIANTS TypeOK PointersAgree
PROPERTIES ImplementsQueue HeadStable
