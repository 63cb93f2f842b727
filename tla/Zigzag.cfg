\* Every number of the scaled int32.
SPECIFICATION Spec
CONSTANTS
    Base = 8
    Groups = 3
    Word = 256
    Int32 = 64
INVARIANT ZigzagReadsBack
CHECK_DEADLOCK FALSE
