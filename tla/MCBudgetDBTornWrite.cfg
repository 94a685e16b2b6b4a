CONSTANTS
    s0 = s0
    s1 = s1
    s2 = s2
    NoWrite = NoWrite
    States <- MCStates
    Empty = s0
    Faults = {}
SPECIFICATION Spec
INVARIANT FileLoadableAfterCrash
