\* max_nesting_depth = INT_MAX.
SPECIFICATION Spec
CONSTANTS
    Limit = {7}
    DefaultDepth = 3
    IntMax = 7
INVARIANT OnlyDeeperIsTooDeep
CHECK_DEADLOCK FALSE
