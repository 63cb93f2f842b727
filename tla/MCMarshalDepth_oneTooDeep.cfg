\* A message exactly one level too deep, at the default and at a limit of its own.
SPECIFICATION Spec
CONSTANTS
    Limit = {0, 1, 2}
    DefaultDepth = 3
    IntMax = 7
INVARIANT OneTooDeepIsTheEncoders
CHECK_DEADLOCK FALSE
