\* Every row of every format; for pb-render every message shape up to the limits.
\* A run of the script ends, so TLC may stop.
SPECIFICATION HSpec
CONSTANTS
    Limit <- OrdinaryLimits
    DefaultDepth = 3
    IntMax = 7
INVARIANTS TypeOK OneDeeperAtMost EncoderDecides
    HTypeOK ExitOneIsARefusal ExitZeroIsAcceptance
CHECK_DEADLOCK FALSE
