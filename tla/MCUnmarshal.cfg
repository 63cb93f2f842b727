\* Two threads, a message that both decode into as they like, and one that is
\* never in two calls at once.
SPECIFICATION FairSpec
CONSTANTS
    main = main
    worker = worker
    own = own
    shared = shared
    flat = flat
    literal = literal
    list = list
    broken = broken
    sbe = sbe
    brokenSbe = brokenSbe
    Thread = {main, worker}
    Message = {own, shared}
    PxfDoc = {flat, literal, list, broken}
    SbeDoc = {sbe, brokenSbe}
    WellFormed = {flat, literal, list, sbe}
    PxfDepth <- MCPxfDepth
    PbDepth <- MCPbDepth
    Limit <- SignedLimits
    DefaultDepth = 2
    RuntimeDepth = 2
    Interruptible = {main}
    Owned = {own}
    MaxCalls = 2
INVARIANTS TypeOK NoMixing LowLimitNeverFails LoadedUntilReplaced
PROPERTIES AtomicForOwner EveryCallEnds
CHECK_DEADLOCK FALSE
