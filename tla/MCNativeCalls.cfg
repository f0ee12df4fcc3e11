SPECIFICATION Spec
CONSTANTS
    c1 = c1
    c2 = c2
    c3 = c3
    Calls <- ThreeCalls
    Mixes <- Combined
    PoolSize = 2
    CpuCounts <- Processors
    IndexRange = 3
INVARIANTS TypeOK AnswerMatchesWork LeaksAreKnown RaceNeedsThePool
PROPERTIES CallAnswered
\* Every call may be over, and node may have died.
CHECK_DEADLOCK FALSE
