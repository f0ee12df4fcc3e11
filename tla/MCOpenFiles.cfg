SPECIFICATION Spec
CONSTANTS
    c1 = c1
    file = file
    device = device
    NoPath = NoPath
    Closed = Closed
    NoCall = NoCall
    Calls <- OneCall
    Fds <- TwoFds
    Paths <- TwoPaths
    Regular <- OneRegular
INVARIANTS TypeOK AnsweredOnceAndLast BetweenThroughoutAndEver
PROPERTIES AnsweredUnlessEmpty
CHECK_DEADLOCK FALSE
