SPECIFICATION FewOpenSpec
CONSTANTS
    s1 = s1
    s2 = s2
    s3 = s3
    Closed = Closed
    File = File
    NoPid = NoPid
    NoKind = NoKind
    Procs <- TwoProcs
    Fds <- TwoFds
    MaxChanges = 2
    Socks <- ThreeSocks
    TableOf <- OneOfEach
    Kinds <- SomeKinds
INVARIANTS TypeOK BetweenThroughoutAndEver GivingUpHasCause
\* The call is over and every process may have exited.
CHECK_DEADLOCK FALSE
