SPECIFICATION FewOpenSpec
CONSTANTS
    s1 = s1
    s2 = s2
    s3 = s3
    Closed = Closed
    File = File
    NoPid = NoPid
    NoKind = NoKind
    Procs <- TwoProcs
    Fds <- TwoFds
    MaxChanges = 1
    Socks <- ThreeSocks
    TableOf <- OneOfEach
    Kinds <- SomeKinds
INVARIANTS SharedIsRefused
CHECK_DEADLOCK FALSE
