\* One call of a process of three threads, and the promise it implements.
SPECIFICATION Spec
CONSTANTS
    c1 = c1
    c2 = c2
    NoCall = NoCall
    Calls <- OneCall
    Tids <- ThreeThreads
INVARIANTS AnsweredOnceAndLast CompleteUnlessError BetweenThroughoutAndEver
PROPERTIES AnsweredUnlessEmpty ImplementsIntervalQuery
\* The program may make no further call and the process may have exited.
CHECK_DEADLOCK FALSE
