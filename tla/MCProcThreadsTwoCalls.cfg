\* Two calls, each with or without a callback, of a process of two threads.
SPECIFICATION Spec
CONSTANTS
    c1 = c1
    c2 = c2
    NoCall = NoCall
    Calls <- TwoCalls
    Tids <- TwoThreads
SYMMETRY CallsAreAlike
INVARIANTS TypeOK CountIsOutstanding ErrorHasCause
PROPERTIES AnswerIsFinal
\* The program may make no further call and the process may have exited.
CHECK_DEADLOCK FALSE
