SPECIFICATION Spec
CONSTANTS
    tty1 = tty1
    pts0 = pts0
    pts1 = pts1
    NoTerm = NoTerm
    Consoles <- OneConsole
    Ptys <- TwoPtys
INVARIANTS CallbackAfterBothEnded
\* The call ends, and the terminals may all stay as they are.
CHECK_DEADLOCK FALSE
