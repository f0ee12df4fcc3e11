SPECIFICATION Spec
CONSTANTS
    MaxSuffix = 1
    MaxCpus = 3
    PerCpu <- Matches
    Total = 3
    Devices <- Listing
    Digit <- EndInDigit
    PartOf <- Disk
    Within <- Contained
    FsTypes <- Types
INVARIANTS TypeOK AnswerIsOfTheTime KeptIsListedOnce FailsForCause
PROPERTIES Answered
\* The call is over.
CHECK_DEADLOCK FALSE
