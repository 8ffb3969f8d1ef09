\* Liveness: scripts that never ask the engine to wait; two access handlers.
SPECIFICATION FairSpec
CONSTANTS
    r1 = r1
    r2 = r2
    Requests = {r1, r2}
    NoRequest = NoRequest
    Handlers <- TwoAccessContent
    Codes <- ProceedOrRefuse
    Rputs = {FALSE}
    Ends = {"return", "raise"}
    MaxSleeps = 2
CHECK_DEADLOCK FALSE
INVARIANTS
    TimerResumesOwner
    SleepingFiberRooted
PROPERTY
    EveryRequestCloses
