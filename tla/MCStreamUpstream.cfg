\* Two scripted sessions and one without a script; all endings.
SPECIFICATION UFairSpec
CONSTANTS
    s1 = s1
    s2 = s2
    s3 = s3
    Sessions <- ThreeSessions
    Scripted <- TwoSessions
    NoSession = NoSession
    Statuses = {"DECLINED", "OK", "ABORT"}
    Ends = {"return", "raise"}
    MaxSleeps = 2
    Servers = {"a", "b"}
    Configured = "c"
CHECK_DEADLOCK FALSE
INVARIANTS
    TypeOK
    OnlyAllowedPass
    TimerResumesOwner
    SleepingFiberRooted
PROPERTIES
    ImplementsGate
    EverySessionProceeds
    LastChoiceReached
