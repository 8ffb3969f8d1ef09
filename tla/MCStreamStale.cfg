SPECIFICATION Spec
CONSTANTS
    s1 = s1
    s2 = s2
    Sessions <- TwoSessions
    Scripted <- TwoSessions
    NoSession = NoSession
    Statuses = {"DECLINED", "ABORT"}
    Ends = {"return", "raise"}
    MaxSleeps = 1
CHECK_DEADLOCK FALSE
INVARIANT
    RefusedByOwnScript
