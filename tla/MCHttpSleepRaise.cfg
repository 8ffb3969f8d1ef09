\* Scripts without output that raise after a sleep.
SPECIFICATION Spec
CONSTANTS
    r1 = r1
    r2 = r2
    Requests = {r1, r2}
    NoRequest = NoRequest
    Handlers <- RewriteAccess
    Codes <- Decline
    Rputs = {FALSE}
    Ends = {"return", "raise"}
    MaxSleeps = 1
SYMMETRY RequestSymmetry
CHECK_DEADLOCK FALSE
INVARIANT
    RaiseAnswers500
